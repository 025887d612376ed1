--------------------------- MODULE MCVaultRestore ---------------------------
(***************************************************************************)
(* Instances of VaultRestore for TLC.                                      *)
(***************************************************************************)
EXTENDS VaultRestore

CONSTANTS r1, r2, c1, c2

\* one command of any kind
AnyJob == [c \in Commands |-> AllJobs]

\* one command that moves the vault and one that drives finalize by hand
MoveAndFinalize == [c \in Commands |-> IF c = c1 THEN AllJobs \ {"finalize"} ELSE {"finalize"}]
=============================================================================
