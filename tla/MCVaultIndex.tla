----------------------------- MODULE MCVaultIndex -----------------------------
(***************************************************************************)
(* Instances of VaultIndex for TLC.                                        *)
(***************************************************************************)
EXTENDS VaultIndex, TLC

CONSTANTS a, b, w1, w2, d1, d2, d3

\* contents are interchangeable
Contents == Permutations(Data)
=============================================================================
