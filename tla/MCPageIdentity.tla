--------------------------- MODULE MCPageIdentity ---------------------------
(***************************************************************************)
(* An instance of PageIdentity for TLC: the contents of files, one of them *)
(* too short to be told apart.                                             *)
(***************************************************************************)
EXTENDS PageIdentity, TLC

CONSTANTS big, tiny

MCData == {big, tiny}
MCTrivial == {tiny}
=============================================================================
