---------------------------- MODULE MCModelCache ----------------------------
(***************************************************************************)
(* An instance of ModelCache for TLC; calls and files are interchangeable. *)
(***************************************************************************)
EXTENDS ModelCache, TLC

CONSTANTS r1, r2, r3, f1, f2

MCRuns == {r1, r2, r3}
MCFiles == {f1, f2}
MCSymmetry == Permutations(MCRuns) \cup Permutations(MCFiles)
=============================================================================
