------------------------------- MODULE MCFacts -------------------------------
(***************************************************************************)
(* Instances of Facts for TLC: how alike the facts are, and what they are  *)
(* about.                                                                  *)
(***************************************************************************)
EXTENDS Facts, TLC

CONSTANTS w1

MCOneWindow == {w1}
MCKeyOf == [c \in Fact |-> IF c = 3 THEN 2 ELSE 1]
MCNear == Fact \X Fact
MCLike == {<<1, 2>>, <<2, 1>>}
=============================================================================
