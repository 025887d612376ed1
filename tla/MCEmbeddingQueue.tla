-------------------------- MODULE MCEmbeddingQueue --------------------------
(***************************************************************************)
(* Instances of EmbeddingQueue for TLC: a serving process with two         *)
(* threads, a command, and two pages, the first written twice.             *)
(***************************************************************************)
EXTENDS EmbeddingQueue, TLC

CONSTANTS p1, p2, h1, h2, w1, w2, w3

MCPages == {p1, p2}
MCHosts == {h1, h2}
MCServing == {h1}
MCWorkers == {w1, w2, w3}
MCHostOf == (w1 :> h1 @@ w2 :> h2 @@ w3 :> h1)
MCMaxText == (p1 :> 2 @@ p2 :> 1)
=============================================================================
