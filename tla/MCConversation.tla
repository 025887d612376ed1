---------------------------- MODULE MCConversation ----------------------------
(***************************************************************************)
(* Instances of Conversation for TLC: where the clients run.               *)
(***************************************************************************)
EXTENDS Conversation

CONSTANTS c1, c2, h1

\* one client inside the runtime host, one in a transport-only `quaid serve`
OneInside == [c \in Clients |-> IF c = c1 THEN h1 ELSE None]

\* every client inside the runtime host
AllInside == [c \in Clients |-> h1]
=============================================================================
