------------------------------ MODULE SessionLog ------------------------------
(***************************************************************************)
(* What turn capture promises of one conversation session, whatever the    *)
(* number of processes that write it and of day-files it is spread over:   *)
(* a log of turns numbered 1, 2, 3, ... in the order they were appended,   *)
(* that takes no turn once it is closed (core/conversation/turn_writer.rs  *)
(* and openspec/specs/conversation-turn-capture).                          *)
(***************************************************************************)
EXTENDS Naturals, Sequences

VARIABLES
  log,     \* the ordinals of the session's turns, in the order of its files
  closed   \* is the session closed?

Init ==
  /\ log = <<>>
  /\ closed = FALSE

AppendTurn ==
  /\ ~closed
  /\ log' = Append(log, Len(log) + 1)
  /\ UNCHANGED closed

Close ==
  /\ log # <<>>
  /\ closed' = TRUE
  /\ UNCHANGED log

Next == AppendTurn \/ Close

Spec == Init /\ [][Next]_<<log, closed>>
=============================================================================
