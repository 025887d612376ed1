----------------------------- MODULE Conversation -----------------------------
(***************************************************************************)
(* Conversation memory, for one session: turn capture (turn_writer.rs),    *)
(* the idle close (idle_close.rs), the tools that use them                 *)
(* (mcp/tools/conversation.rs), `quaid extract` (commands/extract.rs) and  *)
(* the extraction worker (extractor.rs), over the queue of ExtractionQueue.*)
(*                                                                         *)
(* A step that holds the session lock writes the day-file and the cached   *)
(* row of `conversation_sessions` one after the other: two actions, since  *)
(* the first may be the last thing its process does.  The worker reads the *)
(* day-file without the lock, infers for a long time, and takes the lock   *)
(* for each cursor it writes.                                              *)
(***************************************************************************)
EXTENDS ExtractionQueue, Sequences

CONSTANTS
  Days,        \* the dates of the day-files, 1 .. n; Paths is the same set
  Clients,     \* threads that serve memory_add_turn and memory_close_session, or
               \* run `quaid extract`
  HostOf,      \* HostOf[c]: the runtime host in whose process c runs, or None
  Window,      \* extraction.window_turns
  Forced,      \* is `quaid extract --force` used?
  Partial,     \* where a call may die, or fail in SQLite, between two of its writes
  MaxTurns,    \* bound: turns captured
  MaxExtracts, \* bound: uses of `quaid extract`
  MaxCrashes   \* bound: crashes of a runtime host

Hosts == Workers   \* a runtime host runs one worker and one supervisor
FileStatus == {"absent", "open", "closed"}
Cache == [max : Nat, status : FileStatus]

ASSUME ConversationAssumption ==
  /\ Days \subseteq Nat \ {0}
  /\ Days # {} /\ IsFiniteSet(Days)
  /\ Paths = Days
  /\ Clients \cap Hosts = {}
  /\ None \notin Clients \cup Days \cup Cache
  /\ HostOf \in [Clients -> Hosts \cup {None}]
  /\ Window \in Nat \ {0}
  /\ Forced \in BOOLEAN
  /\ Partial \subseteq {"appended", "cached", "closing", "closed", "reset"}
  /\ {MaxTurns, MaxExtracts, MaxCrashes} \subseteq Nat

VARIABLES
  file,      \* file[d]: the day-file of date d
  cache,     \* the session's row of conversation_sessions
  lock,      \* who holds the session mutex and flock
  call,      \* call[t]: the call of client or supervisor t
  tracker,   \* tracker[h]: the session's entry in the IDLE_TRACKERS of host h
  work,      \* work[w]: the job worker w is in the middle of
  extracts,  \* how often `quaid extract` was used
  crashes,   \* how often a host crashed
  \* history:
  extracted, \* extracted[d]: positions in d sent to the extractor since the last reset
  givenUp,   \* days a job of which ran out of retries
  dropped    \* days whose tail was let go since a job of theirs was queued last

capture == <<file, cache, lock, call, tracker>>
worker == <<work, extracted, givenUp>>
counts == <<extracts, crashes>>
vars == <<queueVars, capture, worker, counts, dropped>>

Callers == Clients \cup Hosts
CallStates == {"idle", "appended", "cached", "closing", "closed", "reset"}
WorkStates == {"idle", "claimed", "ready", "written"}

File == [turns : Seq(Nat), status : FileStatus, cursor : Nat]
Call == [pc : CallStates, day : Days \cup {None}, max : Nat, todo : SUBSET Days]
Work == [pc : WorkStates, windows : Seq(SUBSET Nat)]

TypeOK ==
  /\ QueueTypeOK
  /\ file \in [Days -> File]
  /\ cache \in Cache \cup {None}
  /\ lock \in Callers \cup {None}
  /\ call \in [Callers -> Call]
  /\ tracker \in [Hosts -> {"none", "fresh", "idle"}]
  /\ work \in [Workers -> Work]
  /\ extracts \in Nat
  /\ crashes \in Nat
  /\ extracted \in [Days -> SUBSET Nat]
  /\ givenUp \in SUBSET Days
  /\ dropped \in SUBSET Days

NoFile == [turns |-> <<>>, status |-> "absent", cursor |-> 0]
Quiet == [pc |-> "idle", day |-> None, max |-> 0, todo |-> {}]
NoWork == [pc |-> "idle", windows |-> <<>>]

Init ==
  /\ InitQueue
  /\ file = [d \in Days |-> NoFile]
  /\ cache = None
  /\ lock = None
  /\ call = [t \in Callers |-> Quiet]
  /\ tracker = [h \in Hosts |-> "none"]
  /\ work = [w \in Workers |-> NoWork]
  /\ extracts = 0
  /\ crashes = 0
  /\ extracted = [d \in Days |-> {}]
  /\ givenUp = {}
  /\ dropped = {}

-----------------------------------------------------------------------------
(* The day-files and the cached row. *)

Existing == {d \in Days : file[d].status # "absent"}
Last(S) == CHOOSE d \in S : \A e \in S : e <= d
Positions(d) == DOMAIN file[d].turns
Ordinals == UNION {{file[d].turns[p] : p \in Positions(d)} : d \in Days}

\* session_snapshot: highest ordinal and status of the latest day-file
Scanned == IF Existing = {} THEN [max |-> 0, status |-> "absent"]
           ELSE [max |-> Last(Ordinals), status |-> file[Last(Existing)].status]

\* cached_or_scanned_snapshot
Snapshot == IF cache = None THEN Scanned ELSE cache

\* append_turn refuses a closed day-file, and a new one for a closed session
Refused(d) == \/ file[d].status = "closed"
              \/ file[d].status = "absent" /\ Snapshot.status = "closed"

TurnsMade == Cardinality(UNION {{<<d, p>> : p \in Positions(d)} : d \in Days})

-----------------------------------------------------------------------------
(* memory_add_turn *)

\* append_turn up to the write of the day-file; dates do not run backwards
AppendTurn(c) ==
  /\ call[c].pc = "idle"
  /\ lock = None
  /\ TurnsMade < MaxTurns
  /\ \E d \in Days :
       /\ \A e \in Existing : e <= d
       /\ ~Refused(d)
       /\ LET ordinal == Snapshot.max + 1 IN
            /\ file' = [file EXCEPT ![d].turns = Append(@, ordinal),
                                    ![d].status = "open"]
            /\ call' = [call EXCEPT ![c].pc = "appended", ![c].day = d, ![c].max = ordinal]
       /\ cache' = Snapshot
  /\ lock' = c
  /\ UNCHANGED <<queueVars, tracker, worker, counts, dropped>>

\* (mutant) record_turn is left out
AppendCaches_NotSeen(c) ==
  /\ call[c].pc = "appended"
  /\ cache' = [max |-> call[c].max, status |-> "open"]
  /\ lock' = None
  /\ call' = [call EXCEPT ![c].pc = "cached"]
  /\ UNCHANGED <<queueVars, file, tracker, worker, counts, dropped>>

\* ... the cached row, and record_turn in the process of the caller
AppendCaches(c) ==
  /\ call[c].pc = "appended"
  /\ cache' = [max |-> call[c].max, status |-> "open"]
  /\ tracker' = IF HostOf[c] = None THEN tracker
                ELSE [tracker EXCEPT ![HostOf[c]] = "fresh"]
  /\ lock' = None
  /\ call' = [call EXCEPT ![c].pc = "cached"]
  /\ UNCHANGED <<queueVars, file, worker, counts, dropped>>

\* ... and the debounced job, outside the lock
AddEnqueues(c) ==
  /\ call[c].pc = "cached"
  /\ Enqueue(call[c].day, "debounce", "later")
  /\ dropped' = dropped \ {call[c].day}
  /\ call' = [call EXCEPT ![c] = Quiet]
  /\ UNCHANGED <<file, cache, lock, tracker, worker, counts>>

-----------------------------------------------------------------------------
(* memory_close_session by a client, scan_due_sessions by a supervisor *)

Process(t) == IF t \in Hosts THEN t ELSE HostOf[t]
Cleared(t) == IF Process(t) = None THEN tracker ELSE [tracker EXCEPT ![Process(t)] = "none"]

\* close_session_internal up to the write of the latest day-file; a supervisor
\* looks at its tracker again under the lock
CloseSession(t) ==
  /\ call[t].pc = "idle"
  /\ lock = None
  /\ Existing # {}
  /\ t \in Hosts => tracker[t] = "idle"
  /\ LET d == Last(Existing) IN
       \/ /\ file[d].status = "open"
          /\ file' = [file EXCEPT ![d].status = "closed"]
          /\ call' = [call EXCEPT ![t].pc = "closing", ![t].day = d]
          /\ lock' = t
          /\ UNCHANGED tracker
       \/ /\ file[d].status = "closed"   \* already closed: only a scan goes on
          /\ tracker' = Cleared(t)
          /\ call' = IF t \in Hosts THEN [call EXCEPT ![t].pc = "closed", ![t].day = d]
                     ELSE call
          /\ UNCHANGED <<file, lock>>
  /\ UNCHANGED <<queueVars, cache, worker, counts, dropped>>

\* (mutant) the cached row is not told
CloseCaches_NotTold(t) ==
  /\ call[t].pc = "closing"
  /\ tracker' = Cleared(t)
  /\ lock' = None
  /\ call' = [call EXCEPT ![t].pc = "closed"]
  /\ UNCHANGED <<queueVars, file, cache, worker, counts, dropped>>

\* ... clear_session and the cached row
CloseCaches(t) ==
  /\ call[t].pc = "closing"
  /\ tracker' = Cleared(t)
  /\ cache' = [Snapshot EXCEPT !.status = "closed"]
  /\ lock' = None
  /\ call' = [call EXCEPT ![t].pc = "closed"]
  /\ UNCHANGED <<queueVars, file, worker, counts, dropped>>

\* ... and the job, outside the lock
CloseEnqueues(t) ==
  /\ call[t].pc = "closed"
  /\ Enqueue(call[t].day, "session_close", "now")
  /\ dropped' = dropped \ {call[t].day}
  /\ call' = [call EXCEPT ![t] = Quiet]
  /\ UNCHANGED <<file, cache, lock, tracker, worker, counts>>

-----------------------------------------------------------------------------
(* quaid extract *)

Extract(c) ==
  /\ call[c].pc = "idle"
  /\ extracts < MaxExtracts
  /\ Existing # {}
  /\ Enqueue(Last(Existing), "manual", "now")
  /\ dropped' = dropped \ {Last(Existing)}
  /\ extracts' = extracts + 1
  /\ UNCHANGED <<capture, worker, crashes>>

\* quaid extract --force: reset_cursors, under the lock
ForceResets(c) ==
  /\ Forced
  /\ call[c].pc = "idle"
  /\ lock = None
  /\ extracts < MaxExtracts
  /\ Existing # {}
  /\ file' = [d \in Days |-> [file[d] EXCEPT !.cursor = 0]]
  /\ extracted' = [d \in Days |-> {}]
  /\ extracts' = extracts + 1
  /\ call' = [call EXCEPT ![c].pc = "reset", ![c].todo = Existing]
  /\ UNCHANGED <<queueVars, cache, lock, tracker, work, givenUp, crashes, dropped>>

\* ... then one job per day-file, outside it
ForceEnqueues(c) ==
  /\ call[c].pc = "reset"
  /\ LET d == First(call[c].todo)
         left == call[c].todo \ {d}
     IN /\ EnqueueForcePath(d, "now")
        /\ dropped' = dropped \ {d}
        /\ call' = [call EXCEPT ![c] = IF left = {} THEN Quiet ELSE [@ EXCEPT !.todo = left]]
  /\ UNCHANGED <<file, cache, lock, tracker, worker, counts>>

-----------------------------------------------------------------------------
(* The extraction worker. *)

\* the turns past the cursor, as positions
NewTurns(d) == {p \in Positions(d) : file[d].turns[p] > file[d].cursor}

\* the window a turn falls into when each takes Window turns
WindowOf(new, p) == Cardinality({q \in new : q < p}) \div Window + 1

\* (mutant) a last window that is not full is left out
Chunks_DropsPartial(new) ==
  [i \in 1 .. Cardinality(new) \div Window |-> {p \in new : WindowOf(new, p) = i}]

\* chunks: the turns in windows of at most Window
Chunks(new) ==
  [i \in 1 .. (Cardinality(new) + Window - 1) \div Window |-> {p \in new : WindowOf(new, p) = i}]

\* compute_windows: a closing session without new turns gets a context-only window
Windows(d, trigger) ==
  IF NewTurns(d) # {} THEN Chunks(NewTurns(d))
  ELSE IF trigger = "session_close" /\ file[d].turns # <<>> THEN << {} >> ELSE <<>>

\* the days of the jobs that run out of retries in this step
RanOut == {rows[i].path : i \in {j \in Ids :
             rows[j].status = "running" /\ rows'[j].status = "failed"}}

\* claim_next_job
ClaimNextJob(w) ==
  /\ work[w].pc = "idle"
  /\ Dequeue(w)
  /\ work' = IF lease'[w] = None THEN work ELSE [work EXCEPT ![w].pc = "claimed"]
  /\ givenUp' = givenUp \cup RanOut
  /\ dropped' = dropped \cup RanOut
  /\ UNCHANGED <<capture, extracted, counts>>

\* process_job reads and parses the day-file, without the lock
PlanWindows(w) ==
  /\ work[w].pc = "claimed"
  /\ work' = [work EXCEPT ![w] = [pc |-> "ready",
                windows |-> Windows(lease[w].path, lease[w].trigger)]]
  /\ UNCHANGED <<queueVars, capture, extracted, givenUp, counts, dropped>>

\* ... and finds it unreadable or cut short by a write under way: an error that no
\* one records, so the row keeps its lease
CannotRead(w) ==
  /\ work[w].pc = "claimed"
  /\ Abandon(w)
  /\ work' = [work EXCEPT ![w] = NoWork]
  /\ UNCHANGED <<capture, extracted, givenUp, counts, dropped>>

\* infer_and_parse_window and write_window
ExtractWindow(w) ==
  /\ work[w].pc = "ready"
  /\ work[w].windows # <<>>
  /\ extracted' = [extracted EXCEPT ![lease[w].path] = @ \cup Head(work[w].windows)]
  /\ work' = [work EXCEPT ![w].pc = "written"]
  /\ UNCHANGED <<queueVars, capture, givenUp, counts, dropped>>

\* a worker that took another one's part: it sets the cursor of day d back
SetsBack(d, cursor) == IF cursor < file[d].cursor THEN {d} ELSE {}

\* ... or finishes a row that another one claimed after it
TakesOver(w) == IF Matches(lease[w]) /\ holder[lease[w].id] # w THEN {rows[lease[w].id].path}
                ELSE {}

\* (mutant) the cursor is set to the last turn of the file it reads afresh
AdvanceCursor_ToFileEnd(w) ==
  /\ work[w].pc = "written"
  /\ lock = None
  /\ LET d == lease[w].path IN
       file' = [file EXCEPT ![d].cursor = file[d].turns[Len(file[d].turns)]]
  /\ work' = [work EXCEPT ![w] = [pc |-> "ready", windows |-> Tail(@.windows)]]
  /\ UNCHANGED <<queueVars, cache, lock, call, tracker, extracted, givenUp, counts, dropped>>

\* persist_window_cursor, which waits for the lock and reads the file afresh
AdvanceCursor(w) ==
  /\ work[w].pc = "written"
  /\ lock = None
  /\ LET d == lease[w].path
         window == Head(work[w].windows)
         cursor == IF window = {} THEN file[d].cursor ELSE file[d].turns[Last(window)]
     IN /\ file' = [file EXCEPT ![d].cursor = cursor]
        /\ dropped' = dropped \cup SetsBack(d, cursor)
  /\ work' = [work EXCEPT ![w] = [pc |-> "ready", windows |-> Tail(@.windows)]]
  /\ UNCHANGED <<queueVars, cache, lock, call, tracker, extracted, givenUp, counts>>

\* every window done: mark_done, accepted or refused
FinishJob(w) ==
  /\ work[w].pc = "ready"
  /\ work[w].windows = <<>>
  /\ MarkDone(w)
  /\ dropped' = dropped \cup TakesOver(w)
  /\ work' = [work EXCEPT ![w] = NoWork]
  /\ UNCHANGED <<capture, extracted, givenUp, counts>>

\* the model, the writer of facts or the cursor failed: mark_failed
FailJob(w) ==
  /\ \/ work[w].pc = "ready" /\ work[w].windows # <<>>
     \/ work[w].pc = "written"
  /\ MarkFailed(w)
  /\ work' = [work EXCEPT ![w] = NoWork]
  /\ givenUp' = givenUp \cup RanOut
  /\ dropped' = dropped \cup RanOut
  /\ UNCHANGED <<capture, extracted, counts>>

-----------------------------------------------------------------------------
(* Failures and time. *)

\* the day-files that call t has yet to queue, having changed what is new in them
Owed(t) == {d \in Days : \/ call[t].pc \in {"appended", "cached"} /\ d = call[t].day
                         \/ call[t].pc = "reset" /\ d \in call[t].todo}

\* a call ends between two of its writes: killed, or refused by SQLite
CallEnds(t) ==
  /\ call[t].pc \in Partial
  /\ call' = [call EXCEPT ![t] = Quiet]
  /\ lock' = IF lock = t THEN None ELSE lock
  /\ dropped' = dropped \cup Owed(t)
  /\ UNCHANGED <<queueVars, file, cache, tracker, worker, counts>>

\* a runtime host dies between two calls and is started again
CrashHost(h) ==
  /\ crashes < MaxCrashes
  /\ call[h].pc = "idle"
  /\ \A c \in Clients : HostOf[c] = h => call[c].pc = "idle"
  /\ IF lease[h] = None THEN UNCHANGED queueVars ELSE Abandon(h)
  /\ work' = [work EXCEPT ![h] = NoWork]
  /\ tracker' = [tracker EXCEPT ![h] = "none"]
  /\ crashes' = crashes + 1
  /\ UNCHANGED <<file, cache, lock, call, extracted, givenUp, extracts, dropped>>

\* extraction.idle_close_ms pass without a turn in this process
IdleElapses(h) ==
  /\ tracker[h] = "fresh"
  /\ tracker' = [tracker EXCEPT ![h] = "idle"]
  /\ UNCHANGED <<queueVars, file, cache, lock, call, worker, counts, dropped>>

QueueTime ==
  /\ \/ \E i \in Ids : FallsDue(i) \/ LeaseExpires(i)
     \/ Purge
  /\ UNCHANGED <<capture, worker, counts, dropped>>

-----------------------------------------------------------------------------
Continues(t) == \/ t \in Clients /\ (AppendCaches(t) \/ AddEnqueues(t) \/ ForceEnqueues(t))
                \/ CloseCaches(t) \/ CloseEnqueues(t)
Scans(h) == CloseSession(h)
Client(c) == AppendTurn(c) \/ CloseSession(c) \/ Extract(c) \/ ForceResets(c)
Worker(w) == \/ ClaimNextJob(w) \/ PlanWindows(w) \/ CannotRead(w)
             \/ ExtractWindow(w) \/ AdvanceCursor(w) \/ FinishJob(w) \/ FailJob(w)

Next ==
  \/ \E c \in Clients : Client(c)
  \/ \E t \in Callers : Continues(t) \/ CallEnds(t)
  \/ \E h \in Hosts : Scans(h) \/ Worker(h) \/ CrashHost(h) \/ IdleElapses(h)
  \/ QueueTime

Spec == Init /\ [][Next]_vars

\* A call that began goes on, the supervisor scans, the worker thread loops and
\* time passes.  Nothing obliges a client to call.
FairSpec ==
  /\ Spec
  /\ \A t \in Callers : WF_vars(Continues(t))
  /\ \A h \in Hosts : /\ WF_vars(Scans(h))
                     /\ WF_vars(Worker(h))
                     /\ WF_vars(IdleElapses(h))
  /\ \A i \in Ids : WF_vars((FallsDue(i) \/ LeaseExpires(i)) /\ UNCHANGED <<capture, worker, counts, dropped>>)

-----------------------------------------------------------------------------
(* Properties. *)

\* The cursor never runs over a turn that was not sent to the extractor since
\* the cursor was last reset (process_job, persist_window_cursor, reset_cursors).
CursorIsHonest ==
  \A d \in Days : \A p \in Positions(d) :
    file[d].turns[p] <= file[d].cursor => p \in extracted[d]

\* A turn the cursor has not reached is covered by a job that will run or runs, or by
\* a call that will queue one, unless since the day-file was queued last its tail was let
\* go: a call died before its job, a job ran out of retries, or a worker took the part of
\* another (memory_add_turn, enqueue, dequeue, mark_done, recover_expired_leases).
TailIsQueued ==
  \A d \in Days :
    NewTurns(d) # {}
    => \/ \E i \in Ids : rows[i].path = d /\ rows[i].status \in {"pending", "running"}
       \/ \E t \in Callers : d \in Owed(t)
       \/ d \in dropped

Concatenated[d \in 0 .. Last(Days)] ==
  IF d = 0 THEN <<>>
  ELSE Concatenated[d - 1] \o (IF d \in Days THEN file[d].turns ELSE <<>>)

\* Over all its day-files the session is one log: numbered without a gap in the
\* order of appending, and closed for good (turn_writer).
Log == INSTANCE SessionLog WITH
         log <- Concatenated[Last(Days)],
         closed <- Existing # {} /\ file[Last(Existing)].status = "closed"
ImplementsSessionLog == Log!Spec

\* Every turn is sent to the extractor in the end, unless a job of its day-file ran
\* out of retries or its tail was let go.
EveryTurnIsExtracted ==
  \A d \in Days, p \in 1 .. MaxTurns :
    p \in Positions(d) ~> p \in extracted[d] \/ d \in givenUp \cup dropped

IsOpen == Existing # {} /\ file[Last(Existing)].status = "open"

\* A session that falls silent is closed without anybody asking, as long as no
\* runtime host crashes (idle_close).
IdleSessionIsClosed == IsOpen ~> ~IsOpen \/ crashes > 0
=============================================================================
