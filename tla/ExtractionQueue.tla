--------------------------- MODULE ExtractionQueue ---------------------------
(***************************************************************************)
(* core/conversation/queue.rs and the queue purge of janitor.rs: the rows  *)
(* of `extraction_queue`, and the leases its workers hold on them.         *)
(*                                                                         *)
(* Each function below but dequeue is one SQLite statement or one IMMEDIATE*)
(* transaction, so each is one action.  Timestamps are kept as far as the  *)
(* code compares them: a pending row is scheduled "later" or is due "now", *)
(* a running row's lease was taken "now" or has "expired".  Rows are never *)
(* renumbered (AUTOINCREMENT); a deleted one is marked "purged".           *)
(***************************************************************************)
EXTENDS Naturals, FiniteSets

CONSTANTS
  Paths,       \* vault-relative day-files: one session's conversation_path values
  Workers,     \* extraction worker threads, one per runtime host
  None,        \* no lease
  MaxRetries,  \* extraction.max_retries: attempts a job gets
  MaxRows      \* bound: rows ever inserted

VARIABLES
  rows,    \* rows[i]: the row whose id is i
  lease,   \* lease[w]: the id and attempts worker w was handed by dequeue
  holder   \* history: holder[i] is the worker that claimed row i last

queueVars == <<rows, lease, holder>>

Ids == 1 .. MaxRows
Triggers == {"debounce", "session_close", "manual"}
Statuses == {"absent", "pending", "running", "done", "failed", "purged"}
Times == {"later", "now", "expired"}

Row == [path : Paths \cup {None}, trigger : Triggers, due : Times,
        attempts : 0 .. MaxRetries - 1, status : Statuses]
Lease == [id : Ids, attempts : 0 .. MaxRetries - 1, path : Paths, trigger : Triggers]

ASSUME QueueAssumption ==
  /\ None \notin Workers \cup Lease
  /\ MaxRetries \in Nat \ {0}
  /\ MaxRows \in Nat \ {0}

QueueTypeOK ==
  /\ rows \in [Ids -> Row]
  /\ lease \in [Workers -> Lease \cup {None}]
  /\ holder \in [Ids -> Workers \cup {None}]

First(S) == CHOOSE i \in S : \A j \in S : i <= j

Blank == [path |-> None, trigger |-> "manual", due |-> "now",
          attempts |-> 0, status |-> "absent"]

InitQueue ==
  /\ rows = [i \in Ids |-> Blank]
  /\ lease = [w \in Workers |-> None]
  /\ holder = [i \in Ids |-> None]

-----------------------------------------------------------------------------
Earlier(s, t) == IF "now" \in {s, t} THEN "now" ELSE "later"
Later(s, t) == IF "later" \in {s, t} THEN "later" ELSE "now"

\* merged_pending_job
MergedJob(row, trigger, due) ==
  CASE row.trigger = "session_close" -> <<"session_close", row.due>>
    [] trigger = "session_close"     -> <<"session_close", Earlier(row.due, due)>>
    [] trigger = "debounce"          -> IF row.trigger = "debounce"
                                        THEN <<"debounce", Later(row.due, due)>>
                                        ELSE <<"manual", row.due>>
    [] OTHER                         -> IF row.trigger = "debounce"
                                        THEN <<"manual", due>>
                                        ELSE <<"manual", Earlier(row.due, due)>>

PendingOn(path) == {i \in Ids : rows[i].path = path /\ rows[i].status = "pending"}

\* a job that starts over, whatever became of it before
Pending(path, job) == [path |-> path, trigger |-> job[1], due |-> job[2],
                       attempts |-> 0, status |-> "pending"]

\* the INSERT of enqueue and enqueue_force_path
Insert(path, job) ==
  LET free == {i \in Ids : rows[i].status = "absent"} IN
  /\ free # {}
  /\ rows' = [rows EXCEPT ![First(free)] = Pending(path, job)]

\* enqueue: the oldest pending row of the path takes the job in, or one is inserted
Enqueue(path, trigger, due) ==
  LET pending == PendingOn(path) IN
  /\ IF pending = {} THEN Insert(path, <<trigger, due>>)
     ELSE rows' = [rows EXCEPT ![First(pending)] = Pending(path, MergedJob(@, trigger, due))]
  /\ UNCHANGED <<lease, holder>>

\* enqueue_force_path: likewise, but nothing of the pending job is kept
EnqueueForcePath(path, due) ==
  LET pending == PendingOn(path) IN
  /\ IF pending = {} THEN Insert(path, <<"manual", due>>)
     ELSE rows' = [rows EXCEPT ![First(pending)] = Pending(path, <<"manual", due>>)]
  /\ UNCHANGED <<lease, holder>>

\* a finished row: of its columns only the path and the status are kept here,
\* since nothing reads the others again
Finished(row, status) == [Blank EXCEPT !.path = row.path, !.status = status]

\* (mutant) one retry too many
Retried_OneMore(row) ==
  IF row.attempts >= MaxRetries THEN Finished(row, "failed")
  ELSE [row EXCEPT !.attempts = @ + 1, !.due = "now", !.status = "pending"]

\* one more attempt is spent: by mark_failed, and by recover_expired_leases
Retried(row) ==
  IF row.attempts + 1 >= MaxRetries THEN Finished(row, "failed")
  ELSE [row EXCEPT !.attempts = @ + 1, !.due = "now", !.status = "pending"]

\* (mutant) a lease that expired is not recovered
Recovered_Never == rows

\* recover_expired_leases
Recovered ==
  [i \in Ids |-> IF rows[i].status = "running" /\ rows[i].due = "expired"
                 THEN Retried(rows[i]) ELSE rows[i]]

\* dequeue: one statement recovers the expired leases, the next claims the first due
\* row, if there is one.  A recovery without a claim stands for the case of none due
\* and for the moment between the two statements; which of several due rows comes
\* first is left open
Dequeue(w) ==
  LET recovered == Recovered
      due == {i \in Ids : recovered[i].status = "pending" /\ recovered[i].due = "now"}
  IN /\ lease[w] = None
     /\ \/ /\ rows' = recovered
           /\ UNCHANGED <<lease, holder>>
        \/ \E i \in due :
             /\ rows' = [recovered EXCEPT ![i].status = "running", ![i].due = "now"]
             /\ lease' = [lease EXCEPT ![w] = [id |-> i, attempts |-> recovered[i].attempts,
                                               path |-> recovered[i].path,
                                               trigger |-> recovered[i].trigger]]
             /\ holder' = [holder EXCEPT ![i] = w]

\* the WHERE clause of mark_done and mark_failed; no match is StaleLease
Matches(l) == /\ rows[l.id].status = "running"
              /\ rows[l.id].attempts = l.attempts

\* mark_done
MarkDone(w) ==
  LET l == lease[w] IN
  /\ l # None
  /\ rows' = IF Matches(l) THEN [rows EXCEPT ![l.id] = Finished(@, "done")] ELSE rows
  /\ lease' = [lease EXCEPT ![w] = None]
  /\ UNCHANGED holder

\* mark_failed
MarkFailed(w) ==
  LET l == lease[w] IN
  /\ l # None
  /\ rows' = IF Matches(l) THEN [rows EXCEPT ![l.id] = Retried(@)] ELSE rows
  /\ lease' = [lease EXCEPT ![w] = None]
  /\ UNCHANGED holder

\* the worker goes without a word: its process died, or process_job returned an
\* error that it does not record (the day-file could not be read or parsed)
Abandon(w) ==
  /\ lease[w] # None
  /\ lease' = [lease EXCEPT ![w] = None]
  /\ UNCHANGED <<rows, holder>>

\* purge_old_queue_rows: the finished rows that are older than the retention
Purge ==
  /\ \E old \in SUBSET {i \in Ids : rows[i].status \in {"done", "failed"}} :
       /\ old # {}
       /\ rows' = [i \in Ids |-> IF i \in old THEN [Blank EXCEPT !.status = "purged"]
                                 ELSE rows[i]]
  /\ UNCHANGED <<lease, holder>>

\* time: a scheduled row falls due, a lease grows DEFAULT_LEASE_EXPIRY_SECONDS old
FallsDue(i) ==
  /\ rows[i].status = "pending"
  /\ rows[i].due = "later"
  /\ rows' = [rows EXCEPT ![i].due = "now"]
  /\ UNCHANGED <<lease, holder>>

LeaseExpires(i) ==
  /\ rows[i].status = "running"
  /\ rows[i].due = "now"
  /\ rows' = [rows EXCEPT ![i].due = "expired"]
  /\ UNCHANGED <<lease, holder>>

Requests ==
  \E path \in Paths, due \in {"now", "later"} :
    \/ \E trigger \in Triggers : Enqueue(path, trigger, due)
    \/ EnqueueForcePath(path, due)

NextQueue ==
  \/ Requests
  \/ \E w \in Workers : Dequeue(w) \/ MarkDone(w) \/ MarkFailed(w) \/ Abandon(w)
  \/ \E i \in Ids : FallsDue(i) \/ LeaseExpires(i)
  \/ Purge

QueueSpec == InitQueue /\ [][NextQueue]_queueVars

-----------------------------------------------------------------------------
(* Properties. *)

\* the worker that gives its lease up in this step holds the claim on row i
ByHolder(i) ==
  \E w \in Workers : /\ lease[w] # None
                     /\ lease[w].id = i
                     /\ lease'[w] = None
                     /\ holder[i] = w

\* A claimed row is finished or sent back only by the worker that claimed it last
\* or after its lease expired: a worker that lost its lease cannot finish the row
\* of the one that took it over (mark_done, mark_failed, recover_expired_leases).
\* With two workers the code does not keep this: re-queueing resets the attempts.
StaleWorkerCannotFinish ==
  [][\A i \in Ids :
       /\ rows[i].status = "running"
       /\ rows'[i].status # "running"
       => rows[i].due = "expired" \/ ByHolder(i)]_queueVars
=============================================================================
