--------------------------- MODULE EmbeddingQueue ---------------------------
(***************************************************************************)
(* The queue of pages whose embeddings are to be made again                *)
(* (core/vault_sync/embedding.rs, core/raw_imports.rs): every write of a   *)
(* page leaves a job, every process that writes or serves drains the       *)
(* queue, and a serving one takes over what a dead one left.  A drain      *)
(* claims as many jobs as it has threads; one job it does itself, several  *)
(* are given to threads that open the database for themselves.  A text is  *)
(* the number of the write it came from.  Priorities, the order of the     *)
(* queue and the waits between attempts are left out.                      *)
(***************************************************************************)
EXTENDS Naturals, FiniteSets

CONSTANTS
  Pages,
  Hosts,        \* processes
  Serving,      \* those that serve; the others are commands, which only write and drain
  Workers,      \* threads that drain
  HostOf,       \* the process of each
  MaxAttempts,  \* 5
  None,
  MaxText,      \* bound: writes of each page
  MaxCrashes    \* bound: processes that die or end

VARIABLES
  text,     \* text[p]: the text of page p, 0 before its first write, or None when deleted
  vectors,  \* vectors[p]: the text its embeddings are of, or None
  job,      \* job[p]: the row of embedding_jobs of p (UNIQUE), or None
  lastId,   \* AUTOINCREMENT
  worker,   \* worker[w]: the job it is at, the text it has read, where it is; or None
  alive,    \* alive[h]: process h runs
  crashes,
  raced,    \* pages written or deleted while a worker was at them
  left,     \* pages whose job a thread, or a command that died, left as it was since its
            \* last claim: no serving process has started since
  stolen    \* a process that started took jobs from the workers of a live one

vars == <<text, vectors, job, lastId, worker, alive, crashes, raced, left, stolen>>

Text == Nat
Job == [id : Nat, state : {"pending", "running", "failed"}, attempts : 0 .. MaxAttempts]
Claim ==
  [id : Nat, page : Pages, read : Text \cup {None},
   pc : {"opening", "claimed", "read", "written"}]

ASSUME EmbeddingAssumption ==
  /\ Serving \subseteq Hosts
  /\ HostOf \in [Workers -> Hosts]
  /\ MaxAttempts \in Nat /\ MaxCrashes \in Nat /\ MaxText \in [Pages -> Nat]
  /\ None \notin Nat \cup Job \cup Claim \cup Pages

Busy == {w \in Workers : worker[w] # None}
At(p) == {w \in Busy : worker[w].page = p}
Threads(h) == {w \in Workers : HostOf[w] = h}
-----------------------------------------------------------------------------
\* enqueue_embedding_job: whatever the state of the row, also when it is running
Enqueue(p) ==
  [id |-> IF job[p] = None THEN lastId + 1 ELSE job[p].id, state |-> "pending", attempts |-> 0]

\* a put, a pass, a quarantine restore: the page and its job in one transaction
Write(p) ==
  /\ text[p] # None /\ text[p] < MaxText[p]
  /\ text' = [text EXCEPT ![p] = @ + 1]
  /\ job' = [job EXCEPT ![p] = Enqueue(p)]
  /\ lastId' = IF job[p] = None THEN lastId + 1 ELSE lastId
  /\ raced' = IF At(p) = {} THEN raced ELSE raced \cup {p}
  /\ left' = left \ {p}
  /\ UNCHANGED <<vectors, worker, alive, crashes, stolen>>

\* DELETE FROM pages, which takes the job and the embeddings with it
Delete(p) ==
  /\ text[p] # None /\ text[p] > 0
  /\ text' = [text EXCEPT ![p] = None]
  /\ job' = [job EXCEPT ![p] = None]
  /\ vectors' = [vectors EXCEPT ![p] = None]
  /\ raced' = IF At(p) = {} THEN raced ELSE raced \cup {p}
  /\ left' = left \ {p}
  /\ UNCHANGED <<lastId, worker, alive, crashes, stolen>>
-----------------------------------------------------------------------------
\* (mutant) the UPDATE does not look at the state again
Claimable_Running(p) == job[p] # None /\ job[p].attempts < MaxAttempts
\* (mutant) the attempt that is counted next is let through
Claimable_OffByOne(p) == job[p] # None /\ job[p].state # "running" /\ job[p].attempts <= MaxAttempts
\* load_job_candidates, and the guard of the UPDATE
Claimable(p) ==
  job[p] # None /\ job[p].state \in {"pending", "failed"} /\ job[p].attempts < MaxAttempts

Candidates == {p \in Pages : Claimable(p)}

\* claim_embedding_jobs: what is ready of the candidates, as many as there are threads.
\* What is pending is ready, what has failed is after a wait.
Batch(h, of) ==
  LET taken == {of[w] : w \in Threads(h)} \ {None} IN
  /\ taken # {}
  /\ \A v, w \in Threads(h) : of[v] = of[w] /\ of[v] # None => v = w
  /\ \/ \A w \in Threads(h) : of[w] # None
     \/ \A p \in Candidates \ taken : job[p].state = "failed"

\* drain_embedding_queue: of is the page of each thread
Drain(h, of) ==
  /\ Batch(h, of)
  /\ LET taken == {of[w] : w \in Threads(h)} \ {None} IN
     /\ job' = [p \in Pages |-> IF p \in taken
                               THEN [job[p] EXCEPT !.state = "running", !.attempts = @ + 1]
                               ELSE job[p]]
     /\ worker' = [w \in Workers |->
                     IF HostOf[w] = h /\ of[w] # None
                     THEN [id |-> job[of[w]].id, page |-> of[w], read |-> None,
                           pc |-> IF taken = {of[w]} THEN "claimed" ELSE "opening"]
                     ELSE worker[w]]
     /\ left' = left \ taken
  /\ UNCHANGED <<text, vectors, lastId, alive, crashes, raced, stolen>>

\* db::open in a thread
Opens(w) ==
  /\ worker[w] # None /\ worker[w].pc = "opening"
  /\ worker' = [worker EXCEPT ![w].pc = "claimed"]
  /\ UNCHANGED <<text, vectors, job, lastId, alive, crashes, raced, left, stolen>>

\* DELETE FROM embedding_jobs WHERE id = ?
Done(id) == job' = [p \in Pages |-> IF job[p] # None /\ job[p].id = id THEN None ELSE job[p]]

\* (mutant) a job that failed is done
MarkFailed_Done(id) == Done(id)
\* mark_embedding_job_failed, by id
MarkFailed(id) ==
  job' = [p \in Pages |-> IF job[p] # None /\ job[p].id = id
                          THEN [job[p] EXCEPT !.state = "failed"] ELSE job[p]]

\* load_page_for_embedding_job
Load(w) ==
  /\ worker[w] # None /\ worker[w].pc = "claimed"
  /\ LET p == worker[w].page IN
       IF text[p] = None
       THEN Done(worker[w].id) /\ worker' = [worker EXCEPT ![w] = None]
       ELSE worker' = [worker EXCEPT ![w].read = text[p], ![w].pc = "read"] /\ UNCHANGED job
  /\ UNCHANGED <<text, vectors, lastId, alive, crashes, raced, left, stolen>>

\* refresh_page_embeddings: the rows of the page are replaced in one transaction
Embed(w) ==
  /\ worker[w] # None /\ worker[w].pc = "read"
  /\ text[worker[w].page] # None
  /\ vectors' = [vectors EXCEPT ![worker[w].page] = worker[w].read]
  /\ worker' = [worker EXCEPT ![w].pc = "written"]
  /\ UNCHANGED <<text, job, lastId, alive, crashes, raced, left, stolen>>

\* process_embedding_job_on_connection, its last statement
Finish(w) ==
  /\ worker[w] # None /\ worker[w].pc = "written"
  /\ Done(worker[w].id)
  /\ worker' = [worker EXCEPT ![w] = None]
  /\ UNCHANGED <<text, vectors, lastId, alive, crashes, raced, left, stolen>>

\* A step of process_embedding_job_on_connection fails: the load, the model, the write of
\* the embeddings (always, when the page is gone), or a DELETE; and the error is noted.
Fails(w) ==
  /\ worker[w] # None /\ worker[w].pc # "opening"
  /\ MarkFailed(worker[w].id)
  /\ worker' = [worker EXCEPT ![w] = None]
  /\ UNCHANGED <<text, vectors, lastId, alive, crashes, raced, left, stolen>>

\* A thread ends and nothing is noted, so that the row stays "running".  It cannot open the
\* database (for a lock that took too long, a failure of the maintenance every open does,
\* and always when the database was made for another model than db::open asks for); or a
\* step fails and the UPDATE of mark_embedding_job_failed does too, whose error is returned
\* to a caller that drops it, or dropped at once; or it panics.
Leaves(w) ==
  /\ worker[w] # None
  /\ worker' = [worker EXCEPT ![w] = None]
  /\ left' = left \cup {worker[w].page}
  /\ UNCHANGED <<text, vectors, job, lastId, alive, crashes, raced, stolen>>
-----------------------------------------------------------------------------
\* a process dies with its threads; so, as far as the queue goes, does a serving one whose
\* supervisor panics over a job it does itself
Crash(h) ==
  /\ alive[h]
  /\ crashes < MaxCrashes
  /\ crashes' = crashes + 1
  /\ alive' = [alive EXCEPT ![h] = FALSE]
  /\ worker' = [w \in Workers |-> IF HostOf[w] = h THEN None ELSE worker[w]]
  /\ left' = IF h \in Serving THEN left
             ELSE left \cup {worker[w].page : w \in Busy \cap Threads(h)}
  /\ UNCHANGED <<text, vectors, job, lastId, raced, stolen>>

\* (mutant) what ran when a process died is left
Resumed_Left(p) == job[p]
\* resume_orphaned_embedding_jobs: whoever runs them; the attempts stay
Resumed(p) ==
  IF job[p] # None /\ job[p].state = "running" THEN [job[p] EXCEPT !.state = "pending"]
  ELSE job[p]

\* run_startup_sequence of a serving process; a command has none
Start(h) ==
  /\ ~alive[h]
  /\ alive' = [alive EXCEPT ![h] = TRUE]
  /\ IF h \in Serving
     THEN /\ job' = [p \in Pages |-> Resumed(p)]
          /\ stolen' = (stolen \/ Busy # {})
          /\ left' = {}
     ELSE UNCHANGED <<job, stolen, left>>
  /\ UNCHANGED <<text, vectors, lastId, worker, crashes, raced>>

Init ==
  /\ text = [p \in Pages |-> 0]
  /\ vectors = [p \in Pages |-> None]
  /\ job = [p \in Pages |-> None]
  /\ lastId = 0
  /\ worker = [w \in Workers |-> None]
  /\ alive = [h \in Hosts |-> FALSE]
  /\ crashes = 0
  /\ raced = {}
  /\ left = {}
  /\ stolen = FALSE

Works(w) == Opens(w) \/ Load(w) \/ Embed(w) \/ Finish(w) \/ Fails(w) \/ Leaves(w)
\* a drain comes back when all its threads have ended
Drains(h) ==
  /\ alive[h] /\ \A w \in Threads(h) : worker[w] = None
  /\ \E of \in [Threads(h) -> Candidates \cup {None}] : Drain(h, of)

Next ==
  \/ \E p \in Pages : Write(p) \/ Delete(p)
  \/ \E w \in Workers : Works(w)
  \/ \E h \in Hosts : Drains(h) \/ Crash(h) \/ Start(h)

Spec == Init /\ [][Next]_vars

\* threads run, a serving process drains every two seconds, and is started again
Fairness ==
  /\ \A w \in Workers : WF_vars(Works(w))
  /\ \A h \in Serving : WF_vars(Drains(h)) /\ WF_vars(Start(h))

FairSpec == Spec /\ Fairness
-----------------------------------------------------------------------------
\* The tables hold what they may hold; no job is claimed more often than MaxAttempts.
TypeOK ==
  /\ text \in [Pages -> Text \cup {None}]
  /\ vectors \in [Pages -> Text \cup {None}]
  /\ job \in [Pages -> Job \cup {None}]
  /\ lastId \in Nat
  /\ worker \in [Workers -> Claim \cup {None}]
  /\ alive \in [Hosts -> BOOLEAN]
  /\ raced \subseteq Pages
  /\ left \subseteq Pages
  /\ stolen \in BOOLEAN

\* A page without a job has embeddings of its present text, unless it was written while a
\* worker was at it: crashes, retries, jobs that are taken over and workers that finish
\* late lose no write.  ("a freshly written page is reflected in vector search",
\* core/vault_sync/embedding.rs.)
NoLostText ==
  \A p \in Pages \ raced : text[p] \notin {0, None} /\ job[p] = None => vectors[p] = text[p]

\* A job is at one worker, unless its page was written meanwhile or a starting process took
\* it over: drains of several processes do not do the same page twice ("safe even if a
\* daemon races us", commands/put.rs).
ClaimIsExclusive ==
  ~stolen => \A p \in Pages \ raced : Cardinality(At(p)) <= 1

\* A job is done in the end, or its attempts are used up, though processes crash, as long
\* as those that serve come back; unless the thread that claimed it last ended without a
\* note, or the command did, and no serving process has started since: no drain claims what
\* is "running".
Stranded(p) == p \in left /\ job[p].state = "running" /\ At(p) = {}
JobsSettle ==
  \A p \in Pages :
    <>[](job[p] = None \/ job[p].attempts = MaxAttempts \/ Stranded(p))
=============================================================================
