------------------------ MODULE EmbeddingQueue_proofs ------------------------
(***************************************************************************)
(* Theorems about EmbeddingQueue for any pages, processes and threads.     *)
(***************************************************************************)
EXTENDS EmbeddingQueue, FiniteSetTheorems, TLAPS

(* Types. *)

\* Statements that end or fail a job by its id leave rows or nothing.
LEMMA JobWrites ==
  ASSUME TypeOK, NEW id \in Nat, Done(id) \/ MarkFailed(id)
  PROVE  job' \in [Pages -> Job \cup {None}]
BY DEF TypeOK, Done, MarkFailed, Job

\* What a drain does: of a claim there is a row of the page that may be claimed and that is
\* running now; the rest is as it was.
LEMMA Draining ==
  ASSUME TypeOK, NEW h \in Hosts, \A w \in Threads(h) : worker[w] = None,
         NEW of \in [Threads(h) -> Candidates \cup {None}], Drain(h, of)
  PROVE  /\ job' \in [Pages -> Job \cup {None}]
         /\ worker' \in [Workers -> Claim \cup {None}]
         /\ \A p \in Pages :
              \/ job'[p] = job[p] /\ \A w \in Threads(h) : of[w] # p
              \/ /\ Claimable(p)
                 /\ job[p] # None /\ job'[p] # None
                 /\ job'[p].id = job[p].id
                 /\ job'[p].state = "running"
         /\ \A w \in Workers :
              \/ worker'[w] = worker[w]
              \/ /\ w \in Threads(h) /\ of[w] \in Pages /\ Claimable(of[w])
                 /\ worker[w] = None /\ worker'[w] # None
                 /\ worker'[w].id = job[of[w]].id
                 /\ worker'[w].page = of[w]
                 /\ worker'[w].pc \in {"claimed", "opening"}
         /\ \A v, w \in Threads(h) : of[v] = of[w] /\ of[v] # None => v = w
         /\ left' \subseteq left
         /\ UNCHANGED <<text, vectors, lastId, alive, crashes, raced, stolen>>
<1> USE EmbeddingAssumption
<1> DEFINE taken == {of[w] : w \in Threads(h)} \ {None}
           row(p) == [job[p] EXCEPT !.state = "running", !.attempts = @ + 1]
           claim(w) == [id |-> job[of[w]].id, page |-> of[w], read |-> None,
                        pc |-> IF taken = {of[w]} THEN "claimed" ELSE "opening"]
<1>1. taken \subseteq Pages /\ \A p \in taken : Claimable(p)
  BY DEF Candidates
<1>2. ASSUME NEW p \in taken
      PROVE  /\ job[p] \in Job /\ row(p) \in Job
             /\ row(p).id = job[p].id /\ row(p).state = "running"
  <2>1. job[p] \in Job /\ job[p].attempts < MaxAttempts
    BY <1>1, <1>2 DEF Claimable, TypeOK
  <2>2. job[p].attempts + 1 \in 0 .. MaxAttempts
    BY <2>1 DEF Job
  <2> HIDE DEF taken
  <2>3. row(p) \in Job
    BY <2>1, <2>2 DEF Job
  <2>4. row(p).id = job[p].id /\ row(p).state = "running"
    BY <2>1 DEF Job
  <2> QED
    BY <2>1, <2>3, <2>4
<1>3. ASSUME NEW w \in Threads(h), of[w] # None
      PROVE  /\ of[w] \in taken /\ of[w] \in Pages
             /\ claim(w) \in Claim
             /\ claim(w).id = job[of[w]].id
             /\ claim(w).page = of[w]
             /\ claim(w).pc \in {"claimed", "opening"}
  <2>1. of[w] \in taken /\ of[w] \in Pages
    BY <1>1, <1>3 DEF Candidates
  <2>2. job[of[w]].id \in Nat
    BY <1>2, <2>1 DEF Job
  <2>3. (IF taken = {of[w]} THEN "claimed" ELSE "opening") \in {"claimed", "opening"}
    OBVIOUS
  <2> HIDE DEF taken
  <2> QED
    BY <2>1, <2>2, <2>3 DEF Claim
<1>4. /\ job' = [p \in Pages |-> IF p \in taken THEN row(p) ELSE job[p]]
      /\ worker' = [w \in Workers |-> IF HostOf[w] = h /\ of[w] # None THEN claim(w)
                                      ELSE worker[w]]
      /\ \A w \in Threads(h) : worker[w] = None
      /\ \A v, w \in Threads(h) : of[v] = of[w] /\ of[v] # None => v = w
      /\ left' = left \ taken
      /\ UNCHANGED <<text, vectors, lastId, alive, crashes, raced, stolen>>
  BY DEF Drain, Batch
<1>5. \A w \in Threads(h) : of[w] # None => of[w] \in taken
  BY <1>3
<1> HIDE DEF taken, row, claim
<1>6. job' \in [Pages -> Job \cup {None}]
  BY <1>1, <1>2, <1>4 DEF TypeOK
<1>7. worker' \in [Workers -> Claim \cup {None}]
  BY <1>3, <1>4 DEF TypeOK, Threads
<1>8. ASSUME NEW p \in Pages
      PROVE  \/ job'[p] = job[p] /\ \A w \in Threads(h) : of[w] # p
             \/ /\ Claimable(p)
                /\ job[p] # None /\ job'[p] # None
                /\ job'[p].id = job[p].id
                /\ job'[p].state = "running"
  <2>1. CASE p \in taken
    <3>1. job'[p] = row(p) /\ job[p] \in Job /\ row(p) \in Job
      BY <1>2, <1>4, <2>1
    <3> QED
      BY <1>1, <1>2, <2>1, <3>1
  <2>2. CASE p \notin taken
    BY <1>4, <1>5, <2>2
  <2> QED
    BY <2>1, <2>2
<1>9. ASSUME NEW w \in Workers
      PROVE  \/ worker'[w] = worker[w]
             \/ /\ w \in Threads(h) /\ of[w] \in Pages /\ Claimable(of[w])
                /\ worker[w] = None /\ worker'[w] # None
                /\ worker'[w].id = job[of[w]].id
                /\ worker'[w].page = of[w]
                /\ worker'[w].pc \in {"claimed", "opening"}
  <2>1. CASE HostOf[w] = h /\ of[w] # None
    <3>1. w \in Threads(h) /\ worker'[w] = claim(w) /\ worker[w] = None
      BY <1>4, <2>1 DEF Threads
    <3> QED
      BY <1>1, <1>3, <2>1, <3>1
  <2>2. CASE ~(HostOf[w] = h /\ of[w] # None)
    BY <1>4, <2>2
  <2> QED
    BY <2>1, <2>2
<1> QED
  BY <1>4, <1>6, <1>7, <1>8, <1>9

\* Every step keeps the types.
LEMMA TypeStep == ASSUME TypeOK, [Next]_vars PROVE TypeOK'
<1> USE EmbeddingAssumption
<1>1. ASSUME NEW p \in Pages, Write(p) PROVE TypeOK'
  <2>1. text[p] + 1 \in Text
    BY <1>1 DEF Write, TypeOK, Text
  <2>2. Enqueue(p) \in Job
    BY DEF TypeOK, Enqueue, Job
  <2> QED
    BY <1>1, <2>1, <2>2 DEF Write, TypeOK
<1>2. ASSUME NEW p \in Pages, Delete(p) PROVE TypeOK'
  BY <1>2 DEF Delete, TypeOK
<1>3. ASSUME NEW h \in Hosts, Drains(h) PROVE TypeOK'
  <2>0. \A t \in Threads(h) : worker[t] = None
    BY <1>3 DEF Drains
  <2>1. PICK of \in [Threads(h) -> Candidates \cup {None}] : Drain(h, of)
    BY <1>3 DEF Drains
  <2> QED
    BY <2>0, <2>1, Draining DEF TypeOK
<1>4. ASSUME NEW w \in Workers, Load(w) PROVE TypeOK'
  <2>1. worker[w] \in Claim
    BY <1>4 DEF Load, TypeOK
  <2>2. CASE text[worker[w].page] = None
    <3>1. job' \in [Pages -> Job \cup {None}]
      BY <1>4, <2>1, <2>2, JobWrites DEF Load, Claim
    <3> QED
      BY <1>4, <2>2, <3>1 DEF Load, TypeOK
  <2>3. CASE text[worker[w].page] # None
    <3>1. [worker[w] EXCEPT !.read = text[worker[w].page], !.pc = "read"] \in Claim
      BY <2>1 DEF Claim, TypeOK
    <3>2. worker' = [worker EXCEPT ![w] = [worker[w] EXCEPT !.read = text[worker[w].page],
                                                             !.pc = "read"]]
      BY <1>4, <2>3 DEF Load, TypeOK
    <3> QED
      BY <1>4, <2>3, <3>1, <3>2 DEF Load, TypeOK
  <2> QED
    BY <2>2, <2>3
<1>5. ASSUME NEW w \in Workers, Embed(w) PROVE TypeOK'
  <2>1. worker[w] \in Claim
    BY <1>5 DEF Embed, TypeOK
  <2>2. [worker[w] EXCEPT !.pc = "written"] \in Claim /\ worker[w].read \in Text \cup {None}
    BY <2>1 DEF Claim
  <2>3. worker' = [worker EXCEPT ![w] = [worker[w] EXCEPT !.pc = "written"]]
    BY <1>5 DEF Embed, TypeOK
  <2>4. worker' \in [Workers -> Claim \cup {None}]
    BY <2>2, <2>3 DEF TypeOK
  <2>5. vectors' \in [Pages -> Text \cup {None}]
    BY <1>5, <2>2 DEF Embed, TypeOK
  <2> QED
    BY <1>5, <2>4, <2>5 DEF Embed, TypeOK
<1>6. ASSUME NEW w \in Workers, Finish(w) \/ Fails(w) PROVE TypeOK'
  <2>1. worker[w] \in Claim
    BY <1>6 DEF Finish, Fails, TypeOK
  <2>2. job' \in [Pages -> Job \cup {None}]
    BY <1>6, <2>1, JobWrites DEF Finish, Fails, Claim
  <2> QED
    BY <1>6, <2>2 DEF Finish, Fails, TypeOK
<1>7. ASSUME NEW h \in Hosts, Crash(h) PROVE TypeOK'
  <2>1. \A w \in Busy : worker[w].page \in Pages
    BY DEF Busy, TypeOK, Claim
  <2>2. left' \subseteq Pages
    BY <1>7, <2>1 DEF Crash, TypeOK
  <2> QED
    BY <1>7, <2>2 DEF Crash, TypeOK
<1>8. ASSUME NEW h \in Hosts, Start(h) PROVE TypeOK'
  <2>1. \A p \in Pages : Resumed(p) \in Job \cup {None}
    BY DEF Resumed, TypeOK, Job
  <2>2. stolen' \in BOOLEAN
    <3>1. stolen' = (stolen \/ Busy # {}) \/ stolen' = stolen
      BY <1>8 DEF Start
    <3> QED
      BY <3>1 DEF TypeOK
  <2> QED
    BY <1>8, <2>1, <2>2 DEF Start, TypeOK
<1>9. ASSUME NEW w \in Workers, Opens(w) \/ Leaves(w) PROVE TypeOK'
  <2>1. worker[w] \in Claim
    BY <1>9 DEF Opens, Leaves, TypeOK
  <2>2. [worker[w] EXCEPT !.pc = "claimed"] \in Claim /\ worker[w].page \in Pages
    BY <2>1 DEF Claim
  <2>3. worker' = [worker EXCEPT ![w] = [worker[w] EXCEPT !.pc = "claimed"]]
        \/ worker' = [worker EXCEPT ![w] = None]
    BY <1>9 DEF Opens, Leaves, TypeOK
  <2> QED
    BY <1>9, <2>2, <2>3 DEF Opens, Leaves, TypeOK
<1>10. CASE UNCHANGED vars
  BY <1>10 DEF vars, TypeOK
<1> QED
  BY <1>1, <1>2, <1>3, <1>4, <1>5, <1>6, <1>7, <1>8, <1>9, <1>10 DEF Next, Works

\* The tables keep their types and no job is claimed more often than MaxAttempts, for any
\* pages, processes, threads and bounds (the guard of load_job_candidates).
THEOREM QueueTypeCorrect == Spec => []TypeOK
<1>1. Init => TypeOK
  <2>2. 0 \in Text
    BY DEF Text
  <2>3. ASSUME Init PROVE alive \in [Hosts -> BOOLEAN] /\ stolen \in BOOLEAN
    BY <2>3, Zenon DEF Init
  <2>4. ASSUME Init PROVE TypeOK
    BY <2>2, <2>3, <2>4 DEF Init, TypeOK
  <2> QED
    BY <2>4
<1> QED
  BY <1>1, TypeStep, PTL DEF Spec
-----------------------------------------------------------------------------
(* Ids. *)

\* An id is given to one page and never again, so a row or a worker that has it is of that
\* page (AUTOINCREMENT, UNIQUE(page_id)).
IdsAreOfPages ==
  /\ \A p \in Pages : job[p] # None => job[p].id <= lastId
  /\ \A w \in Workers : worker[w] # None => worker[w].id <= lastId
  /\ \A p, q \in Pages : job[p] # None /\ job[q] # None /\ job[p].id = job[q].id => p = q
  /\ \A w \in Workers, p \in Pages :
       worker[w] # None /\ job[p] # None /\ job[p].id = worker[w].id => p = worker[w].page

\* What a statement that ends or fails the job of a worker does: only the row of the
\* worker's page changes, and it keeps its id.
LEMMA ById ==
  ASSUME TypeOK, IdsAreOfPages, NEW w \in Workers, worker[w] # None,
         Done(worker[w].id) \/ MarkFailed(worker[w].id)
  PROVE  /\ worker[w] \in Claim
         /\ \A p \in Pages : p # worker[w].page => job'[p] = job[p]
         /\ \A p \in Pages : job'[p] # None => /\ job[p] # None
                                               /\ job'[p].id = job[p].id
<1>1. worker[w] \in Claim
  BY DEF TypeOK
<1>2. \A p \in Pages : p # worker[w].page => job'[p] = job[p]
  BY <1>1 DEF IdsAreOfPages, Done, MarkFailed, TypeOK
<1>3. \A p \in Pages : job'[p] # None => job[p] # None /\ job'[p].id = job[p].id
  BY <1>1 DEF Done, MarkFailed, TypeOK, Job
<1> QED
  BY <1>1, <1>2, <1>3

\* Every step keeps ids apart.
LEMMA IdStep == ASSUME TypeOK, IdsAreOfPages, [Next]_vars PROVE IdsAreOfPages'
<1> USE EmbeddingAssumption
<1>0. TypeOK'
  BY TypeStep
<1> DEFINE SameRows == \A p \in Pages : job'[p] # None => job[p] # None /\ job'[p].id = job[p].id
           SameWork == \A w \in Workers : worker'[w] # None =>
                         /\ worker[w] # None
                         /\ worker'[w].id = worker[w].id
                         /\ worker'[w].page = worker[w].page
<1>1. ASSUME NEW p \in Pages, Write(p) PROVE IdsAreOfPages'
  <2>1. Enqueue(p) \in Job /\ lastId' \in Nat /\ lastId \in Nat
    BY <1>0, <1>1 DEF TypeOK, Enqueue, Job
  <2>2. job' = [job EXCEPT ![p] = Enqueue(p)] /\ worker' = worker
    BY <1>1 DEF Write
  <2>3. CASE job[p] # None
    <3>1. lastId' = lastId /\ Enqueue(p).id = job[p].id
      BY <1>1, <2>3 DEF Write, Enqueue
    <3> QED
      BY <2>1, <2>2, <2>3, <3>1 DEF IdsAreOfPages, TypeOK, Job, Claim
  <2>4. CASE job[p] = None
    <3>1. lastId' = lastId + 1 /\ Enqueue(p).id = lastId + 1
      BY <1>1, <2>4 DEF Write, Enqueue
    <3>2. \A q \in Pages : job[q] # None => job[q] \in Job
      BY DEF TypeOK
    <3>3. \A w \in Workers : worker[w] # None => worker[w] \in Claim
      BY DEF TypeOK
    <3>4. \A q \in Pages : job'[q] # None => \/ q = p /\ job'[q].id = lastId + 1
                                             \/ job'[q] = job[q] /\ q # p
      BY <2>1, <2>2, <3>1 DEF TypeOK
    <3> QED
      BY <2>1, <2>2, <3>1, <3>2, <3>3, <3>4 DEF IdsAreOfPages, Job, Claim
  <2> QED
    BY <2>3, <2>4
<1>2. ASSUME NEW h \in Hosts, Drains(h) PROVE IdsAreOfPages'
  <2>0. \A t \in Threads(h) : worker[t] = None
    BY <1>2 DEF Drains
  <2>1. PICK of \in [Threads(h) -> Candidates \cup {None}] : Drain(h, of)
    BY <1>2 DEF Drains
  <2>2. SameRows /\ lastId' = lastId
    BY <2>0, <2>1, Draining
  <2>3. \A v \in Workers : worker'[v] # None =>
          \/ worker'[v] = worker[v]
          \/ \E p \in Pages : job[p] # None /\ worker'[v].id = job[p].id /\ worker'[v].page = p
    BY <2>0, <2>1, Draining DEF Claimable
  <2> HIDE DEF SameWork
  <2> QED
    BY <2>2, <2>3 DEF IdsAreOfPages
<1>3. ASSUME SameRows, SameWork, lastId' = lastId PROVE IdsAreOfPages'
  BY <1>3 DEF IdsAreOfPages
<1>4. ASSUME NEW p \in Pages, Delete(p) PROVE IdsAreOfPages'
  <2>1. SameRows /\ SameWork /\ lastId' = lastId
    BY <1>4 DEF Delete, TypeOK
  <2> QED
    BY <2>1, <1>3
<1>5. ASSUME NEW w \in Workers, Works(w) PROVE IdsAreOfPages'
  <2>1. worker[w] # None /\ lastId' = lastId /\ worker[w] \in Claim
    BY <1>5 DEF Works, Opens, Leaves, Load, Embed, Finish, Fails, TypeOK
  <2>2. SameRows
    <3>1. Done(worker[w].id) \/ MarkFailed(worker[w].id) \/ UNCHANGED job
      BY <1>5 DEF Works, Opens, Leaves, Load, Embed, Finish, Fails
    <3> QED
      BY <2>1, <3>1, ById
  <2>3. SameWork
    BY <1>5, <2>1 DEF Works, Opens, Leaves, Load, Embed, Finish, Fails, TypeOK, Claim
  <2> QED
    BY <2>1, <2>2, <2>3, <1>3
<1>6. ASSUME NEW h \in Hosts, Crash(h) PROVE IdsAreOfPages'
  <2>1. SameRows /\ SameWork /\ lastId' = lastId
    BY <1>6 DEF Crash, TypeOK
  <2> QED
    BY <2>1, <1>3
<1>7. ASSUME NEW h \in Hosts, Start(h) PROVE IdsAreOfPages'
  <2>1. SameRows
    BY <1>7 DEF Start, Resumed, TypeOK, Job
  <2>2. SameWork /\ lastId' = lastId
    BY <1>7 DEF Start
  <2> QED
    BY <2>1, <2>2, <1>3
<1>8. CASE UNCHANGED vars
  BY <1>8 DEF vars, IdsAreOfPages
<1> QED
  BY <1>1, <1>2, <1>4, <1>5, <1>6, <1>7, <1>8 DEF Next, Works
\* Ids are of one page in every reachable state.
LEMMA IdsHold == Spec => [](TypeOK /\ IdsAreOfPages)
<1>1. Init => IdsAreOfPages
  BY DEF Init, IdsAreOfPages
<1> QED
  BY <1>1, QueueTypeCorrect, IdStep, PTL DEF Spec
-----------------------------------------------------------------------------
(* One worker for a job. *)

\* As long as no starting process took a job over, a worker at a page that was not
\* written meanwhile holds its row, which says "running", and is alone there.
ClaimIsHeld ==
  ~stolen => \A w \in Workers :
    worker[w] # None /\ worker[w].page \notin raced =>
      /\ job[worker[w].page] # None
      /\ job[worker[w].page].state = "running"
      /\ \A v \in Workers : worker[v] # None /\ worker[v].page = worker[w].page => v = w

\* Every step keeps it.
LEMMA ClaimStep ==
  ASSUME TypeOK, IdsAreOfPages, ClaimIsHeld, [Next]_vars
  PROVE  ClaimIsHeld'
<1> USE EmbeddingAssumption
<1> SUFFICES ASSUME ~stolen', NEW w \in Workers, worker'[w] # None,
                    worker'[w].page \notin raced'
             PROVE  /\ job'[worker'[w].page] # None
                    /\ job'[worker'[w].page].state = "running"
                    /\ \A v \in Workers :
                         worker'[v] # None /\ worker'[v].page = worker'[w].page => v = w
  BY DEF ClaimIsHeld
<1>0. ~stolen /\ raced \subseteq raced'
  <2>1. stolen' = stolen \/ stolen' = (stolen \/ Busy # {})
    BY Zenon DEF Next, Works, Write, Delete, Drains, Drain, Opens, Load, Embed, Finish, Fails, Leaves,
          Crash, Start, vars
  <2>2. ~stolen
    BY <2>1
  <2>3. raced \subseteq raced'
    BY DEF Next, Works, Write, Delete, Drains, Drain, Opens, Load, Embed, Finish, Fails, Leaves,
          Crash, Start, vars
  <2> QED
    BY <2>2, <2>3
<1> DEFINE p == worker[w].page
<1>1. ASSUME worker[w] # None, p \notin raced
      PROVE  /\ job[p] # None
             /\ job[p].state = "running"
             /\ \A v \in Workers : worker[v] # None /\ worker[v].page = p => v = w
  BY <1>0, <1>1 DEF ClaimIsHeld
<1>2. ASSUME NEW q \in Pages, Write(q) \/ Delete(q)
      PROVE  /\ job'[worker'[w].page] # None
             /\ job'[worker'[w].page].state = "running"
             /\ \A v \in Workers :
                  worker'[v] # None /\ worker'[v].page = worker'[w].page => v = w
  <2>1. worker' = worker /\ \A r \in Pages \ {q} : job'[r] = job[r]
    BY <1>2 DEF Write, Delete, TypeOK
  <2>2. worker[w] \in Claim /\ p \notin raced
    BY <1>0, <2>1 DEF TypeOK
  <2>3. p # q
    BY <1>2, <2>1 DEF Write, Delete, At, Busy
  <2>4. job'[p] = job[p]
    BY <2>1, <2>2, <2>3 DEF Claim
  <2> QED
    BY <1>1, <2>1, <2>2, <2>4
<1>3. ASSUME NEW h \in Hosts, Drains(h)
      PROVE  /\ job'[worker'[w].page] # None
             /\ job'[worker'[w].page].state = "running"
             /\ \A v \in Workers :
                  worker'[v] # None /\ worker'[v].page = worker'[w].page => v = w
  <2>0. \A t \in Threads(h) : worker[t] = None
    BY <1>3 DEF Drains
  <2>1. PICK of \in [Threads(h) -> Candidates \cup {None}] : Drain(h, of)
    BY <1>3 DEF Drains
  <2> DEFINE New(v) == /\ v \in Threads(h) /\ of[v] \in Pages /\ Claimable(of[v])
                       /\ worker'[v].page = of[v]
  <2>2. \A v \in Workers : worker'[v] = worker[v] \/ New(v)
    BY <2>0, <2>1, Draining
  <2>3. raced' = raced /\ \A u, v \in Threads(h) : of[u] = of[v] /\ of[u] # None => u = v
    BY <2>0, <2>1, Draining
  <2>4. \A q \in Pages : \/ job'[q] = job[q] /\ \A v \in Threads(h) : of[v] # q
                         \/ Claimable(q) /\ job'[q] # None /\ job'[q].state = "running"
    BY <2>0, <2>1, Draining
  <2>5. \A q \in Pages : Claimable(q) => job[q].state # "running"
    BY DEF Claimable
  <2>6. \A v \in Workers : worker[v] # None => worker[v].page \in Pages
    BY DEF TypeOK, Claim
  <2>7. ASSUME NEW v \in Workers, worker[v] # None, Claimable(worker[v].page)
        PROVE  worker[v].page \in raced
    BY <1>0, <2>5, <2>6, <2>7 DEF ClaimIsHeld
  <2>8. CASE New(w)
    <3>1. job'[of[w]] # None /\ job'[of[w]].state = "running"
      BY <2>4, <2>8
    <3>2. ASSUME NEW v \in Workers, worker'[v] # None, worker'[v].page = worker'[w].page
          PROVE  v = w
      <4>1. CASE New(v)
        BY <2>3, <2>8, <3>2, <4>1, EmbeddingAssumption
      <4>2. CASE worker'[v] = worker[v]
        BY <2>3, <2>7, <2>8, <3>2, <4>2
      <4> QED
        BY <2>2, <4>1, <4>2
    <3> QED
      BY <2>8, <3>1, <3>2
  <2>9. CASE worker'[w] = worker[w]
    <3>1. worker[w] # None /\ p \notin raced /\ p \in Pages
      BY <2>3, <2>6, <2>9
    <3>2. ~Claimable(p)
      BY <2>7, <3>1
    <3>3. job'[p] = job[p]
      BY <2>4, <3>1, <3>2
    <3>4. \A v \in Workers : worker'[v] # None /\ worker'[v].page = p => worker'[v] = worker[v]
      BY <2>2, <3>2
    <3> QED
      BY <1>1, <2>9, <3>1, <3>3, <3>4
  <2> QED
    BY <2>2, <2>8, <2>9
<1>4. ASSUME NEW u \in Workers, Works(u)
      PROVE  /\ job'[worker'[w].page] # None
             /\ job'[worker'[w].page].state = "running"
             /\ \A v \in Workers :
                  worker'[v] # None /\ worker'[v].page = worker'[w].page => v = w
  <2>1. /\ worker[u] \in Claim
        /\ worker[u] # None
        /\ raced' = raced
        /\ \A v \in Workers \ {u} : worker'[v] = worker[v]
    BY <1>4 DEF Works, Opens, Leaves, Load, Embed, Finish, Fails, TypeOK
  <2>2. \/ UNCHANGED job /\ (worker'[u] = None \/ worker'[u].page = worker[u].page)
        \/ (Done(worker[u].id) \/ MarkFailed(worker[u].id)) /\ worker'[u] = None
    BY <1>4, <2>1 DEF Works, Opens, Leaves, Load, Embed, Finish, Fails, TypeOK, Claim
  <2>3. worker[w] # None /\ worker'[w].page = p /\ p \notin raced /\ p \in Pages
    BY <2>1, <2>2 DEF TypeOK, Claim
  <2>4. job'[p] = job[p]
    <3>1. CASE UNCHANGED job
      BY <3>1
    <3>2. CASE (Done(worker[u].id) \/ MarkFailed(worker[u].id)) /\ worker'[u] = None
      <4>1. w # u
        BY <3>2
      <4>2. worker[u].page # p
        BY <1>1, <2>1, <2>3, <4>1
      <4> QED
        BY <2>1, <2>3, <3>2, <4>2, ById
    <3> QED
      BY <2>2, <3>1, <3>2
  <2>5. \A v \in Workers : worker'[v] # None => worker[v] # None /\ worker'[v].page = worker[v].page
    BY <2>1, <2>2
  <2> QED
    BY <1>1, <2>3, <2>4, <2>5
<1>5. ASSUME NEW h \in Hosts, Crash(h)
      PROVE  /\ job'[worker'[w].page] # None
             /\ job'[worker'[w].page].state = "running"
             /\ \A v \in Workers :
                  worker'[v] # None /\ worker'[v].page = worker'[w].page => v = w
  <2>1. job' = job /\ raced' = raced /\ \A v \in Workers : worker'[v] # None => worker'[v] = worker[v]
    BY <1>5 DEF Crash
  <2> QED
    BY <1>1, <2>1
<1>6. ASSUME NEW h \in Hosts, Start(h)
      PROVE  /\ job'[worker'[w].page] # None
             /\ job'[worker'[w].page].state = "running"
             /\ \A v \in Workers :
                  worker'[v] # None /\ worker'[v].page = worker'[w].page => v = w
  <2>1. worker' = worker /\ raced' = raced /\ Busy # {}
    BY <1>6 DEF Start, Busy
  <2>2. job' = job
    BY <1>6, <2>1 DEF Start
  <2> QED
    BY <1>1, <2>1, <2>2
<1>7. CASE UNCHANGED vars
  BY <1>1, <1>7 DEF vars
<1> QED
  BY <1>2, <1>3, <1>4, <1>5, <1>6, <1>7 DEF Next, Works

\* A job is at one worker at a time, whichever processes drain the queue, unless its page
\* was written meanwhile or a starting process took it over (the guarded UPDATE of
\* claim_embedding_jobs).
THEOREM ClaimsAreExclusive == Spec => []ClaimIsExclusive
<1>1. Init => ClaimIsHeld
  BY DEF Init, ClaimIsHeld
<1>2. ASSUME ClaimIsHeld PROVE ClaimIsExclusive
  <2> SUFFICES ASSUME ~stolen, NEW p \in Pages \ raced PROVE Cardinality(At(p)) <= 1
    BY DEF ClaimIsExclusive
  <2>1. CASE At(p) = {}
    BY <2>1, FS_EmptySet
  <2>2. ASSUME NEW w \in At(p) PROVE Cardinality(At(p)) <= 1
    <3>1. At(p) = {w}
      BY <1>2, <2>2 DEF ClaimIsHeld, At, Busy
    <3>2. Cardinality({w}) = 1
      BY FS_Singleton
    <3> QED
      BY <3>1, <3>2
  <2> QED
    BY <2>1, <2>2
<1> QED
  BY <1>1, <1>2, IdsHold, ClaimStep, PTL DEF Spec

-----------------------------------------------------------------------------
(* No write is lost. *)

\* A page with a job has a text; a worker at a page that was not written meanwhile has read
\* its present text, and written embeddings of it.
WorkIsFresh ==
  /\ \A p \in Pages : job[p] # None => text[p] \notin {0, None}
  /\ \A w \in Workers : worker[w] # None /\ worker[w].page \notin raced =>
       /\ text[worker[w].page] \notin {0, None}
       /\ worker[w].pc \in {"read", "written"} => worker[w].read = text[worker[w].page]
       /\ worker[w].pc = "written" => vectors[worker[w].page] = text[worker[w].page]
  /\ NoLostText

\* Every step keeps it.
LEMMA FreshStep ==
  ASSUME TypeOK, IdsAreOfPages, WorkIsFresh, [Next]_vars
  PROVE  WorkIsFresh'
<1> USE EmbeddingAssumption
<1>1. ASSUME NEW p \in Pages, Write(p) PROVE WorkIsFresh'
  <2>1. text[p] + 1 \notin {0, None}
    BY <1>1 DEF Write, TypeOK, Text
  <2>2. Enqueue(p) # None
    <3>1. Enqueue(p) \in Job
      BY DEF TypeOK, Enqueue, Job
    <3> QED
      BY <3>1
  <2>3. /\ text'[p] \notin {0, None} /\ job'[p] # None
        /\ \A q \in Pages \ {p} : text'[q] = text[q] /\ job'[q] = job[q]
        /\ vectors' = vectors /\ worker' = worker /\ raced \subseteq raced'
    BY <1>1, <2>1, <2>2 DEF Write, TypeOK
  <2>4. \A w \in Workers : worker[w] # None /\ worker[w].page = p => p \in raced'
    BY <1>1 DEF Write, At, Busy
  <2>5. \A w \in Workers : worker[w] # None => worker[w].page \in Pages
    BY DEF TypeOK, Claim
  <2> QED
    BY <2>3, <2>4, <2>5 DEF WorkIsFresh, NoLostText
<1>2. ASSUME NEW p \in Pages, Delete(p) PROVE WorkIsFresh'
  <2>1. /\ text'[p] = None /\ job'[p] = None
        /\ \A q \in Pages \ {p} : text'[q] = text[q] /\ job'[q] = job[q] /\ vectors'[q] = vectors[q]
        /\ worker' = worker /\ raced \subseteq raced'
    BY <1>2 DEF Delete, TypeOK
  <2>2. \A w \in Workers : worker[w] # None /\ worker[w].page = p => p \in raced'
    BY <1>2 DEF Delete, At, Busy
  <2>3. \A w \in Workers : worker[w] # None => worker[w].page \in Pages
    BY DEF TypeOK, Claim
  <2> QED
    BY <2>1, <2>2, <2>3 DEF WorkIsFresh, NoLostText
<1>3. ASSUME NEW h \in Hosts, Drains(h) PROVE WorkIsFresh'
  <2>0. \A t \in Threads(h) : worker[t] = None
    BY <1>3 DEF Drains
  <2>1. PICK of \in [Threads(h) -> Candidates \cup {None}] : Drain(h, of)
    BY <1>3 DEF Drains
  <2>2. UNCHANGED <<text, vectors, raced>> /\ \A p \in Pages : job'[p] # None <=> job[p] # None
    BY <2>0, <2>1, Draining
  <2>3. \A v \in Workers :
          \/ worker'[v] = worker[v]
          \/ /\ worker'[v].page \in Pages /\ job[worker'[v].page] # None
             /\ worker'[v].pc \notin {"read", "written"}
    BY <2>0, <2>1, Draining DEF Claimable
  <2> QED
    BY <2>2, <2>3 DEF WorkIsFresh, NoLostText
<1>4. ASSUME NEW w \in Workers, Load(w) PROVE WorkIsFresh'
  <2>1. /\ worker[w] \in Claim /\ worker[w] # None /\ worker[w].page \in Pages
        /\ UNCHANGED <<text, vectors, raced>>
    BY <1>4 DEF Load, TypeOK, Claim
  <2>2. CASE text[worker[w].page] = None
    <3>1. /\ Done(worker[w].id)
          /\ \A v \in Workers : worker'[v] # None => worker'[v] = worker[v]
      BY <1>4, <2>2 DEF Load, TypeOK
    <3>2. \A q \in Pages : /\ q # worker[w].page => job'[q] = job[q]
                           /\ job'[q] # None => job[q] # None
      BY <2>1, <3>1, ById
    <3> QED
      BY <2>1, <2>2, <3>1, <3>2 DEF WorkIsFresh, NoLostText
  <2>3. CASE text[worker[w].page] # None
    <3>1. /\ job' = job
          /\ worker'[w].page = worker[w].page
          /\ worker'[w].pc = "read"
          /\ worker'[w].read = text[worker[w].page]
          /\ \A v \in Workers \ {w} : worker'[v] = worker[v]
      BY <1>4, <2>1, <2>3 DEF Load, TypeOK, Claim
    <3> QED
      BY <2>1, <3>1 DEF WorkIsFresh, NoLostText
  <2> QED
    BY <2>2, <2>3
<1>5. ASSUME NEW w \in Workers, Embed(w) PROVE WorkIsFresh'
  <2>1. /\ worker[w] \in Claim /\ worker[w] # None /\ worker[w].page \in Pages
        /\ worker[w].pc = "read" /\ UNCHANGED <<text, job, raced>>
    BY <1>5 DEF Embed, TypeOK, Claim
  <2>2. /\ vectors'[worker[w].page] = worker[w].read
        /\ \A q \in Pages \ {worker[w].page} : vectors'[q] = vectors[q]
    BY <1>5, <2>1 DEF Embed, TypeOK
  <2>3. /\ worker'[w].page = worker[w].page
        /\ worker'[w].read = worker[w].read
        /\ \A v \in Workers \ {w} : worker'[v] = worker[v]
    BY <1>5, <2>1 DEF Embed, TypeOK, Claim
  <2>4. worker[w].page \notin raced => worker[w].read = text[worker[w].page]
    BY <2>1 DEF WorkIsFresh
  <2>5. NoLostText'
    BY <2>1, <2>2, <2>4 DEF WorkIsFresh, NoLostText
  <2>6. \A v \in Workers : worker[v] # None => worker[v].page \in Pages
    BY DEF TypeOK, Claim
  <2>7. ASSUME NEW v \in Workers, worker'[v] # None, worker'[v].page \notin raced'
        PROVE  /\ text'[worker'[v].page] \notin {0, None}
               /\ worker'[v].pc \in {"read", "written"} => worker'[v].read = text'[worker'[v].page]
               /\ worker'[v].pc = "written" => vectors'[worker'[v].page] = text'[worker'[v].page]
    <3>1. CASE v = w
      BY <2>1, <2>2, <2>3, <2>4, <2>7, <3>1 DEF WorkIsFresh
    <3>2. CASE v # w
      BY <2>1, <2>2, <2>3, <2>4, <2>6, <2>7, <3>2 DEF WorkIsFresh
    <3> QED
      BY <3>1, <3>2
  <2> QED
    BY <2>1, <2>5, <2>7 DEF WorkIsFresh
<1>6. ASSUME NEW w \in Workers, Finish(w) PROVE WorkIsFresh'
  <2>1. /\ worker[w] \in Claim /\ worker[w] # None /\ worker[w].page \in Pages
        /\ worker[w].pc = "written" /\ Done(worker[w].id)
        /\ UNCHANGED <<text, vectors, raced>>
    BY <1>6 DEF Finish, TypeOK, Claim
  <2>2. \A v \in Workers : worker'[v] # None => worker'[v] = worker[v]
    BY <1>6 DEF Finish, TypeOK
  <2>3. \A q \in Pages : /\ q # worker[w].page => job'[q] = job[q]
                         /\ job'[q] # None => job[q] # None
    BY <2>1, ById
  <2>4. worker[w].page \notin raced => vectors[worker[w].page] = text[worker[w].page]
    BY <2>1 DEF WorkIsFresh
  <2> QED
    BY <2>1, <2>2, <2>3, <2>4 DEF WorkIsFresh, NoLostText
<1>7. ASSUME NEW h \in Hosts, Crash(h) PROVE WorkIsFresh'
  <2>1. /\ UNCHANGED <<text, vectors, job, raced>>
        /\ \A v \in Workers : worker'[v] # None => worker'[v] = worker[v]
    BY <1>7 DEF Crash
  <2> QED
    BY <2>1 DEF WorkIsFresh, NoLostText
<1>8. ASSUME NEW h \in Hosts, Start(h) PROVE WorkIsFresh'
  <2>1. UNCHANGED <<text, vectors, worker, raced>>
    BY <1>8 DEF Start
  <2>2. \A p \in Pages : job'[p] # None <=> job[p] # None
    BY <1>8 DEF Start, Resumed, TypeOK, Job
  <2> QED
    BY <2>1, <2>2 DEF WorkIsFresh, NoLostText
<1>9. ASSUME NEW w \in Workers, Opens(w) \/ Leaves(w) PROVE WorkIsFresh'
  <2>1. worker[w] \in Claim /\ UNCHANGED <<text, vectors, job, raced>>
    BY <1>9 DEF Opens, Leaves, TypeOK
  <2>2. \A v \in Workers : worker'[v] # None =>
          \/ worker'[v] = worker[v]
          \/ v = w /\ worker'[v].page = worker[v].page /\ worker'[v].pc = "claimed"
    BY <1>9, <2>1 DEF Opens, Leaves, TypeOK, Claim
  <2>3. worker[w] # None
    BY <1>9 DEF Opens, Leaves
  <2> QED
    BY <2>1, <2>2, <2>3 DEF WorkIsFresh, NoLostText
<1>10. ASSUME NEW w \in Workers, Fails(w) PROVE WorkIsFresh'
  <2>1. /\ worker[w] \in Claim /\ MarkFailed(worker[w].id)
        /\ UNCHANGED <<text, vectors, raced>>
    BY <1>10 DEF Fails, TypeOK
  <2>2. \A q \in Pages : job'[q] # None <=> job[q] # None
    BY <2>1 DEF MarkFailed, TypeOK, Job
  <2>3. \A v \in Workers : worker'[v] # None => worker'[v] = worker[v]
    BY <1>10 DEF Fails, TypeOK
  <2> QED
    BY <2>1, <2>2, <2>3 DEF WorkIsFresh, NoLostText
<1>11. CASE UNCHANGED vars
  BY <1>11 DEF vars, WorkIsFresh, NoLostText
<1> QED
  BY <1>1, <1>2, <1>3, <1>4, <1>5, <1>6, <1>7, <1>8, <1>9, <1>10, <1>11 DEF Next, Works

\* A page without a job has embeddings of its present text unless it was written while a
\* worker was at it: neither crashes, failures and retries nor jobs that are taken over
\* while their worker lives lose a write.
THEOREM TextIsNeverLost == Spec => []NoLostText
<1>1. Init => WorkIsFresh
  BY DEF Init, WorkIsFresh, NoLostText
<1>2. WorkIsFresh => NoLostText
  BY DEF WorkIsFresh
<1> QED
  BY <1>1, <1>2, IdsHold, FreshStep, PTL DEF Spec

=============================================================================
