-------------------------- MODULE Conversation_proofs --------------------------
(***************************************************************************)
(* Theorems about Conversation for any days, clients, runtime hosts, window*)
(* and bounds.  First the operators (the first and the last of some        *)
(* numbers, windows, the statements of the queue), then one inductive      *)
(* invariant for each of the four theorems, the last of which is the       *)
(* refinement of SessionLog.                                               *)
(***************************************************************************)
EXTENDS Conversation, FiniteSetTheorems, TLAPS

(* What must hold so that every step is typed. *)

\* A row that waits or runs names its day-file.
RowsNamed == \A i \in Ids : rows[i].status \in {"pending", "running"} => rows[i].path \in Paths

\* A call between two of its writes knows its day-file; one of --force has some left.
CallsKnown ==
  \A t \in Callers :
    /\ call[t].pc \in {"appended", "cached", "closing", "closed"} => call[t].day \in Days
    /\ call[t].pc = "reset" => call[t].todo # {}

\* A worker in the middle of a job holds its lease.
WorkLeased ==
  \A w \in Workers :
    /\ work[w].pc # "idle" => lease[w] # None
    /\ work[w].pc = "written" => work[w].windows # <<>>

\* The windows a worker planned are turns of the day-file of its job.
WorkInside ==
  \A w \in Workers : work[w].pc \in {"ready", "written"} =>
    \A i \in DOMAIN work[w].windows : work[w].windows[i] \subseteq Positions(lease[w].path)

\* Without a cached row there is no day-file; one that is absent is empty.
FilesCached ==
  /\ cache = None => Existing = {}
  /\ \A d \in Days : file[d].status = "absent" => file[d].turns = <<>>

QueueInv == QueueTypeOK /\ RowsNamed
TypeInv == TypeOK /\ RowsNamed /\ CallsKnown /\ WorkLeased /\ WorkInside /\ FilesCached

(* What keeps the cursor honest. *)

\* A call between the write of a day-file and that of the cached row has the lock.
LockHeld == \A t \in Callers : call[t].pc \in {"appended", "closing"} => lock = t

\* The ordinals of a day-file increase.
Ordered == \A d \in Days : \A p, q \in Positions(d) : p < q => file[d].turns[p] < file[d].turns[q]

\* The highest ordinal there is, as the cached row or the call under way knows it.
Highest == IF lock # None /\ call[lock].pc = "appended" THEN call[lock].max
           ELSE IF cache = None THEN 0 ELSE cache.max

\* No ordinal and no cursor is above it.
Bounded ==
  \A d \in Days : /\ file[d].cursor <= Highest
                  /\ \A p \in Positions(d) : file[d].turns[p] <= Highest

\* Every turn before one of a window was extracted, or is in that window or one
\* before; a window that is written was extracted.
WindowsHonest ==
  \A w \in Workers :
    /\ work[w].pc \in {"ready", "written"} =>
         \A i \in DOMAIN work[w].windows : \A q \in work[w].windows[i] : \A p \in 1 .. q :
           p \in extracted[lease[w].path] \/ \E j \in 1 .. i : p \in work[w].windows[j]
    /\ work[w].pc = "written" => work[w].windows[1] \subseteq extracted[lease[w].path]

LogInv == LockHeld /\ Ordered /\ Bounded
HonestInv == TypeInv /\ LogInv /\ WindowsHonest /\ CursorIsHonest

(* What keeps the tail queued. *)

\* The ordinals of a day-file never decrease.
Sorted == \A d \in Days : \A p, q \in Positions(d) : p < q => file[d].turns[p] <= file[d].turns[q]

\* A turn is under way that only its call knows the ordinal of.
Appended == lock # None /\ call[lock].pc = "appended"

\* The ordinal of the turn under way, or of the next one.
Reach == IF Appended THEN call[lock].max ELSE IF cache = None THEN 0 ELSE cache.max + 1

\* No ordinal is above it; the turn under way was numbered by the cached row.
Reached ==
  /\ \A d \in Days : \A p \in Positions(d) : file[d].turns[p] <= Reach
  /\ Appended => cache # None /\ call[lock].max = cache.max + 1

SortInv == LockHeld /\ Sorted /\ Reached

\* Worker w was handed row i, and claimed it last.
Holds(w, i) == lease[w] # None /\ lease[w].id = i /\ holder[i] = w

\* A running row is the one that its holder was handed.
Held ==
  \A w \in Workers : lease[w] # None =>
    LET row == rows[lease[w].id] IN
    Holds(w, lease[w].id) /\ row.status = "running" =>
      row.attempts = lease[w].attempts /\ row.path = lease[w].path

\* Worker w has yet to read its day-file, or turn p of it is in a window it has left.
Has(w, p) == \/ work[w].pc = "claimed"
             \/ \E k \in DOMAIN work[w].windows : p \in work[w].windows[k]

\* Row i will bring turn p of its day-file to the extractor: it waits, or it runs, and who
\* holds it, if anybody, has the turn.
Covers(i, p) == \/ rows[i].status = "pending"
                \/ rows[i].status = "running" /\ \A w \in Workers : Holds(w, i) => Has(w, p)

Safe(d, p) == \/ \E i \in Ids : rows[i].path = d /\ Covers(i, p)
              \/ \E t \in Callers : d \in Owed(t)
              \/ d \in dropped

TailKept == \A d \in Days : \A p \in NewTurns(d) : Safe(d, p)

TailInv == TypeInv /\ SortInv /\ Held /\ TailKept

-----------------------------------------------------------------------------
(* Numbers. *)

\* Finitely many numbers have a least one ...
LEMMA LeastExists ==
  ASSUME NEW S \in SUBSET Nat, S # {}, IsFiniteSet(S)
  PROVE  \E s \in S : \A r \in S : s <= r
<1> DEFINE Down(s) == {r \in S : r < s}
           T == {Down(s) : s \in S}
           R == StrictSubsetOrdering(S)
<1>1. IsWellFoundedOn(R, FiniteSubsetsOf(S))
  BY FS_StrictSubsetOrderingWellFounded
<1>2. T \subseteq FiniteSubsetsOf(S)
  BY FS_Subset DEF FiniteSubsetsOf
<1>3. \E x \in T : \A y \in T : ~(<<y, x>> \in R)
  <2>1. T # {}
    OBVIOUS
  <2> HIDE DEF T, R
  <2> QED
    BY <1>1, <1>2, <2>1, WFMin
<1>4. PICK s \in S : \A r \in S : ~(<<Down(r), Down(s)>> \in R)
  BY <1>3
<1>5. ASSUME NEW r \in S, r < s
      PROVE  FALSE
  <2>1. ASSUME NEW x \in S, x < r PROVE x < s
    <3>1. x \in Nat /\ r \in Nat /\ s \in Nat
      OBVIOUS
    <3> QED
      BY <1>5, <2>1, <3>1
  <2>2. r \in Down(s) /\ r \notin Down(r)
    BY <1>5
  <2> QED
    BY <1>4, <2>1, <2>2 DEF StrictSubsetOrdering
<1> QED
  BY <1>5

\* ... and a greatest one.
LEMMA GreatestExists ==
  ASSUME NEW S \in SUBSET Nat, S # {}, IsFiniteSet(S)
  PROVE  \E s \in S : \A r \in S : r <= s
<1> DEFINE Up(s) == {r \in S : s < r}
           T == {Up(s) : s \in S}
           R == StrictSubsetOrdering(S)
<1>1. IsWellFoundedOn(R, FiniteSubsetsOf(S))
  BY FS_StrictSubsetOrderingWellFounded
<1>2. T \subseteq FiniteSubsetsOf(S)
  BY FS_Subset DEF FiniteSubsetsOf
<1>3. \E x \in T : \A y \in T : ~(<<y, x>> \in R)
  <2>1. T # {}
    OBVIOUS
  <2> HIDE DEF T, R
  <2> QED
    BY <1>1, <1>2, <2>1, WFMin
<1>4. PICK s \in S : \A r \in S : ~(<<Up(r), Up(s)>> \in R)
  BY <1>3
<1>5. ASSUME NEW r \in S, s < r
      PROVE  FALSE
  <2>1. ASSUME NEW x \in S, r < x PROVE s < x
    <3>1. x \in Nat /\ r \in Nat /\ s \in Nat
      OBVIOUS
    <3> QED
      BY <1>5, <2>1, <3>1
  <2>2. r \in Up(s) /\ r \notin Up(r)
    BY <1>5
  <2> QED
    BY <1>4, <2>1, <2>2 DEF StrictSubsetOrdering
<1> QED
  BY <1>5

\* The first of some rows is one of them.
LEMMA FirstIsLeast ==
  ASSUME NEW S \in SUBSET Ids, S # {}
  PROVE  First(S) \in S
<1>1. 1 \in Int /\ MaxRows \in Int /\ Ids \subseteq Nat
  BY QueueAssumption DEF Ids
<1>2. IsFiniteSet(Ids)
  BY <1>1, FS_Interval DEF Ids
<1>3. S \subseteq Nat /\ IsFiniteSet(S)
  BY <1>1, <1>2, FS_Subset
<1> QED
  BY <1>3, LeastExists DEF First

\* The last of some numbers is one of them, and none is above it.
LEMMA LastIsGreatest ==
  ASSUME NEW S \in SUBSET Nat, S # {}, IsFiniteSet(S)
  PROVE  Last(S) \in S /\ \A r \in S : r <= Last(S)
BY GreatestExists DEF Last

\* The day-files of --force are taken in the order of their dates.
LEMMA FirstDay ==
  ASSUME NEW S \in SUBSET Days, S # {}
  PROVE  First(S) \in S
<1>1. S \subseteq Nat /\ IsFiniteSet(S)
  BY FS_Subset, ConversationAssumption
<1> QED
  BY <1>1, LeastExists DEF First

(* Windows. *)

\* A division by the size of a window keeps the order.
LEMMA Division ==
  ASSUME NEW a \in Nat, NEW b \in Nat
  PROVE  /\ a \div Window \in Nat
         /\ a <= b => a \div Window <= b \div Window
         /\ a < b => a \div Window + 1 <= (b + Window - 1) \div Window
<1> DEFINE W == Window
           q == a \div W
           r == b \div W
           u == (b + W - 1) \div W
<1>1. W \in Nat /\ W > 0
  BY ConversationAssumption
<1>2. /\ q \in Int /\ W * q <= a /\ a < W * (q + 1)
      /\ r \in Int /\ W * r <= b /\ b < W * (r + 1)
      /\ u \in Int /\ W * u <= b + W - 1 /\ b + W - 1 < W * (u + 1)
  BY <1>1
<1>3. q >= 0
  BY <1>1, <1>2
<1>4. ASSUME a <= b, r < q PROVE FALSE
  BY <1>1, <1>2, <1>4
<1>5. ASSUME a < b, u < q + 1 PROVE FALSE
  BY <1>1, <1>2, <1>5
<1> QED
  BY <1>1, <1>2, <1>3, <1>4, <1>5

\* A function on 1 .. n is a sequence.
LEMMA IsASeq ==
  ASSUME NEW S, NEW n \in Nat, NEW f \in [1 .. n -> S]
  PROVE  f \in Seq(S) /\ Len(f) = n
OBVIOUS

\* Every turn falls into a window, in the order of the turns.
LEMMA Chunking ==
  ASSUME NEW new \in SUBSET Nat, IsFiniteSet(new)
  PROVE  /\ Chunks(new) \in Seq(SUBSET Nat)
         /\ \A i \in DOMAIN Chunks(new) : Chunks(new)[i] = {p \in new : WindowOf(new, p) = i}
         /\ \A p \in new : WindowOf(new, p) \in DOMAIN Chunks(new)
         /\ \A p, q \in new : p <= q => WindowOf(new, p) <= WindowOf(new, q)
<1> DEFINE Below(p) == {q \in new : q < p}
           n == Cardinality(new)
           m == (n + Window - 1) \div Window
<1>1. Window \in Nat /\ Window > 0 /\ n \in Nat
  BY FS_CardinalityType, ConversationAssumption
<1>2. m \in Nat
  <2>1. n + Window - 1 \in Nat
    BY <1>1
  <2> QED
    BY <2>1, Division
<1>3. ASSUME NEW p \in new
      PROVE  /\ IsFiniteSet(Below(p))
             /\ Cardinality(Below(p)) \in Nat
             /\ Cardinality(Below(p)) < n
  <2>1. Below(p) \in SUBSET new /\ p \notin Below(p)
    OBVIOUS
  <2>2. /\ IsFiniteSet(Below(p))
        /\ Cardinality(Below(p)) <= n
        /\ n = Cardinality(Below(p)) => new = Below(p)
    BY <2>1, FS_Subset
  <2>3. Cardinality(Below(p)) \in Nat
    BY <2>2, FS_CardinalityType
  <2> QED
    BY <1>1, <2>1, <2>2, <2>3
<1>4. ASSUME NEW p \in new
      PROVE  WindowOf(new, p) \in 1 .. m
  <2>1. /\ Cardinality(Below(p)) \div Window \in Nat
        /\ Cardinality(Below(p)) \div Window + 1 <= m
    BY <1>1, <1>3, Division
  <2> QED
    BY <1>2, <2>1 DEF WindowOf
<1>5. ASSUME NEW p \in new, NEW q \in new, p <= q
      PROVE  WindowOf(new, p) <= WindowOf(new, q)
  <2>1. Below(p) \in SUBSET Below(q)
    <3>1. ASSUME NEW x \in new, x < p PROVE x < q
      <4>1. x \in Nat /\ p \in Nat /\ q \in Nat
        OBVIOUS
      <4> QED
        BY <1>5, <3>1, <4>1
    <3> QED
      BY <3>1
  <2>2. Cardinality(Below(p)) <= Cardinality(Below(q))
    BY <1>3, <2>1, FS_Subset
  <2>3. /\ Cardinality(Below(p)) \div Window \in Nat
        /\ Cardinality(Below(q)) \div Window \in Nat
        /\ Cardinality(Below(p)) \div Window <= Cardinality(Below(q)) \div Window
    BY <1>3, <2>2, Division
  <2> QED
    BY <2>3 DEF WindowOf
<1>6. Chunks(new) = [i \in 1 .. m |-> {p \in new : WindowOf(new, p) = i}]
  BY DEF Chunks
<1> HIDE DEF m
<1>7. DOMAIN Chunks(new) = 1 .. m
  BY <1>6
<1>8. Chunks(new) \in [1 .. m -> SUBSET Nat]
  BY <1>6
<1>9. Chunks(new) \in Seq(SUBSET Nat)
  BY <1>2, <1>8, IsASeq
<1> QED
  BY <1>4, <1>5, <1>6, <1>7, <1>9

\* What compute_windows returns: the new turns, all of them, in order.
LEMMA Planning ==
  ASSUME TypeOK, NEW d \in Days, NEW trigger, NEW W, W = Windows(d, trigger)
  PROVE  /\ W \in Seq(SUBSET Nat)
         /\ \A i \in DOMAIN W : W[i] \subseteq NewTurns(d)
         /\ \A p \in NewTurns(d) : \E i \in DOMAIN W : p \in W[i]
         /\ \A i \in DOMAIN W : \A q \in W[i], p \in NewTurns(d) :
              p <= q => \E j \in 1 .. i : p \in W[j]
         /\ \A i, j \in DOMAIN W : i < j => \A p \in W[i], q \in W[j] : p < q
<1> DEFINE new == NewTurns(d)
<1>1. new \in SUBSET Nat /\ IsFiniteSet(new)
  <2>1. file[d].turns \in Seq(Nat)
    BY DEF TypeOK, File
  <2>2. Positions(d) = 1 .. Len(file[d].turns) /\ Len(file[d].turns) \in Nat
    BY <2>1 DEF Positions
  <2>3. IsFiniteSet(Positions(d)) /\ Positions(d) \subseteq Nat
    <3>1. 1 \in Int /\ Len(file[d].turns) \in Int
      BY <2>2
    <3> QED
      BY <2>2, <3>1, FS_Interval
  <2> QED
    BY <2>3, FS_Subset DEF NewTurns
<1>2. CASE new # {}
  <2>1. W = Chunks(new)
    BY <1>2 DEF Windows
  <2>2. /\ W \in Seq(SUBSET Nat)
        /\ \A i \in DOMAIN W : W[i] = {p \in new : WindowOf(new, p) = i}
        /\ \A p \in new : WindowOf(new, p) \in DOMAIN W
        /\ \A p, q \in new : p <= q => WindowOf(new, p) <= WindowOf(new, q)
    BY <1>1, <2>1, Chunking
  <2>3. DOMAIN W = 1 .. Len(W) /\ Len(W) \in Nat
    BY <2>2
  <2> HIDE DEF new
  <2>4. ASSUME NEW i \in DOMAIN W, NEW q \in W[i], NEW p \in new, p <= q
        PROVE  \E j \in 1 .. i : p \in W[j]
    <3>1. WindowOf(new, q) = i /\ WindowOf(new, p) <= i /\ WindowOf(new, p) \in DOMAIN W
      BY <2>2, <2>4
    <3>2. WindowOf(new, p) \in 1 .. i /\ p \in W[WindowOf(new, p)]
      BY <2>2, <2>3, <3>1
    <3> QED
      BY <3>2
  <2>5. ASSUME NEW i \in DOMAIN W, NEW j \in DOMAIN W, i < j, NEW p \in W[i], NEW q \in W[j]
        PROVE  p < q
    <3>1. /\ p \in new /\ q \in new
          /\ WindowOf(new, p) = i /\ WindowOf(new, q) = j
          /\ q <= p => j <= i
      BY <2>2
    <3>2. i \in Nat /\ j \in Nat /\ p \in Nat /\ q \in Nat
      BY <1>1, <2>3, <3>1
    <3> QED
      BY <2>5, <3>1, <3>2
  <2> QED
    BY <2>2, <2>4, <2>5 DEF new
<1>3. CASE new = {}
  <2>1. W = << >> \/ W = << {} >>
    BY <1>3 DEF Windows
  <2>2. W \in Seq(SUBSET Nat)
    <3>1. << >> \in Seq(SUBSET Nat)
      OBVIOUS
    <3>2. {} \in SUBSET Nat
      OBVIOUS
    <3>3. << {} >> \in Seq(SUBSET Nat)
      BY <3>2
    <3> QED
      BY <2>1, <3>1, <3>3
  <2>3. \A i \in DOMAIN W : W[i] = {}
    BY <2>1
  <2> QED
    BY <1>3, <2>2, <2>3
<1> QED
  BY <1>2, <1>3

-----------------------------------------------------------------------------
(* The statements of the queue. *)

\* A row that waits or runs is as it was, but for its due time or its job.
Kept(i) == /\ rows'[i].status = rows[i].status
           /\ rows'[i].path = rows[i].path
           /\ rows[i].status = "running" => rows'[i].attempts = rows[i].attempts

\* enqueue and enqueue_force_path leave a pending row of the day-file.
LEMMA Queued ==
  ASSUME QueueInv, NEW d \in Paths, NEW trigger \in Triggers, NEW due \in {"now", "later"},
         Enqueue(d, trigger, due) \/ EnqueueForcePath(d, due)
  PROVE  /\ QueueInv'
         /\ UNCHANGED <<lease, holder>>
         /\ \E i \in Ids : rows'[i].path = d /\ rows'[i].status = "pending"
         /\ \A i \in Ids : rows[i].status \in {"pending", "running"} => Kept(i)
         /\ \A i \in Ids : rows'[i].status = "running" => rows[i].status = "running"
<1> DEFINE pending == PendingOn(d)
           free == {i \in Ids : rows[i].status = "absent"}
<1>1. rows \in [Ids -> Row] /\ MaxRetries \in Nat /\ MaxRetries > 0
  BY QueueAssumption DEF QueueInv, QueueTypeOK
<1>2. PICK i \in Ids, job \in Triggers \X Times :
        /\ \/ pending # {} /\ i = First(pending)
           \/ pending = {} /\ free # {} /\ i = First(free)
        /\ rows' = [rows EXCEPT ![i] = Pending(d, job)]
  <2>1. CASE pending = {}
    <3>1. PICK job \in Triggers \X Times : Insert(d, job)
      <4>1. CASE Enqueue(d, trigger, due)
        <5>1. Insert(d, <<trigger, due>>) /\ <<trigger, due>> \in Triggers \X Times
          BY <2>1, <4>1 DEF Enqueue, Times
        <5> QED
          BY <5>1
      <4>2. CASE EnqueueForcePath(d, due)
        <5>1. Insert(d, <<"manual", due>>) /\ <<"manual", due>> \in Triggers \X Times
          BY <2>1, <4>2 DEF EnqueueForcePath, Times, Triggers
        <5> QED
          BY <5>1
      <4> QED
        BY <4>1, <4>2
    <3>2. free # {} /\ First(free) \in Ids /\ rows' = [rows EXCEPT ![First(free)] = Pending(d, job)]
      <4>1. free \in SUBSET Ids /\ free # {}
        BY <3>1 DEF Insert
      <4> QED
        BY <3>1, <4>1, FirstIsLeast DEF Insert
    <3> QED
      BY <2>1, <3>2
  <2>2. CASE pending # {}
    <3>1. First(pending) \in pending /\ First(pending) \in Ids
      <4>1. pending \in SUBSET Ids
        BY DEF PendingOn
      <4> QED
        BY <2>2, <4>1, FirstIsLeast
    <3> DEFINE row == rows[First(pending)]
    <3>2. row \in Row
      BY <1>1, <3>1
    <3>3. PICK job \in Triggers \X Times : rows' = [rows EXCEPT ![First(pending)] = Pending(d, job)]
      <4>1. CASE Enqueue(d, trigger, due)
        <5>1. MergedJob(row, trigger, due) \in Triggers \X Times
          BY <3>2 DEF MergedJob, Triggers, Times, Earlier, Later, Row
        <5>2. rows' = [rows EXCEPT ![First(pending)] = Pending(d, MergedJob(row, trigger, due))]
          BY <1>1, <2>2, <3>1, <4>1 DEF Enqueue
        <5> QED
          BY <5>1, <5>2
      <4>2. CASE EnqueueForcePath(d, due)
        <5>1. <<"manual", due>> \in Triggers \X Times
          BY DEF Times, Triggers
        <5> QED
          BY <2>2, <4>2, <5>1 DEF EnqueueForcePath
      <4> QED
        BY <4>1, <4>2
    <3> QED
      BY <2>2, <3>1, <3>3
  <2> QED
    BY <2>1, <2>2
<1>3. /\ Pending(d, job) \in Row
      /\ Pending(d, job).path = d /\ Pending(d, job).status = "pending"
  BY <1>1 DEF Pending, Row, Statuses
<1>4. \/ rows[i].status = "absent"
      \/ rows[i].status = "pending" /\ rows[i].path = d
  <2>1. CASE pending # {}
    <3>1. pending \in SUBSET Ids
      BY DEF PendingOn
    <3>2. i \in pending
      BY <1>2, <2>1, <3>1, FirstIsLeast
    <3> QED
      BY <3>2 DEF PendingOn
  <2>2. CASE pending = {}
    <3>1. i \in free
      BY <1>2, <2>2, FirstIsLeast
    <3> QED
      BY <3>1
  <2> QED
    BY <2>1, <2>2
<1>5. /\ rows' \in [Ids -> Row]
      /\ rows'[i] = Pending(d, job)
      /\ \A j \in Ids \ {i} : rows'[j] = rows[j]
  BY <1>1, <1>2, <1>3
<1>6. UNCHANGED <<lease, holder>>
  BY DEF Enqueue, EnqueueForcePath
<1>7. QueueInv'
  BY <1>3, <1>5, <1>6 DEF QueueInv, QueueTypeOK, RowsNamed
<1>8. ASSUME NEW j \in Ids, rows[j].status \in {"pending", "running"}
      PROVE  Kept(j)
  <2>1. CASE j = i
    BY <1>3, <1>4, <1>5, <1>8, <2>1 DEF Kept
  <2>2. CASE j # i
    BY <1>5, <2>2 DEF Kept
  <2> QED
    BY <2>1, <2>2
<1> QED
  BY <1>3, <1>5, <1>6, <1>7, <1>8

\* What is left of a row that ends.
LEMMA Finishing ==
  ASSUME NEW row \in Row, NEW status \in Statuses
  PROVE  /\ Finished(row, status) \in Row
         /\ Finished(row, status).path = row.path
         /\ Finished(row, status).status = status
<1>1. 0 \in 0 .. MaxRetries - 1
  BY QueueAssumption
<1>2. Blank \in Row
  BY <1>1 DEF Blank, Row, Triggers, Times, Statuses
<1>3. row.path \in Paths \cup {None}
  BY DEF Row
<1> QED
  BY <1>2, <1>3 DEF Finished, Row

\* Another attempt is spent, or there is none left.
LEMMA Retrying ==
  ASSUME NEW row \in Row
  PROVE  /\ Retried(row) \in Row
         /\ Retried(row).path = row.path
         /\ Retried(row).status \in {"pending", "failed"}
<1>1. row.attempts \in 0 .. MaxRetries - 1 /\ row.path \in Paths \cup {None}
  BY DEF Row
<1>2. CASE row.attempts + 1 >= MaxRetries
  <2>1. 0 \in 0 .. MaxRetries - 1 /\ Retried(row) = Finished(row, "failed")
    BY <1>2, QueueAssumption DEF Retried
  <2> QED
    BY <2>1, Finishing DEF Statuses
<1>3. CASE ~(row.attempts + 1 >= MaxRetries)
  <2>1. row.attempts + 1 \in 0 .. MaxRetries - 1
    BY <1>1, <1>3, QueueAssumption
  <2> QED
    BY <1>3, <2>1 DEF Retried, Row, Times, Statuses
<1> QED
  BY <1>2, <1>3

\* dequeue recovers some running rows, and claims one row or none.
LEMMA Claiming ==
  ASSUME QueueInv, NEW w \in Workers, Dequeue(w)
  PROVE  /\ QueueInv'
         /\ lease[w] = None
         /\ \A v \in Workers \ {w} : lease'[v] = lease[v]
         /\ lease'[w] # None =>
              /\ rows'[lease'[w].id].status = "running"
              /\ rows'[lease'[w].id].attempts = lease'[w].attempts
              /\ rows'[lease'[w].id].path = lease'[w].path
              /\ holder'[lease'[w].id] = w
         /\ \A i \in Ids : rows[i].status \in {"pending", "running"} =>
              /\ rows'[i].path = rows[i].path
              /\ \/ rows'[i].status = rows[i].status
                 \/ rows'[i].status = "pending"
                 \/ rows'[i].status = "failed" /\ rows[i].status = "running"
                 \/ lease'[w] # None /\ lease'[w].id = i
         /\ \A i \in Ids : lease'[w] = None \/ lease'[w].id # i =>
              /\ holder'[i] = holder[i]
              /\ rows'[i].status = "running" => rows'[i] = rows[i]
<1>1. rows \in [Ids -> Row]
  BY DEF QueueInv, QueueTypeOK
<1>2. ASSUME NEW i \in Ids
      PROVE  /\ Recovered[i] \in Row
             /\ Recovered[i].path = rows[i].path
             /\ \/ Recovered[i] = rows[i]
                \/ rows[i].status = "running" /\ Recovered[i].status \in {"pending", "failed"}
  BY <1>1, Retrying DEF Recovered
<1>3. Recovered \in [Ids -> Row]
  <2>1. Recovered = [i \in Ids |-> Recovered[i]]
    BY DEF Recovered
  <2> QED
    BY <1>2, <2>1
<1>4. ASSUME rows' = Recovered, UNCHANGED <<lease, holder>>
      PROVE  QueueInv'
  <2>1. RowsNamed'
    BY <1>2, <1>4 DEF RowsNamed, QueueInv
  <2>2. QueueTypeOK'
    BY <1>3, <1>4 DEF QueueInv, QueueTypeOK
  <2> QED
    BY <2>1, <2>2 DEF QueueInv
<1>5. ASSUME NEW i \in Ids,
             Recovered[i].status = "pending",
             rows' = [Recovered EXCEPT ![i].status = "running", ![i].due = "now"],
             lease' = [lease EXCEPT ![w] = [id |-> i, attempts |-> Recovered[i].attempts,
                                            path |-> Recovered[i].path,
                                            trigger |-> Recovered[i].trigger]],
             holder' = [holder EXCEPT ![i] = w]
      PROVE  /\ QueueInv'
             /\ \A v \in Workers \ {w} : lease'[v] = lease[v]
             /\ lease'[w] # None
             /\ lease'[w].id = i
             /\ rows'[i].status = "running"
             /\ rows'[i].attempts = lease'[w].attempts
             /\ rows'[i].path = lease'[w].path
             /\ rows'[i].path = rows[i].path
             /\ holder'[i] = w /\ \A j \in Ids \ {i} : holder'[j] = holder[j]
             /\ \A j \in Ids \ {i} : rows'[j] = Recovered[j]
  <2> DEFINE row == [Recovered[i] EXCEPT !.status = "running", !.due = "now"]
             l == [id |-> i, attempts |-> Recovered[i].attempts,
                   path |-> Recovered[i].path, trigger |-> Recovered[i].trigger]
  <2>1. Recovered[i].path \in Paths
    BY <1>2, <1>5 DEF RowsNamed, QueueInv
  <2>2. /\ row \in Row /\ row.status = "running"
        /\ row.path = Recovered[i].path /\ row.attempts = Recovered[i].attempts
    BY <1>2, <1>5 DEF Row, Statuses, Times
  <2>3. l \in Lease /\ l # None
    <3>1. l \in Lease
      BY <1>2, <2>1 DEF Lease, Row
    <3> QED
      BY <3>1, QueueAssumption
  <2>4. /\ rows' \in [Ids -> Row] /\ rows'[i] = row
        /\ \A j \in Ids \ {i} : rows'[j] = Recovered[j]
    BY <1>3, <1>5, <2>2
  <2>5. /\ lease' \in [Workers -> Lease \cup {None}]
        /\ lease'[w] = l
        /\ \A v \in Workers \ {w} : lease'[v] = lease[v]
    BY <1>5, <2>3 DEF QueueInv, QueueTypeOK
  <2>6. /\ holder' \in [Ids -> Workers \cup {None}]
        /\ holder'[i] = w /\ \A j \in Ids \ {i} : holder'[j] = holder[j]
    BY <1>5 DEF QueueInv, QueueTypeOK
  <2>7. ASSUME NEW j \in Ids, rows'[j].status \in {"pending", "running"}
        PROVE  rows'[j].path \in Paths
    <3>1. CASE j = i
      BY <2>1, <2>2, <2>4, <3>1
    <3>2. CASE j # i
      <4>1. rows'[j] = Recovered[j]
        BY <2>4, <3>2
      <4> QED
        BY <1>2, <2>7, <4>1 DEF RowsNamed, QueueInv
    <3> QED
      BY <3>1, <3>2
  <2>8. QueueInv'
    BY <2>4, <2>5, <2>6, <2>7 DEF QueueInv, QueueTypeOK, RowsNamed
  <2> QED
    BY <1>2, <2>2, <2>3, <2>4, <2>5, <2>6, <2>8
<1>6. lease[w] = None
  BY DEF Dequeue
<1>7. \/ rows' = Recovered /\ UNCHANGED <<lease, holder>>
      \/ \E i \in Ids :
           /\ Recovered[i].status = "pending"
           /\ rows' = [Recovered EXCEPT ![i].status = "running", ![i].due = "now"]
           /\ lease' = [lease EXCEPT ![w] = [id |-> i, attempts |-> Recovered[i].attempts,
                                             path |-> Recovered[i].path,
                                             trigger |-> Recovered[i].trigger]]
           /\ holder' = [holder EXCEPT ![i] = w]
  BY DEF Dequeue
<1>8. CASE rows' = Recovered /\ UNCHANGED <<lease, holder>>
  BY <1>2, <1>4, <1>6, <1>8
<1>9. CASE \E i \in Ids :
           /\ Recovered[i].status = "pending"
           /\ rows' = [Recovered EXCEPT ![i].status = "running", ![i].due = "now"]
           /\ lease' = [lease EXCEPT ![w] = [id |-> i, attempts |-> Recovered[i].attempts,
                                             path |-> Recovered[i].path,
                                             trigger |-> Recovered[i].trigger]]
           /\ holder' = [holder EXCEPT ![i] = w]
  <2>1. PICK i \in Ids :
           /\ QueueInv'
           /\ \A v \in Workers \ {w} : lease'[v] = lease[v]
           /\ lease'[w] # None
           /\ lease'[w].id = i
           /\ rows'[i].status = "running"
           /\ rows'[i].attempts = lease'[w].attempts
           /\ rows'[i].path = lease'[w].path
           /\ rows'[i].path = rows[i].path
           /\ holder'[i] = w /\ \A j \in Ids \ {i} : holder'[j] = holder[j]
           /\ \A j \in Ids \ {i} : rows'[j] = Recovered[j]
    BY <1>5, <1>9
  <2>2. ASSUME NEW j \in Ids, rows[j].status \in {"pending", "running"}, j # i
        PROVE  /\ rows'[j].path = rows[j].path
               /\ \/ rows'[j].status = rows[j].status
                  \/ rows'[j].status = "pending"
                  \/ rows'[j].status = "failed" /\ rows[j].status = "running"
    BY <1>2, <2>1, <2>2
  <2>3. ASSUME NEW j \in Ids, j # i
        PROVE  /\ holder'[j] = holder[j]
               /\ rows'[j].status = "running" => rows'[j] = rows[j]
    BY <1>2, <2>1, <2>3
  <2>4. \A j \in Ids : lease'[w] = None \/ lease'[w].id # j => j # i
    BY <2>1
  <2> QED
    BY <1>6, <2>1, <2>2, <2>3, <2>4
<1> QED
  BY <1>7, <1>8, <1>9

\* mark_done and mark_failed end or send back the row the worker was handed, if any.
LEMMA Ending ==
  ASSUME QueueInv, NEW w \in Workers, MarkDone(w) \/ MarkFailed(w)
  PROVE  /\ QueueInv'
         /\ lease[w] # None /\ lease'[w] = None
         /\ \A v \in Workers \ {w} : lease'[v] = lease[v]
         /\ UNCHANGED holder
         /\ \A i \in Ids \ {lease[w].id} : rows'[i] = rows[i]
         /\ ~Matches(lease[w]) => UNCHANGED rows
         /\ Matches(lease[w]) =>
              /\ rows'[lease[w].id].path = rows[lease[w].id].path
              /\ rows'[lease[w].id].status # "running"
              /\ MarkFailed(w) => rows'[lease[w].id].status \in {"pending", "failed"}
<1> DEFINE i == lease[w].id
<1>1. rows \in [Ids -> Row] /\ lease \in [Workers -> Lease \cup {None}] /\ lease[w] # None
  BY DEF QueueInv, QueueTypeOK, MarkDone, MarkFailed
<1>2. i \in Ids
  BY <1>1 DEF Lease
<1>3. /\ lease' \in [Workers -> Lease \cup {None}]
      /\ lease'[w] = None
      /\ \A v \in Workers \ {w} : lease'[v] = lease[v]
      /\ holder' = holder
  BY <1>1 DEF MarkDone, MarkFailed
<1>4. CASE ~Matches(lease[w])
  <2>1. rows' = rows
    BY <1>4 DEF MarkDone, MarkFailed
  <2> QED
    BY <1>1, <1>3, <1>4, <2>1 DEF QueueInv, QueueTypeOK, RowsNamed
<1>5. CASE Matches(lease[w])
  <2>1. PICK row \in Row : /\ rows' = [rows EXCEPT ![i] = row]
                           /\ row.path = rows[i].path
                           /\ row.status \in {"done", "pending", "failed"}
                           /\ MarkFailed(w) => row.status \in {"pending", "failed"}
    <3>1. CASE MarkFailed(w)
      <4>1. rows' = [rows EXCEPT ![i] = Retried(rows[i])]
        BY <1>1, <1>2, <1>5, <3>1 DEF MarkFailed
      <4>2. rows[i] \in Row
        BY <1>1, <1>2
      <4> QED
        BY <4>1, <4>2, Retrying
    <3>2. CASE MarkDone(w) /\ ~MarkFailed(w)
      <4>1. rows' = [rows EXCEPT ![i] = Finished(rows[i], "done")]
        BY <1>1, <1>2, <1>5, <3>2 DEF MarkDone
      <4>2. rows[i] \in Row /\ "done" \in Statuses
        BY <1>1, <1>2 DEF Statuses
      <4> QED
        BY <3>2, <4>1, <4>2, Finishing
    <3> QED
      BY <3>1, <3>2
  <2>2. /\ rows' \in [Ids -> Row] /\ rows'[i] = row
        /\ \A j \in Ids \ {i} : rows'[j] = rows[j]
    BY <1>1, <1>2, <2>1
  <2>3. rows[i].path \in Paths
    BY <1>2, <1>5 DEF Matches, QueueInv, RowsNamed
  <2>4. QueueInv'
    BY <1>3, <2>1, <2>2, <2>3 DEF QueueInv, QueueTypeOK, RowsNamed
  <2>5. rows'[i].status # "running"
    BY <2>1, <2>2
  <2> QED
    BY <1>1, <1>3, <1>5, <2>1, <2>2, <2>4, <2>5
<1> QED
  BY <1>4, <1>5

\* Time and the purge leave what waits or runs.
LEMMA Passing ==
  ASSUME QueueInv, (\E i \in Ids : FallsDue(i) \/ LeaseExpires(i)) \/ Purge
  PROVE  /\ QueueInv'
         /\ UNCHANGED <<lease, holder>>
         /\ \A i \in Ids : rows[i].status \in {"pending", "running"} => Kept(i)
         /\ \A i \in Ids : rows'[i].status = "running" => rows[i].status = "running"
<1>1. rows \in [Ids -> Row]
  BY DEF QueueInv, QueueTypeOK
<1>2. UNCHANGED <<lease, holder>>
  BY DEF FallsDue, LeaseExpires, Purge
<1>3. ASSUME NEW i \in Ids, FallsDue(i) \/ LeaseExpires(i)
      PROVE  /\ rows' \in [Ids -> Row]
             /\ \A j \in Ids : /\ rows'[j].status = rows[j].status
                               /\ rows'[j].path = rows[j].path
                               /\ rows'[j].attempts = rows[j].attempts
  <2>1. PICK due \in Times : rows' = [rows EXCEPT ![i] = [rows[i] EXCEPT !.due = due]]
    BY <1>1, <1>3 DEF FallsDue, LeaseExpires, Times
  <2>2. rows[i] \in Row
    BY <1>1
  <2>3. /\ [rows[i] EXCEPT !.due = due] \in Row
        /\ [rows[i] EXCEPT !.due = due].status = rows[i].status
        /\ [rows[i] EXCEPT !.due = due].path = rows[i].path
        /\ [rows[i] EXCEPT !.due = due].attempts = rows[i].attempts
    BY <2>2 DEF Row
  <2> QED
    BY <1>1, <2>1, <2>3
<1>4. ASSUME Purge
      PROVE  /\ rows' \in [Ids -> Row]
             /\ \A j \in Ids : \/ rows'[j] = rows[j]
                               \/ /\ rows[j].status \in {"done", "failed"}
                                  /\ rows'[j].status = "purged"
  <2>1. PICK old \in SUBSET {i \in Ids : rows[i].status \in {"done", "failed"}} :
          rows' = [i \in Ids |-> IF i \in old THEN [Blank EXCEPT !.status = "purged"] ELSE rows[i]]
    BY <1>4 DEF Purge
  <2>2. [Blank EXCEPT !.status = "purged"] \in Row /\ [Blank EXCEPT !.status = "purged"].status = "purged"
    <3>1. 0 \in 0 .. MaxRetries - 1
      BY QueueAssumption
    <3>2. Blank \in Row
      BY <3>1 DEF Blank, Row, Triggers, Times, Statuses
    <3> QED
      BY <3>2 DEF Row, Statuses
  <2> QED
    BY <1>1, <2>1, <2>2
<1>5. CASE \E i \in Ids : FallsDue(i) \/ LeaseExpires(i)
  BY <1>2, <1>3, <1>5 DEF QueueInv, QueueTypeOK, RowsNamed, Kept
<1>6. CASE Purge
  <2>1. \A j \in Ids : rows[j].status \in {"pending", "running"} => rows'[j] = rows[j]
    BY <1>4, <1>6
  <2>2. \A j \in Ids : rows'[j].status \in {"pending", "running"} => rows'[j] = rows[j]
    BY <1>4, <1>6
  <2> QED
    BY <1>2, <1>4, <1>6, <2>1, <2>2 DEF QueueInv, QueueTypeOK, RowsNamed, Kept
<1> QED
  BY <1>5, <1>6

-----------------------------------------------------------------------------
(* Types. *)

\* Callers, leases and positions, from the assumptions and the types.
LEMMA Typing ==
  ASSUME TypeInv
  PROVE  /\ QueueInv
         /\ Days = Paths /\ None \notin Days /\ None \notin Cache
         /\ Clients \subseteq Callers /\ Workers \subseteq Callers /\ Hosts = Workers
         /\ Snapshot \in Cache
         /\ \A d \in Days : /\ file[d].turns \in Seq(Nat)
                            /\ file[d].cursor \in Nat
                            /\ Len(file[d].turns) \in Nat
                            /\ Positions(d) = 1 .. Len(file[d].turns)
                            /\ \A p \in Positions(d) : file[d].turns[p] \in Nat
         /\ \A w \in Workers : lease[w] # None => lease[w].id \in Ids /\ lease[w].path \in Days
<1>1. QueueInv
  BY DEF TypeInv, TypeOK, QueueInv
<1>2. Days = Paths /\ None \notin Days /\ None \notin Cache
  BY ConversationAssumption
<1>3. Snapshot \in Cache
  <2>1. CASE cache = None
    BY <2>1 DEF TypeInv, FilesCached, Snapshot, Scanned, Cache, FileStatus
  <2>2. CASE cache # None
    BY <2>2 DEF TypeInv, TypeOK, Snapshot
  <2> QED
    BY <2>1, <2>2
<1>4. ASSUME NEW d \in Days
      PROVE  /\ file[d].turns \in Seq(Nat)
             /\ file[d].cursor \in Nat
             /\ Len(file[d].turns) \in Nat
             /\ Positions(d) = 1 .. Len(file[d].turns)
             /\ \A p \in Positions(d) : file[d].turns[p] \in Nat
  <2>1. file[d].turns \in Seq(Nat) /\ file[d].cursor \in Nat
    BY DEF TypeInv, TypeOK, File
  <2> QED
    BY <2>1 DEF Positions
<1>5. ASSUME NEW w \in Workers, lease[w] # None
      PROVE  lease[w].id \in Ids /\ lease[w].path \in Days
  BY <1>2, <1>5 DEF TypeInv, TypeOK, QueueTypeOK, Lease
<1> QED
  BY <1>1, <1>2, <1>3, <1>4, <1>5 DEF Callers, Hosts

\* The tables are empty at first, and typed.
LEMMA TypeInitially == Init => TypeInv
<1> SUFFICES ASSUME Init PROVE TypeInv
  OBVIOUS
<1>1. 0 \in 0 .. MaxRetries - 1
  BY QueueAssumption
<1>2. Blank \in Row
  BY <1>1 DEF Blank, Row, Triggers, Times, Statuses
<1>3. QueueTypeOK
  BY <1>2 DEF QueueTypeOK, Init, InitQueue
<1>4. NoFile \in File /\ Quiet \in Call /\ NoWork \in Work
  <2>1. << >> \in Seq(Nat) /\ << >> \in Seq(SUBSET Nat)
    OBVIOUS
  <2> QED
    BY <2>1 DEF NoFile, File, FileStatus, Quiet, Call, CallStates, NoWork, Work, WorkStates
<1>5. TypeOK
  BY <1>3, <1>4 DEF TypeOK, Init
<1>6. RowsNamed /\ FilesCached
  BY DEF Init, InitQueue, RowsNamed, Blank, FilesCached, Existing, NoFile
<1>7. CallsKnown /\ WorkLeased /\ WorkInside
  BY DEF Init, CallsKnown, Quiet, WorkLeased, WorkInside, NoWork
<1> QED
  BY <1>5, <1>6, <1>7 DEF TypeInv

\* A worker is not disturbed by a day-file that grows.
LEMMA WorkStays ==
  ASSUME TypeInv, UNCHANGED <<work, lease>>,
         \A d \in Days : Positions(d) \subseteq DOMAIN file'[d].turns
  PROVE  WorkLeased' /\ WorkInside'
<1>1. WorkLeased'
  BY DEF TypeInv, WorkLeased
<1>2. ASSUME NEW w \in Workers, work[w].pc \in {"ready", "written"}, NEW i \in DOMAIN work[w].windows
      PROVE  work[w].windows[i] \subseteq DOMAIN file'[lease[w].path].turns
  <2>1. lease[w].path \in Days
    BY <1>2, Typing DEF TypeInv, WorkLeased
  <2>2. work[w].windows[i] \subseteq Positions(lease[w].path)
    BY <1>2 DEF TypeInv, WorkInside
  <2> QED
    BY <2>1, <2>2
<1> QED
  BY <1>1, <1>2 DEF WorkInside, Positions

\* Another call: the others know their day-files as before.
LEMMA CallStays ==
  ASSUME TypeInv, NEW t \in Callers, NEW new \in Call,
         call' = [call EXCEPT ![t] = new],
         new.pc \in {"appended", "cached", "closing", "closed"} => new.day \in Days,
         new.pc = "reset" => new.todo # {}
  PROVE  call' \in [Callers -> Call] /\ CallsKnown'
BY DEF TypeInv, TypeOK, CallsKnown

\* memory_add_turn writes one turn more.
LEMMA Appending ==
  ASSUME TypeInv, NEW c \in Clients, AppendTurn(c)
  PROVE  \E d \in Days :
           /\ \A e \in Existing : e <= d
           /\ ~Refused(d)
           /\ file' \in [Days -> File]
           /\ file'[d].turns = Append(file[d].turns, Snapshot.max + 1)
           /\ file'[d].status = "open"
           /\ file'[d].cursor = file[d].cursor
           /\ \A e \in Days \ {d} : file'[e] = file[e]
           /\ call' \in [Callers -> Call] /\ CallsKnown'
           /\ call'[c].pc = "appended" /\ call'[c].day = d /\ call'[c].max = Snapshot.max + 1
           /\ \A t \in Callers \ {c} : call'[t] = call[t]
<1>1. PICK d \in Days :
        /\ \A e \in Existing : e <= d
        /\ ~Refused(d)
        /\ file' = [file EXCEPT ![d].turns = Append(@, Snapshot.max + 1), ![d].status = "open"]
        /\ call' = [call EXCEPT ![c].pc = "appended", ![c].day = d, ![c].max = Snapshot.max + 1]
  BY DEF AppendTurn
<1>2. Snapshot.max + 1 \in Nat
  BY Typing DEF Cache
<1>3. file \in [Days -> File] /\ call \in [Callers -> Call] /\ c \in Callers
  BY Typing DEF TypeInv, TypeOK
<1> HIDE DEF Snapshot
<1>4. /\ file' \in [Days -> File]
      /\ file'[d].turns = Append(file[d].turns, Snapshot.max + 1)
      /\ file'[d].status = "open"
      /\ file'[d].cursor = file[d].cursor
      /\ \A e \in Days \ {d} : file'[e] = file[e]
  <2>1. file[d] \in File /\ Append(file[d].turns, Snapshot.max + 1) \in Seq(Nat)
    BY <1>2, <1>3 DEF File
  <2> QED
    BY <1>1, <1>3, <2>1 DEF File, FileStatus
<1>5. /\ call' \in [Callers -> Call]
      /\ call'[c].pc = "appended" /\ call'[c].day = d /\ call'[c].max = Snapshot.max + 1
      /\ \A t \in Callers \ {c} : call'[t] = call[t]
  BY <1>1, <1>2, <1>3 DEF Call, CallStates
<1>6. CallsKnown'
  BY <1>5 DEF CallsKnown, TypeInv
<1>7. (\A e \in Existing : e <= d) /\ ~Refused(d)
  BY <1>1
<1> QED
  BY <1>4, <1>5, <1>6, <1>7

\* memory_add_turn up to the write of the day-file.
LEMMA AppendTyped ==
  ASSUME TypeInv, NEW c \in Clients, AppendTurn(c)
  PROVE  TypeInv'
<1>1. PICK d \in Days :
        /\ file' \in [Days -> File]
        /\ file'[d].turns = Append(file[d].turns, Snapshot.max + 1)
        /\ file'[d].status = "open"
        /\ \A e \in Days \ {d} : file'[e] = file[e]
        /\ call' \in [Callers -> Call] /\ CallsKnown'
  BY Appending
<1>2. /\ cache' = Snapshot /\ lock' = c
      /\ UNCHANGED <<queueVars, tracker, worker, counts, dropped>>
  BY DEF AppendTurn
<1>3. TypeOK'
  BY <1>1, <1>2, Typing DEF TypeInv, TypeOK, QueueTypeOK, queueVars, worker, counts
<1>4. RowsNamed'
  BY <1>2 DEF TypeInv, RowsNamed, queueVars
<1>5. WorkLeased' /\ WorkInside'
  <2>1. \A e \in Days : Positions(e) \subseteq DOMAIN file'[e].turns
    <3>1. Positions(d) \subseteq DOMAIN file'[d].turns
      BY <1>1, Typing DEF Cache
    <3> QED
      BY <1>1, <3>1 DEF Positions
  <2> QED
    BY <1>2, <2>1, WorkStays DEF queueVars, worker
<1>6. FilesCached'
  BY <1>1, <1>2, Typing DEF TypeInv, FilesCached
<1> QED
  BY <1>1, <1>3, <1>4, <1>5, <1>6 DEF TypeInv

\* The steps of a call that began, and its end.
LEMMA ContinuesTyped ==
  ASSUME TypeInv, NEW t \in Callers, Continues(t) \/ CallEnds(t)
  PROVE  TypeInv'
<1> USE DEF worker, counts
<1>1. /\ call \in [Callers -> Call] /\ call[t] \in Call
      /\ cache \in Cache \cup {None} /\ lock \in Callers \cup {None}
      /\ tracker \in [Hosts -> {"none", "fresh", "idle"}]
  BY DEF TypeInv, TypeOK
<1>2. Quiet \in Call
  BY DEF Quiet, Call, CallStates
<1>3. UNCHANGED <<file, worker, counts, lease>> /\ dropped' \in SUBSET Days
  BY DEF Continues, AppendCaches, AddEnqueues, ForceEnqueues, CloseCaches, CloseEnqueues,
         Enqueue, EnqueueForcePath, CallEnds, Owed, queueVars, TypeInv, TypeOK
<1>4. WorkLeased' /\ WorkInside'
  BY <1>3, WorkStays DEF Positions
<1>5. call' \in [Callers -> Call] /\ CallsKnown'
  <2>1. ASSUME NEW pc \in {"cached", "closed"}, call[t].day \in Days,
               call' = [call EXCEPT ![t].pc = pc]
        PROVE  call' \in [Callers -> Call] /\ CallsKnown'
    <3> DEFINE new == [call[t] EXCEPT !.pc = pc]
    <3>1. call' = [call EXCEPT ![t] = new]
      BY <1>1, <2>1
    <3>2. new \in Call /\ new.pc = pc /\ new.day = call[t].day
      BY <1>1 DEF Call, CallStates
    <3> QED
      BY <2>1, <3>1, <3>2, CallStays
  <2>2. ASSUME call' = [call EXCEPT ![t] = Quiet]
        PROVE  call' \in [Callers -> Call] /\ CallsKnown'
    BY <1>2, <2>2, CallStays DEF Quiet
  <2>3. CASE ForceEnqueues(t)
    <3> DEFINE left == call[t].todo \ {First(call[t].todo)}
               new == IF left = {} THEN Quiet ELSE [call[t] EXCEPT !.todo = left]
    <3>1. call' = [call EXCEPT ![t] = new]
      BY <1>1, <2>3 DEF ForceEnqueues
    <3>2. new \in Call
      BY <1>1, <1>2 DEF Call
    <3>3. new.pc = "reset" => new.todo # {}
      BY <1>1 DEF Quiet, Call
    <3>4. ~(new.pc \in {"appended", "cached", "closing", "closed"})
      BY <1>1, <2>3 DEF ForceEnqueues, Quiet, Call
    <3> HIDE DEF new
    <3> QED
      BY <3>1, <3>2, <3>3, <3>4, CallStays
  <2>4. CASE AppendCaches(t) \/ CloseCaches(t)
    <3>1. call[t].day \in Days
      BY <2>4 DEF AppendCaches, CloseCaches, TypeInv, CallsKnown
    <3> QED
      BY <2>1, <2>4, <3>1 DEF AppendCaches, CloseCaches
  <2>5. CASE AddEnqueues(t) \/ CloseEnqueues(t) \/ CallEnds(t)
    BY <2>2, <2>5 DEF AddEnqueues, CloseEnqueues, CallEnds
  <2> QED
    BY <2>3, <2>4, <2>5 DEF Continues
<1>6. QueueInv'
  <2>1. CASE AddEnqueues(t)
    <3>1. call[t].day \in Paths
      BY <2>1, Typing DEF AddEnqueues, TypeInv, CallsKnown
    <3>2. "debounce" \in Triggers /\ Enqueue(call[t].day, "debounce", "later")
      BY <2>1 DEF AddEnqueues, Triggers
    <3> QED
      BY <3>1, <3>2, Queued, Typing
  <2>2. CASE CloseEnqueues(t)
    <3>1. call[t].day \in Paths
      BY <2>2, Typing DEF CloseEnqueues, TypeInv, CallsKnown
    <3>2. "session_close" \in Triggers /\ Enqueue(call[t].day, "session_close", "now")
      BY <2>2 DEF CloseEnqueues, Triggers
    <3> QED
      BY <3>1, <3>2, Queued, Typing
  <2>3. CASE ForceEnqueues(t)
    <3>1. First(call[t].todo) \in Paths /\ "manual" \in Triggers
      <4>1. First(call[t].todo) \in call[t].todo
        <5>1. call[t].todo \in SUBSET Days /\ call[t].todo # {}
          BY <1>1, <2>3 DEF ForceEnqueues, TypeInv, CallsKnown, Call
        <5> QED
          BY <5>1, FirstDay
      <4> QED
        BY <1>1, <4>1, Typing DEF Call, Triggers
    <3>2. EnqueueForcePath(First(call[t].todo), "now")
      BY <2>3 DEF ForceEnqueues
    <3> QED
      BY <3>1, <3>2, Queued, Typing
  <2>4. CASE AppendCaches(t) \/ CloseCaches(t) \/ CallEnds(t)
    <3>1. UNCHANGED queueVars
      BY <2>4 DEF AppendCaches, CloseCaches, CallEnds
    <3> QED
      BY <3>1, Typing DEF queueVars, QueueInv, QueueTypeOK, RowsNamed
  <2> QED
    BY <2>1, <2>2, <2>3, <2>4 DEF Continues
<1>7. /\ cache' \in Cache \cup {None}
      /\ lock' \in Callers \cup {None}
      /\ tracker' \in [Hosts -> {"none", "fresh", "idle"}]
      /\ cache' = None => cache = None
  <2>1. CASE AppendCaches(t)
    <3>1. [max |-> call[t].max, status |-> "open"] \in Cache
      BY <1>1 DEF Call, Cache, FileStatus
    <3> QED
      BY <1>1, <2>1, <3>1, Typing DEF AppendCaches
  <2>2. CASE CloseCaches(t)
    <3>1. [Snapshot EXCEPT !.status = "closed"] \in Cache
      BY Typing DEF Cache, FileStatus
    <3>2. tracker' \in [Hosts -> {"none", "fresh", "idle"}]
      BY <1>1, <2>2 DEF CloseCaches, Cleared
    <3> QED
      BY <1>1, <2>2, <3>1, <3>2, Typing DEF CloseCaches
  <2>3. CASE AddEnqueues(t) \/ CloseEnqueues(t) \/ ForceEnqueues(t) \/ CallEnds(t)
    BY <1>1, <2>3 DEF AddEnqueues, CloseEnqueues, ForceEnqueues, CallEnds
  <2> QED
    BY <2>1, <2>2, <2>3 DEF Continues
<1>8. FilesCached'
  BY <1>3, <1>7 DEF TypeInv, FilesCached, Existing
<1>9. TypeOK'
  BY <1>3, <1>5, <1>6, <1>7 DEF TypeInv, TypeOK, QueueInv
<1> QED
  BY <1>4, <1>5, <1>6, <1>8, <1>9 DEF TypeInv, QueueInv

\* A session is closed: the latest day-file is, and the call knows it.
LEMMA Closing ==
  ASSUME TypeInv, NEW t \in Callers, CloseSession(t)
  PROVE  /\ file' \in [Days -> File]
         /\ \A d \in Days : /\ file'[d].turns = file[d].turns
                            /\ file'[d].cursor = file[d].cursor
                            /\ file[d].status = "absent" <=> file'[d].status = "absent"
         /\ call' \in [Callers -> Call] /\ CallsKnown'
         /\ call[t].pc = "idle" /\ lock = None
         /\ \A u \in Callers \ {t} : call'[u] = call[u]
         /\ call'[t].pc \in {"idle", "closing", "closed"}
         /\ call'[t].pc = "closing" => lock' = t
         /\ lock' \in {None, t}
         /\ tracker' \in [Hosts -> {"none", "fresh", "idle"}]
<1> DEFINE d == Last(Existing)
<1>1. d \in Existing /\ d \in Days
  <2>1. Existing \in SUBSET Nat /\ IsFiniteSet(Existing) /\ Existing # {} /\ Existing \subseteq Days
    BY ConversationAssumption, FS_Subset DEF Existing, CloseSession
  <2> QED
    BY <2>1, LastIsGreatest
<1>2. /\ call \in [Callers -> Call] /\ call[t] \in Call /\ file \in [Days -> File]
      /\ tracker \in [Hosts -> {"none", "fresh", "idle"}]
      /\ file[d] \in File
  BY <1>1 DEF TypeInv, TypeOK
<1> HIDE DEF d
<1>3. ASSUME NEW pc \in {"closing", "closed"}, call' = [call EXCEPT ![t].pc = pc, ![t].day = d]
      PROVE  /\ call' \in [Callers -> Call] /\ CallsKnown'
             /\ \A u \in Callers \ {t} : call'[u] = call[u]
             /\ call'[t].pc = pc
  <2>1. /\ call' \in [Callers -> Call]
        /\ call'[t].pc = pc /\ call'[t].day = d
        /\ \A u \in Callers \ {t} : call'[u] = call[u]
    BY <1>1, <1>2, <1>3 DEF Call, CallStates
  <2>2. CallsKnown'
    BY <1>1, <2>1 DEF CallsKnown, TypeInv
  <2> QED
    BY <2>1, <2>2
<1>4. call[t].pc = "idle" /\ lock = None
  BY DEF CloseSession
<1>5. CASE /\ file[d].status = "open"
           /\ file' = [file EXCEPT ![d].status = "closed"]
           /\ call' = [call EXCEPT ![t].pc = "closing", ![t].day = d]
           /\ lock' = t
           /\ UNCHANGED tracker
  <2>1. file' \in [Days -> File]
    BY <1>1, <1>2, <1>5 DEF File, FileStatus
  <2>2. \A e \in Days : /\ file'[e].turns = file[e].turns
                        /\ file'[e].cursor = file[e].cursor
                        /\ file[e].status = "absent" <=> file'[e].status = "absent"
    BY <1>1, <1>2, <1>5 DEF File
  <2> QED
    BY <1>2, <1>3, <1>4, <1>5, <2>1, <2>2
<1>6. CASE /\ file[d].status = "closed"
           /\ tracker' = Cleared(t)
           /\ call' = IF t \in Hosts THEN [call EXCEPT ![t].pc = "closed", ![t].day = d]
                      ELSE call
           /\ UNCHANGED <<file, lock>>
  <2>1. tracker' \in [Hosts -> {"none", "fresh", "idle"}]
    BY <1>2, <1>6 DEF Cleared
  <2>2. CASE t \in Hosts
    BY <1>2, <1>3, <1>4, <1>6, <2>1, <2>2
  <2>3. CASE t \notin Hosts
    BY <1>2, <1>4, <1>6, <2>1, <2>3 DEF TypeInv, CallsKnown
  <2> QED
    BY <2>2, <2>3
<1> QED
  BY <1>5, <1>6 DEF CloseSession, d

\* memory_close_session and the scan, up to the write of the day-file.
LEMMA CloseTyped ==
  ASSUME TypeInv, NEW t \in Callers, CloseSession(t)
  PROVE  TypeInv'
<1>1. UNCHANGED <<queueVars, cache, worker, counts, dropped>>
  BY DEF CloseSession
<1>2. /\ file' \in [Days -> File]
      /\ \A d \in Days : /\ file'[d].turns = file[d].turns
                         /\ file[d].status = "absent" <=> file'[d].status = "absent"
      /\ call' \in [Callers -> Call] /\ CallsKnown'
      /\ lock' \in {None, t}
      /\ tracker' \in [Hosts -> {"none", "fresh", "idle"}]
  BY Closing
<1>3. TypeOK'
  BY <1>1, <1>2 DEF TypeInv, TypeOK, QueueTypeOK, queueVars, worker, counts
<1>4. RowsNamed'
  BY <1>1 DEF TypeInv, RowsNamed, queueVars
<1>5. WorkLeased' /\ WorkInside'
  BY <1>1, <1>2, WorkStays DEF queueVars, worker, Positions
<1>6. FilesCached'
  BY <1>1, <1>2 DEF TypeInv, FilesCached, Existing
<1> QED
  BY <1>2, <1>3, <1>4, <1>5, <1>6 DEF TypeInv

\* quaid extract, with and without --force.
LEMMA ExtractTyped ==
  ASSUME TypeInv, NEW c \in Clients, Extract(c) \/ ForceResets(c)
  PROVE  TypeInv'
<1>1. Existing \in SUBSET Nat /\ IsFiniteSet(Existing) /\ Existing # {} /\ Existing \subseteq Days
  BY ConversationAssumption, FS_Subset DEF Existing, Extract, ForceResets
<1>2. CASE Extract(c)
  <2>1. UNCHANGED <<capture, worker, crashes>> /\ extracts' \in Nat /\ dropped' \in SUBSET Days
    BY <1>2 DEF Extract, TypeInv, TypeOK
  <2>2. QueueInv' /\ UNCHANGED lease
    <3>1. Last(Existing) \in Paths /\ "manual" \in Triggers
      BY <1>1, LastIsGreatest, Typing DEF Triggers
    <3> QED
      BY <1>2, <3>1, Queued, Typing DEF Extract
  <2>3. TypeOK' /\ CallsKnown' /\ FilesCached'
    BY <2>1, <2>2 DEF TypeInv, TypeOK, CallsKnown, FilesCached, Existing, QueueInv, capture, worker
  <2>4. WorkLeased' /\ WorkInside'
    BY <2>1, <2>2, WorkStays DEF capture, worker, Positions
  <2> QED
    BY <2>2, <2>3, <2>4 DEF TypeInv, QueueInv
<1>3. CASE ForceResets(c)
  <2>1. UNCHANGED <<queueVars, cache, lock, tracker, work, givenUp, crashes, dropped>> /\ extracts' \in Nat
    BY <1>3 DEF ForceResets, TypeInv, TypeOK
  <2>2. /\ file' \in [Days -> File]
        /\ \A d \in Days : /\ file'[d].turns = file[d].turns
                           /\ file'[d].status = file[d].status
    <3>1. file' = [d \in Days |-> [file[d] EXCEPT !.cursor = 0]]
      BY <1>3 DEF ForceResets
    <3> QED
      BY <3>1 DEF TypeInv, TypeOK, File
  <2>3. extracted' \in [Days -> SUBSET Nat]
    BY <1>3 DEF ForceResets
  <2>4. call' \in [Callers -> Call] /\ CallsKnown'
    <3>1. call \in [Callers -> Call] /\ call[c] \in Call /\ c \in Callers
      BY Typing DEF TypeInv, TypeOK
    <3>2. call' = [call EXCEPT ![c].pc = "reset", ![c].todo = Existing]
      BY <1>3 DEF ForceResets
    <3>3. /\ call' \in [Callers -> Call]
          /\ call'[c].pc = "reset" /\ call'[c].todo = Existing
          /\ \A u \in Callers \ {c} : call'[u] = call[u]
      BY <1>1, <3>1, <3>2 DEF Call, CallStates
    <3> QED
      BY <1>1, <3>3 DEF CallsKnown, TypeInv
  <2>5. TypeOK'
    BY <2>1, <2>2, <2>3, <2>4 DEF TypeInv, TypeOK, QueueTypeOK, queueVars
  <2>6. WorkLeased' /\ WorkInside'
    BY <2>1, <2>2, WorkStays DEF queueVars, Positions
  <2>7. RowsNamed' /\ FilesCached'
    BY <2>1, <2>2 DEF TypeInv, RowsNamed, FilesCached, Existing, queueVars
  <2> QED
    BY <2>4, <2>5, <2>6, <2>7 DEF TypeInv
<1> QED
  BY <1>2, <1>3

\* What a step of a worker does to its job.
LEMMA WorkTyped ==
  ASSUME TypeInv, QueueInv', NEW w \in Workers,
         \A v \in Workers \ {w} : lease'[v] = lease[v],
         NEW new \in Work, work' = [work EXCEPT ![w] = new],
         new.pc # "idle" => lease'[w] # None,
         new.pc = "written" => new.windows # << >>,
         UNCHANGED <<cache, lock, call, tracker, counts>>,
         file' \in [Days -> File],
         \A d \in Days : /\ file'[d].turns = file[d].turns
                         /\ file'[d].status = file[d].status,
         new.pc \in {"ready", "written"} =>
           \A i \in DOMAIN new.windows : new.windows[i] \subseteq Positions(lease'[w].path),
         extracted' \in [Days -> SUBSET Nat],
         givenUp' \in SUBSET Days, dropped' \in SUBSET Days
  PROVE  TypeInv'
<1>1. /\ work' \in [Workers -> Work] /\ work'[w] = new
      /\ \A v \in Workers \ {w} : work'[v] = work[v]
  BY DEF TypeInv, TypeOK
<1>2. TypeOK'
  BY <1>1 DEF TypeInv, TypeOK, QueueInv, counts
<1>3. CallsKnown' /\ FilesCached'
  BY DEF TypeInv, CallsKnown, FilesCached, Existing
<1>4. WorkLeased'
  BY <1>1 DEF TypeInv, WorkLeased
<1>5. WorkInside'
  <2>1. ASSUME NEW v \in Workers, work'[v].pc \in {"ready", "written"}, NEW i \in DOMAIN work'[v].windows
        PROVE  work'[v].windows[i] \subseteq DOMAIN file'[lease'[v].path].turns
    <3>1. lease'[v] # None
      BY <1>4, <2>1 DEF WorkLeased
    <3>2. lease'[v].path \in Days
      BY <3>1, ConversationAssumption DEF QueueInv, QueueTypeOK, Lease
    <3>3. CASE v = w
      BY <1>1, <2>1, <3>2, <3>3 DEF Positions
    <3>4. CASE v # w
      BY <1>1, <2>1, <3>2, <3>4 DEF Positions, TypeInv, WorkInside
    <3> QED
      BY <3>3, <3>4
  <2> QED
    BY <2>1 DEF WorkInside, Positions
<1> QED
  BY <1>2, <1>3, <1>4, <1>5 DEF TypeInv, QueueInv

\* The windows after the first are the same windows, one place earlier.
LEMMA TailOf ==
  ASSUME NEW S, NEW W \in Seq(S), W # << >>
  PROVE  /\ Head(W) = W[1] /\ 1 \in DOMAIN W
         /\ Tail(W) \in Seq(S)
         /\ \A i \in DOMAIN Tail(W) : /\ i \in Nat /\ i >= 1
                                      /\ i + 1 \in DOMAIN W
                                      /\ Tail(W)[i] = W[i + 1]
         /\ \A i \in DOMAIN W : i # 1 => i - 1 \in DOMAIN Tail(W) /\ W[i] = Tail(W)[i - 1]
<1>1. /\ Len(W) \in Nat /\ Len(W) >= 1 /\ DOMAIN W = 1 .. Len(W)
      /\ Tail(W) \in Seq(S) /\ Len(Tail(W)) = Len(W) - 1
      /\ \A i \in 1 .. Len(W) - 1 : Tail(W)[i] = W[i + 1]
  OBVIOUS
<1>2. DOMAIN Tail(W) = 1 .. Len(W) - 1
  BY <1>1
<1>3. Head(W) = W[1] /\ 1 \in DOMAIN W
  BY <1>1
<1>4. ASSUME NEW i \in DOMAIN W, i # 1
      PROVE  i - 1 \in DOMAIN Tail(W) /\ W[i] = Tail(W)[i - 1]
  <2>1. i \in Nat /\ i >= 2 /\ i <= Len(W)
    BY <1>1, <1>4
  <2>2. i - 1 \in 1 .. Len(W) - 1 /\ (i - 1) + 1 = i
    BY <1>1, <2>1
  <2> QED
    BY <1>1, <1>2, <2>2
<1> QED
  BY <1>1, <1>2, <1>3, <1>4

\* No position of S is after p.
IsLastOf(p, S) == \A r \in S : r <= p

\* A worker's cursor is set to the last turn of the window it wrote.
LEMMA Advancing ==
  ASSUME TypeInv, NEW w \in Workers, AdvanceCursor(w),
         NEW d, d = lease[w].path, NEW W, W = work[w].windows
  PROVE  /\ d \in Days /\ W \in Seq(SUBSET Nat) /\ W # << >>
         /\ file' \in [Days -> File]
         /\ \A e \in Days : /\ file'[e].turns = file[e].turns
                            /\ file'[e].status = file[e].status
                            /\ e # d => file'[e].cursor = file[e].cursor
         /\ \A i \in DOMAIN W : W[i] \subseteq Positions(d)
         /\ \/ W[1] = {} /\ file'[d].cursor = file[d].cursor
            \/ \E p \in W[1] : file'[d].cursor = file[d].turns[p] /\ IsLastOf(p, W[1])
         /\ work' = [work EXCEPT ![w] = [pc |-> "ready", windows |-> Tail(W)]]
         /\ UNCHANGED <<queueVars, cache, lock, call, tracker, extracted, givenUp, counts>>
         /\ dropped' = dropped \cup SetsBack(d, file'[d].cursor)
<1>1. work[w] \in Work /\ work[w].pc = "written" /\ file \in [Days -> File]
  BY DEF AdvanceCursor, TypeInv, TypeOK
<1>2. W \in Seq(SUBSET Nat) /\ W # << >> /\ lease[w] # None
  BY <1>1 DEF TypeInv, WorkLeased, Work
<1>3. d \in Days
  BY <1>2, Typing
<1>4. Head(W) = W[1] /\ 1 \in DOMAIN W
  BY <1>2, TailOf
<1>5. \A i \in DOMAIN W : W[i] \subseteq Positions(d)
  BY <1>1 DEF TypeInv, WorkInside
<1>6. UNCHANGED <<queueVars, cache, lock, call, tracker, extracted, givenUp, counts>>
  BY DEF AdvanceCursor
<1>7. work' = [work EXCEPT ![w] = [pc |-> "ready", windows |-> Tail(W)]]
  BY <1>1 DEF AdvanceCursor, TypeInv, TypeOK
<1>8. CASE W[1] = {}
  <2>1. file' = [file EXCEPT ![d].cursor = file[d].cursor]
    BY <1>4, <1>8 DEF AdvanceCursor
  <2>2. /\ file' \in [Days -> File]
        /\ \A e \in Days : /\ file'[e].turns = file[e].turns
                           /\ file'[e].status = file[e].status
                           /\ file'[e].cursor = file[e].cursor
    BY <1>1, <1>3, <2>1 DEF File
  <2>3. dropped' = dropped \cup SetsBack(d, file[d].cursor)
    BY <1>4, <1>8 DEF AdvanceCursor
  <2> QED
    BY <1>2, <1>3, <1>5, <1>6, <1>7, <1>8, <2>2, <2>3
<1>9. CASE W[1] # {}
  <2>1. file' = [file EXCEPT ![d].cursor = file[d].turns[Last(W[1])]]
    BY <1>4, <1>9 DEF AdvanceCursor
  <2>2. Last(W[1]) \in W[1] /\ \A r \in W[1] : r <= Last(W[1])
    <3>1. Positions(d) \subseteq Nat /\ IsFiniteSet(Positions(d))
      <4>1. Positions(d) = 1 .. Len(file[d].turns) /\ Len(file[d].turns) \in Int /\ 1 \in Int
        BY <1>3, Typing
      <4> QED
        BY <4>1, FS_Interval
    <3>2. W[1] \in SUBSET Nat /\ IsFiniteSet(W[1])
      BY <1>4, <1>5, <3>1, FS_Subset
    <3> QED
      BY <1>9, <3>2, LastIsGreatest
  <2>3. /\ file[d].turns[Last(W[1])] \in Nat
        /\ dropped' = dropped \cup SetsBack(d, file[d].turns[Last(W[1])])
    BY <1>3, <1>4, <1>5, <1>9, <2>2, Typing DEF AdvanceCursor
  <2> HIDE DEF Last
  <2>4. /\ file' \in [Days -> File]
        /\ \A e \in Days : /\ file'[e].turns = file[e].turns
                           /\ file'[e].status = file[e].status
                           /\ e # d => file'[e].cursor = file[e].cursor
        /\ file'[d].cursor = file[d].turns[Last(W[1])]
    BY <1>1, <1>3, <2>1, <2>3 DEF File
  <2> QED
    BY <1>2, <1>3, <1>5, <1>6, <1>7, <1>9, <2>2, <2>3, <2>4 DEF IsLastOf
<1> QED
  BY <1>8, <1>9

\* What a worker plans, and what it does with one window.
LEMMA WorkerTyped ==
  ASSUME TypeInv, NEW w \in Workers, Worker(w)
  PROVE  TypeInv'
<1>1. /\ work \in [Workers -> Work] /\ work[w] \in Work
      /\ file \in [Days -> File] /\ extracted \in [Days -> SUBSET Nat]
      /\ givenUp \in SUBSET Days /\ dropped \in SUBSET Days /\ rows \in [Ids -> Row]
  BY DEF TypeInv, TypeOK, QueueTypeOK
<1>2. NoWork \in Work /\ NoWork.pc = "idle"
  <2>1. << >> \in Seq(SUBSET Nat)
    OBVIOUS
  <2> QED
    BY <2>1 DEF NoWork, Work, WorkStates
<1>3. RanOut \subseteq Days
  BY Typing DEF TypeInv, RowsNamed, RanOut
<1>4. CASE ClaimNextJob(w)
  <2>1. /\ QueueInv' /\ lease[w] = None
        /\ \A v \in Workers \ {w} : lease'[v] = lease[v]
    BY <1>4, Claiming, Typing DEF ClaimNextJob
  <2> DEFINE new == IF lease'[w] = None THEN work[w] ELSE [work[w] EXCEPT !.pc = "claimed"]
  <2>2. work' = [work EXCEPT ![w] = new]
    BY <1>1, <1>4 DEF ClaimNextJob
  <2>3. new \in Work /\ new.pc \in {"idle", "claimed"} /\ (new.pc # "idle" => lease'[w] # None)
    BY <1>1, <1>4 DEF ClaimNextJob, Work, WorkStates
  <2>4. /\ UNCHANGED <<file, cache, lock, call, tracker, extracted, counts>>
        /\ givenUp' \in SUBSET Days /\ dropped' \in SUBSET Days
    BY <1>1, <1>3, <1>4 DEF ClaimNextJob, capture
  <2> HIDE DEF new
  <2> QED
    BY <1>1, <2>1, <2>2, <2>3, <2>4, WorkTyped
<1>5. CASE PlanWindows(w)
  <2> DEFINE new == [pc |-> "ready", windows |-> Windows(lease[w].path, lease[w].trigger)]
  <2>1. UNCHANGED <<queueVars, capture, extracted, givenUp, counts, dropped>> /\ work' = [work EXCEPT ![w] = new]
    BY <1>5 DEF PlanWindows
  <2>2. QueueInv' /\ \A v \in Workers : lease'[v] = lease[v]
    BY <2>1, Typing DEF queueVars, QueueInv, QueueTypeOK, RowsNamed
  <2>3. lease[w] # None /\ lease[w].path \in Days
    BY <1>5, Typing DEF PlanWindows, TypeInv, WorkLeased
  <2>4. /\ new.windows \in Seq(SUBSET Nat)
        /\ \A i \in DOMAIN new.windows : new.windows[i] \subseteq Positions(lease[w].path)
    BY <2>3, Planning DEF TypeInv, NewTurns
  <2>5. new \in Work /\ new.pc = "ready"
    BY <2>4 DEF Work, WorkStates
  <2> HIDE DEF new
  <2> QED
    BY <1>1, <2>1, <2>2, <2>3, <2>4, <2>5, WorkTyped DEF capture
<1>6. CASE CannotRead(w)
  <2>1. /\ UNCHANGED <<capture, extracted, givenUp, counts, dropped, rows, holder>>
        /\ work' = [work EXCEPT ![w] = NoWork]
        /\ lease' = [lease EXCEPT ![w] = None]
    BY <1>6 DEF CannotRead, Abandon
  <2>2. QueueInv' /\ \A v \in Workers \ {w} : lease'[v] = lease[v]
    BY <2>1, Typing DEF QueueInv, QueueTypeOK, RowsNamed
  <2> QED
    BY <1>1, <1>2, <2>1, <2>2, WorkTyped DEF capture
<1>7. CASE ExtractWindow(w)
  <2> DEFINE new == [work[w] EXCEPT !.pc = "written"]
  <2>1. /\ UNCHANGED <<queueVars, capture, givenUp, counts, dropped>>
        /\ work' = [work EXCEPT ![w] = new]
        /\ work[w].windows # << >> /\ work[w].pc = "ready"
    BY <1>1, <1>7 DEF ExtractWindow
  <2>2. QueueInv' /\ \A v \in Workers : lease'[v] = lease[v]
    BY <2>1, Typing DEF queueVars, QueueInv, QueueTypeOK, RowsNamed
  <2>3. new \in Work /\ new.pc = "written" /\ new.windows = work[w].windows
    BY <1>1 DEF Work, WorkStates
  <2>4. /\ lease'[w] # None
        /\ \A i \in DOMAIN new.windows : new.windows[i] \subseteq Positions(lease'[w].path)
    BY <2>1, <2>2, <2>3 DEF TypeInv, WorkLeased, WorkInside
  <2>5. extracted' \in [Days -> SUBSET Nat]
    <3>1. Head(work[w].windows) \in SUBSET Nat
      <4>1. work[w].windows \in Seq(SUBSET Nat)
        BY <1>1 DEF Work
      <4> QED
        BY <2>1, <4>1
    <3> QED
      BY <1>1, <1>7, <3>1 DEF ExtractWindow
  <2> HIDE DEF new
  <2> QED
    BY <1>1, <2>1, <2>2, <2>3, <2>4, <2>5, WorkTyped DEF capture
<1>8. CASE AdvanceCursor(w)
  <2> DEFINE W == work[w].windows
             d == lease[w].path
             new == [pc |-> "ready", windows |-> Tail(W)]
  <2>0. d = lease[w].path /\ W = work[w].windows
    OBVIOUS
  <2> HIDE DEF d, W
  <2>1. /\ d \in Days /\ W \in Seq(SUBSET Nat) /\ W # << >>
        /\ file' \in [Days -> File]
        /\ \A e \in Days : /\ file'[e].turns = file[e].turns
                           /\ file'[e].status = file[e].status
        /\ \A i \in DOMAIN W : W[i] \subseteq Positions(d)
        /\ work' = [work EXCEPT ![w] = new]
        /\ UNCHANGED <<queueVars, cache, lock, call, tracker, extracted, givenUp, counts>>
    BY <1>8, <2>0, Advancing
  <2>2. QueueInv' /\ \A v \in Workers : lease'[v] = lease[v]
    BY <2>1, Typing DEF queueVars, QueueInv, QueueTypeOK, RowsNamed
  <2>3. /\ Tail(W) \in Seq(SUBSET Nat)
        /\ \A i \in DOMAIN Tail(W) : Tail(W)[i] \subseteq Positions(d)
    BY <2>1, TailOf
  <2>4. new \in Work /\ new.pc = "ready" /\ new.windows = Tail(W)
    BY <2>3 DEF Work, WorkStates
  <2>5. lease'[w] # None /\ lease'[w].path = d
    BY <1>8, <2>0, <2>2 DEF AdvanceCursor, TypeInv, WorkLeased
  <2>6. \A i \in DOMAIN new.windows : new.windows[i] \subseteq Positions(lease'[w].path)
    BY <2>3, <2>4, <2>5
  <2>7. dropped' \in SUBSET Days
    <3>1. d \in Days /\ dropped' = dropped \cup SetsBack(d, file'[d].cursor)
      BY <1>8, <2>0, Advancing
    <3> QED
      BY <1>1, <3>1 DEF SetsBack
  <2> HIDE DEF new
  <2> QED
    BY <1>1, <2>1, <2>2, <2>4, <2>5, <2>6, <2>7, WorkTyped
<1>9. CASE FinishJob(w) \/ FailJob(w)
  <2>1. /\ QueueInv'
        /\ \A v \in Workers \ {w} : lease'[v] = lease[v]
    BY <1>9, Ending, Typing DEF FinishJob, FailJob
  <2>2. /\ UNCHANGED <<capture, extracted, counts>>
        /\ work' = [work EXCEPT ![w] = NoWork]
        /\ givenUp' \in SUBSET Days /\ dropped' \in SUBSET Days
    <3>1. TakesOver(w) \subseteq Days
      <4>1. lease[w] # None => lease[w].id \in Ids
        BY Typing
      <4>2. lease[w] # None
        BY <1>9, Ending, Typing DEF FinishJob, FailJob
      <4> QED
        BY <4>1, <4>2, Typing DEF TakesOver, Matches, TypeInv, RowsNamed
    <3> QED
      BY <1>1, <1>3, <1>9, <3>1 DEF FinishJob, FailJob
  <2> QED
    BY <1>1, <1>2, <2>1, <2>2, WorkTyped DEF capture
<1> QED
  BY <1>4, <1>5, <1>6, <1>7, <1>8, <1>9 DEF Worker

\* A host that dies, and time.
LEMMA TimeTyped ==
  ASSUME TypeInv, (\E h \in Hosts : CrashHost(h) \/ IdleElapses(h)) \/ QueueTime
  PROVE  TypeInv'
<1>1. CASE \E h \in Hosts : CrashHost(h)
  <2>1. PICK h \in Workers : CrashHost(h)
    BY <1>1 DEF Hosts
  <2>2. /\ work' = [work EXCEPT ![h] = NoWork]
        /\ UNCHANGED <<rows, holder, file, cache, lock, call, extracted, givenUp, extracts, dropped>>
        /\ tracker' \in [Hosts -> {"none", "fresh", "idle"}]
        /\ crashes' \in Nat
    <3>1. tracker' = [tracker EXCEPT ![h] = "none"] /\ crashes' = crashes + 1
      BY <2>1 DEF CrashHost
    <3>2. tracker' \in [Hosts -> {"none", "fresh", "idle"}] /\ crashes' \in Nat
      <4>1. tracker \in [Hosts -> {"none", "fresh", "idle"}] /\ crashes \in Nat
        BY DEF TypeInv, TypeOK
      <4>2. tracker' \in [Hosts -> {"none", "fresh", "idle"}]
        BY <3>1, <4>1
      <4>3. crashes' \in Nat
        BY <3>1, <4>1
      <4> QED
        BY <4>2, <4>3
    <3>3. UNCHANGED <<rows, holder>>
      BY <2>1 DEF CrashHost, Abandon, queueVars
    <3> QED
      BY <2>1, <3>2, <3>3 DEF CrashHost
  <2>3. << >> \in Seq(SUBSET Nat)
    OBVIOUS
  <2>4. work' \in [Workers -> Work] /\ work'[h].pc = "idle" /\ \A w \in Workers \ {h} : work'[w] = work[w]
    BY <2>2, <2>3 DEF TypeInv, TypeOK, NoWork, Work, WorkStates
  <2>5. lease' \in [Workers -> Lease \cup {None}] /\ \A w \in Workers \ {h} : lease'[w] = lease[w]
    BY <2>1 DEF CrashHost, Abandon, queueVars, TypeInv, TypeOK, QueueTypeOK
  <2>6. TypeOK'
    BY <2>2, <2>4, <2>5 DEF TypeInv, TypeOK, QueueTypeOK
  <2>7. RowsNamed' /\ CallsKnown' /\ FilesCached'
    BY <2>2 DEF TypeInv, RowsNamed, CallsKnown, FilesCached, Existing
  <2>8. WorkLeased' /\ WorkInside'
    BY <2>2, <2>4, <2>5 DEF TypeInv, WorkLeased, WorkInside, Positions
  <2> QED
    BY <2>6, <2>7, <2>8 DEF TypeInv
<1>2. CASE \E h \in Hosts : IdleElapses(h)
  <2>1. UNCHANGED <<queueVars, file, cache, lock, call, worker, counts, dropped>>
    BY <1>2 DEF IdleElapses
  <2>2. tracker' \in [Hosts -> {"none", "fresh", "idle"}]
    BY <1>2 DEF IdleElapses, TypeInv, TypeOK
  <2>3. TypeOK'
    BY <2>1, <2>2 DEF TypeInv, TypeOK, QueueTypeOK, queueVars, worker, counts
  <2>4. RowsNamed' /\ CallsKnown' /\ FilesCached'
    BY <2>1 DEF TypeInv, RowsNamed, CallsKnown, FilesCached, Existing, queueVars
  <2>5. WorkLeased' /\ WorkInside'
    BY <2>1, WorkStays DEF queueVars, worker, Positions
  <2> QED
    BY <2>3, <2>4, <2>5 DEF TypeInv
<1>3. CASE QueueTime
  <2>1. UNCHANGED <<capture, worker, counts, dropped>>
    BY <1>3 DEF QueueTime
  <2>2. QueueInv' /\ UNCHANGED lease
    BY <1>3, Passing, Typing DEF QueueTime
  <2>3. TypeOK'
    BY <2>1, <2>2 DEF TypeInv, TypeOK, QueueInv, capture, worker, counts
  <2>4. CallsKnown' /\ FilesCached'
    BY <2>1 DEF TypeInv, CallsKnown, FilesCached, Existing, capture
  <2>5. WorkLeased' /\ WorkInside'
    BY <2>1, <2>2, WorkStays DEF capture, worker, Positions
  <2> QED
    BY <2>2, <2>3, <2>4, <2>5 DEF TypeInv, QueueInv
<1> QED
  BY <1>1, <1>2, <1>3

\* A step that changes nothing.
LEMMA TypeStutter == TypeInv /\ UNCHANGED vars => TypeInv'
<1> SUFFICES ASSUME TypeInv, UNCHANGED vars PROVE TypeInv'
  OBVIOUS
<1> USE DEF vars, queueVars, capture, worker, counts
<1>1. TypeOK' /\ RowsNamed' /\ CallsKnown' /\ FilesCached'
  BY DEF TypeInv, TypeOK, QueueTypeOK, RowsNamed, CallsKnown, FilesCached, Existing
<1>2. WorkLeased' /\ WorkInside'
  BY WorkStays DEF Positions
<1> QED
  BY <1>1, <1>2 DEF TypeInv

\* Every step keeps the types.
LEMMA TypeStep == TypeInv /\ [Next]_vars => TypeInv'
<1> SUFFICES ASSUME TypeInv, [Next]_vars PROVE TypeInv'
  OBVIOUS
<1>1. CASE \E c \in Clients : Client(c)
  <2>1. PICK c \in Clients : AppendTurn(c) \/ CloseSession(c) \/ Extract(c) \/ ForceResets(c)
    BY <1>1 DEF Client
  <2> QED
    BY <2>1, AppendTyped, CloseTyped, ExtractTyped, Typing
<1>2. CASE \E t \in Callers : Continues(t) \/ CallEnds(t)
  BY <1>2, ContinuesTyped
<1>3. CASE \E h \in Hosts : Scans(h)
  BY <1>3, CloseTyped, Typing DEF Scans
<1>4. CASE \E h \in Hosts : Worker(h)
  BY <1>4, WorkerTyped, Typing
<1>5. CASE (\E h \in Hosts : CrashHost(h) \/ IdleElapses(h)) \/ QueueTime
  BY <1>5, TimeTyped
<1>6. CASE UNCHANGED vars
  BY <1>6, TypeStutter
<1> QED
  BY <1>1, <1>2, <1>3, <1>4, <1>5, <1>6 DEF Next

\* The tables, the day-files, the calls and the jobs keep their types, for any numbers of
\* clients, hosts and days.
THEOREM ConversationTypeCorrect == Spec => []TypeOK
<1>1. TypeInv => TypeOK
  BY DEF TypeInv
<1> QED
  BY <1>1, TypeInitially, TypeStep, PTL DEF Spec

-----------------------------------------------------------------------------
(* Ordinals. *)

\* The steps that write no turn: what they do to the cursors, and to what is known of the
\* ordinals.
LEMMA Settled ==
  ASSUME TypeInv, LockHeld, [Next]_vars, \A c \in Clients : ~AppendTurn(c)
  PROVE  /\ LockHeld' /\ ("appended" \notin Partial => Highest' = Highest)
         /\ \A d \in Days : /\ file'[d].turns = file[d].turns
                            /\ \/ file'[d].cursor = file[d].cursor
                               \/ file'[d].cursor = 0
                               \/ \E p \in Positions(d) : file'[d].cursor = file[d].turns[p]
<1> DEFINE Quietly == UNCHANGED <<cache, lock, call>> /\ UNCHANGED file
<1>1. /\ call \in [Callers -> Call] /\ cache \in Cache \cup {None} /\ lock \in Callers \cup {None}
      /\ file \in [Days -> File] /\ None \notin Callers
  BY ConversationAssumption, QueueAssumption DEF TypeInv, TypeOK, Callers, Hosts
<1>2. CASE Quietly
  BY <1>2 DEF LockHeld, Highest
<1>3. ASSUME NEW t \in Callers, CloseSession(t)
      PROVE  /\ LockHeld' /\ Highest' = Highest
             /\ \A d \in Days : /\ file'[d].turns = file[d].turns
                                /\ file'[d].cursor = file[d].cursor
  <2>1. cache' = cache
    BY <1>3 DEF CloseSession
  <2> QED
    BY <1>1, <1>3, <2>1, Closing DEF LockHeld, Highest
<1>4. ASSUME NEW t \in Callers, CallEnds(t)
      PROVE  /\ UNCHANGED file /\ LockHeld'
             /\ "appended" \notin Partial => Highest' = Highest
  <2>1. /\ "appended" \notin Partial => call[t].pc # "appended"
        /\ call' = [call EXCEPT ![t] = Quiet]
        /\ lock' = IF lock = t THEN None ELSE lock
        /\ UNCHANGED <<file, cache>>
    BY <1>4 DEF CallEnds
  <2> QED
    BY <1>1, <2>1 DEF LockHeld, Highest, Quiet
<1>5. ASSUME NEW t \in Callers, Continues(t)
      PROVE  UNCHANGED file /\ LockHeld' /\ Highest' = Highest
  <2>1. CASE AppendCaches(t)
    <3>1. /\ lock = t /\ call[t].pc = "appended"
          /\ cache' = [max |-> call[t].max, status |-> "open"]
          /\ lock' = None /\ call' = [call EXCEPT ![t].pc = "cached"]
          /\ UNCHANGED file
      BY <2>1 DEF AppendCaches, LockHeld
    <3>2. cache' # None
      <4>1. cache' \in Cache
        BY <1>1, <3>1 DEF Call, Cache, FileStatus
      <4> QED
        BY <4>1, Typing
    <3>3. \A u \in Callers : ~(call'[u].pc \in {"appended", "closing"})
      BY <1>1, <3>1 DEF LockHeld, Call
    <3> QED
      BY <1>1, <3>1, <3>2, <3>3 DEF LockHeld, Highest
  <2>2. CASE CloseCaches(t)
    <3>1. /\ lock = t /\ call[t].pc = "closing"
          /\ cache' = [Snapshot EXCEPT !.status = "closed"]
          /\ lock' = None /\ call' = [call EXCEPT ![t].pc = "closed"]
          /\ UNCHANGED file
      BY <2>2 DEF CloseCaches, LockHeld
    <3>2. cache' # None /\ cache'.max = Snapshot.max
      <4>1. cache' \in Cache /\ cache'.max = Snapshot.max
        BY <3>1, Typing DEF Cache, FileStatus
      <4> QED
        BY <4>1, Typing
    <3>3. \A u \in Callers : ~(call'[u].pc \in {"appended", "closing"})
      BY <1>1, <3>1 DEF LockHeld, Call
    <3>4. Snapshot.max = IF cache = None THEN 0 ELSE cache.max
      BY DEF Snapshot, Scanned, TypeInv, FilesCached
    <3> QED
      BY <1>1, <3>1, <3>2, <3>3, <3>4 DEF LockHeld, Highest
  <2>3. CASE AddEnqueues(t) \/ CloseEnqueues(t) \/ ForceEnqueues(t)
    <3>1. /\ call[t].pc \in {"cached", "closed", "reset"}
          /\ UNCHANGED <<file, cache, lock>>
      BY <2>3 DEF AddEnqueues, CloseEnqueues, ForceEnqueues
    <3>2. /\ ~(call'[t].pc \in {"appended", "closing"})
          /\ \A u \in Callers \ {t} : call'[u] = call[u]
      BY <1>1, <2>3 DEF AddEnqueues, CloseEnqueues, ForceEnqueues, Quiet, Call
    <3> QED
      BY <1>1, <3>1, <3>2 DEF LockHeld, Highest
  <2> QED
    BY <1>5, <2>1, <2>2, <2>3 DEF Continues
<1>6. ASSUME NEW c \in Clients, ForceResets(c)
      PROVE  /\ LockHeld' /\ Highest' = Highest
             /\ \A d \in Days : /\ file'[d].turns = file[d].turns
                                /\ file'[d].cursor = 0
  <2>1. /\ file' = [d \in Days |-> [file[d] EXCEPT !.cursor = 0]]
        /\ call' = [call EXCEPT ![c].pc = "reset", ![c].todo = Existing]
        /\ lock = None /\ UNCHANGED <<cache, lock>>
    BY <1>6 DEF ForceResets
  <2>2. c \in Callers
    BY Typing
  <2>3. /\ call'[c].pc = "reset"
        /\ \A u \in Callers \ {c} : call'[u] = call[u]
    BY <1>1, <2>1, <2>2 DEF Call
  <2>4. \A d \in Days : file'[d].turns = file[d].turns /\ file'[d].cursor = 0
    BY <1>1, <2>1 DEF File
  <2> QED
    BY <1>1, <2>1, <2>3, <2>4 DEF LockHeld, Highest
<1>7. ASSUME NEW w \in Workers, AdvanceCursor(w)
      PROVE  /\ UNCHANGED <<cache, lock, call>>
             /\ \A d \in Days : /\ file'[d].turns = file[d].turns
                                /\ \/ file'[d].cursor = file[d].cursor
                                   \/ \E p \in Positions(d) : file'[d].cursor = file[d].turns[p]
  <2> DEFINE d == lease[w].path
             W == work[w].windows
  <2>0. d = lease[w].path /\ W = work[w].windows
    OBVIOUS
  <2> HIDE DEF d, W
  <2>1. /\ d \in Days /\ W \in Seq(SUBSET Nat) /\ W # << >>
        /\ \A i \in DOMAIN W : W[i] \subseteq Positions(d)
    BY <1>7, <2>0, Advancing
  <2>4. \A e \in Days : file'[e].turns = file[e].turns
    BY <1>7, <2>0, Advancing
  <2>5. \A e \in Days : e # d => file'[e].cursor = file[e].cursor
    BY <1>7, <2>0, Advancing
  <2>6. \/ file'[d].cursor = file[d].cursor
        \/ \E p \in W[1] : file'[d].cursor = file[d].turns[p]
    BY <1>7, <2>0, Advancing
  <2>3. UNCHANGED <<cache, lock, call>>
    BY <1>7 DEF AdvanceCursor
  <2>2. W[1] \subseteq Positions(d)
    BY <2>1, TailOf
  <2> QED
    BY <2>1, <2>2, <2>3, <2>4, <2>5, <2>6
<1>8. CASE \E h \in Hosts : Worker(h) /\ ~AdvanceCursor(h)
  BY <1>2, <1>8 DEF Worker, ClaimNextJob, PlanWindows, CannotRead, ExtractWindow, FinishJob, FailJob, capture
<1>9. CASE \/ \E c \in Clients : Extract(c)
           \/ \E h \in Hosts : CrashHost(h) \/ IdleElapses(h)
           \/ QueueTime
           \/ UNCHANGED vars
  BY <1>2, <1>9 DEF Extract, CrashHost, IdleElapses, QueueTime, vars, capture
<1>10. \/ \E t \in Callers : CloseSession(t) \/ CallEnds(t) \/ Continues(t)
       \/ \E c \in Clients : ForceResets(c)
       \/ \E w \in Workers : AdvanceCursor(w)
       \/ \E h \in Hosts : Worker(h) /\ ~AdvanceCursor(h)
       \/ \/ \E c \in Clients : Extract(c)
          \/ \E h \in Hosts : CrashHost(h) \/ IdleElapses(h)
          \/ QueueTime
          \/ UNCHANGED vars
  BY Typing DEF Next, Client, Scans
<1>11. CASE \E w \in Workers : AdvanceCursor(w)
  BY <1>7, <1>11 DEF LockHeld, Highest
<1> QED
  BY <1>3, <1>4, <1>5, <1>6, <1>8, <1>9, <1>10, <1>11

\* A turn is numbered above all others.
LEMMA Numbering ==
  ASSUME TypeInv, LogInv, NEW c \in Clients, AppendTurn(c)
  PROVE  LogInv' /\ \A d \in Days : /\ file[d].cursor <= Snapshot.max
                                    /\ \A p \in Positions(d) : file[d].turns[p] <= Snapshot.max
<1>1. PICK d \in Days :
        /\ file'[d].turns = Append(file[d].turns, Snapshot.max + 1)
        /\ file'[d].cursor = file[d].cursor
        /\ \A e \in Days \ {d} : file'[e] = file[e]
        /\ call'[c].pc = "appended" /\ call'[c].max = Snapshot.max + 1
        /\ \A t \in Callers \ {c} : call'[t] = call[t]
  BY Appending
<1>2. lock = None /\ lock' = c /\ c \in Callers /\ None \notin Callers
  BY ConversationAssumption, QueueAssumption DEF AppendTurn, Callers, Hosts
<1>3. Highest = Snapshot.max /\ Highest' = Snapshot.max + 1 /\ Snapshot.max \in Nat
  <2>1. Snapshot.max = IF cache = None THEN 0 ELSE cache.max
    BY DEF Snapshot, Scanned, TypeInv, FilesCached
  <2> QED
    BY <1>1, <1>2, <2>1, Typing DEF Highest, Cache
<1>4. LockHeld'
  BY <1>1, <1>2 DEF LogInv, LockHeld
<1>5. ASSUME NEW e \in Days
      PROVE  /\ file[e].cursor <= Snapshot.max
             /\ \A p \in Positions(e) : file[e].turns[p] <= Snapshot.max
  BY <1>3 DEF LogInv, Bounded
<1>6. /\ DOMAIN file'[d].turns = Positions(d) \cup {Len(file[d].turns) + 1}
      /\ file'[d].turns[Len(file[d].turns) + 1] = Snapshot.max + 1
      /\ \A p \in Positions(d) : file'[d].turns[p] = file[d].turns[p] /\ p < Len(file[d].turns) + 1
  <2>1. /\ file[d].turns \in Seq(Nat) /\ Len(file[d].turns) \in Nat
        /\ Positions(d) = 1 .. Len(file[d].turns)
    BY Typing
  <2> QED
    BY <1>1, <1>3, <2>1
<1> HIDE DEF Snapshot
<1>7. Bounded'
  <2>1. ASSUME NEW e \in Days
        PROVE  /\ file'[e].cursor <= Snapshot.max + 1
               /\ \A p \in DOMAIN file'[e].turns : file'[e].turns[p] <= Snapshot.max + 1
    <3>1. file[e].cursor \in Nat /\ \A p \in Positions(e) : file[e].turns[p] \in Nat
      BY Typing
    <3>2. CASE e = d
      <4>1. file'[d].cursor <= Snapshot.max + 1
        BY <1>1, <1>3, <1>5, <3>1, <3>2
      <4>2. ASSUME NEW p \in DOMAIN file'[d].turns
            PROVE  file'[d].turns[p] <= Snapshot.max + 1
        <5>1. CASE p \in Positions(d)
          BY <1>3, <1>5, <1>6, <3>1, <3>2, <5>1
        <5>2. CASE p = Len(file[d].turns) + 1
          BY <1>3, <1>6, <5>2
        <5> QED
          BY <1>6, <4>2, <5>1, <5>2
      <4> QED
        BY <3>2, <4>1, <4>2
    <3>3. CASE e # d
      <4>1. file'[e] = file[e] /\ DOMAIN file'[e].turns = Positions(e)
        BY <1>1, <3>3 DEF Positions
      <4> QED
        BY <1>3, <1>5, <3>1, <4>1
    <3> QED
      BY <3>2, <3>3
  <2> QED
    BY <1>3, <2>1 DEF Bounded, Positions
<1>8. Ordered'
  <2>1. ASSUME NEW e \in Days, NEW p \in DOMAIN file'[e].turns, NEW q \in DOMAIN file'[e].turns, p < q
        PROVE  file'[e].turns[p] < file'[e].turns[q]
    <3>1. CASE e = d
      <4>1. Len(file[d].turns) \in Nat /\ \A r \in Positions(d) : r \in Nat /\ file[d].turns[r] \in Nat
        BY Typing
      <4>2. CASE q = Len(file[d].turns) + 1
        <5>1. p \in Positions(d)
          BY <1>6, <2>1, <3>1, <4>1, <4>2
        <5> QED
          BY <1>3, <1>5, <1>6, <3>1, <4>1, <4>2, <5>1
      <4>3. CASE q # Len(file[d].turns) + 1
        <5>1. q \in Positions(d) /\ p \in Positions(d)
          BY <1>6, <2>1, <3>1, <4>1, <4>3
        <5> QED
          BY <1>6, <2>1, <3>1, <5>1 DEF LogInv, Ordered
      <4> QED
        BY <4>2, <4>3
    <3>2. CASE e # d
      <4>1. file'[e] = file[e]
        BY <1>1, <3>2
      <4> QED
        BY <2>1, <4>1 DEF LogInv, Ordered, Positions
    <3> QED
      BY <3>1, <3>2
  <2> QED
    BY <2>1 DEF Ordered, Positions
<1> QED
  BY <1>4, <1>5, <1>7, <1>8 DEF LogInv

\* There is no ordinal at first.
LEMMA LogInitially == Init => LogInv
BY DEF Init, Quiet, NoFile, LogInv, LockHeld, Ordered, Bounded, Highest, Positions

\* Every step keeps the ordinals in order.
LEMMA LogStep ==
  ASSUME TypeInv, LogInv, "appended" \notin Partial, [Next]_vars
  PROVE  LogInv'
<1>1. CASE \E c \in Clients : AppendTurn(c)
  BY <1>1, Numbering
<1>2. CASE \A c \in Clients : ~AppendTurn(c)
  <2>1. /\ LockHeld' /\ Highest' = Highest
        /\ \A d \in Days : /\ file'[d].turns = file[d].turns
                           /\ \/ file'[d].cursor = file[d].cursor
                              \/ file'[d].cursor = 0
                              \/ \E p \in Positions(d) : file'[d].cursor = file[d].turns[p]
    BY <1>2, Settled DEF LogInv
  <2>2. Ordered'
    BY <2>1 DEF LogInv, Ordered, Positions
  <2>3. ASSUME NEW d \in Days
        PROVE  /\ file'[d].cursor <= Highest
               /\ \A p \in Positions(d) : file'[d].turns[p] <= Highest
    <3>1. /\ file[d].cursor <= Highest /\ \A p \in Positions(d) : file[d].turns[p] <= Highest
      BY DEF LogInv, Bounded
    <3>2. 0 <= Highest
      <4>1. Highest \in Nat
        BY DEF TypeInv, TypeOK, Highest, Call, Cache
      <4> QED
        BY <4>1
    <3> QED
      BY <2>1, <3>1, <3>2
  <2>4. Bounded'
    BY <2>1, <2>3 DEF Bounded, Positions
  <2> QED
    BY <2>1, <2>2, <2>4 DEF LogInv
<1> QED
  BY <1>1, <1>2

-----------------------------------------------------------------------------
(* The cursor. *)

\* One worker's job changes, and more may have been extracted; the cursors stay.
LEMMA HonestWork ==
  ASSUME HonestInv, TypeInv', NEW w \in Workers,
         \A v \in Workers \ {w} : lease'[v] = lease[v] /\ work'[v] = work[v],
         \A d \in Days : extracted[d] \subseteq extracted'[d],
         work'[w].pc \in {"ready", "written"} =>
           \A i \in DOMAIN work'[w].windows : \A q \in work'[w].windows[i] : \A p \in 1 .. q :
             p \in extracted'[lease'[w].path] \/ \E j \in 1 .. i : p \in work'[w].windows[j],
         work'[w].pc = "written" => work'[w].windows[1] \subseteq extracted'[lease'[w].path]
  PROVE  WindowsHonest'
<1>1. ASSUME NEW v \in Workers \ {w}, work'[v].pc \in {"ready", "written"}
      PROVE  /\ \A i \in DOMAIN work'[v].windows : \A q \in work'[v].windows[i] : \A p \in 1 .. q :
                  p \in extracted'[lease'[v].path] \/ \E j \in 1 .. i : p \in work'[v].windows[j]
             /\ work'[v].pc = "written" => work'[v].windows[1] \subseteq extracted'[lease'[v].path]
  <2>1. /\ lease'[v] = lease[v] /\ work'[v] = work[v]
        /\ lease[v].path \in Days
    BY <1>1, Typing DEF HonestInv, TypeInv, WorkLeased
  <2>2. extracted[lease[v].path] \subseteq extracted'[lease[v].path]
    BY <2>1
  <2>3. /\ \A i \in DOMAIN work[v].windows : \A q \in work[v].windows[i] : \A p \in 1 .. q :
             p \in extracted[lease[v].path] \/ \E j \in 1 .. i : p \in work[v].windows[j]
        /\ work[v].pc = "written" => work[v].windows[1] \subseteq extracted[lease[v].path]
    BY <1>1, <2>1 DEF HonestInv, WindowsHonest
  <2> QED
    BY <2>1, <2>2, <2>3
<1> QED
  BY <1>1 DEF WindowsHonest

\* What is not extracted yet of the windows a worker plans is in them.
LEMMA PlanningHonest ==
  ASSUME HonestInv, NEW d \in Days, NEW trigger, NEW W, W = Windows(d, trigger),
         NEW i \in DOMAIN W, NEW q \in W[i], NEW p \in 1 .. q
  PROVE  p \in extracted[d] \/ \E j \in 1 .. i : p \in W[j]
<1>1. /\ W[i] \subseteq NewTurns(d)
      /\ \A r \in NewTurns(d) : r <= q => \E j \in 1 .. i : r \in W[j]
  BY Planning DEF HonestInv, TypeInv
<1>2. /\ q \in Positions(d) /\ Positions(d) = 1 .. Len(file[d].turns) /\ Len(file[d].turns) \in Nat
      /\ \A r \in Positions(d) : file[d].turns[r] \in Nat
      /\ file[d].cursor \in Nat
  BY <1>1, Typing DEF HonestInv, NewTurns
<1>3. p \in Positions(d) /\ p <= q
  BY <1>2
<1>4. CASE file[d].turns[p] <= file[d].cursor
  BY <1>3, <1>4 DEF HonestInv, CursorIsHonest
<1>5. CASE ~(file[d].turns[p] <= file[d].cursor)
  <2>1. p \in NewTurns(d)
    BY <1>2, <1>3, <1>5 DEF NewTurns
  <2> QED
    BY <1>1, <1>3, <2>1
<1> QED
  BY <1>4, <1>5

\* The cursor is moved over what is extracted.
LEMMA AdvancingHonest ==
  ASSUME HonestInv, TypeInv', NEW w \in Workers, AdvanceCursor(w)
  PROVE  WindowsHonest' /\ CursorIsHonest'
<1> DEFINE d == lease[w].path
           W == work[w].windows
<1>0. d = lease[w].path /\ W = work[w].windows
  OBVIOUS
<1> HIDE DEF d, W
<1>1. /\ d \in Days /\ W \in Seq(SUBSET Nat) /\ W # << >>
      /\ \A i \in DOMAIN W : W[i] \subseteq Positions(d)
  BY <1>0, Advancing DEF HonestInv
<1>2. \A e \in Days : /\ file'[e].turns = file[e].turns
                      /\ e # d => file'[e].cursor = file[e].cursor
  BY <1>0, Advancing DEF HonestInv
<1>3. \/ file'[d].cursor = file[d].cursor
      \/ \E p \in W[1] : file'[d].cursor = file[d].turns[p]
  BY <1>0, Advancing DEF HonestInv
<1>4. /\ work' = [work EXCEPT ![w] = [pc |-> "ready", windows |-> Tail(W)]]
      /\ UNCHANGED <<lease, extracted>>
  BY <1>0, Advancing DEF HonestInv, queueVars
<1>5. /\ work'[w].pc = "ready" /\ work'[w].windows = Tail(W)
      /\ \A v \in Workers \ {w} : work'[v] = work[v]
  BY <1>4 DEF HonestInv, TypeInv, TypeOK
<1>6. /\ W[1] \subseteq extracted[d]
      /\ \A i \in DOMAIN W : \A q \in W[i] : \A p \in 1 .. q :
           p \in extracted[d] \/ \E j \in 1 .. i : p \in W[j]
  <2>1. work[w].pc = "written"
    BY DEF AdvanceCursor
  <2> QED
    BY <1>0, <2>1 DEF HonestInv, WindowsHonest
<1>7. /\ 1 \in DOMAIN W
      /\ \A i \in DOMAIN Tail(W) : /\ i \in Nat /\ i >= 1
                                   /\ i + 1 \in DOMAIN W
                                   /\ Tail(W)[i] = W[i + 1]
      /\ \A i \in DOMAIN W : i # 1 => i - 1 \in DOMAIN Tail(W) /\ W[i] = Tail(W)[i - 1]
      /\ \A i \in DOMAIN W : i \in Nat
      /\ \A i \in DOMAIN W : \A j \in 1 .. i : j \in DOMAIN W
  BY <1>1, TailOf
<1>8. WindowsHonest'
  <2>1. ASSUME NEW i \in DOMAIN Tail(W), NEW q \in Tail(W)[i], NEW p \in 1 .. q, p \notin extracted[d]
        PROVE  \E j \in 1 .. i : p \in Tail(W)[j]
    <3>1. i \in Nat /\ i + 1 \in DOMAIN W /\ q \in W[i + 1]
      BY <1>7
    <3>2. PICK j \in 1 .. i + 1 : p \in W[j]
      BY <1>6, <2>1, <3>1
    <3>3. j # 1 /\ j \in DOMAIN W
      BY <1>6, <1>7, <2>1, <3>1, <3>2
    <3>4. j - 1 \in 1 .. i /\ p \in Tail(W)[j - 1]
      BY <1>7, <3>1, <3>2, <3>3
    <3> QED
      BY <3>4
  <2> QED
    BY <1>0, <1>4, <1>5, <2>1, HonestWork
<1>9. CursorIsHonest'
  <2>1. ASSUME NEW e \in Days, NEW p \in Positions(e), file[e].turns[p] <= file'[e].cursor
        PROVE  p \in extracted[e]
    <3>1. CASE file'[e].cursor = file[e].cursor
      BY <2>1, <3>1 DEF HonestInv, CursorIsHonest
    <3>2. CASE file'[e].cursor # file[e].cursor
      <4>1. e = d /\ \E r \in W[1] : file'[d].cursor = file[d].turns[r]
        BY <1>2, <1>3, <3>2
      <4>2. PICK r \in W[1] : file'[d].cursor = file[d].turns[r]
        BY <4>1
      <4>3. /\ r \in Positions(d) /\ Positions(d) = 1 .. Len(file[d].turns)
            /\ Len(file[d].turns) \in Nat
            /\ \A s \in Positions(d) : file[d].turns[s] \in Nat
        BY <1>1, <1>7, Typing DEF HonestInv
      <4>4. ~(r < p)
        <5>1. r < p => file[d].turns[r] < file[d].turns[p]
          BY <2>1, <4>1, <4>3 DEF HonestInv, LogInv, Ordered
        <5> QED
          BY <2>1, <4>1, <4>2, <4>3, <5>1
      <4>5. p \in 1 .. r
        BY <2>1, <4>1, <4>3, <4>4
      <4>6. p \in extracted[d] \/ \E j \in 1 .. 1 : p \in W[j]
        BY <1>6, <1>7, <4>2, <4>5
      <4> QED
        BY <1>6, <4>1, <4>6
    <3> QED
      BY <3>1, <3>2
  <2> QED
    BY <1>2, <1>4, <2>1 DEF CursorIsHonest, Positions
<1> QED
  BY <1>8, <1>9

\* Every step keeps the cursors honest.
LEMMA HonestStep ==
  ASSUME ~Forced, "appended" \notin Partial, HonestInv, [Next]_vars
  PROVE  HonestInv'
<1>1. TypeInv' /\ LogInv'
  BY TypeStep, LogStep DEF HonestInv
<1>2. ASSUME \A d \in Days : /\ DOMAIN file'[d].turns = Positions(d)
                             /\ \A p \in Positions(d) : file'[d].turns[p] = file[d].turns[p]
                             /\ file'[d].cursor = file[d].cursor
                             /\ extracted[d] \subseteq extracted'[d]
      PROVE  CursorIsHonest'
  BY <1>2 DEF HonestInv, CursorIsHonest, Positions
<1>3. ASSUME UNCHANGED <<work, lease, extracted>>
      PROVE  WindowsHonest'
  BY <1>3 DEF HonestInv, WindowsHonest
<1>4. ASSUME NEW c \in Clients, AppendTurn(c)
      PROVE  WindowsHonest' /\ CursorIsHonest'
  <2>1. UNCHANGED <<work, lease, extracted>>
    BY <1>4 DEF AppendTurn, worker, queueVars
  <2>2. PICK d \in Days :
          /\ file'[d].turns = Append(file[d].turns, Snapshot.max + 1)
          /\ file'[d].cursor = file[d].cursor
          /\ \A e \in Days \ {d} : file'[e] = file[e]
    BY <1>4, Appending DEF HonestInv
  <2>3. file[d].cursor <= Snapshot.max /\ file[d].cursor \in Nat /\ Snapshot.max \in Nat
    BY <1>4, Numbering, Typing DEF HonestInv, Cache
  <2>4. ASSUME NEW e \in Days, NEW p \in DOMAIN file'[e].turns, file'[e].turns[p] <= file'[e].cursor
        PROVE  p \in extracted[e]
    <3>1. CASE e = d
      <4>1. /\ file[d].turns \in Seq(Nat) /\ Len(file[d].turns) \in Nat
            /\ Positions(d) = 1 .. Len(file[d].turns)
        BY Typing DEF HonestInv
      <4>2. p \in 1 .. Len(file[d].turns) + 1 /\ p # Len(file[d].turns) + 1
        BY <2>2, <2>3, <2>4, <3>1, <4>1
      <4>3. p \in Positions(d) /\ file'[d].turns[p] = file[d].turns[p]
        BY <2>2, <2>3, <4>1, <4>2
      <4> QED
        BY <2>2, <2>4, <3>1, <4>3 DEF HonestInv, CursorIsHonest
    <3>2. CASE e # d
      <4>1. file'[e] = file[e]
        BY <2>2, <3>2
      <4> QED
        BY <2>4, <4>1 DEF HonestInv, CursorIsHonest, Positions
    <3> QED
      BY <3>1, <3>2
  <2> QED
    BY <1>3, <2>1, <2>4 DEF CursorIsHonest, Positions
<1>5. ASSUME NEW t \in Callers, CloseSession(t)
      PROVE  WindowsHonest' /\ CursorIsHonest'
  <2>1. UNCHANGED <<work, lease, extracted>>
    BY <1>5 DEF CloseSession, worker, queueVars
  <2>2. \A d \in Days : /\ file'[d].turns = file[d].turns
                        /\ file'[d].cursor = file[d].cursor
    BY <1>5, Closing DEF HonestInv
  <2> QED
    BY <1>2, <1>3, <2>1, <2>2 DEF Positions
<1>6. CASE \/ \E t \in Callers : Continues(t) \/ CallEnds(t)
           \/ \E c \in Clients : Extract(c)
           \/ \E h \in Hosts : IdleElapses(h)
           \/ QueueTime
           \/ UNCHANGED vars
  <2>1. UNCHANGED <<work, lease, extracted, file>>
    BY <1>6 DEF Continues, AppendCaches, AddEnqueues, ForceEnqueues, CloseCaches, CloseEnqueues,
                CallEnds, Extract, IdleElapses, QueueTime, Enqueue, EnqueueForcePath,
                FallsDue, LeaseExpires, Purge, vars, queueVars, worker, capture
  <2>2. \A d \in Days : /\ DOMAIN file'[d].turns = Positions(d)
                        /\ \A p \in Positions(d) : file'[d].turns[p] = file[d].turns[p]
                        /\ file'[d].cursor = file[d].cursor
                        /\ extracted[d] \subseteq extracted'[d]
    BY <2>1 DEF Positions
  <2>3. CursorIsHonest'
    BY <1>2, <2>2
  <2>4. WindowsHonest'
    <3>1. UNCHANGED <<work, lease, extracted>>
      BY <2>1
    <3> QED
      BY <1>3, <3>1
  <2> QED
    BY <1>1, <2>3, <2>4 DEF HonestInv
<1>7. ASSUME NEW w \in Workers, Worker(w) \/ CrashHost(w)
      PROVE  WindowsHonest' /\ CursorIsHonest'
  <2>1. CASE AdvanceCursor(w)
    BY <1>1, <2>1, AdvancingHonest
  <2>2. CASE ExtractWindow(w)
    <3>1. /\ work[w].pc = "ready" /\ work[w].windows # << >>
          /\ extracted' = [extracted EXCEPT ![lease[w].path] = @ \cup Head(work[w].windows)]
          /\ work' = [work EXCEPT ![w].pc = "written"]
          /\ UNCHANGED <<lease, file>>
      BY <2>2 DEF ExtractWindow, queueVars, capture
    <3>2. /\ extracted \in [Days -> SUBSET Nat] /\ work \in [Workers -> Work]
          /\ work[w].windows \in Seq(SUBSET Nat)
      BY DEF HonestInv, TypeInv, TypeOK, Work
    <3>3. lease[w].path \in Days /\ Head(work[w].windows) = work[w].windows[1]
      BY <3>1, <3>2, TailOf, Typing DEF HonestInv, TypeInv, WorkLeased
    <3>4. /\ \A d \in Days : extracted[d] \subseteq extracted'[d]
          /\ work[w].windows[1] \subseteq extracted'[lease[w].path]
      BY <3>1, <3>2, <3>3
    <3>5. /\ work'[w].windows = work[w].windows /\ work'[w].pc = "written"
          /\ \A v \in Workers \ {w} : work'[v] = work[v]
      BY <3>1, <3>2 DEF Work
    <3>6. \A i \in DOMAIN work[w].windows : \A q \in work[w].windows[i] : \A p \in 1 .. q :
            p \in extracted'[lease[w].path] \/ \E j \in 1 .. i : p \in work[w].windows[j]
      BY <3>1, <3>3, <3>4 DEF HonestInv, WindowsHonest
    <3>7. WindowsHonest'
      BY <1>1, <3>1, <3>4, <3>5, <3>6, HonestWork
    <3> QED
      BY <1>2, <3>1, <3>4, <3>7 DEF Positions
  <2>3. CASE PlanWindows(w)
    <3> DEFINE W == Windows(lease[w].path, lease[w].trigger)
    <3>1. /\ work' = [work EXCEPT ![w] = [pc |-> "ready", windows |-> W]]
          /\ UNCHANGED <<lease, file, extracted>>
      BY <2>3 DEF PlanWindows, queueVars, capture
    <3>2. lease[w].path \in Days
      BY <2>3, Typing DEF PlanWindows, HonestInv, TypeInv, WorkLeased
    <3>3. \A i \in DOMAIN W : \A q \in W[i] : \A p \in 1 .. q :
            p \in extracted[lease[w].path] \/ \E j \in 1 .. i : p \in W[j]
      BY <3>2, PlanningHonest
    <3> HIDE DEF W
    <3>4. /\ work'[w].windows = W /\ work'[w].pc = "ready"
          /\ \A v \in Workers \ {w} : work'[v] = work[v]
      BY <3>1 DEF HonestInv, TypeInv, TypeOK
    <3>5. WindowsHonest'
      BY <1>1, <3>1, <3>3, <3>4, HonestWork
    <3> QED
      BY <1>2, <3>1, <3>5 DEF Positions
  <2>4. CASE ClaimNextJob(w) \/ CannotRead(w) \/ FinishJob(w) \/ FailJob(w) \/ CrashHost(w)
    <3>1. UNCHANGED <<file, extracted>>
      BY <2>4 DEF ClaimNextJob, CannotRead, FinishJob, FailJob, CrashHost, capture
    <3>2. \A v \in Workers \ {w} : lease'[v] = lease[v]
      <4>1. CASE ClaimNextJob(w)
        BY <4>1, Claiming, Typing DEF ClaimNextJob, HonestInv
      <4>2. CASE FinishJob(w) \/ FailJob(w)
        BY <4>2, Ending, Typing DEF FinishJob, FailJob, HonestInv
      <4>3. CASE CannotRead(w) \/ CrashHost(w)
        BY <4>3 DEF CannotRead, CrashHost, Abandon, queueVars, HonestInv, TypeInv, TypeOK, QueueTypeOK
      <4> QED
        BY <2>4, <4>1, <4>2, <4>3
    <3>3. /\ ~(work'[w].pc \in {"ready", "written"})
          /\ \A v \in Workers \ {w} : work'[v] = work[v]
      BY <2>4 DEF ClaimNextJob, CannotRead, FinishJob, FailJob, CrashHost, NoWork,
                  HonestInv, TypeInv, TypeOK, Work
    <3>4. WindowsHonest'
      BY <1>1, <3>1, <3>2, <3>3, HonestWork
    <3> QED
      BY <1>2, <3>1, <3>4 DEF Positions
  <2> QED
    BY <1>7, <2>1, <2>2, <2>3, <2>4 DEF Worker
<1>8. \/ \E c \in Clients : AppendTurn(c)
      \/ \E t \in Callers : CloseSession(t)
      \/ \E w \in Workers : Worker(w) \/ CrashHost(w)
      \/ \/ \E t \in Callers : Continues(t) \/ CallEnds(t)
         \/ \E c \in Clients : Extract(c)
         \/ \E h \in Hosts : IdleElapses(h)
         \/ QueueTime
         \/ UNCHANGED vars
  BY Typing DEF Next, Client, Scans, ForceResets, HonestInv
<1> QED
  BY <1>1, <1>4, <1>5, <1>6, <1>7, <1>8 DEF HonestInv

\* The cursor never runs over a turn that was not sent to the extractor, for any numbers of
\* clients, hosts and turns, as long as the cursors are not reset and no call dies between
\* the write of a day-file and that of the cached row.
THEOREM CursorStaysHonest ==
  ASSUME ~Forced, "appended" \notin Partial
  PROVE  Spec => []CursorIsHonest
<1>1. Init => HonestInv
  <2>1. Init => WindowsHonest /\ CursorIsHonest
    BY DEF Init, NoWork, NoFile, WindowsHonest, CursorIsHonest, Positions
  <2> QED
    BY <2>1, TypeInitially, LogInitially DEF HonestInv
<1>2. HonestInv /\ [Next]_vars => HonestInv'
  BY HonestStep
<1>3. HonestInv => CursorIsHonest
  BY DEF HonestInv
<1> QED
  BY <1>1, <1>2, <1>3, PTL DEF Spec

-----------------------------------------------------------------------------
(* The tail. *)

\* There is no ordinal and no turn at first.
LEMMA TailInitially == Init => TailInv
<1>1. Init => SortInv /\ Held /\ TailKept
  BY DEF Init, InitQueue, Quiet, NoFile, SortInv, LockHeld, Sorted, Reached, Appended, Held,
         TailKept, NewTurns, Positions
<1> QED
  BY <1>1, TypeInitially DEF TailInv

\* A turn is numbered no lower than the others, though one may bear its number whose call
\* died before it told the cached row.
LEMMA AppendSorted ==
  ASSUME TypeInv, SortInv, NEW c \in Clients, AppendTurn(c)
  PROVE  SortInv'
<1> DEFINE n == Snapshot.max + 1
<1>1. PICK d \in Days :
        /\ file'[d].turns = Append(file[d].turns, n)
        /\ \A e \in Days \ {d} : file'[e] = file[e]
        /\ call'[c].pc = "appended" /\ call'[c].max = n
        /\ \A t \in Callers \ {c} : call'[t] = call[t]
  BY Appending
<1>2. lock = None /\ lock' = c /\ cache' = Snapshot /\ c \in Callers /\ None \notin Callers
  BY ConversationAssumption, QueueAssumption DEF AppendTurn, Callers, Hosts
<1>3. /\ n \in Nat /\ cache' # None /\ n = cache'.max + 1
      /\ cache # None => Reach = n
      /\ cache = None => \A e \in Days : file[e].turns = << >>
  <2>1. Snapshot \in Cache /\ None \notin Cache
    BY Typing
  <2>2. cache # None => Snapshot = cache
    BY DEF Snapshot
  <2>3. cache = None => \A e \in Days : file[e].turns = << >>
    BY DEF TypeInv, FilesCached, Existing
  <2> QED
    BY <1>2, <2>1, <2>2, <2>3 DEF Cache, Reach, Appended
<1> HIDE DEF n
<1>4. Appended' /\ Reach' = n
  BY <1>1, <1>2 DEF Appended, Reach
<1>5. LockHeld'
  BY <1>1, <1>2 DEF SortInv, LockHeld
<1>6. ASSUME NEW e \in Days, NEW p \in Positions(e)
      PROVE  file[e].turns[p] \in Nat /\ file[e].turns[p] <= n
  <2>1. cache # None
    BY <1>3 DEF Positions
  <2> QED
    BY <1>3, <2>1, Typing DEF SortInv, Reached
<1>7. /\ DOMAIN file'[d].turns = Positions(d) \cup {Len(file[d].turns) + 1}
      /\ file'[d].turns[Len(file[d].turns) + 1] = n
      /\ \A p \in Positions(d) : /\ p \in Nat /\ p < Len(file[d].turns) + 1
                                 /\ file'[d].turns[p] = file[d].turns[p]
      /\ Len(file[d].turns) \in Nat
  <2>1. /\ file[d].turns \in Seq(Nat) /\ Len(file[d].turns) \in Nat
        /\ Positions(d) = 1 .. Len(file[d].turns)
    BY Typing
  <2> QED
    BY <1>1, <1>3, <2>1
<1>8. ASSUME NEW e \in Days
      PROVE  /\ \A p \in DOMAIN file'[e].turns : file'[e].turns[p] <= n
             /\ \A p, q \in DOMAIN file'[e].turns : p < q => file'[e].turns[p] <= file'[e].turns[q]
  <2>1. CASE e = d
    <3>1. \A p \in DOMAIN file'[d].turns : file'[d].turns[p] <= n
      BY <1>3, <1>6, <1>7
    <3>2. ASSUME NEW p \in DOMAIN file'[d].turns, NEW q \in DOMAIN file'[d].turns, p < q
          PROVE  file'[d].turns[p] <= file'[d].turns[q]
      <4>1. CASE q = Len(file[d].turns) + 1
        BY <1>7, <3>1, <4>1
      <4>2. CASE q # Len(file[d].turns) + 1
        <5>1. q \in Positions(d)
          BY <1>7, <4>2
        <5>2. p \in Positions(d)
          BY <1>7, <3>2, <5>1
        <5> QED
          BY <1>7, <3>2, <5>1, <5>2 DEF SortInv, Sorted
      <4> QED
        BY <4>1, <4>2
    <3> QED
      BY <2>1, <3>1, <3>2
  <2>2. CASE e # d
    <3>1. file'[e] = file[e] /\ DOMAIN file'[e].turns = Positions(e)
      BY <1>1, <2>2 DEF Positions
    <3> QED
      BY <1>6, <3>1 DEF SortInv, Sorted
  <2> QED
    BY <2>1, <2>2
<1>9. Sorted' /\ Reached'
  BY <1>2, <1>3, <1>4, <1>8, <1>1 DEF Sorted, Reached, Positions
<1> QED
  BY <1>5, <1>9 DEF SortInv

\* The cached row goes on with the numbers, or stays where it is.
LEMMA ReachStays ==
  ASSUME TypeInv, SortInv, [Next]_vars, \A c \in Clients : ~AppendTurn(c)
  PROVE  /\ Reach <= Reach'
         /\ Appended' => cache' # None /\ call'[lock'].max = cache'.max + 1
<1>1. /\ call \in [Callers -> Call] /\ cache \in Cache \cup {None} /\ lock \in Callers \cup {None}
      /\ None \notin Callers /\ None \notin Cache
  BY ConversationAssumption, QueueAssumption, Typing DEF TypeInv, TypeOK, Callers, Hosts
<1>2. Reach \in Nat
  BY <1>1 DEF Reach, Appended, Call, Cache
<1>3. CASE UNCHANGED <<cache, lock, call>>
  BY <1>2, <1>3 DEF Reach, Appended, SortInv, Reached
<1>4. ASSUME ~Appended, ~Appended', UNCHANGED cache
      PROVE  /\ Reach <= Reach'
             /\ Appended' => cache' # None /\ call'[lock'].max = cache'.max + 1
  BY <1>2, <1>4 DEF Reach
<1>5. ASSUME NEW t \in Callers, CloseSession(t)
      PROVE  /\ Reach <= Reach'
             /\ Appended' => cache' # None /\ call'[lock'].max = cache'.max + 1
  <2>1. /\ UNCHANGED cache /\ lock = None /\ lock' \in {None, t}
        /\ call'[t].pc # "appended"
    BY <1>5, Closing DEF CloseSession
  <2> QED
    BY <1>4, <2>1 DEF Appended
<1>6. ASSUME NEW c \in Clients, ForceResets(c)
      PROVE  /\ Reach <= Reach'
             /\ Appended' => cache' # None /\ call'[lock'].max = cache'.max + 1
  BY <1>4, <1>6 DEF ForceResets, Appended
<1>7. ASSUME NEW t \in Callers, CallEnds(t)
      PROVE  /\ Reach <= Reach'
             /\ Appended' => cache' # None /\ call'[lock'].max = cache'.max + 1
  <2>1. /\ call' = [call EXCEPT ![t] = Quiet]
        /\ lock' = IF lock = t THEN None ELSE lock
        /\ UNCHANGED cache
    BY <1>7 DEF CallEnds
  <2>2. CASE lock = t
    <3>1. lock' = None /\ ~Appended'
      BY <1>1, <2>1, <2>2 DEF Appended
    <3>2. CASE Appended
      <4>1. Reach = cache.max + 1 /\ cache # None
        BY <3>2 DEF Reach, SortInv, Reached
      <4> QED
        BY <1>2, <2>1, <3>1, <4>1 DEF Reach
    <3>3. CASE ~Appended
      BY <1>4, <2>1, <3>1, <3>3
    <3> QED
      BY <3>2, <3>3
  <2>3. CASE lock # t
    <3>1. lock' = lock /\ (lock # None => call'[lock] = call[lock])
      BY <1>1, <2>1, <2>3
    <3> QED
      BY <1>2, <2>1, <3>1 DEF Reach, Appended, SortInv, Reached
  <2> QED
    BY <2>2, <2>3
<1>8. ASSUME NEW t \in Callers, Continues(t)
      PROVE  /\ Reach <= Reach'
             /\ Appended' => cache' # None /\ call'[lock'].max = cache'.max + 1
  <2>1. CASE AppendCaches(t)
    <3>1. /\ lock = t /\ call[t].pc = "appended"
          /\ cache' = [max |-> call[t].max, status |-> "open"]
          /\ lock' = None
      BY <2>1 DEF AppendCaches, SortInv, LockHeld
    <3>2. cache' \in Cache /\ cache' # None /\ cache'.max = call[t].max /\ call[t].max \in Nat
      BY <1>1, <3>1 DEF Call, Cache, FileStatus
    <3>3. Reach = call[t].max /\ Reach' = call[t].max + 1 /\ ~Appended'
      BY <1>1, <3>1, <3>2 DEF Reach, Appended
    <3> QED
      BY <3>2, <3>3
  <2>2. CASE CloseCaches(t)
    <3>1. /\ lock = t /\ call[t].pc = "closing"
          /\ cache' = [Snapshot EXCEPT !.status = "closed"]
          /\ lock' = None
      BY <2>2 DEF CloseCaches, SortInv, LockHeld
    <3>2. /\ cache' # None /\ cache'.max = Snapshot.max /\ Snapshot.max \in Nat
          /\ cache # None => Snapshot = cache
      <4>1. cache' \in Cache /\ cache'.max = Snapshot.max
        BY <3>1, Typing DEF Cache, FileStatus
      <4> QED
        BY <1>1, <4>1, Typing DEF Cache, Snapshot
    <3>3. ~Appended /\ ~Appended' /\ Reach' = Snapshot.max + 1
      BY <1>1, <3>1, <3>2 DEF Reach, Appended
    <3> QED
      BY <1>2, <3>2, <3>3 DEF Reach
  <2>3. CASE AddEnqueues(t) \/ CloseEnqueues(t) \/ ForceEnqueues(t)
    <3>1. /\ call[t].pc \in {"cached", "closed", "reset"}
          /\ UNCHANGED <<cache, lock>>
      BY <2>3 DEF AddEnqueues, CloseEnqueues, ForceEnqueues
    <3>2. /\ call'[t].pc # "appended"
          /\ \A u \in Callers \ {t} : call'[u] = call[u]
      BY <1>1, <2>3 DEF AddEnqueues, CloseEnqueues, ForceEnqueues, Quiet, Call
    <3>3. Appended' <=> Appended
      BY <1>1, <3>1, <3>2 DEF Appended
    <3>4. Appended => call'[lock] = call[lock]
      BY <1>1, <3>1, <3>2 DEF Appended
    <3> QED
      BY <1>2, <3>1, <3>3, <3>4 DEF Reach, SortInv, Reached
  <2> QED
    BY <1>8, <2>1, <2>2, <2>3 DEF Continues
<1>9. CASE \/ \E h \in Hosts : Worker(h) \/ CrashHost(h) \/ IdleElapses(h)
           \/ \E c \in Clients : Extract(c)
           \/ QueueTime
           \/ UNCHANGED vars
  <2>1. UNCHANGED <<cache, lock, call>>
    BY <1>9 DEF Worker, ClaimNextJob, PlanWindows, CannotRead, ExtractWindow, AdvanceCursor, FinishJob,
         FailJob, CrashHost, IdleElapses, Extract, QueueTime, vars, capture
  <2> QED
    BY <1>3, <2>1
<1> QED
  BY <1>5, <1>6, <1>7, <1>8, <1>9, Typing DEF Next, Client, Scans

\* Every step keeps the ordinals from decreasing, whatever call dies where.
LEMMA SortStep ==
  ASSUME TypeInv, SortInv, [Next]_vars
  PROVE  SortInv'
<1>1. CASE \E c \in Clients : AppendTurn(c)
  BY <1>1, AppendSorted
<1>2. CASE \A c \in Clients : ~AppendTurn(c)
  <2>1. LockHeld' /\ \A d \in Days : file'[d].turns = file[d].turns
    BY <1>2, Settled DEF SortInv
  <2>2. /\ Reach <= Reach'
        /\ Appended' => cache' # None /\ call'[lock'].max = cache'.max + 1
    BY <1>2, ReachStays
  <2>3. Sorted'
    BY <2>1 DEF SortInv, Sorted, Positions
  <2>4. ASSUME NEW d \in Days, NEW p \in Positions(d)
        PROVE  file[d].turns[p] <= Reach'
    <3>1. file[d].turns[p] \in Nat /\ file[d].turns[p] <= Reach
      BY Typing DEF SortInv, Reached
    <3>2. Reach \in Nat /\ Reach' \in Nat
      <4>1. TypeOK /\ TypeOK'
        BY TypeStep DEF TypeInv
      <4> QED
        BY <4>1 DEF TypeOK, Reach, Appended, Call, Cache
    <3> QED
      BY <2>2, <3>1, <3>2
  <2>5. Reached'
    BY <2>1, <2>2, <2>4 DEF Reached, Positions
  <2> QED
    BY <2>1, <2>3, <2>5 DEF SortInv
<1> QED
  BY <1>1, <1>2

\* The holders of what runs stay the holders of it.
LEMMA HeldStays ==
  ASSUME TypeInv, Held, UNCHANGED holder,
         \A w \in Workers : lease'[w] = lease[w] \/ lease'[w] = None,
         \A i \in Ids : rows'[i].status = "running" => rows[i].status = "running" /\ Kept(i)
  PROVE  Held'
<1>1. ASSUME NEW w \in Workers, lease'[w] # None, holder'[lease'[w].id] = w,
             rows'[lease'[w].id].status = "running"
      PROVE  /\ rows'[lease'[w].id].attempts = lease'[w].attempts
             /\ rows'[lease'[w].id].path = lease'[w].path
  <2>1. lease'[w] = lease[w] /\ lease[w].id \in Ids
    BY <1>1, Typing
  <2>2. rows[lease[w].id].status = "running" /\ Kept(lease[w].id)
    BY <1>1, <2>1
  <2> QED
    BY <1>1, <2>1, <2>2 DEF Held, Holds, Kept
<1> QED
  BY <1>1 DEF Held, Holds

\* Every step keeps what is held in the hands of its holder.
LEMMA HeldStep ==
  ASSUME TypeInv, Held, [Next]_vars
  PROVE  Held'
<1>1. /\ QueueInv /\ Days = Paths /\ call \in [Callers -> Call]
      /\ lease \in [Workers -> Lease \cup {None}]
  BY Typing DEF TypeInv, TypeOK, QueueTypeOK
<1>2. ASSUME UNCHANGED queueVars
      PROVE  Held'
  BY <1>2, HeldStays DEF queueVars, Kept
<1>3. ASSUME NEW d \in Paths, NEW trigger \in Triggers, NEW due \in {"now", "later"},
             Enqueue(d, trigger, due) \/ EnqueueForcePath(d, due)
      PROVE  Held'
  BY <1>1, <1>3, Queued, HeldStays
<1>4. ASSUME NEW c \in Clients, Client(c)
      PROVE  Held'
  <2>1. CASE Extract(c)
    <3>1. Existing \in SUBSET Nat /\ IsFiniteSet(Existing) /\ Existing # {} /\ Existing \subseteq Days
      BY <2>1, ConversationAssumption, FS_Subset DEF Existing, Extract
    <3>2. Last(Existing) \in Paths /\ "manual" \in Triggers
      BY <1>1, <3>1, LastIsGreatest DEF Triggers
    <3>3. Enqueue(Last(Existing), "manual", "now")
      BY <2>1 DEF Extract
    <3> QED
      BY <1>3, <3>2, <3>3
  <2>2. CASE ~Extract(c)
    <3>1. UNCHANGED queueVars
      BY <1>4, <2>2 DEF Client, AppendTurn, CloseSession, ForceResets
    <3> QED
      BY <1>2, <3>1
  <2> QED
    BY <2>1, <2>2
<1>5. ASSUME NEW t \in Callers, Continues(t) \/ CallEnds(t)
      PROVE  Held'
  <2>1. CASE AddEnqueues(t) \/ CloseEnqueues(t)
    <3>1. call[t].day \in Paths /\ "debounce" \in Triggers /\ "session_close" \in Triggers
      BY <1>1, <2>1 DEF AddEnqueues, CloseEnqueues, TypeInv, CallsKnown, Triggers
    <3>2. \/ Enqueue(call[t].day, "debounce", "later")
          \/ Enqueue(call[t].day, "session_close", "now")
      BY <2>1 DEF AddEnqueues, CloseEnqueues
    <3> QED
      BY <1>3, <3>1, <3>2
  <2>2. CASE ForceEnqueues(t)
    <3>1. call[t].todo \in SUBSET Days /\ call[t].todo # {}
      BY <1>1, <2>2 DEF ForceEnqueues, TypeInv, CallsKnown, Call
    <3>2. First(call[t].todo) \in Paths /\ "manual" \in Triggers
      BY <1>1, <3>1, FirstDay DEF Triggers
    <3>3. EnqueueForcePath(First(call[t].todo), "now")
      BY <2>2 DEF ForceEnqueues
    <3> QED
      BY <1>3, <3>2, <3>3
  <2>3. CASE AppendCaches(t) \/ CloseCaches(t) \/ CallEnds(t)
    <3>1. UNCHANGED queueVars
      BY <2>3 DEF AppendCaches, CloseCaches, CallEnds
    <3> QED
      BY <1>2, <3>1
  <2> QED
    BY <1>5, <2>1, <2>2, <2>3 DEF Continues
<1>6. ASSUME NEW h \in Workers, ClaimNextJob(h)
      PROVE  Held'
  <2>1. Dequeue(h)
    BY <1>6 DEF ClaimNextJob
  <2>2. ASSUME NEW w \in Workers, lease'[w] # None, holder'[lease'[w].id] = w,
               rows'[lease'[w].id].status = "running"
        PROVE  /\ rows'[lease'[w].id].attempts = lease'[w].attempts
               /\ rows'[lease'[w].id].path = lease'[w].path
    <3>1. CASE w = h
      BY <1>1, <2>1, <2>2, <3>1, Claiming
    <3>2. CASE w # h
      <4>1. lease'[w] = lease[w] /\ lease[w] # None /\ lease[w].id \in Ids
        BY <1>1, <2>1, <2>2, <3>2, Claiming, Typing
      <4>2. lease'[h] = None \/ lease'[h].id # lease[w].id
        BY <1>1, <2>1, <2>2, <3>2, <4>1, Claiming
      <4>3. holder'[lease[w].id] = holder[lease[w].id] /\ rows'[lease[w].id] = rows[lease[w].id]
        BY <1>1, <2>1, <2>2, <4>1, <4>2, Claiming
      <4> QED
        BY <2>2, <4>1, <4>3 DEF Held, Holds
    <3> QED
      BY <3>1, <3>2
  <2> QED
    BY <2>2 DEF Held, Holds
<1>7. ASSUME NEW h \in Workers, FinishJob(h) \/ FailJob(h)
      PROVE  Held'
  <2>1. MarkDone(h) \/ MarkFailed(h)
    BY <1>7 DEF FinishJob, FailJob
  <2>2. UNCHANGED holder /\ \A w \in Workers : lease'[w] = lease[w] \/ lease'[w] = None
    BY <1>1, <2>1, Ending
  <2>3. ASSUME NEW i \in Ids, rows'[i].status = "running"
        PROVE  rows'[i] = rows[i]
    BY <1>1, <2>1, <2>3, Ending
  <2> QED
    BY <2>2, <2>3, HeldStays DEF Kept
<1>8. ASSUME NEW h \in Workers, CannotRead(h) \/ CrashHost(h)
      PROVE  Held'
  <2>1. UNCHANGED <<rows, holder>> /\ \A w \in Workers : lease'[w] = lease[w] \/ lease'[w] = None
    BY <1>1, <1>8 DEF CannotRead, CrashHost, Abandon, queueVars
  <2> QED
    BY <2>1, HeldStays DEF Kept
<1>9. ASSUME NEW h \in Workers, PlanWindows(h) \/ ExtractWindow(h) \/ AdvanceCursor(h)
      PROVE  Held'
  BY <1>2, <1>9 DEF PlanWindows, ExtractWindow, AdvanceCursor
<1>10. ASSUME (\E h \in Hosts : IdleElapses(h) \/ Scans(h)) \/ UNCHANGED vars
       PROVE  Held'
  BY <1>2, <1>10 DEF IdleElapses, Scans, CloseSession, vars
<1>11. ASSUME QueueTime
       PROVE  Held'
  BY <1>1, <1>11, Passing, HeldStays DEF QueueTime
<1> QED
  BY <1>4, <1>5, <1>6, <1>7, <1>8, <1>9, <1>10, <1>11 DEF Next, Hosts, Worker

\* The workers do nothing and the queue only takes jobs in: what was safe still is.
LEMMA SafeStays ==
  ASSUME NEW d, NEW p, Safe(d, p), UNCHANGED <<lease, holder, work>>,
         \A i \in Ids : rows[i].status \in {"pending", "running"} => Kept(i),
         (\E t \in Callers : d \in Owed(t)) => Safe(d, p)',
         d \in dropped => Safe(d, p)'
  PROVE  Safe(d, p)'
<1>1. CASE \E i \in Ids : rows[i].path = d /\ Covers(i, p)
  <2>1. PICK i \in Ids : rows[i].path = d /\ Covers(i, p)
    BY <1>1
  <2>2. Kept(i)
    BY <2>1 DEF Covers
  <2>3. rows'[i].path = d /\ Covers(i, p)'
    BY <2>1, <2>2 DEF Kept, Covers, Holds, Has
  <2> QED
    BY <2>3 DEF Safe
<1> QED
  BY <1>1 DEF Safe

\* A job that waits brings every turn of its day-file to the extractor.
LEMMA PendingIsSafe ==
  ASSUME NEW d, NEW p, \E i \in Ids : rows'[i].path = d /\ rows'[i].status = "pending"
  PROVE  Safe(d, p)'
BY DEF Safe, Covers

\* The calls that began.
LEMMA TailOfCalls ==
  ASSUME TailInv, NEW t \in Callers, Continues(t) \/ CallEnds(t),
         NEW d \in Days, NEW p \in NewTurns(d)'
  PROVE  Safe(d, p)'
<1>1. call \in [Callers -> Call] /\ call[t] \in Call /\ QueueInv /\ Days = Paths
  BY Typing DEF TailInv, TypeInv, TypeOK
<1>2. /\ UNCHANGED <<file, work, lease, holder>>
      /\ \A u \in Callers \ {t} : call'[u] = call[u]
  BY <1>1 DEF Continues, AppendCaches, AddEnqueues, ForceEnqueues, CloseCaches, CloseEnqueues,
              Enqueue, EnqueueForcePath, CallEnds, queueVars, worker
<1>3. Safe(d, p)
  <2>1. p \in NewTurns(d)
    BY <1>2 DEF NewTurns, Positions
  <2> QED
    BY <2>1 DEF TailInv, TailKept
<1>4. ASSUME NEW u \in Callers, u # t, d \in Owed(u)
      PROVE  Safe(d, p)'
  BY <1>2, <1>4 DEF Owed, Safe
<1>5. /\ \A i \in Ids : rows[i].status \in {"pending", "running"} => Kept(i)
      /\ d \in Owed(t) => Safe(d, p)'
      /\ d \in dropped => Safe(d, p)'
  <2>1. CASE AppendCaches(t)
    <3>1. /\ rows' = rows /\ dropped' = dropped
          /\ call[t].pc = "appended" /\ call'[t].pc = "cached" /\ call'[t].day = call[t].day
      BY <1>1, <2>1 DEF AppendCaches, queueVars, Call
    <3> QED
      BY <3>1 DEF Kept, Safe, Owed
  <2>2. CASE AddEnqueues(t) \/ CloseEnqueues(t)
    <3>1. /\ call[t].pc \in {"cached", "closed"} /\ call[t].day \in Paths
          /\ "debounce" \in Triggers /\ "session_close" \in Triggers
          /\ \/ Enqueue(call[t].day, "debounce", "later")
             \/ Enqueue(call[t].day, "session_close", "now")
          /\ dropped' = dropped \ {call[t].day}
      BY <1>1, <2>2 DEF AddEnqueues, CloseEnqueues, Triggers, TailInv, TypeInv, CallsKnown
    <3>2. /\ \E i \in Ids : rows'[i].path = call[t].day /\ rows'[i].status = "pending"
          /\ \A i \in Ids : rows[i].status \in {"pending", "running"} => Kept(i)
      BY <1>1, <3>1, Queued
    <3>3. d = call[t].day => Safe(d, p)'
      BY <3>2, PendingIsSafe
    <3>4. d # call[t].day => d \notin Owed(t) /\ (d \in dropped => d \in dropped')
      BY <3>1 DEF Owed
    <3> QED
      BY <3>2, <3>3, <3>4 DEF Safe
  <2>3. CASE ForceEnqueues(t)
    <3> DEFINE first == First(call[t].todo)
               left == call[t].todo \ {first}
    <3>1. /\ call[t].pc = "reset" /\ EnqueueForcePath(first, "now")
          /\ dropped' = dropped \ {first}
          /\ call' = [call EXCEPT ![t] = IF left = {} THEN Quiet ELSE [@ EXCEPT !.todo = left]]
      BY <2>3 DEF ForceEnqueues
    <3>2. first \in Paths /\ "manual" \in Triggers
      <4>1. call[t].todo \in SUBSET Days /\ call[t].todo # {}
        BY <1>1, <3>1 DEF TailInv, TypeInv, CallsKnown, Call
      <4> QED
        BY <1>1, <4>1, FirstDay DEF Triggers
    <3> HIDE DEF first
    <3>3. /\ \E i \in Ids : rows'[i].path = first /\ rows'[i].status = "pending"
          /\ \A i \in Ids : rows[i].status \in {"pending", "running"} => Kept(i)
      BY <1>1, <3>1, <3>2, Queued
    <3>4. d = first => Safe(d, p)'
      BY <3>3, PendingIsSafe
    <3>5. ASSUME d \in Owed(t), d # first
          PROVE  d \in Owed(t)'
      <4>1. d \in call[t].todo /\ left # {}
        BY <3>1, <3>5 DEF Owed
      <4>2. call'[t] = [call[t] EXCEPT !.todo = left]
        BY <1>1, <3>1, <4>1
      <4> QED
        BY <1>1, <3>1, <3>5, <4>1, <4>2 DEF Call, Owed
    <3> QED
      BY <3>1, <3>3, <3>4, <3>5 DEF Safe
  <2>4. CASE CloseCaches(t)
    <3>1. call[t].pc = "closing" /\ UNCHANGED <<rows, dropped>>
      BY <2>4 DEF CloseCaches, queueVars
    <3> QED
      BY <3>1 DEF Kept, Safe, Owed
  <2>5. CASE CallEnds(t)
    <3>1. UNCHANGED rows /\ dropped' = dropped \cup Owed(t)
      BY <2>5 DEF CallEnds, queueVars
    <3> QED
      BY <3>1 DEF Kept, Safe
  <2> QED
    BY <2>1, <2>2, <2>3, <2>4, <2>5 DEF Continues
<1> QED
  BY <1>2, <1>3, <1>4, <1>5, SafeStays

\* What begins, and the queue on its own.
LEMMA TailOfClients ==
  ASSUME TailInv, NEW d \in Days, NEW p \in NewTurns(d)',
         \/ \E c \in Clients : AppendTurn(c) \/ Extract(c) \/ ForceResets(c)
         \/ \E t \in Callers : CloseSession(t)
         \/ \E h \in Hosts : IdleElapses(h)
         \/ QueueTime
         \/ UNCHANGED vars
  PROVE  Safe(d, p)'
<1>1. call \in [Callers -> Call] /\ QueueInv /\ Days = Paths /\ TypeInv
  BY Typing DEF TailInv, TypeInv, TypeOK
<1>2. UNCHANGED <<work, lease, holder>>
  BY DEF AppendTurn, Extract, ForceResets, CloseSession, IdleElapses, QueueTime, Enqueue,
         FallsDue, LeaseExpires, Purge, vars, queueVars, worker, capture
<1>3. p \in NewTurns(d) => Safe(d, p)
  BY DEF TailInv, TailKept
<1>4. ASSUME UNCHANGED rows, UNCHANGED dropped, p \in NewTurns(d),
             (\E t \in Callers : d \in Owed(t)) => \E t \in Callers : d \in Owed(t)'
      PROVE  Safe(d, p)'
  <2>1. \A i \in Ids : rows[i].status \in {"pending", "running"} => Kept(i)
    BY <1>4 DEF Kept
  <2> QED
    BY <1>2, <1>3, <1>4, <2>1, SafeStays DEF Safe
<1>5. ASSUME NEW c \in Clients, AppendTurn(c)
      PROVE  Safe(d, p)'
  <2>1. PICK e \in Days :
          /\ \A f \in Days \ {e} : file'[f] = file[f]
          /\ call'[c].pc = "appended" /\ call'[c].day = e
          /\ \A t \in Callers \ {c} : call'[t] = call[t]
    BY <1>1, <1>5, Appending
  <2>2. c \in Callers /\ call[c].pc = "idle" /\ UNCHANGED <<rows, dropped>>
    BY <1>1, <1>5, Typing DEF AppendTurn, queueVars
  <2>3. CASE d = e
    BY <2>1, <2>2, <2>3 DEF Safe, Owed
  <2>4. CASE d # e
    <3>1. p \in NewTurns(d)
      BY <2>1, <2>4 DEF NewTurns, Positions
    <3>2. (\E t \in Callers : d \in Owed(t)) => \E t \in Callers : d \in Owed(t)'
      BY <2>1, <2>2 DEF Owed
    <3> QED
      BY <1>4, <2>2, <3>1, <3>2
  <2> QED
    BY <2>3, <2>4
<1>6. ASSUME NEW t \in Callers, CloseSession(t)
      PROVE  Safe(d, p)'
  <2>1. /\ file'[d].turns = file[d].turns /\ file'[d].cursor = file[d].cursor
        /\ call[t].pc = "idle" /\ \A u \in Callers \ {t} : call'[u] = call[u]
    BY <1>1, <1>6, Closing
  <2>2. UNCHANGED <<rows, dropped>>
    BY <1>6 DEF CloseSession, queueVars
  <2>3. p \in NewTurns(d)
    BY <2>1 DEF NewTurns, Positions
  <2>4. (\E u \in Callers : d \in Owed(u)) => \E u \in Callers : d \in Owed(u)'
    BY <2>1 DEF Owed
  <2> QED
    BY <1>4, <2>2, <2>3, <2>4
<1>7. ASSUME NEW c \in Clients, Extract(c)
      PROVE  Safe(d, p)'
  <2>1. UNCHANGED <<file, call>> /\ dropped' = dropped \ {Last(Existing)}
    BY <1>7 DEF Extract, capture
  <2>2. /\ \E i \in Ids : rows'[i].path = Last(Existing) /\ rows'[i].status = "pending"
        /\ \A i \in Ids : rows[i].status \in {"pending", "running"} => Kept(i)
    <3>1. Existing \in SUBSET Nat /\ IsFiniteSet(Existing) /\ Existing # {} /\ Existing \subseteq Days
      BY <1>7, ConversationAssumption, FS_Subset DEF Existing, Extract
    <3>2. Last(Existing) \in Paths /\ "manual" \in Triggers
      BY <1>1, <3>1, LastIsGreatest DEF Triggers
    <3>3. Enqueue(Last(Existing), "manual", "now")
      BY <1>7 DEF Extract
    <3> QED
      BY <1>1, <3>2, <3>3, Queued
  <2>3. CASE d = Last(Existing)
    BY <2>2, <2>3, PendingIsSafe
  <2>4. CASE d # Last(Existing)
    <3>1. p \in NewTurns(d)
      BY <2>1 DEF NewTurns, Positions
    <3>2. (\E t \in Callers : d \in Owed(t)) => Safe(d, p)'
      BY <2>1 DEF Owed, Safe
    <3>3. d \in dropped => Safe(d, p)'
      BY <2>1, <2>4 DEF Safe
    <3> QED
      BY <1>2, <1>3, <2>2, <3>1, <3>2, <3>3, SafeStays
  <2> QED
    BY <2>3, <2>4
<1>8. ASSUME NEW c \in Clients, ForceResets(c)
      PROVE  Safe(d, p)'
  <2>1. /\ call' = [call EXCEPT ![c].pc = "reset", ![c].todo = Existing]
        /\ file' = [e \in Days |-> [file[e] EXCEPT !.cursor = 0]]
    BY <1>8 DEF ForceResets
  <2>2. c \in Callers /\ call[c] \in Call
    BY <1>1, Typing
  <2>3. call'[c].pc = "reset" /\ call'[c].todo = Existing
    BY <1>1, <2>1, <2>2 DEF Call
  <2>4. d \in Existing
    <3>1. file'[d].turns = file[d].turns
      BY <1>1, <2>1 DEF TypeInv, TypeOK, File
    <3>2. DOMAIN file'[d].turns # {}
      BY DEF NewTurns, Positions
    <3>3. file[d].turns # << >>
      BY <3>1, <3>2
    <3> QED
      BY <1>1, <3>3 DEF Existing, TypeInv, FilesCached
  <2> QED
    BY <2>2, <2>3, <2>4 DEF Safe, Owed
<1>9. CASE (\E h \in Hosts : IdleElapses(h)) \/ QueueTime \/ UNCHANGED vars
  <2>1. UNCHANGED <<file, call, dropped>>
    BY <1>9 DEF IdleElapses, QueueTime, vars, capture
  <2>2. \A i \in Ids : rows[i].status \in {"pending", "running"} => Kept(i)
    <3>1. CASE QueueTime
      BY <1>1, <3>1, Passing DEF QueueTime
    <3>2. CASE (\E h \in Hosts : IdleElapses(h)) \/ UNCHANGED vars
      BY <3>2 DEF IdleElapses, vars, queueVars, Kept
    <3> QED
      BY <1>9, <3>1, <3>2
  <2>3. p \in NewTurns(d)
    BY <2>1 DEF NewTurns, Positions
  <2>4. (\E t \in Callers : d \in Owed(t)) => Safe(d, p)'
    BY <2>1 DEF Owed, Safe
  <2>5. d \in dropped => Safe(d, p)'
    BY <2>1 DEF Safe
  <2> QED
    BY <1>2, <1>3, <2>2, <2>3, <2>4, <2>5, SafeStays
<1> QED
  BY <1>5, <1>6, <1>7, <1>8, <1>9

\* Row i still covers turn p after a step of worker w that leaves the row alone.
LEMMA CoverStays ==
  ASSUME NEW w \in Workers, NEW i \in Ids, NEW p, Covers(i, p),
         rows'[i] = rows[i], holder'[i] = holder[i],
         \A v \in Workers \ {w} : lease'[v] = lease[v] /\ work'[v] = work[v],
         Holds(w, i)' => Has(w, p)'
  PROVE  Covers(i, p)'
<1>1. ASSUME NEW v \in Workers \ {w}, Holds(v, i)', rows[i].status = "running"
      PROVE  Has(v, p)'
  <2>1. Holds(v, i)
    BY <1>1 DEF Holds
  <2>2. Has(v, p)
    BY <1>1, <2>1 DEF Covers
  <2> QED
    BY <2>2 DEF Has
<1> QED
  BY <1>1 DEF Covers

\* A step of a worker lets a turn go only with the row that covers it.
LEMMA SafeGoesOn ==
  ASSUME NEW d, NEW p, Safe(d, p), UNCHANGED call, dropped \subseteq dropped',
         \A i \in Ids : rows[i].path = d /\ Covers(i, p) => Safe(d, p)'
  PROVE  Safe(d, p)'
BY DEF Safe, Owed

\* The workers: a turn is let go only when its windows are written, or its day is dropped.
LEMMA TailOfWorker ==
  ASSUME TailInv, NEW w \in Workers, Worker(w) \/ CrashHost(w),
         NEW d \in Days, NEW p \in NewTurns(d)'
  PROVE  Safe(d, p)'
<1>1. /\ QueueInv /\ Days = Paths /\ TypeInv /\ Held
      /\ lease \in [Workers -> Lease \cup {None}]
      /\ work \in [Workers -> Work] /\ file \in [Days -> File]
  BY Typing DEF TailInv, TypeInv, TypeOK, QueueTypeOK
<1>2. /\ UNCHANGED call /\ dropped \subseteq dropped'
      /\ \A v \in Workers \ {w} : work'[v] = work[v]
  BY <1>1 DEF Worker, ClaimNextJob, PlanWindows, CannotRead, ExtractWindow, AdvanceCursor,
              FinishJob, FailJob, CrashHost, capture
<1>3. p \in NewTurns(d) => Safe(d, p)
  BY DEF TailInv, TailKept
<1>4. UNCHANGED file => p \in NewTurns(d)
  BY DEF NewTurns, Positions
<1>5. ASSUME UNCHANGED <<rows, holder>>, p \in NewTurns(d),
             \A v \in Workers \ {w} : lease'[v] = lease[v],
             \A i \in Ids : rows[i].path = d /\ rows[i].status = "running" /\ Holds(w, i)'
                            /\ (Holds(w, i) => Has(w, p)) => Has(w, p)'
      PROVE  Safe(d, p)'
  <2>1. ASSUME NEW i \in Ids, rows[i].path = d, Covers(i, p)
        PROVE  Safe(d, p)'
    <3>1. CASE rows[i].status = "pending"
      BY <1>5, <2>1, <3>1 DEF Safe, Covers
    <3>2. CASE rows[i].status # "pending"
      <4>1. rows[i].status = "running" /\ (Holds(w, i) => Has(w, p))
        BY <2>1, <3>2 DEF Covers
      <4>2. Holds(w, i)' => Has(w, p)'
        BY <1>5, <2>1, <4>1
      <4>3. Covers(i, p)'
        BY <1>2, <1>5, <2>1, <4>2, CoverStays
      <4> QED
        BY <1>5, <2>1, <4>3 DEF Safe
    <3> QED
      BY <3>1, <3>2
  <2> QED
    BY <1>2, <1>3, <1>5, <2>1, SafeGoesOn
<1>6. CASE ClaimNextJob(w)
  <2>1. /\ Dequeue(w) /\ UNCHANGED file /\ dropped' = dropped \cup RanOut
        /\ work' = IF lease'[w] = None THEN work ELSE [work EXCEPT ![w].pc = "claimed"]
    BY <1>6 DEF ClaimNextJob, capture
  <2>2. ASSUME NEW i \in Ids, rows[i].path = d, Covers(i, p)
        PROVE  Safe(d, p)'
    <3>1. /\ rows[i].status \in {"pending", "running"} /\ rows'[i].path = d
          /\ \/ rows'[i].status = rows[i].status
             \/ rows'[i].status = "pending"
             \/ rows'[i].status = "failed" /\ rows[i].status = "running"
             \/ lease'[w] # None /\ lease'[w].id = i
      BY <1>1, <2>1, <2>2, Claiming DEF Covers
    <3>2. CASE lease'[w] # None /\ lease'[w].id = i
      <4>1. rows'[i].status = "running" /\ holder'[i] = w
        BY <1>1, <2>1, <3>2, Claiming
      <4>2. work'[w].pc = "claimed"
        BY <1>1, <2>1, <3>2 DEF Work
      <4>3. Covers(i, p)'
        BY <4>1, <4>2 DEF Covers, Holds, Has
      <4> QED
        BY <3>1, <4>3 DEF Safe
    <3>3. CASE ~(lease'[w] # None /\ lease'[w].id = i)
      <4>1. /\ holder'[i] = holder[i]
            /\ rows'[i].status = "running" => rows'[i] = rows[i]
            /\ \A v \in Workers \ {w} : lease'[v] = lease[v]
        BY <1>1, <2>1, <3>3, Claiming
      <4>2. CASE rows'[i].status = "pending"
        BY <3>1, <4>2, PendingIsSafe
      <4>3. CASE rows'[i].status = "failed"
        <5>1. d \in RanOut
          BY <2>2, <3>1, <3>3, <4>3 DEF RanOut
        <5> QED
          BY <2>1, <5>1 DEF Safe
      <4>4. CASE rows'[i].status = "running"
        <5>1. Covers(i, p)'
          BY <1>2, <2>2, <3>3, <4>1, <4>4, CoverStays DEF Holds
        <5> QED
          BY <3>1, <5>1 DEF Safe
      <4> QED
        BY <3>1, <3>3, <4>2, <4>3, <4>4
    <3> QED
      BY <3>2, <3>3
  <2> QED
    BY <1>2, <1>3, <1>4, <2>1, <2>2, SafeGoesOn
<1>7. CASE PlanWindows(w)
  <2>1. /\ UNCHANGED <<rows, holder, lease, file>> /\ work[w].pc = "claimed"
        /\ work' = [work EXCEPT ![w] = [pc |-> "ready",
                      windows |-> Windows(lease[w].path, lease[w].trigger)]]
    BY <1>7 DEF PlanWindows, queueVars, capture
  <2>2. p \in NewTurns(d)
    BY <1>4, <2>1
  <2>3. ASSUME NEW i \in Ids, rows[i].path = d, rows[i].status = "running", Holds(w, i)'
        PROVE  Has(w, p)'
    <3>1. lease[w].path = d
      BY <1>1, <2>1, <2>3 DEF Holds, Held
    <3> DEFINE W == Windows(d, lease[w].trigger)
    <3>2. work'[w].windows = W
      BY <1>1, <2>1, <3>1
    <3>3. \E k \in DOMAIN W : p \in W[k]
      BY <1>1, <2>2, Planning DEF TypeInv
    <3> QED
      BY <3>2, <3>3 DEF Has
  <2> QED
    BY <1>5, <2>1, <2>2, <2>3
<1>8. CASE CannotRead(w) \/ CrashHost(w)
  <2>1. /\ UNCHANGED <<rows, holder, file>> /\ \A v \in Workers \ {w} : lease'[v] = lease[v]
        /\ lease'[w] = None
    BY <1>1, <1>8 DEF CannotRead, CrashHost, Abandon, queueVars, capture
  <2> QED
    BY <1>4, <1>5, <2>1 DEF Holds
<1>9. CASE ExtractWindow(w)
  <2>1. /\ UNCHANGED <<rows, holder, lease, file>> /\ work[w].pc = "ready"
        /\ work' = [work EXCEPT ![w].pc = "written"]
    BY <1>9 DEF ExtractWindow, queueVars, capture
  <2>2. work'[w].windows = work[w].windows
    BY <1>1, <2>1 DEF Work
  <2> QED
    BY <1>4, <1>5, <2>1, <2>2 DEF Holds, Has
<1>10. TypeInv
  BY <1>1
<1>11. CASE AdvanceCursor(w)
  <2> DEFINE b == lease[w].path
             W == work[w].windows
  <2>1. b = lease[w].path /\ W = work[w].windows
    OBVIOUS
  <2> HIDE DEF b, W
  <2>2. /\ b \in Days /\ W \in Seq(SUBSET Nat) /\ W # << >>
        /\ file' \in [Days -> File]
        /\ \A i \in DOMAIN W : W[i] \subseteq Positions(b)
    BY <1>10, <1>11, <2>1, Advancing
  <2>3. /\ \A e \in Days : file'[e].turns = file[e].turns
        /\ \A e \in Days : e # b => file'[e].cursor = file[e].cursor
    <3>1. \A e \in Days : file'[e].turns = file[e].turns
      BY <1>10, <1>11, <2>1, Advancing
    <3>2. \A e \in Days : e # b => file'[e].cursor = file[e].cursor
      BY <1>10, <1>11, <2>1, Advancing
    <3> QED
      BY <3>1, <3>2
  <2>4. \/ W[1] = {}
        \/ \E q \in W[1] : file'[b].cursor = file[b].turns[q] /\ IsLastOf(q, W[1])
    BY <1>10, <1>11, <2>1, Advancing
  <2>5. /\ work' = [work EXCEPT ![w] = [pc |-> "ready", windows |-> Tail(W)]]
        /\ UNCHANGED queueVars
        /\ dropped' = dropped \cup SetsBack(b, file'[b].cursor)
    BY <1>10, <1>11, <2>1, Advancing
  <2>6. work[w].pc = "written"
    BY <1>11 DEF AdvanceCursor
  <2>7. CASE d = b /\ file'[b].cursor < file[b].cursor
    BY <2>7, <2>5 DEF SetsBack, Safe
  <2>8. CASE ~(d = b /\ file'[b].cursor < file[b].cursor)
    <3>1. p \in Positions(d) /\ file[d].turns[p] > file'[d].cursor
      BY <2>3 DEF NewTurns, Positions
    <3>2. p \in NewTurns(d)
      <4>1. /\ file[d].turns \in Seq(Nat) /\ file[d].cursor \in Nat /\ file'[d].cursor \in Nat
        BY <1>1, <2>2 DEF File
      <4>2. file[d].turns[p] \in Nat
        BY <3>1, <4>1 DEF Positions
      <4>3. file'[d].cursor >= file[d].cursor
        BY <2>3, <2>8, <4>1
      <4> QED
        BY <3>1, <4>1, <4>2, <4>3 DEF NewTurns
    <3>3. ASSUME NEW i \in Ids, rows[i].path = d, rows[i].status = "running", Holds(w, i)',
                 Holds(w, i) => Has(w, p)
          PROVE  Has(w, p)'
      <4>1. Holds(w, i) /\ b = d
        BY <1>1, <2>1, <2>5, <3>3 DEF Holds, Held, queueVars
      <4>2. PICK k \in DOMAIN W : p \in W[k]
        BY <2>1, <2>6, <3>3, <4>1 DEF Has
      <4>3. k # 1
        <5>1. SUFFICES ASSUME k = 1
                       PROVE  FALSE
          OBVIOUS
        <5>2. PICK q \in W[1] : file'[b].cursor = file[b].turns[q] /\ IsLastOf(q, W[1])
          BY <2>4, <4>2, <5>1
        <5>3. q \in Positions(d) /\ p <= q
          BY <2>2, <4>1, <4>2, <5>1, <5>2 DEF IsLastOf
        <5>4. /\ DOMAIN file[d].turns \subseteq Nat
              /\ \A r \in Positions(d) : file[d].turns[r] \in Nat
          BY <1>1 DEF File, Positions
        <5>5. file[d].turns[p] <= file[d].turns[q]
          <6>1. CASE p = q
            BY <3>1, <5>4, <6>1
          <6>2. CASE p # q
            <7>1. p < q
              BY <3>1, <5>3, <5>4, <6>2 DEF Positions
            <7> QED
              BY <3>1, <5>3, <7>1 DEF TailInv, SortInv, Sorted
          <6> QED
            BY <6>1, <6>2
        <5> QED
          BY <3>1, <4>1, <5>2, <5>3, <5>4, <5>5
      <4>4. k - 1 \in DOMAIN Tail(W) /\ W[k] = Tail(W)[k - 1]
        BY <2>2, <4>2, <4>3, TailOf
      <4>5. work'[w].windows = Tail(W)
        BY <1>1, <2>5
      <4> QED
        BY <4>2, <4>4, <4>5 DEF Has
    <3> QED
      BY <1>5, <2>5, <3>2, <3>3 DEF queueVars
  <2> QED
    BY <2>7, <2>8
<1>12. CASE FinishJob(w) \/ FailJob(w)
  <2> DEFINE l == lease[w].id
  <2>1. /\ MarkDone(w) \/ MarkFailed(w)
        /\ UNCHANGED file
    BY <1>12 DEF FinishJob, FailJob, capture
  <2>2. /\ lease[w] # None /\ lease'[w] = None /\ l \in Ids
        /\ \A v \in Workers \ {w} : lease'[v] = lease[v]
        /\ UNCHANGED holder
        /\ \A i \in Ids \ {l} : rows'[i] = rows[i]
        /\ ~Matches(lease[w]) => UNCHANGED rows
        /\ Matches(lease[w]) => /\ rows'[l].path = rows[l].path
                                /\ MarkFailed(w) => rows'[l].status \in {"pending", "failed"}
    BY <1>1, <2>1, Ending, Typing
  <2> HIDE DEF l
  <2>3. ASSUME NEW i \in Ids, rows[i].path = d, Covers(i, p), rows'[i] = rows[i]
        PROVE  Safe(d, p)'
    <3>1. Covers(i, p)'
      BY <1>2, <2>2, <2>3, CoverStays DEF Holds
    <3> QED
      BY <2>3, <3>1 DEF Safe
  <2>4. ASSUME rows[l].path = d, Covers(l, p), rows'[l] # rows[l]
        PROVE  Safe(d, p)'
    <3>1. Matches(lease[w]) /\ rows[l].status = "running" /\ rows'[l].path = d
      BY <2>2, <2>4 DEF Matches, l
    <3>2. CASE FinishJob(w)
      <4>1. work[w].pc = "ready" /\ work[w].windows = << >> /\ dropped' = dropped \cup TakesOver(w)
        BY <3>2 DEF FinishJob
      <4>2. ~Has(w, p)
        BY <4>1 DEF Has
      <4>3. holder[l] # w
        BY <2>2, <2>4, <3>1, <4>2 DEF Covers, Holds, l
      <4>4. d \in TakesOver(w)
        BY <2>4, <3>1, <4>3 DEF TakesOver, l
      <4> QED
        BY <4>1, <4>4 DEF Safe
    <3>3. CASE FailJob(w)
      <4>1. MarkFailed(w) /\ dropped' = dropped \cup RanOut
        BY <3>3 DEF FailJob
      <4>2. rows'[l].status \in {"pending", "failed"}
        BY <2>2, <3>1, <4>1
      <4>3. CASE rows'[l].status = "pending"
        BY <2>2, <3>1, <4>3, PendingIsSafe
      <4>4. CASE rows'[l].status = "failed"
        <5>1. d \in RanOut
          BY <2>2, <2>4, <3>1, <4>4 DEF RanOut
        <5> QED
          BY <4>1, <5>1 DEF Safe
      <4> QED
        BY <4>2, <4>3, <4>4
    <3> QED
      BY <1>12, <3>2, <3>3
  <2>5. ASSUME NEW i \in Ids, rows[i].path = d, Covers(i, p)
        PROVE  Safe(d, p)'
    BY <2>2, <2>3, <2>4, <2>5
  <2> QED
    BY <1>2, <1>3, <1>4, <2>1, <2>5, SafeGoesOn
<1> QED
  BY <1>6, <1>7, <1>8, <1>9, <1>11, <1>12 DEF Worker

LEMMA TailStep == TailInv /\ [Next]_vars => TailInv'
<1> SUFFICES ASSUME TailInv, [Next]_vars
             PROVE  TailInv'
  OBVIOUS
<1>1. TypeInv' /\ SortInv' /\ Held'
  BY TypeStep, SortStep, HeldStep DEF TailInv
<1>2. ASSUME NEW d \in Days, NEW p \in NewTurns(d)'
      PROVE  Safe(d, p)'
  <2>1. CASE \E t \in Callers : Continues(t) \/ CallEnds(t)
    BY <1>2, <2>1, TailOfCalls
  <2>2. CASE \E w \in Workers : Worker(w) \/ CrashHost(w)
    BY <1>2, <2>2, TailOfWorker
  <2>3. CASE \/ \E c \in Clients : AppendTurn(c) \/ Extract(c) \/ ForceResets(c)
             \/ \E t \in Callers : CloseSession(t)
             \/ \E h \in Hosts : IdleElapses(h)
             \/ QueueTime
             \/ UNCHANGED vars
    BY <1>2, <2>3, TailOfClients
  <2> QED
    BY <2>1, <2>2, <2>3 DEF Next, Client, Scans, Callers, Hosts
<1> QED
  BY <1>1, <1>2 DEF TailInv, TailKept

\* A turn past the cursor has a job that will run or runs, or a call that will queue one,
\* whatever hosts share the database and wherever calls die, unless its day was dropped
\* (memory_add_turn, enqueue, dequeue, mark_done, mark_failed, recover_expired_leases).
THEOREM TailStaysQueued == Spec => []TailIsQueued
<1>1. TailInv => TailIsQueued
  BY DEF TailInv, TailKept, Safe, Covers, TailIsQueued
<1> QED
  BY <1>1, TailInitially, TailStep, PTL DEF Spec

-----------------------------------------------------------------------------
(* The session's log. *)

\* The log of n turns.
Counted(n) == [k \in 1 .. n |-> k]

\* b[d] is how many turns the day-files up to d have: each goes on where the ones before
\* it end, and nothing comes after the last that has turns.
Starts(b) ==
  /\ b \in [0 .. Last(Days) -> Nat]
  /\ b[0] = 0
  /\ \A d \in 1 .. Last(Days) :
       b[d] = b[d - 1] + (IF d \in Days THEN Len(file[d].turns) ELSE 0)
  /\ \A d \in Days : \A p \in Positions(d) : file[d].turns[p] = b[d - 1] + p
  /\ \A d \in 0 .. Last(Days) :
       (\A e \in Days : file[e].turns # <<>> => e <= d) => b[d] = Highest

Numbered == \E b \in [0 .. Last(Days) -> Nat] : Starts(b)

\* The last of all days.
LEMMA LastOfDays ==
  /\ Last(Days) \in Days /\ Last(Days) \in Nat \ {0}
  /\ \A d \in Days : d \in 1 .. Last(Days) /\ d - 1 \in 0 .. Last(Days)
<1>1. Days \in SUBSET Nat /\ Days # {} /\ IsFiniteSet(Days)
  BY ConversationAssumption
<1>2. Last(Days) \in Days /\ \A d \in Days : d <= Last(Days)
  BY <1>1, LastIsGreatest
<1>3. \A d \in Days : d \in Nat \ {0}
  BY ConversationAssumption
<1> QED
  BY <1>2, <1>3

\* A log goes on with the turns of a day-file that is numbered on.
LEMMA CountedOn ==
  ASSUME NEW n \in Nat, NEW s \in Seq(Nat), \A p \in 1 .. Len(s) : s[p] = n + p
  PROVE  Counted(n) \o s = Counted(n + Len(s))
<1>1. Counted(n) \in Seq(Nat) /\ Len(Counted(n)) = n
  BY DEF Counted
<1>2. /\ Counted(n) \o s \in Seq(Nat) /\ Len(Counted(n) \o s) = n + Len(s)
      /\ Counted(n + Len(s)) \in Seq(Nat) /\ Len(Counted(n + Len(s))) = n + Len(s)
  BY <1>1 DEF Counted
<1>3. ASSUME NEW k \in 1 .. n + Len(s)
      PROVE  (Counted(n) \o s)[k] = Counted(n + Len(s))[k]
  <2>1. CASE k <= n
    BY <1>1, <2>1 DEF Counted
  <2>2. CASE k > n
    <3>1. k - n \in 1 .. Len(s) /\ (Counted(n) \o s)[k] = s[k - n]
      BY <1>1, <2>2
    <3>2. s[k - n] = n + (k - n)
      BY <3>1
    <3> QED
      BY <3>1, <3>2 DEF Counted
  <2>3. k <= n \/ k > n
    <3>1. k \in Int /\ n \in Int
      OBVIOUS
    <3> QED
      BY <3>1
  <2> QED
    BY <2>1, <2>2, <2>3
<1> DEFINE a == Counted(n) \o s
           c == Counted(n + Len(s))
<1>4. /\ a \in Seq(Nat) /\ c \in Seq(Nat) /\ Len(a) = Len(c)
      /\ \A k \in 1 .. Len(a) : a[k] = c[k]
  BY <1>2, <1>3
<1> HIDE DEF a, c
<1>5. a = c
  BY <1>4
<1> QED
  BY <1>5 DEF a, c

\* The day-files one after the other are the log of all turns: that is what the recursive
\* definition says, and nothing else is.
LEMMA ConcatenatedIs ==
  ASSUME TypeInv, Numbered
  PROVE  Concatenated[Last(Days)] = Counted(Highest) /\ Highest \in Nat
<1> DEFINE N == Last(Days)
           turns(d) == IF d \in Days THEN file[d].turns ELSE <<>>
           Def(f) == f = [d \in 0 .. N |-> IF d = 0 THEN <<>> ELSE f[d - 1] \o turns(d)]
<1>1. PICK b \in [0 .. N -> Nat] : Starts(b)
  BY DEF Numbered
<1>2. N \in Nat
  BY LastOfDays
<1>3. ASSUME NEW d \in 1 .. N
      PROVE  Counted(b[d - 1]) \o turns(d) = Counted(b[d]) /\ d - 1 \in 0 .. N
  <2>1. d - 1 \in 0 .. N
    BY <1>2
  <2>2. b[d - 1] \in Nat
    BY <2>1
  <2>3. turns(d) \in Seq(Nat) /\ b[d] = b[d - 1] + Len(turns(d))
    BY <1>1, Typing DEF Starts
  <2>4. \A p \in 1 .. Len(turns(d)) : turns(d)[p] = b[d - 1] + p
    <3>1. CASE d \in Days
      <4>1. turns(d) = file[d].turns /\ Positions(d) = 1 .. Len(file[d].turns)
        BY <3>1, Typing
      <4>2. \A p \in Positions(d) : file[d].turns[p] = b[d - 1] + p
        BY <1>1, <3>1 DEF Starts
      <4> QED
        BY <4>1, <4>2
    <3>2. CASE d \notin Days
      <4>1. 1 .. Len(turns(d)) = {}
        BY <3>2
      <4> QED
        BY <4>1
    <3> QED
      BY <3>1, <3>2
  <2> HIDE DEF turns, N
  <2> QED
    BY <2>1, <2>2, <2>3, <2>4, CountedOn
<1>4. Counted(b[0]) = <<>>
  BY <1>1 DEF Starts, Counted
<1>5. \E f : Def(f)
  <2> DEFINE h == [d \in 0 .. N |-> Counted(b[d])]
  <2>1. \A d \in 0 .. N : h[d] = IF d = 0 THEN <<>> ELSE h[d - 1] \o turns(d)
    <3> HIDE DEF turns
    <3>1. ASSUME NEW d \in 0 .. N, d # 0
          PROVE  h[d] = h[d - 1] \o turns(d)
      <4>1. d \in 1 .. N /\ d - 1 \in 0 .. N
        BY <1>2, <3>1
      <4> QED
        BY <1>3, <4>1
    <3> QED
      BY <1>2, <1>4, <3>1
  <2>2. Def(h)
    <3> HIDE DEF turns, N
    <3>1. h = [d \in 0 .. N |-> h[d]]
      OBVIOUS
    <3> HIDE DEF h
    <3> QED
      BY <2>1, <3>1
  <2> QED
    BY <2>2
<1>6. Def(Concatenated)
  BY <1>5 DEF Concatenated
<1>7. \A d \in 0 .. N : Concatenated[d] = Counted(b[d])
  <2> DEFINE S == {d \in 0 .. N : Concatenated[d] # Counted(b[d])}
  <2>0. ASSUME NEW d \in 0 .. N
        PROVE  Concatenated[d] = IF d = 0 THEN <<>> ELSE Concatenated[d - 1] \o turns(d)
    <3> DEFINE C == Concatenated
    <3>1. Def(C)
      BY <1>6
    <3> HIDE DEF C, turns, N
    <3>2. C[d] = IF d = 0 THEN <<>> ELSE C[d - 1] \o turns(d)
      BY <3>1
    <3> QED
      BY <3>2 DEF C
  <2> SUFFICES ASSUME S # {} PROVE FALSE
    OBVIOUS
  <2>1. S \in SUBSET Nat /\ IsFiniteSet(S)
    <3>1. IsFiniteSet(0 .. N)
      BY <1>2, FS_Interval
    <3>2. S \in SUBSET (0 .. N)
      OBVIOUS
    <3> HIDE DEF S, N
    <3> QED
      <4>1. IsFiniteSet(S)
        BY <3>1, <3>2, FS_Subset
      <4>2. 0 .. N \subseteq Nat
        BY <1>2
      <4> QED
        BY <3>2, <4>1, <4>2
  <2>2. PICK d \in S : \A e \in S : d <= e
    <3> HIDE DEF S
    <3> QED
      BY <2>1, LeastExists
  <2>3. d \in 0 .. N /\ Concatenated[d] # Counted(b[d])
    OBVIOUS
  <2>4. d # 0
    BY <1>2, <1>4, <2>0, <2>3
  <2>5. d \in 1 .. N /\ d - 1 \in 0 .. N /\ ~(d <= d - 1)
    BY <1>2, <2>3, <2>4
  <2>6. Concatenated[d - 1] = Counted(b[d - 1])
    BY <2>2, <2>5
  <2>7. Concatenated[d] = Concatenated[d - 1] \o turns(d)
    BY <2>0, <2>3, <2>4
  <2> HIDE DEF turns
  <2> QED
    BY <1>3, <2>3, <2>5, <2>6, <2>7
<1>8. b[N] = Highest /\ b[N] \in Nat /\ N \in 0 .. N
  <2>1. N \in 0 .. N
    BY <1>2
  <2>2. \A e \in Days : e <= N
    BY <1>2, LastOfDays
  <2> QED
    BY <1>1, <2>1, <2>2 DEF Starts
<1> QED
  BY <1>7, <1>8

LEMMA NumberedInitially == Init => Numbered
<1> SUFFICES ASSUME Init PROVE Numbered
  OBVIOUS
<1> DEFINE b == [d \in 0 .. Last(Days) |-> 0]
<1>1. \A d \in Days : file[d].turns = <<>>
  BY DEF Init, NoFile
<1>2. Highest = 0
  BY DEF Init, Highest
<1>3. \A d \in 1 .. Last(Days) : d \in 0 .. Last(Days) /\ d - 1 \in 0 .. Last(Days)
  BY LastOfDays
<1>4. b[0] = 0
  BY LastOfDays
<1>5. \A d \in 1 .. Last(Days) : b[d] = b[d - 1] + (IF d \in Days THEN Len(file[d].turns) ELSE 0)
  BY <1>1, <1>3
<1> HIDE DEF b
<1>6. b \in [0 .. Last(Days) -> Nat] /\ \A d \in 0 .. Last(Days) : b[d] = 0
  BY DEF b
<1>7. Starts(b)
  BY <1>1, <1>2, <1>4, <1>5, <1>6 DEF Starts, Positions
<1> QED
  BY <1>6, <1>7 DEF Numbered

\* memory_add_turn numbers its turn on.
LEMMA NumberedOn ==
  ASSUME TypeInv, LogInv, Numbered, NEW c \in Clients, AppendTurn(c)
  PROVE  Numbered' /\ Highest' = Highest + 1 /\ Highest \in Nat
<1> DEFINE N == Last(Days)
<1>1. PICK d \in Days :
        /\ \A e \in Existing : e <= d
        /\ file'[d].turns = Append(file[d].turns, Snapshot.max + 1)
        /\ \A e \in Days \ {d} : file'[e] = file[e]
        /\ call'[c].pc = "appended" /\ call'[c].max = Snapshot.max + 1
  BY Appending
<1>2. Highest = Snapshot.max /\ Highest' = Snapshot.max + 1 /\ Highest \in Nat
  <2>1. lock = None /\ lock' = c /\ c \in Callers /\ None \notin Callers
    BY ConversationAssumption, QueueAssumption DEF AppendTurn, Callers, Hosts
  <2>2. Snapshot.max = IF cache = None THEN 0 ELSE cache.max
    BY DEF Snapshot, Scanned, TypeInv, FilesCached
  <2> QED
    BY <1>1, <2>1, <2>2, Typing DEF Highest, Cache
<1>3. PICK b \in [0 .. N -> Nat] : Starts(b)
  BY DEF Numbered
<1> DEFINE L == Len(file[d].turns)
           new == [e \in 0 .. N |-> IF e < d THEN b[e] ELSE b[e] + 1]
<1>4. /\ N \in Nat /\ d \in 1 .. N /\ d \in 0 .. N /\ d - 1 \in 0 .. N /\ 0 \in 0 .. N
      /\ \A e \in Days : e \in 1 .. N /\ e - 1 \in 0 .. N
  BY LastOfDays
<1>5. L \in Nat /\ Positions(d) = 1 .. L
  BY Typing
<1>6. /\ DOMAIN file'[d].turns = 1 .. L + 1 /\ Len(file'[d].turns) = L + 1
      /\ file'[d].turns[L + 1] = Highest + 1
      /\ \A p \in 1 .. L : file'[d].turns[p] = file[d].turns[p]
  <2>1. file[d].turns \in Seq(Nat) /\ Snapshot.max + 1 \in Nat
    BY <1>2, Typing
  <2> HIDE DEF Snapshot
  <2> QED
    BY <1>1, <1>2, <2>1
<1>7. \A e \in Days : file[e].turns # <<>> => e <= d
  BY <1>1 DEF TypeInv, FilesCached, Existing
<1>8. b[d] = Highest /\ b[d] = b[d - 1] + L
  BY <1>3, <1>4, <1>7 DEF Starts
<1>9. \A e \in 0 .. N : new[e] = (IF e < d THEN b[e] ELSE b[e] + 1) /\ b[e] \in Nat
  BY <1>3
<1>10. new \in [0 .. N -> Nat]
  <2>1. \A e \in 0 .. N : b[e] \in Nat
    BY <1>3
  <2> QED
    BY <2>1
<1> HIDE DEF new, L, N
<1>11. new[0] = 0
  BY <1>3, <1>4, <1>9 DEF Starts, N
<1>12. ASSUME NEW e \in 1 .. N
       PROVE  new[e] = new[e - 1] + (IF e \in Days THEN Len(file'[e].turns) ELSE 0)
  <2>1. e \in 0 .. N /\ e - 1 \in 0 .. N /\ e \in Nat /\ d \in Nat
    BY <1>4
  <2>2. b[e] = b[e - 1] + (IF e \in Days THEN Len(file[e].turns) ELSE 0)
    BY <1>3 DEF Starts, N
  <2>3. e \in Days => Len(file[e].turns) \in Nat
    BY Typing
  <2>4. CASE e < d
    <3>1. e - 1 < d /\ e # d
      BY <2>1, <2>4
    <3> QED
      BY <1>1, <1>9, <2>1, <2>2, <2>4, <3>1
  <2>5. CASE e = d
    <3>1. ~(d < d) /\ d - 1 < d
      BY <2>1
    <3>2. new[d] = b[d] + 1 /\ new[d - 1] = b[d - 1] /\ b[d - 1] \in Nat
      BY <1>4, <1>9, <3>1
    <3> QED
      BY <1>5, <1>6, <1>8, <2>5, <3>2
  <2>6. CASE e > d
    <3>1. ~(e < d) /\ ~(e - 1 < d) /\ e # d
      BY <2>1, <2>6
    <3>2. new[e] = b[e] + 1 /\ new[e - 1] = b[e - 1] + 1 /\ b[e - 1] \in Nat
      BY <1>9, <2>1, <3>1
    <3> DEFINE l == IF e \in Days THEN Len(file[e].turns) ELSE 0
    <3>3. l \in Nat /\ l = IF e \in Days THEN Len(file'[e].turns) ELSE 0
      BY <1>1, <2>3, <3>1
    <3>4. b[e] = b[e - 1] + l
      BY <2>2
    <3> HIDE DEF l
    <3>5. new[e] = new[e - 1] + l
      BY <3>2, <3>3, <3>4
    <3> QED
      BY <3>3, <3>5
  <2> QED
    BY <2>1, <2>4, <2>5, <2>6
<1>13. ASSUME NEW e \in Days, NEW p \in DOMAIN file'[e].turns
       PROVE  file'[e].turns[p] = new[e - 1] + p
  <2>1. CASE e = d
    <3>1. new[d - 1] = b[d - 1] /\ b[d - 1] \in Nat
      BY <1>4, <1>9
    <3>2. CASE p = L + 1
      BY <1>5, <1>6, <1>8, <2>1, <3>1, <3>2
    <3>3. CASE p # L + 1
      <4>1. p \in 1 .. L
        BY <1>5, <1>6, <1>13, <2>1, <3>3
      <4>2. file[d].turns[p] = b[d - 1] + p
        BY <1>3, <1>5, <4>1 DEF Starts
      <4> QED
        BY <1>6, <2>1, <3>1, <4>1, <4>2
    <3> QED
      BY <3>2, <3>3
  <2>2. CASE e # d
    <3>1. file'[e] = file[e] /\ p \in Positions(e)
      BY <1>1, <1>13, <2>2 DEF Positions
    <3>2. file[e].turns # <<>>
      BY <3>1 DEF Positions
    <3>3. e <= d /\ e - 1 \in 0 .. N
      BY <1>4, <1>7, <3>2
    <3>4. e - 1 < d
      BY <1>4, <3>3
    <3>5. file[e].turns[p] = b[e - 1] + p
      BY <1>3, <3>1 DEF Starts
    <3> QED
      BY <1>9, <3>1, <3>3, <3>4, <3>5
  <2> QED
    BY <2>1, <2>2
<1>14. ASSUME NEW e \in 0 .. N, \A x \in Days : file'[x].turns # <<>> => x <= e
       PROVE  new[e] = Highest + 1
  <2>1. file'[d].turns # <<>>
    BY <1>5, <1>6
  <2>2. d <= e
    BY <1>14, <2>1
  <2>3. \A x \in Days : file[x].turns # <<>> => x <= e
    BY <1>1, <1>14, <2>2
  <2>4. b[e] = Highest
    BY <1>3, <2>3 DEF Starts, N
  <2>5. ~(e < d)
    BY <1>4, <2>2
  <2> QED
    BY <1>9, <2>4, <2>5
<1>15. Starts(new)'
  BY <1>2, <1>10, <1>11, <1>12, <1>13, <1>14 DEF Starts, N, Positions
<1> QED
  BY <1>2, <1>10, <1>15 DEF Numbered, N

\* Every step leaves the turns numbered; the others write none.
LEMMA NumberedStep ==
  ASSUME TypeInv, LogInv, Numbered, "appended" \notin Partial, [Next]_vars
  PROVE  Numbered'
<1>1. CASE \E c \in Clients : AppendTurn(c)
  BY <1>1, NumberedOn
<1>2. CASE \A c \in Clients : ~AppendTurn(c)
  <2>1. Highest' = Highest /\ \A d \in Days : file'[d].turns = file[d].turns
    BY <1>2, Settled DEF LogInv
  <2>2. PICK b \in [0 .. Last(Days) -> Nat] : Starts(b)
    BY DEF Numbered
  <2>3. Starts(b)'
    BY <2>1, <2>2 DEF Starts, Positions
  <2> QED
    BY <2>2, <2>3 DEF Numbered
<1> QED
  BY <1>1, <1>2

\* The session is closed; and its row of conversation_sessions says so, or will.
IsClosed == Existing # {} /\ file[Last(Existing)].status = "closed"
ClosedKnown ==
  /\ IsClosed => \/ \E t \in Callers : call[t].pc = "closing"
                 \/ cache # None /\ cache.status = "closed"
  /\ \A t \in Callers : call[t].pc = "appended" => ~IsClosed

\* A day-file that exists has turns.
Filled == \A d \in Existing : file[d].turns # <<>>

LogKept == TypeInv /\ LogInv /\ Numbered /\ ClosedKnown /\ Filled

LEMMA LastExisting ==
  ASSUME NEW E \in SUBSET Days, E # {}
  PROVE  Last(E) \in E /\ \A e \in E : e <= Last(E)
<1>1. E \in SUBSET Nat /\ IsFiniteSet(E)
  BY ConversationAssumption, FS_Subset
<1> QED
  BY <1>1, LastIsGreatest

\* Only the two calls of a client or supervisor write the status of a day-file.
LEMMA StatusStays ==
  ASSUME TypeInv, [Next]_vars, \A c \in Clients : ~AppendTurn(c),
         \A t \in Callers : ~CloseSession(t)
  PROVE  /\ \A d \in Days : file'[d].status = file[d].status
         /\ Existing' = Existing /\ IsClosed' = IsClosed
<1>1. file \in [Days -> File]
  BY DEF TypeInv, TypeOK
<1>2. ASSUME NEW c \in Clients, ForceResets(c)
      PROVE  \A d \in Days : file'[d].status = file[d].status
  <2>1. file' = [d \in Days |-> [file[d] EXCEPT !.cursor = 0]]
    BY <1>2 DEF ForceResets
  <2> QED
    BY <1>1, <2>1 DEF File
<1>3. ASSUME NEW w \in Workers, AdvanceCursor(w)
      PROVE  \A d \in Days : file'[d].status = file[d].status
  BY <1>3, Advancing
<1>4. UNCHANGED file => \A d \in Days : file'[d].status = file[d].status
  OBVIOUS
<1>5. \/ UNCHANGED file
      \/ \E c \in Clients : ForceResets(c)
      \/ \E w \in Workers : AdvanceCursor(w)
  BY Typing DEF Next, Client, Continues, Scans, Worker, QueueTime, Extract, AppendCaches,
     AddEnqueues, ForceEnqueues, CloseCaches, CloseEnqueues, CallEnds, ClaimNextJob,
     PlanWindows, CannotRead, ExtractWindow, FinishJob, FailJob, CrashHost, IdleElapses, vars,
     capture
<1>6. \A d \in Days : file'[d].status = file[d].status
  BY <1>2, <1>3, <1>4, <1>5
<1>7. Existing' = Existing
  BY <1>6 DEF Existing
<1>8. Existing # {} => Last(Existing) \in Days
  BY LastExisting DEF Existing
<1> QED
  BY <1>6, <1>7, <1>8 DEF IsClosed

\* A turn goes to the last day-file, which is open then.
LEMMA AppendOpens ==
  ASSUME LogKept, NEW c \in Clients, AppendTurn(c)
  PROVE  ~IsClosed /\ ~IsClosed' /\ ClosedKnown' /\ Filled'
<1>1. PICK d \in Days :
        /\ \A e \in Existing : e <= d
        /\ ~Refused(d)
        /\ file'[d].turns = Append(file[d].turns, Snapshot.max + 1)
        /\ file'[d].status = "open"
        /\ \A e \in Days \ {d} : file'[e] = file[e]
        /\ call'[c].pc = "appended"
        /\ \A t \in Callers \ {c} : call'[t] = call[t]
  BY Appending DEF LogKept
<1>2. lock = None /\ None \notin Callers
  BY ConversationAssumption, QueueAssumption DEF AppendTurn, Callers, Hosts
<1>3. \A t \in Callers : call[t].pc \notin {"appended", "closing"}
  BY <1>2 DEF LogKept, LogInv, LockHeld
<1>4. ~IsClosed
  <2> SUFFICES ASSUME IsClosed PROVE FALSE
    OBVIOUS
  <2>1. cache # None /\ cache.status = "closed"
    BY <1>3 DEF LogKept, ClosedKnown
  <2>2. Snapshot.status = "closed"
    BY <2>1 DEF Snapshot
  <2>3. d \in Existing /\ file[d].status # "closed"
    BY <1>1, <2>2 DEF Refused, Existing
  <2>4. Last(Existing) \in Existing /\ \A e \in Existing : e <= Last(Existing)
    BY <2>3, LastExisting DEF Existing
  <2>5. Last(Existing) = d
    <3>1. Last(Existing) <= d /\ d <= Last(Existing) /\ Last(Existing) \in Nat /\ d \in Nat
      BY <1>1, <2>3, <2>4, ConversationAssumption DEF Existing
    <3> QED
      BY <3>1
  <2> QED
    BY <2>3, <2>5 DEF IsClosed
<1>5. Existing' = Existing \cup {d}
  BY <1>1 DEF Existing
<1>6. Last(Existing \cup {d}) = d
  <2> DEFINE E == Existing \cup {d}
  <2>1. E \in SUBSET Days /\ d \in E /\ \A e \in E : e <= d
    BY <1>1, ConversationAssumption DEF Existing
  <2> HIDE DEF E
  <2>2. Last(E) \in E /\ d <= Last(E)
    BY <2>1, LastExisting
  <2>3. Last(E) <= d /\ Last(E) \in Nat /\ d \in Nat
    BY <2>1, <2>2, ConversationAssumption
  <2>4. Last(E) = d
    BY <2>2, <2>3
  <2> QED
    BY <2>4 DEF E
<1>7. ~IsClosed'
  BY <1>1, <1>5, <1>6 DEF IsClosed
<1>8. ClosedKnown'
  BY <1>1, <1>3, <1>7 DEF ClosedKnown
<1>9. Filled'
  <2>1. file[d].turns \in Seq(Nat) /\ Snapshot.max + 1 \in Nat
    BY Typing DEF LogKept, Cache
  <2>2. file'[d].turns # <<>>
    BY <1>1, <2>1
  <2> QED
    BY <1>1, <1>5, <2>2 DEF LogKept, Filled, Existing
<1> QED
  BY <1>4, <1>7, <1>8, <1>9

\* A close closes the last day-file, or finds it closed.
LEMMA CloseCloses ==
  ASSUME LogKept, NEW t \in Callers, CloseSession(t)
  PROVE  ClosedKnown' /\ Filled' /\ IsClosed' /\ Existing # {}
<1> DEFINE d == Last(Existing)
<1>1. /\ \A e \in Days : /\ file'[e].turns = file[e].turns
                         /\ file[e].status = "absent" <=> file'[e].status = "absent"
      /\ call[t].pc = "idle" /\ lock = None
      /\ \A u \in Callers \ {t} : call'[u] = call[u]
  BY Closing DEF LogKept
<1>2. Existing # {} /\ d \in Existing /\ d \in Days
  BY LastExisting DEF CloseSession, Existing
<1>3. Existing' = Existing
  BY <1>1 DEF Existing
<1>4. cache' = cache
  BY DEF CloseSession
<1>5. file \in [Days -> File] /\ call \in [Callers -> Call]
  BY DEF LogKept, TypeInv, TypeOK
<1>6. \/ /\ file' = [file EXCEPT ![d].status = "closed"]
         /\ call' = [call EXCEPT ![t].pc = "closing", ![t].day = d]
      \/ /\ file[d].status = "closed" /\ file' = file
         /\ call' = IF t \in Hosts THEN [call EXCEPT ![t].pc = "closed", ![t].day = d] ELSE call
  BY DEF CloseSession
<1>7. file'[d].status = "closed"
  <2> HIDE DEF d
  <2> QED
    BY <1>2, <1>5, <1>6 DEF File
<1>8. IsClosed'
  BY <1>2, <1>3, <1>7 DEF IsClosed
<1>9. Filled'
  BY <1>1, <1>3 DEF LogKept, Filled, Existing
<1> HIDE DEF d
<1>10. call'[t].pc # "appended"
  BY <1>1, <1>5, <1>6 DEF Call
<1>11. \A u \in Callers : call'[u].pc # "appended"
  <2>1. None \notin Callers
    BY ConversationAssumption, QueueAssumption DEF Callers, Hosts
  <2>2. \A u \in Callers : call[u].pc # "appended"
    BY <1>1, <2>1 DEF LogKept, LogInv, LockHeld
  <2> QED
    BY <1>1, <1>10, <2>2
<1>12. (\E u \in Callers : call[u].pc = "closing") => \E u \in Callers : call'[u].pc = "closing"
  BY <1>1
<1>13. CASE file' = [file EXCEPT ![d].status = "closed"] /\ call' = [call EXCEPT ![t].pc = "closing", ![t].day = d]
  <2>1. call'[t].pc = "closing"
    BY <1>5, <1>13 DEF Call
  <2> QED
    BY <1>2, <1>8, <1>9, <1>11, <2>1 DEF ClosedKnown
<1>14. CASE file[d].status = "closed"
  <2>1. IsClosed
    BY <1>2, <1>14 DEF IsClosed, d
  <2>2. ClosedKnown'
    BY <1>4, <1>11, <1>12, <2>1 DEF LogKept, ClosedKnown
  <2> QED
    BY <1>2, <1>8, <1>9, <2>2
<1> QED
  BY <1>6, <1>13, <1>14

\* The other steps leave a closed session closed, and an open one open.
LEMMA RestStaysClosed ==
  ASSUME LogKept, "closing" \notin Partial, "appended" \notin Partial, [Next]_vars,
         \A c \in Clients : ~AppendTurn(c), \A t \in Callers : ~CloseSession(t)
  PROVE  ClosedKnown' /\ Filled' /\ IsClosed' = IsClosed
<1>1. /\ \A d \in Days : file'[d].turns = file[d].turns
      /\ Existing' = Existing /\ IsClosed' = IsClosed
  BY Settled, StatusStays DEF LogKept, LogInv
<1>2. Filled'
  BY <1>1 DEF LogKept, Filled, Existing
<1>3. call \in [Callers -> Call]
  BY DEF LogKept, TypeInv, TypeOK
<1>4. ASSUME NEW t \in Callers, AppendCaches(t)
      PROVE  ClosedKnown'
  BY <1>1, <1>4 DEF AppendCaches, LogKept, ClosedKnown
<1>5. ASSUME NEW t \in Callers, CloseCaches(t)
      PROVE  ClosedKnown'
  <2>1. /\ cache' = [Snapshot EXCEPT !.status = "closed"]
        /\ call' = [call EXCEPT ![t].pc = "closed"]
    BY <1>5 DEF CloseCaches
  <2>2. cache' # None /\ cache'.status = "closed"
    <3>1. cache' \in Cache /\ cache'.status = "closed"
      BY <2>1, Typing DEF LogKept, Cache, FileStatus
    <3> QED
      BY <3>1, Typing DEF LogKept
  <2>3. \A u \in Callers : call'[u].pc = "appended" => call[u].pc = "appended"
    BY <1>3, <2>1 DEF Call
  <2> QED
    BY <1>1, <2>2, <2>3 DEF LogKept, ClosedKnown
<1>6. ASSUME cache' = cache,
             \A u \in Callers : /\ call[u].pc = "closing" => call'[u].pc = "closing"
                                /\ call'[u].pc = "appended" => call[u].pc = "appended"
      PROVE  ClosedKnown'
  BY <1>1, <1>6 DEF LogKept, ClosedKnown
<1>7. ASSUME NEW t \in Callers,
             CallEnds(t) \/ AddEnqueues(t) \/ ForceEnqueues(t) \/ CloseEnqueues(t)
      PROVE  ClosedKnown'
  <2>1. cache' = cache /\ call[t].pc # "closing"
    BY <1>7 DEF CallEnds, AddEnqueues, ForceEnqueues, CloseEnqueues
  <2>2. /\ call'[t].pc # "appended"
        /\ \A u \in Callers \ {t} : call'[u] = call[u]
    BY <1>3, <1>7 DEF CallEnds, AddEnqueues, ForceEnqueues, CloseEnqueues, Quiet, Call
  <2> QED
    BY <1>6, <2>1, <2>2
<1>8. ASSUME NEW c \in Clients, ForceResets(c)
      PROVE  ClosedKnown'
  <2>1. /\ cache' = cache /\ call[c].pc = "idle" /\ c \in Callers
        /\ call' = [call EXCEPT ![c].pc = "reset", ![c].todo = Existing]
    BY <1>8, Typing DEF ForceResets, LogKept
  <2>2. call'[c].pc = "reset" /\ \A u \in Callers \ {c} : call'[u] = call[u]
    BY <1>3, <2>1 DEF Call
  <2> QED
    BY <1>6, <2>1, <2>2
<1>9. CASE UNCHANGED <<cache, call>>
  BY <1>1, <1>2, <1>6, <1>9
<1>10. \/ UNCHANGED <<cache, call>>
       \/ \E t \in Callers : AppendCaches(t) \/ CloseCaches(t) \/ CallEnds(t) \/ AddEnqueues(t)
                             \/ ForceEnqueues(t) \/ CloseEnqueues(t)
       \/ \E c \in Clients : ForceResets(c)
  BY Typing DEF Next, Client, Continues, Scans, Worker, QueueTime, Extract, ClaimNextJob,
     PlanWindows, CannotRead, ExtractWindow, AdvanceCursor, FinishJob, FailJob, CrashHost,
     IdleElapses, vars, capture, LogKept
<1> QED
  BY <1>1, <1>2, <1>4, <1>5, <1>7, <1>8, <1>9, <1>10

LEMMA LogKeptStep ==
  ASSUME LogKept, "closing" \notin Partial, "appended" \notin Partial, [Next]_vars
  PROVE  LogKept'
<1>1. TypeInv' /\ LogInv' /\ Numbered'
  BY TypeStep, LogStep, NumberedStep DEF LogKept
<1>2. CASE \E c \in Clients : AppendTurn(c)
  BY <1>1, <1>2, AppendOpens DEF LogKept
<1>3. CASE \E t \in Callers : CloseSession(t)
  BY <1>1, <1>3, CloseCloses DEF LogKept
<1>4. CASE ~(\E c \in Clients : AppendTurn(c)) /\ ~(\E t \in Callers : CloseSession(t))
  BY <1>1, <1>4, RestStaysClosed DEF LogKept
<1> QED
  BY <1>2, <1>3, <1>4

\* What the log is, in this state and in the next.
LEMMA LogIs ==
  TypeInv /\ Numbered => Concatenated[Last(Days)] = Counted(Highest) /\ Highest \in Nat
BY ConcatenatedIs

LEMMA LogWillBe ==
  (TypeInv /\ Numbered)' => (Concatenated[Last(Days)] = Counted(Highest) /\ Highest \in Nat)'
BY LogIs, PTL

\* One more turn.
LEMMA CountedNext ==
  ASSUME NEW n \in Nat
  PROVE  Counted(n + 1) = Append(Counted(n), Len(Counted(n)) + 1)
<1>1. <<n + 1>> \in Seq(Nat) /\ Len(<<n + 1>>) = 1 /\ <<n + 1>>[1] = n + 1
  OBVIOUS
<1>2. \A p \in 1 .. Len(<<n + 1>>) : <<n + 1>>[p] = n + p
  BY <1>1
<1>3. Counted(n) \o <<n + 1>> = Counted(n + 1)
  BY <1>1, <1>2, CountedOn
<1>4. Counted(n) \in Seq(Nat) /\ Len(Counted(n)) = n
  BY DEF Counted
<1> DEFINE a == Counted(n)
<1> HIDE DEF a
<1>5. a \o <<n + 1>> = Append(a, n + 1)
  BY <1>4 DEF a
<1> QED
  BY <1>3, <1>4, <1>5 DEF a

\* A session with a day-file has turns.
LEMMA SomeTurn ==
  ASSUME LogKept, Existing # {}
  PROVE  Counted(Highest) # <<>>
<1>1. PICK d \in Existing : TRUE
  OBVIOUS
<1>2. d \in Days /\ Len(file[d].turns) \in Nat \ {0}
  <2>1. d \in Days /\ file[d].turns # <<>> /\ file[d].turns \in Seq(Nat)
    BY <1>1, Typing DEF LogKept, Filled, Existing
  <2> QED
    BY <2>1
<1>3. PICK b \in [0 .. Last(Days) -> Nat] : Starts(b)
  BY DEF LogKept, Numbered
<1>4. /\ file[d].turns[1] = b[d - 1] + 1 /\ b[d - 1] \in Nat /\ 1 \in Positions(d)
  BY <1>2, <1>3, LastOfDays DEF Starts, Positions
<1>5. Highest \in Nat /\ file[d].turns[1] <= Highest
  BY <1>2, <1>4, LogIs DEF LogKept, LogInv, Bounded
<1>6. Highest # 0
  BY <1>4, <1>5
<1>7. Len(Counted(Highest)) = Highest
  BY <1>5 DEF Counted
<1> QED
  BY <1>6, <1>7

\* A step appends the next turn to an open log, closes a log that has turns, or leaves it.
LEMMA StepLogs ==
  ASSUME LogKept, "closing" \notin Partial, "appended" \notin Partial, [Next]_vars
  PROVE  [Log!Next]_<<Concatenated[Last(Days)], IsClosed>>
<1> DEFINE log == Concatenated[Last(Days)]
<1>1. log = Counted(Highest) /\ Highest \in Nat
  BY LogIs DEF LogKept
<1>2. log' = Counted(Highest')
  BY LogKeptStep, LogWillBe DEF LogKept
<1>3. CASE \E c \in Clients : AppendTurn(c)
  <2>1. Highest' = Highest + 1 /\ ~IsClosed /\ ~IsClosed'
    BY <1>3, NumberedOn, AppendOpens DEF LogKept
  <2>2. log' = Append(log, Len(log) + 1)
    BY <1>1, <1>2, <2>1, CountedNext
  <2>3. Log!AppendTurn
    BY <2>1, <2>2 DEF Log!AppendTurn, IsClosed
  <2> QED
    BY <2>3 DEF Log!Next
<1>4. CASE /\ \A c \in Clients : ~AppendTurn(c)
           /\ \E t \in Callers : CloseSession(t)
  <2>1. Highest' = Highest
    BY <1>4, Settled DEF LogKept, LogInv
  <2>2. IsClosed' /\ Existing # {}
    BY <1>4, CloseCloses
  <2>3. log' = log /\ log # <<>>
    BY <1>1, <1>2, <2>1, <2>2, SomeTurn
  <2>4. Log!Close
    BY <2>2, <2>3 DEF Log!Close, IsClosed
  <2> QED
    BY <2>4 DEF Log!Next
<1>5. CASE /\ \A c \in Clients : ~AppendTurn(c)
           /\ \A t \in Callers : ~CloseSession(t)
  <2>1. Highest' = Highest
    BY <1>5, Settled DEF LogKept, LogInv
  <2>2. IsClosed' = IsClosed
    BY <1>5, RestStaysClosed
  <2>3. log' = log
    BY <1>1, <1>2, <2>1
  <2> QED
    BY <2>2, <2>3
<1> QED
  BY <1>3, <1>4, <1>5

\* The day-files of a session are one log, numbered 1, 2, 3, ... across days and clients,
\* that takes no turn once it is closed: turn capture implements SessionLog, for any
\* clients, hosts, workers, days and turns, whatever crashes and retries, and with --force,
\* as long as no call dies between its write of the day-file and that of the session's row.
THEOREM SessionIsOneLog ==
  ASSUME "closing" \notin Partial, "appended" \notin Partial
  PROVE  Spec => ImplementsSessionLog
<1>1. Init => LogKept
  <2>1. Init => ClosedKnown /\ Filled
    BY DEF Init, NoFile, ClosedKnown, IsClosed, Filled, Existing
  <2> QED
    BY <2>1, TypeInitially, LogInitially, NumberedInitially DEF LogKept
<1>2. Init => Log!Init
  <2> SUFFICES ASSUME Init PROVE Log!Init
    OBVIOUS
  <2>1. Highest = 0 /\ Existing = {}
    BY DEF Init, NoFile, Highest, Existing
  <2>2. Counted(0) = <<>>
    BY DEF Counted
  <2>3. Concatenated[Last(Days)] = <<>>
    BY <1>1, <2>1, <2>2, LogIs DEF LogKept
  <2> QED
    BY <2>1, <2>3 DEF Log!Init
<1>3. LogKept /\ [Next]_vars => LogKept'
  BY LogKeptStep
<1>4. LogKept /\ [Next]_vars => [Log!Next]_<<Concatenated[Last(Days)],
          Existing # {} /\ file[Last(Existing)].status = "closed">>
  BY StepLogs DEF IsClosed
<1> QED
  BY <1>1, <1>2, <1>3, <1>4, PTL DEF Spec, ImplementsSessionLog, Log!Spec
=============================================================================
