------------------------- MODULE PageIdentity_proofs -------------------------
(***************************************************************************)
(* Theorems about PageIdentity for any number of paths, pages, contents,   *)
(* edits and calls.  A pass is a chain of walks over the paths: what every *)
(* step of a walk keeps, the walk keeps (RunOfSteps), so each walk has a   *)
(* lemma for its step and a set of the values it may have come to by then. *)
(***************************************************************************)
EXTENDS PageIdentity, FiniteSetTheorems, WellFoundedInduction, TLAPS

-----------------------------------------------------------------------------
(* Walks. *)

\* What holds at first, and after each step if it held before it, holds throughout.
LEMMA Ascent ==
  ASSUME NEW n \in Nat, NEW S, 0 \in S,
         \A k \in 1 .. n : k - 1 \in S => k \in S
  PROVE  \A k \in 0 .. n : k \in S
<1> DEFINE T == {k \in 0 .. n : k \notin S}
           R == {ss \in Nat \X Nat : ss[1] < ss[2]}
<1>1. IsWellFoundedOn(R, Nat)
  BY NatLessThanWellFounded DEF OpToRel
<1> SUFFICES ASSUME T # {} PROVE FALSE
  OBVIOUS
<1>2. T \subseteq Nat
  OBVIOUS
<1>3. \E x \in T : \A y \in T : ~(<<y, x>> \in R)
  <2> HIDE DEF T, R
  <2> QED
    BY <1>1, <1>2, WFMin
<1>4. PICK x \in T : \A y \in T : ~(<<y, x>> \in R)
  BY <1>3
<1>5. x # 0 /\ x - 1 \in 0 .. n /\ x \in 1 .. n /\ x - 1 \in Nat /\ x \in Nat
  OBVIOUS
<1>6. x - 1 \in T
  BY <1>5
<1>7. <<x - 1, x>> \in R
  BY <1>5
<1> QED
  BY <1>4, <1>6, <1>7

\* The steps of a walk lead from each set to the next; h is where they come to.
StepsLead(n, G, next) == \A k \in 1 .. n : \A t \in G[k - 1] : next[k][t] \in G[k]
IsWalk(h, n, G, next, start) ==
  /\ h = [k \in 0 .. n |-> IF k = 0 THEN start ELSE next[k][h[k - 1]]]
  /\ \A k \in 0 .. n : h[k] \in G[k]

\* Such steps can be walked to the end.
LEMMA StepsCompose ==
  ASSUME NEW n \in Nat, NEW G, NEW next, NEW start, start \in G[0], StepsLead(n, G, next)
  PROVE  \E h : IsWalk(h, n, G, next, start)
<1> USE DEF StepsLead
<1> DEFINE Upto(j, h) == IsWalk(h, j, G, next, start)
           S == {j \in 0 .. n : \E h : Upto(j, h)}
<1>1. 0 \in S
  <2> DEFINE h == [k \in 0 .. 0 |-> start]
  <2>1. h = [k \in 0 .. 0 |-> IF k = 0 THEN start ELSE next[k][h[k - 1]]]
    OBVIOUS
  <2>2. \A k \in 0 .. 0 : h[k] \in G[k]
    OBVIOUS
  <2>3. Upto(0, h)
    BY <2>1, <2>2 DEF IsWalk
  <2> HIDE DEF Upto
  <2> QED
    BY <2>3
<1>2. ASSUME NEW j \in 1 .. n, j - 1 \in S
      PROVE  j \in S
  <2>1. PICK g : IsWalk(g, j - 1, G, next, start)
    BY <1>2
  <2> DEFINE h == [k \in 0 .. j |-> IF k = j THEN next[j][g[j - 1]] ELSE g[k]]
  <2>2. /\ j - 1 \in 0 .. (j - 1) /\ j \in Nat /\ j # 0
        /\ \A k \in 0 .. j : k # j => k \in 0 .. (j - 1)
        /\ \A k \in 1 .. j : k - 1 \in 0 .. (j - 1) /\ k - 1 # j
    OBVIOUS
  <2>3. h = [k \in 0 .. j |-> IF k = 0 THEN start ELSE next[k][h[k - 1]]]
    <3>1. ASSUME NEW k \in 0 .. j
          PROVE  h[k] = IF k = 0 THEN start ELSE next[k][h[k - 1]]
      <4>1. CASE k = 0
        BY <2>1, <2>2, <4>1 DEF IsWalk
      <4>2. CASE k = j
        BY <2>2, <4>2
      <4>3. CASE k # 0 /\ k # j
        <5>1. k \in 0 .. (j - 1) /\ k - 1 \in 0 .. j /\ k - 1 # j
          BY <4>3
        <5>2. h[k] = g[k] /\ h[k - 1] = g[k - 1]
          BY <4>3, <5>1
        <5>3. g[k] = next[k][g[k - 1]]
          BY <2>1, <4>3, <5>1 DEF IsWalk
        <5> QED
          BY <4>3, <5>2, <5>3
      <4> QED
        BY <4>1, <4>2, <4>3
    <3> QED
      BY <3>1
  <2>4. \A k \in 0 .. j : h[k] \in G[k]
    BY <2>1, <2>2 DEF IsWalk
  <2>5. Upto(j, h)
    BY <2>3, <2>4 DEF IsWalk
  <2> HIDE DEF h, Upto
  <2> QED
    BY <2>5
<1> HIDE DEF S
<1>3. \A j \in 0 .. n : j \in S
  BY <1>1, <1>2, Ascent
<1> QED
  BY <1>3 DEF S

\* So a function that is defined by its steps stays in the sets they lead through.
LEMMA RunOfSteps ==
  ASSUME NEW n \in Nat, NEW G, NEW h, h[0] \in G[0],
         \A k \in 1 .. n : h[k - 1] \in G[k - 1] => h[k] \in G[k]
  PROVE  h[n] \in G[n]
<1> DEFINE S == {k \in 0 .. n : h[k] \in G[k]}
<1>1. 0 \in S
  OBVIOUS
<1>2. \A k \in 1 .. n : k - 1 \in S => k \in S
  OBVIOUS
<1> HIDE DEF S
<1>3. \A k \in 0 .. n : k \in S
  BY <1>1, <1>2, Ascent
<1> QED
  BY <1>3 DEF S

\* A walk of a pass over the paths, from one set of tables to the next.
LEMMA ApplyLeads ==
  ASSUME NEW r, NEW kind, NEW S, NEW order \in [Path -> Path], NEW G, NEW start, start \in G[0],
         \A k \in Path : \A t \in G[k - 1] :
            IF order[k] \in S /\ t.end = "ok" THEN Act(r, kind, t, order[k]) \in G[k]
                                             ELSE t \in G[k]
  PROVE  Apply(r, kind, S, order, start) \in G[MaxPath]
<1> USE IdentityAssumption DEF Path
<1> DEFINE Step(k, t) == IF order[k] \in S /\ t.end = "ok" THEN Act(r, kind, t, order[k]) ELSE t
           h == CHOOSE f : f = [k \in 0 .. MaxPath |-> IF k = 0 THEN start ELSE Step(k, f[k - 1])]
<1>1. MaxPath \in Nat
  OBVIOUS
<1>2. \A k \in 1 .. MaxPath : \A t \in G[k - 1] : Step(k, t) \in G[k]
  OBVIOUS
<1>3. Apply(r, kind, S, order, start) = h[MaxPath]
  BY DEF Apply
<1> HIDE DEF Step
<1>4. PICK next : \A k \in 1 .. MaxPath : \A t \in G[k - 1] : next[k][t] = Step(k, t)
  <2> DEFINE walk == [k \in 1 .. MaxPath |-> [t \in G[k - 1] |-> Step(k, t)]]
  <2>1. \A k \in 1 .. MaxPath : \A t \in G[k - 1] : walk[k][t] = Step(k, t)
    OBVIOUS
  <2> HIDE DEF walk
  <2> QED
    BY <2>1
<1>5. PICK g : IsWalk(g, MaxPath, G, next, start)
  <2>1. StepsLead(MaxPath, G, next)
    BY <1>2, <1>4 DEF StepsLead
  <2> QED
    BY <1>1, <2>1, StepsCompose
<1>6. g = [k \in 0 .. MaxPath |-> IF k = 0 THEN start ELSE Step(k, g[k - 1])]
  <2>1. ASSUME NEW k \in 1 .. MaxPath PROVE next[k][g[k - 1]] = Step(k, g[k - 1])
    <3>1. k - 1 \in 0 .. MaxPath
      OBVIOUS
    <3>2. g[k - 1] \in G[k - 1]
      BY <1>5, <3>1 DEF IsWalk
    <3> QED
      BY <1>4, <3>2
  <2>2. ASSUME NEW k \in 0 .. MaxPath
        PROVE  g[k] = IF k = 0 THEN start ELSE Step(k, g[k - 1])
    BY <1>5, <2>1 DEF IsWalk
  <2> QED
    BY <1>5, <2>2 DEF IsWalk
<1>7. h = [k \in 0 .. MaxPath |-> IF k = 0 THEN start ELSE Step(k, h[k - 1])]
  BY <1>6
<1> HIDE DEF h
<1>8. h[MaxPath] \in G[MaxPath]
  <2>1. \A k \in 0 .. MaxPath : h[k] = IF k = 0 THEN start ELSE Step(k, h[k - 1])
    BY <1>7
  <2>2. h[0] \in G[0]
    BY <1>1, <2>1
  <2>3. \A k \in 1 .. MaxPath : h[k - 1] \in G[k - 1] => h[k] \in G[k]
    BY <1>2, <2>1
  <2> QED
    BY <1>1, <2>2, <2>3, RunOfSteps
<1> QED
  BY <1>3, <1>8

-----------------------------------------------------------------------------
(* Good tables, and what a change of them keeps. *)

TableSet == [row : [Path -> Row \cup {None}], page : [PageId -> Page \cup {None}],
             last : 0 .. MaxPages, end : {"ok", "failed"}]

\* A row leads to a page whose path and raw import are those of the row.
GoodRow(t, p) ==
  /\ t.page[t.row[p].page] # None
  /\ t.page[t.row[p].page].slug = p
  /\ t.page[t.row[p].page].raw = t.row[p].was
  /\ t.page[t.row[p].page].quarantined => t.row[p].by = "put"

\* Pages have ids that were given out, the quaid_id of a raw import, if it has one, and
\* each its own.
GoodPage(t, i) == i <= t.last /\ t.page[i].raw.id \in {0, t.page[i].uuid}
OneUuidEach(t) ==
  \A i, j \in PageId :
    t.page[i] # None /\ t.page[j] # None /\ t.page[i].uuid = t.page[j].uuid => i = j

Good(t) ==
  /\ \A p \in Path : t.row[p] # None => GoodRow(t, p)
  /\ \A i \in PageId : t.page[i] # None => GoodPage(t, i)
  /\ OneUuidEach(t)

\* No row but perhaps that of p leads to page i.
OnlyRow(t, i, p) == \A q \in Path \ {p} : t.row[q] # None => t.row[q].page # i

\* Page i takes the file f at p, and has no other row then.
Binds(t, b, i, p, f, who, quarantined) ==
  /\ t.page[i] # None
  /\ f.id \in {0, t.page[i].uuid}
  /\ quarantined => who = "put"
  /\ b.page = [t.page EXCEPT ![i] = [@ EXCEPT !.slug = p, !.raw = f, !.quarantined = quarantined]]
  /\ b.row[p] = [page |-> i, was |-> f, by |-> who]
  /\ \A q \in Path \ {p} : /\ b.row[q] \in {t.row[q], None}
                           /\ t.row[q] # None /\ t.row[q].page = i => b.row[q] = None
  /\ b.last = t.last

\* The numbers of pages and paths, and None.
LEMMA Numbers ==
  /\ MaxPath \in Nat /\ MaxPages \in Nat /\ MaxEdits \in Nat /\ MaxCalls \in Nat
  /\ PageId \subseteq Nat /\ Path \subseteq Nat /\ 0 \notin PageId
  /\ None \notin PageId /\ None \notin File /\ None \notin Page /\ None \notin Row
BY IdentityAssumption, NoneAssumption DEF PageId, Path

\* The columns of tables, and of what is in them.
LEMMA TableTypes ==
  ASSUME NEW t \in TableSet
  PROVE  /\ t.row \in [Path -> Row \cup {None}] /\ t.page \in [PageId -> Page \cup {None}]
         /\ t.last \in 0 .. MaxPages /\ t.last \in Nat /\ t.end \in {"ok", "failed"}
         /\ \A p \in Path : t.row[p] # None =>
              /\ t.row[p] \in Row /\ t.row[p].page \in PageId /\ t.row[p].was \in File
              /\ t.row[p].by \in {"pass", "put"}
         /\ \A i \in PageId : t.page[i] # None =>
              /\ t.page[i] \in Page /\ t.page[i].uuid \in PageId /\ t.page[i].slug \in Path
              /\ t.page[i].raw \in File /\ t.page[i].quarantined \in BOOLEAN
              /\ t.page[i].kept \in BOOLEAN /\ t.page[i].exported \in BOOLEAN
<1>1. /\ t.row \in [Path -> Row \cup {None}] /\ t.page \in [PageId -> Page \cup {None}]
      /\ t.last \in 0 .. MaxPages /\ t.end \in {"ok", "failed"}
  BY DEF TableSet
<1>2. t.last \in Nat
  BY <1>1, Numbers
<1>3. ASSUME NEW p \in Path, t.row[p] # None
      PROVE  /\ t.row[p] \in Row /\ t.row[p].page \in PageId /\ t.row[p].was \in File
             /\ t.row[p].by \in {"pass", "put"}
  <2>1. t.row[p] \in Row
    BY <1>1, <1>3
  <2> QED
    BY <2>1 DEF Row
<1>4. ASSUME NEW i \in PageId, t.page[i] # None
      PROVE  /\ t.page[i] \in Page /\ t.page[i].uuid \in PageId /\ t.page[i].slug \in Path
             /\ t.page[i].raw \in File /\ t.page[i].quarantined \in BOOLEAN
             /\ t.page[i].kept \in BOOLEAN /\ t.page[i].exported \in BOOLEAN
  <2>1. t.page[i] \in Page
    BY <1>1, <1>4
  <2> QED
    BY <2>1 DEF Page
<1> QED
  BY <1>1, <1>2, <1>3, <1>4

\* A page that takes a file leaves good tables (apply_reingest, restore_quarantined_page).
LEMMA BindingIsGood ==
  ASSUME NEW t \in TableSet, NEW b \in TableSet, Good(t), NEW i \in PageId, NEW p \in Path,
         NEW f \in File, NEW who, NEW quarantined \in BOOLEAN,
         Binds(t, b, i, p, f, who, quarantined)
  PROVE  /\ Good(b)
         /\ b.page[i] \in Page
         /\ b.page[i].uuid = t.page[i].uuid /\ b.page[i].kept = t.page[i].kept
         /\ b.page[i].raw = f /\ b.page[i].slug = p /\ b.page[i].quarantined = quarantined
         /\ \A j \in PageId \ {i} : b.page[j] = t.page[j]
<1>1. t.page[i] \in Page /\ t.page \in [PageId -> Page \cup {None}]
  BY TableTypes DEF Binds
<1>2. /\ b.page[i] = [t.page[i] EXCEPT !.slug = p, !.raw = f, !.quarantined = quarantined]
      /\ \A j \in PageId \ {i} : b.page[j] = t.page[j]
  BY <1>1 DEF Binds
<1>3. /\ b.page[i].uuid = t.page[i].uuid /\ b.page[i].kept = t.page[i].kept
      /\ b.page[i].raw = f /\ b.page[i].slug = p /\ b.page[i].quarantined = quarantined
  BY <1>1, <1>2 DEF Page
<1>4. b.page[i] # None /\ b.page[i] \in Page
  <2>1. b.page[i] \in Page
    BY <1>1, <1>2 DEF Page
  <2> QED
    BY <2>1, Numbers
<1>5. ASSUME NEW q \in Path, b.row[q] # None PROVE GoodRow(b, q)
  <2>1. CASE q = p
    BY <1>3, <1>4, <2>1 DEF GoodRow, Binds
  <2>2. CASE q # p
    <3>1. b.row[q] = t.row[q] /\ t.row[q] # None /\ t.row[q].page # i
      BY <1>5, <2>2 DEF Binds
    <3>2. t.row[q].page \in PageId
      BY <3>1, TableTypes
    <3>3. GoodRow(t, q)
      BY <3>1 DEF Good
    <3> QED
      BY <1>2, <3>1, <3>2, <3>3 DEF GoodRow
  <2> QED
    BY <2>1, <2>2
<1>6. ASSUME NEW j \in PageId, b.page[j] # None PROVE GoodPage(b, j)
  <2>1. t.page[j] # None
    BY <1>2, <1>6 DEF Binds
  <2>2. GoodPage(t, j)
    BY <2>1 DEF Good
  <2> QED
    BY <1>2, <1>3, <2>2 DEF GoodPage, Binds
<1>7. OneUuidEach(b)
  <2>1. \A j \in PageId : b.page[j] # None => t.page[j] # None /\ b.page[j].uuid = t.page[j].uuid
    BY <1>2, <1>3 DEF Binds
  <2>2. OneUuidEach(t)
    BY DEF Good
  <2> QED
    BY <2>1, <2>2 DEF OneUuidEach
<1> QED
  BY <1>2, <1>3, <1>4, <1>5, <1>6, <1>7 DEF Good

\* The row of p and page i take the file f, whatever other rows lead to the page.
Takes(t, b, i, p, f, who) ==
  /\ b.last = t.last
  /\ f.id \in {0, t.page[i].uuid}
  /\ b.page = [t.page EXCEPT ![i] = [@ EXCEPT !.slug = p, !.raw = f, !.quarantined = FALSE]]
  /\ b.row = [t.row EXCEPT ![p] = [page |-> i, was |-> f, by |-> who]]

\* If no other row does, that is all there is to it.
LEMMA TakingBinds ==
  ASSUME NEW t \in TableSet, NEW i \in PageId, t.page[i] # None, NEW p \in Path, NEW f, NEW who,
         NEW b, Takes(t, b, i, p, f, who), OnlyRow(t, i, p)
  PROVE  Binds(t, b, i, p, f, who, FALSE)
BY TableTypes DEF Takes, OnlyRow, Binds

\* What a page that takes a file does to the tables, or to their end.
LEMMA BindPageTakes ==
  ASSUME NEW t \in TableSet, t.end = "ok", NEW i \in PageId, t.page[i] # None,
         NEW p \in Path, NEW f \in File, NEW who \in {"pass", "put"}
  PROVE  LET b == BindPage(t, i, p, f, who) IN
         /\ b \in TableSet
         /\ b.end = "ok" => Takes(t, b, i, p, f, who)
         /\ b.end # "ok" => b = Fail(t)
<1> DEFINE b == BindPage(t, i, p, f, who)
<1>0. /\ t.page \in [PageId -> Page \cup {None}] /\ t.row \in [Path -> Row \cup {None}]
      /\ t.last \in 0 .. MaxPages /\ t.page[i] \in Page
  BY TableTypes
<1>1. CASE ~UuidAgrees(t, i, f) \/ WithSlug(t, p) \ {i} # {}
  <2>1. b = Fail(t)
    BY <1>1 DEF BindPage
  <2>2. Fail(t) \in TableSet /\ Fail(t).end = "failed"
    BY DEF Fail, TableSet
  <2> QED
    BY <2>1, <2>2
<1>2. CASE ~(~UuidAgrees(t, i, f) \/ WithSlug(t, p) \ {i} # {})
  <2>1. b = [t EXCEPT !.page[i] = [@ EXCEPT !.slug = p, !.raw = f, !.quarantined = FALSE],
                      !.row[p] = [page |-> i, was |-> f, by |-> who]]
    BY <1>2 DEF BindPage
  <2>2. /\ b.page = [t.page EXCEPT ![i] = [@ EXCEPT !.slug = p, !.raw = f,
                                                    !.quarantined = FALSE]]
        /\ b.row = [t.row EXCEPT ![p] = [page |-> i, was |-> f, by |-> who]]
        /\ b.last = t.last /\ b.end = t.end
        /\ b = [row |-> b.row, page |-> b.page, last |-> b.last, end |-> b.end]
    BY <1>0, <2>1 DEF TableSet
  <2>3. [t.page[i] EXCEPT !.slug = p, !.raw = f, !.quarantined = FALSE] \in Page
    BY <1>0 DEF Page
  <2>4. [page |-> i, was |-> f, by |-> who] \in Row
    BY DEF Row
  <2>5. b.page \in [PageId -> Page \cup {None}] /\ b.row \in [Path -> Row \cup {None}]
    BY <1>0, <2>2, <2>3, <2>4
  <2>6. b \in TableSet
    BY <1>0, <2>2, <2>5 DEF TableSet
  <2>7. f.id \in {0, t.page[i].uuid}
    BY <1>2 DEF UuidAgrees
  <2>8. Takes(t, b, i, p, f, who)
    BY <2>2, <2>7 DEF Takes
  <2> QED
    BY <2>2, <2>6, <2>7, <2>8
<1> QED
  BY <1>1, <1>2

\* Pages stay, with their quaid_id and what only the database has; others get new numbers.
Carries(t, u) ==
  /\ \A i \in PageId :
       /\ t.page[i] # None => /\ u.page[i] # None /\ u.page[i].uuid = t.page[i].uuid
                              /\ t.page[i].kept => u.page[i].kept
       /\ t.page[i] = None /\ u.page[i] # None => i > t.last
  /\ t.last <= u.last

\* A page that takes a file carries the others on.
LEMMA BindingCarries ==
  ASSUME NEW t \in TableSet, NEW b \in TableSet, Good(t), NEW i \in PageId, NEW p \in Path,
         NEW f \in File, NEW who, NEW quarantined \in BOOLEAN,
         Binds(t, b, i, p, f, who, quarantined)
  PROVE  Carries(t, b)
<1>1. b.last = t.last /\ t.last \in Nat
  BY TableTypes DEF Binds
<1>2. /\ b.page[i] \in Page
      /\ b.page[i].uuid = t.page[i].uuid /\ b.page[i].kept = t.page[i].kept
      /\ \A j \in PageId \ {i} : b.page[j] = t.page[j]
  BY BindingIsGood
<1>3. b.page[i] # None /\ t.page[i] # None
  BY <1>2, Numbers DEF Binds
<1> QED
  BY <1>1, <1>2, <1>3 DEF Carries

\* A page that is deleted leaves good tables (discard_quarantined_page, DELETE FROM pages).
LEMMA DeletingIsGood ==
  ASSUME NEW t \in TableSet, Good(t), NEW i \in PageId
  PROVE  LET u == DeletePage(t, i) IN
         /\ u \in TableSet /\ Good(u)
         /\ u.end = t.end /\ u.last = t.last
         /\ u.page = [t.page EXCEPT ![i] = None]
         /\ \A q \in Path : u.row[q] = IF t.row[q] # None /\ t.row[q].page = i THEN None
                                       ELSE t.row[q]
<1> DEFINE u == DeletePage(t, i)
<1>1. t.page \in [PageId -> Page \cup {None}] /\ t.row \in [Path -> Row \cup {None}]
  BY TableTypes
<1>2. /\ u.end = t.end /\ u.last = t.last
      /\ u.page = [t.page EXCEPT ![i] = None]
      /\ u.row = [q \in Path |-> IF t.row[q] # None /\ t.row[q].page = i THEN None
                                 ELSE t.row[q]]
      /\ u = [row |-> u.row, page |-> u.page, last |-> u.last, end |-> u.end]
  <2> DEFINE rows == [q \in Path |-> IF t.row[q] # None /\ t.row[q].page = i THEN None
                                     ELSE t.row[q]]
  <2>1. u = [t EXCEPT !.page[i] = None, !.row = rows]
    BY DEF DeletePage
  <2> HIDE DEF u, rows
  <2>2. /\ u.end = t.end /\ u.last = t.last /\ u.row = rows
        /\ u.page = [t.page EXCEPT ![i] = None]
        /\ u = [row |-> u.row, page |-> u.page, last |-> u.last, end |-> u.end]
    BY <1>1, <2>1 DEF TableSet
  <2> QED
    BY <2>2 DEF rows
<1>3. u \in TableSet
  <2>1. u.page \in [PageId -> Page \cup {None}] /\ u.row \in [Path -> Row \cup {None}]
    BY <1>1, <1>2
  <2>2. u.last \in 0 .. MaxPages /\ u.end \in {"ok", "failed"}
    BY <1>2, TableTypes
  <2> QED
    BY <1>2, <2>1, <2>2 DEF TableSet
<1>4. ASSUME NEW q \in Path, u.row[q] # None PROVE GoodRow(u, q)
  <2>1. u.row[q] = t.row[q] /\ t.row[q] # None /\ t.row[q].page # i
    BY <1>2, <1>4
  <2>2. t.row[q].page \in PageId /\ GoodRow(t, q)
    BY <2>1, TableTypes DEF Good
  <2>3. u.page[t.row[q].page] = t.page[t.row[q].page]
    BY <1>1, <1>2, <2>1, <2>2
  <2> QED
    BY <2>1, <2>2, <2>3 DEF GoodRow
<1>5. \A j \in PageId : u.page[j] # None => t.page[j] # None /\ u.page[j] = t.page[j]
  BY <1>1, <1>2
<1>6. \A j \in PageId : u.page[j] # None => GoodPage(u, j)
  BY <1>2, <1>5 DEF Good, GoodPage
<1>7. OneUuidEach(u)
  BY <1>5 DEF Good, OneUuidEach
<1> QED
  BY <1>1, <1>2, <1>3, <1>4, <1>6, <1>7 DEF Good

\* A row that is dropped leaves good tables (delete_file_state).
LEMMA UnbindingIsGood ==
  ASSUME NEW t \in TableSet, Good(t), NEW p \in Path
  PROVE  LET u == Unbind(t, p) IN
         /\ u \in TableSet /\ Good(u) /\ Carries(t, u)
         /\ u.end = t.end /\ u.last = t.last /\ u.page = t.page
         /\ u.row = [t.row EXCEPT ![p] = None]
<1> DEFINE u == Unbind(t, p)
<1>1. t.page \in [PageId -> Page \cup {None}] /\ t.row \in [Path -> Row \cup {None}]
  BY TableTypes
<1>2. /\ u.end = t.end /\ u.last = t.last /\ u.page = t.page
      /\ u.row = [t.row EXCEPT ![p] = None]
      /\ u = [row |-> u.row, page |-> u.page, last |-> u.last, end |-> u.end]
  BY <1>1 DEF Unbind, TableSet
<1>3. u \in TableSet
  <2>1. u.row \in [Path -> Row \cup {None}]
    BY <1>1, <1>2
  <2> QED
    BY <1>1, <1>2, <2>1, TableTypes DEF TableSet
<1>4. Good(u)
  <2>1. \A q \in Path : u.row[q] # None => u.row[q] = t.row[q]
    BY <1>1, <1>2
  <2> QED
    BY <1>2, <2>1 DEF Good, GoodRow, GoodPage, OneUuidEach
<1>5. Carries(t, u)
  BY <1>2, TableTypes DEF Carries
<1> QED
  BY <1>2, <1>3, <1>4, <1>5

\* A page that is put under quarantine; an earlier export is none of this one.
Marked(x) == [x EXCEPT !.quarantined = TRUE, !.exported = FALSE]

\* A page without a row can be quarantined (apply_delete_or_quarantine).
LEMMA QuarantiningIsGood ==
  ASSUME NEW t \in TableSet, Good(t), NEW i \in PageId, t.page[i] # None,
         \A q \in Path : t.row[q] # None => t.row[q].page # i
  PROVE  LET u == QuarantinePage(t, i) IN
         /\ u \in TableSet /\ Good(u) /\ Carries(t, u)
         /\ u.end = t.end /\ u.last = t.last /\ u.row = t.row
         /\ u.page[i] = Marked(t.page[i])
         /\ \A j \in PageId \ {i} : u.page[j] = t.page[j]
<1> DEFINE u == QuarantinePage(t, i)
<1>1. /\ t.page \in [PageId -> Page \cup {None}] /\ t.row \in [Path -> Row \cup {None}]
      /\ t.page[i] \in Page /\ t.last \in Nat
  BY TableTypes
<1>2. /\ u.end = t.end /\ u.last = t.last /\ u.row = t.row
      /\ u.page = [t.page EXCEPT ![i] = [@ EXCEPT !.quarantined = TRUE, !.exported = FALSE]]
      /\ u = [row |-> u.row, page |-> u.page, last |-> u.last, end |-> u.end]
  BY <1>1 DEF QuarantinePage, TableSet
<1>3. /\ u.page[i] \in Page
      /\ u.page[i].uuid = t.page[i].uuid /\ u.page[i].kept = t.page[i].kept
      /\ u.page[i].raw = t.page[i].raw
      /\ \A j \in PageId \ {i} : u.page[j] = t.page[j]
  BY <1>1, <1>2 DEF Page
<1>4. u.page[i] # None
  BY <1>3, Numbers
<1>5. u \in TableSet
  <2>1. u.page \in [PageId -> Page \cup {None}]
    BY <1>1, <1>2, <1>3
  <2> QED
    BY <1>1, <1>2, <2>1, TableTypes DEF TableSet
<1>6. Carries(t, u)
  BY <1>1, <1>2, <1>3, <1>4 DEF Carries
<1>7. ASSUME NEW q \in Path, u.row[q] # None PROVE GoodRow(u, q)
  <2>1. t.row[q] # None /\ t.row[q].page # i /\ t.row[q].page \in PageId /\ GoodRow(t, q)
    BY <1>2, <1>7, TableTypes DEF Good
  <2> QED
    BY <1>2, <1>3, <2>1 DEF GoodRow
<1>8. \A j \in PageId : u.page[j] # None => GoodPage(u, j)
  BY <1>2, <1>3 DEF Good, GoodPage
<1>9. OneUuidEach(u)
  BY <1>3 DEF Good, OneUuidEach
<1>10. u.page[i] = Marked(t.page[i])
  BY <1>1, <1>2 DEF Marked
<1> QED
  BY <1>2, <1>3, <1>5, <1>6, <1>7, <1>8, <1>9, <1>10 DEF Good

\* A new page leaves good tables, and gets a number nobody had (apply_reingest).
LEMMA InsertingIsGood ==
  ASSUME NEW t \in TableSet, Good(t), t.end = "ok", t.last < MaxPages, NEW p \in Path,
         NEW f \in File, NEW who \in {"pass", "put"}
  PROVE  LET u == InsertPage(t, p, f, who) IN
         /\ u \in TableSet
         /\ u.end = "ok" =>
              /\ Good(u) /\ Carries(t, u)
              /\ u.last = t.last + 1
              /\ u.row[p] = [page |-> t.last + 1, was |-> f, by |-> who]
              /\ \A q \in Path \ {p} : u.row[q] = t.row[q]
<1> DEFINE u == InsertPage(t, p, f, who)
           i == t.last + 1
           new == [uuid |-> NewUuid(i, f), slug |-> p, raw |-> f, quarantined |-> FALSE,
                   kept |-> FALSE, exported |-> FALSE]
<1>1. /\ t.page \in [PageId -> Page \cup {None}] /\ t.row \in [Path -> Row \cup {None}]
      /\ t.last \in 0 .. MaxPages
  BY TableTypes
<1>2. i \in PageId /\ i \in Nat
  BY <1>1, Numbers DEF PageId
<1>3. CASE WithUuid(t, NewUuid(i, f)) # {} \/ WithSlug(t, p) # {}
  <2>1. u = Fail(t)
    BY <1>3 DEF InsertPage
  <2>2. Fail(t) \in TableSet /\ Fail(t).end = "failed"
    BY DEF Fail, TableSet
  <2> QED
    BY <2>1, <2>2
<1>4. CASE ~(WithUuid(t, NewUuid(i, f)) # {} \/ WithSlug(t, p) # {})
  <2>1. u = [t EXCEPT !.last = i, !.page[i] = new,
                      !.row[p] = [page |-> i, was |-> f, by |-> who]]
    BY <1>4 DEF InsertPage
  <2>2. /\ u.page = [t.page EXCEPT ![i] = new]
        /\ u.row = [t.row EXCEPT ![p] = [page |-> i, was |-> f, by |-> who]]
        /\ u.last = i /\ u.end = t.end
        /\ u = [row |-> u.row, page |-> u.page, last |-> u.last, end |-> u.end]
    BY <1>1, <2>1 DEF TableSet
  <2>3. NewUuid(i, f) \in PageId /\ f.id \in {0, NewUuid(i, f)}
    BY <1>2 DEF NewUuid, File, PageId
  <2>4. new \in Page
    BY <2>3 DEF Page
  <2>5. [page |-> i, was |-> f, by |-> who] \in Row
    BY <1>2 DEF Row
  <2>6. u \in TableSet
    <3>1. u.page \in [PageId -> Page \cup {None}] /\ u.row \in [Path -> Row \cup {None}]
      BY <1>1, <2>2, <2>4, <2>5
    <3>2. u.last \in 0 .. MaxPages
      BY <1>1, <2>2, Numbers
    <3> QED
      BY <2>2, <3>1, <3>2 DEF TableSet
  <2>7. t.page[i] = None
    BY <1>1, <1>2 DEF Good, GoodPage
  <2>8. /\ u.page[i] = new /\ u.page[i] # None /\ u.page[i].uuid = NewUuid(i, f)
        /\ u.page[i].slug = p /\ u.page[i].raw = f /\ ~u.page[i].quarantined
        /\ \A j \in PageId \ {i} : u.page[j] = t.page[j]
    <3>1. u.page[i] = new /\ \A j \in PageId \ {i} : u.page[j] = t.page[j]
      BY <1>1, <1>2, <2>2
    <3>2. new # None
      BY <2>4, Numbers
    <3> QED
      BY <3>1, <3>2
  <2>9. Carries(t, u)
    BY <1>1, <1>2, <2>2, <2>7, <2>8 DEF Carries
  <2>10. ASSUME NEW q \in Path, u.row[q] # None PROVE GoodRow(u, q)
    <3>1. CASE q = p
      BY <1>1, <2>2, <2>8, <3>1 DEF GoodRow
    <3>2. CASE q # p
      <4>1. u.row[q] = t.row[q] /\ t.row[q] # None
        BY <1>1, <2>2, <2>10, <3>2
      <4>2. t.row[q].page \in PageId /\ GoodRow(t, q)
        BY <4>1, TableTypes DEF Good
      <4>3. t.row[q].page # i
        BY <2>7, <4>2 DEF GoodRow
      <4> QED
        BY <2>8, <4>1, <4>2, <4>3 DEF GoodRow
    <3> QED
      BY <3>1, <3>2
  <2>11. ASSUME NEW j \in PageId, u.page[j] # None PROVE GoodPage(u, j)
    <3>1. CASE j = i
      BY <1>2, <2>2, <2>3, <2>8, <3>1 DEF GoodPage
    <3>2. CASE j # i
      <4>1. GoodPage(t, j)
        BY <2>8, <2>11, <3>2 DEF Good
      <4>2. j \in Nat /\ t.last \in Nat
        BY <1>1, Numbers
      <4> QED
        BY <2>2, <2>8, <3>2, <4>1, <4>2 DEF GoodPage
    <3> QED
      BY <3>1, <3>2
  <2>12. OneUuidEach(u)
    <3>1. \A j \in PageId : t.page[j] # None => t.page[j].uuid # NewUuid(i, f)
      BY <1>4 DEF WithUuid
    <3> QED
      BY <2>8, <3>1 DEF OneUuidEach, Good
  <2>13. /\ u.row[p] = [page |-> i, was |-> f, by |-> who]
         /\ \A q \in Path \ {p} : u.row[q] = t.row[q]
    BY <1>1, <2>2
  <2> QED
    BY <2>2, <2>6, <2>9, <2>10, <2>11, <2>12, <2>13 DEF Good
<1> QED
  BY <1>3, <1>4

-----------------------------------------------------------------------------
(* The renames of a pass. *)

\* The walk over the rename events (apply_native_rename_matches).
LEMMA ByEventsLeads ==
  ASSUME NEW start, NEW G, start \in G[0], Len(moved) \in Nat,
         \A k \in 1 .. Len(moved) : \A r \in G[k - 1] : NativeStep(r, moved[k]) \in G[k]
  PROVE  ByEvents(start) \in G[Len(moved)]
<1> DEFINE Step(k, t) == NativeStep(t, moved[k])
           h == CHOOSE f : f = [k \in 0 .. Len(moved) |-> IF k = 0 THEN start ELSE Step(k, f[k - 1])]
<1>1. Len(moved) \in Nat
  OBVIOUS
<1>2. \A k \in 1 .. Len(moved) : \A t \in G[k - 1] : Step(k, t) \in G[k]
  OBVIOUS
<1>3. ByEvents(start) = h[Len(moved)]
  BY DEF ByEvents
<1> HIDE DEF Step
<1>4. PICK next : \A k \in 1 .. Len(moved) : \A t \in G[k - 1] : next[k][t] = Step(k, t)
  <2> DEFINE walk == [k \in 1 .. Len(moved) |-> [t \in G[k - 1] |-> Step(k, t)]]
  <2>1. \A k \in 1 .. Len(moved) : \A t \in G[k - 1] : walk[k][t] = Step(k, t)
    OBVIOUS
  <2> HIDE DEF walk
  <2> QED
    BY <2>1
<1>5. PICK g : IsWalk(g, Len(moved), G, next, start)
  <2>1. StepsLead(Len(moved), G, next)
    BY <1>2, <1>4 DEF StepsLead
  <2> QED
    BY <1>1, <2>1, StepsCompose
<1>6. g = [k \in 0 .. Len(moved) |-> IF k = 0 THEN start ELSE Step(k, g[k - 1])]
  <2>1. ASSUME NEW k \in 1 .. Len(moved) PROVE next[k][g[k - 1]] = Step(k, g[k - 1])
    <3>1. k - 1 \in 0 .. Len(moved)
      OBVIOUS
    <3>2. g[k - 1] \in G[k - 1]
      BY <1>5, <3>1 DEF IsWalk
    <3> QED
      BY <1>4, <3>2
  <2>2. ASSUME NEW k \in 0 .. Len(moved)
        PROVE  g[k] = IF k = 0 THEN start ELSE Step(k, g[k - 1])
    BY <1>5, <2>1 DEF IsWalk
  <2> QED
    BY <1>5, <2>2 DEF IsWalk
<1>7. h = [k \in 0 .. Len(moved) |-> IF k = 0 THEN start ELSE Step(k, h[k - 1])]
  BY <1>6
<1> HIDE DEF h
<1>8. h[Len(moved)] \in G[Len(moved)]
  <2>1. \A k \in 0 .. Len(moved) : h[k] = IF k = 0 THEN start ELSE Step(k, h[k - 1])
    BY <1>7
  <2>2. h[0] \in G[0]
    BY <1>1, <2>1
  <2>3. \A k \in 1 .. Len(moved) : h[k - 1] \in G[k - 1] => h[k] \in G[k]
    BY <1>2, <2>1
  <2> QED
    BY <1>1, <2>2, <2>3, RunOfSteps
<1> QED
  BY <1>3, <1>8


\* A walk over the missing files (apply_uuid_rename_matches).
LEMMA ByUuidLeads ==
  ASSUME NEW order, NEW start, NEW G, start \in G[0],
         \A k \in Path : \A t \in G[k - 1] :
            IF order[k] \in start.missing THEN UuidStep(t, order[k]) \in G[k] ELSE t \in G[k]
  PROVE  ByUuid(order, start) \in G[MaxPath]
<1> USE IdentityAssumption DEF Path
<1> DEFINE Step(k, t) == IF order[k] \in start.missing THEN UuidStep(t, order[k]) ELSE t
           h == CHOOSE f : f = [k \in 0 .. MaxPath |-> IF k = 0 THEN start ELSE Step(k, f[k - 1])]
<1>1. MaxPath \in Nat
  OBVIOUS
<1>2. \A k \in 1 .. MaxPath : \A t \in G[k - 1] : Step(k, t) \in G[k]
  OBVIOUS
<1>3. ByUuid(order, start) = h[MaxPath]
  BY DEF ByUuid
<1> HIDE DEF Step
<1>4. PICK next : \A k \in 1 .. MaxPath : \A t \in G[k - 1] : next[k][t] = Step(k, t)
  <2> DEFINE walk == [k \in 1 .. MaxPath |-> [t \in G[k - 1] |-> Step(k, t)]]
  <2>1. \A k \in 1 .. MaxPath : \A t \in G[k - 1] : walk[k][t] = Step(k, t)
    OBVIOUS
  <2> HIDE DEF walk
  <2> QED
    BY <2>1
<1>5. PICK g : IsWalk(g, MaxPath, G, next, start)
  <2>1. StepsLead(MaxPath, G, next)
    BY <1>2, <1>4 DEF StepsLead
  <2> QED
    BY <1>1, <2>1, StepsCompose
<1>6. g = [k \in 0 .. MaxPath |-> IF k = 0 THEN start ELSE Step(k, g[k - 1])]
  <2>1. ASSUME NEW k \in 1 .. MaxPath PROVE next[k][g[k - 1]] = Step(k, g[k - 1])
    <3>1. k - 1 \in 0 .. MaxPath
      OBVIOUS
    <3>2. g[k - 1] \in G[k - 1]
      BY <1>5, <3>1 DEF IsWalk
    <3> QED
      BY <1>4, <3>2
  <2>2. ASSUME NEW k \in 0 .. MaxPath
        PROVE  g[k] = IF k = 0 THEN start ELSE Step(k, g[k - 1])
    BY <1>5, <2>1 DEF IsWalk
  <2> QED
    BY <1>5, <2>2 DEF IsWalk
<1>7. h = [k \in 0 .. MaxPath |-> IF k = 0 THEN start ELSE Step(k, h[k - 1])]
  BY <1>6
<1> HIDE DEF h
<1>8. h[MaxPath] \in G[MaxPath]
  <2>1. \A k \in 0 .. MaxPath : h[k] = IF k = 0 THEN start ELSE Step(k, h[k - 1])
    BY <1>7
  <2>2. h[0] \in G[0]
    BY <1>1, <2>1
  <2>3. \A k \in 1 .. MaxPath : h[k - 1] \in G[k - 1] => h[k] \in G[k]
    BY <1>2, <2>1
  <2> QED
    BY <1>1, <2>2, <2>3, RunOfSteps
<1> QED
  BY <1>3, <1>8


\* A walk over the missing files (apply_hash_rename_matches).
LEMMA ByHashLeads ==
  ASSUME NEW order, NEW start, NEW G, start \in G[0],
         \A k \in Path : \A t \in G[k - 1] :
            IF order[k] \in start.missing THEN HashStep(t, order[k], start.missing) \in G[k] ELSE t \in G[k]
  PROVE  ByHash(order, start) \in G[MaxPath]
<1> USE IdentityAssumption DEF Path
<1> DEFINE Step(k, t) == IF order[k] \in start.missing THEN HashStep(t, order[k], start.missing) ELSE t
           h == CHOOSE f : f = [k \in 0 .. MaxPath |-> IF k = 0 THEN start ELSE Step(k, f[k - 1])]
<1>1. MaxPath \in Nat
  OBVIOUS
<1>2. \A k \in 1 .. MaxPath : \A t \in G[k - 1] : Step(k, t) \in G[k]
  OBVIOUS
<1>3. ByHash(order, start) = h[MaxPath]
  BY DEF ByHash
<1> HIDE DEF Step
<1>4. PICK next : \A k \in 1 .. MaxPath : \A t \in G[k - 1] : next[k][t] = Step(k, t)
  <2> DEFINE walk == [k \in 1 .. MaxPath |-> [t \in G[k - 1] |-> Step(k, t)]]
  <2>1. \A k \in 1 .. MaxPath : \A t \in G[k - 1] : walk[k][t] = Step(k, t)
    OBVIOUS
  <2> HIDE DEF walk
  <2> QED
    BY <2>1
<1>5. PICK g : IsWalk(g, MaxPath, G, next, start)
  <2>1. StepsLead(MaxPath, G, next)
    BY <1>2, <1>4 DEF StepsLead
  <2> QED
    BY <1>1, <2>1, StepsCompose
<1>6. g = [k \in 0 .. MaxPath |-> IF k = 0 THEN start ELSE Step(k, g[k - 1])]
  <2>1. ASSUME NEW k \in 1 .. MaxPath PROVE next[k][g[k - 1]] = Step(k, g[k - 1])
    <3>1. k - 1 \in 0 .. MaxPath
      OBVIOUS
    <3>2. g[k - 1] \in G[k - 1]
      BY <1>5, <3>1 DEF IsWalk
    <3> QED
      BY <1>4, <3>2
  <2>2. ASSUME NEW k \in 0 .. MaxPath
        PROVE  g[k] = IF k = 0 THEN start ELSE Step(k, g[k - 1])
    BY <1>5, <2>1 DEF IsWalk
  <2> QED
    BY <1>5, <2>2 DEF IsWalk
<1>7. h = [k \in 0 .. MaxPath |-> IF k = 0 THEN start ELSE Step(k, h[k - 1])]
  BY <1>6
<1> HIDE DEF h
<1>8. h[MaxPath] \in G[MaxPath]
  <2>1. \A k \in 0 .. MaxPath : h[k] = IF k = 0 THEN start ELSE Step(k, h[k - 1])
    BY <1>7
  <2>2. h[0] \in G[0]
    BY <1>1, <2>1
  <2>3. \A k \in 1 .. MaxPath : h[k - 1] \in G[k - 1] => h[k] \in G[k]
    BY <1>2, <2>1
  <2> QED
    BY <1>1, <2>2, <2>3, RunOfSteps
<1> QED
  BY <1>3, <1>8

Match == [page : PageId, from : Path, to : Path]
ResolutionSet == [new : SUBSET Path, missing : SUBSET Path, renames : SUBSET Match,
                  ambiguous : SUBSET Path, ok : BOOLEAN]

\* Each missing and each new file is matched at most once, the page is that of the row.
Resolved(L, r) ==
  /\ r.new \subseteq NewFiles(L)
  /\ r.missing \cup r.ambiguous \subseteq Missing
  /\ r.missing \cap r.ambiguous = {}
  /\ \A m \in r.renames : /\ m.page = row[m.from].page
                          /\ m.from \in Missing \ (r.missing \cup r.ambiguous)
                          /\ m.to \in NewFiles(L) \ r.new
  /\ \A m, n \in r.renames : m.from = n.from \/ m.to = n.to => m = n
  /\ \A p \in NewFiles(L) \ r.new : \E m \in r.renames : m.to = p

\* No file that is left over has the quaid_id of a page whose file is still missing.
NoneHasItsUuid(r, q) == \A w \in r.new : file[w].id # UuidOf(q)

\* The columns of a resolution.
LEMMA ResolutionTypes ==
  ASSUME NEW r \in ResolutionSet
  PROVE  /\ r.new \in SUBSET Path /\ r.missing \in SUBSET Path /\ r.ambiguous \in SUBSET Path
         /\ r.renames \in SUBSET Match /\ r.ok \in BOOLEAN
         /\ \A m \in r.renames : m.page \in PageId /\ m.from \in Path /\ m.to \in Path
<1>1. /\ r.new \in SUBSET Path /\ r.missing \in SUBSET Path /\ r.ambiguous \in SUBSET Path
      /\ r.renames \in SUBSET Match /\ r.ok \in BOOLEAN
  BY DEF ResolutionSet
<1>2. \A m \in r.renames : m.page \in PageId /\ m.from \in Path /\ m.to \in Path
  BY <1>1 DEF Match
<1> QED
  BY <1>1, <1>2

\* A match of a missing file with a new one (record_rename_match).
LEMMA MatchingResolves ==
  ASSUME Tables \in TableSet, NEW L, NEW r \in ResolutionSet, Resolved(L, r),
         NEW from \in r.missing, NEW to \in r.new
  PROVE  LET u == Matched(r, from, to) IN
         /\ u \in ResolutionSet /\ Resolved(L, u)
         /\ u.missing = r.missing \ {from} /\ u.new = r.new \ {to} /\ u.ok = r.ok
<1> DEFINE u == Matched(r, from, to)
           m == [page |-> row[from].page, from |-> from, to |-> to]
<1>1. /\ u.missing = r.missing \ {from} /\ u.new = r.new \ {to} /\ u.ok = r.ok
      /\ u.ambiguous = r.ambiguous /\ u.renames = r.renames \cup {m}
      /\ u = [new |-> u.new, missing |-> u.missing, renames |-> u.renames,
              ambiguous |-> u.ambiguous, ok |-> u.ok]
  <2>1. r = [new |-> r.new, missing |-> r.missing, renames |-> r.renames,
             ambiguous |-> r.ambiguous, ok |-> r.ok]
    BY DEF ResolutionSet
  <2> HIDE DEF m
  <2>2. u = [r EXCEPT !.missing = @ \ {from}, !.new = @ \ {to}, !.renames = @ \cup {m}]
    BY DEF Matched, m
  <2> QED
    BY <2>1, <2>2
<1>2. from \in Missing /\ to \in NewFiles(L) /\ from \in Path /\ to \in Path
  BY ResolutionTypes DEF Resolved
<1>3. row[from].page \in PageId
  <2>1. row[from] # None /\ Tables.row = row
    BY <1>2 DEF Missing, Tracked, Tables
  <2> QED
    BY <1>2, <2>1, TableTypes
<1>4. m \in Match /\ m.page = row[from].page /\ m.from = from /\ m.to = to
  BY <1>2, <1>3 DEF Match
<1> HIDE DEF m, u
<1>5. u \in ResolutionSet
  <2>1. u.renames \in SUBSET Match
    BY <1>1, <1>4, ResolutionTypes
  <2>2. u.missing \in SUBSET Path /\ u.new \in SUBSET Path /\ u.ambiguous \in SUBSET Path
        /\ u.ok \in BOOLEAN
    BY <1>1, ResolutionTypes
  <2> QED
    BY <1>1, <2>1, <2>2 DEF ResolutionSet
<1>6. Resolved(L, u)
  <2>1. /\ u.new \subseteq NewFiles(L)
        /\ u.missing \cup u.ambiguous \subseteq Missing
        /\ u.missing \cap u.ambiguous = {}
    BY <1>1 DEF Resolved
  <2>2. ASSUME NEW n \in u.renames
        PROVE  /\ n.page = row[n.from].page
               /\ n.from \in Missing \ (u.missing \cup u.ambiguous)
               /\ n.to \in NewFiles(L) \ u.new
    BY <1>1, <1>2, <1>4, <2>2 DEF Resolved
  <2>3. ASSUME NEW n \in r.renames PROVE n.from # from /\ n.to # to
    BY <2>3 DEF Resolved
  <2>4. ASSUME NEW n \in u.renames, NEW o \in u.renames, n.from = o.from \/ n.to = o.to
        PROVE  n = o
    <3>1. CASE n = m \/ o = m
      BY <1>1, <1>4, <2>3, <2>4, <3>1
    <3>2. CASE n # m /\ o # m
      BY <1>1, <2>4, <3>2 DEF Resolved
    <3> QED
      BY <3>1, <3>2
  <2>5. ASSUME NEW p \in NewFiles(L) \ u.new PROVE \E n \in u.renames : n.to = p
    <3>1. CASE p = to
      BY <1>1, <1>4, <3>1
    <3>2. CASE p # to
      BY <1>1, <3>2 DEF Resolved
    <3> QED
      BY <3>1, <3>2
  <2> QED
    BY <2>1, <2>2, <2>4, <2>5 DEF Resolved
<1> QED
  BY <1>1, <1>5, <1>6 DEF u

\* A missing file that could be several ones is left alone from then on.
LEMMA AmbiguityResolves ==
  ASSUME NEW L, NEW r \in ResolutionSet, Resolved(L, r), NEW from \in r.missing
  PROVE  LET u == Ambiguous(r, from) IN
         /\ u \in ResolutionSet /\ Resolved(L, u)
         /\ u.missing = r.missing \ {from} /\ u.new = r.new /\ u.ok = r.ok
<1> DEFINE u == Ambiguous(r, from)
<1>1. /\ u.missing = r.missing \ {from} /\ u.new = r.new /\ u.ok = r.ok
      /\ u.ambiguous = r.ambiguous \cup {from} /\ u.renames = r.renames
      /\ u = [new |-> u.new, missing |-> u.missing, renames |-> u.renames,
              ambiguous |-> u.ambiguous, ok |-> u.ok]
  <2>1. r = [new |-> r.new, missing |-> r.missing, renames |-> r.renames,
             ambiguous |-> r.ambiguous, ok |-> r.ok]
    BY DEF ResolutionSet
  <2>2. u = [r EXCEPT !.missing = @ \ {from}, !.ambiguous = @ \cup {from}]
    BY DEF Ambiguous
  <2> HIDE DEF u
  <2> QED
    BY <2>1, <2>2
<1>2. from \in Missing /\ from \in Path
  BY ResolutionTypes DEF Resolved
<1>3. u \in ResolutionSet
  <2>1. /\ u.missing \in SUBSET Path /\ u.new \in SUBSET Path /\ u.ambiguous \in SUBSET Path
        /\ u.renames \in SUBSET Match /\ u.ok \in BOOLEAN
    BY <1>1, <1>2, ResolutionTypes
  <2> QED
    BY <1>1, <2>1 DEF ResolutionSet
<1> HIDE DEF u
<1>4. Resolved(L, u)
  <2>1. /\ u.missing \cup u.ambiguous \subseteq Missing
        /\ u.missing \cap u.ambiguous = {}
        /\ \A m \in r.renames : m.from \in Missing \ (u.missing \cup u.ambiguous)
    BY <1>1, <1>2 DEF Resolved
  <2> QED
    BY <1>1, <2>1 DEF Resolved
<1> QED
  BY <1>1, <1>3, <1>4 DEF u

\* An order of the paths has each of them once.
LEMMA OrdersAreInjective ==
  ASSUME NEW order \in Orders, NEW j \in Path, NEW k \in Path, order[j] = order[k]
  PROVE  j = k
<1>1. Path = 1 .. MaxPath /\ IsFiniteSet(Path)
  BY Numbers, FS_Interval DEF Path
<1>2. order \in Surjection(Path, Path)
  BY <1>1 DEF Orders, Surjection
<1>3. order \in Injection(Path, Path)
  BY <1>1, <1>2, FS_Surjection
<1> QED
  BY <1>3 DEF Injection, IsInjective

\* A step of a walk over the missing files: what it takes away was there, and it comes to
\* nothing only if no file could be the missing one by its quaid_id.
LEMMA UuidStepResolves ==
  ASSUME Tables \in TableSet, NEW L, NEW r \in ResolutionSet, Resolved(L, r),
         NEW from \in r.missing
  PROVE  LET u == UuidStep(r, from) IN
         /\ u \in ResolutionSet /\ Resolved(L, u)
         /\ u.missing \in {r.missing, r.missing \ {from}} /\ u.new \subseteq r.new
         /\ from \in u.missing => NoneHasItsUuid(u, from)
<1> DEFINE found == {to \in r.new : file[to].id = UuidOf(from)}
<1>1. CASE found = {}
  BY <1>1 DEF UuidStep, NoneHasItsUuid
<1>2. CASE found # {} /\ Cardinality(found) = 1
  <2> DEFINE to == CHOOSE q \in found : TRUE
  <2>1. to \in r.new
    BY <1>2
  <2>2. UuidStep(r, from) = Matched(r, from, to)
    BY <1>2 DEF UuidStep
  <2> HIDE DEF to
  <2> QED
    BY <2>1, <2>2, MatchingResolves
<1>3. CASE found # {} /\ Cardinality(found) # 1
  <2>1. UuidStep(r, from) = Ambiguous(r, from)
    BY <1>3 DEF UuidStep
  <2> QED
    BY <2>1, AmbiguityResolves
<1> QED
  BY <1>1, <1>2, <1>3

\* So does a missing file that is looked for by its bytes (apply_hash_rename_matches).
LEMMA HashStepResolves ==
  ASSUME Tables \in TableSet, NEW L, NEW r \in ResolutionSet, Resolved(L, r),
         NEW from \in r.missing, NEW missing
  PROVE  LET u == HashStep(r, from, missing) IN
         /\ u \in ResolutionSet /\ Resolved(L, u)
         /\ u.missing \in {r.missing, r.missing \ {from}} /\ u.new \subseteq r.new
<1> DEFINE same == {to \in r.new : file[to] = row[from].was}
           answer == Identity(from, same, Cardinality(WithBytes(r, missing, from)))
<1>1. CASE ~r.ok \/ same = {}
  BY <1>1 DEF HashStep
<1>2. CASE r.ok /\ same # {} /\ answer = "match"
  <2> DEFINE to == CHOOSE q \in same : TRUE
  <2>1. to \in r.new
    BY <1>2
  <2>2. HashStep(r, from, missing) = Matched(r, from, to)
    BY <1>2 DEF HashStep
  <2> HIDE DEF to
  <2> QED
    BY <2>1, <2>2, MatchingResolves
<1>3. CASE r.ok /\ same # {} /\ answer = "ambiguous"
  <2>1. HashStep(r, from, missing) = Ambiguous(r, from)
    BY <1>3 DEF HashStep
  <2> QED
    BY <2>1, AmbiguityResolves
<1>4. CASE r.ok /\ same # {} /\ answer = "refused"
  <2>1. HashStep(r, from, missing) = [r EXCEPT !.ok = FALSE]
    BY <1>4 DEF HashStep
  <2> DEFINE u == [r EXCEPT !.ok = FALSE]
  <2>2. /\ u.new = r.new /\ u.missing = r.missing /\ u.renames = r.renames
        /\ u.ambiguous = r.ambiguous /\ u \in ResolutionSet
    BY DEF ResolutionSet
  <2> HIDE DEF u
  <2>3. Resolved(L, u)
    BY <2>2 DEF Resolved
  <2> QED
    BY <2>1, <2>2, <2>3 DEF u
<1>5. answer \in {"match", "ambiguous", "refused"}
  BY DEF Identity
<1> QED
  BY <1>1, <1>2, <1>3, <1>4, <1>5

\* What a pass starts to resolve.
LEMMA UnresolvedResolves ==
  ASSUME NEW L
  PROVE  Unresolved(L) \in ResolutionSet /\ Resolved(L, Unresolved(L))
<1>1. NewFiles(L) \subseteq Path /\ Missing \subseteq Path
  BY DEF NewFiles, Missing, Files, Tracked
<1>2. Unresolved(L) \in ResolutionSet
  BY <1>1 DEF Unresolved, ResolutionSet
<1>3. Resolved(L, Unresolved(L))
  BY DEF Unresolved, Resolved
<1> QED
  BY <1>2, <1>3

\* Rename events match missing files with new ones.
LEMMA EventsResolve ==
  ASSUME Tables \in TableSet, moved \in Seq(Path \X Path), NEW L, NEW start \in ResolutionSet,
         Resolved(L, start)
  PROVE  ByEvents(start) \in ResolutionSet /\ Resolved(L, ByEvents(start))
<1> DEFINE R == {r \in ResolutionSet : Resolved(L, r)}
           G == [k \in 0 .. Len(moved) |-> R]
<1>1. Len(moved) \in Nat
  OBVIOUS
<1>2. start \in G[0]
  BY <1>1
<1>3. ASSUME NEW k \in 1 .. Len(moved), NEW r \in G[k - 1]
      PROVE  NativeStep(r, moved[k]) \in G[k]
  <2>1. r \in R /\ G[k] = R
    BY <1>1
  <2>2. CASE moved[k][1] \in r.missing /\ moved[k][2] \in r.new
    <3>1. Matched(r, moved[k][1], moved[k][2]) \in R
      BY <2>1, <2>2, MatchingResolves
    <3> QED
      BY <2>1, <2>2, <3>1 DEF NativeStep
  <2>3. CASE ~(moved[k][1] \in r.missing /\ moved[k][2] \in r.new)
    BY <2>1, <2>3 DEF NativeStep
  <2> QED
    BY <2>2, <2>3
<1> HIDE DEF G
<1>4. ByEvents(start) \in G[Len(moved)]
  BY <1>1, <1>2, <1>3, ByEventsLeads
<1> QED
  BY <1>1, <1>4 DEF G

\* The walk by quaid_id leaves no missing file and new file that have the same.
LEMMA UuidsResolve ==
  ASSUME Tables \in TableSet, NEW order \in Orders, NEW L, NEW start \in ResolutionSet,
         Resolved(L, start)
  PROVE  LET u == ByUuid(order, start) IN
         /\ u \in ResolutionSet /\ Resolved(L, u)
         /\ \A q \in u.missing : NoneHasItsUuid(u, q)
<1> DEFINE In(k) ==
             {r \in ResolutionSet :
                /\ Resolved(L, r)
                /\ r.missing \subseteq start.missing
                /\ \A j \in Path : j > k /\ order[j] \in start.missing => order[j] \in r.missing
                /\ \A j \in Path : j <= k /\ order[j] \in r.missing => NoneHasItsUuid(r, order[j])}
           G == [k \in 0 .. MaxPath |-> In(k)]
<1>1. /\ order \in [Path -> Path]
      /\ \A p \in Path : \E k \in Path : order[k] = p
      /\ \A k \in Path : k \in 0 .. MaxPath /\ k - 1 \in 0 .. MaxPath /\ k \in Nat /\ k > 0
      /\ MaxPath \in 0 .. MaxPath /\ 0 \in 0 .. MaxPath
  <2>1. /\ order \in [Path -> Path]
        /\ \A p \in Path : \E k \in Path : order[k] = p
    BY DEF Orders, Path
  <2>2. /\ \A k \in Path : k \in 0 .. MaxPath /\ k - 1 \in 0 .. MaxPath /\ k \in Nat /\ k > 0
        /\ MaxPath \in 0 .. MaxPath /\ 0 \in 0 .. MaxPath
    BY Numbers DEF Path
  <2> QED
    BY <2>1, <2>2
<1>2. start \in G[0]
  BY <1>1
<1>3. ASSUME NEW k \in Path, NEW r \in G[k - 1]
      PROVE  IF order[k] \in start.missing THEN UuidStep(r, order[k]) \in G[k] ELSE r \in G[k]
  <2>1. r \in In(k - 1) /\ G[k] = In(k)
    BY <1>1
  <2>2. /\ \A j \in Path : (j > k => j > k - 1 /\ j # k) /\ (j <= k /\ j # k => j <= k - 1)
        /\ k > k - 1
    BY Numbers DEF Path
  <2>3. CASE order[k] \in start.missing
    <3> DEFINE u == UuidStep(r, order[k])
    <3>1. order[k] \in r.missing
      BY <2>1, <2>2, <2>3
    <3>2. /\ u \in ResolutionSet /\ Resolved(L, u)
          /\ u.missing \in {r.missing, r.missing \ {order[k]}} /\ u.new \subseteq r.new
          /\ order[k] \in u.missing => NoneHasItsUuid(u, order[k])
      BY <2>1, <3>1, UuidStepResolves
    <3>3. ASSUME NEW j \in Path, j > k, order[j] \in start.missing PROVE order[j] \in u.missing
      <4>1. order[j] \in r.missing /\ order[j] # order[k]
        BY <2>1, <2>2, <3>3, OrdersAreInjective
      <4> QED
        BY <3>2, <4>1
    <3>4. ASSUME NEW j \in Path, j <= k, order[j] \in u.missing
          PROVE  NoneHasItsUuid(u, order[j])
      <4>1. CASE j = k
        BY <3>2, <3>4, <4>1
      <4>2. CASE j # k
        <5>1. order[j] \in r.missing
          BY <3>2, <3>4
        <5>2. NoneHasItsUuid(r, order[j])
          BY <2>1, <2>2, <3>4, <4>2, <5>1
        <5> QED
          BY <3>2, <5>2 DEF NoneHasItsUuid
      <4> QED
        BY <4>1, <4>2
    <3> HIDE DEF u
    <3>5. u \in In(k)
      BY <2>1, <3>2, <3>3, <3>4
    <3> QED
      BY <2>1, <2>3, <3>5 DEF u
  <2>4. CASE order[k] \notin start.missing
    <3>1. r \in In(k)
      BY <2>1, <2>2, <2>4
    <3> QED
      BY <2>1, <2>4, <3>1
  <2> QED
    BY <2>3, <2>4
<1> HIDE DEF G
<1>4. ByUuid(order, start) \in G[MaxPath]
  BY <1>2, <1>3, ByUuidLeads
<1>5. ByUuid(order, start) \in In(MaxPath)
  BY <1>1, <1>4 DEF G
<1>6. \A k \in Path : k <= MaxPath
  BY Numbers DEF Path
<1> QED
  BY <1>1, <1>5, <1>6, ResolutionTypes

\* The walk by bytes keeps that.
LEMMA BytesResolve ==
  ASSUME Tables \in TableSet, NEW order \in Orders, NEW L, NEW start \in ResolutionSet,
         Resolved(L, start), \A q \in start.missing : NoneHasItsUuid(start, q)
  PROVE  LET u == ByHash(order, start) IN
         /\ u \in ResolutionSet /\ Resolved(L, u)
         /\ \A q \in u.missing : NoneHasItsUuid(u, q)
<1> DEFINE In(k) ==
             {r \in ResolutionSet :
                /\ Resolved(L, r)
                /\ r.missing \subseteq start.missing /\ r.new \subseteq start.new
                /\ \A j \in Path : j > k /\ order[j] \in start.missing => order[j] \in r.missing}
           G == [k \in 0 .. MaxPath |-> In(k)]
<1>1. /\ \A k \in Path : k \in 0 .. MaxPath /\ k - 1 \in 0 .. MaxPath /\ k \in Nat /\ k > 0
      /\ MaxPath \in 0 .. MaxPath /\ 0 \in 0 .. MaxPath
  BY Numbers DEF Path
<1>2. start \in G[0]
  BY <1>1
<1>3. ASSUME NEW k \in Path, NEW r \in G[k - 1]
      PROVE  IF order[k] \in start.missing THEN HashStep(r, order[k], start.missing) \in G[k]
                                           ELSE r \in G[k]
  <2>1. r \in In(k - 1) /\ G[k] = In(k)
    BY <1>1
  <2>2. (\A j \in Path : j > k => j > k - 1 /\ j # k) /\ k > k - 1
    BY Numbers DEF Path
  <2>3. CASE order[k] \in start.missing
    <3> DEFINE u == HashStep(r, order[k], start.missing)
    <3>1. order[k] \in r.missing
      BY <2>1, <2>2, <2>3
    <3>2. /\ u \in ResolutionSet /\ Resolved(L, u)
          /\ u.missing \in {r.missing, r.missing \ {order[k]}} /\ u.new \subseteq r.new
      BY <2>1, <3>1, HashStepResolves
    <3>3. ASSUME NEW j \in Path, j > k, order[j] \in start.missing PROVE order[j] \in u.missing
      <4>1. order[j] \in r.missing /\ order[j] # order[k]
        BY <2>1, <2>2, <3>3, OrdersAreInjective
      <4> QED
        BY <3>2, <4>1
    <3> HIDE DEF u
    <3>4. u \in In(k)
      BY <2>1, <3>2, <3>3
    <3> QED
      BY <2>1, <2>3, <3>4 DEF u
  <2>4. CASE order[k] \notin start.missing
    <3>1. r \in In(k)
      BY <2>1, <2>2, <2>4
    <3> QED
      BY <2>1, <2>4, <3>1
  <2> QED
    BY <2>3, <2>4
<1> HIDE DEF G
<1>4. ByHash(order, start) \in G[MaxPath]
  BY <1>2, <1>3, ByHashLeads
<1>5. ByHash(order, start) \in In(MaxPath)
  BY <1>1, <1>4 DEF G
<1> QED
  BY <1>5 DEF NoneHasItsUuid

\* What a pass finds out about the files that are gone (resolve_rename_resolution).
LEMMA ResolutionResolves ==
  ASSUME Tables \in TableSet, moved \in Seq(Path \X Path), NEW order \in Orders, NEW L
  PROVE  LET r == Resolution(L, order) IN
         /\ r \in ResolutionSet /\ Resolved(L, r)
         /\ \A q \in r.missing : NoneHasItsUuid(r, q)
<1>1. Unresolved(L) \in ResolutionSet /\ Resolved(L, Unresolved(L))
  BY UnresolvedResolves
<1>2. CASE NewFiles(L) = {} \/ Missing = {}
  <2>1. Resolution(L, order) = Unresolved(L)
    BY <1>2 DEF Resolution
  <2>2. \A q \in Unresolved(L).missing : NoneHasItsUuid(Unresolved(L), q)
    BY <1>2 DEF Unresolved, NoneHasItsUuid
  <2> QED
    BY <1>1, <2>1, <2>2
<1>3. CASE ~(NewFiles(L) = {} \/ Missing = {})
  <2> DEFINE e == ByEvents(Unresolved(L))
             u == ByUuid(order, e)
  <2>1. Resolution(L, order) = ByHash(order, u)
    BY <1>3 DEF Resolution
  <2>2. e \in ResolutionSet /\ Resolved(L, e)
    BY <1>1, EventsResolve
  <2> HIDE DEF e
  <2>3. u \in ResolutionSet /\ Resolved(L, u) /\ \A q \in u.missing : NoneHasItsUuid(u, q)
    BY <2>2, UuidsResolve
  <2> HIDE DEF u
  <2> QED
    BY <2>1, <2>3, BytesResolve
<1> QED
  BY <1>2, <1>3

-----------------------------------------------------------------------------
(* The transaction of a pass.  Each walk starts with what the one before it *)
(* came to; a transaction that failed is of no interest.                    *)

Before == Tables \in TableSet /\ Good(Tables) /\ file \in [Path -> File \cup {None}]
Targets(r) == {m.to : m \in r.renames}
Gone(r) == {row[q].page : q \in r.missing}

\* No other file gets the row of one that is missing.
RowsOfMissing(t) == \A p \in Missing : t.row[p] \in {row[p], None}

\* The pages there were before are there, or they were of files that are gone.
OldPages(t, gone) ==
  /\ last <= t.last
  /\ \A i \in PageId : page[i] # None =>
       /\ t.page[i] # None => /\ t.page[i].uuid = page[i].uuid
                              /\ page[i].kept => t.page[i].kept
       /\ t.page[i] = None => ~page[i].kept /\ i \in gone

Bound(t, p) == t.row[p] # None /\ t.row[p].was = file[p]
BoundTo(t, p, i) == Bound(t, p) /\ t.row[p].page = i

\* The tables of the transaction after the missing files, ...
Deleted(r, t) ==
  /\ Good(t) /\ OldPages(t, Gone(r)) /\ t.last = last
  /\ \A p \in Path : t.row[p] \in {row[p], None} /\ (p \notin r.missing => t.row[p] = row[p])

\* ... after the renames to paths up to k, ...
Renamed(r, t, k) ==
  /\ Good(t) /\ OldPages(t, Gone(r)) /\ t.last = last /\ RowsOfMissing(t)
  /\ \A m \in r.renames : IF m.to <= k THEN BoundTo(t, m.to, m.page)
                                       ELSE t.row[m.from] = row[m.from]
  /\ \A p \in Path \ (Missing \cup Targets(r)) : t.row[p] = row[p]

\* ... after the modified files up to k, ...
Changed(L, r, t, k) ==
  /\ Good(t) /\ OldPages(t, Gone(r)) /\ t.last = last /\ RowsOfMissing(t)
  /\ \A m \in r.renames : BoundTo(t, m.to, m.page)
  /\ \A p \in Modified(L) : IF p <= k THEN BoundTo(t, p, row[p].page) ELSE t.row[p] = row[p]
  /\ \A p \in Path \ (Missing \cup Targets(r) \cup Modified(L)) : t.row[p] = row[p]

\* ... after the new files up to k ...
Added(L, r, t, k) ==
  /\ Good(t) /\ OldPages(t, Gone(r)) /\ t.last <= last + Cardinality(r.new \cap (1 .. k))
  /\ RowsOfMissing(t)
  /\ \A m \in r.renames : BoundTo(t, m.to, m.page)
  /\ \A p \in Modified(L) : BoundTo(t, p, row[p].page)
  /\ \A p \in r.new : p <= k => Bound(t, p)
  /\ \A p \in Path \ (Missing \cup Targets(r) \cup Modified(L) \cup r.new) : t.row[p] = row[p]

\* ... and after the first k paths of those that are nobody's.
Concluded(L, r, t, order, k) ==
  /\ Good(t) /\ OldPages(t, Gone(r))
  /\ \A m \in r.renames : BoundTo(t, m.to, m.page)
  /\ \A p \in Modified(L) : BoundTo(t, p, row[p].page)
  /\ \A p \in r.new : Bound(t, p)
  /\ \A j \in Path : j <= k /\ order[j] \in L \cap Tracked => t.row[order[j]] = None
  /\ \A p \in L \ Tracked : t.row[p] = None
  /\ \A p \in Files \ (L \cup Targets(r) \cup Modified(L) \cup r.new) : t.row[p] = row[p]

\* The tables that a transaction starts with.
LEMMA TablesAre ==
  /\ Tables.row = row /\ Tables.page = page /\ Tables.last = last /\ Tables.end = "ok"
BY DEF Tables

\* What good tables say of the rows and the files that a pass starts with.
LEMMA RowsLead ==
  ASSUME Before
  PROVE  /\ row \in [Path -> Row \cup {None}] /\ page \in [PageId -> Page \cup {None}]
         /\ last \in 0 .. MaxPages /\ last \in Nat
         /\ \A p \in Tracked : /\ p \in Path /\ row[p].page \in PageId /\ GoodRow(Tables, p)
                               /\ page[row[p].page] # None
         /\ \A p, q \in Tracked : row[p].page = row[q].page => p = q
         /\ \A p \in Files : p \in Path /\ file[p] \in File
<1>1. /\ row \in [Path -> Row \cup {None}] /\ page \in [PageId -> Page \cup {None}]
      /\ last \in 0 .. MaxPages /\ last \in Nat
  BY TablesAre, TableTypes DEF Before
<1>2. \A p \in Tracked : p \in Path /\ row[p].page \in PageId /\ GoodRow(Tables, p)
  BY TablesAre, TableTypes DEF Before, Good, Tracked
<1>3. \A p \in Tracked : page[row[p].page] # None
  BY <1>2, TablesAre DEF GoodRow
<1>4. \A p, q \in Tracked : row[p].page = row[q].page => p = q
  BY <1>2, TablesAre DEF GoodRow
<1>5. \A p \in Files : p \in Path /\ file[p] \in File
  BY DEF Before, Files
<1> QED
  BY <1>1, <1>2, <1>3, <1>4, <1>5

\* Rows that lead to the same page are one row.
LEMMA OneRowEach ==
  ASSUME NEW t \in TableSet, Good(t), NEW p \in Path, NEW q \in Path,
         t.row[p] # None, t.row[q] # None, t.row[p].page = t.row[q].page
  PROVE  p = q
BY DEF Good, GoodRow

\* Steps that carry the pages on keep the old ones.
LEMMA OldPagesStay ==
  ASSUME Before, NEW t \in TableSet, NEW u \in TableSet, NEW gone, OldPages(t, gone), Carries(t, u)
  PROVE  OldPages(u, gone)
<1>1. last \in Nat /\ t.last \in Nat /\ u.last \in Nat
  BY RowsLead, TableTypes
<1>2. last <= u.last
  BY <1>1 DEF OldPages, Carries
<1>3. ASSUME NEW i \in PageId, page[i] # None
      PROVE  /\ u.page[i] # None => /\ u.page[i].uuid = page[i].uuid
                                    /\ page[i].kept => u.page[i].kept
             /\ u.page[i] = None => ~page[i].kept /\ i \in gone
  <2>1. i <= last /\ i \in Nat
    BY <1>3, TablesAre, Numbers DEF Before, Good, GoodPage
  <2>2. ~(i > t.last)
    BY <1>1, <2>1 DEF OldPages
  <2>3. CASE t.page[i] # None
    BY <1>3, <2>3 DEF OldPages, Carries
  <2>4. CASE t.page[i] = None
    BY <1>3, <2>2, <2>4 DEF OldPages, Carries
  <2> QED
    BY <2>3, <2>4
<1> QED
  BY <1>2, <1>3 DEF OldPages

\* A page whose file is gone is deleted, or quarantined if the database has more of it.
LEMMA DeleteStep ==
  ASSUME Before, NEW L, NEW r \in ResolutionSet, Resolved(L, r), NEW p \in r.missing,
         NEW t \in TableSet, t.end = "ok", Deleted(r, t)
  PROVE  LET u == DeleteOrQuarantine(t, p) IN
         u \in TableSet /\ (u.end = "ok" => Deleted(r, u))
<1> DEFINE i == row[p].page
           u == DeleteOrQuarantine(t, p)
<1>1. /\ p \in Path /\ p \in Tracked /\ i \in PageId /\ page[i] # None /\ row[p] # None
      /\ i \in Gone(r)
  BY RowsLead DEF Resolved, Missing, Gone, Tracked
<1>2. \A q \in Path : t.row[q] # None /\ q # p => t.row[q].page # i
  BY <1>1, RowsLead DEF Deleted, Tracked
<1>3. CASE t.page[i] = None
  BY <1>3 DEF DeleteOrQuarantine
<1>4. CASE t.page[i] # None /\ t.page[i].kept
  <2> DEFINE b == Unbind(t, p)
             v == QuarantinePage(b, i)
  <2>1. u = v
    BY <1>4 DEF DeleteOrQuarantine
  <2>2. /\ b \in TableSet /\ Good(b) /\ Carries(t, b) /\ b.last = t.last /\ b.page = t.page
        /\ b.row = [t.row EXCEPT ![p] = None]
    BY <1>1, UnbindingIsGood DEF Deleted
  <2> HIDE DEF b
  <2>3. \A q \in Path : b.row[q] # None => b.row[q].page # i
    BY <1>1, <1>2, <2>2, TableTypes
  <2>4. v \in TableSet /\ Good(v) /\ Carries(b, v) /\ v.last = b.last /\ v.row = b.row
    <3>1. b.page[i] # None
      BY <1>4, <2>2
    <3> QED
      BY <1>1, <2>2, <2>3, <3>1, QuarantiningIsGood
  <2> HIDE DEF v
  <2>5. OldPages(v, Gone(r))
    <3>1. OldPages(b, Gone(r))
      BY <2>2, OldPagesStay DEF Deleted
    <3> QED
      BY <2>2, <2>4, <3>1, OldPagesStay
  <2>6. Deleted(r, v)
    BY <1>1, <2>2, <2>4, <2>5, TableTypes DEF Deleted
  <2> QED
    BY <2>1, <2>4, <2>6
<1>5. CASE t.page[i] # None /\ ~t.page[i].kept
  <2> DEFINE v == DeletePage(t, i)
  <2>1. u = v
    BY <1>5 DEF DeleteOrQuarantine
  <2>2. /\ v \in TableSet /\ Good(v) /\ v.last = t.last
        /\ v.page = [t.page EXCEPT ![i] = None]
        /\ \A q \in Path : v.row[q] = IF t.row[q] # None /\ t.row[q].page = i THEN None
                                      ELSE t.row[q]
    BY <1>1, DeletingIsGood DEF Deleted
  <2> HIDE DEF v
  <2>3. OldPages(v, Gone(r))
    BY <1>1, <1>5, <2>2, TableTypes DEF OldPages, Deleted
  <2>4. Deleted(r, v)
    BY <1>2, <2>2, <2>3 DEF Deleted
  <2> QED
    BY <2>1, <2>2, <2>4
<1> QED
  BY <1>3, <1>4, <1>5

\* A matched file takes its page along (apply_action, RenameFile).
LEMMA RenameStep ==
  ASSUME Before, NEW L, NEW r \in ResolutionSet, Resolved(L, r), NEW m \in r.renames,
         NEW t \in TableSet, t.end = "ok", Good(t), t.row[m.from] = row[m.from]
  PROVE  LET u == Rename(t, m) IN
         /\ u \in TableSet
         /\ u.end = "ok" => /\ Good(u) /\ Carries(t, u) /\ u.last = t.last
                            /\ BoundTo(u, m.to, m.page) /\ u.row[m.from] = None
                            /\ \A q \in Path \ {m.from, m.to} : u.row[q] = t.row[q]
<1> DEFINE u == Rename(t, m)
           b == BindPage(t, m.page, m.to, file[m.to], "pass")
           v == Unbind(b, m.from)
<1>1. /\ m.page = row[m.from].page /\ m.from \in Path /\ m.to \in Path /\ m.page \in PageId
      /\ m.from \in Tracked /\ m.from \notin Files /\ m.to \in Files /\ m.from # m.to
      /\ file[m.to] \in File
  BY ResolutionTypes, RowsLead DEF Resolved, Missing, NewFiles
<1>2. /\ t.row[m.from] # None /\ t.row[m.from].page = m.page
      /\ t.page[m.page] # None /\ t.page[m.page].slug = m.from
  BY <1>1 DEF Tracked, Good, GoodRow
<1>3. u = IF b.end = "ok" THEN v ELSE b
  <2>1. {m.page} \cap {j \in PageId : t.page[j] # None} = {m.page}
    BY <1>1, <1>2
  <2>2. Reingest(t, m.page, m.to) = b
    BY <1>1, <2>1 DEF Reingest
  <2> HIDE DEF b
  <2> QED
    BY <2>2 DEF Rename
<1>4. b \in TableSet /\ (b.end = "ok" => Takes(t, b, m.page, m.to, file[m.to], "pass"))
  BY <1>1, <1>2, BindPageTakes
<1> HIDE DEF b
<1>5. CASE b.end = "ok"
  <2>1. /\ v.row = [b.row EXCEPT ![m.from] = None] /\ v.page = b.page /\ v.last = b.last
        /\ v.end = b.end
        /\ v \in TableSet
    <3>1. /\ v.row = [b.row EXCEPT ![m.from] = None] /\ v.page = b.page /\ v.last = b.last
          /\ v.end = b.end
          /\ v = [row |-> v.row, page |-> v.page, last |-> v.last, end |-> v.end]
      BY <1>4 DEF Unbind, TableSet
    <3>2. v.row \in [Path -> Row \cup {None}]
      BY <1>4, <3>1, TableTypes
    <3> QED
      BY <1>4, <3>1, <3>2, TableTypes DEF TableSet
  <2> HIDE DEF v
  <2>2. /\ v.row[m.to] = [page |-> m.page, was |-> file[m.to], by |-> "pass"]
        /\ v.row[m.from] = None
        /\ \A q \in Path \ {m.from, m.to} : v.row[q] = t.row[q]
    BY <1>1, <1>4, <1>5, <2>1, TableTypes DEF Takes
  <2>3. ASSUME NEW q \in Path \ {m.to}
        PROVE  /\ v.row[q] \in {t.row[q], None}
               /\ t.row[q] # None /\ t.row[q].page = m.page => v.row[q] = None
    <3>1. CASE q = m.from
      BY <2>2, <3>1
    <3>2. CASE q # m.from
      BY <1>1, <1>2, <2>2, <3>2, OneRowEach
    <3> QED
      BY <3>1, <3>2
  <2>4. Binds(t, v, m.page, m.to, file[m.to], "pass", FALSE)
    BY <1>2, <1>4, <1>5, <2>1, <2>2, <2>3 DEF Binds, Takes
  <2>5. Good(v) /\ Carries(t, v)
    BY <1>1, <2>1, <2>4, BindingIsGood, BindingCarries
  <2>6. BoundTo(v, m.to, m.page)
    <3>1. v.row[m.to] # None
      BY <1>1, <2>2, Numbers DEF Row
    <3> QED
      BY <2>2, <3>1 DEF BoundTo, Bound
  <2> QED
    BY <1>3, <1>4, <1>5, <2>1, <2>2, <2>5, <2>6 DEF v, Takes
<1>6. CASE b.end # "ok"
  BY <1>3, <1>4, <1>6
<1> QED
  BY <1>5, <1>6

\* A page takes the file at p, where its row or none is (apply_reingest).
LEMMA TakingIsGood ==
  ASSUME NEW t \in TableSet, t.end = "ok", Good(t), NEW i \in PageId, t.page[i] # None,
         NEW p \in Path, OnlyRow(t, i, p), file[p] \in File
  PROVE  LET u == BindPage(t, i, p, file[p], "pass") IN
         /\ u \in TableSet
         /\ u.end = "ok" => /\ Good(u) /\ Carries(t, u) /\ u.last = t.last
                            /\ BoundTo(u, p, i)
                            /\ \A q \in Path \ {p} : u.row[q] = t.row[q]
<1> DEFINE u == BindPage(t, i, p, file[p], "pass")
<1>1. u \in TableSet /\ (u.end = "ok" => Takes(t, u, i, p, file[p], "pass"))
  BY BindPageTakes
<1> HIDE DEF u
<1>2. CASE u.end = "ok"
  <2>1. Binds(t, u, i, p, file[p], "pass", FALSE)
    BY <1>1, <1>2, TakingBinds
  <2>2. Good(u) /\ Carries(t, u)
    BY <1>1, <2>1, BindingIsGood, BindingCarries
  <2>3. /\ u.last = t.last
        /\ u.row[p] = [page |-> i, was |-> file[p], by |-> "pass"]
        /\ \A q \in Path \ {p} : u.row[q] = t.row[q]
    BY <1>1, <1>2, TableTypes DEF Takes
  <2>4. u.row[p] # None
    BY <2>3, Numbers DEF Row
  <2> QED
    BY <1>1, <2>2, <2>3, <2>4 DEF BoundTo, Bound, u
<1> QED
  BY <1>1, <1>2 DEF u

\* A modified file is read again into its page.
LEMMA ModifiedStep ==
  ASSUME Before, NEW p \in Tracked, p \in Files, NEW t \in TableSet, t.end = "ok", Good(t),
         t.row[p] = row[p]
  PROVE  LET u == Reingest(t, row[p].page, p) IN
         /\ u \in TableSet
         /\ u.end = "ok" => /\ Good(u) /\ Carries(t, u) /\ u.last = t.last
                            /\ BoundTo(u, p, row[p].page)
                            /\ \A q \in Path \ {p} : u.row[q] = t.row[q]
<1> DEFINE i == row[p].page
<1>1. p \in Path /\ i \in PageId /\ row[p] # None /\ file[p] \in File
  BY RowsLead DEF Tracked
<1>2. t.page[i] # None /\ t.page[i].slug = p
  BY <1>1 DEF Good, GoodRow
<1>3. OnlyRow(t, i, p)
  BY <1>1, OneRowEach DEF OnlyRow
<1> HIDE DEF i
<1>4. Reingest(t, i, p) = BindPage(t, i, p, file[p], "pass")
  <2>1. {i} \cap {j \in PageId : t.page[j] # None} = {i}
    BY <1>1, <1>2
  <2> QED
    BY <1>1, <2>1 DEF Reingest
<1>5. LET u == Reingest(t, i, p) IN
         /\ u \in TableSet
         /\ u.end = "ok" => /\ Good(u) /\ Carries(t, u) /\ u.last = t.last
                            /\ BoundTo(u, p, i)
                            /\ \A q \in Path \ {p} : u.row[q] = t.row[q]
  BY <1>1, <1>2, <1>3, <1>4, TakingIsGood
<1> QED
  BY <1>5 DEF i

\* A new file becomes a page, or the import of the one with its slug.
LEMMA NewStep ==
  ASSUME Before, NEW p \in Files, NEW t \in TableSet, t.end = "ok", Good(t), t.last < MaxPages
  PROVE  LET u == Reingest(t, None, p) IN
         /\ u \in TableSet
         /\ u.end = "ok" => /\ Good(u) /\ Carries(t, u) /\ u.last \in {t.last, t.last + 1}
                            /\ Bound(u, p)
                            /\ \A q \in Path \ {p} : u.row[q] = t.row[q]
<1> DEFINE u == Reingest(t, None, p)
<1>1. p \in Path /\ file[p] \in File
  BY RowsLead
<1>2. CASE WithSlug(t, p) = {}
  <2>1. u = InsertPage(t, p, file[p], "pass")
    BY <1>2, Numbers DEF Reingest
  <2> DEFINE v == InsertPage(t, p, file[p], "pass")
  <2>2. /\ v \in TableSet
        /\ v.end = "ok" =>
             /\ Good(v) /\ Carries(t, v) /\ v.last = t.last + 1
             /\ v.row[p] = [page |-> t.last + 1, was |-> file[p], by |-> "pass"]
             /\ \A q \in Path \ {p} : v.row[q] = t.row[q]
    BY <1>1, InsertingIsGood
  <2> HIDE DEF v
  <2>3. CASE v.end = "ok"
    <3>1. v.row[p] = [page |-> t.last + 1, was |-> file[p], by |-> "pass"]
      BY <2>2, <2>3
    <3>2. v.row[p] # None
      <4>1. t.last + 1 \in PageId
        BY TableTypes, Numbers DEF PageId
      <4> QED
        BY <1>1, <3>1, <4>1, Numbers DEF Row
    <3> QED
      BY <2>1, <2>2, <2>3, <3>1, <3>2 DEF v, Bound
  <2> QED
    BY <2>1, <2>2, <2>3 DEF v
<1>3. CASE WithSlug(t, p) # {}
  <2> DEFINE i == CHOOSE j \in WithSlug(t, p) : TRUE
  <2>1. i \in PageId /\ t.page[i] # None /\ t.page[i].slug = p
    BY <1>3 DEF WithSlug
  <2>2. u = BindPage(t, i, p, file[p], "pass")
    BY <1>3, Numbers DEF Reingest
  <2> HIDE DEF i
  <2>3. OnlyRow(t, i, p)
    BY <2>1 DEF OnlyRow, Good, GoodRow
  <2> QED
    BY <1>1, <2>1, <2>2, <2>3, TakingIsGood DEF BoundTo
<1> QED
  BY <1>2, <1>3

\* A file that is nobody's loses its row; its page is quarantined if it has no other
\* (apply_quarantine_unresolved_page).
LEMMA UnresolvedStep ==
  ASSUME Before, NEW p \in Tracked, NEW t \in TableSet, t.end = "ok", Good(t)
  PROVE  LET u == QuarantineUnresolved(t, p) IN
         /\ u \in TableSet /\ u.end = "ok"
         /\ Good(u) /\ Carries(t, u) /\ u.row = [t.row EXCEPT ![p] = None]
<1> DEFINE i == row[p].page
           b == Unbind(t, p)
<1>1. p \in Path /\ i \in PageId
  BY RowsLead
<1>2. /\ b \in TableSet /\ Good(b) /\ Carries(t, b) /\ b.end = "ok" /\ b.page = t.page
      /\ b.last = t.last /\ b.row = [t.row EXCEPT ![p] = None]
  BY <1>1, UnbindingIsGood
<1>3. CASE b.page[i] = None \/ \E q \in Path : b.row[q] # None /\ b.row[q].page = i
  <2>1. QuarantineUnresolved(t, p) = b
    BY <1>3 DEF QuarantineUnresolved
  <2> QED
    BY <1>2, <2>1
<1>4. CASE ~(b.page[i] = None \/ \E q \in Path : b.row[q] # None /\ b.row[q].page = i)
  <2>1. QuarantineUnresolved(t, p) = QuarantinePage(b, i)
    BY <1>4 DEF QuarantineUnresolved
  <2> HIDE DEF b
  <2> DEFINE v == QuarantinePage(b, i)
  <2>2. /\ v \in TableSet /\ Good(v) /\ Carries(b, v) /\ v.end = b.end /\ v.row = b.row
    BY <1>1, <1>2, <1>4, QuarantiningIsGood
  <2> HIDE DEF v
  <2>3. Carries(t, v)
    <3>1. t.last \in Nat /\ b.last = t.last
      BY <1>2, TableTypes
    <3> QED
      BY <1>2, <2>2, <3>1 DEF Carries
  <2> QED
    BY <1>2, <2>1, <2>2, <2>3 DEF v
<1> QED
  BY <1>3, <1>4

\* The walks, one after the other.
LEMMA DeletePhase ==
  ASSUME Before, NEW L, NEW r \in ResolutionSet, Resolved(L, r), NEW order \in Orders
  PROVE  LET t == Apply(r, "missing", r.missing, order, Tables) IN
         t \in TableSet /\ (t.end = "ok" => Deleted(r, t))
<1> DEFINE T == {t \in TableSet : t.end = "ok" => Deleted(r, t)}
           G == [k \in 0 .. MaxPath |-> T]
<1>1. /\ \A k \in Path : k \in 0 .. MaxPath /\ k - 1 \in 0 .. MaxPath
      /\ MaxPath \in 0 .. MaxPath /\ 0 \in 0 .. MaxPath
  BY Numbers DEF Path
<1>2. Tables \in G[0]
  <2>1. Deleted(r, Tables)
    BY TablesAre, RowsLead DEF Deleted, Before, OldPages
  <2> QED
    BY <1>1, <2>1 DEF Before
<1>3. ASSUME NEW k \in Path, NEW t \in G[k - 1]
      PROVE  IF order[k] \in r.missing /\ t.end = "ok"
             THEN Act(r, "missing", t, order[k]) \in G[k] ELSE t \in G[k]
  <2>1. t \in T /\ G[k] = T
    BY <1>1
  <2>2. CASE order[k] \in r.missing /\ t.end = "ok"
    <3>1. DeleteOrQuarantine(t, order[k]) \in T
      BY <2>1, <2>2, DeleteStep
    <3> QED
      BY <2>1, <2>2, <3>1 DEF Act
  <2> QED
    BY <2>1, <2>2
<1>4. order \in [Path -> Path]
  BY DEF Orders, Path
<1> HIDE DEF G
<1>5. Apply(r, "missing", r.missing, order, Tables) \in G[MaxPath]
  BY <1>2, <1>3, <1>4, ApplyLeads
<1> QED
  BY <1>1, <1>5 DEF G

\* The renamed files, in the order of their new paths.
LEMMA RenamePhase ==
  ASSUME Before, NEW L, NEW r \in ResolutionSet, Resolved(L, r),
         NEW start \in TableSet, start.end = "ok" => Deleted(r, start)
  PROVE  LET t == Apply(r, "renamed", Targets(r), Sorted, start) IN
         t \in TableSet /\ (t.end = "ok" => Renamed(r, t, MaxPath))
<1> DEFINE In(k) == {t \in TableSet : t.end = "ok" => Renamed(r, t, k)}
           G == [k \in 0 .. MaxPath |-> In(k)]
<1>1. /\ \A k \in Path : k \in 0 .. MaxPath /\ k - 1 \in 0 .. MaxPath /\ k \in Nat /\ k > 0
      /\ MaxPath \in 0 .. MaxPath /\ 0 \in 0 .. MaxPath
      /\ \A k \in Path : Sorted[k] = k
      /\ \A j, k \in Path : (j <= k - 1 => j <= k /\ j # k) /\ (j <= k /\ j # k => j <= k - 1)
                            /\ ~(k <= k - 1) /\ k <= k
  BY Numbers DEF Path, Sorted
<1>2. start \in G[0]
  <2>1. ASSUME start.end = "ok" PROVE Renamed(r, start, 0)
    <3>1. \A m \in r.renames : ~(m.to <= 0) /\ start.row[m.from] = row[m.from]
      BY <1>1, <2>1, ResolutionTypes, RowsLead DEF Deleted, Resolved, Missing
    <3>2. RowsOfMissing(start)
      BY <2>1, RowsLead DEF Deleted, RowsOfMissing, Missing
    <3> QED
      BY <2>1, <3>1, <3>2 DEF Renamed, Deleted, Resolved
  <2> QED
    BY <1>1, <2>1
<1>3. ASSUME NEW k \in Path, NEW t \in G[k - 1]
      PROVE  IF Sorted[k] \in Targets(r) /\ t.end = "ok"
             THEN Act(r, "renamed", t, Sorted[k]) \in G[k] ELSE t \in G[k]
  <2>1. t \in In(k - 1) /\ G[k] = In(k) /\ Sorted[k] = k
    BY <1>1
  <2>2. CASE k \in Targets(r) /\ t.end = "ok"
    <3> DEFINE m == CHOOSE n \in r.renames : n.to = k
               u == Rename(t, m)
    <3>1. m \in r.renames /\ m.to = k
      BY <2>2 DEF Targets
    <3>2. Act(r, "renamed", t, k) = u
      BY DEF Act
    <3> HIDE DEF m
    <3>3. Renamed(r, t, k - 1)
      BY <2>1, <2>2
    <3>4. t.row[m.from] = row[m.from]
      BY <1>1, <3>1, <3>3 DEF Renamed
    <3>5. /\ u \in TableSet
          /\ u.end = "ok" => /\ Good(u) /\ Carries(t, u) /\ u.last = t.last
                             /\ BoundTo(u, k, m.page) /\ u.row[m.from] = None
                             /\ \A q \in Path \ {m.from, k} : u.row[q] = t.row[q]
      BY <2>1, <2>2, <3>1, <3>3, <3>4, RenameStep DEF Renamed
    <3> HIDE DEF u
    <3>6. ASSUME u.end = "ok" PROVE Renamed(r, u, k)
      <4>1. OldPages(u, Gone(r))
        BY <2>1, <3>3, <3>5, <3>6, OldPagesStay DEF Renamed
      <4>2. m.from \in Missing
        BY <3>1 DEF Resolved
      <4>3. ASSUME NEW n \in r.renames
            PROVE  IF n.to <= k THEN BoundTo(u, n.to, n.page) ELSE u.row[n.from] = row[n.from]
        <5>1. n.to \in Path /\ n.from \in Path /\ n.from \in Missing /\ n.to \in Files
          BY ResolutionTypes DEF Resolved, NewFiles
        <5>2. CASE n = m
          BY <1>1, <3>1, <3>5, <3>6, <5>2
        <5>3. CASE n # m /\ n.to <= k
          <6>1. n.to # k /\ n.to <= k - 1 /\ n.to # m.from
            BY <1>1, <3>1, <4>2, <5>1, <5>3 DEF Resolved, Missing
          <6>2. BoundTo(t, n.to, n.page)
            BY <3>3, <6>1 DEF Renamed
          <6>3. u.row[n.to] = t.row[n.to]
            BY <3>5, <3>6, <5>1, <6>1
          <6> QED
            BY <5>3, <6>2, <6>3 DEF BoundTo, Bound
        <5>4. CASE n # m /\ ~(n.to <= k)
          <6>1. n.from # m.from /\ n.from # k /\ ~(n.to <= k - 1)
            BY <1>1, <3>1, <5>1, <5>4 DEF Resolved, Missing, NewFiles
          <6>2. u.row[n.from] = t.row[n.from] /\ t.row[n.from] = row[n.from]
            BY <3>3, <3>5, <3>6, <5>1, <6>1 DEF Renamed
          <6> QED
            BY <5>4, <6>2
        <5> QED
          BY <5>2, <5>3, <5>4
      <4>4. ASSUME NEW p \in Path \ (Missing \cup Targets(r)) PROVE u.row[p] = row[p]
        <5>1. p # m.from /\ p # k
          BY <2>2, <4>2
        <5> QED
          BY <3>3, <3>5, <3>6, <5>1 DEF Renamed
      <4>5. ASSUME NEW p \in Missing PROVE u.row[p] \in {row[p], None}
        <5>1. p \in Path /\ p # k
          BY <3>1, <4>5, RowsLead DEF Missing, Resolved, NewFiles
        <5> QED
          BY <3>3, <3>5, <3>6, <5>1 DEF Renamed, RowsOfMissing
      <4>6. RowsOfMissing(u)
        BY <4>5 DEF RowsOfMissing
      <4> QED
        BY <3>3, <3>5, <3>6, <4>1, <4>3, <4>4, <4>6 DEF Renamed
    <3> QED
      BY <2>1, <2>2, <3>2, <3>5, <3>6
  <2>3. CASE ~(k \in Targets(r) /\ t.end = "ok")
    <3>1. ASSUME t.end = "ok" PROVE Renamed(r, t, k)
      <4>1. \A n \in r.renames : n.to # k /\ n.to \in Path
        BY <2>3, <3>1, ResolutionTypes DEF Targets
      <4>2. Renamed(r, t, k - 1)
        BY <2>1, <3>1
      <4>3. \A n \in r.renames : n.to <= k <=> n.to <= k - 1
        BY <1>1, <4>1
      <4> QED
        BY <4>2, <4>3 DEF Renamed
    <3> QED
      BY <2>1, <2>3, <3>1
  <2> QED
    BY <2>1, <2>2, <2>3
<1>4. Sorted \in [Path -> Path]
  BY DEF Sorted
<1> HIDE DEF G
<1>5. Apply(r, "renamed", Targets(r), Sorted, start) \in G[MaxPath]
  BY <1>2, <1>3, <1>4, ApplyLeads
<1> QED
  BY <1>1, <1>5 DEF G

\* The modified files.
LEMMA ModifyPhase ==
  ASSUME Before, NEW L, NEW r \in ResolutionSet, Resolved(L, r),
         NEW start \in TableSet, start.end = "ok" => Renamed(r, start, MaxPath)
  PROVE  LET t == Apply(r, "modified", Modified(L), Sorted, start) IN
         t \in TableSet /\ (t.end = "ok" => Changed(L, r, t, MaxPath))
<1> DEFINE In(k) == {t \in TableSet : t.end = "ok" => Changed(L, r, t, k)}
           G == [k \in 0 .. MaxPath |-> In(k)]
<1>1. /\ \A k \in Path : k \in 0 .. MaxPath /\ k - 1 \in 0 .. MaxPath /\ k \in Nat /\ k > 0
                         /\ ~(k <= 0) /\ k <= MaxPath
      /\ MaxPath \in 0 .. MaxPath /\ 0 \in 0 .. MaxPath
      /\ \A k \in Path : Sorted[k] = k
      /\ \A j, k \in Path : (j <= k - 1 => j <= k /\ j # k) /\ (j <= k /\ j # k => j <= k - 1)
                            /\ ~(k <= k - 1) /\ k <= k
  BY Numbers DEF Path, Sorted
<1>2. \A p \in Modified(L) : /\ p \in Path /\ p \in Tracked /\ p \in Files
                             /\ p \notin Missing /\ p \notin Targets(r)
  BY RowsLead DEF Modified, Missing, Targets, Resolved, NewFiles
<1>3. \A m \in r.renames : m.to \in Path /\ m.to \notin Modified(L)
  BY <1>2, ResolutionTypes DEF Targets
<1>4. start \in G[0]
  <2>1. ASSUME start.end = "ok" PROVE Changed(L, r, start, 0)
    BY <1>1, <1>2, <1>3, <2>1 DEF Changed, Renamed
  <2> QED
    BY <1>1, <2>1
<1>5. ASSUME NEW k \in Path, NEW t \in G[k - 1]
      PROVE  IF Sorted[k] \in Modified(L) /\ t.end = "ok"
             THEN Act(r, "modified", t, Sorted[k]) \in G[k] ELSE t \in G[k]
  <2>1. t \in In(k - 1) /\ G[k] = In(k) /\ Sorted[k] = k
    BY <1>1
  <2>2. CASE k \in Modified(L) /\ t.end = "ok"
    <3> DEFINE u == Reingest(t, row[k].page, k)
    <3>1. Act(r, "modified", t, k) = u
      BY DEF Act
    <3>2. Changed(L, r, t, k - 1)
      BY <2>1, <2>2
    <3>3. t.row[k] = row[k]
      BY <1>1, <2>2, <3>2 DEF Changed
    <3>4. /\ u \in TableSet
          /\ u.end = "ok" => /\ Good(u) /\ Carries(t, u) /\ u.last = t.last
                             /\ BoundTo(u, k, row[k].page)
                             /\ \A q \in Path \ {k} : u.row[q] = t.row[q]
      BY <1>2, <2>1, <2>2, <3>2, <3>3, ModifiedStep DEF Changed
    <3> HIDE DEF u
    <3>5. ASSUME u.end = "ok" PROVE Changed(L, r, u, k)
      <4>1. OldPages(u, Gone(r))
        BY <2>1, <3>2, <3>4, <3>5, OldPagesStay DEF Changed
      <4>2. \A m \in r.renames : BoundTo(u, m.to, m.page)
        BY <1>3, <2>2, <3>2, <3>4, <3>5 DEF Changed, BoundTo, Bound
      <4>3. ASSUME NEW p \in Modified(L)
            PROVE  IF p <= k THEN BoundTo(u, p, row[p].page) ELSE u.row[p] = row[p]
        <5>1. CASE p = k
          BY <1>1, <3>4, <3>5, <5>1
        <5>2. CASE p # k
          <6>1. u.row[p] = t.row[p] /\ (p <= k <=> p <= k - 1)
            BY <1>1, <1>2, <3>4, <3>5, <5>2
          <6>2. IF p <= k - 1 THEN BoundTo(t, p, row[p].page) ELSE t.row[p] = row[p]
            BY <3>2 DEF Changed
          <6> QED
            BY <6>1, <6>2 DEF BoundTo, Bound
        <5> QED
          BY <5>1, <5>2
      <4>4. \A p \in Path \ (Missing \cup Targets(r) \cup Modified(L)) : u.row[p] = row[p]
        BY <2>2, <3>2, <3>4, <3>5 DEF Changed
      <4>5. RowsOfMissing(u)
        BY <1>2, <2>2, <3>2, <3>4, <3>5, RowsLead DEF Changed, RowsOfMissing, Missing
      <4> QED
        BY <3>2, <3>4, <3>5, <4>1, <4>2, <4>3, <4>4, <4>5 DEF Changed
    <3> QED
      BY <2>1, <2>2, <3>1, <3>4, <3>5
  <2>3. CASE ~(k \in Modified(L) /\ t.end = "ok")
    <3>1. ASSUME t.end = "ok" PROVE Changed(L, r, t, k)
      <4>1. \A p \in Modified(L) : p <= k <=> p <= k - 1
        BY <1>1, <1>2, <2>3, <3>1
      <4> QED
        BY <2>1, <3>1, <4>1 DEF Changed
    <3> QED
      BY <2>1, <2>3, <3>1
  <2> QED
    BY <2>1, <2>2, <2>3
<1>6. Sorted \in [Path -> Path]
  BY DEF Sorted
<1> HIDE DEF G
<1>7. Apply(r, "modified", Modified(L), Sorted, start) \in G[MaxPath]
  BY <1>4, <1>5, <1>6, ApplyLeads
<1>8. \A t \in In(MaxPath) : t \in TableSet /\ (t.end = "ok" => Changed(L, r, t, MaxPath))
  OBVIOUS
<1> QED
  BY <1>1, <1>7, <1>8 DEF G

\* The numbers given out are at most as many as there are new files.
LEMMA CountsGrow ==
  ASSUME NEW S \in SUBSET Path, NEW k \in Path
  PROVE  /\ IsFiniteSet(S) /\ Cardinality(S \cap (1 .. k)) \in Nat
         /\ Cardinality(S \cap (1 .. (k - 1))) \in Nat
         /\ Cardinality(S \cap (1 .. k)) <= Cardinality(S)
         /\ Cardinality(S \cap (1 .. (k - 1))) <= Cardinality(S \cap (1 .. k))
         /\ k \in S => Cardinality(S \cap (1 .. k)) = Cardinality(S \cap (1 .. (k - 1))) + 1
<1>1. IsFiniteSet(S)
  <2>1. IsFiniteSet(Path)
    BY Numbers, FS_Interval DEF Path
  <2> QED
    BY <2>1, FS_Subset
<1>2. k \in Nat /\ k >= 1 /\ \A j \in S : j \in Nat /\ j >= 1
  BY Numbers DEF Path
<1> DEFINE A == S \cap (1 .. (k - 1))
           B == S \cap (1 .. k)
<1>3. /\ A \subseteq B /\ B \subseteq S /\ k \notin A
      /\ k \in S => B = A \cup {k}
  <2>1. A \subseteq B /\ B \subseteq S /\ k \notin A
    BY <1>2
  <2>2. ASSUME k \in S PROVE B = A \cup {k}
    <3>1. \A j \in S : j \in 1 .. k <=> j \in 1 .. (k - 1) \/ j = k
      BY <1>2
    <3> QED
      BY <2>2, <3>1
  <2> QED
    BY <2>1, <2>2
<1>4. IsFiniteSet(A) /\ IsFiniteSet(B)
  BY <1>1, <1>3, FS_Subset
<1>5. Cardinality(A) \in Nat /\ Cardinality(B) \in Nat
  BY <1>4, FS_CardinalityType
<1>6. Cardinality(A) <= Cardinality(B) /\ Cardinality(B) <= Cardinality(S)
  BY <1>1, <1>3, <1>4, FS_Subset
<1>7. k \in S => Cardinality(B) = Cardinality(A) + 1
  BY <1>3, <1>4, FS_AddElement
<1> QED
  BY <1>1, <1>5, <1>6, <1>7

\* The new files; there is room for a page for each.
LEMMA AddPhase ==
  ASSUME Before, Room, NEW L, NEW r \in ResolutionSet, Resolved(L, r),
         NEW start \in TableSet, start.end = "ok" => Changed(L, r, start, MaxPath)
  PROVE  LET t == Apply(r, "new", r.new, Sorted, start) IN
         t \in TableSet /\ (t.end = "ok" => Added(L, r, t, MaxPath))
<1> DEFINE In(k) == {t \in TableSet : t.end = "ok" => Added(L, r, t, k)}
           G == [k \in 0 .. MaxPath |-> In(k)]
<1>1. /\ \A k \in Path : k \in 0 .. MaxPath /\ k - 1 \in 0 .. MaxPath /\ k \in Nat /\ k > 0
                         /\ ~(k <= 0) /\ k <= MaxPath
      /\ MaxPath \in 0 .. MaxPath /\ 0 \in 0 .. MaxPath
      /\ \A k \in Path : Sorted[k] = k
      /\ \A j, k \in Path : (j <= k - 1 => j <= k /\ j # k) /\ (j <= k /\ j # k => j <= k - 1)
                            /\ ~(k <= k - 1) /\ k <= k
  BY Numbers DEF Path, Sorted
<1>2. \A p \in r.new : /\ p \in Path /\ p \in Files /\ p \notin Tracked
                       /\ p \notin Targets(r) /\ p \notin Modified(L)
  BY RowsLead DEF Modified, Targets, Resolved, NewFiles
<1>3. \A m \in r.renames : m.to \in Path /\ m.to \notin r.new
  BY <1>2, ResolutionTypes DEF Targets
<1>4. r.new \in SUBSET Path /\ last \in Nat
  BY <1>2, RowsLead
<1>5. last + Cardinality(r.new) <= MaxPages
  <2>1. IsFiniteSet(Files) /\ Files \subseteq Path
    <3>1. IsFiniteSet(Path)
      BY Numbers, FS_Interval DEF Path
    <3> QED
      BY <3>1, FS_Subset DEF Files
  <2>2. r.new \subseteq Files
    BY <1>2
  <2>3. Cardinality(r.new) <= Cardinality(Files) /\ Cardinality(r.new) \in Nat
        /\ Cardinality(Files) \in Nat
    BY <2>1, <2>2, FS_Subset, FS_CardinalityType
  <2> QED
    BY <1>4, <2>3, Numbers DEF Room
<1>6. start \in G[0]
  <2>1. ASSUME start.end = "ok" PROVE Added(L, r, start, 0)
    <3>1. r.new \cap (1 .. 0) = {} /\ Cardinality({}) = 0
      BY FS_EmptySet
    <3>2. start.last <= last + Cardinality(r.new \cap (1 .. 0))
      BY <1>4, <2>1, <3>1 DEF Changed
    <3> QED
      BY <1>1, <1>2, <2>1, <3>2, RowsLead DEF Added, Changed, Modified
  <2> QED
    BY <1>1, <2>1
<1>7. ASSUME NEW k \in Path, NEW t \in G[k - 1]
      PROVE  IF Sorted[k] \in r.new /\ t.end = "ok"
             THEN Act(r, "new", t, Sorted[k]) \in G[k] ELSE t \in G[k]
  <2>1. t \in In(k - 1) /\ G[k] = In(k) /\ Sorted[k] = k
    BY <1>1
  <2> DEFINE a == Cardinality(r.new \cap (1 .. (k - 1)))
             c == Cardinality(r.new \cap (1 .. k))
  <2>2. /\ a \in Nat /\ c \in Nat /\ a <= c /\ c <= Cardinality(r.new)
        /\ Cardinality(r.new) \in Nat
        /\ k \in r.new => c = a + 1
    BY <1>4, CountsGrow, FS_CardinalityType
  <2> HIDE DEF a, c
  <2>3. CASE k \in r.new /\ t.end = "ok"
    <3> DEFINE u == Reingest(t, None, k)
    <3>1. Act(r, "new", t, k) = u
      BY DEF Act
    <3>2. Added(L, r, t, k - 1) /\ t.last <= last + a /\ t.last \in Nat
      BY <2>1, <2>3, TableTypes DEF Added, a
    <3>3. t.last < MaxPages
      BY <1>4, <1>5, <2>2, <2>3, <3>2, Numbers
    <3>4. /\ u \in TableSet
          /\ u.end = "ok" => /\ Good(u) /\ Carries(t, u) /\ u.last \in {t.last, t.last + 1}
                             /\ Bound(u, k)
                             /\ \A q \in Path \ {k} : u.row[q] = t.row[q]
      BY <1>2, <2>1, <2>3, <3>2, <3>3, NewStep DEF Added
    <3> HIDE DEF u
    <3>5. ASSUME u.end = "ok" PROVE Added(L, r, u, k)
      <4>1. OldPages(u, Gone(r))
        BY <2>1, <3>2, <3>4, <3>5, OldPagesStay DEF Added
      <4>2. u.last <= last + c
        BY <1>4, <2>2, <2>3, <3>2, <3>4, <3>5
      <4>3. \A m \in r.renames : BoundTo(u, m.to, m.page)
        BY <1>3, <2>3, <3>2, <3>4, <3>5 DEF Added, BoundTo, Bound
      <4>4. \A p \in Modified(L) : BoundTo(u, p, row[p].page)
        BY <1>2, <2>3, <3>2, <3>4, <3>5, RowsLead DEF Added, BoundTo, Bound, Modified
      <4>5. \A p \in r.new : p <= k => Bound(u, p)
        BY <1>1, <1>2, <3>2, <3>4, <3>5 DEF Added, Bound
      <4>6. \A p \in Path \ (Missing \cup Targets(r) \cup Modified(L) \cup r.new) :
              u.row[p] = row[p]
        BY <2>3, <3>2, <3>4, <3>5 DEF Added
      <4>7. RowsOfMissing(u)
        BY <1>2, <2>3, <3>2, <3>4, <3>5, RowsLead DEF Added, RowsOfMissing, Missing
      <4> QED
        BY <3>4, <3>5, <4>1, <4>2, <4>3, <4>4, <4>5, <4>6, <4>7 DEF Added, c
    <3> QED
      BY <2>1, <2>3, <3>1, <3>4, <3>5
  <2>4. CASE ~(k \in r.new /\ t.end = "ok")
    <3>1. ASSUME t.end = "ok" PROVE Added(L, r, t, k)
      <4>1. \A p \in r.new : p <= k <=> p <= k - 1
        BY <1>1, <1>2, <2>4, <3>1
      <4>2. t.last <= last + a /\ t.last \in Nat
        BY <2>1, <3>1, TableTypes DEF Added, a
      <4>3. t.last <= last + c
        BY <1>4, <2>2, <4>2
      <4> QED
        BY <2>1, <3>1, <4>1, <4>3 DEF Added, c
    <3> QED
      BY <2>1, <2>4, <3>1
  <2> QED
    BY <2>1, <2>3, <2>4
<1>8. Sorted \in [Path -> Path]
  BY DEF Sorted
<1> HIDE DEF G
<1>9. Apply(r, "new", r.new, Sorted, start) \in G[MaxPath]
  BY <1>6, <1>7, <1>8, ApplyLeads
<1>10. \A t \in In(MaxPath) : t \in TableSet /\ (t.end = "ok" => Added(L, r, t, MaxPath))
  OBVIOUS
<1> QED
  BY <1>1, <1>9, <1>10 DEF G

\* The files that are nobody's: ambiguous ones and tracked twins.
LEMMA UnresolvedPhase ==
  ASSUME Before, NEW L \in SUBSET Files, NEW r \in ResolutionSet, Resolved(L, r),
         NEW order \in Orders, NEW start \in TableSet,
         start.end = "ok" => Added(L, r, start, MaxPath)
  PROVE  LET t == Apply(r, "unresolved", r.ambiguous \cup (L \cap Tracked), order, start) IN
         t \in TableSet /\ (t.end = "ok" => Concluded(L, r, t, order, MaxPath))
<1> DEFINE In(k) == {t \in TableSet : t.end = "ok" => Concluded(L, r, t, order, k)}
           G == [k \in 0 .. MaxPath |-> In(k)]
           S == r.ambiguous \cup (L \cap Tracked)
<1>1. /\ \A k \in Path : k \in 0 .. MaxPath /\ k - 1 \in 0 .. MaxPath /\ k \in Nat /\ k > 0
                         /\ ~(k <= 0) /\ k <= MaxPath
      /\ MaxPath \in 0 .. MaxPath /\ 0 \in 0 .. MaxPath
      /\ \A j, k \in Path : (j <= k - 1 => j <= k /\ j # k) /\ (j <= k /\ j # k => j <= k - 1)
                            /\ ~(k <= k - 1) /\ k <= k
  BY Numbers DEF Path
<1>2. \A p \in S : /\ p \in Tracked /\ p \in Path
                   /\ p \notin Targets(r) /\ p \notin Modified(L) /\ p \notin r.new
                   /\ p \notin Files \ L
  BY RowsLead DEF Modified, Targets, Resolved, NewFiles, Missing
<1>3. /\ \A m \in r.renames : m.to \in Path /\ m.to \notin S
      /\ \A p \in Modified(L) : p \in Path /\ p \notin S
      /\ \A p \in r.new : p \in Path /\ p \notin S /\ p <= MaxPath
      /\ \A p \in Files : p \in Path
  BY <1>1, <1>2, RowsLead, ResolutionTypes DEF Targets, Modified
<1>4. start \in G[0]
  <2>1. ASSUME start.end = "ok" PROVE Concluded(L, r, start, order, 0)
    <3>1. \A p \in L \ Tracked : start.row[p] = None
      <4>1. \A p \in L \ Tracked : /\ p \in Path /\ row[p] = None
                                  /\ p \notin Missing \cup Targets(r) \cup Modified(L) \cup r.new
        BY <1>3, ResolutionTypes DEF Tracked, Missing, Targets, Modified, Resolved, NewFiles
      <4> QED
        BY <2>1, <4>1 DEF Added
    <3>2. \A p \in Files \ (L \cup Targets(r) \cup Modified(L) \cup r.new) :
             start.row[p] = row[p]
      BY <1>3, <2>1 DEF Added, Missing
    <3>3. \A p \in r.new : Bound(start, p)
      BY <1>3, <2>1 DEF Added
    <3> QED
      BY <1>1, <2>1, <3>1, <3>2, <3>3 DEF Added, Concluded
  <2> QED
    BY <1>1, <2>1
<1>5. order \in [Path -> Path]
  BY DEF Orders, Path
<1> HIDE DEF S
<1>6. ASSUME NEW k \in Path, NEW t \in G[k - 1]
      PROVE  IF order[k] \in S /\ t.end = "ok"
             THEN Act(r, "unresolved", t, order[k]) \in G[k] ELSE t \in G[k]
  <2>1. t \in In(k - 1) /\ G[k] = In(k)
    BY <1>1
  <2>2. CASE order[k] \in S /\ t.end = "ok"
    <3> DEFINE p == order[k]
               u == QuarantineUnresolved(t, p)
    <3>1. Act(r, "unresolved", t, p) = u
      BY DEF Act
    <3>2. Concluded(L, r, t, order, k - 1)
      BY <2>1, <2>2
    <3>3. p \in Tracked /\ p \in Path /\ p \in S
      BY <1>2, <2>2
    <3>4. /\ u \in TableSet /\ u.end = "ok"
          /\ Good(u) /\ Carries(t, u) /\ u.row = [t.row EXCEPT ![p] = None]
      BY <2>1, <2>2, <3>2, <3>3, UnresolvedStep DEF Concluded
    <3> HIDE DEF u
    <3>5. Concluded(L, r, u, order, k)
      <4>0. u.row[p] = None /\ \A q \in Path \ {p} : u.row[q] = t.row[q]
        BY <2>1, <3>3, <3>4, TableTypes
      <4>1. OldPages(u, Gone(r))
        BY <2>1, <3>2, <3>4, OldPagesStay DEF Concluded
      <4>2. \A m \in r.renames : BoundTo(u, m.to, m.page)
        BY <1>3, <3>2, <3>3, <4>0 DEF Concluded, BoundTo, Bound
      <4>3. \A q \in Modified(L) : BoundTo(u, q, row[q].page)
        BY <1>3, <3>2, <3>3, <4>0 DEF Concluded, BoundTo, Bound
      <4>4. \A q \in r.new : Bound(u, q)
        BY <1>3, <3>2, <3>3, <4>0 DEF Concluded, Bound
      <4>5. ASSUME NEW j \in Path, j <= k, order[j] \in L \cap Tracked
            PROVE  u.row[order[j]] = None
        <5>1. CASE order[j] = p
          BY <4>0, <5>1
        <5>2. CASE order[j] # p
          <6>1. j <= k - 1
            BY <1>1, <4>5, <5>2
          <6>2. t.row[order[j]] = None
            BY <3>2, <4>5, <6>1 DEF Concluded
          <6> QED
            BY <1>5, <4>0, <5>2, <6>2
        <5> QED
          BY <5>1, <5>2
      <4>6. \A q \in L \ Tracked : u.row[q] = None
        BY <1>3, <3>2, <3>3, <4>0 DEF Concluded
      <4>7. ASSUME NEW q \in Files \ (L \cup Targets(r) \cup Modified(L) \cup r.new)
            PROVE  u.row[q] = row[q]
        <5>1. q # p /\ q \in Path
          BY <1>2, <1>3, <3>3
        <5> QED
          BY <3>2, <4>0, <5>1 DEF Concluded
      <4> QED
        BY <3>4, <4>1, <4>2, <4>3, <4>4, <4>5, <4>6, <4>7 DEF Concluded
    <3> QED
      BY <2>1, <2>2, <3>1, <3>4, <3>5
  <2>3. CASE ~(order[k] \in S /\ t.end = "ok")
    <3>1. ASSUME t.end = "ok" PROVE Concluded(L, r, t, order, k)
      <4>1. ASSUME NEW j \in Path, j <= k, order[j] \in L \cap Tracked PROVE j <= k - 1
        BY <1>1, <2>3, <3>1, <4>1 DEF S
      <4> QED
        BY <2>1, <3>1, <4>1 DEF Concluded
    <3> QED
      BY <2>1, <2>3, <3>1
  <2> QED
    BY <2>1, <2>2, <2>3
<1> HIDE DEF G
<1>7. Apply(r, "unresolved", S, order, start) \in G[MaxPath]
  BY <1>4, <1>5, <1>6, ApplyLeads
<1>8. \A t \in In(MaxPath) : /\ t \in TableSet
                             /\ t.end = "ok" => Concluded(L, r, t, order, MaxPath)
  OBVIOUS
<1> QED
  BY <1>1, <1>7, <1>8 DEF G, S

\* What a pass that gets through makes of the files, whichever files of those that share a
\* quaid_id it leaves out and in whichever order it walks (apply_reconciliation).
LEMMA OutcomeIs ==
  ASSUME Before, Room, moved \in Seq(Path \X Path), NEW L \in LoserSets, NEW order \in Orders
  PROVE  LET t == Outcome(L, order)
             r == Resolution(L, order)
         IN /\ t.end \in {"ok", "failed", "refused"}
            /\ t.end = "ok" =>
                 /\ t \in TableSet /\ Good(t) /\ OldPages(t, Gone(r))
                 /\ \A p \in Files \ L : Bound(t, p)
                 /\ \A p \in (Files \ L) \cap Tracked : t.row[p].page = row[p].page
                 /\ \A m \in r.renames : BoundTo(t, m.to, m.page)
                 /\ \A p \in L : t.row[p] = None
<1> DEFINE r == Resolution(L, order)
           a == Apply(r, "missing", r.missing, order, Tables)
           b == Apply(r, "renamed", Targets(r), Sorted, a)
           c == Apply(r, "modified", Modified(L), Sorted, b)
           d == Apply(r, "new", r.new, Sorted, c)
           e == Apply(r, "unresolved", r.ambiguous \cup (L \cap Tracked), order, d)
<1>1. Outcome(L, order) = IF r.ok THEN e ELSE [Tables EXCEPT !.end = "refused"]
  BY DEF Outcome, Targets
<1>2. [Tables EXCEPT !.end = "refused"].end = "refused"
  BY DEF Tables
<1>3. r \in ResolutionSet /\ Resolved(L, r)
  BY ResolutionResolves DEF Before
<1>4. L \in SUBSET Files
  BY DEF LoserSets, Duplicates
<1> HIDE DEF r
<1>5. a \in TableSet /\ (a.end = "ok" => Deleted(r, a))
  BY <1>3, DeletePhase
<1> HIDE DEF a
<1>6. b \in TableSet /\ (b.end = "ok" => Renamed(r, b, MaxPath))
  BY <1>3, <1>5, RenamePhase
<1> HIDE DEF b
<1>7. c \in TableSet /\ (c.end = "ok" => Changed(L, r, c, MaxPath))
  BY <1>3, <1>6, ModifyPhase
<1> HIDE DEF c
<1>8. d \in TableSet /\ (d.end = "ok" => Added(L, r, d, MaxPath))
  BY <1>3, <1>7, AddPhase
<1> HIDE DEF d
<1>9. e \in TableSet /\ (e.end = "ok" => Concluded(L, r, e, order, MaxPath))
  BY <1>3, <1>4, <1>8, UnresolvedPhase
<1> HIDE DEF e
<1>10. e.end \in {"ok", "failed"}
  BY <1>9, TableTypes
<1>11. ASSUME e.end = "ok"
       PROVE  /\ e \in TableSet /\ Good(e) /\ OldPages(e, Gone(r))
              /\ \A p \in Files \ L : Bound(e, p)
              /\ \A p \in (Files \ L) \cap Tracked : e.row[p].page = row[p].page
              /\ \A m \in r.renames : BoundTo(e, m.to, m.page)
              /\ \A p \in L : e.row[p] = None
  <2>1. Concluded(L, r, e, order, MaxPath)
    BY <1>9, <1>11
  <2>2. ASSUME NEW p \in Files \ L
        PROVE  Bound(e, p) /\ (p \in Tracked => e.row[p].page = row[p].page)
    <3>1. CASE p \in Tracked
      <4>1. CASE p \in Modified(L)
        BY <2>1, <4>1 DEF Concluded, BoundTo
      <4>2. CASE p \notin Modified(L)
        <5>1. p \notin L \cup Targets(r) \cup Modified(L) \cup r.new
          BY <1>3, <2>2, <3>1, <4>2 DEF Resolved, Targets, NewFiles
        <5>2. e.row[p] = row[p]
          BY <2>1, <5>1 DEF Concluded
        <5>3. row[p].was = file[p] /\ row[p] # None
          BY <2>2, <3>1, <4>2 DEF Modified, Tracked
        <5> QED
          BY <5>2, <5>3 DEF Bound
      <4> QED
        BY <4>1, <4>2
    <3>2. CASE p \notin Tracked
      <4>1. p \in NewFiles(L)
        BY <2>2, <3>2 DEF NewFiles
      <4>2. p \in r.new \/ \E m \in r.renames : m.to = p
        BY <1>3, <4>1 DEF Resolved
      <4> QED
        BY <2>1, <3>2, <4>2 DEF Concluded, BoundTo
    <3> QED
      BY <3>1, <3>2
  <2>3. ASSUME NEW p \in L PROVE e.row[p] = None
    <3>1. CASE p \in Tracked
      <4>1. PICK j \in Path : order[j] = p
        BY <1>4 DEF Orders, Path, Files
      <4>2. j <= MaxPath
        BY Numbers DEF Path
      <4> QED
        BY <2>1, <3>1, <4>1, <4>2 DEF Concluded
    <3>2. CASE p \notin Tracked
      BY <2>1, <3>2 DEF Concluded
    <3> QED
      BY <3>1, <3>2
  <2> QED
    BY <1>9, <2>1, <2>2, <2>3 DEF Concluded
<1>12. CASE r.ok
  <2>1. Outcome(L, order) = e
    BY <1>1, <1>12
  <2> QED
    BY <1>10, <1>11, <2>1 DEF r
<1>13. CASE ~r.ok
  <2>1. Outcome(L, order).end = "refused"
    BY <1>1, <1>2, <1>13
  <2> QED
    BY <2>1
<1> QED
  BY <1>12, <1>13

-----------------------------------------------------------------------------
(* The steps. *)

\* The inductive invariant: the rows lead to the pages of their paths, with the imports of
\* their files; pages have numbers that were given out, and each its own quaid_id.
Sound == TypeOK /\ Good(Tables)

\* What only the database has is lost as the action property says, or not at all.
Keeps ==
  \A i \in Pages : page[i].kept /\ page'[i] = None
    => page[i].quarantined /\ (page[i].exported \/ step' = "forced")

\* A pass may start from any state of the invariant.
LEMMA SoundIsBefore == Sound => Before
<1> SUFFICES ASSUME Sound PROVE Before
  OBVIOUS
<1>1. Tables \in TableSet
  BY DEF Sound, TypeOK, Tables, TableSet
<1> QED
  BY <1>1 DEF Sound, TypeOK, Before

\* Good tables that are committed are good.
LEMMA CommitIsGood ==
  ASSUME NEW t, t \in TableSet, Good(t), row' = t.row, page' = t.page, last' = t.last
  PROVE  /\ row' \in [Path -> Row \cup {None}] /\ page' \in [PageId -> Page \cup {None}]
         /\ last' \in 0 .. MaxPages
         /\ Good(Tables)'
<1>1. /\ Tables.row' = t.row /\ Tables.page' = t.page /\ Tables.last' = t.last
  BY DEF Tables
<1>2. Good(Tables)'
  BY <1>1 DEF Good, GoodRow, GoodPage, OneUuidEach
<1> QED
  BY <1>2, TableTypes

\* A commit of tables that carry the pages on loses nothing.
LEMMA CarryingKeeps ==
  ASSUME Before, NEW t, t \in TableSet, Carries(Tables, t), page' = t.page
  PROVE  Keeps
BY TablesAre DEF Keeps, Pages, Carries

\* A pass commits a transaction that got through, or nothing.
LEMMA PassIsSound ==
  ASSUME Sound, Pass
  PROVE  Sound' /\ Keeps
<1>1. PICK L \in LoserSets, order \in Orders :
        LET t == Outcome(L, order) IN
        /\ IF t.end = "ok" THEN Commit(t) ELSE UNCHANGED db
        /\ step' = t.end
  BY DEF Pass
<1>2. /\ Room /\ Before /\ moved \in Seq(Path \X Path) /\ moved' = <<>>
      /\ file' = file /\ edits' = edits /\ calls' = calls
  BY SoundIsBefore DEF Pass, Sound, TypeOK
<1> DEFINE t == Outcome(L, order)
<1>3. /\ t.end \in {"ok", "failed", "refused"}
      /\ t.end = "ok" =>
           /\ t \in TableSet /\ Good(t) /\ OldPages(t, Gone(Resolution(L, order)))
  BY <1>2, OutcomeIs
<1>4. /\ IF t.end = "ok" THEN Commit(t) ELSE UNCHANGED db
      /\ step' = t.end
  BY <1>1
<1> HIDE DEF t
<1>5. /\ file' \in [Path -> File \cup {None}] /\ moved' \in Seq(Path \X Path)
      /\ step' \in {"none", "ok", "failed", "refused", "forced"}
      /\ edits' \in 0 .. MaxEdits /\ calls' \in 0 .. MaxCalls
  BY <1>2, <1>3, <1>4 DEF Sound, TypeOK
<1>6. CASE t.end = "ok"
  <2>1. row' = t.row /\ page' = t.page /\ last' = t.last
    BY <1>4, <1>6 DEF Commit
  <2>2. Sound'
    BY <1>3, <1>5, <1>6, <2>1, CommitIsGood DEF Sound, TypeOK
  <2>3. Keeps
    BY <1>3, <1>6, <2>1 DEF Keeps, OldPages, Pages
  <2> QED
    BY <2>2, <2>3
<1>7. CASE t.end # "ok"
  <2>1. row' = row /\ page' = page /\ last' = last
    BY <1>4, <1>7 DEF db
  <2>2. Good(Tables)'
    BY <2>1 DEF Sound, Good, Tables, GoodRow, GoodPage, OneUuidEach
  <2>3. Sound'
    BY <1>5, <2>1, <2>2 DEF Sound, TypeOK
  <2> QED
    BY <2>1, <2>3 DEF Keeps, Pages
<1> QED
  BY <1>6, <1>7

\* Other programs do not touch the tables.
LEMMA TouchIsSound ==
  ASSUME Sound, NEW f \in [Path -> File \cup {None}], NEW events \in Seq(Path \X Path),
         Touch(f, events)
  PROVE  Sound' /\ Keeps
<1>1. /\ file' = f /\ moved' = moved \o events /\ step' = "none" /\ calls' = calls
      /\ row' = row /\ page' = page /\ last' = last
      /\ edits < MaxEdits /\ edits' = edits + 1
  BY DEF Touch, db
<1>2. edits' \in 0 .. MaxEdits /\ moved' \in Seq(Path \X Path)
  BY <1>1, Numbers DEF Sound, TypeOK
<1>3. TypeOK'
  BY <1>1, <1>2 DEF Sound, TypeOK
<1>4. Good(Tables)'
  BY <1>1 DEF Sound, Good, Tables, GoodRow, GoodPage, OneUuidEach
<1> QED
  BY <1>1, <1>3, <1>4 DEF Sound, Keeps, Pages

\* The steps of other programs are such touches.
LEMMA OthersAreSound ==
  ASSUME Sound, NEW p \in Path, NEW q \in Path,
         Save(p) \/ Unlink(p) \/ Move(p, q) \/ Copy(p, q)
  PROVE  Sound' /\ Keeps
<1>1. /\ file \in [Path -> File \cup {None}] /\ <<>> \in Seq(Path \X Path)
      /\ \A k \in Files : k \in Path /\ file[k] \in File
      /\ \A f \in File : f.id \in 0 .. MaxPages
      /\ 0 \in 0 .. MaxPages
  BY SoundIsBefore, RowsLead, Numbers DEF Sound, TypeOK, File
<1>2. CASE Save(p)
  <2>1. PICK d \in Data, id \in IF p \in Files THEN {0, file[p].id} ELSE {0} :
          Touch([file EXCEPT ![p] = [id |-> id, data |-> d]], <<>>)
    BY <1>2 DEF Save
  <2>2. [id |-> id, data |-> d] \in File
    BY <1>1, <2>1 DEF File
  <2> QED
    BY <1>1, <2>1, <2>2, TouchIsSound
<1>3. CASE Unlink(p)
  <2>1. [file EXCEPT ![p] = None] \in [Path -> File \cup {None}]
    BY <1>1
  <2> QED
    BY <1>1, <1>3, <2>1, TouchIsSound DEF Unlink
<1>4. CASE Move(p, q)
  <2>1. PICK events \in {<<>>, <<<<p, q>>>>} :
          Touch([file EXCEPT ![q] = file[p], ![p] = None], events)
    BY <1>4 DEF Move
  <2>2. events \in Seq(Path \X Path)
    <3> DEFINE e == <<p, q>>
    <3>1. e \in Path \X Path
      OBVIOUS
    <3> HIDE DEF e
    <3>2. <<e>> \in Seq(Path \X Path)
      BY <3>1
    <3> QED
      BY <1>1, <2>1, <3>2 DEF e
  <2>3. [file EXCEPT ![q] = file[p], ![p] = None] \in [Path -> File \cup {None}]
    BY <1>1, <1>4 DEF Move
  <2> QED
    BY <2>1, <2>2, <2>3, TouchIsSound
<1>5. CASE Copy(p, q)
  <2>1. [file EXCEPT ![q] = file[p]] \in [Path -> File \cup {None}]
    BY <1>1, <1>5 DEF Copy
  <2> QED
    BY <1>1, <1>5, <2>1, TouchIsSound DEF Copy
<1> QED
  BY <1>2, <1>3, <1>4, <1>5

\* What a call leaves alone, and counts.
LEMMA CallTypes ==
  ASSUME Sound, NEW name \in {"none", "forced"}, Call(name)
  PROVE  /\ edits' \in 0 .. MaxEdits /\ calls' \in 0 .. MaxCalls
         /\ moved' \in Seq(Path \X Path) /\ step' = name
         /\ step' \in {"none", "ok", "failed", "refused", "forced"}
BY Numbers DEF Sound, TypeOK, Call

\* The contents a put can bring are files.
LEMMA PutFiles ==
  ASSUME Before, NEW p \in Path, NEW d \in Data,
         NEW id \in {0} \cup {page[i].uuid : i \in WithSlug(Tables, p)}
  PROVE  [id |-> id, data |-> d] \in File
<1>1. \A i \in WithSlug(Tables, p) : page[i].uuid \in PageId
  BY TablesAre, TableTypes DEF Before, WithSlug
<1>2. PageId \subseteq 0 .. MaxPages /\ 0 \in 0 .. MaxPages
  BY Numbers DEF PageId
<1> QED
  BY <1>1, <1>2 DEF File

\* A put (put_from_string_with_output).
LEMMA PutIsSound ==
  ASSUME Sound, NEW p \in Path, Put(p)
  PROVE  Sound' /\ Keeps
<1>1. Before /\ Call("none") /\ file \in [Path -> File \cup {None}]
  BY SoundIsBefore DEF Put, Sound, TypeOK
<1> DEFINE Inserted(f) == InsertPage(Tables, p, f, "put")
           i == CHOOSE j \in WithSlug(Tables, p) : TRUE
           Written(f) == BindPage(Tables, i, p, f, "put")
           Put2(f) == [Written(f) EXCEPT !.page[i].quarantined = page[i].quarantined]
<1>2. PICK d \in Data, id \in {0} \cup {page[j].uuid : j \in WithSlug(Tables, p)} :
        LET f == [id |-> id, data |-> d]
            t == IF WithSlug(Tables, p) = {} THEN Inserted(f) ELSE Put2(f)
        IN /\ last < MaxPages \/ WithSlug(Tables, p) # {}
           /\ t.end = "ok"
           /\ Commit(t)
           /\ file' = [file EXCEPT ![p] = f]
  BY DEF Put
<1> DEFINE f == [id |-> id, data |-> d]
<1>3. f \in File
  BY <1>1, PutFiles
<1> HIDE DEF f
<1>4. \E t : /\ t \in TableSet /\ Good(t) /\ Carries(Tables, t)
             /\ row' = t.row /\ page' = t.page /\ last' = t.last
  <2>1. CASE WithSlug(Tables, p) = {}
    <3>1. Tables.last < MaxPages /\ Inserted(f).end = "ok" /\ Commit(Inserted(f))
      BY <1>2, <2>1, TablesAre DEF f
    <3>2. Inserted(f) \in TableSet /\ Good(Inserted(f)) /\ Carries(Tables, Inserted(f))
      BY <1>1, <1>3, <3>1, TablesAre, InsertingIsGood DEF Before
    <3> QED
      BY <3>1, <3>2 DEF Commit
  <2>2. CASE WithSlug(Tables, p) # {}
    <3> DEFINE b == Written(f)
               t == Put2(f)
    <3>1. i \in PageId /\ Tables.page[i] # None /\ Tables.page[i].slug = p /\ page[i] # None
      BY <2>2, TablesAre DEF WithSlug
    <3>2. t.end = "ok" /\ Commit(t)
      BY <1>2, <2>2 DEF f
    <3> HIDE DEF i
    <3>3. b \in TableSet /\ (b.end = "ok" => Takes(Tables, b, i, p, f, "put"))
      BY <1>1, <1>3, <3>1, TablesAre, BindPageTakes DEF Before
    <3> HIDE DEF b
    <3>4. t = [b EXCEPT !.page[i].quarantined = page[i].quarantined]
      BY DEF b
    <3> HIDE DEF t
    <3>5. /\ b.page \in [PageId -> Page \cup {None}] /\ b.row \in [Path -> Row \cup {None}]
          /\ page[i] \in Page /\ page[i].quarantined \in BOOLEAN
          /\ page \in [PageId -> Page \cup {None}]
      BY <1>1, <3>1, <3>3, TablesAre, TableTypes DEF Before
    <3>6. /\ t.row = b.row /\ t.last = b.last /\ t.end = b.end
          /\ t.page = [b.page EXCEPT ![i].quarantined = page[i].quarantined]
          /\ t = [row |-> t.row, page |-> t.page, last |-> t.last, end |-> t.end]
      BY <3>3, <3>4 DEF TableSet
    <3>7. Takes(Tables, b, i, p, f, "put")
      BY <3>2, <3>3, <3>6
    <3>8. b.page[i] = [page[i] EXCEPT !.slug = p, !.raw = f, !.quarantined = FALSE]
      BY <3>1, <3>5, <3>7, TablesAre DEF Takes
    <3>9. t.page[i] = [page[i] EXCEPT !.slug = p, !.raw = f,
                                      !.quarantined = page[i].quarantined]
      <4>1. t.page[i] = [b.page[i] EXCEPT !.quarantined = page[i].quarantined]
        BY <3>1, <3>5, <3>6
      <4> QED
        BY <3>5, <3>8, <4>1 DEF Page
    <3>10. \A j \in PageId \ {i} : t.page[j] = page[j]
      BY <3>5, <3>6, <3>7, TablesAre DEF Takes
    <3>11. t.page[i] \in Page
      BY <1>3, <3>5, <3>9 DEF Page
    <3>12. t.page \in [PageId -> Page \cup {None}]
      BY <3>5, <3>6, <3>11
    <3>13. t \in TableSet
      BY <3>3, <3>5, <3>6, <3>12, TableTypes DEF TableSet
    <3>14. Binds(Tables, t, i, p, f, "put", page[i].quarantined)
      <4>1. OnlyRow(Tables, i, p)
        BY <1>1, <3>1 DEF OnlyRow, Before, Good, GoodRow
      <4>2. t.page = [page EXCEPT ![i] = [@ EXCEPT !.slug = p, !.raw = f,
                                                   !.quarantined = page[i].quarantined]]
        BY <3>5, <3>9, <3>10, <3>12
      <4>3. /\ t.row = [row EXCEPT ![p] = [page |-> i, was |-> f, by |-> "put"]]
            /\ t.last = last /\ f.id \in {0, page[i].uuid}
        BY <3>6, <3>7, TablesAre DEF Takes
      <4>4. row \in [Path -> Row \cup {None}]
        BY <1>1, RowsLead
      <4>5. t.row[p] = [page |-> i, was |-> f, by |-> "put"]
        BY <4>3, <4>4
      <4>6. \A q \in Path \ {p} : t.row[q] = row[q]
        BY <4>3, <4>4
      <4>7. \A q \in Path \ {p} : row[q] # None => row[q].page # i
        BY <4>1, TablesAre DEF OnlyRow
      <4> HIDE DEF f
      <4> QED
        BY <3>1, <4>2, <4>3, <4>5, <4>6, <4>7, TablesAre DEF Binds
    <3>15. Good(t) /\ Carries(Tables, t)
      BY <1>1, <1>3, <3>1, <3>5, <3>13, <3>14, BindingIsGood, BindingCarries DEF Before
    <3> QED
      BY <3>2, <3>13, <3>15 DEF Commit
  <2> QED
    BY <2>1, <2>2
<1>5. file' \in [Path -> File \cup {None}]
  BY <1>1, <1>2, <1>3 DEF f
<1> QED
  BY <1>1, <1>4, <1>5, CallTypes, CommitIsGood, CarryingKeeps DEF Sound, TypeOK

\* quaid_id is written into a file (write_quaid_id_to_file).
LEMMA WriteIdIsSound ==
  ASSUME Sound, NEW p \in Path, WriteId(p)
  PROVE  Sound' /\ Keeps
<1> DEFINE i == row[p].page
           f == [id |-> page[i].uuid, data |-> page[i].raw.data]
           b == BindPage(Tables, i, p, f, "put")
<1>1. /\ Before /\ Call("none") /\ file \in [Path -> File \cup {None}]
      /\ p \in Tracked /\ Commit(b) /\ file' = [file EXCEPT ![p] = f]
  BY SoundIsBefore DEF WriteId, Sound, TypeOK
<1>2. i \in PageId /\ page[i] # None /\ page[i].slug = p
  BY <1>1, RowsLead, TablesAre DEF GoodRow
<1>3. f \in File
  <2>1. page[i].uuid \in PageId /\ page[i].raw \in File
    BY <1>1, <1>2, TablesAre, TableTypes DEF Before
  <2>2. PageId \subseteq 0 .. MaxPages
    BY Numbers DEF PageId
  <2> QED
    BY <2>1, <2>2 DEF File
<1>4. OnlyRow(Tables, i, p)
  BY <1>1, <1>2, TablesAre DEF OnlyRow, Before, Good, GoodRow
<1> HIDE DEF i, f
<1>5. b \in TableSet /\ (b.end = "ok" => Takes(Tables, b, i, p, f, "put"))
      /\ (b.end # "ok" => b = Fail(Tables))
  BY <1>1, <1>2, <1>3, TablesAre, BindPageTakes DEF Before
<1> HIDE DEF b
<1>6. Good(b) /\ Carries(Tables, b)
  <2>1. CASE b.end = "ok"
    <3>1. Binds(Tables, b, i, p, f, "put", FALSE)
      BY <1>1, <1>2, <1>4, <1>5, <2>1, TablesAre, TakingBinds DEF Before
    <3> QED
      BY <1>1, <1>2, <1>3, <1>5, <3>1, BindingIsGood, BindingCarries DEF Before
  <2>2. CASE b.end # "ok"
    <3>1. b.row = row /\ b.page = page /\ b.last = last
      BY <1>5, <2>2 DEF Fail, Tables
    <3>2. Good(b)
      BY <1>1, <3>1, TablesAre DEF Before, Good, GoodRow, GoodPage, OneUuidEach
    <3>3. Carries(Tables, b)
      BY <1>1, <3>1, TablesAre, RowsLead DEF Carries
    <3> QED
      BY <3>2, <3>3
  <2> QED
    BY <2>1, <2>2
<1>7. file' \in [Path -> File \cup {None}]
  BY <1>1, <1>3
<1>8. row' = b.row /\ page' = b.page /\ last' = b.last
  BY <1>1 DEF Commit
<1> QED
  BY <1>1, <1>5, <1>6, <1>7, <1>8, CallTypes, CommitIsGood, CarryingKeeps DEF Sound, TypeOK

\* A page that is marked, and nothing else: its path, import, quaid_id and quarantine stay.
Marks(q, i) ==
  /\ page' = [page EXCEPT ![i] = q]
  /\ q \in Page
  /\ q.uuid = page[i].uuid /\ q.slug = page[i].slug /\ q.raw = page[i].raw
  /\ q.quarantined = page[i].quarantined

\* Marks leave good tables.
LEMMA MarkingIsSound ==
  ASSUME Sound, NEW i \in Pages, NEW q, Marks(q, i), Call("none"), UNCHANGED <<file, row, last>>
  PROVE  Sound' /\ Keeps
<1>1. /\ Before /\ file' = file /\ row' = row /\ last' = last
      /\ page \in [PageId -> Page \cup {None}] /\ i \in PageId /\ q # None /\ q \in Page
      /\ page' = [page EXCEPT ![i] = q]
  BY SoundIsBefore, Numbers DEF Sound, TypeOK, Pages, Marks
<1>2. /\ page' \in [PageId -> Page \cup {None}] /\ page'[i] = q
      /\ \A j \in PageId \ {i} : page'[j] = page[j]
      /\ \A j \in PageId : page'[j] = None <=> page[j] = None
  BY <1>1 DEF Pages
<1>3. TypeOK'
  BY <1>1, <1>2, CallTypes DEF Sound, TypeOK
<1>4. \A j \in PageId : page[j] # None =>
        /\ page'[j].uuid = page[j].uuid /\ page'[j].slug = page[j].slug
        /\ page'[j].raw = page[j].raw /\ page'[j].quarantined = page[j].quarantined
  BY <1>2 DEF Marks
<1>5. Tables.row' = row /\ Tables.page' = page' /\ Tables.last' = last
  BY <1>1 DEF Tables
<1>6. ASSUME NEW p \in Path, row[p] # None
      PROVE  /\ page'[row[p].page] # None
             /\ page'[row[p].page].slug = p
             /\ page'[row[p].page].raw = row[p].was
             /\ page'[row[p].page].quarantined => row[p].by = "put"
  <2>1. GoodRow(Tables, p) /\ row[p].page \in PageId
    BY <1>1, <1>6, RowsLead DEF Tracked
  <2>2. /\ page[row[p].page] # None
        /\ page[row[p].page].slug = p
        /\ page[row[p].page].raw = row[p].was
        /\ page[row[p].page].quarantined => row[p].by = "put"
    BY <2>1, TablesAre DEF GoodRow
  <2> QED
    BY <1>2, <1>4, <2>1, <2>2
<1>7. ASSUME NEW j \in PageId, page'[j] # None
      PROVE  j <= last /\ page'[j].raw.id \in {0, page'[j].uuid}
  <2>1. GoodPage(Tables, j)
    BY <1>1, <1>2, <1>7, TablesAre DEF Before, Good
  <2> QED
    BY <1>2, <1>4, <1>7, <2>1, TablesAre DEF GoodPage
<1>8. ASSUME NEW j \in PageId, NEW k \in PageId, page'[j] # None, page'[k] # None,
             page'[j].uuid = page'[k].uuid
      PROVE  j = k
  BY <1>1, <1>2, <1>4, <1>8, TablesAre DEF Before, Good, OneUuidEach
<1>9. Good(Tables)'
  BY <1>5, <1>6, <1>7, <1>8 DEF Good, GoodRow, GoodPage, OneUuidEach
<1> QED
  BY <1>2, <1>3, <1>9 DEF Sound, Keeps, Pages

\* What is annotated or exported is marked so.
LEMMA AnnotateAndExportAreSound ==
  ASSUME Sound, NEW i \in Pages, Annotate(i) \/ Export(i)
  PROVE  Sound' /\ Keeps
<1>1. page \in [PageId -> Page \cup {None}] /\ page[i] \in Page
  BY DEF Sound, TypeOK, Pages
<1>2. CASE Annotate(i)
  <2> DEFINE q == [page[i] EXCEPT !.kept = TRUE]
  <2>1. page' = [page EXCEPT ![i] = q]
    BY <1>2 DEF Annotate
  <2>2. Marks(q, i)
    BY <1>1, <2>1 DEF Marks, Page
  <2> HIDE DEF q
  <2> QED
    BY <1>2, <2>2, MarkingIsSound DEF Annotate
<1>3. CASE Export(i)
  <2> DEFINE q == [page[i] EXCEPT !.exported = TRUE]
  <2>1. page' = [page EXCEPT ![i] = q]
    BY <1>3 DEF Export
  <2>2. Marks(q, i)
    BY <1>1, <2>1 DEF Marks, Page
  <2> HIDE DEF q
  <2> QED
    BY <1>3, <2>2, MarkingIsSound DEF Export
<1> QED
  BY <1>2, <1>3

\* A page that is deleted, by a discard or by the sweep.
LEMMA DeletingIsSound ==
  ASSUME Sound, NEW i \in PageId, Commit(DeletePage(Tables, i)), file' = file,
         edits' \in 0 .. MaxEdits, calls' \in 0 .. MaxCalls, moved' \in Seq(Path \X Path),
         step' \in {"none", "forced"}
  PROVE  Sound' /\ \A j \in PageId : j # i => page'[j] = page[j]
<1>1. Before
  BY SoundIsBefore
<1> DEFINE u == DeletePage(Tables, i)
<1>2. u \in TableSet /\ Good(u) /\ u.page = [page EXCEPT ![i] = None]
  BY <1>1, DeletingIsGood, TablesAre DEF Before
<1>3. row' = u.row /\ page' = u.page /\ last' = u.last
  BY DEF Commit
<1> HIDE DEF u
<1>4. Sound'
  BY <1>2, <1>3, CommitIsGood DEF Sound, TypeOK
<1> QED
  BY <1>2, <1>3, <1>4 DEF Sound, TypeOK

\* A discard asks for an export of what only the database has, or is forced
\* (discard_quarantined_page); the sweep leaves it (sweep_expired_quarantined_pages).
LEMMA DiscardAndSweepAreSound ==
  ASSUME Sound, NEW i \in Pages, Sweep(i) \/ \E force \in BOOLEAN : Discard(i, force)
  PROVE  Sound' /\ Keeps
<1>1. CASE Sweep(i)
  <2>1. /\ edits' \in 0 .. MaxEdits /\ calls' \in 0 .. MaxCalls /\ moved' \in Seq(Path \X Path)
        /\ step' \in {"none", "forced"} /\ file' = file /\ i \in PageId
        /\ ~page[i].kept
    BY <1>1 DEF Sound, TypeOK, Sweep, Pages
  <2>2. Sound' /\ \A j \in PageId : j # i => page'[j] = page[j]
    BY <1>1, <2>1, DeletingIsSound DEF Sweep
  <2> QED
    BY <2>1, <2>2 DEF Keeps, Pages
<1>2. ASSUME NEW force \in BOOLEAN, Discard(i, force) PROVE Sound' /\ Keeps
  <2>1. (IF force THEN "forced" ELSE "none") \in {"none", "forced"}
    OBVIOUS
  <2>2. /\ edits' \in 0 .. MaxEdits /\ calls' \in 0 .. MaxCalls /\ moved' \in Seq(Path \X Path)
        /\ step' = IF force THEN "forced" ELSE "none"
    BY <1>2, <2>1, CallTypes DEF Discard
  <2>3. /\ page[i].quarantined /\ (page[i].kept => force \/ page[i].exported)
        /\ file' = file /\ i \in PageId
    BY <1>2 DEF Discard, MayDiscard, Quarantined, Pages
  <2>4. Sound' /\ \A j \in PageId : j # i => page'[j] = page[j]
    BY <1>2, <2>1, <2>2, <2>3, DeletingIsSound DEF Discard
  <2> QED
    BY <2>2, <2>3, <2>4 DEF Keeps, Pages
<1> QED
  BY <1>1, <1>2

\* A quarantined page becomes a file again, and leaves the row it had
\* (restore_quarantined_page).
LEMMA RestoreIsSound ==
  ASSUME Sound, NEW i \in Pages, NEW p \in Path, Restore(i, p)
  PROVE  Sound' /\ Keeps
<1> DEFINE f == page[i].raw
           b == BindPage(Tables, i, p, f, "pass")
           rows == [q \in Path |-> IF q # p /\ b.row[q] # None /\ b.row[q].page = i
                                   THEN None ELSE b.row[q]]
           t == [b EXCEPT !.row = [q \in Path |-> IF q # p /\ @[q] # None /\ @[q].page = i
                                                   THEN None ELSE @[q]]]
<1>1. /\ Before /\ Call("none") /\ file \in [Path -> File \cup {None}]
      /\ p \in Tracked => row[p].page = i
      /\ b.end = "ok" /\ Commit(t) /\ file' = [file EXCEPT ![p] = f]
  BY SoundIsBefore DEF Restore, Sound, TypeOK
<1>2. i \in PageId /\ page[i] # None /\ page[i] \in Page /\ f \in File /\ f.id \in {0, page[i].uuid}
  <2>1. i \in PageId /\ page[i] # None
    BY DEF Pages
  <2>2. GoodPage(Tables, i)
    BY <1>1, <2>1, TablesAre DEF Before, Good
  <2> QED
    BY <1>1, <2>1, <2>2, TablesAre, TableTypes DEF Before, GoodPage
<1>3. b \in TableSet /\ Takes(Tables, b, i, p, f, "pass")
  BY <1>1, <1>2, TablesAre, BindPageTakes DEF Before
<1> HIDE DEF f
<1>4. t = [b EXCEPT !.row = rows]
  OBVIOUS
<1> HIDE DEF t, b
<1>5. b.row \in [Path -> Row \cup {None}] /\ b.page \in [PageId -> Page \cup {None}]
  BY <1>3, TableTypes
<1>6. rows \in [Path -> Row \cup {None}]
  BY <1>5
<1>7. t.row = rows /\ t.page = b.page /\ t.last = b.last /\ t.end = b.end
  BY <1>3, <1>4 DEF TableSet
<1>8. t \in TableSet
  BY <1>3, <1>4, <1>6 DEF TableSet
<1>9. /\ b.row = [row EXCEPT ![p] = [page |-> i, was |-> f, by |-> "pass"]]
      /\ row \in [Path -> Row \cup {None}]
  BY <1>1, <1>3, RowsLead, TablesAre DEF Takes
<1>10. /\ t.row[p] = [page |-> i, was |-> f, by |-> "pass"]
       /\ \A q \in Path \ {p} : t.row[q] = IF row[q] # None /\ row[q].page = i THEN None ELSE row[q]
  <2>1. b.row[p] = [page |-> i, was |-> f, by |-> "pass"] /\ \A q \in Path \ {p} : b.row[q] = row[q]
    BY <1>9
  <2> QED
    BY <1>7, <2>1
<1> HIDE DEF rows
<1>11. Binds(Tables, t, i, p, f, "pass", FALSE)
  BY <1>2, <1>3, <1>7, <1>10, TablesAre DEF Binds, Takes
<1>12. Good(t) /\ Carries(Tables, t)
  BY <1>1, <1>2, <1>8, <1>11, BindingIsGood, BindingCarries DEF Before
<1>13. file' \in [Path -> File \cup {None}]
  BY <1>1, <1>2
<1>14. row' = t.row /\ page' = t.page /\ last' = t.last
  BY <1>1 DEF Commit
<1> QED
  BY <1>1, <1>8, <1>12, <1>13, <1>14, CallTypes, CommitIsGood, CarryingKeeps DEF Sound, TypeOK

\* The vault is empty at first.
LEMMA InitIsSound ==
  ASSUME Init
  PROVE  Sound
<1>1. 0 \in 0 .. MaxPages /\ 0 \in 0 .. MaxEdits /\ 0 \in 0 .. MaxCalls
  BY Numbers
<1>2. TypeOK
  BY <1>1 DEF Init, TypeOK
<1>3. (\A p \in Path : Tables.row[p] = None) /\ \A i \in PageId : Tables.page[i] = None
  BY TablesAre DEF Init
<1>4. Good(Tables)
  BY <1>3 DEF Good, OneUuidEach
<1> QED
  BY <1>2, <1>4 DEF Sound

\* Every step keeps the invariant, and what only the database has.
LEMMA StepsAreSound ==
  ASSUME Sound, [Next]_vars
  PROVE  Sound' /\ [Keeps]_vars
<1>1. CASE Pass
  BY <1>1, PassIsSound
<1>2. ASSUME NEW p \in Path, Save(p) \/ Unlink(p)
      PROVE  Sound' /\ [Keeps]_vars
  BY <1>2, OthersAreSound
<1>3. ASSUME NEW p \in Path, Put(p) \/ WriteId(p)
      PROVE  Sound' /\ [Keeps]_vars
  BY <1>3, PutIsSound, WriteIdIsSound
<1>4. ASSUME NEW p \in Path, NEW q \in Path, Move(p, q) \/ Copy(p, q)
      PROVE  Sound' /\ [Keeps]_vars
  BY <1>4, OthersAreSound
<1>5. ASSUME NEW i \in Pages, Annotate(i) \/ Export(i)
      PROVE  Sound' /\ [Keeps]_vars
  BY <1>5, AnnotateAndExportAreSound
<1>6. ASSUME NEW i \in Pages, Sweep(i) \/ \E force \in BOOLEAN : Discard(i, force)
      PROVE  Sound' /\ [Keeps]_vars
  BY <1>6, DiscardAndSweepAreSound
<1>7. ASSUME NEW i \in Pages, NEW p \in Path, Restore(i, p)
      PROVE  Sound' /\ [Keeps]_vars
  BY <1>7, RestoreIsSound
<1>8. CASE UNCHANGED vars
  <2>1. TypeOK'
    BY <1>8 DEF vars, db, Sound, TypeOK
  <2>2. row' = row /\ page' = page /\ last' = last
    BY <1>8 DEF vars, db
  <2>3. Good(Tables)'
    BY <2>2 DEF Sound, Good, Tables, GoodRow, GoodPage, OneUuidEach
  <2> QED
    BY <1>8, <2>1, <2>3 DEF Sound
<1> QED
  BY <1>1, <1>2, <1>3, <1>4, <1>5, <1>6, <1>7, <1>8 DEF Next

-----------------------------------------------------------------------------
(* The theorems. *)

\* The inductive invariant holds (reconciler.rs, quarantine.rs, put.rs).
LEMMA Soundness == Spec => []Sound
<1>1. Init => Sound
  BY InitIsSound
<1>2. Sound /\ [Next]_vars => Sound'
  BY StepsAreSound
<1> QED
  BY <1>1, <1>2, PTL DEF Spec

\* The tables and the files hold what their columns can hold, whatever the bounds are; no
\* put and no pass runs out of page ids that it has room for.
THEOREM TypeInvariant == Spec => []TypeOK
<1>1. Sound => TypeOK
  BY DEF Sound
<1> QED
  BY <1>1, Soundness, PTL

\* A file row leads to a page of its own, which is live unless a put wrote to it
\* (reconciler.rs: apply_reingest and the deletes; quarantine.rs).
THEOREM LiveRows == Spec => []RowsLeadToLivePages
<1>1. Sound => RowsLeadToLivePages
  <2> SUFFICES ASSUME Sound PROVE RowsLeadToLivePages
    OBVIOUS
  <2>1. Before
    BY SoundIsBefore
  <2>2. ASSUME NEW p \in Tracked
        PROVE  /\ row[p].page \in Pages
               /\ page[row[p].page].quarantined => row[p].by = "put"
    <3>1. row[p].page \in PageId /\ page[row[p].page] # None /\ GoodRow(Tables, p)
      BY <2>1, RowsLead
    <3> QED
      BY <3>1, TablesAre DEF GoodRow, Pages
  <2> QED
    BY <2>1, <2>2, RowsLead DEF RowsLeadToLivePages
<1> QED
  BY <1>1, Soundness, PTL

\* What exists only in the database is deleted by nobody but a discard that was forced or
\* follows an export: no pass, no sweep, no put and no restore does it.
THEOREM DbOnlyStateIsSafe == Spec => DbOnlyStateIsKept
<1>1. Sound /\ [Next]_vars => [Keeps]_vars
  BY StepsAreSound
<1> QED
  BY <1>1, Soundness, PTL DEF Spec, DbOnlyStateIsKept, Keeps

\* Only a pass ends with "ok".
LEMMA OkIsOfAPass ==
  ASSUME [Next]_vars, step' = "ok"
  PROVE  Pass \/ UNCHANGED vars
<1>1. \A p \in Path : ~Save(p) /\ ~Unlink(p) /\ ~Put(p) /\ ~WriteId(p)
  BY DEF Save, Unlink, Touch, Put, WriteId, Call
<1>2. \A p, q \in Path : ~Move(p, q) /\ ~Copy(p, q)
  BY DEF Move, Copy, Touch
<1>3. ASSUME NEW i \in Pages
      PROVE  /\ ~Annotate(i) /\ ~Export(i) /\ ~Sweep(i)
             /\ \A force \in BOOLEAN : ~Discard(i, force)
             /\ \A p \in Path : ~Restore(i, p)
  BY DEF Annotate, Export, Sweep, Discard, Restore, Call
<1> QED
  BY <1>1, <1>2, <1>3 DEF Next

\* What a pass that got through has committed.
LEMMA PassCommits ==
  ASSUME Sound, Pass, step' = "ok"
  PROVE  \E L \in LoserSets, order \in Orders, r \in ResolutionSet, t \in TableSet :
           /\ row' = t.row /\ page' = t.page /\ Good(t)
           /\ Resolved(L, r) /\ OldPages(t, Gone(r))
           /\ \A q \in r.missing : NoneHasItsUuid(r, q)
           /\ \A p \in Files \ L : Bound(t, p)
           /\ \A p \in (Files \ L) \cap Tracked : t.row[p].page = row[p].page
           /\ \A m \in r.renames : BoundTo(t, m.to, m.page)
           /\ \A p \in L : t.row[p] = None
<1>1. Before /\ Room /\ moved \in Seq(Path \X Path)
  BY SoundIsBefore DEF Pass, Sound, TypeOK
<1>2. PICK L \in LoserSets, order \in Orders :
        LET t == Outcome(L, order) IN
        /\ IF t.end = "ok" THEN Commit(t) ELSE UNCHANGED db
        /\ step' = t.end
  BY DEF Pass
<1> DEFINE t == Outcome(L, order)
           r == Resolution(L, order)
<1>3. t.end = "ok" /\ row' = t.row /\ page' = t.page
  BY <1>2 DEF Commit
<1>4. /\ t \in TableSet /\ Good(t) /\ OldPages(t, Gone(r))
      /\ \A p \in Files \ L : Bound(t, p)
      /\ \A p \in (Files \ L) \cap Tracked : t.row[p].page = row[p].page
      /\ \A m \in r.renames : BoundTo(t, m.to, m.page)
      /\ \A p \in L : t.row[p] = None
  BY <1>1, <1>3, OutcomeIs
<1>5. /\ r \in ResolutionSet /\ Resolved(L, r)
      /\ \A q \in r.missing : NoneHasItsUuid(r, q)
  BY <1>1, ResolutionResolves DEF Before
<1> HIDE DEF t, r
<1> QED
  BY <1>3, <1>4, <1>5

\* A file that shares its quaid_id with no other is indexed as it is by the next pass, its
\* row and the raw import of its page alike.
THEOREM FilesGetIndexed == Spec => FilesAreIndexed
<1> DEFINE A == step' = "ok" =>
             \A p \in Files \ Duplicates : /\ row'[p] # None /\ row'[p].was = file[p]
                                           /\ page'[row'[p].page].raw = file[p]
<1>1. ASSUME Sound, [Next]_vars
      PROVE  [A]_vars
  <2> SUFFICES ASSUME Pass, step' = "ok", NEW p \in Files \ Duplicates
               PROVE  /\ row'[p] # None /\ row'[p].was = file[p]
                      /\ page'[row'[p].page].raw = file[p]
    BY <1>1, OkIsOfAPass
  <2>1. PICK L \in LoserSets, t \in TableSet :
          row' = t.row /\ page' = t.page /\ Good(t) /\ \A q \in Files \ L : Bound(t, q)
    BY <1>1, PassCommits
  <2>2. p \in Path /\ Bound(t, p)
    BY <2>1 DEF LoserSets, Files
  <2>3. GoodRow(t, p)
    BY <2>1, <2>2 DEF Good, Bound
  <2> QED
    BY <2>1, <2>2, <2>3 DEF Bound, GoodRow
<1> QED
  BY <1>1, Soundness, PTL DEF Spec, FilesAreIndexed

\* Of the files with one quaid_id a pass leaves out all but one
\* (detect_duplicate_uuids_in_tree).
LEMMA OneTwinIsLeft ==
  ASSUME Before, NEW L \in LoserSets, NEW x \in Files, file[x].id # 0
  PROVE  \E w \in Twins(x) : Twins(x) \ L = {w}
<1>1. x \in Twins(x) /\ L \in SUBSET Duplicates
  BY DEF Twins, LoserSets
<1>2. CASE x \in Duplicates
  BY <1>2 DEF LoserSets
<1>3. CASE x \notin Duplicates
  <2>1. Twins(x) \subseteq Path /\ IsFiniteSet(Path)
    BY FS_Interval, Numbers DEF Twins, Files, Path
  <2>2. IsFiniteSet(Twins(x)) /\ Cardinality(Twins(x)) \in Nat /\ ~(Cardinality(Twins(x)) > 1)
    BY <1>3, <2>1, FS_Subset, FS_CardinalityType DEF Duplicates
  <2>3. ASSUME NEW y \in Twins(x) PROVE y = x
    <3> SUFFICES ASSUME y # x PROVE FALSE
      OBVIOUS
    <3>1. IsFiniteSet({x, y}) /\ Cardinality({x, y}) = 2
      <4>1. IsFiniteSet({x}) /\ Cardinality({x}) = 1 /\ y \notin {x} /\ {x, y} = {x} \cup {y}
        BY FS_Singleton
      <4>2. Cardinality({x} \cup {y}) = 2 /\ IsFiniteSet({x} \cup {y})
        BY <4>1, FS_AddElement
      <4> QED
        BY <4>1, <4>2
    <3>2. Cardinality({x, y}) <= Cardinality(Twins(x))
      BY <1>1, <2>2, <3>1, FS_Subset
    <3> QED
      BY <2>2, <3>1, <3>2
  <2>4. Twins(x) = {x} /\ x \notin L
    BY <1>1, <1>3, <2>3
  <2> QED
    BY <2>4
<1> QED
  BY <1>2, <1>3

\* The page whose quaid_id the one file has is bound to that file.
LEMMA PageIsFollowed ==
  ASSUME Before, NEW L, NEW r \in ResolutionSet, NEW t \in TableSet, Good(t), Resolved(L, r),
         OldPages(t, Gone(r)),
         \A q \in r.missing : NoneHasItsUuid(r, q),
         \A p \in (Files \ L) \cap Tracked : t.row[p].page = row[p].page,
         \A m \in r.renames : BoundTo(t, m.to, m.page),
         NEW i \in Pages, NEW w \in Files \ L, Bound(t, w), file[w].id = page[i].uuid
  PROVE  t.row[w].page = i /\ t.page[i] # None
<1> DEFINE j == t.row[w].page
<1>1. /\ i \in PageId /\ page[i] # None /\ page[i].uuid # 0 /\ w \in Path /\ j \in PageId
      /\ t.row[w] # None /\ t.row[w].was = file[w]
  BY TablesAre, TableTypes, Numbers DEF Before, Pages, Files, Bound
<1>2. t.page[j] # None /\ t.page[j].uuid = page[i].uuid
  <2>1. GoodRow(t, w)
    BY <1>1 DEF Good
  <2>2. t.page[j] # None /\ t.page[j].raw = file[w]
    BY <1>1, <2>1 DEF GoodRow
  <2>3. GoodPage(t, j)
    BY <1>1, <2>2 DEF Good
  <2> QED
    BY <1>1, <2>2, <2>3 DEF GoodPage
\* a page that was there before and has its quaid_id is that page
<1>3. page[j] # None => i = j
  <2> SUFFICES ASSUME page[j] # None PROVE i = j
    OBVIOUS
  <2>1. t.page[j].uuid = page[j].uuid
    BY <1>1, <1>2 DEF OldPages
  <2>2. OneUuidEach(Tables)
    BY DEF Before, Good
  <2> QED
    BY <1>1, <1>2, <2>1, <2>2, TablesAre DEF OneUuidEach
<1> HIDE DEF j
<1>4. t.page[i] # None
  <2> SUFFICES ASSUME t.page[i] = None PROVE FALSE
    OBVIOUS
  <2>1. PICK q \in r.missing : row[q].page = i
    BY <1>1 DEF OldPages, Gone
  <2>2. CASE w \in Tracked
    <3>1. j = row[w].page
      BY <2>2 DEF j
    <3>2. page[j] # None
      BY <2>2, <3>1, RowsLead
    <3> QED
      BY <1>2, <1>3, <3>2
  <2>3. CASE w \in r.new
    <3>1. file[w].id # page[row[q].page].uuid
      BY <2>3 DEF NoneHasItsUuid, UuidOf
    <3> QED
      BY <2>1, <3>1
  <2>4. CASE w \notin Tracked /\ w \notin r.new
    <3>1. w \in NewFiles(L) \ r.new
      BY <2>4 DEF NewFiles
    <3>2. PICK m \in r.renames : m.to = w
      BY <3>1 DEF Resolved
    <3>3. j = m.page /\ m.page = row[m.from].page /\ m.from \in Tracked
      BY <3>2 DEF Resolved, BoundTo, j, Missing
    <3>4. page[j] # None
      BY <3>3, RowsLead
    <3> QED
      BY <1>2, <1>3, <3>4
  <2> QED
    BY <2>2, <2>3, <2>4
<1>5. i = j
  <2>1. t.page[i].uuid = page[i].uuid
    BY <1>1, <1>4 DEF OldPages
  <2> QED
    BY <1>1, <1>2, <1>4, <2>1 DEF Good, OneUuidEach, j
<1> QED
  BY <1>4, <1>5 DEF j

\* A page whose quaid_id is in some file keeps its id over a pass and is bound to one file
\* with it, wherever other programs moved or copied it.
THEOREM IdentityIsFollowed == Spec => IdentityFollowsUuid
<1> DEFINE Named(i) == {p \in Files : file[p].id = page[i].uuid}
           A == step' = "ok" =>
             \A i \in Pages :
               LET named == {p \in Files : file[p].id = page[i].uuid} IN
               named # {} => /\ page'[i] # None
                             /\ Cardinality({p \in named : row'[p] # None /\ row'[p].page = i}) = 1
<1>1. ASSUME Sound, [Next]_vars
      PROVE  [A]_vars
  <2> SUFFICES ASSUME Pass, step' = "ok", NEW i \in Pages, NEW x \in Named(i)
               PROVE  /\ page'[i] # None
                      /\ Cardinality({p \in Named(i) : row'[p] # None /\ row'[p].page = i}) = 1
    BY <1>1, OkIsOfAPass
  <2>1. Before
    BY <1>1, SoundIsBefore
  <2>2. PICK L \in LoserSets, order \in Orders, r \in ResolutionSet, t \in TableSet :
           /\ row' = t.row /\ page' = t.page /\ Good(t)
           /\ Resolved(L, r) /\ OldPages(t, Gone(r))
           /\ \A q \in r.missing : NoneHasItsUuid(r, q)
           /\ \A p \in Files \ L : Bound(t, p)
           /\ \A p \in (Files \ L) \cap Tracked : t.row[p].page = row[p].page
           /\ \A m \in r.renames : BoundTo(t, m.to, m.page)
           /\ \A p \in L : t.row[p] = None
    BY <1>1, PassCommits
  <2>3. x \in Files /\ file[x].id = page[i].uuid /\ file[x].id # 0 /\ Twins(x) = Named(i)
    <3>1. page[i].uuid \in PageId
      BY <2>1, TablesAre, TableTypes DEF Before, Pages
    <3> QED
      BY <3>1, Numbers DEF Twins
  <2>4. PICK w \in Twins(x) : Twins(x) \ L = {w}
    BY <2>1, <2>3, OneTwinIsLeft
  <2>5. w \in Files \ L /\ file[w].id = page[i].uuid /\ Bound(t, w)
    BY <2>2, <2>3, <2>4
  <2>6. t.row[w].page = i /\ t.page[i] # None
    BY <2>1, <2>2, <2>5, PageIsFollowed
  <2>7. {p \in Named(i) : row'[p] # None /\ row'[p].page = i} = {w}
    <3>1. ASSUME NEW p \in Named(i), row'[p] # None PROVE p = w
      BY <2>2, <2>3, <2>4, <3>1
    <3>2. w \in Named(i) /\ row'[w] # None /\ row'[w].page = i
      BY <2>2, <2>3, <2>5, <2>6 DEF Bound
    <3> HIDE DEF Named
    <3> QED
      BY <3>1, <3>2
  <2> QED
    BY <2>2, <2>6, <2>7, FS_Singleton
<1> QED
  BY <1>1, Soundness, PTL DEF Spec, IdentityFollowsUuid
=============================================================================
