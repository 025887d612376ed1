----------------------------- MODULE Facts_proofs -----------------------------
(***************************************************************************)
(* Theorems about Facts for any namespaces, facts, likeness and bounds.    *)
(* Everything that is done to a table of pages (a write, a deletion, a     *)
(* link that is made or undone) keeps a table good; a pass does it to the  *)
(* table of its transaction, the rest to the table itself.                 *)
(***************************************************************************)
EXTENDS Facts, FiniteSetTheorems, TLAPS

(* Slots. *)

\* There are finitely many slots.
LEMMA SlotsAreFinite == IsFiniteSet(Slot)
<1>1. IsFiniteSet(Space) /\ IsFiniteSet(Fact) /\ IsFiniteSet(1 .. Attempts)
      /\ IsFiniteSet(1 .. MaxNotes)
  BY FS_Interval, FactsAssumption DEF Space, Fact
<1>2. IsFiniteSet(Space \X Fact \X (1 .. Attempts))
  <2> DEFINE S == (Space \X Fact) \X (1 .. Attempts)
             T == Space \X Fact \X (1 .. Attempts)
             f == [x \in S |-> <<x[1][1], x[1][2], x[2]>>]
  <2>1. IsFiniteSet(Space \X Fact)
    BY <1>1, FS_Product
  <2>2. IsFiniteSet(S)
    BY <1>1, <2>1, FS_Product
  <2>3. f \in [S -> T]
    OBVIOUS
  <2>4. ASSUME NEW t \in T PROVE \E x \in S : f[x] = t
    <3>1. <<<<t[1], t[2]>>, t[3]>> \in S /\ f[<<<<t[1], t[2]>>, t[3]>>] = t
      OBVIOUS
    <3> QED
      BY <3>1
  <2>5. f \in Surjection(S, T)
    BY <2>3, <2>4 DEF Surjection
  <2> QED
    BY <2>2, <2>5, FS_Surjection
<1>3. IsFiniteSet({0} \X {0} \X (1 .. MaxNotes))
  <2> DEFINE S == 1 .. MaxNotes
             T == {0} \X {0} \X (1 .. MaxNotes)
             f == [n \in S |-> <<0, 0, n>>]
  <2>1. f \in [S -> T]
    OBVIOUS
  <2>2. ASSUME NEW t \in T PROVE \E x \in S : f[x] = t
    <3>1. t[3] \in S /\ f[t[3]] = t
      OBVIOUS
    <3> QED
      BY <3>1
  <2>3. f \in Surjection(S, T)
    BY <2>1, <2>2 DEF Surjection
  <2> QED
    BY <1>1, <2>3, FS_Surjection
<1> QED
  BY <1>2, <1>3, FS_Union DEF Slot

\* The order of paths is a strict total order of the slots.
LEMMA BeforeIsAnOrder ==
  ASSUME NEW a \in Slot, NEW b \in Slot, NEW c \in Slot
  PROVE  /\ ~Before(a, a)
         /\ a # b => Before(a, b) \/ Before(b, a)
         /\ Before(a, b) /\ Before(b, c) => Before(a, c)
<1>1. /\ a \in Nat \X Nat \X Nat
      /\ b \in Nat \X Nat \X Nat
      /\ c \in Nat \X Nat \X Nat
  BY FactsAssumption DEF Slot, Space, Fact
<1> QED
  BY <1>1 DEF Before

\* Some slots have a first one.
LEMMA FirstExists ==
  ASSUME NEW S \in SUBSET Slot, S # {}
  PROVE  \E s \in S : \A r \in S \ {s} : Before(s, r)
<1> DEFINE Down(s) == {r \in S : Before(r, s)}
           T == {Down(s) : s \in S}
           R == StrictSubsetOrdering(Slot)
<1>1. IsWellFoundedOn(R, FiniteSubsetsOf(Slot))
  BY FS_StrictSubsetOrderingWellFounded
<1>2. T \subseteq FiniteSubsetsOf(Slot)
  BY SlotsAreFinite, FS_Subset DEF FiniteSubsetsOf
<1>3. \E x \in T : \A y \in T : ~(<<y, x>> \in R)
  <2>1. T # {}
    OBVIOUS
  <2> HIDE DEF T, R
  <2> QED
    BY <1>1, <1>2, <2>1, WFMin
<1>4. PICK s \in S : \A r \in S : ~(<<Down(r), Down(s)>> \in R)
  BY <1>3
<1>5. ASSUME NEW r \in S \ {s}, ~Before(s, r)
      PROVE  FALSE
  <2>1. Before(r, s) /\ ~Before(r, r)
    BY <1>5, BeforeIsAnOrder
  <2>2. Down(r) \subseteq Down(s)
    BY <2>1, BeforeIsAnOrder
  <2>3. r \in Down(s) /\ r \notin Down(r)
    BY <2>1
  <2> QED
    BY <1>4, <2>2, <2>3 DEF StrictSubsetOrdering
<1> QED
  BY <1>5

(* Tables of pages. *)

Table == [Slot -> Page \cup {None}]

\* What supersedes a page is a page.
Linked(pg) == \A s \in Slot : pg[s] # None => pg[s].next = None \/ pg[pg[s].next] # None

Good(pg) == pg \in Table /\ Linked(pg) /\ NoCycle(pg)

\* Two tables with the same pages, which say the same.
Same(pg, new) ==
  \A s \in Slot : /\ pg[s] = None <=> new[s] = None
                  /\ pg[s] # None => Says(new[s]) = Says(pg[s])

\* i is retired by j, which says so.
Retired(pg, i, j) == pg[i] # None /\ pg[i].next = j /\ Claims(pg, j, i)

KeepsRetired(pg, new) == \A i, j \in Slot : Retired(pg, i, j) => new[i].next = j

\* The same table with another link.
Relinked(pg, t, n) == [pg EXCEPT ![t].next = n]

LEMMA Relinking ==
  ASSUME NEW pg \in Table, NEW t \in Slot, pg[t] # None, NEW n \in Slot \cup {None}
  PROVE  /\ Relinked(pg, t, n) \in Table
         /\ Relinked(pg, t, n)[t] # None
         /\ Relinked(pg, t, n)[t].next = n
         /\ \A s \in Slot \ {t} : Relinked(pg, t, n)[s] = pg[s]
         /\ Same(pg, Relinked(pg, t, n))
<1> DEFINE e == [pg[t] EXCEPT !.next = n]
           new == Relinked(pg, t, n)
<1>1. pg[t] \in Page
  BY DEF Table
<1>2. e \in Page /\ e.next = n /\ Says(e) = Says(pg[t])
  BY <1>1 DEF Page, Says
<1>3. e # None
  BY <1>2, FactsAssumption
<1>4. new = [pg EXCEPT ![t] = e]
  BY DEF Table, Relinked
<1> HIDE DEF new, e
<1>5. new \in Table /\ new[t] = e /\ \A s \in Slot \ {t} : new[s] = pg[s]
  BY <1>2, <1>4 DEF Table
<1>6. Same(pg, new)
  BY <1>2, <1>3, <1>5 DEF Same
<1>7. new[t] # None /\ new[t].next = n
  BY <1>2, <1>3, <1>5
<1> QED
  BY <1>5, <1>6, <1>7 DEF new

\* A link that is undone.
LEMMA Unlinking ==
  ASSUME NEW pg, Good(pg), NEW t \in Slot, pg[t] # None
  PROVE  Good(Relinked(pg, t, None))
<1> DEFINE new == Relinked(pg, t, None)
<1>0. pg \in Table
  BY DEF Good
<1>1. /\ new \in Table
      /\ new[t] # None /\ new[t].next = None
      /\ \A s \in Slot \ {t} : new[s] = pg[s]
  BY <1>0, Relinking
<1> HIDE DEF new
<1>2. Linked(new)
  BY <1>0, <1>1 DEF Good, Linked, Table, Page
<1>3. ASSUME NEW S \in SUBSET Slot, Headless(new, S)
      PROVE  Headless(pg, S)
  <2>1. t \notin S
    BY <1>1, <1>3, FactsAssumption DEF Headless
  <2> QED
    BY <1>1, <1>3, <2>1 DEF Headless
<1>4. NoCycle(new)
  BY <1>3 DEF Good, NoCycle
<1>5. Good(new)
  BY <1>1, <1>2, <1>4 DEF Good
<1> QED
  BY <1>5 DEF new

\* A link to a head, from another page: a chain through it would have to go on from the head.
LEMMA Linking ==
  ASSUME NEW pg, Good(pg), NEW t \in Slot, NEW w \in Slot, t # w,
         pg[t] # None, pg[w] # None, pg[w].next = None
  PROVE  Good(Relinked(pg, t, w))
<1> DEFINE new == Relinked(pg, t, w)
<1>0. pg \in Table
  BY DEF Good
<1>1. /\ new \in Table
      /\ new[t] # None /\ new[t].next = w
      /\ \A s \in Slot \ {t} : new[s] = pg[s]
  BY <1>0, Relinking
<1> HIDE DEF new
<1>2. Linked(new)
  BY <1>0, <1>1 DEF Good, Linked, Table, Page
<1>3. ASSUME NEW S \in SUBSET Slot, Headless(new, S)
      PROVE  Headless(pg, S)
  <2>1. w \notin S
    BY <1>1, <1>3, FactsAssumption DEF Headless
  <2>2. t \notin S
    BY <1>1, <1>3, <2>1 DEF Headless
  <2> QED
    BY <1>1, <1>3, <2>2 DEF Headless
<1>4. NoCycle(new)
  BY <1>3 DEF Good, NoCycle
<1>5. Good(new)
  BY <1>1, <1>2, <1>4 DEF Good
<1> QED
  BY <1>5 DEF new

\* A file that becomes a page, or the next version of one: the link stays.
Written(pg, s, f) ==
  [pg EXCEPT ![s] = AsPage(f, IF pg[s] = None THEN None ELSE pg[s].next)]

LEMMA Writing ==
  ASSUME NEW pg, Good(pg), NEW s \in Slot, NEW f \in File
  PROVE  /\ Good(Written(pg, s, f))
         /\ Written(pg, s, f)[s] # None
         /\ Says(Written(pg, s, f)[s]) = f
         /\ \A r \in Slot \ {s} : Written(pg, s, f)[r] = pg[r]
         /\ pg[s] # None => Written(pg, s, f)[s].next = pg[s].next
<1> DEFINE n == IF pg[s] = None THEN None ELSE pg[s].next
           e == AsPage(f, n)
           new == [pg EXCEPT ![s] = e]
<1>0. pg \in Table
  BY DEF Good
<1>1. n \in Slot \cup {None}
  BY <1>0 DEF Table, Page
<1>2. e \in Page /\ e.next = n /\ Says(e) = f
  BY <1>1 DEF AsPage, Page, File, Says
<1>3. e # None
  BY <1>2, FactsAssumption
<1>4. new \in Table /\ new[s] = e /\ \A r \in Slot \ {s} : new[r] = pg[r]
  BY <1>0, <1>2 DEF Table
<1>5. Linked(new)
  BY <1>0, <1>1, <1>2, <1>3, <1>4 DEF Good, Linked, Table, Page
<1>6. ASSUME NEW S \in SUBSET Slot, Headless(new, S)
      PROVE  Headless(pg, S)
  <2>1. s \in S => pg[s] # None
    BY <1>2, <1>4, <1>6, FactsAssumption DEF Headless
  <2>2. \A r \in S : pg[r] # None /\ pg[r].next = new[r].next
    BY <1>2, <1>4, <1>6, <2>1 DEF Headless
  <2> QED
    BY <1>6, <2>2 DEF Headless
<1>7. NoCycle(new)
  BY <1>6 DEF Good, NoCycle
<1>8. Good(new)
  BY <1>4, <1>5, <1>7 DEF Good
<1>9. Written(pg, s, f) = new
  BY DEF Written
<1> QED
  BY <1>2, <1>3, <1>4, <1>8, <1>9

\* A page that nothing refers to is deleted.
LEMMA Deleting ==
  ASSUME NEW pg, Good(pg), NEW s \in Slot, Deletable(pg, s)
  PROVE  Good([pg EXCEPT ![s] = None])
<1> DEFINE new == [pg EXCEPT ![s] = None]
<1>0. pg \in Table
  BY DEF Good
<1>1. new \in Table /\ new[s] = None /\ \A r \in Slot \ {s} : new[r] = pg[r]
  BY <1>0 DEF Table
<1>2. Linked(new)
  BY <1>0, <1>1 DEF Good, Linked, Table, Page, Deletable
<1>3. ASSUME NEW S \in SUBSET Slot, Headless(new, S)
      PROVE  Headless(pg, S)
  BY <1>1, <1>3 DEF Headless
<1>4. NoCycle(new)
  BY <1>3 DEF Good, NoCycle
<1> QED
  BY <1>1, <1>2, <1>4 DEF Good

\* The predecessor is a page that the writer supersedes; there is none if no page is.
LEMMA PredecessorIs ==
  ASSUME NEW pg, NEW ns, NEW w
  PROVE  LET all == {s \in Slot : s[1] = ns /\ pg[s] # None /\ pg[s].next = w} IN
         /\ all = {} => Predecessor(pg, ns, w) = None
         /\ all # {} => Predecessor(pg, ns, w) \in all
<1> DEFINE all == {s \in Slot : s[1] = ns /\ pg[s] # None /\ pg[s].next = w}
<1>1. all = {} => Predecessor(pg, ns, w) = None
  BY DEF Predecessor
<1>2. ASSUME all # {} PROVE Predecessor(pg, ns, w) \in all
  <2>1. \E s \in all : \A r \in all \ {s} : Before(s, r)
    BY <1>2, FirstExists
  <2>2. Predecessor(pg, ns, w) = CHOOSE s \in all : \A r \in all \ {s} : Before(s, r)
    BY <1>2 DEF Predecessor
  <2> HIDE DEF all
  <2> QED
    BY <2>1, <2>2
<1> QED
  BY <1>1, <1>2

\* The four ends of reconcile_supersede_chain.
LEMMA ChainEnds ==
  ASSUME NEW pg, Good(pg), NEW ns, NEW w \in Slot, pg[w] # None
  PROVE  LET out == Chain(pg, ns, w).page
             p == Predecessor(pg, ns, w)
             freed == IF p = None THEN pg ELSE Relinked(pg, p, None)
         IN \/ out = pg
            \/ /\ out = freed
               /\ Target(pg, ns, pg[w].sup) # p \/ pg[w].sup = None
            \/ \E t \in Slot :
                 /\ pg[w].sup # None
                 /\ t = Target(pg, ns, pg[w].sup)
                 /\ t # p /\ t # w
                 /\ pg[t] # None
                 /\ MayPoint(pg, t, w)
                 /\ IsHead(freed, t)
                 /\ out = Relinked(freed, t, w)
<1> DEFINE sup == pg[w].sup
           t == Target(pg, ns, sup)
           p == Predecessor(pg, ns, w)
           freed == IF p = None THEN pg ELSE Relinked(pg, p, None)
<1>1. t # None => t \in Slot /\ pg[t] # None
  BY DEF Target
<1>2. CASE sup # None /\ (t = None \/ ~MayPoint(pg, t, w))
  BY <1>2 DEF Chain
<1>3. CASE sup = None
  BY <1>3 DEF Chain, Relinked
<1>4. CASE sup # None /\ t # None /\ MayPoint(pg, t, w)
  <2>1. t # w
    BY <1>4 DEF MayPoint
  <2>2. CASE p = t
    BY <1>4, <2>2 DEF Chain
  <2>3. CASE p # t /\ ~IsHead(freed, t)
    BY <1>4, <2>3 DEF Chain, Relinked
  <2>4. CASE p # t /\ IsHead(freed, t)
    <3>1. Chain(pg, ns, w).page = Relinked(freed, t, w)
      BY <1>4, <2>4 DEF Chain, Relinked
    <3> QED
      BY <1>1, <1>4, <2>1, <2>4, <3>1
  <2> QED
    BY <2>2, <2>3, <2>4
<1> QED
  BY <1>2, <1>3, <1>4

\* A predecessor is not set free if it is what the writer says it supersedes.
LEMMA FreedIsNotRetired ==
  ASSUME NEW pg, Good(pg), NEW ns, NEW w \in Slot, pg[w] # None,
         NEW p, p = Predecessor(pg, ns, w), p # None,
         Target(pg, ns, pg[w].sup) # p \/ pg[w].sup = None
  PROVE  p \in Slot /\ pg[p] # None /\ \A j \in Slot : ~Retired(pg, p, j)
<1>1. p \in Slot /\ p[1] = ns /\ pg[p] # None /\ pg[p].next = w
  BY PredecessorIs
<1>2. ASSUME Claims(pg, w, p)
      PROVE  FALSE
  <2>1. p \in Space \X Nat \X Nat
    BY <1>1, FactsAssumption DEF Slot, Space, Fact
  <2>2. p = <<ns, SlugOf(p)[1], SlugOf(p)[2]>> /\ SlugOf(p) \in Slug
    BY <1>1, <2>1 DEF SlugOf, Slug
  <2>3. pg[w].sup = SlugOf(p) /\ pg[w].sup # None
    BY <1>2, <2>2, FactsAssumption DEF Claims
  <2>4. Target(pg, ns, pg[w].sup) = p
    BY <1>1, <2>2, <2>3 DEF Target
  <2> QED
    BY <2>3, <2>4
<1> QED
  BY <1>1, <1>2 DEF Retired

\* reconcile_supersede_chain keeps a table good, adds and removes no page, and brings no
\* page back that its successor says it supersedes.
LEMMA Chaining ==
  ASSUME NEW pg, Good(pg), NEW ns, NEW w \in Slot, pg[w] # None
  PROVE  /\ Good(Chain(pg, ns, w).page)
         /\ Same(pg, Chain(pg, ns, w).page)
         /\ KeepsRetired(pg, Chain(pg, ns, w).page)
<1> DEFINE out == Chain(pg, ns, w).page
           p == Predecessor(pg, ns, w)
           freed == IF p = None THEN pg ELSE Relinked(pg, p, None)
<1>0. pg \in Table
  BY DEF Good
<1>1. p # None => p \in Slot /\ pg[p] # None
  BY PredecessorIs
<1>2. Good(freed) /\ Same(pg, freed) /\ \A s \in Slot \ {p} : freed[s] = pg[s]
  BY <1>0, <1>1, Unlinking, Relinking DEF Same
<1>3. Target(pg, ns, pg[w].sup) # p \/ pg[w].sup = None => KeepsRetired(pg, freed)
  BY <1>0, <1>2, FreedIsNotRetired DEF KeepsRetired, Retired
<1>4. CASE out = pg
  BY <1>4 DEF Same, KeepsRetired, Retired
<1>5. CASE out = freed /\ (Target(pg, ns, pg[w].sup) # p \/ pg[w].sup = None)
  BY <1>2, <1>3, <1>5
<1>6. ASSUME NEW t \in Slot, pg[w].sup # None, t = Target(pg, ns, pg[w].sup), t # p, t # w,
             pg[t] # None, MayPoint(pg, t, w), IsHead(freed, t), out = Relinked(freed, t, w)
      PROVE  Good(out) /\ Same(pg, out) /\ KeepsRetired(pg, out)
  <2>1. freed[t] = pg[t] /\ pg[t].next = None
    BY <1>2, <1>6 DEF IsHead
  <2>2. pg[w].next = None
    BY <1>6, <2>1, FactsAssumption DEF MayPoint, IsHead
  <2>3. freed[w] # None /\ freed[w].next = None
    BY <1>0, <1>1, <1>2, <2>2, Relinking DEF Same
  <2>4. freed \in Table /\ w \in Slot \cup {None}
    BY <1>2 DEF Good
  <2> HIDE DEF freed, out, p
  <2>5. Good(out)
    BY <1>2, <1>6, <2>1, <2>3, Linking
  <2>6. Same(freed, out) /\ \A s \in Slot \ {t} : out[s] = freed[s]
    BY <1>6, <2>1, <2>4, Relinking
  <2>7. Same(pg, out)
    BY <1>2, <2>6 DEF Same
  <2>8. ASSUME NEW i \in Slot, NEW j \in Slot, Retired(pg, i, j)
        PROVE  out[i].next = j
    <3>1. i # t
      BY <2>1, <2>8, FactsAssumption DEF Retired
    <3>2. freed[i].next = j
      BY <1>3, <1>6, <2>8 DEF KeepsRetired
    <3> QED
      BY <2>6, <3>1, <3>2
  <2> QED
    BY <2>5, <2>7, <2>8 DEF KeepsRetired
<1>7. \/ out = pg
      \/ out = freed /\ (Target(pg, ns, pg[w].sup) # p \/ pg[w].sup = None)
      \/ \E t \in Slot :
           /\ pg[w].sup # None
           /\ t = Target(pg, ns, pg[w].sup)
           /\ t # p /\ t # w
           /\ pg[t] # None
           /\ MayPoint(pg, t, w)
           /\ IsHead(freed, t)
           /\ out = Relinked(freed, t, w)
  BY ChainEnds
<1> QED
  BY <1>4, <1>5, <1>6, <1>7

\* A file that becomes a page, with its link.
Ingested(pg, s, f) == Chain(Written(pg, s, f), 0, s).page

\* It is a page then and says what the file says; no other page comes, goes or says
\* something else; and what says it supersedes a page that it has retired still retires it.
LEMMA Ingesting ==
  ASSUME NEW pg, Good(pg), NEW s \in Slot, NEW f \in File
  PROVE  /\ Good(Ingested(pg, s, f))
         /\ Ingested(pg, s, f)[s] # None
         /\ Says(Ingested(pg, s, f)[s]) = f
         /\ \A r \in Slot \ {s} :
              /\ Ingested(pg, s, f)[r] = None <=> pg[r] = None
              /\ pg[r] # None => Says(Ingested(pg, s, f)[r]) = Says(pg[r])
         /\ \A i, j \in Slot :
              pg[i] # None /\ pg[i].next = j /\ Claims(Ingested(pg, s, f), j, i)
                => Ingested(pg, s, f)[i].next = j
<1> DEFINE w == Written(pg, s, f)
           out == Ingested(pg, s, f)
<1>1. Good(w) /\ w[s] # None /\ Says(w[s]) = f /\ \A r \in Slot \ {s} : w[r] = pg[r]
  BY Writing
<1>2. Good(out) /\ Same(w, out) /\ KeepsRetired(w, out)
  BY <1>1, Chaining DEF Ingested
<1>3. \A i \in Slot : pg[i] # None => w[i] # None /\ w[i].next = pg[i].next
  BY <1>1, Writing
<1> HIDE DEF w, out
<1>4. /\ out[s] # None /\ Says(out[s]) = f
      /\ \A r \in Slot \ {s} :
              /\ out[r] = None <=> pg[r] = None
              /\ pg[r] # None => Says(out[r]) = Says(pg[r])
  BY <1>1, <1>2 DEF Same
<1>5. ASSUME NEW i \in Slot, NEW j \in Slot,
             pg[i] # None, pg[i].next = j, Claims(out, j, i)
      PROVE  out[i].next = j
  <2>1. w[j] # None /\ Says(w[j]) = Says(out[j])
    BY <1>2, <1>5 DEF Same, Claims
  <2>2. Claims(w, j, i)
    BY <1>5, <2>1 DEF Claims, Says
  <2> QED
    BY <1>2, <1>3, <1>5, <2>2 DEF KeepsRetired, Retired
<1>6. /\ Good(out)
      /\ \A i, j \in Slot :
           pg[i] # None /\ pg[i].next = j /\ Claims(out, j, i) => out[i].next = j
  BY <1>2, <1>5
<1> QED
  BY <1>4, <1>6 DEF out

(* The extractor's files. *)

\* The place of a new file is the slot of a fact, which is free for it.
LEMMA Placing ==
  ASSUME NEW ns \in Space, NEW f, f.data \in Fact, Places(ns, f) # {}
  PROVE  Place(ns, f) \in Slot /\ ~Note(Place(ns, f)) /\ Free(Place(ns, f), f)
<1> DEFINE At(n) == <<ns, f.data, n>>
           S == {At(n) : n \in Places(ns, f)}
           c == CHOOSE n \in Places(ns, f) : \A m \in Places(ns, f) : n <= m
<1>0. \A n \in Places(ns, f) : At(n) \in Slot
  BY DEF Places, Slot
<1>1. S \in SUBSET Slot /\ S # {}
  BY <1>0
<1>2. PICK s \in S : \A r \in S \ {s} : Before(s, r)
  BY <1>1, FirstExists
<1>3. PICK n \in Places(ns, f) : s = At(n)
  OBVIOUS
<1>4. ASSUME NEW m \in Places(ns, f), m # n
      PROVE  n <= m
  <2>1. Before(At(n), At(m))
    BY <1>2, <1>3, <1>4
  <2> QED
    BY <2>1, FactsAssumption DEF Before, Places, Space, Fact
<1>5. \A m \in Places(ns, f) : n <= m
  BY <1>4, FactsAssumption DEF Places
<1>6. c \in Places(ns, f)
  BY <1>3, <1>5
<1>7. c \in 1 .. Attempts /\ Free(At(c), f)
  BY <1>6 DEF Places
<1>8. Place(ns, f) = At(c)
  BY DEF Place
<1> HIDE DEF c
<1> QED
  BY <1>7, <1>8 DEF Slot, Note, Fact

-----------------------------------------------------------------------------
(* Types. *)

Tx ==
  [page : Table, row : [Slot -> File \cup {None}],
   gone : SUBSET Slot, modified : SUBSET Slot, new : SUBSET Slot]

Types ==
  /\ file \in [Slot -> File \cup {None}]
  /\ row \in [Slot -> File \cup {None}]
  /\ Good(page)
  /\ tx \in Tx \cup {None}
  /\ tx # None => Good(tx.page)
  /\ session \in [SessionId -> Session \cup {None}]
  /\ call \in Call \cup {None}
  /\ call # None => session[call.session] \in Session

RowsOfPages(pg, rw) == \A s \in Slot : rw[s] # None => pg[s] # None

Rows == RowsOfPages(page, row) /\ (tx # None => RowsOfPages(tx.page, tx.row))

\* What a pass has to do: no file changes under it.
Plan ==
  tx # None => /\ \A s \in tx.gone : file[s] = None
               /\ \A s \in tx.modified \cup tx.new : file[s] # None

Sound == Types /\ Rows /\ Plan

\* What Sound says of the tables is TypeOK.
LEMMA SoundIsTyped == Sound => TypeOK
<1> SUFFICES ASSUME Sound PROVE TypeOK
  OBVIOUS
<1>1. page \in Table /\ Linked(page)
  BY DEF Sound, Types, Good
<1>2. \A s \in Pages : page[s].next \in Pages \cup {None}
  BY <1>1 DEF Pages, Linked, Table, Page
<1> QED
  BY <1>1, <1>2 DEF Sound, Types, Rows, RowsOfPages, TypeOK, Table

\* At first there is nothing.
LEMMA InitIsSound == Init => Sound
<1> SUFFICES ASSUME Init PROVE Sound
  OBVIOUS
<1>1. page \in Table /\ \A s \in Slot : page[s] = None
  BY DEF Init, Table
<1>2. Good(page)
  BY <1>1 DEF Good, Linked, NoCycle, Headless
<1> QED
  BY <1>2 DEF Init, Sound, Types, Rows, RowsOfPages, Plan

\* A file of the extractor is typed.
LEMMA PlacingTypes ==
  ASSUME Sound, NEW ns \in Space, NEW f \in File, f.data \in Fact, Places(ns, f) # {},
         file' = [file EXCEPT ![Place(ns, f)] = f]
  PROVE  file' \in [Slot -> File \cup {None}]
BY Placing DEF Sound, Types

\* The candidates of a fact are slots: what a file of the extractor supersedes is a slug.
LEMMA SlugsOfSlots == \A s \in Slot : SlugOf(s) \in Slug
BY DEF Slug

LEMMA ExtractIsSound ==
  ASSUME Sound, NEW w \in Windows, NEW ns \in Space, NEW c \in Fact, Extract(w, ns, c)
  PROVE  Sound'
<1> DEFINE how == Resolution(ns, c)
           prior == CHOOSE s \in Candidates(ns, c) : TRUE
           f == [data |-> c, sup |-> IF how = "supersede" THEN SlugOf(prior) ELSE None,
                 by |-> w]
<1>1. how = "supersede" => prior \in Slot
  BY DEF Resolution, Candidates, Heads, Pages
<1>2. f \in File
  BY <1>1, SlugsOfSlots DEF File, Fact, Author
<1>3. f.data = c
  OBVIOUS
<1>4. file' = file \/ (Places(ns, f) # {} /\ file' = [file EXCEPT ![Place(ns, f)] = f])
  BY DEF Extract
<1> HIDE DEF f
<1>5. file' \in [Slot -> File \cup {None}]
  BY <1>2, <1>3, <1>4, PlacingTypes DEF Sound, Types
<1>6. tx = None /\ UNCHANGED <<page, row, tx, session, call>>
  BY DEF Extract
<1> QED
  BY <1>5, <1>6 DEF Sound, Types, Rows, Plan

\* A pass begins with what it finds.
LEMMA PassBeginIsSound == ASSUME Sound, PassBegin PROVE Sound'
<1>1. /\ tx' = [page |-> page, row |-> row, gone |-> Missing, modified |-> Modified,
                new |-> Unseen]
      /\ UNCHANGED <<file, page, row, session, call>>
  BY DEF PassBegin
<1>2. /\ \A s \in Missing : file[s] = None
      /\ \A s \in Modified \cup Unseen : file[s] # None
      /\ Missing \in SUBSET Slot /\ Modified \in SUBSET Slot /\ Unseen \in SUBSET Slot
  BY DEF Missing, Modified, Unseen, Files
<1>3. tx' \in Tx /\ tx'.page = page /\ tx'.row = row
  BY <1>1, <1>2 DEF Sound, Types, Good, Tx
<1>4. Plan'
  BY <1>1, <1>2 DEF Plan
<1> QED
  BY <1>1, <1>3, <1>4 DEF Sound, Types, Rows, RowsOfPages

\* A pass that stops leaves its tables or nothing.
LEMMA PassStopsIsSound ==
  ASSUME Sound, tx # None, NEW end, PassStops(tx, end)
  PROVE  Sound'
<1>1. tx \in Tx
  BY DEF Sound, Types
<1>2. /\ tx' = None
      /\ \/ page' = tx.page /\ row' = tx.row
         \/ page' = page /\ row' = row
      /\ UNCHANGED <<file, session, call>>
  BY DEF PassStops
<1> QED
  BY <1>1, <1>2 DEF Sound, Types, Rows, RowsOfPages, Plan, Tx

\* A pass goes on with a sound transaction.
LEMMA PassGoesOnIsSound ==
  ASSUME Sound, NEW t \in Tx, PassGoesOn(t), tx # None, Good(t.page),
         RowsOfPages(t.page, t.row), t.gone \subseteq tx.gone,
         t.modified \cup t.new \subseteq tx.modified \cup tx.new
  PROVE  Sound'
BY DEF PassGoesOn, Sound, Types, Rows, RowsOfPages, Plan

\* A typed transaction with other tables and other things to do.
LEMMA TxTypes ==
  ASSUME NEW t \in Tx, NEW pg \in Table, NEW rw \in [Slot -> File \cup {None}],
         NEW gone \in SUBSET Slot, NEW modified \in SUBSET Slot, NEW new \in SUBSET Slot
  PROVE  /\ [t EXCEPT !.page = pg, !.row = rw, !.gone = gone] \in Tx
         /\ [t EXCEPT !.page = pg, !.row = rw, !.modified = modified, !.new = new] \in Tx
BY DEF Tx

LEMMA PassDeletesIsSound ==
  ASSUME Sound, NEW s \in Slot, PassDeletes(s)
  PROVE  Sound'
<1>1. CASE ~Deletable(tx.page, s)
  BY <1>1, PassStopsIsSound DEF PassDeletes
<1>2. CASE Deletable(tx.page, s)
  <2> DEFINE pg == [tx.page EXCEPT ![s] = None]
             rw == [tx.row EXCEPT ![s] = None]
             t == [tx EXCEPT !.page = pg, !.row = rw, !.gone = tx.gone \ {s}]
  <2>1. tx \in Tx /\ tx # None /\ Good(tx.page) /\ RowsOfPages(tx.page, tx.row)
    BY DEF PassDeletes, Sound, Types, Rows
  <2>2. PassGoesOn(t)
    BY <1>2 DEF PassDeletes
  <2>3. Good(pg) /\ rw \in [Slot -> File \cup {None}] /\ tx.gone \ {s} \in SUBSET Slot
    BY <1>2, <2>1, Deleting DEF Tx
  <2>4. RowsOfPages(pg, rw)
    BY <2>1 DEF RowsOfPages, Tx, Table
  <2>5. /\ t.page = pg /\ t.row = rw
        /\ t.gone \subseteq tx.gone /\ t.modified = tx.modified /\ t.new = tx.new
    BY <2>1 DEF Tx
  <2>6. pg \in Table
    BY <2>3 DEF Good
  <2>7. t \in Tx
    BY <2>1, <2>3, <2>6, TxTypes DEF Tx
  <2> HIDE DEF t, pg, rw
  <2> QED
    BY <2>1, <2>2, <2>3, <2>4, <2>5, <2>7, PassGoesOnIsSound
<1> QED
  BY <1>1, <1>2

\* What a pass does with a file that it can ingest.
LEMMA PassIngestsWhat ==
  ASSUME Sound, NEW s \in Slot, PassIngests(s),
         ~(tx.page[s] # None /\ Extracted(s))
  PROVE  /\ tx \in Tx /\ tx # None /\ Good(tx.page)
         /\ file[s] \in File
         /\ s \in tx.modified \cup tx.new
         /\ PassGoesOn(tx')
         /\ tx' \in Tx
         /\ tx'.page = Ingested(tx.page, s, file[s])
         /\ tx'.row = [tx.row EXCEPT ![s] = file[s]]
         /\ tx'.gone = tx.gone
         /\ tx'.modified = tx.modified \ {s}
         /\ tx'.new = tx.new \ {s}
<1>1. tx \in Tx /\ tx # None /\ Good(tx.page)
  BY DEF PassIngests, Sound, Types
<1>2. s \in tx.modified \cup tx.new
  BY DEF PassIngests, Due
<1>3. file[s] \in File
  BY <1>1, <1>2 DEF Sound, Types, Plan
<1> DEFINE w == [tx.page EXCEPT ![s] =
                   AsPage(file[s], IF tx.page[s] # None THEN tx.page[s].next ELSE None)]
           pg == Chain(w, 0, s).page
           rw == [tx.row EXCEPT ![s] = file[s]]
           t == [tx EXCEPT !.page = pg, !.row = rw,
                           !.modified = tx.modified \ {s}, !.new = tx.new \ {s}]
<1>4. PassGoesOn(t)
  BY DEF PassIngests
<1>5. tx' = t
  BY <1>4 DEF PassGoesOn
<1>6. w = Written(tx.page, s, file[s])
  BY DEF Written
<1>7. pg = Ingested(tx.page, s, file[s])
  BY <1>6 DEF Ingested
<1>8. pg \in Table
  BY <1>1, <1>3, <1>7, Ingesting DEF Good
<1>9. rw \in [Slot -> File \cup {None}]
  BY <1>1, <1>3 DEF Tx
<1> HIDE DEF pg, rw
<1>10. /\ t.page = pg /\ t.row = rw /\ t.gone = tx.gone
       /\ t.modified = tx.modified \ {s} /\ t.new = tx.new \ {s}
  BY <1>1 DEF Tx
<1>11. t \in Tx
  BY <1>1, <1>8, <1>9, TxTypes DEF Tx
<1> HIDE DEF t
<1> QED
  BY <1>1, <1>2, <1>3, <1>4, <1>5, <1>7, <1>10, <1>11 DEF rw

LEMMA PassIngestsIsSound ==
  ASSUME Sound, NEW s \in Slot, PassIngests(s)
  PROVE  Sound'
<1>1. CASE tx.page[s] # None /\ Extracted(s)
  <2>1. PassStops(tx, "failed") /\ tx # None
    BY <1>1 DEF PassIngests
  <2> QED
    BY <2>1, PassStopsIsSound
<1>2. CASE ~(tx.page[s] # None /\ Extracted(s))
  <2> DEFINE t == tx'
  <2>1. /\ tx \in Tx /\ tx # None /\ file[s] \in File
        /\ Good(tx.page) /\ RowsOfPages(tx.page, tx.row)
        /\ PassGoesOn(t) /\ t \in Tx
        /\ t.page = Ingested(tx.page, s, file[s])
        /\ t.row = [tx.row EXCEPT ![s] = file[s]]
        /\ t.gone \subseteq tx.gone
        /\ t.modified \cup t.new \subseteq tx.modified \cup tx.new
    BY <1>2, PassIngestsWhat DEF Sound, Rows
  <2> HIDE DEF t
  <2>2. /\ Good(t.page)
        /\ t.page[s] # None
        /\ \A r \in Slot \ {s} : t.page[r] = None <=> tx.page[r] = None
    BY <2>1, Ingesting
  <2>3. RowsOfPages(t.page, t.row)
    BY <2>1, <2>2 DEF RowsOfPages, Tx
  <2> QED
    BY <2>1, <2>2, <2>3, PassGoesOnIsSound
<1> QED
  BY <1>1, <1>2

\* Editors change one file, to a typed one or to none.
LEMMA EditsAreSound ==
  ASSUME Sound, NEW s \in Slot, NEW f \in File \cup {None}, Edits(s, f)
  PROVE  Sound'
BY DEF Edits, Sound, Types, Rows, RowsOfPages, Plan

\* Whatever editors do is such an edit.
LEMMA EditorsEdit ==
  ASSUME Sound, NEW s \in Slot, EditNote(s) \/ EditFact(s) \/ Unlink(s)
  PROVE  \E f \in File \cup {None} :
           Edits(s, f)
<1>1. CASE EditNote(s)
  <2>1. PICK sup \in Known : Edits(s, [data |-> 0, sup |-> sup, by |-> "user"])
    BY <1>1 DEF EditNote
  <2>2. sup \in Slug \cup {None}
    BY SlugsOfSlots DEF Known, Pages
  <2>3. [data |-> 0, sup |-> sup, by |-> "user"] \in File
    BY <2>2, FactsAssumption DEF File, Author
  <2> QED
    BY <1>1, <2>1, <2>3
<1>2. CASE EditFact(s)
  <2>1. PICK c \in Fact : Edits(s, [file[s] EXCEPT !.data = c]) /\ s \in Files
    BY <1>2 DEF EditFact
  <2>2. file[s] \in File
    BY <2>1 DEF Sound, Types, Files
  <2>3. [file[s] EXCEPT !.data = c] \in File
    BY <2>2 DEF File, Fact
  <2> QED
    BY <1>2, <2>1, <2>3 DEF EditFact
<1>3. CASE Unlink(s)
  BY <1>3 DEF Unlink
<1> QED
  BY <1>1, <1>2, <1>3

LEMMA PutIsSound ==
  ASSUME Sound, NEW s \in Slot, Put(s)
  PROVE  Sound'
<1>1. PICK sup \in Known :
        LET f == [data |-> 0, sup |-> sup, by |-> "user"] IN
        /\ page' = Ingested(page, s, f)
        /\ file' = [file EXCEPT ![s] = f]
        /\ row' = [row EXCEPT ![s] = f]
  BY DEF Put, Ingested, Written
<1> DEFINE f == [data |-> 0, sup |-> sup, by |-> "user"]
<1>2. sup \in Slug \cup {None}
  BY SlugsOfSlots DEF Known, Pages
<1>3. f \in File
  BY <1>2, FactsAssumption DEF File, Author
<1>4. page' = Ingested(page, s, f) /\ file' = [file EXCEPT ![s] = f]
      /\ row' = [row EXCEPT ![s] = f]
  BY <1>1
<1> HIDE DEF f
<1>5. /\ Good(page')
      /\ page'[s] # None
      /\ \A r \in Slot \ {s} : page'[r] = None <=> page[r] = None
  BY <1>3, <1>4, Ingesting DEF Sound, Types
<1>6. file' \in [Slot -> File \cup {None}] /\ row' \in [Slot -> File \cup {None}]
  BY <1>3, <1>4 DEF Sound, Types
<1>7. RowsOfPages(page', row')
  BY <1>4, <1>5 DEF Sound, Types, Rows, RowsOfPages
<1>8. tx = None /\ UNCHANGED <<tx, session, call>>
  BY DEF Put, Calls
<1> QED
  BY <1>5, <1>6, <1>7, <1>8 DEF Sound, Types, Rows, Plan

LEMMA ResolveIsSound ==
  ASSUME Sound, NEW k \in Slot, NEW l \in Slot, Resolve(k, l)
  PROVE  Sound'
<1>1. /\ k # l /\ page[k] # None /\ page[l] # None /\ page[k].next = None
      /\ page' = Relinked(page, l, k)
      /\ tx = None
      /\ UNCHANGED <<file, row, tx, session, call>>
  BY DEF Resolve, Calls, Pages, Relinked
<1>2. Good(page) /\ page \in Table
  BY DEF Sound, Types, Good
<1>3. Good(page') /\ Same(page, page')
  BY <1>1, <1>2, Linking, Relinking
<1>4. RowsOfPages(page', row')
  BY <1>1, <1>3 DEF Sound, Rows, RowsOfPages, Same
<1> QED
  BY <1>1, <1>3, <1>4 DEF Sound, Types, Rows, Plan

\* A call that leaves its session ends with typed sessions.
LEMMA LeavesTypes ==
  ASSUME Sound, NEW k \in SessionId, session[k] \in Session,
         NEW status \in {"open", "committed", "abandoned", "expired"},
         session' = [session EXCEPT ![k].status = status]
  PROVE  /\ session' \in [SessionId -> Session \cup {None}]
         /\ \A m \in SessionId : session[m] \in Session => session'[m] \in Session
<1> DEFINE e == [session[k] EXCEPT !.status = status]
<1>1. e \in Session
  BY DEF Session
<1>2. session \in [SessionId -> Session \cup {None}]
  BY DEF Sound, Types
<1>3. session' = [session EXCEPT ![k] = e]
  BY <1>2
<1> HIDE DEF e
<1> QED
  BY <1>1, <1>2, <1>3

\* A call is of a session.
LEMMA CallTypes ==
  ASSUME Sound, call # None
  PROVE  call \in Call /\ call.session \in SessionId /\ session[call.session] \in Session
BY DEF Sound, Types, Call

LEMMA StartCorrectionIsSound ==
  ASSUME Sound, NEW s \in Slot, StartCorrection(s)
  PROVE  Sound'
<1>1. PICK k \in SessionId :
        /\ session' = [session EXCEPT ![k] = [target |-> s, status |-> "open"]]
        /\ call' = [session |-> k, slot |-> None]
  BY DEF StartCorrection
<1>2. [target |-> s, status |-> "open"] \in Session
  BY DEF Session
<1>3. /\ session' \in [SessionId -> Session \cup {None}]
      /\ session'[k] \in Session
  BY <1>1, <1>2 DEF Sound, Types
<1>4. call' \in Call /\ call'.session = k
  BY <1>1 DEF Call
<1>5. UNCHANGED <<file, page, row, tx>>
  BY DEF StartCorrection
<1> QED
  BY <1>3, <1>4, <1>5 DEF Sound, Types, Rows, Plan

LEMMA ContinueCorrectionIsSound ==
  ASSUME Sound, NEW k \in SessionId, ContinueCorrection(k)
  PROVE  Sound'
<1>1. session[k] \in Session
  BY DEF ContinueCorrection, Sound, Types
<1>2. call' \in Call /\ call'.session = k
  BY DEF ContinueCorrection, Call
<1>3. UNCHANGED <<file, page, row, tx, session>>
  BY DEF ContinueCorrection
<1> QED
  BY <1>1, <1>2, <1>3 DEF Sound, Types, Rows, Plan

LEMMA EndSessionIsSound ==
  ASSUME Sound, NEW k \in SessionId, EndSession(k)
  PROVE  Sound'
<1>1. session[k] \in Session
  BY DEF EndSession, Sound, Types
<1>2. PICK status \in {"abandoned", "expired"} : session' = [session EXCEPT ![k].status = status]
  BY DEF EndSession, Leaves
<1>3. /\ session' \in [SessionId -> Session \cup {None}]
      /\ \A m \in SessionId : session[m] \in Session => session'[m] \in Session
  BY <1>1, <1>2, LeavesTypes
<1>4. call' = None \/ call' = call
  BY DEF EndSession, Leaves
<1>5. UNCHANGED <<file, page, row, tx>>
  BY DEF EndSession
<1>6. /\ call' \in Call \cup {None}
      /\ call' # None => session'[call'.session] \in Session
  BY <1>3, <1>4, CallTypes DEF Sound, Types
<1> QED
  BY <1>3, <1>5, <1>6 DEF Sound, Types, Rows, Plan

LEMMA AnswerIsSound == ASSUME Sound, Answer PROVE Sound'
<1>1. call' = None /\ UNCHANGED <<file, page, row, tx>>
  BY DEF Answer, Leaves
<1>2. session' \in [SessionId -> Session \cup {None}]
  <2>1. CASE session' = session
    BY <2>1 DEF Sound, Types
  <2>2. ASSUME NEW status \in {"abandoned", "open"}, Leaves(call.session, status)
        PROVE  session' \in [SessionId -> Session \cup {None}]
    BY <2>2, CallTypes, LeavesTypes DEF Answer, Leaves
  <2> QED
    BY <2>1, <2>2 DEF Answer
<1> QED
  BY <1>1, <1>2 DEF Sound, Types, Rows, Plan

\* What a commit of the model writes.
LEMMA AnswerCommitWhat ==
  ASSUME Sound, NEW c \in Fact, AnswerCommit(c)
  PROVE  \/ file' = file /\ call' = None
         \/ \E s \in Slot : \E f \in File :
              /\ ~Note(s) /\ Free(s, f) /\ f.by = "explicit"
              /\ file' = [file EXCEPT ![s] = f]
              /\ call' = [call EXCEPT !.slot = s]
<1> DEFINE s == session[call.session].target
           f == [data |-> c, sup |-> SlugOf(s), by |-> "explicit"]
<1>1. s \in Slot
  BY CallTypes DEF AnswerCommit, Session
<1>2. f \in File /\ f.data \in Fact /\ f.by = "explicit"
  BY <1>1, SlugsOfSlots DEF File, Fact, Author
<1>3. s[1] \in Space
  BY <1>1, FactsAssumption DEF Slot, Space
<1>4. IF Places(s[1], f) = {} THEN call' = None /\ UNCHANGED file
      ELSE /\ file' = [file EXCEPT ![Place(s[1], f)] = f]
           /\ call' = [call EXCEPT !.slot = Place(s[1], f)]
  BY DEF AnswerCommit
<1> HIDE DEF f, s
<1>5. Places(s[1], f) # {} => /\ Place(s[1], f) \in Slot
                              /\ ~Note(Place(s[1], f)) /\ Free(Place(s[1], f), f)
  BY <1>2, <1>3, Placing
<1> QED
  BY <1>2, <1>4, <1>5

LEMMA AnswerCommitIsSound ==
  ASSUME Sound, NEW c \in Fact, AnswerCommit(c)
  PROVE  Sound'
<1>1. tx = None /\ call # None /\ UNCHANGED <<page, row, tx, session>>
  BY DEF AnswerCommit
<1>2. CASE file' = file /\ call' = None
  BY <1>1, <1>2 DEF Sound, Types, Rows, Plan
<1>3. ASSUME NEW s \in Slot, NEW f \in File, file' = [file EXCEPT ![s] = f],
             call' = [call EXCEPT !.slot = s]
      PROVE  Sound'
  <2>1. file' \in [Slot -> File \cup {None}]
    BY <1>3 DEF Sound, Types
  <2>2. call \in Call /\ session[call.session] \in Session
    BY <1>1, CallTypes
  <2>3. call' \in Call /\ call'.session = call.session
    BY <1>3, <2>2 DEF Call
  <2> QED
    BY <1>1, <2>1, <2>2, <2>3 DEF Sound, Types, Rows, Plan
<1> QED
  BY <1>2, <1>3, AnswerCommitWhat

\* What ingest::run makes of the file of a correction.
LEMMA IngestCorrectionWhat ==
  ASSUME Sound, IngestCorrection
  PROVE  \/ page' = page /\ touched' = touched
         \/ touched' /\ \E s \in Slot : \E f \in File : page' = Ingested(page, s, f)
<1> DEFINE s == <<0, call.slot[2], call.slot[3]>>
           f == file[call.slot]
<1>1. call.slot \in Slot
  BY CallTypes DEF IngestCorrection, Call
<1>2. s \in Slot
  BY <1>1, FactsAssumption DEF Slot, Space
<1>3. f \in File \cup {None}
  BY <1>1 DEF Sound, Types
<1>4. \/ page' = page /\ touched' = touched
      \/ f # None /\ touched' /\ page' = Ingested(page, s, f)
  BY DEF IngestCorrection, Ingested, Written
<1> HIDE DEF s, f
<1> QED
  BY <1>2, <1>3, <1>4

LEMMA IngestCorrectionIsSound == ASSUME Sound, IngestCorrection PROVE Sound'
<1>1. tx = None /\ call # None /\ UNCHANGED <<file, row, tx>>
  BY DEF IngestCorrection
<1>2. Good(page') /\ \A r \in Slot : page[r] # None => page'[r] # None
  <2>1. CASE page' = page
    BY <2>1 DEF Sound, Types
  <2>2. ASSUME NEW s \in Slot, NEW f \in File, page' = Ingested(page, s, f)
        PROVE  Good(page') /\ \A r \in Slot : page[r] # None => page'[r] # None
    BY <2>2, Ingesting DEF Sound, Types
  <2> QED
    BY <2>1, <2>2, IngestCorrectionWhat
<1>3. call' = None
  BY DEF IngestCorrection, Leaves
<1>4. session' \in [SessionId -> Session \cup {None}]
  <2>1. CASE session' = session
    BY <2>1 DEF Sound, Types
  <2>2. CASE Leaves(call.session, "committed")
    BY <1>1, <2>2, CallTypes, LeavesTypes DEF Leaves
  <2> QED
    BY <2>1, <2>2 DEF IngestCorrection
<1> QED
  BY <1>1, <1>2, <1>3, <1>4 DEF Sound, Types, Rows, RowsOfPages, Plan

\* A step that changes nothing that Sound is about.
LEMMA StutterIsSound ==
  ASSUME Sound, UNCHANGED <<file, page, row, tx, session, call>>
  PROVE  Sound'
BY DEF Sound, Types, Rows, RowsOfPages, Plan

\* Every step keeps the types.
LEMMA StepIsSound == ASSUME Sound, [Next]_vars PROVE Sound'
<1>1. ASSUME NEW w \in Windows, NEW ns \in Space, NEW c \in Fact, Extract(w, ns, c)
      PROVE  Sound'
  BY <1>1, ExtractIsSound
<1>2. CASE PassBegin
  BY <1>2, PassBeginIsSound
<1>3. CASE PassEnds
  BY <1>3, PassStopsIsSound DEF PassEnds
<1>4. ASSUME NEW s \in Slot, PassDeletes(s) PROVE Sound'
  BY <1>4, PassDeletesIsSound
<1>5. ASSUME NEW s \in Slot, PassIngests(s) PROVE Sound'
  BY <1>5, PassIngestsIsSound
<1>6. ASSUME NEW s \in Slot, EditNote(s) \/ EditFact(s) \/ Unlink(s) PROVE Sound'
  BY <1>6, EditorsEdit, EditsAreSound
<1>7. ASSUME NEW s \in Slot, Put(s) PROVE Sound'
  BY <1>7, PutIsSound
<1>8. ASSUME NEW s \in Slot, StartCorrection(s) PROVE Sound'
  BY <1>8, StartCorrectionIsSound
<1>9. ASSUME NEW s \in Slot, NEW r \in Slot, Resolve(s, r) PROVE Sound'
  BY <1>9, ResolveIsSound
<1>10. ASSUME NEW k \in SessionId, ContinueCorrection(k) PROVE Sound'
  BY <1>10, ContinueCorrectionIsSound
<1>11. ASSUME NEW k \in SessionId, EndSession(k) PROVE Sound'
  BY <1>11, EndSessionIsSound
<1>12. CASE Answer
  BY <1>12, AnswerIsSound
<1>13. CASE IngestCorrection
  BY <1>13, IngestCorrectionIsSound
<1>14. ASSUME NEW c \in Fact, AnswerCommit(c) PROVE Sound'
  BY <1>14, AnswerCommitIsSound
<1>15. CASE UNCHANGED vars
  BY <1>15, StutterIsSound DEF vars
<1> QED
  BY <1>1, <1>2, <1>3, <1>4, <1>5, <1>6, <1>7, <1>8, <1>9, <1>10, <1>11, <1>12, <1>13,
     <1>14, <1>15 DEF Next

\* The tables are typed, a row is a row of a page and what supersedes a page is a page
\* (the foreign keys of schema.sql), after any steps.
THEOREM Typed == Spec => []TypeOK
<1>1. Init => Sound
  BY InitIsSound
<1>2. Sound /\ [Next]_vars => Sound'
  BY StepIsSound
<1>3. Sound => TypeOK
  BY SoundIsTyped
<1> QED
  BY <1>1, <1>2, <1>3, PTL DEF Spec

\* No facts supersede each other in a circle, whatever links are made, taken over and undone
\* by extractions, passes, puts, resolutions and corrections: every chain ends in a page
\* that a search can find (ensure_target_is_valid and reconcile_supersede_chain).
THEOREM ChainsEnd == Spec => []ChainsEndInHeads
<1>1. Init => Sound
  BY InitIsSound
<1>2. Sound /\ [Next]_vars => Sound'
  BY StepIsSound
<1>3. Sound => ChainsEndInHeads
  BY DEF Sound, Types, Good, ChainsEndInHeads
<1> QED
  BY <1>1, <1>2, <1>3, PTL DEF Spec

-----------------------------------------------------------------------------
(* What is retired. *)

\* What a pass knows: a file it has not come to is a page as it was when the pass began, and
\* what was retired then is still, if its successor has not taken the word back.
Kept ==
  tx # None =>
    /\ \A s \in tx.modified \cup tx.new :
         /\ page[s] = None <=> tx.page[s] = None
         /\ page[s] # None => Says(tx.page[s]) = Says(page[s])
    /\ \A i, j \in Slot :
         Retired(page, i, j) /\ tx.page[i] # None /\ Claims(tx.page, j, i)
           => tx.page[i].next = j

\* The pass under way goes on in one of three ways.
LEMMA PassBeginKeeps == ASSUME PassBegin PROVE Kept'
<1>1. page' = page /\ tx'.page = page
  BY DEF PassBegin
<1> QED
  BY <1>1 DEF Kept, Retired

LEMMA PassDeletesKeeps ==
  ASSUME Sound, Kept, NEW s \in Slot, PassDeletes(s), tx' # None
  PROVE  Kept'
<1>1. tx \in Tx /\ tx # None /\ page' = page
  BY DEF PassDeletes, PassStops, PassGoesOn, Sound, Types
<1>2. Deletable(tx.page, s)
  BY DEF PassDeletes, PassStops
<1>3. tx' = [tx EXCEPT !.page[s] = None, !.row[s] = None, !.gone = @ \ {s}]
  BY <1>2 DEF PassDeletes, PassGoesOn
<1>4. /\ tx'.page = [tx.page EXCEPT ![s] = None]
      /\ tx'.modified = tx.modified /\ tx'.new = tx.new
  BY <1>1, <1>3 DEF Tx
<1>5. /\ \A r \in Slot \ {s} : tx'.page[r] = tx.page[r]
      /\ tx'.page[s] = None
  BY <1>1, <1>4 DEF Tx, Table
<1>6. s \notin tx.modified \cup tx.new
  BY <1>1 DEF PassDeletes, Sound, Plan
<1>7. tx.modified \cup tx.new \subseteq Slot
  BY <1>1 DEF Tx
<1>8. \A r \in tx'.modified \cup tx'.new :
        /\ page'[r] = None <=> tx'.page[r] = None
        /\ page'[r] # None => Says(tx'.page[r]) = Says(page'[r])
  BY <1>1, <1>4, <1>5, <1>6, <1>7 DEF Kept
<1>9. ASSUME NEW i \in Slot, NEW j \in Slot, Retired(page', i, j), tx'.page[i] # None,
             Claims(tx'.page, j, i)
      PROVE  tx'.page[i].next = j
  <2>1. i # s /\ j # s
    BY <1>5, <1>9 DEF Claims
  <2> QED
    BY <1>1, <1>5, <1>9, <2>1 DEF Kept, Claims
<1> QED
  BY <1>8, <1>9 DEF Kept

LEMMA PassIngestsKeeps ==
  ASSUME Sound, Kept, NEW s \in Slot, PassIngests(s), tx' # None
  PROVE  Kept'
<1>1. ~(tx.page[s] # None /\ Extracted(s))
  BY DEF PassIngests, PassStops
<1> DEFINE new == Ingested(tx.page, s, file[s])
<1>2. /\ tx \in Tx /\ tx # None /\ Good(tx.page) /\ file[s] \in File
      /\ s \in tx.modified \cup tx.new
      /\ tx'.page = new
      /\ tx'.modified = tx.modified \ {s} /\ tx'.new = tx.new \ {s}
      /\ page' = page
  BY <1>1, PassIngestsWhat DEF PassGoesOn
<1>3. /\ \A r \in Slot \ {s} :
           /\ new[r] = None <=> tx.page[r] = None
           /\ tx.page[r] # None => Says(new[r]) = Says(tx.page[r])
      /\ \A i, j \in Slot :
           tx.page[i] # None /\ tx.page[i].next = j /\ Claims(new, j, i) => new[i].next = j
  BY <1>2, Ingesting
<1> HIDE DEF new
<1>4. tx.modified \cup tx.new \subseteq Slot
  BY <1>2 DEF Tx
<1>5. \A r \in tx'.modified \cup tx'.new :
        /\ page'[r] = None <=> tx'.page[r] = None
        /\ page'[r] # None => Says(tx'.page[r]) = Says(page'[r])
  BY <1>2, <1>3, <1>4 DEF Kept
<1>6. ASSUME NEW i \in Slot, NEW j \in Slot, Retired(page', i, j), tx'.page[i] # None,
             Claims(tx'.page, j, i)
      PROVE  tx'.page[i].next = j
  <2>1. tx.page[i] # None
    BY <1>2, <1>3, <1>6 DEF Kept, Retired
  <2>2. Claims(tx.page, j, i)
    <3>1. CASE j = s
      BY <1>2, <1>6, <3>1 DEF Kept, Retired, Claims, Says
    <3>2. CASE j # s
      BY <1>2, <1>3, <1>6, <3>2 DEF Claims, Says
    <3> QED
      BY <3>1, <3>2
  <2>3. tx.page[i].next = j
    BY <1>2, <1>6, <2>1, <2>2 DEF Kept
  <2> QED
    BY <1>2, <1>3, <1>6, <2>1, <2>3
<1> QED
  BY <1>5, <1>6 DEF Kept

\* While a pass is under way it alone moves; the other steps need that there is none.
LEMMA OnlyThePassMoves ==
  ASSUME Next, tx # None
  PROVE  \/ \E s \in Slot : PassDeletes(s) \/ PassIngests(s)
         \/ PassEnds
BY DEF Next, Extract, PassBegin, EditNote, EditFact, Unlink, Edits, Put, Resolve, Calls,
   StartCorrection, ContinueCorrection, EndSession, Answer, AnswerCommit, IngestCorrection

LEMMA OnlyPassBeginStarts ==
  ASSUME Next, tx = None
  PROVE  tx' = None \/ PassBegin
BY DEF Next, Extract, EditNote, EditFact, Unlink, Edits, Put, Resolve, Calls,
   StartCorrection, ContinueCorrection, EndSession, Answer, AnswerCommit, IngestCorrection,
   PassEnds, PassDeletes, PassIngests

LEMMA StepKeeps == ASSUME Sound, Kept, [Next]_vars PROVE Kept'
<1>1. CASE UNCHANGED vars
  BY <1>1 DEF vars, Kept, Retired
<1>2. CASE Next /\ tx = None
  BY <1>2, OnlyPassBeginStarts, PassBeginKeeps DEF Kept
<1>3. CASE Next /\ tx # None /\ tx' # None
  BY <1>3, OnlyThePassMoves, PassDeletesKeeps, PassIngestsKeeps DEF PassEnds, PassStops
<1>4. CASE tx' = None
  BY <1>4 DEF Kept
<1> QED
  BY <1>1, <1>2, <1>3, <1>4

\* What RetiredStaysRetired says of a step.
StaysRetired ==
  \A i, j \in Slot :
    (/\ page[i] # None /\ page[i].next = j /\ Claims(page, j, i)
     /\ page'[i] # None /\ Claims(page', j, i)) => page'[i].next = j

LEMMA StepStaysRetired == ASSUME Sound, Kept, [Next]_vars PROVE StaysRetired
<1>1. CASE page' = page
  BY <1>1 DEF StaysRetired
<1>2. CASE PassEnds
  BY <1>2 DEF PassEnds, PassStops, Kept, Retired, StaysRetired
<1>3. ASSUME NEW s \in Slot, NEW f \in File, page' = Ingested(page, s, f)
      PROVE  StaysRetired
  BY <1>3, Ingesting DEF Sound, Types, StaysRetired
<1>4. ASSUME NEW s \in Slot, Put(s)
      PROVE  \E f \in File : page' = Ingested(page, s, f)
  <2>1. PICK sup \in Known : page' = Ingested(page, s, [data |-> 0, sup |-> sup, by |-> "user"])
    BY <1>4 DEF Put, Ingested, Written
  <2>2. [data |-> 0, sup |-> sup, by |-> "user"] \in File
    BY SlugsOfSlots, FactsAssumption DEF Known, Pages, File, Author
  <2> QED
    BY <2>1, <2>2
<1>5. ASSUME NEW k \in Slot, NEW l \in Slot, Resolve(k, l)
      PROVE  StaysRetired
  <2>1. page[l].next = None /\ page' = [page EXCEPT ![l].next = k] /\ page \in Table
    BY <1>5 DEF Resolve, Sound, Types, Good
  <2>2. \A i \in Slot \ {l} : page'[i] = page[i]
    BY <2>1 DEF Table
  <2> QED
    BY <2>1, <2>2, FactsAssumption DEF StaysRetired
<1>6. CASE IngestCorrection
  BY <1>1, <1>3, <1>6, IngestCorrectionWhat
<1>7. CASE UNCHANGED vars
  BY <1>1, <1>7 DEF vars
<1>8. ASSUME Next
      PROVE  \/ page' = page
             \/ PassEnds
             \/ \E s \in Slot : Put(s)
             \/ \E k, l \in Slot : Resolve(k, l)
             \/ IngestCorrection
  BY <1>8 DEF Next, Extract, PassBegin, EditNote, EditFact, Unlink, Edits,
     StartCorrection, ContinueCorrection, EndSession, Answer, AnswerCommit, PassDeletes,
     PassIngests, PassStops, PassGoesOn
<1> QED
  BY <1>1, <1>2, <1>3, <1>4, <1>5, <1>6, <1>7, <1>8

\* A page that is retired stays retired by the same page while that page says it supersedes
\* it: no failed link, no link that is taken over and no pass brings an old fact back.
THEOREM RetiredStays == Spec => RetiredStaysRetired
<1>1. Init => Sound /\ Kept
  BY InitIsSound DEF Init, Kept
<1>2. Sound /\ Kept /\ [Next]_vars => Sound' /\ Kept'
  BY StepIsSound, StepKeeps
<1>3. Sound /\ Kept /\ [Next]_vars => [StaysRetired]_vars
  BY StepStaysRetired
<1>4. RetiredStaysRetired <=> [][StaysRetired]_vars
  BY DEF RetiredStaysRetired, StaysRetired
<1> QED
  BY <1>1, <1>2, <1>3, <1>4, PTL DEF Spec

-----------------------------------------------------------------------------
(* What can make a pass fail. *)

\* No file of a row is gone, and the page of a fact is what its file says.
Clean(fl, pg, rw) ==
  \A s \in Slot : /\ fl[s] = None => rw[s] = None
                  /\ ~Note(s) /\ pg[s] # None => fl[s] # None /\ rw[s] = fl[s]

\* While no fact is edited, no file removed and no correction ingested, a pass deletes
\* nothing and comes to no fact that is a page.
Untouched ==
  /\ step = "failed" => touched
  /\ ~touched =>
       /\ Clean(file, page, row)
       /\ tx # None => /\ Clean(file, tx.page, tx.row)
                       /\ tx.gone = {}
                       /\ \A s \in tx.modified \cup tx.new : ~Note(s) => tx.page[s] = None

\* A file that is written where it may be leaves the tables clean.
LEMMA FreeIsClean ==
  ASSUME Sound, NEW s \in Slot, NEW f \in File, ~Note(s), Free(s, f), Clean(file, page, row),
         file' = [file EXCEPT ![s] = f], UNCHANGED <<page, row>>
  PROVE  Clean(file', page', row')
<1>1. f # None
  BY FactsAssumption
<1>2. file \in [Slot -> File \cup {None}]
  BY DEF Sound, Types
<1>3. file'[s] = f /\ \A r \in Slot \ {s} : file'[r] = file[r]
  BY <1>2
<1>4. page[s] # None => file[s] = f
  BY DEF Free
<1> QED
  BY <1>1, <1>3, <1>4 DEF Clean

LEMMA ExtractLeavesClean ==
  ASSUME Sound, Untouched, NEW w \in Windows, NEW ns \in Space, NEW c \in Fact,
         Extract(w, ns, c)
  PROVE  Untouched'
<1> DEFINE how == Resolution(ns, c)
           prior == CHOOSE s \in Candidates(ns, c) : TRUE
           f == [data |-> c, sup |-> IF how = "supersede" THEN SlugOf(prior) ELSE None,
                 by |-> w]
<1>1. how = "supersede" => prior \in Slot
  BY DEF Resolution, Candidates, Heads, Pages
<1>2. f \in File /\ f.data \in Fact
  BY <1>1, SlugsOfSlots DEF File, Fact, Author
<1>3. /\ file' = file \/ (Places(ns, f) # {} /\ file' = [file EXCEPT ![Place(ns, f)] = f])
      /\ UNCHANGED <<page, row, tx, touched>> /\ tx = None
      /\ step' # "failed"
  BY DEF Extract
<1> HIDE DEF f
<1>4. CASE file' = file
  BY <1>3, <1>4 DEF Untouched, Clean
<1>5. CASE Places(ns, f) # {} /\ file' = [file EXCEPT ![Place(ns, f)] = f]
  <2>1. Place(ns, f) \in Slot /\ ~Note(Place(ns, f)) /\ Free(Place(ns, f), f)
    BY <1>2, <1>5, Placing
  <2>2. Clean(file, page, row) => Clean(file', page', row')
    BY <1>2, <1>3, <1>5, <2>1, FreeIsClean
  <2> QED
    BY <1>3, <2>2 DEF Untouched
<1> QED
  BY <1>3, <1>4, <1>5

LEMMA PassBeginLeavesClean == ASSUME Sound, Untouched, PassBegin PROVE Untouched'
<1>1. /\ tx' = [page |-> page, row |-> row, gone |-> Missing, modified |-> Modified,
                new |-> Unseen]
      /\ step' = "none"
      /\ UNCHANGED <<file, page, row, touched>>
  BY DEF PassBegin
<1>2. ASSUME Clean(file, page, row)
      PROVE  /\ Clean(file', page', row') /\ Clean(file', tx'.page, tx'.row)
             /\ Missing = {}
             /\ \A s \in Modified \cup Unseen : ~Note(s) => page[s] = None
  BY <1>1, <1>2 DEF Clean, Missing, Modified, Unseen, Files
<1> QED
  BY <1>1, <1>2 DEF Untouched

\* A pass that ends well leaves its clean tables; one that fails has been touched.
LEMMA PassStopsLeavesClean ==
  ASSUME Sound, Untouched, tx # None, NEW end, PassStops(tx, end),
         end = "failed" => touched, end \in {"ok", "failed"}
  PROVE  Untouched'
BY DEF PassStops, Untouched, Clean

LEMMA PassIngestsLeavesClean ==
  ASSUME Sound, Untouched, NEW s \in Slot, PassIngests(s)
  PROVE  Untouched'
<1>1. CASE tx.page[s] # None /\ Extracted(s)
  <2>1. touched /\ PassStops(tx, "failed") /\ tx # None
    BY <1>1 DEF PassIngests, Due, Extracted, Untouched
  <2> QED
    BY <2>1, PassStopsLeavesClean
<1>2. CASE ~(tx.page[s] # None /\ Extracted(s))
  <2> DEFINE t == tx'
  <2>1. /\ tx \in Tx /\ tx # None /\ file[s] \in File
        /\ Good(tx.page)
        /\ t.page = Ingested(tx.page, s, file[s])
        /\ t.row = [tx.row EXCEPT ![s] = file[s]]
        /\ t.gone = tx.gone
        /\ t.modified = tx.modified \ {s} /\ t.new = tx.new \ {s}
        /\ step' = "none"
        /\ UNCHANGED <<file, page, row, touched>>
    BY <1>2, PassIngestsWhat DEF PassGoesOn
  <2> HIDE DEF t
  <2>2. \A r \in Slot \ {s} : t.page[r] = None <=> tx.page[r] = None
    BY <2>1, Ingesting
  <2>3. tx.modified \cup tx.new \subseteq Slot
    BY <2>1 DEF Tx
  <2>4. file[s] # None /\ t.row[s] = file[s] /\ \A r \in Slot \ {s} : t.row[r] = tx.row[r]
    BY <2>1, FactsAssumption DEF Tx
  <2>5. ASSUME Clean(file, tx.page, tx.row)
        PROVE  Clean(file, t.page, t.row)
    BY <2>2, <2>4, <2>5 DEF Clean
  <2>6. ~touched => /\ Clean(file, t.page, t.row)
                    /\ t.gone = {}
                    /\ \A r \in t.modified \cup t.new : ~Note(r) => t.page[r] = None
    BY <2>1, <2>2, <2>3, <2>5 DEF Untouched
  <2>7. ~touched => Clean(file, page, row) /\ Clean(file', page', row')
    BY <2>1 DEF Untouched, Clean
  <2>8. ~touched => /\ Clean(file', tx'.page, tx'.row)
                    /\ tx'.gone = {}
                    /\ \A r \in tx'.modified \cup tx'.new : ~Note(r) => tx'.page[r] = None
    BY <2>1, <2>6 DEF Clean, t
  <2> QED
    BY <2>1, <2>7, <2>8 DEF Untouched
<1> QED
  BY <1>1, <1>2

LEMMA PassDeletesLeavesClean ==
  ASSUME Sound, Untouched, NEW s \in Slot, PassDeletes(s)
  PROVE  Untouched'
<1>1. touched /\ tx # None
  BY DEF PassDeletes, Untouched
<1>2. touched' = touched
  BY DEF PassDeletes, PassStops, PassGoesOn
<1> QED
  BY <1>1, <1>2 DEF Untouched

\* An editor that does not touch a fact or remove a file has written a note.
LEMMA EditsLeaveClean ==
  ASSUME Sound, Untouched, NEW s \in Slot, NEW f \in File \cup {None}, Edits(s, f)
  PROVE  Untouched'
<1>1. /\ file' = [file EXCEPT ![s] = f]
      /\ touched' = (touched \/ ~Note(s) \/ f = None)
      /\ tx = None /\ step' = "none"
      /\ UNCHANGED <<page, row, tx>>
  BY DEF Edits
<1>2. file'[s] = f /\ \A r \in Slot \ {s} : file'[r] = file[r]
  BY <1>1 DEF Sound, Types
<1>3. ASSUME ~touched'
      PROVE  Clean(file', page', row')
  BY <1>1, <1>2, <1>3 DEF Untouched, Clean
<1> QED
  BY <1>1, <1>3 DEF Untouched

LEMMA PutLeavesClean ==
  ASSUME Sound, Untouched, NEW s \in Slot, Put(s)
  PROVE  Untouched'
<1>1. PICK sup \in Known :
        LET f == [data |-> 0, sup |-> sup, by |-> "user"] IN
        /\ page' = Ingested(page, s, f)
        /\ file' = [file EXCEPT ![s] = f]
        /\ row' = [row EXCEPT ![s] = f]
  BY DEF Put, Ingested, Written
<1> DEFINE f == [data |-> 0, sup |-> sup, by |-> "user"]
<1>2. f \in File
  BY SlugsOfSlots, FactsAssumption DEF Known, Pages, File, Author
<1>3. page' = Ingested(page, s, f) /\ file' = [file EXCEPT ![s] = f]
      /\ row' = [row EXCEPT ![s] = f]
  BY <1>1
<1> HIDE DEF f
<1>4. f # None /\ Note(s)
  BY <1>2, FactsAssumption DEF Put
<1>5. \A r \in Slot \ {s} : page'[r] = None <=> page[r] = None
  BY <1>2, <1>3, Ingesting DEF Sound, Types
<1>6. /\ file'[s] = f
      /\ \A r \in Slot \ {s} : file'[r] = file[r] /\ row'[r] = row[r]
  BY <1>3 DEF Sound, Types
<1>7. tx = None /\ step' = "none" /\ UNCHANGED <<tx, touched>>
  BY DEF Put, Calls
<1>8. ASSUME Clean(file, page, row)
      PROVE  Clean(file', page', row')
  BY <1>4, <1>5, <1>6, <1>8 DEF Clean
<1> QED
  BY <1>7, <1>8 DEF Untouched

LEMMA ResolveLeavesClean ==
  ASSUME Sound, Untouched, NEW k \in Slot, NEW l \in Slot, Resolve(k, l)
  PROVE  Untouched'
<1>1. /\ page[l] # None /\ page' = Relinked(page, l, k)
      /\ tx = None /\ step' = "none"
      /\ UNCHANGED <<file, row, tx, touched>>
  BY DEF Resolve, Calls, Pages, Relinked
<1>2. Same(page, page')
  BY <1>1, Relinking DEF Sound, Types, Good
<1> QED
  BY <1>1, <1>2 DEF Untouched, Clean, Same

LEMMA AnswerCommitLeavesClean ==
  ASSUME Sound, Untouched, NEW c \in Fact, AnswerCommit(c)
  PROVE  Untouched'
<1>1. tx = None /\ step' = "none" /\ UNCHANGED <<page, row, tx, touched>>
  BY DEF AnswerCommit
<1>2. CASE file' = file
  BY <1>1, <1>2 DEF Untouched, Clean
<1>3. ASSUME NEW s \in Slot, NEW f \in File, ~Note(s), Free(s, f),
             file' = [file EXCEPT ![s] = f]
      PROVE  Untouched'
  BY <1>1, <1>3, FreeIsClean DEF Untouched
<1> QED
  BY <1>2, <1>3, AnswerCommitWhat

LEMMA IngestCorrectionLeavesClean ==
  ASSUME Sound, Untouched, IngestCorrection
  PROVE  Untouched'
<1>1. tx = None /\ step' = "none" /\ UNCHANGED <<file, row, tx>>
  BY DEF IngestCorrection
<1> QED
  BY <1>1, IngestCorrectionWhat DEF Untouched, Clean

LEMMA StepLeavesClean == ASSUME Sound, Untouched, [Next]_vars PROVE Untouched'
<1>1. CASE UNCHANGED vars
  BY <1>1 DEF vars, Untouched, Clean
<1>2. ASSUME NEW w \in Windows, NEW ns \in Space, NEW c \in Fact, Extract(w, ns, c)
      PROVE  Untouched'
  BY <1>2, ExtractLeavesClean
<1>3. CASE PassBegin
  BY <1>3, PassBeginLeavesClean
<1>4. CASE PassEnds
  BY <1>4, PassStopsLeavesClean DEF PassEnds
<1>5. ASSUME NEW s \in Slot,
             PassDeletes(s) \/ PassIngests(s) \/ Put(s)
      PROVE  Untouched'
  BY <1>5, PassDeletesLeavesClean, PassIngestsLeavesClean, PutLeavesClean
<1>6. ASSUME NEW s \in Slot, EditNote(s) \/ EditFact(s) \/ Unlink(s)
      PROVE  Untouched'
  BY <1>6, EditorsEdit, EditsLeaveClean
<1>7. ASSUME NEW s \in Slot, NEW r \in Slot, Resolve(s, r)
      PROVE  Untouched'
  BY <1>7, ResolveLeavesClean
<1>8. CASE IngestCorrection
  BY <1>8, IngestCorrectionLeavesClean
<1>9. ASSUME NEW c \in Fact, AnswerCommit(c)
      PROVE  Untouched'
  BY <1>9, AnswerCommitLeavesClean
<1>10. CASE step' = "none" /\ UNCHANGED <<file, page, row, tx, touched>>
  BY <1>10 DEF Untouched, Clean
<1>11. ASSUME \/ \E s \in Slot : StartCorrection(s)
              \/ \E k \in SessionId : ContinueCorrection(k) \/ EndSession(k)
              \/ Answer
       PROVE  Untouched'
  BY <1>10, <1>11 DEF StartCorrection, ContinueCorrection, EndSession, Answer
<1> QED
  BY <1>1, <1>2, <1>3, <1>4, <1>5, <1>6, <1>7, <1>8, <1>9, <1>11 DEF Next

\* Only an edit of a fact, a removed file or a correction makes a pass fail: extractions,
\* notes, puts and resolutions, in any number and order, cannot.
THEOREM OnlyEdits == Spec => []OnlyEditsWedge
<1>1. Init => Sound /\ Untouched
  BY InitIsSound DEF Init, Untouched, Clean
<1>2. Sound /\ Untouched /\ [Next]_vars => Sound' /\ Untouched'
  BY StepIsSound, StepLeavesClean
<1>3. Untouched => OnlyEditsWedge
  BY DEF Untouched, OnlyEditsWedge
<1> QED
  BY <1>1, <1>2, <1>3, PTL DEF Spec

-----------------------------------------------------------------------------
(* What an extraction finds that is repeated. *)

\* The file that an extraction writes, if it writes one, and its first place.
Output(w, ns, c) ==
  [data |-> c,
   sup |-> IF Resolution(ns, c) = "supersede"
           THEN SlugOf(CHOOSE s \in Candidates(ns, c) : TRUE) ELSE None,
   by |-> w]
First(ns, f, n) == n \in Places(ns, f) /\ \A m \in Places(ns, f) : n <= m

\* The place of a file is its first.
LEMMA FirstIsPlace ==
  ASSUME NEW ns, NEW f, NEW n, First(ns, f, n)
  PROVE  Place(ns, f) = <<ns, f.data, n>>
<1> DEFINE c == CHOOSE k \in Places(ns, f) : \A m \in Places(ns, f) : k <= m
<1>1. c \in Places(ns, f) /\ \A m \in Places(ns, f) : c <= m
  BY DEF First
<1>2. c = n
  <2>1. c \in Nat /\ n \in Nat
    BY <1>1, FactsAssumption DEF First, Places
  <2>2. c <= n /\ n <= c
    BY <1>1 DEF First
  <2> QED
    BY <2>1, <2>2
<1> QED
  BY <1>2 DEF Place

\* A file for which there is a place has a first one.
LEMMA FirstPlaceExists ==
  ASSUME NEW ns \in Space, NEW f, f.data \in Fact, Places(ns, f) # {}
  PROVE  \E n \in 1 .. Attempts : First(ns, f, n)
<1> DEFINE At(n) == <<ns, f.data, n>>
           S == {At(n) : n \in Places(ns, f)}
<1>0. \A n \in Places(ns, f) : At(n) \in Slot
  BY DEF Places, Slot
<1>1. S \in SUBSET Slot /\ S # {}
  BY <1>0
<1>2. PICK s \in S : \A r \in S \ {s} : Before(s, r)
  BY <1>1, FirstExists
<1>3. PICK n \in Places(ns, f) : s = At(n)
  OBVIOUS
<1>4. ASSUME NEW m \in Places(ns, f), m # n
      PROVE  n <= m
  <2>1. Before(At(n), At(m))
    BY <1>2, <1>3, <1>4
  <2> QED
    BY <2>1, FactsAssumption DEF Before, Places, Space, Fact
<1>5. \A m \in Places(ns, f) : n <= m
  BY <1>4, FactsAssumption DEF Places
<1> QED
  BY <1>5 DEF First, Places

\* f says that it supersedes p, for a pass, which looks in the root namespace only.
Names(f, p) == f.sup # None /\ <<0, f.sup[1], f.sup[2]>> = p

\* A page p with content c that nobody supersedes.
Stands(pg, p, c) == pg[p] # None /\ pg[p].data = c /\ pg[p].next = None

\* A file that does not name p, or is p's own, does not supersede it.
LEMMA ChainSpares ==
  ASSUME NEW pg, Good(pg), NEW w \in Slot, pg[w] # None, NEW p \in Slot, pg[p] # None,
         pg[p].next = None, w = p \/ ~Names(pg[w], p)
  PROVE  Chain(pg, 0, w).page[p].next = None
<1> DEFINE out == Chain(pg, 0, w).page
           q == Predecessor(pg, 0, w)
           freed == IF q = None THEN pg ELSE Relinked(pg, q, None)
<1>1. pg \in Table
  BY DEF Good
<1>2. q # None => q \in Slot /\ pg[q] # None
  BY PredecessorIs
<1>3. freed[p].next = None
  BY <1>1, <1>2, Relinking
<1>4. CASE out = pg
  BY <1>4
<1>5. CASE out = freed
  BY <1>3, <1>5
<1>6. ASSUME NEW t \in Slot, pg[w].sup # None, t = Target(pg, 0, pg[w].sup), t # w,
             pg[t] # None, out = Relinked(freed, t, w)
      PROVE  out[p].next = None
  <2>1. t = <<0, pg[w].sup[1], pg[w].sup[2]>>
    BY <1>6, FactsAssumption DEF Target
  <2>2. t # p
    BY <1>6, <2>1 DEF Names
  <2>3. freed \in Table /\ freed[t] # None
    BY <1>1, <1>2, <1>6, Relinking DEF Same
  <2> HIDE DEF freed, out, q
  <2>4. out[p] = freed[p]
    BY <1>6, <2>2, <2>3, Relinking
  <2> QED
    BY <1>3, <2>4
<1>7. \/ out = pg
      \/ out = freed
      \/ \E t \in Slot : /\ pg[w].sup # None /\ t = Target(pg, 0, pg[w].sup) /\ t # w
                         /\ pg[t] # None /\ out = Relinked(freed, t, w)
  BY ChainEnds
<1> QED
  BY <1>4, <1>5, <1>6, <1>7

\* So it stands after a pass has ingested another file that does not name it, and after the
\* pass has ingested its own.
LEMMA IngestSpares ==
  ASSUME NEW pg, Good(pg), NEW s \in Slot, NEW f \in File, NEW p \in Slot, NEW c,
         \/ s # p /\ Stands(pg, p, c) /\ ~Names(f, p)
         \/ s = p /\ pg[p] = None /\ f.data = c
  PROVE  Stands(Ingested(pg, s, f), p, c)
<1> DEFINE w == Written(pg, s, f)
           out == Ingested(pg, s, f)
<1>1. /\ Good(w) /\ w[s] # None /\ Says(w[s]) = f /\ \A r \in Slot \ {s} : w[r] = pg[r]
      /\ out[s] # None /\ Says(out[s]) = f
      /\ \A r \in Slot \ {s} : /\ out[r] = None <=> pg[r] = None
                               /\ pg[r] # None => Says(out[r]) = Says(pg[r])
  BY Writing, Ingesting
<1>2. w[s].sup = f.sup /\ out[s].data = f.data
  BY <1>1 DEF Says
<1>3. CASE s # p /\ Stands(pg, p, c) /\ ~Names(f, p)
  <2>1. w[p] = pg[p] /\ w[p] # None /\ w[p].next = None /\ ~Names(w[s], p)
    BY <1>1, <1>2, <1>3 DEF Stands, Names
  <2> HIDE DEF w
  <2>2. Chain(w, 0, s).page[p].next = None
    BY <1>1, <2>1, ChainSpares
  <2>3. out[p] # None /\ out[p].data = c
    BY <1>1, <1>3 DEF Stands, Says
  <2> QED
    BY <2>2, <2>3 DEF Stands, w, Ingested
<1>4. CASE s = p /\ pg[p] = None /\ f.data = c
  <2>1. w[p].next = None
    <3>1. w[p] = AsPage(f, None)
      BY <1>4 DEF Written, Good, Table
    <3> QED
      BY <3>1 DEF AsPage
  <2> HIDE DEF w
  <2>2. Chain(w, 0, s).page[p].next = None
    BY <1>1, <1>4, <2>1, ChainSpares
  <2>3. out[p] # None /\ out[p].data = c
    BY <1>1, <1>2, <1>4
  <2> QED
    BY <2>2, <2>3 DEF Stands, w, Ingested
<1> QED
  BY <1>3, <1>4

-----------------------------------------------------------------------------
(* What waits for a pass. *)

\* A pass has a row for every file that it need not come to, and what is new has none.
Listed ==
  tx # None => /\ \A s \in Slot \ (tx.gone \cup tx.modified \cup tx.new) : tx.row[s] = file[s]
               /\ tx.new \subseteq Unseen

LEMMA PassDeletesLists ==
  ASSUME Sound, Listed, NEW s \in Slot, PassDeletes(s), tx' # None
  PROVE  Listed'
<1>1. tx \in Tx /\ tx # None /\ UNCHANGED <<file, page, row>>
  BY DEF PassDeletes, PassStops, PassGoesOn, Sound, Types
<1>2. tx' = [tx EXCEPT !.page[s] = None, !.row[s] = None, !.gone = @ \ {s}]
  BY DEF PassDeletes, PassStops, PassGoesOn
<1>3. /\ tx'.row = [tx.row EXCEPT ![s] = None] /\ tx'.gone = tx.gone \ {s}
      /\ tx'.modified = tx.modified /\ tx'.new = tx.new
  BY <1>1, <1>2 DEF Tx
<1>4. file[s] = None /\ tx'.row[s] = None /\ \A r \in Slot \ {s} : tx'.row[r] = tx.row[r]
  BY <1>1, <1>3 DEF PassDeletes, Sound, Plan, Tx
<1> QED
  BY <1>1, <1>3, <1>4 DEF Listed, Unseen, Files

LEMMA PassIngestsLists ==
  ASSUME Sound, Listed, NEW s \in Slot, PassIngests(s), tx' # None
  PROVE  Listed'
<1>1. ~(tx.page[s] # None /\ Extracted(s))
  BY DEF PassIngests, PassStops
<1>2. /\ tx \in Tx /\ tx # None
      /\ tx'.row = [tx.row EXCEPT ![s] = file[s]] /\ tx'.gone = tx.gone
      /\ tx'.modified = tx.modified \ {s} /\ tx'.new = tx.new \ {s}
      /\ UNCHANGED <<file, page, row>>
  BY <1>1, PassIngestsWhat DEF PassGoesOn
<1>3. tx'.row[s] = file[s] /\ \A r \in Slot \ {s} : tx'.row[r] = tx.row[r]
  BY <1>2 DEF Tx
<1> QED
  BY <1>2, <1>3 DEF Listed, Unseen, Files

LEMMA StepLists == ASSUME Sound, Listed, [Next]_vars PROVE Listed'
<1>1. CASE UNCHANGED vars
  BY <1>1 DEF vars, Listed, Unseen, Files
<1>2. CASE PassBegin
  <2>1. /\ tx'.row = row /\ tx'.gone = Missing /\ tx'.modified = Modified
        /\ tx'.new = Unseen
        /\ UNCHANGED <<file, row>>
    BY <1>2 DEF PassBegin
  <2> QED
    BY <2>1 DEF Listed, Missing, Modified, Unseen, Files
<1>3. CASE Next /\ tx # None /\ tx' # None
  BY <1>3, OnlyThePassMoves, PassDeletesLists, PassIngestsLists DEF PassEnds, PassStops
<1>4. CASE tx' = None
  BY <1>4 DEF Listed
<1> QED
  BY <1>1, <1>2, <1>3, <1>4, OnlyPassBeginStarts

\* A pass that ends has seen every file.
LEMMA PassEndsLists ==
  ASSUME Sound, Listed, PassEnds
  PROVE  row' = file' /\ Unseen' = {}
<1>1. /\ tx \in Tx /\ tx # None /\ row' = tx.row /\ file' = file
      /\ tx.gone = {} /\ tx.modified = {} /\ tx.new = {}
  BY DEF PassEnds, PassStops, Sound, Types
<1>2. \A s \in Slot : row'[s] = file'[s]
  BY <1>1 DEF Listed
<1>3. row' \in [Slot -> File \cup {None}] /\ file' \in [Slot -> File \cup {None}]
  BY <1>1 DEF Tx, Sound, Types
<1> QED
  BY <1>2, <1>3 DEF Unseen, Files

\* What the extractor's files that wait supersede are pages of their namespaces: pages go
\* only when a pass ends, and then no file waits.
HasPage(pg, ns, sup) == <<ns, sup[1], sup[2]>> \in Slot /\ pg[<<ns, sup[1], sup[2]>>] # None
Sourced ==
  \A s \in Unseen :
    file[s].by \in Windows /\ file[s].sup # None => HasPage(page, s[1], file[s].sup)

\* It is so as long as pages stay, and new files that wait are so or are not the extractor's.
LEMMA StaysSourced ==
  ASSUME Sourced,
         \A s \in Slot : page[s] # None => page'[s] # None,
         \A s \in Unseen' :
           \/ s \in Unseen /\ file'[s].by = file[s].by /\ file'[s].sup = file[s].sup
           \/ file'[s].by \notin Windows
           \/ file'[s].sup # None => HasPage(page, s[1], file'[s].sup)
  PROVE  Sourced'
BY DEF Sourced, HasPage

LEMMA ExtractStaysSourced ==
  ASSUME Sound, Sourced, NEW w \in Windows, NEW ns \in Space, NEW c \in Fact,
         Extract(w, ns, c)
  PROVE  Sourced'
<1> DEFINE how == Resolution(ns, c)
           prior == CHOOSE s \in Candidates(ns, c) : TRUE
           f == [data |-> c, sup |-> IF how = "supersede" THEN SlugOf(prior) ELSE None,
                 by |-> w]
<1>1. how = "supersede" => prior \in Slot /\ prior[1] = ns /\ page[prior] # None
  BY DEF Resolution, Candidates, Heads, Pages
<1>2. f \in File /\ f.data \in Fact
  BY <1>1, SlugsOfSlots DEF File, Fact, Author
<1>3. f.sup # None => HasPage(page, ns, f.sup)
  BY <1>1 DEF HasPage, SlugOf, Slot
<1>4. /\ file' = file \/ (Places(ns, f) # {} /\ file' = [file EXCEPT ![Place(ns, f)] = f])
      /\ UNCHANGED <<page, row>>
  BY DEF Extract
<1> HIDE DEF f
<1>5. CASE file' = file
  BY <1>4, <1>5, StaysSourced DEF Unseen, Files
<1>6. CASE Places(ns, f) # {} /\ file' = [file EXCEPT ![Place(ns, f)] = f]
  <2> DEFINE p == Place(ns, f)
  <2>1. p \in Slot /\ p[1] = ns
    BY <1>2, <1>6, Placing DEF Place
  <2> HIDE DEF p
  <2>2. file'[p] = f /\ \A r \in Slot \ {p} : file'[r] = file[r]
    BY <1>6, <2>1 DEF Sound, Types, p
  <2> QED
    BY <1>3, <1>4, <2>1, <2>2, StaysSourced DEF Unseen, Files
<1> QED
  BY <1>4, <1>5, <1>6

LEMMA EditorsStaySourced ==
  ASSUME Sound, Sourced, NEW s \in Slot, EditNote(s) \/ EditFact(s) \/ Unlink(s)
  PROVE  Sourced'
<1>1. UNCHANGED <<page, row>>
  BY DEF EditNote, EditFact, Unlink, Edits
<1>2. ASSUME NEW f, file' = [file EXCEPT ![s] = f],
             \/ f = None
             \/ f.by \notin Windows
             \/ s \in Files /\ f.by = file[s].by /\ f.sup = file[s].sup
      PROVE  Sourced'
  <2>1. file'[s] = f /\ \A r \in Slot \ {s} : file'[r] = file[r]
    BY <1>2 DEF Sound, Types
  <2>2. \A r \in Unseen' :
          \/ r \in Unseen /\ file'[r].by = file[r].by /\ file'[r].sup = file[r].sup
          \/ file'[r].by \notin Windows
    BY <1>1, <1>2, <2>1 DEF Unseen, Files
  <2> QED
    BY <1>1, <2>2, StaysSourced
<1>3. CASE EditNote(s)
  <2>1. PICK sup \in Known : file' = [file EXCEPT ![s] = [data |-> 0, sup |-> sup, by |-> "user"]]
    BY <1>3 DEF EditNote, Edits
  <2> QED
    BY <1>2, <2>1, FactsAssumption
<1>4. CASE EditFact(s)
  <2>1. PICK c \in Fact : file' = [file EXCEPT ![s] = [file[s] EXCEPT !.data = c]]
    BY <1>4 DEF EditFact, Edits
  <2>2. s \in Files /\ file[s] \in File
    BY <1>4 DEF EditFact, Files, Sound, Types
  <2>3. [file[s] EXCEPT !.data = c].by = file[s].by /\ [file[s] EXCEPT !.data = c].sup = file[s].sup
    BY <2>2 DEF File
  <2> QED
    BY <1>2, <2>1, <2>2, <2>3
<1>5. CASE Unlink(s)
  BY <1>2, <1>5 DEF Unlink, Edits
<1> QED
  BY <1>3, <1>4, <1>5

LEMMA PutStaysSourced ==
  ASSUME Sound, Sourced, NEW s \in Slot, Put(s)
  PROVE  Sourced'
<1>1. PICK sup \in Known :
        LET f == [data |-> 0, sup |-> sup, by |-> "user"] IN
        /\ page' = Ingested(page, s, f)
        /\ file' = [file EXCEPT ![s] = f]
        /\ row' = [row EXCEPT ![s] = f]
  BY DEF Put, Ingested, Written
<1> DEFINE f == [data |-> 0, sup |-> sup, by |-> "user"]
<1>2. f \in File
  BY SlugsOfSlots, FactsAssumption DEF Known, Pages, File, Author
<1>3. page' = Ingested(page, s, f) /\ file' = [file EXCEPT ![s] = f]
      /\ row' = [row EXCEPT ![s] = f]
  BY <1>1
<1> HIDE DEF f
<1>4. \A r \in Slot : page[r] # None => page'[r] # None
  BY <1>2, <1>3, Ingesting DEF Sound, Types
<1>5. /\ row'[s] = f /\ f # None
      /\ \A r \in Slot \ {s} : file'[r] = file[r] /\ row'[r] = row[r]
  BY <1>2, <1>3, FactsAssumption DEF Sound, Types
<1>6. \A r \in Unseen' :
        r \in Unseen /\ file'[r].by = file[r].by /\ file'[r].sup = file[r].sup
  BY <1>5 DEF Unseen, Files
<1> QED
  BY <1>4, <1>6, StaysSourced

LEMMA AnswerCommitStaysSourced ==
  ASSUME Sound, Sourced, NEW c \in Fact, AnswerCommit(c)
  PROVE  Sourced'
<1>1. UNCHANGED <<page, row>>
  BY DEF AnswerCommit
<1>2. CASE file' = file
  BY <1>1, <1>2, StaysSourced DEF Unseen, Files
<1>3. ASSUME NEW s \in Slot, NEW f \in File, f.by = "explicit", file' = [file EXCEPT ![s] = f]
      PROVE  Sourced'
  <2>1. file'[s] = f /\ \A r \in Slot \ {s} : file'[r] = file[r]
    BY <1>3 DEF Sound, Types
  <2> QED
    BY <1>1, <1>3, <2>1, StaysSourced, FactsAssumption DEF Unseen, Files
<1> QED
  BY <1>2, <1>3, AnswerCommitWhat

LEMMA StepStaysSourced == ASSUME Sound, Listed, Sourced, [Next]_vars PROVE Sourced'
<1>1. CASE UNCHANGED <<file, row>> /\ \A s \in Slot : page[s] # None => page'[s] # None
  BY <1>1, StaysSourced DEF Unseen, Files
<1>2. CASE UNCHANGED <<file, page, row>>
  BY <1>1, <1>2
<1>3. CASE PassEnds
  BY <1>3, PassEndsLists DEF Sourced
<1>4. ASSUME NEW k \in Slot, NEW l \in Slot, Resolve(k, l)
      PROVE  Sourced'
  <2>1. page' = Relinked(page, l, k) /\ page[l] # None /\ UNCHANGED <<file, row>>
    BY <1>4 DEF Resolve, Pages, Relinked
  <2>2. Same(page, page')
    BY <2>1, Relinking DEF Sound, Types, Good
  <2> QED
    BY <1>1, <2>1, <2>2 DEF Same
<1>5. CASE IngestCorrection
  <2>1. UNCHANGED <<file, row>>
    BY <1>5 DEF IngestCorrection
  <2>2. \A s \in Slot : page[s] # None => page'[s] # None
    <3>1. ASSUME NEW s \in Slot, NEW f \in File, page' = Ingested(page, s, f)
          PROVE  \A r \in Slot : page[r] # None => page'[r] # None
      BY <3>1, Ingesting DEF Sound, Types
    <3> QED
      BY <1>5, <3>1, IngestCorrectionWhat
  <2> QED
    BY <1>1, <2>1, <2>2
<1>6. ASSUME Next
      PROVE  \/ UNCHANGED <<file, page, row>>
             \/ PassEnds
             \/ \E w \in Windows, ns \in Space, c \in Fact : Extract(w, ns, c)
             \/ \E s \in Slot : EditNote(s) \/ EditFact(s) \/ Unlink(s) \/ Put(s)
             \/ \E k, l \in Slot : Resolve(k, l)
             \/ \E c \in Fact : AnswerCommit(c)
             \/ IngestCorrection
  BY <1>6 DEF Next, PassBegin, StartCorrection, ContinueCorrection, EndSession, Answer,
     PassDeletes, PassIngests, PassStops, PassGoesOn
<1> QED
  BY <1>2, <1>3, <1>4, <1>5, <1>6, ExtractStaysSourced, EditorsStaySourced, PutStaysSourced,
     AnswerCommitStaysSourced DEF vars

-----------------------------------------------------------------------------
(* What an extraction that is repeated finds. *)

\* Its file waits for a pass, at its first place; no file that waits names that place, and a
\* pass that has come to it has left its page a head.
Waiting(w, ns, c, n) ==
  LET p == <<ns, c, n>> IN
  /\ page[p] = None
  /\ file[p] = Output(w, ns, c)
  /\ Resolution(ns, c) \notin {"ambiguous", "drop"}
  /\ First(ns, Output(w, ns, c), n)
  /\ \A s \in Unseen : ~Names(file[s], p)
  /\ tx # None => /\ p \notin tx.gone \cup tx.modified
                  /\ p \in tx.new => tx.page[p] = None
                  /\ p \notin tx.new => tx.modified = {} /\ Stands(tx.page, p, c)

\* Or a pass has made a page of it, and nothing has changed since.
Taken(ns, c, n) == tx = None /\ row = file /\ Stands(page, <<ns, c, n>>, c)

Found(w, ns, c, n) == Waiting(w, ns, c, n) \/ Taken(ns, c, n)

Remembered ==
  did # None =>
    \E w \in Windows, ns \in Space, c \in Fact, n \in 1 .. Attempts :
      did = <<w, ns, c>> /\ Found(w, ns, c, n)

\* What an extraction writes is typed, and what it supersedes is a page of its namespace.
LEMMA OutputTypes ==
  ASSUME NEW w \in Windows, NEW ns \in Space, NEW c \in Fact
  PROVE  /\ Output(w, ns, c) \in File /\ Output(w, ns, c) # None
         /\ Output(w, ns, c).data = c
         /\ Output(w, ns, c).sup # None => HasPage(page, ns, Output(w, ns, c).sup)
<1> DEFINE prior == CHOOSE s \in Candidates(ns, c) : TRUE
<1>1. Resolution(ns, c) = "supersede" => prior \in Slot /\ prior[1] = ns /\ page[prior] # None
  BY DEF Resolution, Candidates, Heads, Pages
<1>2. \A s \in Slot : s[1] = ns /\ page[s] # None =>
                     SlugOf(s) \in Slug /\ HasPage(page, ns, SlugOf(s))
  BY DEF HasPage, SlugOf, Slot, Slug
<1>3. Resolution(ns, c) = "supersede" => SlugOf(prior) \in Slug /\ HasPage(page, ns, SlugOf(prior))
  BY <1>1, <1>2
<1> QED
  BY <1>3, FactsAssumption DEF Output, File, Fact, Author

\* The slot of a fact is a slot.
LEMMA FactSlots == \A ns \in Space, c \in Fact, n \in 1 .. Attempts : <<ns, c, n>> \in Slot
BY DEF Slot

\* What is found depends on the files and the pages only.
LEMMA SameFindings ==
  ASSUME UNCHANGED <<file, page>>, NEW w, NEW ns, NEW c, NEW n
  PROVE  /\ Output(w, ns, c)' = Output(w, ns, c)
         /\ Resolution(ns, c)' = Resolution(ns, c)
         /\ First(ns, Output(w, ns, c), n)' = First(ns, Output(w, ns, c), n)
<1>1. Pages' = Pages
  BY DEF Pages
<1>2. Heads(ns)' = Heads(ns)
  BY <1>1 DEF Heads
<1>3. Candidates(ns, c)' = Candidates(ns, c)
  BY <1>2 DEF Candidates
<1>4. Resolution(ns, c)' = Resolution(ns, c)
  BY <1>3 DEF Resolution
<1>5. Output(w, ns, c)' = Output(w, ns, c)
  BY <1>3, <1>4 DEF Output
<1>6. First(ns, Output(w, ns, c), n)' = First(ns, Output(w, ns, c), n)
  BY <1>5 DEF First, Places, Free
<1> QED
  BY <1>4, <1>5, <1>6

\* A step that leaves the tables leaves what is found, if the pass has not come to the file
\* or has left its page a head.
LEMMA StaysWaiting ==
  ASSUME NEW w, NEW ns, NEW c, NEW n, Waiting(w, ns, c, n),
         UNCHANGED <<file, page, row>>,
         tx' # None => /\ <<ns, c, n>> \notin tx'.gone \cup tx'.modified
                       /\ <<ns, c, n>> \in tx'.new => tx'.page[<<ns, c, n>>] = None
                       /\ <<ns, c, n>> \notin tx'.new =>
                            tx'.modified = {} /\ Stands(tx'.page, <<ns, c, n>>, c)
  PROVE  Waiting(w, ns, c, n)'
<1>1. Unseen' = Unseen
  BY DEF Unseen, Files
<1>2. /\ Output(w, ns, c)' = Output(w, ns, c)
      /\ Resolution(ns, c)' = Resolution(ns, c)
      /\ First(ns, Output(w, ns, c), n)' = First(ns, Output(w, ns, c), n)
  BY SameFindings
<1>3. (\A s \in Unseen : ~Names(file[s], <<ns, c, n>>))' 
  BY <1>1 DEF Waiting, Names
<1>4. (tx # None => /\ <<ns, c, n>> \notin tx.gone \cup tx.modified
                    /\ <<ns, c, n>> \in tx.new => tx.page[<<ns, c, n>>] = None
                    /\ <<ns, c, n>> \notin tx.new =>
                         tx.modified = {} /\ Stands(tx.page, <<ns, c, n>>, c))'
  BY DEF Stands
<1>5. (page[<<ns, c, n>>] = None /\ file[<<ns, c, n>>] = Output(w, ns, c))'
  BY <1>2 DEF Waiting
<1>6. (Resolution(ns, c) \notin {"ambiguous", "drop"} /\ First(ns, Output(w, ns, c), n))'
  BY <1>2 DEF Waiting
<1> QED
  BY <1>3, <1>4, <1>5, <1>6 DEF Waiting

LEMMA StillRemembered ==
  ASSUME Remembered, UNCHANGED <<file, page, row, tx, did>>
  PROVE  Remembered'
<1>1. ASSUME NEW w \in Windows, NEW ns \in Space, NEW c \in Fact, NEW n \in 1 .. Attempts,
             did = <<w, ns, c>>, Found(w, ns, c, n)
      PROVE  Remembered'
  <2>1. CASE Waiting(w, ns, c, n)
    <3>1. Waiting(w, ns, c, n)'
      BY <2>1, StaysWaiting DEF Waiting
    <3> QED
      BY <1>1, <3>1 DEF Remembered, Found
  <2>2. CASE Taken(ns, c, n)
    <3>1. Taken(ns, c, n)'
      BY <2>2 DEF Taken, Stands
    <3> QED
      BY <1>1, <3>1 DEF Remembered, Found
  <2> QED
    BY <1>1, <2>1, <2>2 DEF Found
<1>2. CASE did = None
  BY <1>2 DEF Remembered
<1> QED
  BY <1>1, <1>2 DEF Remembered

\* An extraction that writes is remembered: what its file supersedes is a page and its place
\* is not, and so it is for the files of its namespace that wait already.
LEMMA ExtractRemembers ==
  ASSUME Sound, Sourced, Remembered, NEW w \in Windows, NEW ns \in Space, NEW c \in Fact,
         Extract(w, ns, c)
  PROVE  Remembered'
<1> DEFINE f == Output(w, ns, c)
<1>1. /\ tx = None
      /\ UNCHANGED <<page, row, tx>>
      /\ \/ file' = file /\ did' = did
         \/ /\ file' # file
            /\ Resolution(ns, c) \notin {"ambiguous", "drop"} /\ Places(ns, f) # {}
            /\ file' = [file EXCEPT ![Place(ns, f)] = f]
            /\ \/ did' = None
               \/ /\ did' = <<w, ns, c>>
                  /\ \A s \in Unseen : file[s].by \in Windows /\ s[1] = ns
  <2>1. f = [data |-> c,
             sup |-> IF Resolution(ns, c) = "supersede"
                     THEN SlugOf(CHOOSE s \in Candidates(ns, c) : TRUE) ELSE None,
             by |-> w]
    BY DEF Output
  <2> HIDE DEF f
  <2> QED
    BY <2>1 DEF Extract
<1>2. /\ f \in File /\ f # None /\ f.data = c
      /\ f.sup # None => HasPage(page, ns, f.sup)
  BY OutputTypes
<1> HIDE DEF f
<1>3. CASE file' = file /\ did' = did
  BY <1>1, <1>3, StillRemembered
<1>4. CASE did' = None
  BY <1>4 DEF Remembered
<1>5. ASSUME file' # file, Resolution(ns, c) \notin {"ambiguous", "drop"}, Places(ns, f) # {},
             file' = [file EXCEPT ![Place(ns, f)] = f], did' = <<w, ns, c>>,
             \A s \in Unseen : file[s].by \in Windows /\ s[1] = ns
      PROVE  Remembered'
  <2>1. PICK n \in 1 .. Attempts : First(ns, f, n)
    BY <1>2, <1>5, FirstPlaceExists
  <2> DEFINE p == <<ns, c, n>>
  <2>2. Place(ns, f) = p
    BY <1>2, <2>1, FirstIsPlace
  <2>3. p \in Slot
    BY FactSlots
  <2>4. Free(p, f)
    BY <1>2, <2>1 DEF First, Places
  <2>5. file'[p] = f /\ \A r \in Slot \ {p} : file'[r] = file[r]
    BY <1>5, <2>2, <2>3 DEF Sound, Types
  <2>6. file[p] = None /\ page[p] = None
    <3>1. file[p] # f
      <4>1. file[p] = f => file' = file
        BY <1>5, <2>2, <2>3 DEF Sound, Types
      <4> QED
        BY <1>5, <4>1
    <3> QED
      BY <2>4, <3>1 DEF Free
  <2>7. Output(w, ns, c)' = f /\ Resolution(ns, c)' = Resolution(ns, c)
    <3>1. Pages' = Pages
      BY <1>1 DEF Pages
    <3>2. Heads(ns)' = Heads(ns)
      BY <1>1, <3>1 DEF Heads
    <3>3. Candidates(ns, c)' = Candidates(ns, c)
      BY <1>1, <3>2 DEF Candidates
    <3>4. Resolution(ns, c)' = Resolution(ns, c)
      BY <1>1, <3>3 DEF Resolution
    <3> QED
      BY <3>3, <3>4 DEF Output, f
  <2>8. First(ns, Output(w, ns, c), n)'
    <3>1. \A m \in 1 .. Attempts : Free(<<ns, c, m>>, Output(w, ns, c))' <=> Free(<<ns, c, m>>, f)
      <4>1. Free(p, Output(w, ns, c))'
        BY <2>5, <2>7 DEF Free
      <4>2. ASSUME NEW m \in 1 .. Attempts, m # n
            PROVE  Free(<<ns, c, m>>, Output(w, ns, c))' <=> Free(<<ns, c, m>>, f)
        <5>1. <<ns, c, m>> \in Slot /\ <<ns, c, m>> # p
          BY <4>2, FactSlots
        <5> HIDE DEF p
        <5>2. file'[<<ns, c, m>>] = file[<<ns, c, m>>] /\ page' = page
          BY <1>1, <2>5, <5>1
        <5> QED
          BY <2>7, <5>2 DEF Free
      <4> QED
        BY <2>4, <4>1, <4>2
    <3>2. Places(ns, Output(w, ns, c))' = Places(ns, f)
      BY <1>2, <2>7, <3>1 DEF Places
    <3> QED
      BY <2>1, <3>2 DEF First
  <2> HIDE DEF p
  <2>9. \A s \in Unseen : ~Names(file[s], p)
    BY <1>5, <2>3, <2>6 DEF Sourced, HasPage, Names, Unseen, Files, p
  <2>10. ~Names(f, p)
    BY <1>2, <2>6 DEF HasPage, Names, p
  <2>11. (\A s \in Unseen : ~Names(file[s], p))'
    BY <1>1, <2>5, <2>9, <2>10 DEF Unseen, Files, Names, p
  <2>12. (Resolution(ns, c) \notin {"ambiguous", "drop"})'
    BY <1>5, <2>7
  <2>13. (page[p] = None /\ file[p] = Output(w, ns, c))'
    BY <1>1, <2>5, <2>6, <2>7 DEF p
  <2>14. tx' = None
    BY <1>1
  <2>15. Waiting(w, ns, c, n)'
    BY <2>8, <2>11, <2>12, <2>13, <2>14 DEF Waiting, p
  <2> QED
    BY <1>5, <2>15 DEF Remembered, Found
<1> QED
  BY <1>1, <1>3, <1>4, <1>5

LEMMA PassBeginRemembers ==
  ASSUME Sound, Remembered, PassBegin
  PROVE  Remembered'
<1>1. /\ tx' = [page |-> page, row |-> row, gone |-> Missing, modified |-> Modified,
                new |-> Unseen]
      /\ UNCHANGED <<file, page, row, did>>
      /\ Missing \cup Modified \cup Unseen # {}
  BY DEF PassBegin
<1>2. ASSUME NEW w \in Windows, NEW ns \in Space, NEW c \in Fact, NEW n \in 1 .. Attempts,
             Waiting(w, ns, c, n)
      PROVE  Waiting(w, ns, c, n)'
  <2> DEFINE p == <<ns, c, n>>
  <2>1. p \in Slot /\ page[p] = None /\ file[p] # None
    BY <1>2, FactSlots, OutputTypes DEF Waiting
  <2> HIDE DEF p
  <2>2. row[p] = None
    BY <2>1 DEF Sound, Rows, RowsOfPages
  <2>3. p \in Unseen /\ p \notin Missing \cup Modified
    BY <2>1, <2>2 DEF Unseen, Missing, Modified, Files
  <2> QED
    BY <1>1, <1>2, <2>1, <2>3, StaysWaiting DEF p
<1>3. ASSUME row = file
      PROVE  FALSE
  BY <1>1, <1>3 DEF Unseen, Missing, Modified, Files
<1> QED
  BY <1>1, <1>2, <1>3 DEF Remembered, Found, Taken

LEMMA PassDeletesRemembers ==
  ASSUME Sound, Remembered, NEW s \in Slot, PassDeletes(s)
  PROVE  Remembered'
<1>1. tx \in Tx /\ tx # None /\ UNCHANGED <<file, page, row, did>>
  BY DEF PassDeletes, PassStops, PassGoesOn, Sound, Types
<1>2. ASSUME NEW w \in Windows, NEW ns \in Space, NEW c \in Fact, NEW n \in 1 .. Attempts,
             Waiting(w, ns, c, n)
      PROVE  Waiting(w, ns, c, n)'
  <2>1. CASE tx' = None
    BY <1>1, <1>2, <2>1, StaysWaiting
  <2>2. CASE tx' # None
    <3> DEFINE p == <<ns, c, n>>
    <3>1. tx' = [tx EXCEPT !.page[s] = None, !.row[s] = None, !.gone = @ \ {s}]
      BY <2>2 DEF PassDeletes, PassStops, PassGoesOn
    <3>2. /\ tx'.page = [tx.page EXCEPT ![s] = None] /\ tx'.gone = tx.gone \ {s}
          /\ tx'.modified = tx.modified /\ tx'.new = tx.new
      BY <1>1, <3>1 DEF Tx
    <3>3. p \in Slot /\ p \notin tx.gone
      BY <1>1, <1>2, FactSlots DEF Waiting
    <3> HIDE DEF p
    <3>4. tx'.page[p] = tx.page[p]
      BY <1>1, <3>2, <3>3 DEF Tx, Table, PassDeletes
    <3> QED
      BY <1>1, <1>2, <3>2, <3>4, StaysWaiting DEF p, Waiting, Stands
  <2> QED
    BY <2>1, <2>2
<1> QED
  BY <1>1, <1>2 DEF Remembered, Found, Taken

LEMMA PassIngestsRemembers ==
  ASSUME Sound, Listed, Remembered, NEW s \in Slot, PassIngests(s)
  PROVE  Remembered'
<1>1. tx # None /\ UNCHANGED <<file, page, row, did>>
  BY DEF PassIngests, PassStops, PassGoesOn
<1>2. ASSUME NEW w \in Windows, NEW ns \in Space, NEW c \in Fact, NEW n \in 1 .. Attempts,
             Waiting(w, ns, c, n)
      PROVE  Waiting(w, ns, c, n)'
  <2>1. CASE tx' = None
    BY <1>1, <1>2, <2>1, StaysWaiting
  <2>2. CASE tx' # None
    <3> DEFINE p == <<ns, c, n>>
    <3>1. ~(tx.page[s] # None /\ Extracted(s))
      BY <2>2 DEF PassIngests, PassStops
    <3>2. /\ Good(tx.page) /\ file[s] \in File
          /\ tx'.page = Ingested(tx.page, s, file[s]) /\ tx'.gone = tx.gone
          /\ tx'.modified = tx.modified \ {s} /\ tx'.new = tx.new \ {s}
      BY <3>1, PassIngestsWhat
    <3>3. /\ p \in Slot
          /\ p \notin tx.gone \cup tx.modified
          /\ p \in tx.new => tx.page[p] = None
          /\ p \notin tx.new => tx.modified = {} /\ Stands(tx.page, p, c)
          /\ file[p].data = c
          /\ \A r \in Unseen : ~Names(file[r], p)
      BY <1>1, <1>2, FactSlots, OutputTypes DEF Waiting
    <3>4. s \in Due(tx) /\ tx.new \subseteq Unseen
      BY <1>1 DEF PassIngests, Listed
    <3> HIDE DEF p
    <3>5. CASE p \in tx.new /\ s # p
      <4>1. tx'.page[p] = None
        BY <3>2, <3>3, <3>5, Ingesting
      <4> QED
        BY <1>1, <1>2, <3>2, <3>3, <3>5, <4>1, StaysWaiting DEF p
    <3>6. CASE p \in tx.new /\ s = p
      <4>1. tx.modified = {}
        BY <3>3, <3>4, <3>6 DEF Due
      <4>2. Stands(tx'.page, p, c)
        BY <3>2, <3>3, <3>6, IngestSpares
      <4> QED
        BY <1>1, <1>2, <3>2, <3>3, <4>1, <4>2, <3>6, StaysWaiting DEF p
    <3>7. CASE p \notin tx.new
      <4>1. tx.modified = {} /\ s \in tx.new /\ s # p /\ s \in Unseen
        BY <3>3, <3>4, <3>7 DEF Due
      <4>2. Stands(tx'.page, p, c)
        BY <3>2, <3>3, <3>7, <4>1, IngestSpares
      <4> QED
        BY <1>1, <1>2, <3>2, <3>3, <3>7, <4>1, <4>2, StaysWaiting DEF p
    <3> QED
      BY <3>5, <3>6, <3>7
  <2> QED
    BY <2>1, <2>2
<1> QED
  BY <1>1, <1>2 DEF Remembered, Found, Taken

LEMMA PassEndsRemembers ==
  ASSUME Sound, Listed, Remembered, PassEnds
  PROVE  Remembered'
<1>1. /\ tx # None /\ tx.new = {} /\ tx' = None /\ page' = tx.page
      /\ UNCHANGED <<file, did>>
  BY DEF PassEnds, PassStops
<1>2. row' = file'
  BY PassEndsLists
<1>3. ASSUME NEW w \in Windows, NEW ns \in Space, NEW c \in Fact, NEW n \in 1 .. Attempts,
             Waiting(w, ns, c, n)
      PROVE  Taken(ns, c, n)'
  <2>1. Stands(tx.page, <<ns, c, n>>, c)
    BY <1>1, <1>3 DEF Waiting
  <2> QED
    BY <1>1, <1>2, <2>1 DEF Taken, Stands
<1> QED
  BY <1>1, <1>3 DEF Remembered, Found, Taken

LEMMA StepRemembers ==
  ASSUME Sound, Listed, Sourced, Remembered, [Next]_vars
  PROVE  Remembered'
<1>1. CASE UNCHANGED <<file, page, row, tx, did>>
  BY <1>1, StillRemembered
<1>2. CASE did' = None
  BY <1>2 DEF Remembered
<1>3. ASSUME Next
      PROVE  \/ UNCHANGED <<file, page, row, tx, did>>
             \/ did' = None
             \/ PassBegin
             \/ PassEnds
             \/ \E w \in Windows, ns \in Space, c \in Fact : Extract(w, ns, c)
             \/ \E s \in Slot : PassDeletes(s) \/ PassIngests(s)
  BY <1>3 DEF Next, EditNote, EditFact, Unlink, Edits, Put, Resolve, Calls, StartCorrection,
     ContinueCorrection, EndSession, Answer, AnswerCommit, IngestCorrection
<1> QED
  BY <1>1, <1>2, <1>3, ExtractRemembers, PassBeginRemembers, PassDeletesRemembers,
     PassIngestsRemembers, PassEndsRemembers DEF vars

\* What RetryWritesNothing says of a step.
WritesNothing == step' = "again" => file' = file

\* While its file waits an extraction finds its place taken by it; when it is a page, the
\* fact is among the heads.
LEMMA RepeatWritesNothing ==
  ASSUME Sound, NEW w \in Windows, NEW ns \in Space, NEW c \in Fact, NEW n \in 1 .. Attempts,
         Found(w, ns, c, n), Extract(w, ns, c)
  PROVE  file' = file
<1> DEFINE f == Output(w, ns, c)
           p == <<ns, c, n>>
<1>1. \/ file' = file
      \/ /\ Resolution(ns, c) \notin {"ambiguous", "drop"}
         /\ file' = [file EXCEPT ![Place(ns, f)] = f]
  <2>1. f = [data |-> c,
             sup |-> IF Resolution(ns, c) = "supersede"
                     THEN SlugOf(CHOOSE s \in Candidates(ns, c) : TRUE) ELSE None,
             by |-> w]
    BY DEF Output
  <2> HIDE DEF f
  <2> QED
    BY <2>1 DEF Extract
<1>2. f.data = c /\ p \in Slot
  BY OutputTypes, FactSlots
<1>3. CASE Waiting(w, ns, c, n)
  <2>1. Place(ns, f) = p /\ file[p] = f
    BY <1>2, <1>3, FirstIsPlace DEF Waiting
  <2> HIDE DEF f, p
  <2> QED
    BY <1>1, <1>2, <2>1 DEF Sound, Types
<1>4. CASE Taken(ns, c, n)
  <2>1. page[p] # None /\ page[p].data = c /\ page[p].next = None
    BY <1>4 DEF Taken, Stands
  <2> DEFINE exact == {s \in Heads(ns) : KeyOf[page[s].data] = KeyOf[c]}
  <2>2. p \in exact
    BY <1>2, <2>1 DEF Heads, Pages, Note, Fact
  <2>3. Candidates(ns, c) = exact
    BY <2>2 DEF Candidates
  <2>4. IsFiniteSet(exact)
    BY SlotsAreFinite, FS_Subset DEF Heads, Pages
  <2> HIDE DEF exact, p
  <2>5. CASE exact = {p}
    <3>1. Cardinality(exact) = 1
      BY <2>5, FS_Singleton
    <3>2. Resolution(ns, c) = "drop"
      BY <2>1, <2>3, <2>5, <3>1 DEF Resolution
    <3> QED
      BY <1>1, <3>2
  <2>6. CASE exact # {p}
    <3>1. Cardinality(exact) \in Nat /\ Cardinality(exact) # 0 /\ Cardinality(exact) # 1
      BY <2>2, <2>4, <2>6, FS_CardinalityType, FS_EmptySet, FS_Singleton
    <3>2. Resolution(ns, c) = "ambiguous"
      BY <2>2, <2>3, <3>1 DEF Resolution
    <3> QED
      BY <1>1, <3>2
  <2> QED
    BY <2>5, <2>6
<1> QED
  BY <1>3, <1>4 DEF Found

LEMMA StepWritesNothing ==
  ASSUME Sound, Remembered, [Next]_vars
  PROVE  [WritesNothing]_vars
<1>1. ASSUME NEW w \in Windows, NEW ns \in Space, NEW c \in Fact, Extract(w, ns, c)
      PROVE  WritesNothing
  <2>1. CASE did = <<w, ns, c>>
    <3>1. did # None
      BY <2>1, FactsAssumption
    <3>2. PICK v \in Windows, m \in Space, d \in Fact, n \in 1 .. Attempts :
            did = <<v, m, d>> /\ Found(v, m, d, n)
      BY <3>1 DEF Remembered
    <3>3. v = w /\ m = ns /\ d = c
      BY <2>1, <3>2
    <3> QED
      BY <1>1, <3>2, <3>3, RepeatWritesNothing DEF WritesNothing
  <2>2. CASE did # <<w, ns, c>>
    BY <1>1, <2>2 DEF Extract, WritesNothing
  <2> QED
    BY <2>1, <2>2
<1>2. ASSUME Next
      PROVE  \/ \E w \in Windows, ns \in Space, c \in Fact : Extract(w, ns, c)
             \/ step' # "again"
  BY <1>2 DEF Next, PassBegin, PassEnds, PassDeletes, PassIngests, PassStops, PassGoesOn,
     EditNote, EditFact, Unlink, Edits, Put, Resolve, Calls, StartCorrection,
     ContinueCorrection, EndSession, Answer, AnswerCommit, IngestCorrection
<1> QED
  BY <1>1, <1>2 DEF WritesNothing

\* An extraction that is repeated, before or after a pass has made a page of its file, writes
\* nothing, whatever other extractions and passes come between: the names that
\* allocate_output_path gives and the resolution make retried windows harmless, as long as
\* no file of another namespace or of a user waited for the same pass.
THEOREM RetriesAreHarmless == Spec => RetryWritesNothing
<1>1. Init => Sound /\ Listed /\ Sourced /\ Remembered
  BY InitIsSound DEF Init, Listed, Sourced, Unseen, Files, Remembered
<1>2. Sound /\ Listed /\ Sourced /\ Remembered /\ [Next]_vars =>
        Sound' /\ Listed' /\ Sourced' /\ Remembered'
  BY StepIsSound, StepLists, StepStaysSourced, StepRemembers
<1>3. Sound /\ Remembered /\ [Next]_vars => [WritesNothing]_vars
  BY StepWritesNothing
<1>4. RetryWritesNothing <=> [][WritesNothing]_vars
  BY DEF RetryWritesNothing, WritesNothing
<1> QED
  BY <1>1, <1>2, <1>3, <1>4, PTL DEF Spec
=============================================================================
