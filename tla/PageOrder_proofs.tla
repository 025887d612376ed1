-------------------------- MODULE PageOrder_proofs --------------------------
(***************************************************************************)
(* A pass walks over hash sets, whose order nobody knows.  It comes to the *)
(* same result in any order: what a walk has come to after some paths is a *)
(* function of the set of these paths.                                     *)
(***************************************************************************)
EXTENDS PageIdentity_proofs

-----------------------------------------------------------------------------
(* The paths a walk has been at. *)

Done(order, k) == {order[j] : j \in 1 .. k}

\* One path more with every step, and all of them in the end.
LEMMA DoneGrows ==
  ASSUME NEW order \in Orders
  PROVE  /\ order \in [Path -> Path]
         /\ Done(order, 0) = {}
         /\ \A k \in Path : /\ Done(order, k) = Done(order, k - 1) \cup {order[k]}
                            /\ order[k] \notin Done(order, k - 1)
         /\ \A k \in 0 .. MaxPath : Done(order, k) \in SUBSET Path
         /\ Done(order, MaxPath) = Path
<1>1. /\ order \in [Path -> Path] /\ \A p \in Path : \E k \in Path : order[k] = p
      /\ Path = 1 .. MaxPath
  BY DEF Orders, Path
<1>2. \A k \in 0 .. MaxPath : 1 .. k \subseteq Path
  BY Numbers DEF Path
<1>3. ASSUME NEW k \in Path
      PROVE  /\ Done(order, k) = Done(order, k - 1) \cup {order[k]}
             /\ order[k] \notin Done(order, k - 1)
  <2>1. k \in Nat /\ k > 0 /\ 1 .. k = (1 .. (k - 1)) \cup {k} /\ k \notin 1 .. (k - 1)
        /\ 1 .. (k - 1) \subseteq Path
    BY Numbers DEF Path
  <2>2. \A j \in 1 .. (k - 1) : order[j] # order[k]
    BY <2>1, OrdersAreInjective
  <2> QED
    BY <2>1, <2>2 DEF Done
<1>4. Done(order, 0) = {}
  BY DEF Done
<1>5. \A k \in 0 .. MaxPath : Done(order, k) \in SUBSET Path
  BY <1>1, <1>2 DEF Done
<1>6. Done(order, MaxPath) = Path
  <2>1. MaxPath \in 0 .. MaxPath
    BY Numbers
  <2> QED
    BY <1>1, <1>5, <2>1 DEF Done
<1> QED
  BY <1>1, <1>3, <1>4, <1>5, <1>6

\* The numbers of the steps.
LEMMA StepNumbers ==
  /\ \A k \in Path : k \in 0 .. MaxPath /\ k - 1 \in 0 .. MaxPath
  /\ MaxPath \in 0 .. MaxPath /\ 0 \in 0 .. MaxPath
BY Numbers DEF Path

\* A set of paths with one element.
LEMMA OneElement ==
  ASSUME NEW S \in SUBSET Path, Cardinality(S) = 1
  PROVE  \E x \in S : S = {x}
<1>1. IsFiniteSet(S)
  <2>1. IsFiniteSet(Path)
    BY Numbers, FS_Interval DEF Path
  <2> QED
    BY <2>1, FS_Subset
<1> QED
  BY <1>1, FS_Singleton

-----------------------------------------------------------------------------
(* The renames. *)

\* e after the missing files in one found their only candidate and those in many found
\* several; c[q] are the candidates of q.
After(e, c, one, many) ==
  [new |-> {to \in e.new : \A q \in one : to \notin c[q]},
   missing |-> e.missing \ (one \cup many),
   renames |-> e.renames \cup {m \in Match : /\ m.from \in one /\ m.to \in c[m.from]
                                            /\ m.page = row[m.from].page},
   ambiguous |-> e.ambiguous \cup many,
   ok |-> e.ok]

\* Before the first one it is e.
LEMMA AfterNone ==
  ASSUME NEW e \in ResolutionSet, NEW c
  PROVE  After(e, c, {}, {}) = e
<1>1. e = [new |-> e.new, missing |-> e.missing, renames |-> e.renames,
           ambiguous |-> e.ambiguous, ok |-> e.ok]
  BY DEF ResolutionSet
<1>2. /\ {to \in e.new : \A q \in {} : to \notin c[q]} = e.new
      /\ e.missing \ ({} \cup {}) = e.missing
      /\ e.renames \cup {m \in Match : /\ m.from \in {} /\ m.to \in c[m.from]
                                       /\ m.page = row[m.from].page} = e.renames
      /\ e.ambiguous \cup {} = e.ambiguous
  OBVIOUS
<1> QED
  BY <1>1, <1>2 DEF After

\* The file q has one candidate, and to be matched with it makes it one of those that do.
Only(c, q, to) == c[q] = {to}
MatchAdds(e, c, one, many, q, to) ==
  Matched(After(e, c, one, many), q, to) = After(e, c, one \cup {q}, many)

\* A match adds to the one set, ...
LEMMA MatchingAdds ==
  ASSUME NEW e, NEW c, NEW one, NEW many, NEW q \in Path, NEW to \in Path,
         row[q].page \in PageId, Only(c, q, to)
  PROVE  MatchAdds(e, c, one, many, q, to)
<1> DEFINE r == After(e, c, one, many)
           u == After(e, c, one \cup {q}, many)
           m == [page |-> row[q].page, from |-> q, to |-> to]
<1>1. m \in Match /\ \A n \in Match : n = [page |-> n.page, from |-> n.from, to |-> n.to]
  BY DEF Match
<1>2. Matched(r, q, to) = [new |-> r.new \ {to}, missing |-> r.missing \ {q},
                           renames |-> r.renames \cup {m}, ambiguous |-> r.ambiguous,
                           ok |-> r.ok]
  <2>1. r = [new |-> r.new, missing |-> r.missing, renames |-> r.renames,
             ambiguous |-> r.ambiguous, ok |-> r.ok]
    BY DEF After
  <2> HIDE DEF r, m
  <2>2. Matched(r, q, to) = [r EXCEPT !.missing = @ \ {q}, !.new = @ \ {to},
                                      !.renames = @ \cup {m}]
    BY DEF Matched, m
  <2> QED
    BY <2>1, <2>2
<1>3. r.new \ {to} = u.new
  BY DEF After, Only
<1>4. r.missing \ {q} = u.missing
  BY DEF After
<1>5. r.renames \cup {m} = u.renames
  <2> DEFINE A == {n \in Match : n.from \in one /\ n.to \in c[n.from] /\ n.page = row[n.from].page}
             B == {n \in Match : /\ n.from \in one \cup {q} /\ n.to \in c[n.from]
                                 /\ n.page = row[n.from].page}
  <2>1. r.renames = e.renames \cup A /\ u.renames = e.renames \cup B
    BY DEF After
  <2>2. A \subseteq B /\ m \in B
    BY <1>1 DEF Only
  <2>3. ASSUME NEW n \in B, n \notin A PROVE n = m
    BY <1>1, <2>3 DEF Only
  <2> HIDE DEF A, B
  <2> QED
    BY <2>1, <2>2, <2>3
<1>6. r.ambiguous = u.ambiguous /\ r.ok = u.ok
  BY DEF After
<1>7. u = [new |-> u.new, missing |-> u.missing, renames |-> u.renames,
           ambiguous |-> u.ambiguous, ok |-> u.ok]
  BY DEF After
<1> HIDE DEF r, u, m
<1>8. Matched(r, q, to) = u
  BY <1>2, <1>3, <1>4, <1>5, <1>6, <1>7
<1> QED
  BY <1>8 DEF r, u, MatchAdds

\* ... an ambiguity to the other.
LEMMA AmbiguityAdds ==
  ASSUME NEW e, NEW c, NEW one, NEW many, NEW q
  PROVE  Ambiguous(After(e, c, one, many), q) = After(e, c, one, many \cup {q})
<1> DEFINE r == After(e, c, one, many)
           u == After(e, c, one, many \cup {q})
<1>1. Ambiguous(r, q) = [new |-> r.new, missing |-> r.missing \ {q}, renames |-> r.renames,
                         ambiguous |-> r.ambiguous \cup {q}, ok |-> r.ok]
  <2>1. r = [new |-> r.new, missing |-> r.missing, renames |-> r.renames,
             ambiguous |-> r.ambiguous, ok |-> r.ok]
    BY DEF After
  <2> HIDE DEF r
  <2>2. Ambiguous(r, q) = [r EXCEPT !.missing = @ \ {q}, !.ambiguous = @ \cup {q}]
    BY DEF Ambiguous
  <2> QED
    BY <2>1, <2>2
<1>2. /\ r.new = u.new /\ r.missing \ {q} = u.missing /\ r.renames = u.renames
      /\ r.ambiguous \cup {q} = u.ambiguous /\ r.ok = u.ok
  BY DEF After
<1>3. u = [new |-> u.new, missing |-> u.missing, renames |-> u.renames,
           ambiguous |-> u.ambiguous, ok |-> u.ok]
  BY DEF After
<1> HIDE DEF r, u
<1> QED
  BY <1>1, <1>2, <1>3 DEF r, u

\* What has the quaid_id of the page of a missing file, and what has its bytes.
Having(e) == [q \in Path |-> {to \in e.new : file[to].id = UuidOf(q)}]
Like(e) == [q \in Path |-> {to \in e.new : file[to] = row[q].was}]

Single(c, D) == {q \in D : Cardinality(c[q]) = 1}
Several(c, D) == {q \in D : c[q] # {} /\ Cardinality(c[q]) # 1}
AfterUuids(e, D) == LET c == Having(e) IN
  After(e, c, Single(c, D \cap e.missing), Several(c, D \cap e.missing))

\* Candidates by quaid_id are nobody else's, since pages have each its own.
LEMMA HavingIsOwn ==
  ASSUME Before, NEW e, NEW p \in Tracked, NEW q \in Tracked, p # q
  PROVE  Having(e)[p] \cap Having(e)[q] = {}
<1>1. p \in Path /\ q \in Path /\ UuidOf(p) # UuidOf(q)
  <2>1. OneUuidEach(Tables)
    BY DEF Before, Good
  <2> QED
    BY <2>1, RowsLead, TablesAre DEF UuidOf, OneUuidEach
<1> QED
  BY <1>1 DEF Having

\* The walk by uuid takes one file after the other.
LEMMA UuidStepAdds ==
  ASSUME Before, NEW L, NEW e \in ResolutionSet, Resolved(L, e), NEW D \in SUBSET Path,
         NEW q \in e.missing, q \notin D
  PROVE  UuidStep(AfterUuids(e, D), q) = AfterUuids(e, D \cup {q})
<1> DEFINE c == Having(e)
           one == Single(c, D \cap e.missing)
           many == Several(c, D \cap e.missing)
           r == After(e, c, one, many)
           found == {to \in r.new : file[to].id = UuidOf(q)}
           E == D \cup {q}
<1>1. /\ q \in Path /\ q \in Tracked /\ row[q].page \in PageId
      /\ one \subseteq Tracked /\ q \notin one
  BY RowsLead, ResolutionTypes DEF Resolved, Missing, Single
<1>2. c[q] \in SUBSET Path /\ c[q] = {to \in e.new : file[to].id = UuidOf(q)}
  BY <1>1, ResolutionTypes DEF Having
<1>3. r.new = {to \in e.new : \A p \in one : to \notin c[p]}
  BY DEF After
<1>4. found = c[q]
  <2>1. \A p \in one : c[p] \cap c[q] = {}
    BY <1>1, HavingIsOwn
  <2> HIDE DEF c, one, r
  <2> QED
    BY <1>2, <1>3, <2>1
<1>5. AfterUuids(e, D) = r /\ AfterUuids(e, E) =
        After(e, c, Single(c, E \cap e.missing), Several(c, E \cap e.missing))
  BY DEF AfterUuids
<1>6. E \cap e.missing = (D \cap e.missing) \cup {q}
  OBVIOUS
<1> HIDE DEF c, r
<1>7. CASE c[q] = {}
  <2>1. Cardinality(c[q]) # 1
    BY <1>7, FS_EmptySet
  <2>2. Single(c, E \cap e.missing) = one /\ Several(c, E \cap e.missing) = many
    BY <1>6, <1>7, <2>1 DEF Single, Several
  <2>3. UuidStep(r, q) = r
    BY <1>4, <1>7 DEF UuidStep
  <2> QED
    BY <1>5, <2>2, <2>3 DEF r
<1>8. CASE Cardinality(c[q]) = 1
  <2>1. PICK to \in c[q] : c[q] = {to}
    BY <1>2, <1>8, OneElement
  <2>2. Single(c, E \cap e.missing) = one \cup {q} /\ Several(c, E \cap e.missing) = many
    BY <1>6, <1>8 DEF Single, Several
  <2>3. UuidStep(r, q) = Matched(r, q, to)
    <3>1. (CHOOSE x \in {to} : TRUE) = to
      OBVIOUS
    <3>2. UuidStep(r, q) = Matched(r, q, CHOOSE x \in found : TRUE)
      <4>1. found # {} /\ Cardinality(found) = 1
        BY <1>4, <1>8, <2>1
      <4> QED
        BY <4>1 DEF UuidStep
    <3> HIDE DEF found
    <3> QED
      BY <1>4, <2>1, <3>1, <3>2
  <2>4. Matched(r, q, to) = After(e, c, one \cup {q}, many)
    <3>1. to \in Path /\ Only(c, q, to)
      BY <1>2, <2>1 DEF Only
    <3> HIDE DEF one, many
    <3>2. MatchAdds(e, c, one, many, q, to)
      BY <1>1, <3>1, MatchingAdds
    <3> QED
      BY <3>2 DEF r, MatchAdds
  <2> QED
    BY <1>5, <2>2, <2>3, <2>4
<1>9. CASE c[q] # {} /\ Cardinality(c[q]) # 1
  <2>1. Single(c, E \cap e.missing) = one /\ Several(c, E \cap e.missing) = many \cup {q}
    BY <1>6, <1>9 DEF Single, Several
  <2>2. UuidStep(r, q) = Ambiguous(r, q)
    <3>1. found # {} /\ Cardinality(found) # 1
      BY <1>4, <1>9
    <3> QED
      BY <3>1 DEF UuidStep
  <2>3. Ambiguous(r, q) = After(e, c, one, many \cup {q})
    <3> HIDE DEF one, many
    <3> QED
      BY AmbiguityAdds DEF r
  <2> QED
    BY <1>5, <2>1, <2>2, <2>3
<1> QED
  BY <1>7, <1>8, <1>9

\* So it comes to the same result in any order (apply_uuid_rename_matches).
LEMMA UuidsInAnyOrder ==
  ASSUME Before, NEW L, NEW e \in ResolutionSet, Resolved(L, e), NEW order \in Orders
  PROVE  ByUuid(order, e) = AfterUuids(e, Path)
<1> DEFINE G == [k \in 0 .. MaxPath |-> {AfterUuids(e, Done(order, k))}]
<1>1. e \in G[0]
  <2>1. Single(Having(e), {} \cap e.missing) = {} /\ Several(Having(e), {} \cap e.missing) = {}
    BY DEF Single, Several
  <2>2. AfterUuids(e, {}) = e
    BY <2>1, AfterNone DEF AfterUuids
  <2> QED
    BY <2>2, DoneGrows, StepNumbers
<1>2. ASSUME NEW k \in Path, NEW r \in G[k - 1]
      PROVE  IF order[k] \in e.missing THEN UuidStep(r, order[k]) \in G[k] ELSE r \in G[k]
  <2> DEFINE q == order[k]
             D == Done(order, k - 1)
  <2>1. /\ r = AfterUuids(e, D) /\ G[k] = {AfterUuids(e, Done(order, k))}
        /\ Done(order, k) = D \cup {q} /\ q \notin D /\ D \in SUBSET Path
    BY DoneGrows, StepNumbers
  <2>2. CASE q \in e.missing
    <3>1. UuidStep(r, q) = AfterUuids(e, D \cup {q})
      BY <2>1, <2>2, UuidStepAdds
    <3> QED
      BY <2>1, <2>2, <3>1
  <2>3. CASE q \notin e.missing
    <3>1. (D \cup {q}) \cap e.missing = D \cap e.missing
      BY <2>3
    <3>2. AfterUuids(e, D \cup {q}) = AfterUuids(e, D)
      BY <3>1 DEF AfterUuids
    <3> QED
      BY <2>1, <2>3, <3>2
  <2> QED
    BY <2>2, <2>3
<1> HIDE DEF G
<1>3. ByUuid(order, e) \in G[MaxPath]
  BY <1>1, <1>2, ByUuidLeads
<1> QED
  BY <1>3, DoneGrows, StepNumbers DEF G

\* Missing files whose bytes some new file has: the one and only pair of these bytes, if it
\* is large enough or not, and the others.
Alike(e, q) == {m \in e.missing : row[m].was = row[q].was}
Pairs(e, q) == Cardinality(Alike(e, q)) = 1 /\ Cardinality(Like(e)[q]) = 1
Told(e, D) == {q \in D \cap e.missing : Pairs(e, q) /\ row[q].was.data \notin Trivial}
Small(e, D) == {q \in D \cap e.missing : Pairs(e, q) /\ row[q].was.data \in Trivial}
Vague(e, D) == {q \in D \cap e.missing : Like(e)[q] # {} /\ ~Pairs(e, q)}
AfterBytes(e, D) == After(e, Like(e), Told(e, D), Vague(e, D))

\* What the walk has come to: unless it was ended the result of the paths it was at.
Come(e, D, r) == /\ r.ok = (e.ok /\ Small(e, D) = {})
                 /\ r.ok => r = AfterBytes(e, D)

\* One path more in each of the sets, or in none.
LEMMA OneMore ==
  ASSUME NEW e, NEW D, NEW q, q \notin D
  PROVE  LET E == D \cup {q}
             here == q \in e.missing
         IN /\ Told(e, E) = IF here /\ Pairs(e, q) /\ row[q].was.data \notin Trivial
                            THEN Told(e, D) \cup {q} ELSE Told(e, D)
            /\ Small(e, E) = IF here /\ Pairs(e, q) /\ row[q].was.data \in Trivial
                             THEN Small(e, D) \cup {q} ELSE Small(e, D)
            /\ Vague(e, E) = IF here /\ Like(e)[q] # {} /\ ~Pairs(e, q)
                             THEN Vague(e, D) \cup {q} ELSE Vague(e, D)
<1> DEFINE E == D \cup {q}
<1>1. CASE q \notin e.missing
  <2>1. E \cap e.missing = D \cap e.missing
    BY <1>1
  <2> QED
    BY <1>1, <2>1 DEF Told, Small, Vague
<1>2. CASE q \in e.missing
  <2>1. E \cap e.missing = (D \cap e.missing) \cup {q}
    BY <1>2
  <2>2. Told(e, E) = IF Pairs(e, q) /\ row[q].was.data \notin Trivial
                     THEN Told(e, D) \cup {q} ELSE Told(e, D)
    BY <2>1 DEF Told
  <2>3. Small(e, E) = IF Pairs(e, q) /\ row[q].was.data \in Trivial
                      THEN Small(e, D) \cup {q} ELSE Small(e, D)
    BY <2>1 DEF Small
  <2>4. Vague(e, E) = IF Like(e)[q] # {} /\ ~Pairs(e, q) THEN Vague(e, D) \cup {q} ELSE Vague(e, D)
    BY <2>1 DEF Vague
  <2> QED
    BY <1>2, <2>2, <2>3, <2>4
<1> QED
  BY <1>1, <1>2

\* A match of a missing file with the only new file that has its bytes adds to the one set.
LEMMA LikeAdds ==
  ASSUME NEW e, NEW one, NEW many, NEW q \in Path, NEW to \in Path,
         row[q].page \in PageId, Like(e)[q] = {to}
  PROVE  MatchAdds(e, Like(e), one, many, q, to)
<1> DEFINE c == Like(e)
<1>1. row[q].page \in PageId /\ Only(c, q, to)
  BY DEF Only
<1> HIDE DEF c
<1>2. MatchAdds(e, c, one, many, q, to)
  BY <1>1, MatchingAdds
<1> QED
  BY <1>2 DEF c

\* The walk by bytes takes one file after the other, until one is too small.
LEMMA HashStepAdds ==
  ASSUME Before, NEW L, NEW e \in ResolutionSet, Resolved(L, e),
         \A q \in e.missing : NoneHasItsUuid(e, q),
         NEW D \in SUBSET Path, NEW q \in e.missing, q \notin D, NEW r, Come(e, D, r)
  PROVE  Come(e, D \cup {q}, HashStep(r, q, e.missing))
<1> DEFINE c == Like(e)
           same == {to \in r.new : file[to] = row[q].was}
           count == Cardinality(WithBytes(r, e.missing, q))
           answer == Identity(q, same, count)
           E == D \cup {q}
           u == HashStep(r, q, e.missing)
<1>1. q \in Path /\ row[q].page \in PageId /\ e.missing \in SUBSET Path
  BY RowsLead, ResolutionTypes DEF Resolved, Missing
<1>2. c[q] \in SUBSET Path /\ c[q] = {to \in e.new : file[to] = row[q].was}
  BY <1>1, ResolutionTypes DEF Like
<1>3. count = Cardinality(Alike(e, q))
  BY DEF WithBytes, Alike
<1>4. e.ok \in BOOLEAN
  BY ResolutionTypes
<1>5. /\ Told(e, E) = IF Pairs(e, q) /\ row[q].was.data \notin Trivial
                      THEN Told(e, D) \cup {q} ELSE Told(e, D)
      /\ Small(e, E) = IF Pairs(e, q) /\ row[q].was.data \in Trivial
                       THEN Small(e, D) \cup {q} ELSE Small(e, D)
      /\ Vague(e, E) = IF c[q] # {} /\ ~Pairs(e, q) THEN Vague(e, D) \cup {q} ELSE Vague(e, D)
  BY OneMore
<1>6. Pairs(e, q) <=> count = 1 /\ Cardinality(c[q]) = 1
  BY <1>3 DEF Pairs
<1>7. CASE ~r.ok
  <2>1. u = r
    BY <1>7 DEF HashStep
  <2>2. ~(e.ok /\ Small(e, E) = {})
    BY <1>4, <1>5, <1>7 DEF Come
  <2> QED
    BY <1>4, <1>7, <2>1, <2>2 DEF Come
<1>8. CASE r.ok
  <2>1. r = AfterBytes(e, D) /\ e.ok /\ Small(e, D) = {} /\ r.ok = e.ok
    BY <1>4, <1>8 DEF Come, AfterBytes, After
  <2>2. same = c[q]
    <3>1. ASSUME NEW p \in Told(e, D), NEW to \in c[q] PROVE to \notin c[p]
      <4>1. p # q /\ p \in e.missing /\ p \in Path /\ Cardinality(Alike(e, p)) = 1
        BY <1>1 DEF Told, Pairs
      <4>2. Alike(e, p) \in SUBSET Path
        BY <1>1 DEF Alike
      <4>3. PICK x \in Alike(e, p) : Alike(e, p) = {x}
        BY <4>1, <4>2, OneElement
      <4>4. row[q].was # row[p].was
        BY <4>1, <4>3 DEF Alike
      <4> QED
        BY <1>2, <4>1, <4>4 DEF Like
    <3>2. r.new = {to \in e.new : \A p \in Told(e, D) : to \notin c[p]}
      BY <2>1 DEF AfterBytes, After
    <3> HIDE DEF c
    <3> QED
      BY <1>2, <3>1, <3>2
  <2>3. answer = IF ~Pairs(e, q) THEN "ambiguous"
                 ELSE IF row[q].was.data \in Trivial THEN "refused" ELSE "match"
    <3>1. {to \in same : file[to].id = UuidOf(q)} = {}
      BY <1>2, <2>2 DEF NoneHasItsUuid
    <3>2. Cardinality({}) # 1
      BY FS_EmptySet
    <3> QED
      BY <1>6, <2>2, <3>1, <3>2 DEF Identity
  <2>4. Pairs(e, q) => c[q] # {}
    BY <1>6, FS_EmptySet
  <2> HIDE DEF answer, same, c
  <2>5. u = CASE same = {} -> r
              [] OTHER -> CASE answer = "match" -> Matched(r, q, CHOOSE to \in same : TRUE)
                            [] answer = "ambiguous" -> Ambiguous(r, q)
                            [] answer = "refused" -> [r EXCEPT !.ok = FALSE]
    BY <1>8 DEF HashStep, answer, same
  <2> HIDE DEF u
  <2>6. CASE c[q] = {}
    <3>1. u = r
      BY <2>2, <2>5, <2>6
    <3>2. Told(e, E) = Told(e, D) /\ Small(e, E) = Small(e, D) /\ Vague(e, E) = Vague(e, D)
      BY <1>5, <2>4, <2>6
    <3> QED
      BY <2>1, <3>1, <3>2 DEF Come, AfterBytes, u
  <2>7. CASE c[q] # {} /\ ~Pairs(e, q)
    <3>1. u = Ambiguous(r, q)
      BY <2>2, <2>3, <2>5, <2>7
    <3>2. /\ Told(e, E) = Told(e, D) /\ Small(e, E) = Small(e, D)
          /\ Vague(e, E) = Vague(e, D) \cup {q}
      BY <1>5, <2>7
    <3>3. u = AfterBytes(e, E)
      BY <2>1, <3>1, <3>2, AmbiguityAdds DEF AfterBytes
    <3>4. u.ok = e.ok
      BY <3>3 DEF AfterBytes, After
    <3> QED
      BY <2>1, <3>2, <3>3, <3>4 DEF Come, u
  <2>8. CASE Pairs(e, q) /\ row[q].was.data \notin Trivial
    <3>1. PICK to \in c[q] : c[q] = {to}
      BY <1>2, <1>6, <2>8, OneElement
    <3>2. u = Matched(r, q, to)
      <4>1. (CHOOSE x \in same : TRUE) = to
        BY <2>2, <3>1
      <4> QED
        BY <2>2, <2>3, <2>4, <2>5, <2>8, <4>1
    <3>3. /\ Told(e, E) = Told(e, D) \cup {q} /\ Small(e, E) = Small(e, D)
          /\ Vague(e, E) = Vague(e, D)
      BY <1>5, <2>8
    <3>4. u = AfterBytes(e, E)
      <4>1. to \in Path
        BY <1>2, <3>1
      <4>2. MatchAdds(e, Like(e), Told(e, D), Vague(e, D), q, to)
        <5>1. Like(e)[q] = {to}
          BY <3>1 DEF c
        <5> QED
          BY <1>1, <4>1, <5>1, LikeAdds
      <4> QED
        BY <2>1, <3>2, <3>3, <4>2 DEF AfterBytes, MatchAdds
    <3>5. u.ok = e.ok
      BY <3>4 DEF AfterBytes, After
    <3> QED
      BY <2>1, <3>3, <3>4, <3>5 DEF Come, u
  <2>9. CASE Pairs(e, q) /\ row[q].was.data \in Trivial
    <3>1. u = [r EXCEPT !.ok = FALSE]
      BY <2>2, <2>3, <2>4, <2>5, <2>9
    <3>2. u.ok = FALSE
      <4>1. r = [new |-> r.new, missing |-> r.missing, renames |-> r.renames,
                 ambiguous |-> r.ambiguous, ok |-> r.ok]
        BY <2>1 DEF AfterBytes, After
      <4> QED
        BY <3>1, <4>1
    <3>3. Small(e, E) # {}
      BY <1>5, <2>9
    <3> QED
      BY <3>2, <3>3 DEF Come, u
  <2> QED
    BY <2>6, <2>7, <2>8, <2>9
<1> QED
  BY <1>7, <1>8 DEF Come, AfterBytes

\* So in any order it is ended, or it comes to the same result (apply_hash_rename_matches).
LEMMA BytesInAnyOrder ==
  ASSUME Before, NEW L, NEW e \in ResolutionSet, Resolved(L, e),
         \A q \in e.missing : NoneHasItsUuid(e, q), NEW order \in Orders
  PROVE  Come(e, Path, ByHash(order, e))
<1> DEFINE In(k) ==
             {r \in ResolutionSet :
                /\ Come(e, Done(order, k), r) /\ Resolved(L, r)
                /\ \A p \in e.missing \ Done(order, k) : p \in r.missing}
           G == [k \in 0 .. MaxPath |-> In(k)]
<1>1. e \in G[0]
  <2>1. Told(e, {}) = {} /\ Small(e, {}) = {} /\ Vague(e, {}) = {}
    BY DEF Told, Small, Vague
  <2>2. AfterBytes(e, {}) = e
    BY <2>1, AfterNone DEF AfterBytes
  <2>3. e.ok \in BOOLEAN
    BY ResolutionTypes
  <2>4. Come(e, {}, e)
    BY <2>1, <2>2, <2>3 DEF Come
  <2>5. e \in In(0)
    BY <2>4, DoneGrows
  <2> QED
    BY <2>5, StepNumbers
<1>2. ASSUME NEW k \in Path, NEW r \in G[k - 1]
      PROVE  IF order[k] \in e.missing THEN HashStep(r, order[k], e.missing) \in G[k]
                                        ELSE r \in G[k]
  <2> DEFINE q == order[k]
             D == Done(order, k - 1)
             E == Done(order, k)
  <2>1. /\ r \in In(k - 1) /\ G[k] = In(k)
        /\ E = D \cup {q} /\ q \notin D /\ D \in SUBSET Path
    BY DoneGrows, StepNumbers
  <2>2. Come(e, D, r) /\ Resolved(L, r) /\ \A p \in e.missing \ D : p \in r.missing
    BY <2>1
  <2> HIDE DEF q, D, E
  <2>3. CASE q \in e.missing
    <3> DEFINE u == HashStep(r, q, e.missing)
    <3>1. Come(e, E, u)
      BY <2>1, <2>2, <2>3, HashStepAdds
    <3>2. q \in r.missing
      BY <2>1, <2>2, <2>3
    <3>3. /\ u \in ResolutionSet /\ Resolved(L, u)
          /\ u.missing \in {r.missing, r.missing \ {q}}
      <4>1. Tables \in TableSet /\ r \in ResolutionSet
        BY <2>1 DEF Before
      <4> QED
        BY <2>2, <3>2, <4>1, HashStepResolves
    <3> HIDE DEF u
    <3>4. \A p \in e.missing \ E : p \in u.missing
      BY <2>1, <2>2, <3>3
    <3>5. u \in In(k)
      BY <3>1, <3>3, <3>4 DEF E
    <3> QED
      BY <2>1, <2>3, <3>5 DEF u, q
  <2>4. CASE q \notin e.missing
    <3>1. Told(e, E) = Told(e, D) /\ Small(e, E) = Small(e, D) /\ Vague(e, E) = Vague(e, D)
      <4>1. q \notin D /\ E = D \cup {q}
        BY <2>1
      <4>2. /\ Told(e, D \cup {q}) = Told(e, D) /\ Small(e, D \cup {q}) = Small(e, D)
            /\ Vague(e, D \cup {q}) = Vague(e, D)
        BY <2>4, <4>1, OneMore
      <4> QED
        BY <4>1, <4>2
    <3>2. Come(e, E, r)
      BY <2>2, <3>1 DEF Come, AfterBytes
    <3>3. \A p \in e.missing \ E : p \in r.missing
      BY <2>1, <2>2
    <3>4. r \in In(k)
      BY <2>1, <2>2, <3>2, <3>3 DEF E
    <3> QED
      BY <2>1, <2>4, <3>4 DEF q
  <2> QED
    BY <2>3, <2>4 DEF q
<1> HIDE DEF G
<1>3. ByHash(order, e) \in G[MaxPath]
  BY <1>1, <1>2, ByHashLeads
<1>4. ByHash(order, e) \in In(MaxPath)
  BY <1>3, StepNumbers DEF G
<1> QED
  BY <1>4, DoneGrows

\* What a pass finds out about the files that are gone is the same in any order, or that a
\* page is too small is (resolve_rename_resolution).
LEMMA ResolutionInAnyOrder ==
  ASSUME Before, moved \in Seq(Path \X Path), NEW L, NEW o1 \in Orders, NEW o2 \in Orders
  PROVE  LET r1 == Resolution(L, o1)
             r2 == Resolution(L, o2)
         IN /\ r1.ok = r2.ok
            /\ r1.ok => r1 = r2
<1>1. Unresolved(L) \in ResolutionSet /\ Resolved(L, Unresolved(L)) /\ Tables \in TableSet
  BY UnresolvedResolves DEF Before
<1>2. CASE NewFiles(L) = {} \/ Missing = {}
  BY <1>2 DEF Resolution
<1>3. CASE ~(NewFiles(L) = {} \/ Missing = {})
  <2> DEFINE e == ByEvents(Unresolved(L))
             u == AfterUuids(e, Path)
  <2>1. e \in ResolutionSet /\ Resolved(L, e)
    BY <1>1, EventsResolve
  <2>2. Resolution(L, o1) = ByHash(o1, ByUuid(o1, e)) /\ Resolution(L, o2) = ByHash(o2, ByUuid(o2, e))
    BY <1>3 DEF Resolution
  <2> HIDE DEF e
  <2>3. ByUuid(o1, e) = u /\ ByUuid(o2, e) = u
    BY <2>1, UuidsInAnyOrder
  <2>4. u \in ResolutionSet /\ Resolved(L, u) /\ \A q \in u.missing : NoneHasItsUuid(u, q)
    <3>1. LET v == ByUuid(o1, e) IN
          /\ v \in ResolutionSet /\ Resolved(L, v)
          /\ \A q \in v.missing : NoneHasItsUuid(v, q)
      BY <1>1, <2>1, UuidsResolve
    <3> HIDE DEF u
    <3> QED
      BY <2>3, <3>1
  <2> HIDE DEF u
  <2>5. Come(u, Path, ByHash(o1, u)) /\ Come(u, Path, ByHash(o2, u))
    BY <2>4, BytesInAnyOrder
  <2>6. Resolution(L, o1) = ByHash(o1, u) /\ Resolution(L, o2) = ByHash(o2, u)
    BY <2>2, <2>3
  <2> QED
    BY <2>5, <2>6 DEF Come
<1> QED
  BY <1>2, <1>3

-----------------------------------------------------------------------------
(* The tables. *)

\* Tables are the same if their rows and their pages are.
LEMMA SameTables ==
  ASSUME NEW t \in TableSet, NEW u \in TableSet, t.last = u.last, t.end = u.end,
         \A p \in Path : t.row[p] = u.row[p], \A i \in PageId : t.page[i] = u.page[i]
  PROVE  t = u
<1>1. /\ t = [row |-> t.row, page |-> t.page, last |-> t.last, end |-> t.end]
      /\ u = [row |-> u.row, page |-> u.page, last |-> u.last, end |-> u.end]
  BY DEF TableSet
<1>2. t.row = u.row
  BY TableTypes
<1>3. t.page = u.page
  BY TableTypes
<1> QED
  BY <1>1, <1>2, <1>3

\* The pages of the paths in D, and what becomes of one whose file is gone.
PagesOf(D) == {row[p].page : p \in D}
Left(x) == IF x.kept THEN Marked(x) ELSE None

\* The tables of the transaction after the missing files in D.
IsDropped(t, D) ==
  /\ t \in TableSet /\ Good(t) /\ t.end = "ok" /\ t.last = last
  /\ \A p \in Path : t.row[p] = IF p \in D THEN None ELSE row[p]
  /\ \A i \in PageId : t.page[i] = IF i \in PagesOf(D) THEN Left(page[i]) ELSE page[i]

\* One missing file more (apply_delete_or_quarantine).
LEMMA DropStep ==
  ASSUME Before, NEW D \in SUBSET Tracked, NEW p \in Tracked, p \notin D,
         NEW t, IsDropped(t, D)
  PROVE  IsDropped(DeleteOrQuarantine(t, p), D \cup {p})
<1> DEFINE i == row[p].page
           u == DeleteOrQuarantine(t, p)
           E == D \cup {p}
<1>1. /\ p \in Path /\ i \in PageId /\ page[i] # None /\ row[p] # None
      /\ \A q \in Tracked : q # p => row[q].page # i
      /\ D \subseteq Path
  BY RowsLead DEF Tracked
<1>2. i \notin PagesOf(D) /\ PagesOf(E) = PagesOf(D) \cup {i}
  BY <1>1 DEF PagesOf
<1>3. t \in TableSet /\ Good(t) /\ t.end = "ok" /\ t.last = last
  BY DEF IsDropped
<1>4. t.page[i] = page[i] /\ t.row[p] = row[p]
  BY <1>1, <1>2 DEF IsDropped
<1>5. \A q \in Path : t.row[q] # None /\ q # p => t.row[q].page # i
  BY <1>1 DEF IsDropped, Tracked
<1>6. CASE t.page[i].kept
  <2> DEFINE b == Unbind(t, p)
             v == QuarantinePage(b, i)
  <2>1. u = v
    BY <1>1, <1>4, <1>6 DEF DeleteOrQuarantine
  <2>2. /\ b \in TableSet /\ Good(b) /\ b.end = "ok" /\ b.last = last /\ b.page = t.page
        /\ b.row = [t.row EXCEPT ![p] = None]
    BY <1>1, <1>3, UnbindingIsGood
  <2> HIDE DEF b
  <2>3. b.row[p] = None /\ \A q \in Path \ {p} : b.row[q] = t.row[q]
    BY <1>1, <1>3, <2>2, TableTypes
  <2>4. /\ v \in TableSet /\ Good(v) /\ v.end = "ok" /\ v.last = last /\ v.row = b.row
        /\ v.page[i] = Marked(page[i]) /\ \A j \in PageId \ {i} : v.page[j] = t.page[j]
    <3>1. b.page[i] = page[i] /\ b.page[i] # None
      BY <1>1, <1>4, <2>2
    <3>2. \A q \in Path : b.row[q] # None => b.row[q].page # i
      BY <1>5, <2>3
    <3>3. /\ v \in TableSet /\ Good(v) /\ v.end = b.end /\ v.last = b.last /\ v.row = b.row
          /\ v.page[i] = Marked(b.page[i]) /\ \A j \in PageId \ {i} : v.page[j] = b.page[j]
      BY <1>1, <2>2, <3>1, <3>2, QuarantiningIsGood
    <3> HIDE DEF v, i
    <3> QED
      BY <2>2, <3>1, <3>3
  <2> HIDE DEF v, i
  <2>5. \A q \in Path : v.row[q] = IF q \in E THEN None ELSE row[q]
    BY <2>3, <2>4 DEF IsDropped
  <2>6. \A j \in PageId : v.page[j] = IF j \in PagesOf(E) THEN Left(page[j]) ELSE page[j]
    BY <1>2, <1>4, <1>6, <2>4 DEF IsDropped, Left
  <2> QED
    BY <2>1, <2>4, <2>5, <2>6 DEF IsDropped
<1>7. CASE ~t.page[i].kept
  <2> DEFINE v == DeletePage(t, i)
  <2>1. u = v
    BY <1>1, <1>4, <1>7 DEF DeleteOrQuarantine
  <2>2. /\ v \in TableSet /\ Good(v) /\ v.end = "ok" /\ v.last = last
        /\ v.page = [t.page EXCEPT ![i] = None]
        /\ \A q \in Path : v.row[q] = IF t.row[q] # None /\ t.row[q].page = i THEN None
                                      ELSE t.row[q]
    BY <1>1, <1>3, DeletingIsGood
  <2>3. v.page[i] = None /\ \A j \in PageId \ {i} : v.page[j] = t.page[j]
    BY <1>1, <1>3, <2>2, TableTypes
  <2>4. v.row[p] = None /\ \A q \in Path \ {p} : v.row[q] = t.row[q]
    BY <1>1, <1>4, <1>5, <2>2
  <2> HIDE DEF v, i
  <2>5. \A q \in Path : v.row[q] = IF q \in E THEN None ELSE row[q]
    BY <2>4 DEF IsDropped
  <2>6. \A j \in PageId : v.page[j] = IF j \in PagesOf(E) THEN Left(page[j]) ELSE page[j]
    BY <1>2, <1>4, <1>7, <2>3 DEF IsDropped, Left
  <2> QED
    BY <2>1, <2>2, <2>5, <2>6 DEF IsDropped
<1> QED
  BY <1>6, <1>7

\* So the missing files may come in any order.
LEMMA DropsInAnyOrder ==
  ASSUME Before, NEW r, NEW S \in SUBSET Tracked, NEW order \in Orders
  PROVE  IsDropped(Apply(r, "missing", S, order, Tables), S)
<1> DEFINE In(k) == {t \in TableSet : IsDropped(t, S \cap Done(order, k))}
           G == [k \in 0 .. MaxPath |-> In(k)]
<1>1. Tables \in G[0]
  <2>1. IsDropped(Tables, {})
    BY TablesAre DEF Before, IsDropped, PagesOf
  <2>2. S \cap Done(order, 0) = {}
    BY DoneGrows
  <2>3. Tables \in In(0)
    BY <2>1, <2>2 DEF Before
  <2> QED
    BY <2>3, StepNumbers
<1>2. ASSUME NEW k \in Path, NEW t \in G[k - 1]
      PROVE  IF order[k] \in S /\ t.end = "ok" THEN Act(r, "missing", t, order[k]) \in G[k]
                                               ELSE t \in G[k]
  <2> DEFINE p == order[k]
             D == Done(order, k - 1)
             E == Done(order, k)
  <2>1. /\ t \in In(k - 1) /\ G[k] = In(k)
        /\ E = D \cup {p} /\ p \notin D
    BY DoneGrows, StepNumbers
  <2>2. IsDropped(t, S \cap D)
    BY <2>1
  <2> HIDE DEF p, D, E
  <2>3. CASE p \in S
    <3> DEFINE u == DeleteOrQuarantine(t, p)
    <3>1. S \cap D \in SUBSET Tracked /\ p \notin S \cap D /\ p \in Tracked
      BY <2>1, <2>3
    <3>2. IsDropped(u, (S \cap D) \cup {p})
      BY <2>2, <3>1, DropStep
    <3>3. (S \cap D) \cup {p} = S \cap E
      BY <2>1, <2>3
    <3> HIDE DEF u
    <3>4. IsDropped(u, S \cap E) /\ u \in TableSet
      BY <3>2, <3>3 DEF IsDropped
    <3>5. u \in In(k)
      BY <3>4 DEF E
    <3>6. t.end = "ok"
      BY <2>2 DEF IsDropped
    <3> QED
      BY <2>1, <2>3, <3>5, <3>6 DEF u, p, Act
  <2>4. CASE p \notin S
    <3>1. S \cap D = S \cap E
      BY <2>1, <2>4
    <3>2. t \in In(k)
      BY <2>1, <2>2, <3>1 DEF E
    <3> QED
      BY <2>1, <2>4, <3>2 DEF p
  <2> QED
    BY <2>3, <2>4
<1>3. order \in [Path -> Path]
  BY DoneGrows
<1> HIDE DEF G
<1>4. Apply(r, "missing", S, order, Tables) \in G[MaxPath]
  BY <1>1, <1>2, <1>3, ApplyLeads
<1>5. Apply(r, "missing", S, order, Tables) \in In(MaxPath)
  BY <1>4, StepNumbers DEF G
<1>6. S \cap Done(order, MaxPath) = S
  BY DoneGrows DEF Tracked
<1> QED
  BY <1>5, <1>6

\* Paths whose page would have no other row without theirs, ...
Lonely(s, p) == /\ s.page[row[p].page] # None
                /\ \A q \in Path \ {p} : s.row[q] # None => s.row[q].page # row[p].page
\* ... and the tables that those were after the paths in D were freed.
IsFreed(s, t, D) ==
  /\ t \in TableSet /\ Good(t) /\ t.end = "ok" /\ t.last = s.last
  /\ \A p \in Path : t.row[p] = IF p \in D THEN None ELSE s.row[p]
  /\ \A i \in PageId : t.page[i] = IF i \in PagesOf({p \in D : Lonely(s, p)})
                                   THEN Marked(s.page[i]) ELSE s.page[i]

\* One path more (apply_quarantine_unresolved_page).
LEMMA FreeStep ==
  ASSUME Before, NEW S \in SUBSET Tracked, NEW s \in TableSet,
         \A q \in S : s.row[q] \in {row[q], None},
         NEW D \in SUBSET S, NEW p \in S, p \notin D, NEW t, IsFreed(s, t, D)
  PROVE  IsFreed(s, QuarantineUnresolved(t, p), D \cup {p})
<1> DEFINE i == row[p].page
           u == QuarantineUnresolved(t, p)
           b == Unbind(t, p)
           E == D \cup {p}
           F == {q \in D : Lonely(s, q)}
           H == {q \in E : Lonely(s, q)}
<1>1. /\ p \in Path /\ i \in PageId /\ row[p] # None
      /\ \A q \in S : q # p => row[q].page # i
      /\ D \subseteq Path
  BY RowsLead DEF Tracked
<1>2. i \notin PagesOf(F)
  BY <1>1 DEF PagesOf
<1>3. t \in TableSet /\ Good(t) /\ t.end = "ok" /\ t.last = s.last
  BY DEF IsFreed
<1>4. t.page[i] = s.page[i]
  BY <1>1, <1>2 DEF IsFreed
<1>5. /\ b \in TableSet /\ Good(b) /\ b.end = "ok" /\ b.last = s.last /\ b.page = t.page
      /\ b.row = [t.row EXCEPT ![p] = None]
  BY <1>1, <1>3, UnbindingIsGood
<1>6. b.row[p] = None /\ \A q \in Path \ {p} : b.row[q] = t.row[q]
  BY <1>1, <1>3, <1>5, TableTypes
<1>7. ASSUME NEW q \in Path \ {p}
      PROVE  /\ b.row[q] # None => s.row[q] # None /\ b.row[q] = s.row[q]
             /\ s.row[q] # None /\ s.row[q].page = i => b.row[q] = s.row[q]
  <2>1. b.row[q] = IF q \in D THEN None ELSE s.row[q]
    BY <1>6 DEF IsFreed
  <2>2. q \in D => s.row[q] = None \/ s.row[q].page # i
    BY <1>1
  <2> HIDE DEF b, i
  <2> QED
    BY <2>1, <2>2
<1>8. \A q \in Path : b.row[q] = IF q \in E THEN None ELSE s.row[q]
  BY <1>6 DEF IsFreed
<1>9. u = IF b.page[i] = None \/ \E q \in Path : b.row[q] # None /\ b.row[q].page = i
          THEN b ELSE QuarantinePage(b, i)
  BY DEF QuarantineUnresolved
<1>10. Lonely(s, p) <=> ~(b.page[i] = None \/ \E q \in Path : b.row[q] # None /\ b.row[q].page = i)
  <2>1. b.page[i] = s.page[i]
    BY <1>4, <1>5
  <2>2. (\E q \in Path : b.row[q] # None /\ b.row[q].page = i)
          <=> \E q \in Path \ {p} : s.row[q] # None /\ s.row[q].page = i
    <3> HIDE DEF b, i
    <3> QED
      BY <1>6, <1>7
  <2>3. Lonely(s, p) <=> /\ s.page[i] # None
                         /\ \A q \in Path \ {p} : s.row[q] # None => s.row[q].page # i
    BY DEF Lonely
  <2> HIDE DEF b, i
  <2> QED
    BY <2>1, <2>2, <2>3
<1> HIDE DEF b, u
<1>11. CASE Lonely(s, p)
  <2> DEFINE v == QuarantinePage(b, i)
  <2>1. u = v /\ b.page[i] = s.page[i] /\ b.page[i] # None
        /\ \A q \in Path : b.row[q] # None => b.row[q].page # i
    BY <1>4, <1>5, <1>9, <1>10, <1>11
  <2>2. /\ v \in TableSet /\ Good(v) /\ v.end = b.end /\ v.last = b.last /\ v.row = b.row
        /\ v.page[i] = Marked(b.page[i]) /\ \A j \in PageId \ {i} : v.page[j] = b.page[j]
    BY <1>1, <1>5, <2>1, QuarantiningIsGood
  <2>3. H = F \cup {p}
    BY <1>11
  <2>4. PagesOf(H) = PagesOf(F) \cup {i}
    BY <2>3 DEF PagesOf
  <2> HIDE DEF v, i
  <2>5. \A j \in PageId : v.page[j] = IF j \in PagesOf(H) THEN Marked(s.page[j]) ELSE s.page[j]
    <3>1. v.page[i] = Marked(s.page[i])
      BY <2>1, <2>2
    <3>2. \A j \in PageId \ {i} : v.page[j] = t.page[j]
      BY <1>5, <2>2
    <3> QED
      BY <2>4, <3>1, <3>2 DEF IsFreed
  <2>6. \A q \in Path : v.row[q] = IF q \in E THEN None ELSE s.row[q]
    BY <1>8, <2>2
  <2>7. v \in TableSet /\ Good(v) /\ v.end = "ok" /\ v.last = s.last
    BY <1>5, <2>2
  <2> QED
    BY <2>1, <2>5, <2>6, <2>7 DEF IsFreed, u
<1>12. CASE ~Lonely(s, p)
  <2>1. u = b
    BY <1>9, <1>10, <1>12
  <2>2. H = F
    BY <1>12
  <2>3. \A j \in PageId : b.page[j] = IF j \in PagesOf(H) THEN Marked(s.page[j]) ELSE s.page[j]
    BY <1>5, <2>2 DEF IsFreed
  <2> QED
    BY <1>5, <1>8, <2>1, <2>3 DEF IsFreed, u
<1> QED
  BY <1>11, <1>12

\* So the files that are nobody's may come in any order.
LEMMA FreesInAnyOrder ==
  ASSUME Before, NEW r, NEW S \in SUBSET Tracked, NEW order \in Orders,
         NEW s \in TableSet, Good(s), s.end = "ok", \A q \in S : s.row[q] \in {row[q], None}
  PROVE  IsFreed(s, Apply(r, "unresolved", S, order, s), S)
<1> DEFINE In(k) == {t \in TableSet : IsFreed(s, t, S \cap Done(order, k))}
           G == [k \in 0 .. MaxPath |-> In(k)]
<1>1. s \in G[0]
  <2>1. IsFreed(s, s, {})
    BY DEF IsFreed, PagesOf
  <2>2. S \cap Done(order, 0) = {}
    BY DoneGrows
  <2>3. s \in In(0)
    BY <2>1, <2>2
  <2> QED
    BY <2>3, StepNumbers
<1>2. ASSUME NEW k \in Path, NEW t \in G[k - 1]
      PROVE  IF order[k] \in S /\ t.end = "ok" THEN Act(r, "unresolved", t, order[k]) \in G[k]
                                               ELSE t \in G[k]
  <2> DEFINE p == order[k]
             D == Done(order, k - 1)
             E == Done(order, k)
  <2>1. /\ t \in In(k - 1) /\ G[k] = In(k)
        /\ E = D \cup {p} /\ p \notin D
    BY DoneGrows, StepNumbers
  <2>2. IsFreed(s, t, S \cap D)
    BY <2>1
  <2> HIDE DEF p, D, E
  <2>3. CASE p \in S
    <3> DEFINE u == QuarantineUnresolved(t, p)
    <3>1. S \cap D \in SUBSET S /\ p \notin S \cap D
      BY <2>1, <2>3
    <3>2. IsFreed(s, u, (S \cap D) \cup {p})
      BY <2>2, <2>3, <3>1, FreeStep
    <3>3. (S \cap D) \cup {p} = S \cap E
      BY <2>1, <2>3
    <3> HIDE DEF u
    <3>4. IsFreed(s, u, S \cap E) /\ u \in TableSet
      BY <3>2, <3>3 DEF IsFreed
    <3>5. u \in In(k)
      BY <3>4 DEF E
    <3>6. t.end = "ok"
      BY <2>2 DEF IsFreed
    <3> QED
      BY <2>1, <2>3, <3>5, <3>6 DEF u, p, Act
  <2>4. CASE p \notin S
    <3>1. S \cap D = S \cap E
      BY <2>1, <2>4
    <3>2. t \in In(k)
      BY <2>1, <2>2, <3>1 DEF E
    <3> QED
      BY <2>1, <2>4, <3>2 DEF p
  <2> QED
    BY <2>3, <2>4
<1>3. order \in [Path -> Path]
  BY DoneGrows
<1> HIDE DEF G
<1>4. Apply(r, "unresolved", S, order, s) \in G[MaxPath]
  BY <1>1, <1>2, <1>3, ApplyLeads
<1>5. Apply(r, "unresolved", S, order, s) \in In(MaxPath)
  BY <1>4, StepNumbers DEF G
<1>6. S \cap Done(order, MaxPath) = S
  BY DoneGrows DEF Tracked
<1> QED
  BY <1>5, <1>6

\* A walk does nothing once something failed.
LEMMA NothingAfterFailure ==
  ASSUME NEW r, NEW kind, NEW S, NEW order \in Orders, NEW s, s.end # "ok"
  PROVE  Apply(r, kind, S, order, s) = s
<1> DEFINE G == [k \in 0 .. MaxPath |-> {s}]
<1>1. s \in G[0] /\ order \in [Path -> Path]
  BY StepNumbers, DoneGrows
<1>2. ASSUME NEW k \in Path, NEW t \in G[k - 1]
      PROVE  IF order[k] \in S /\ t.end = "ok" THEN Act(r, kind, t, order[k]) \in G[k]
                                               ELSE t \in G[k]
  <2>1. t = s /\ G[k] = {s}
    BY StepNumbers
  <2> QED
    BY <2>1
<1> HIDE DEF G
<1>3. Apply(r, kind, S, order, s) \in G[MaxPath]
  BY <1>1, <1>2, ApplyLeads
<1> QED
  BY <1>3, StepNumbers DEF G

-----------------------------------------------------------------------------
(* The pass. *)

\* What a transaction comes to depends on what the pass found out, not on the order
\* (apply_reconciliation).
LEMMA OutcomeInAnyOrder ==
  ASSUME Before, Room, moved \in Seq(Path \X Path), NEW L \in LoserSets,
         NEW o1 \in Orders, NEW o2 \in Orders
  PROVE  Outcome(L, o1) = Outcome(L, o2)
<1> DEFINE r == Resolution(L, o1)
           S == r.ambiguous \cup (L \cap Tracked)
           a(o) == Apply(r, "missing", r.missing, o, Tables)
           b == Apply(r, "renamed", Targets(r), Sorted, a(o1))
           c == Apply(r, "modified", Modified(L), Sorted, b)
           d == Apply(r, "new", r.new, Sorted, c)
           e(o) == Apply(r, "unresolved", S, o, d)
<1>1. r \in ResolutionSet /\ Resolved(L, r)
  BY ResolutionResolves DEF Before
<1>2. r.ok = Resolution(L, o2).ok /\ (r.ok => r = Resolution(L, o2))
  BY ResolutionInAnyOrder
<1>3. L \in SUBSET Files
  BY DEF LoserSets, Duplicates
<1>4. r.missing \in SUBSET Tracked /\ S \in SUBSET Tracked
  BY <1>1 DEF Resolved, Missing
<1>5. Outcome(L, o1) = IF r.ok THEN e(o1) ELSE [Tables EXCEPT !.end = "refused"]
  BY DEF Outcome, Targets
<1>6. Outcome(L, o2) = IF r.ok
                       THEN Apply(r, "unresolved", S, o2,
                              Apply(r, "new", r.new, Sorted,
                                Apply(r, "modified", Modified(L), Sorted,
                                  Apply(r, "renamed", Targets(r), Sorted, a(o2)))))
                       ELSE [Tables EXCEPT !.end = "refused"]
  <2> DEFINE q == Resolution(L, o2)
  <2>1. Outcome(L, o2) =
          IF q.ok THEN Apply(q, "unresolved", q.ambiguous \cup (L \cap Tracked), o2,
                         Apply(q, "new", q.new, Sorted,
                           Apply(q, "modified", Modified(L), Sorted,
                             Apply(q, "renamed", Targets(q), Sorted,
                               Apply(q, "missing", q.missing, o2, Tables)))))
          ELSE [Tables EXCEPT !.end = "refused"]
    BY DEF Outcome, Targets
  <2> HIDE DEF q, r
  <2> QED
    BY <1>2, <2>1 DEF q
<1> HIDE DEF r
<1>7. a(o1) = a(o2)
  <2>1. IsDropped(a(o1), r.missing) /\ IsDropped(a(o2), r.missing)
    BY <1>4, DropsInAnyOrder
  <2> HIDE DEF a
  <2>2. /\ a(o1) \in TableSet /\ a(o2) \in TableSet
        /\ a(o1).last = a(o2).last /\ a(o1).end = a(o2).end
        /\ \A p \in Path : a(o1).row[p] = a(o2).row[p]
        /\ \A i \in PageId : a(o1).page[i] = a(o2).page[i]
    BY <2>1 DEF IsDropped
  <2> QED
    BY <2>2, SameTables
<1>8. Outcome(L, o2) = IF r.ok THEN e(o2) ELSE [Tables EXCEPT !.end = "refused"]
  <2> HIDE DEF a
  <2> QED
    BY <1>6, <1>7
<1>9. d \in TableSet /\ (d.end = "ok" => Added(L, r, d, MaxPath))
  <2>1. a(o1) \in TableSet /\ (a(o1).end = "ok" => Deleted(r, a(o1)))
    BY <1>1, DeletePhase
  <2> HIDE DEF a
  <2>2. b \in TableSet /\ (b.end = "ok" => Renamed(r, b, MaxPath))
    BY <1>1, <2>1, RenamePhase
  <2> HIDE DEF b
  <2>3. c \in TableSet /\ (c.end = "ok" => Changed(L, r, c, MaxPath))
    BY <1>1, <2>2, ModifyPhase
  <2> HIDE DEF c
  <2> QED
    BY <1>1, <2>3, AddPhase
<1> HIDE DEF d
<1>10. CASE d.end # "ok"
  <2>1. e(o1) = d /\ e(o2) = d
    BY <1>10, NothingAfterFailure
  <2> HIDE DEF e
  <2> QED
    BY <1>5, <1>8, <2>1
<1>11. CASE d.end = "ok"
  <2>1. Good(d) /\ \A q \in S : d.row[q] \in {row[q], None}
    <3>1. Added(L, r, d, MaxPath)
      BY <1>9, <1>11
    <3>2. \A q \in r.ambiguous : d.row[q] \in {row[q], None}
      BY <1>1, <3>1 DEF Added, RowsOfMissing, Resolved
    <3>3. ASSUME NEW q \in L \cap Tracked PROVE d.row[q] = row[q]
      <4>1. q \in Path \ (Missing \cup Targets(r) \cup Modified(L) \cup r.new)
        BY <1>1, <1>3, <3>3, RowsLead DEF Missing, Targets, Modified, Resolved, NewFiles
      <4> QED
        BY <3>1, <4>1 DEF Added
    <3> QED
      BY <3>1, <3>2, <3>3 DEF Added
  <2> HIDE DEF S
  <2>2. IsFreed(d, e(o1), S) /\ IsFreed(d, e(o2), S)
    BY <1>4, <1>9, <1>11, <2>1, FreesInAnyOrder
  <2> HIDE DEF e
  <2>3. /\ e(o1) \in TableSet /\ e(o2) \in TableSet
        /\ e(o1).last = e(o2).last /\ e(o1).end = e(o2).end
        /\ \A p \in Path : e(o1).row[p] = e(o2).row[p]
        /\ \A i \in PageId : e(o1).page[i] = e(o2).page[i]
    BY <2>2 DEF IsFreed
  <2>4. e(o1) = e(o2)
    BY <2>3, SameTables
  <2> QED
    BY <1>5, <1>8, <2>4
<1> QED
  BY <1>10, <1>11

\* Whatever other programs and quaid did before, a pass that reads the files comes to the
\* same tables and the same verdict in whichever order it walks over its hash sets
\* (resolve_rename_resolution, apply_reconciliation).
THEOREM OrderNeverMatters == Spec => []OrderIsIrrelevant
<1>1. Sorted \in Orders
  BY DEF Sorted, Orders, Path
<1>2. Sound => OrderIsIrrelevant
  <2> SUFFICES ASSUME Sound, Room, NEW L \in LoserSets
               PROVE  Cardinality({Outcome(L, o) : o \in Orders}) = 1
    BY DEF OrderIsIrrelevant
  <2>1. Before /\ moved \in Seq(Path \X Path)
    BY SoundIsBefore DEF Sound, TypeOK
  <2>2. \A o \in Orders : Outcome(L, o) = Outcome(L, Sorted)
    BY <1>1, <2>1, OutcomeInAnyOrder
  <2>3. {Outcome(L, o) : o \in Orders} = {Outcome(L, Sorted)}
    BY <1>1, <2>2
  <2>4. \A x : Cardinality({x}) = 1
    BY FS_Singleton
  <2> QED
    BY <2>3, <2>4
<1> QED
  BY <1>2, Soundness, PTL
=============================================================================
