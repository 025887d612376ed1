-------------------------- MODULE ModelCache_proofs --------------------------
(***************************************************************************)
(* Theorems about ModelCache for any number of runs, and any files.        *)
(***************************************************************************)
EXTENDS ModelCache, TLAPS

(* The invariant. *)

\* A run that is over, or a directory that never was of a run here.
Gone(d) == d \in Runs => pc[d] \in Over

\* Where the directory of a run is, by where the run is.
Placed ==
  \A r \in Runs :
    /\ where[r] = "cache" => pc[r] = "ok"
    /\ pc[r] = "new" => where[r] = "nowhere"
    /\ ripe[r] => pc[r] \in Over
    /\ pc[r] \in {"fetch", "promote"} => where[r] = "temp"

\* What the places of a run say of its kind.
Kinds ==
  \A r \in Runs :
    /\ pc[r] \in {"remove", "scavenge", "create"} => kind[r] = "pull"
    /\ pc[r] \in {"sweep", "removing"} => kind[r] \in {"pull"} \cup Cleans
    /\ pc[r] = "confirm" => kind[r] \in Cleans

\* Nobody means to remove, removes or upgrades the directory of a run that is not over.
Aimed ==
  /\ \A d \in doomed : Gone(d)
  /\ \A r \in Runs :
       /\ pc[r] = "removing" => on[r] \in doomed /\ path[r] \in Paths /\ Gone(path[r])
       /\ pc[r] = "upgrading" => on[r] \in Dirs /\ Gone(on[r])
       /\ kind[r] \in Cleans /\ pc[r] \in {"confirm", "sweep", "removing"} =>
            \A p \in todo[r] : Gone(p)

\* What is about to be promoted was verified.
Sealed == \A r \in Runs : pc[r] = "promote" => files[r] = Files /\ manifest[r] = "ok"

CacheInv == TypeOK /\ Placed /\ Kinds /\ Aimed /\ Sealed /\ CacheIsWhole
-----------------------------------------------------------------------------
(* Types. *)

\* What an action leaves of the types, once the variables it writes have theirs.
LEMMA Typed ==
  ASSUME TypeOK, NEW r \in Runs, NEW l \in Places, Goes(r, l) PROVE pc' \in [Runs -> Places]
BY DEF TypeOK, Goes

\* The outcomes of a check.
LEMMA CheckTypes ==
  ASSUME TypeOK, NEW r \in Runs, NEW l \in BOOLEAN, Misses(r, l) \/ Hits(r)
  PROVE  TypeOK'
<1>1. Stale \subseteq Paths
  BY DEF Stale, Temps, Paths
<1>2. ASSUME Misses(r, l) PROVE TypeOK'
  <2>1. pc' \in [Runs -> Places]
    BY <1>2 DEF Misses, TypeOK, Goes, Places, Ended, Over
  <2>2. todo' \in [Runs -> SUBSET Paths]
    BY <1>1, <1>2 DEF Misses, TypeOK, Paths
  <2> QED
    BY <1>2, <2>1, <2>2 DEF Misses, TypeOK, dirs, history, Cached, At
<1>3. ASSUME Hits(r) PROVE TypeOK'
  <2>1. pc' \in [Runs -> Places]
    BY <1>3 DEF Hits, TypeOK, Goes, Places, Ended, Over
  <2>2. todo' \in [Runs -> SUBSET Paths]
    BY <1>1, <1>3 DEF Hits, TypeOK, Paths
  <2>3. where' \in [Dirs -> {"nowhere", "temp", "cache"}]
    BY <1>3 DEF Hits, TypeOK
  <2>4. Cached' \subseteq Cached
    BY <1>3 DEF Hits, TypeOK, Cached, At
  <2> QED
    BY <1>3, <2>1, <2>2, <2>3, <2>4 DEF Hits, TypeOK, history
<1> QED
  BY <1>2, <1>3

\* What keeps every directory where it is keeps one in the cache.
LEMMA SameCache ==
  ASSUME TypeOK, where' = where PROVE Cached' = Cached
BY DEF Cached, At

\* The check, step by step.
LEMMA CheckStep ==
  ASSUME TypeOK, NEW r \in Runs,
         ReadManifest(r) \/ CheckFiles(r) \/ UpgradeTruncates(r) \/ UpgradeWrites(r) \/ Upgraded(r)
  PROVE  TypeOK'
<1> USE DEF Places, Ended, Over
<1>1. ASSUME NEW l \in Places, Goes(r, l), UNCHANGED <<dirs, kind, todo, on, path, history>>
      PROVE  TypeOK'
  BY <1>1, Typed, SameCache DEF TypeOK, dirs, history
<1>2. CASE ReadManifest(r)
  <2>1. CASE Misses(r, TRUE) \/ Misses(r, FALSE)
    BY <2>1, CheckTypes
  <2>2. CASE \E l \in {"compare", "rehash"} :
               Goes(r, l) /\ UNCHANGED <<dirs, kind, todo, on, path, history>>
    BY <1>1, <2>2
  <2> QED
    BY <1>2, <2>1, <2>2 DEF ReadManifest
<1>3. CASE CheckFiles(r)
  <2>1. CASE Misses(r, TRUE) \/ Hits(r)
    BY <2>1, CheckTypes
  <2>2. CASE Goes(r, "upgrade") /\ UNCHANGED <<dirs, kind, todo, on, path, history>>
    BY <1>1, <2>2
  <2> QED
    BY <1>3, <2>1, <2>2 DEF CheckFiles
<1>4. CASE UpgradeTruncates(r)
  <2>1. CASE Hits(r)
    BY <2>1, CheckTypes
  <2>2. ASSUME NEW d \in Cached,
               manifest' = [manifest EXCEPT ![d] = "torn"],
               late' = late \cup {d} \/ late' = late,
               on' = [on EXCEPT ![r] = d],
               Goes(r, "upgrading"),
               UNCHANGED <<where, files, ripe, kind, todo, path, history>>
        PROVE  TypeOK'
    <3>1. d \in Dirs
      BY DEF Cached, At
    <3>2. pc' \in [Runs -> Places] /\ Cached' = Cached
      BY <2>2, Typed, SameCache
    <3> QED
      BY <2>2, <3>1, <3>2 DEF TypeOK, history
  <2> QED
    BY <1>4, <2>1, <2>2 DEF UpgradeTruncates
<1>5. CASE UpgradeWrites(r)
  <2>1. pc' \in [Runs -> Places] /\ Cached' = Cached
    BY <1>5, Typed, SameCache DEF UpgradeWrites
  <2> QED
    BY <1>5, <2>1 DEF UpgradeWrites, TypeOK, history
<1>6. CASE Upgraded(r)
  BY <1>6, CheckTypes DEF Upgraded
<1> QED
  BY <1>2, <1>3, <1>4, <1>5, <1>6

\* The removals, step by step.
LEMMA RemovalStep ==
  ASSUME TypeOK, NEW r \in Runs,
         RemovesCache(r) \/ Scavenges(r) \/ (\E yes \in BOOLEAN : Confirms(r, yes)) \/ Sweeps(r)
           \/ Swept(r) \/ RemovesEntry(r) \/ RemovesDir(r)
  PROVE  TypeOK'
<1> USE DEF Places, Ended, Over
<1>1. ASSUME NEW p \in Paths, Opens(r, p), where' = where
      PROVE  /\ on' \in [Runs -> Dirs \cup {None}] /\ path' \in [Runs -> Paths \cup {None}]
             /\ doomed' \subseteq Dirs /\ pc' \in [Runs -> Places] /\ Cached' = Cached
  <2>1. At(p) \subseteq Dirs
    BY DEF At
  <2> QED
    BY <1>1, <2>1, Typed, SameCache DEF Opens, TypeOK
<1>2. CASE RemovesCache(r)
  <2>1. Opens(r, CachePath) /\ where' = where /\ CachePath \in Paths
    BY <1>2 DEF RemovesCache, dirs, Paths
  <2> QED
    BY <1>1, <1>2, <2>1 DEF RemovesCache, dirs, TypeOK
<1>3. CASE Scavenges(r)
  <2>1. pc' \in [Runs -> Places] /\ Cached' = Cached
    BY <1>3, Typed, SameCache DEF Scavenges, dirs
  <2>2. Temps \subseteq Paths
    BY DEF Temps, Paths
  <2> QED
    BY <1>3, <2>1, <2>2 DEF Scavenges, dirs, history, TypeOK
<1>4. ASSUME NEW yes \in BOOLEAN, Confirms(r, yes) PROVE TypeOK'
  <2>1. pc' \in [Runs -> Places] /\ Cached' = Cached
    BY <1>4, Typed, SameCache DEF Confirms, dirs
  <2> QED
    BY <1>4, <2>1 DEF Confirms, dirs, history, TypeOK
<1>5. CASE Sweeps(r)
  <2>1. PICK p \in todo[r] :
          /\ todo' = [todo EXCEPT ![r] = @ \ {p}]
          /\ Opens(r, p) \/ UNCHANGED <<on, path, doomed, pc>>
    BY <1>5 DEF Sweeps
  <2>2. p \in Paths /\ where' = where /\ Cached' = Cached
    BY <1>5, SameCache DEF Sweeps, dirs, TypeOK
  <2>3. on' \in [Runs -> Dirs \cup {None}] /\ path' \in [Runs -> Paths \cup {None}]
        /\ doomed' \subseteq Dirs /\ pc' \in [Runs -> Places]
    BY <1>1, <2>1, <2>2 DEF TypeOK
  <2> QED
    BY <1>5, <2>1, <2>2, <2>3 DEF Sweeps, dirs, TypeOK
<1>6. CASE Swept(r)
  <2>1. pc' \in [Runs -> Places] /\ Cached' = Cached
    BY <1>6, Typed, SameCache DEF Swept, dirs
  <2> QED
    BY <1>6, <2>1 DEF Swept, dirs, history, TypeOK
<1>7. CASE RemovesEntry(r)
  <2>1. Cached' = Cached
    BY <1>7, SameCache DEF RemovesEntry
  <2>2. files' \in [Dirs -> SUBSET Files]
    BY <1>7 DEF RemovesEntry, TypeOK
  <2>3. manifest' \in [Dirs -> {"none", "torn", "old", "ok"}] /\ ripe' \in [Dirs -> BOOLEAN]
    BY <1>7 DEF RemovesEntry, TypeOK
  <2> QED
    BY <1>7, <2>1, <2>2, <2>3 DEF RemovesEntry, calls, history, TypeOK
<1>8. CASE RemovesDir(r)
  <2>1. pc' \in [Runs -> Places]
    BY <1>8, Typed DEF RemovesDir
  <2>2. where' \in [Dirs -> {"nowhere", "temp", "cache"}] /\ Cached' \subseteq Cached
    BY <1>8 DEF RemovesDir, TypeOK, Cached, At
  <2> QED
    BY <1>8, <2>1, <2>2 DEF RemovesDir, history, TypeOK
<1> QED
  BY <1>2, <1>3, <1>4, <1>5, <1>6, <1>7, <1>8

\* The download, step by step.
LEMMA DownloadStep ==
  ASSUME TypeOK, NEW r \in Runs,
         Creates(r) \/ Fetches(r) \/ NetworkFails(r) \/ Seals(r) \/ Promotes(r) \/ Drops(r)
  PROVE  TypeOK'
<1> USE DEF Places, Ended, Over
<1>0. r \in Dirs
  BY DEF Dirs
<1>1. CASE Creates(r)
  <2>1. pc' \in [Runs -> Places]
    BY <1>1, Typed DEF Creates
  <2>2. Cached' \subseteq Cached
    BY <1>0, <1>1 DEF Creates, Cached, At, TypeOK
  <2> QED
    BY <1>0, <1>1, <2>1, <2>2 DEF Creates, history, TypeOK
<1>2. CASE Fetches(r)
  <2>1. Cached' \subseteq Cached
    BY <1>0, <1>2 DEF Fetches, Cached, At, TypeOK
  <2> QED
    BY <1>0, <1>2, <2>1 DEF Fetches, calls, history, TypeOK
<1>3. CASE NetworkFails(r)
  <2>1. pc' \in [Runs -> Places] /\ Cached' = Cached
    BY <1>3, Typed, SameCache DEF NetworkFails, dirs
  <2> QED
    BY <1>3, <2>1 DEF NetworkFails, Troubled, dirs, TypeOK
<1>4. CASE Seals(r)
  <2>1. pc' \in [Runs -> Places] /\ Cached' = Cached
    BY <1>4, Typed, SameCache DEF Seals
  <2> QED
    BY <1>0, <1>4, <2>1 DEF Seals, history, TypeOK
<1>5. CASE Promotes(r)
  <2>1. pc' \in [Runs -> Places]
    BY <1>5, Typed DEF Promotes
  <2>2. where' \in [Dirs -> {"nowhere", "temp", "cache"}]
    BY <1>0, <1>5 DEF Promotes, TypeOK
  <2>3. \A d, e \in Cached' : d = e
    <3>1. CASE where' = where
      BY <3>1, SameCache DEF TypeOK
    <3>2. CASE where' = [d \in Dirs |-> IF d = r THEN "cache"
                           ELSE IF where[d] = "cache" THEN "nowhere" ELSE where[d]]
      BY <3>2 DEF Cached, At
    <3> QED
      BY <1>5, <3>1, <3>2 DEF Promotes
  <2>4. kind' \in [Runs -> {None, "pull", "rival", "load"} \cup Cleans]
    BY <1>5 DEF Promotes, TypeOK
  <2> QED
    BY <1>5, <2>1, <2>2, <2>3, <2>4 DEF Promotes, history, TypeOK
<1>6. CASE Drops(r)
  <2>1. pc' \in [Runs -> Places]
    BY <1>6, Typed DEF Drops
  <2>2. Cached' \subseteq Cached
    BY <1>0, <1>6 DEF Drops, Cached, At, TypeOK
  <2> QED
    BY <1>0, <1>6, <2>1, <2>2 DEF Drops, history, TypeOK
<1> QED
  BY <1>1, <1>2, <1>3, <1>4, <1>5, <1>6

\* Every step keeps the types.
LEMMA TypeStep == ASSUME TypeOK, [Next]_vars PROVE TypeOK'
<1> USE DEF Places, Ended, Over
<1>1. ASSUME NEW r \in Runs, Step(r) PROVE TypeOK'
  BY <1>1, CheckStep, RemovalStep, DownloadStep DEF Step
<1>2. ASSUME NEW r \in Runs, Crash(r) PROVE TypeOK'
  <2>1. pc' \in [Runs -> Places] /\ Cached' = Cached
    BY <1>2, Typed, SameCache DEF Crash, dirs
  <2> QED
    BY <1>2, <2>1 DEF Crash, Troubled, dirs, TypeOK
<1>3. ASSUME NEW r \in Runs, NEW k \in {"pull", "load"} \cup Cleans, Begin(r, k) PROVE TypeOK'
  <2>1. pc' \in [Runs -> Places] /\ Cached' = Cached
    BY <1>3, Typed, SameCache DEF Begin, dirs
  <2>2. epoch' \in {"quiet", "pulls", "troubled"}
    BY <1>3 DEF Begin, TypeOK
  <2>3. kind' \in [Runs -> {None, "pull", "rival", "load"} \cup Cleans]
    BY <1>3 DEF Begin, TypeOK
  <2> QED
    BY <1>3, <2>1, <2>2, <2>3 DEF Begin, dirs, TypeOK
<1>4. ASSUME NEW r \in Runs, Ripens(r) PROVE TypeOK'
  <2>1. Cached' = Cached
    BY <1>4, SameCache DEF Ripens
  <2> QED
    BY <1>4, <2>1 DEF Ripens, calls, history, TypeOK
<1>5. ASSUME NEW d \in Dirs, Damage(d) PROVE TypeOK'
  <2>1. Cached' = Cached
    BY <1>5, SameCache DEF Damage
  <2>2. epoch' \in {"quiet", "pulls", "troubled"}
    BY <1>5 DEF Damage, TypeOK
  <2> QED
    BY <1>5, <2>1, <2>2 DEF Damage, calls, TypeOK
<1>6. CASE UNCHANGED vars
  BY <1>6, SameCache DEF vars, TypeOK
<1> QED
  BY <1>1, <1>2, <1>3, <1>4, <1>5, <1>6 DEF Next
-----------------------------------------------------------------------------
(* The invariant is kept. *)

\* A run that is over stays where it is.
LEMMA OverStays ==
  ASSUME TypeOK, [Next]_vars, NEW r \in Runs, pc[r] \in Over PROVE pc'[r] = pc[r]
<1> USE DEF Over, Ended, Goes, TypeOK
<1>1. ASSUME NEW s \in Runs, Step(s) PROVE pc'[r] = pc[r]
  <2>1. CASE ReadManifest(s) \/ CheckFiles(s) \/ UpgradeTruncates(s) \/ UpgradeWrites(s) \/ Upgraded(s)
    BY <2>1 DEF ReadManifest, CheckFiles, UpgradeTruncates, UpgradeWrites, Upgraded, Hits, Misses
  <2>2. CASE RemovesCache(s) \/ Scavenges(s) \/ (\E yes \in BOOLEAN : Confirms(s, yes)) \/ Sweeps(s)
             \/ Swept(s) \/ RemovesEntry(s) \/ RemovesDir(s)
    BY <2>2 DEF RemovesCache, Scavenges, Confirms, Sweeps, Swept, RemovesEntry, RemovesDir, Opens,
                calls
  <2>3. CASE Creates(s) \/ Fetches(s) \/ NetworkFails(s) \/ Seals(s) \/ Promotes(s) \/ Drops(s)
    BY <2>3 DEF Creates, Fetches, NetworkFails, Seals, Promotes, Drops, calls
  <2> QED
    BY <1>1, <2>1, <2>2, <2>3 DEF Step
<1>2. ASSUME NEW s \in Runs, Crash(s) \/ Ripens(s) PROVE pc'[r] = pc[r]
  BY <1>2 DEF Crash, Ripens, Live, calls
<1>3. ASSUME NEW s \in Runs, NEW k \in {"pull", "load"} \cup Cleans, Begin(s, k)
      PROVE  pc'[r] = pc[r]
  BY <1>3 DEF Begin
<1>4. ASSUME NEW d \in Dirs, Damage(d) PROVE pc'[r] = pc[r]
  BY <1>4 DEF Damage, calls
<1>5. CASE UNCHANGED vars
  BY <1>5 DEF vars
<1> QED
  BY <1>1, <1>2, <1>3, <1>4, <1>5 DEF Next

\* Whatever has a path that may be removed belongs to a run that is over.
LEMMA Targets ==
  ASSUME TypeOK, Placed, NEW p \in Paths, Gone(p), NEW d \in At(p) PROVE Gone(d)
BY DEF Placed, At, Gone, Paths, Over

\* The check.
LEMMA CheckKeeps ==
  ASSUME CacheInv, NEW r \in Runs, TypeOK', \A s \in Runs : pc[s] \in Over => pc'[s] = pc[s],
         ReadManifest(r) \/ CheckFiles(r) \/ UpgradeTruncates(r) \/ UpgradeWrites(r) \/ Upgraded(r)
  PROVE  (Placed /\ Kinds /\ Aimed /\ Sealed /\ CacheIsWhole)'
<1> USE DEF Over, Ended, Goes, TypeOK, CacheInv
<1>1. \A p \in Stale \cup {CachePath} : Gone(p)
  BY CacheAssumption DEF Stale, Temps, Placed, Gone
<1>2. ASSUME NEW l \in BOOLEAN, Misses(r, l), pc[r] \in {"check", "compare", "rehash"}
      PROVE  (Placed /\ Kinds /\ Aimed /\ Sealed /\ CacheIsWhole)'
  <2>1. Placed'
    BY <1>2 DEF Misses, dirs, Placed
  <2>2. Kinds'
    BY <1>2 DEF Misses, Kinds, Cleans
  <2>3. Aimed'
    BY <1>1, <1>2 DEF Misses, history, Aimed, Gone, Cleans
  <2>4. Sealed' /\ CacheIsWhole'
    BY <1>2 DEF Misses, dirs, history, Sealed, CacheIsWhole
  <2> QED
    BY <2>1, <2>2, <2>3, <2>4
<1>3. ASSUME Hits(r), pc[r] \in {"compare", "upgrade", "upgraded"}
      PROVE  (Placed /\ Kinds /\ Aimed /\ Sealed /\ CacheIsWhole)'
  <2>1. Placed'
    BY <1>3 DEF Hits, Placed, Dirs
  <2>2. Kinds'
    BY <1>3 DEF Hits, Kinds, Cleans
  <2>3. Aimed'
    BY <1>1, <1>3 DEF Hits, history, Aimed, Gone, Cleans
  <2>4. Sealed' /\ CacheIsWhole'
    BY <1>3 DEF Hits, history, Sealed, CacheIsWhole, Dirs
  <2> QED
    BY <2>1, <2>2, <2>3, <2>4
<1>4. ASSUME NEW l \in {"compare", "rehash", "upgrade"}, Goes(r, l),
             UNCHANGED <<dirs, kind, todo, on, path, history>>, pc[r] \notin Over
      PROVE  (Placed /\ Kinds /\ Aimed /\ Sealed /\ CacheIsWhole)'
  <2>1. Placed'
    BY <1>4 DEF dirs, Placed
  <2>2. Kinds'
    BY <1>4 DEF Kinds
  <2>3. Aimed'
    BY <1>4 DEF history, Aimed, Gone
  <2>4. Sealed' /\ CacheIsWhole'
    BY <1>4 DEF dirs, history, Sealed, CacheIsWhole
  <2> QED
    BY <2>1, <2>2, <2>3, <2>4
<1>5. CASE ReadManifest(r)
  BY <1>2, <1>4, <1>5 DEF ReadManifest
<1>6. CASE CheckFiles(r)
  BY <1>2, <1>3, <1>4, <1>6 DEF CheckFiles
<1>7. CASE UpgradeTruncates(r)
  <2>1. CASE Hits(r)
    BY <1>3, <1>7, <2>1 DEF UpgradeTruncates
  <2>2. ASSUME NEW d \in Cached,
               manifest' = [manifest EXCEPT ![d] = "torn"],
               on' = [on EXCEPT ![r] = d],
               Goes(r, "upgrading"),
               UNCHANGED <<where, files, ripe, kind, todo, path, history>>
        PROVE  (Placed /\ Kinds /\ Aimed /\ Sealed /\ CacheIsWhole)'
    <3>1. d \in Dirs /\ Gone(d) /\ where[d] = "cache"
      BY DEF Cached, At, Placed, Gone
    <3>2. Placed'
      BY <1>7, <2>2 DEF UpgradeTruncates, Placed
    <3>3. Kinds'
      BY <2>2 DEF Kinds
    <3>4. Aimed'
      BY <2>2, <3>1 DEF history, Aimed, Gone
    <3>5. Sealed'
      BY <2>2, <3>1 DEF Sealed, Gone
    <3>6. CacheIsWhole'
      BY <2>2, <3>1 DEF history, CacheIsWhole
    <3> QED
      BY <3>2, <3>3, <3>4, <3>5, <3>6
  <2> QED
    BY <1>7, <2>1, <2>2 DEF UpgradeTruncates
<1>8. CASE UpgradeWrites(r)
  <2>1. on[r] \in Dirs /\ Gone(on[r])
    BY <1>8 DEF UpgradeWrites, Aimed
  <2>2. Placed' /\ Kinds'
    BY <1>8 DEF UpgradeWrites, Placed, Kinds
  <2>3. Aimed'
    BY <1>8 DEF UpgradeWrites, history, Aimed, Gone
  <2>4. Sealed'
    BY <1>8, <2>1 DEF UpgradeWrites, Sealed, Gone
  <2>5. CacheIsWhole'
    BY <1>8, <2>1 DEF UpgradeWrites, history, CacheIsWhole
  <2> QED
    BY <2>2, <2>3, <2>4, <2>5
<1>9. CASE Upgraded(r)
  BY <1>3, <1>9 DEF Upgraded
<1> QED
  BY <1>5, <1>6, <1>7, <1>8, <1>9

\* The removals.
LEMMA RemovalKeeps ==
  ASSUME CacheInv, NEW r \in Runs, TypeOK', \A s \in Runs : pc[s] \in Over => pc'[s] = pc[s],
         RemovesCache(r) \/ Scavenges(r) \/ (\E yes \in BOOLEAN : Confirms(r, yes)) \/ Sweeps(r)
           \/ Swept(r) \/ RemovesEntry(r) \/ RemovesDir(r)
  PROVE  (Placed /\ Kinds /\ Aimed /\ Sealed /\ CacheIsWhole)'
<1> USE DEF Over, Ended, Goes, TypeOK, CacheInv
<1>1. ASSUME NEW p \in Paths, Gone(p), Opens(r, p), pc[r] \in {"remove", "sweep"},
             UNCHANGED <<dirs, kind, damaged>>, \A s \in Runs : todo'[s] \subseteq todo[s],
             kind[r] \in {"pull"} \cup Cleans
      PROVE  (Placed /\ Kinds /\ Aimed /\ Sealed /\ CacheIsWhole)'
  <2>1. Placed'
    BY <1>1 DEF Opens, dirs, Placed
  <2>2. Kinds'
    BY <1>1 DEF Opens, Kinds, Cleans
  <2>3. Aimed'
    <3>1. \A d \in At(p) : Gone(d)
      BY <1>1, Targets
    <3>2. CASE At(p) = {}
      BY <1>1, <3>2 DEF Opens, Aimed, Gone
    <3>3. ASSUME NEW d \in At(p),
                 on' = [on EXCEPT ![r] = d], path' = [path EXCEPT ![r] = p],
                 doomed' = doomed \cup {d}, pc' = [pc EXCEPT ![r] = "removing"]
          PROVE  Aimed'
      <4>1. Gone(d)' /\ \A e \in doomed : Gone(e)'
        BY <1>1, <3>1, <3>3 DEF Gone, Aimed
      <4>2. ASSUME NEW s \in Runs, pc'[s] = "removing"
            PROVE  on'[s] \in doomed' /\ path'[s] \in Paths /\ Gone(path[s])'
        <5>1. CASE s = r
          BY <1>1, <3>3, <5>1 DEF Gone
        <5>2. CASE s # r
          BY <1>1, <3>3, <4>2, <5>2 DEF Gone, Aimed
        <5> QED
          BY <5>1, <5>2
      <4>3. ASSUME NEW s \in Runs, pc'[s] = "upgrading" PROVE on'[s] \in Dirs /\ Gone(on[s])'
        <5>1. s # r
          BY <3>3, <4>3
        <5> QED
          BY <1>1, <3>3, <4>3, <5>1 DEF Gone, Aimed
      <4>4. \A s \in Runs : kind'[s] \in Cleans /\ pc'[s] \in {"confirm", "sweep", "removing"} =>
              \A q \in todo'[s] : Gone(q)'
        BY <1>1, <3>3 DEF Gone, Aimed, Kinds, Cleans
      <4> QED
        BY <3>3, <4>1, <4>2, <4>3, <4>4 DEF Aimed, Gone
    <3> QED
      BY <1>1, <3>2, <3>3 DEF Opens
  <2>4. Sealed'
    BY <1>1 DEF Opens, dirs, Sealed
  <2>5. CacheIsWhole'
    BY <1>1 DEF Opens, dirs, CacheIsWhole
  <2> QED
    BY <2>1, <2>2, <2>3, <2>4, <2>5
<1>2. CASE RemovesCache(r)
  <2>1. CachePath \in Paths /\ Gone(CachePath) /\ kind[r] = "pull"
    BY <1>2, CacheAssumption DEF Paths, Gone, Kinds, RemovesCache
  <2> QED
    BY <1>1, <1>2, <2>1 DEF RemovesCache
<1>3. CASE Scavenges(r)
  <2>1. Placed' /\ Kinds'
    BY <1>3 DEF Scavenges, dirs, Placed, Kinds, Cleans
  <2>2. Aimed'
    BY <1>3 DEF Scavenges, history, Aimed, Gone, Kinds, Cleans
  <2>3. Sealed' /\ CacheIsWhole'
    BY <1>3 DEF Scavenges, dirs, history, Sealed, CacheIsWhole
  <2> QED
    BY <2>1, <2>2, <2>3
<1>4. ASSUME NEW yes \in BOOLEAN, Confirms(r, yes)
      PROVE  (Placed /\ Kinds /\ Aimed /\ Sealed /\ CacheIsWhole)'
  <2>1. Placed' /\ Kinds'
    BY <1>4 DEF Confirms, dirs, Placed, Kinds, Cleans
  <2>2. Aimed'
    BY <1>4 DEF Confirms, history, Aimed, Gone
  <2>3. Sealed' /\ CacheIsWhole'
    BY <1>4 DEF Confirms, dirs, history, Sealed, CacheIsWhole
  <2> QED
    BY <2>1, <2>2, <2>3
<1>5. CASE Sweeps(r)
  <2>1. PICK p \in todo[r] :
          /\ todo' = [todo EXCEPT ![r] = @ \ {p}]
          /\ IF At(p) # {} /\ (kind[r] = "pull" => p \in Stale)
             THEN Opens(r, p)
             ELSE UNCHANGED <<on, path, doomed, pc>>
    BY <1>5 DEF Sweeps
  <2>2. p \in Paths /\ \A s \in Runs : todo'[s] \subseteq todo[s]
    BY <2>1
  <2>3. kind[r] \in {"pull"} \cup Cleans
    BY <1>5 DEF Sweeps, Kinds
  <2>4. CASE At(p) # {} /\ (kind[r] = "pull" => p \in Stale)
    <3>1. Gone(p)
      BY <1>5, <2>3, <2>4 DEF Sweeps, Aimed, Gone, Stale, Placed
    <3> QED
      BY <1>1, <1>5, <2>1, <2>2, <2>3, <2>4, <3>1 DEF Sweeps
  <2>5. CASE UNCHANGED <<on, path, doomed, pc>>
    <3>1. Placed' /\ Kinds'
      BY <1>5, <2>5 DEF Sweeps, dirs, Placed, Kinds
    <3>2. Aimed'
      BY <1>5, <2>2, <2>5 DEF Sweeps, Aimed, Gone
    <3>3. Sealed' /\ CacheIsWhole'
      BY <1>5, <2>5 DEF Sweeps, dirs, Sealed, CacheIsWhole
    <3> QED
      BY <3>1, <3>2, <3>3
  <2> QED
    BY <2>1, <2>4, <2>5
<1>6. CASE Swept(r)
  <2>1. Placed' /\ Kinds'
    BY <1>6 DEF Swept, dirs, Placed, Kinds, Cleans
  <2>2. Aimed'
    BY <1>6 DEF Swept, history, Aimed, Gone
  <2>3. Sealed' /\ CacheIsWhole'
    BY <1>6 DEF Swept, dirs, history, Sealed, CacheIsWhole
  <2> QED
    BY <2>1, <2>2, <2>3
<1>7. CASE RemovesEntry(r)
  <2>1. on[r] \in doomed /\ Gone(on[r])
    BY <1>7 DEF RemovesEntry, Aimed
  <2>2. \A s \in Runs : s \notin doomed =>
          files'[s] = files[s] /\ manifest'[s] = manifest[s]
    BY <1>7, <2>1 DEF RemovesEntry, Dirs
  <2>3. Placed'
    BY <1>7 DEF RemovesEntry, calls, Placed
  <2>4. Kinds' /\ Aimed'
    BY <1>7 DEF RemovesEntry, calls, history, Kinds, Aimed, Gone
  <2>5. Sealed'
    BY <1>7, <2>2 DEF RemovesEntry, calls, Sealed, Aimed, Gone
  <2>6. CacheIsWhole'
    BY <1>7, <2>2 DEF RemovesEntry, history, CacheIsWhole
  <2> QED
    BY <2>3, <2>4, <2>5, <2>6
<1>8. CASE RemovesDir(r)
  <2>1. path[r] \in Paths /\ Gone(path[r]) /\ kind[r] \in {"pull"} \cup Cleans
    BY <1>8 DEF RemovesDir, Aimed, Kinds
  <2>2. \A d \in At(path[r]) : Gone(d)
    BY <2>1, Targets
  <2>3. \A s \in Runs : where'[s] # where[s] => where'[s] = "nowhere" /\ Gone(s)
    BY <1>8, <2>2 DEF RemovesDir, Dirs
  <2>4. Placed'
    <3>1. ASSUME NEW s \in Runs, s # r PROVE pc'[s] = pc[s] /\ ripe'[s] = ripe[s]
      BY <1>8, <3>1 DEF RemovesDir
    <3>2. pc[r] = "removing" /\ pc'[r] \in {"sweep", "scavenge", "failed"} /\ ripe' = ripe
      BY <1>8 DEF RemovesDir
    <3>3. where'[r] # "cache"
      BY <2>3, <3>2 DEF Placed
    <3> QED
      BY <2>3, <3>1, <3>2, <3>3 DEF Placed, Gone
  <2>5. Kinds'
    BY <1>8, <2>1 DEF RemovesDir, Kinds, Cleans
  <2>6. Aimed'
    BY <1>8 DEF RemovesDir, history, Aimed, Gone
  <2>7. Sealed'
    BY <1>8 DEF RemovesDir, Sealed
  <2>8. CacheIsWhole'
    BY <1>8, <2>3 DEF RemovesDir, history, CacheIsWhole
  <2> QED
    BY <2>4, <2>5, <2>6, <2>7, <2>8
<1> QED
  BY <1>2, <1>3, <1>4, <1>5, <1>6, <1>7, <1>8

\* The download.
LEMMA DownloadKeeps ==
  ASSUME CacheInv, NEW r \in Runs, TypeOK', \A s \in Runs : pc[s] \in Over => pc'[s] = pc[s],
         Creates(r) \/ Fetches(r) \/ NetworkFails(r) \/ Seals(r) \/ Promotes(r) \/ Drops(r)
  PROVE  (Placed /\ Kinds /\ Aimed /\ Sealed /\ CacheIsWhole)'
<1> USE DEF Over, Ended, Goes, TypeOK, CacheInv
<1>0. r \in Dirs
  BY DEF Dirs
<1>1. CASE Creates(r)
  <2>1. Placed' /\ Kinds'
    BY <1>0, <1>1 DEF Creates, Placed, Kinds, Dirs
  <2>2. Aimed' /\ Sealed'
    BY <1>1 DEF Creates, history, Aimed, Sealed, Gone
  <2>3. CacheIsWhole'
    BY <1>0, <1>1 DEF Creates, history, CacheIsWhole, Dirs
  <2> QED
    BY <2>1, <2>2, <2>3
<1>2. CASE Fetches(r)
  <2>1. Placed' /\ Kinds'
    BY <1>0, <1>2 DEF Fetches, calls, Placed, Kinds, Dirs
  <2>2. Aimed' /\ Sealed'
    BY <1>2 DEF Fetches, calls, history, Aimed, Sealed, Gone
  <2>3. CacheIsWhole'
    BY <1>0, <1>2 DEF Fetches, calls, history, CacheIsWhole, Placed, Dirs
  <2> QED
    BY <2>1, <2>2, <2>3
<1>3. CASE NetworkFails(r)
  <2>1. Placed' /\ Kinds'
    BY <1>3 DEF NetworkFails, dirs, Placed, Kinds
  <2>2. Aimed' /\ Sealed' /\ CacheIsWhole'
    BY <1>3 DEF NetworkFails, dirs, Aimed, Sealed, CacheIsWhole, Gone
  <2> QED
    BY <2>1, <2>2
<1>4. CASE Seals(r)
  <2>1. Placed' /\ Kinds'
    BY <1>4 DEF Seals, Placed, Kinds
  <2>2. Aimed' /\ Sealed'
    BY <1>0, <1>4 DEF Seals, history, Aimed, Sealed, Gone, Dirs
  <2>3. CacheIsWhole'
    BY <1>4 DEF Seals, history, CacheIsWhole, Placed
  <2> QED
    BY <2>1, <2>2, <2>3
<1>5. CASE Promotes(r)
  <2>1. CASE where' = [d \in Dirs |-> IF d = r THEN "cache"
                         ELSE IF where[d] = "cache" THEN "nowhere" ELSE where[d]]
             /\ Goes(r, "ok") /\ UNCHANGED kind
    <3>1. Placed' /\ Kinds'
      BY <1>5, <2>1 DEF Promotes, Placed, Kinds, Dirs
    <3>2. Aimed' /\ Sealed'
      BY <1>5, <2>1 DEF Promotes, history, Aimed, Sealed, Gone
    <3>3. CacheIsWhole'
      BY <1>5, <2>1 DEF Promotes, history, CacheIsWhole, Sealed, Dirs
    <3> QED
      BY <3>1, <3>2, <3>3
  <2>2. CASE kind' = [kind EXCEPT ![r] = "rival"] /\ Goes(r, "check") /\ UNCHANGED where
    <3>1. Placed' /\ Kinds'
      BY <1>5, <2>2 DEF Promotes, Placed, Kinds
    <3>2. Aimed' /\ Sealed' /\ CacheIsWhole'
      BY <1>5, <2>2 DEF Promotes, history, Aimed, Sealed, Gone, CacheIsWhole, Cleans
    <3> QED
      BY <3>1, <3>2
  <2> QED
    BY <1>5, <2>1, <2>2 DEF Promotes
<1>6. CASE Drops(r)
  <2>1. Placed' /\ Kinds'
    BY <1>0, <1>6 DEF Drops, Placed, Kinds, Dirs
  <2>2. Aimed' /\ Sealed'
    BY <1>6 DEF Drops, history, Aimed, Sealed, Gone
  <2>3. CacheIsWhole'
    BY <1>0, <1>6 DEF Drops, history, CacheIsWhole, Dirs
  <2> QED
    BY <2>1, <2>2, <2>3
<1> QED
  BY <1>1, <1>2, <1>3, <1>4, <1>5, <1>6

\* Every step keeps the invariant.
LEMMA InvStep == ASSUME CacheInv, [Next]_vars PROVE CacheInv'
<1> USE DEF CacheInv
<1>1. TypeOK' /\ \A s \in Runs : pc[s] \in Over => pc'[s] = pc[s]
  BY TypeStep, OverStays
<1>2. ASSUME NEW r \in Runs, Step(r) PROVE CacheInv'
  BY <1>1, <1>2, CheckKeeps, RemovalKeeps, DownloadKeeps DEF Step
<1>3. ASSUME NEW r \in Runs, Crash(r) PROVE CacheInv'
  <2>1. Placed' /\ Kinds'
    BY <1>3 DEF Crash, dirs, Placed, Kinds, Goes, TypeOK, Live, Over, Ended
  <2>2. Aimed' /\ Sealed' /\ CacheIsWhole'
    BY <1>3 DEF Crash, dirs, Aimed, Sealed, CacheIsWhole, Gone, Goes, TypeOK, Over
  <2> QED
    BY <1>1, <2>1, <2>2
<1>4. ASSUME NEW r \in Runs, NEW k \in {"pull", "load"} \cup Cleans, Begin(r, k) PROVE CacheInv'
  <2>1. Placed' /\ Kinds'
    BY <1>4 DEF Begin, dirs, Placed, Kinds, Goes, TypeOK, Over
  <2>2. Aimed' /\ Sealed' /\ CacheIsWhole'
    BY <1>4 DEF Begin, dirs, Aimed, Sealed, CacheIsWhole, Gone, Goes, TypeOK, Over
  <2> QED
    BY <1>1, <2>1, <2>2
<1>5. ASSUME NEW r \in Runs, Ripens(r) PROVE CacheInv'
  <2>1. Placed'
    BY <1>5 DEF Ripens, calls, Placed, TypeOK, Live, Ended, Over, Dirs
  <2>2. Kinds' /\ Aimed' /\ Sealed' /\ CacheIsWhole'
    BY <1>5 DEF Ripens, calls, history, Kinds, Aimed, Sealed, CacheIsWhole, Gone
  <2> QED
    BY <1>1, <2>1, <2>2
<1>6. ASSUME NEW d \in Dirs, Damage(d) PROVE CacheInv'
  <2>1. Gone(d)
    BY <1>6 DEF Damage, Placed, Gone, Over
  <2>2. Placed' /\ Kinds' /\ Aimed'
    BY <1>6 DEF Damage, calls, Placed, Kinds, Aimed, Gone
  <2>3. Sealed'
    BY <1>6, <2>1 DEF Damage, calls, Sealed, Gone, TypeOK, Over
  <2>4. CacheIsWhole'
    BY <1>6 DEF Damage, CacheIsWhole, TypeOK
  <2> QED
    BY <1>1, <2>2, <2>3, <2>4
<1>7. CASE UNCHANGED vars
  BY <1>1, <1>7 DEF vars, Placed, Kinds, Aimed, Sealed, CacheIsWhole, Gone
<1> QED
  BY <1>2, <1>3, <1>4, <1>5, <1>6, <1>7 DEF Next

\* The invariant holds at the start.
LEMMA InvInit == ASSUME Init PROVE CacheInv
<1>1. TypeOK
  BY CacheAssumption DEF Init, TypeOK, Places, Ended, Cached, At, Dirs
<1>2. Placed /\ Kinds /\ Aimed /\ Sealed /\ CacheIsWhole
  BY CacheAssumption DEF Init, Placed, Kinds, Aimed, Sealed, CacheIsWhole, Gone, Over, Dirs, Cleans
<1> QED
  BY <1>1, <1>2 DEF CacheInv

\* In every run the invariant holds.
LEMMA Invariant == Spec => []CacheInv
<1>1. Init => CacheInv
  BY InvInit
<1>2. CacheInv /\ [Next]_vars => CacheInv'
  BY InvStep
<1> QED
  BY <1>1, <1>2, PTL DEF Spec
-----------------------------------------------------------------------------
\* The types are kept, and no two directories are in the cache, however many processes
\* check, download, promote and clean at a time.
THEOREM CacheTypeCorrect == Spec => []TypeOK
<1>1. CacheInv => TypeOK
  BY DEF CacheInv
<1> QED
  BY <1>1, Invariant, PTL

\* What a pull promotes is whole until a removal opens that directory or somebody damages it,
\* with any number of pulls, cleans and crashes (download_model_online, remove_cache_path).
THEOREM PromotedIsWhole == Spec => []CacheIsWhole
<1>1. CacheInv => CacheIsWhole
  BY DEF CacheInv
<1> QED
  BY <1>1, Invariant, PTL

\* No scavenger and no clean touches the directory of a download that is under way
\* (scavenge_stale_download_dirs, inspect_extraction_temp_dirs).
THEOREM DownloadsAreLeftAlone == Spec => LiveIsLeftAlone
<1> DEFINE Left(r) == where'[r] = "temp" /\ files[r] \subseteq files'[r] /\ manifest'[r] = manifest[r]
<1>1. ASSUME CacheInv, [Next]_vars, NEW r \in Runs, pc[r] \in {"fetch", "promote"}, pc'[r] = pc[r]
      PROVE  Left(r)
  <2> USE <1>1 DEF CacheInv, TypeOK, Over, Ended, Goes
  <2>1. where[r] = "temp" /\ r \in Dirs
    BY DEF Placed, Dirs
  <2>2. \A d : Gone(d) => d # r
    BY DEF Gone
  <2>3. ASSUME UNCHANGED <<where, files, manifest>> PROVE Left(r)
    BY <2>1, <2>3
  <2>4. ASSUME NEW s \in Runs, Step(s) PROVE Left(r)
    <3>1. ASSUME NEW l \in BOOLEAN, Misses(s, l) PROVE Left(r)
      BY <2>3, <3>1 DEF Misses, dirs
    <3>2. ASSUME Hits(s), pc[s] \in {"compare", "upgrade", "upgraded"} PROVE Left(r)
      BY <2>1, <3>2 DEF Hits
    <3>3. CASE ReadManifest(s) \/ CheckFiles(s) \/ UpgradeTruncates(s) \/ UpgradeWrites(s) \/ Upgraded(s)
      <4>1. CASE ReadManifest(s)
        BY <2>3, <3>1, <4>1 DEF ReadManifest, dirs
      <4>2. CASE CheckFiles(s)
        BY <2>3, <3>1, <3>2, <4>2 DEF CheckFiles, dirs
      <4>3. CASE UpgradeTruncates(s)
        BY <2>1, <3>2, <4>3 DEF UpgradeTruncates, Cached, At
      <4>4. CASE UpgradeWrites(s)
        BY <2>1, <2>2, <4>4 DEF UpgradeWrites, Aimed
      <4>5. CASE Upgraded(s)
        BY <3>2, <4>5 DEF Upgraded
      <4> QED
        BY <3>3, <4>1, <4>2, <4>3, <4>4, <4>5
    <3>4. CASE RemovesCache(s) \/ Scavenges(s) \/ (\E yes \in BOOLEAN : Confirms(s, yes))
               \/ Sweeps(s) \/ Swept(s)
      BY <2>3, <3>4 DEF RemovesCache, Scavenges, Confirms, Sweeps, Swept, dirs
    <3>5. CASE RemovesEntry(s)
      <4>1. on[s] # r
        BY <2>2, <3>5 DEF RemovesEntry, Aimed
      <4> QED
        BY <2>1, <3>5, <4>1 DEF RemovesEntry
    <3>6. CASE RemovesDir(s)
      <4>1. r \notin At(path[s])
        BY <2>2, <3>6, Targets DEF RemovesDir, Aimed
      <4>2. where'[r] = where[r]
        <5>1. where' = [d \in Dirs |-> IF d \in At(path[s]) \ {e \in At(path[s]) : ~Empty(e)}
                                       THEN "nowhere" ELSE where[d]]
          BY <3>6 DEF RemovesDir
        <5> QED
          BY <2>1, <4>1, <5>1
      <4> QED
        BY <2>1, <3>6, <4>2 DEF RemovesDir
    <3>7. CASE Creates(s) \/ Fetches(s) \/ NetworkFails(s) \/ Seals(s) \/ Drops(s)
      BY <2>1, <3>7 DEF Creates, Fetches, NetworkFails, Seals, Drops, dirs
    <3>8. CASE Promotes(s)
      BY <2>1, <3>8 DEF Promotes
    <3> QED
      BY <2>4, <3>3, <3>4, <3>5, <3>6, <3>7, <3>8 DEF Step
  <2>5. ASSUME NEW s \in Runs, Crash(s) \/ Ripens(s) PROVE Left(r)
    BY <2>3, <2>5 DEF Crash, Ripens, dirs
  <2>6. ASSUME NEW s \in Runs, NEW k \in {"pull", "load"} \cup Cleans, Begin(s, k) PROVE Left(r)
    BY <2>3, <2>6 DEF Begin, dirs
  <2>7. ASSUME NEW d \in Dirs, Damage(d) PROVE Left(r)
    BY <2>1, <2>7 DEF Damage
  <2>8. CASE UNCHANGED vars
    BY <2>3, <2>8 DEF vars
  <2> QED
    BY <2>4, <2>5, <2>6, <2>7, <2>8 DEF Next
<1>2. CacheInv /\ [Next]_vars =>
        [\A r \in Runs : pc[r] \in {"fetch", "promote"} /\ pc'[r] = pc[r] => Left(r)]_vars
  BY <1>1
<1> QED
  BY <1>2, Invariant, PTL DEF Spec, LiveIsLeftAlone
=============================================================================
