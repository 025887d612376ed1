----------------------------- MODULE ModelCache -----------------------------
(***************************************************************************)
(* The cache of an extraction model (core/conversation/model_lifecycle.rs, *)
(* commands/model.rs): a directory of pinned files and a manifest, which   *)
(* any number of processes check, download, promote and clean, with no     *)
(* lock but rename.  A run is one call in one process.  A download has a   *)
(* temporary directory of its own, and the directory keeps the name of the *)
(* run after it was promoted to CachePath.  remove_dir_all empties the     *)
(* directory it has opened and then removes what has its path, as std does *)
(* (a file that is gone already is no error).  A download that lives beats *)
(* more often than every six hours; sizes, ages and messages are left out. *)
(***************************************************************************)
EXTENDS Naturals, FiniteSets

CONSTANTS
  Runs,       \* calls of pull, load and clean
  Files,      \* the pinned files
  Old,        \* the directory that was in the cache before
  CachePath,  \* its path; the path of a temporary directory is its run
  None,
  MaxDamage   \* bound: files of the cache that are lost or changed

VARIABLES
  where,     \* where[d]: at CachePath, at a temporary path, or nowhere
  files,     \* files[d]: the files of d that are complete
  manifest,  \* manifest[d]: missing, being written, of an old version, valid
  ripe,      \* ripe[d]: heartbeat and mtime are older than the stale threshold
  kind,      \* kind[r]: what run r is; a rival is a pull whose rename failed
  pc,
  todo,      \* todo[r]: paths it goes through to remove them
  on,        \* on[r]: the directory it has opened to remove or write in
  path,      \* path[r]: and by which path
  late,      \* directories that got a manifest while a removal had them open
  doomed,    \* directories a removal was begun on
  damaged,   \* directories with damage done to them in the cache
  epoch      \* what has run since nothing last ran

dirs == <<where, files, manifest, ripe, late>>
calls == <<kind, pc, todo, on, path>>
history == <<doomed, damaged, epoch>>
vars == <<where, files, manifest, ripe, late, kind, pc, todo, on, path, doomed, damaged, epoch>>

Dirs == Runs \cup {Old}
Paths == Runs \cup {CachePath}
Cleans == {"all", "alias"}
Over == {"ok", "failed", "dead"}
Ended == Over \cup {"new"}
Places == Ended \cup {"check", "compare", "rehash", "upgrade", "upgrading", "upgraded", "remove",
                     "removing", "scavenge", "confirm", "sweep", "create", "fetch", "promote",
                     "drop"}

ASSUME CacheAssumption ==
  /\ Old \notin Runs /\ CachePath \notin Runs /\ None \notin Dirs \cup Paths
  /\ IsFiniteSet(Files) /\ Files # {}
  /\ MaxDamage \in Nat

Live == {r \in Runs : pc[r] \notin Ended}
At(p) == {d \in Dirs : IF p = CachePath THEN where[d] = "cache" ELSE d = p /\ where[d] = "temp"}
Cached == At(CachePath)
Temps == {r \in Runs : where[r] = "temp"}
Empty(d) == files[d] = {} /\ manifest[d] = "none"
Goes(r, l) == pc' = [pc EXCEPT ![r] = l]
Troubled == epoch' = "troubled"
-----------------------------------------------------------------------------
\* download_model, load_model_from_local_cache, `quaid model clean` with --all or an alias
Begin(r, k) ==
  /\ pc[r] = "new"
  /\ kind' = [kind EXCEPT ![r] = k]
  /\ Goes(r, "check")
  /\ LET now == IF Live = {} THEN "quiet" ELSE epoch IN
       epoch' = IF k \in Cleans THEN "troubled"
                ELSE IF k = "pull" /\ now = "quiet" THEN "pulls" ELSE now
  /\ UNCHANGED <<dirs, todo, on, path, doomed, damaged>>

\* (mutant) every temporary directory is taken for an abandoned one
Stale_All == Temps
\* download_temp_is_active
Stale == {r \in Temps : ripe[r]}

\* what a run does that finds no valid cache; cleanup_candidates
Misses(r, listed) ==
  /\ UNCHANGED <<dirs, kind, on, path, history>>
  /\ \/ kind[r] = "pull" /\ UNCHANGED todo
        /\ Goes(r, IF listed THEN "remove" ELSE "scavenge")
     \/ kind[r] = "load" /\ Goes(r, "failed") /\ UNCHANGED todo
     \/ kind[r] = "rival" /\ Goes(r, "drop") /\ UNCHANGED todo
     \/ /\ kind[r] \in Cleans
        /\ todo' = [todo EXCEPT ![r] = Stale \cup IF listed THEN {CachePath} ELSE {}]
        /\ Goes(r, "confirm")

\* what it does with a valid one: a rival lets its own download go
Hits(r) ==
  /\ Goes(r, IF kind[r] \in Cleans THEN "confirm" ELSE "ok")
  /\ where' = IF kind[r] = "rival" THEN [where EXCEPT ![r] = "nowhere"] ELSE where
  /\ todo' = IF kind[r] \in Cleans
             THEN [todo EXCEPT ![r] = Stale \cup IF kind[r] = "alias" THEN {CachePath} ELSE {}]
             ELSE todo
  /\ UNCHANGED <<files, manifest, ripe, late, kind, on, path, history>>

\* ensure_cache_manifest up to the reading of the manifest; a broad clean does not look
\* into a directory without one
ReadManifest(r) ==
  /\ pc[r] = "check"
  /\ \/ /\ Cached = {}
        /\ Misses(r, FALSE)
     \/ \E d \in Cached :
          \/ manifest[d] = "torn" /\ Misses(r, TRUE)
          \/ manifest[d] = "none" /\ kind[r] = "all" /\ Misses(r, FALSE)
          \/ /\ manifest[d] # "torn" /\ (manifest[d] = "none" => kind[r] # "all")
             /\ Goes(r, IF manifest[d] = "ok" THEN "compare" ELSE "rehash")
             /\ UNCHANGED <<dirs, kind, todo, on, path, history>>

\* validate_manifest_contents and manifest_from_source_pins, under whatever has the path now
FilesAreValid == \E d \in Cached : files[d] = Files

\* the files are compared with the manifest or with the pins
CheckFiles(r) ==
  \/ /\ pc[r] = "compare"
     /\ IF FilesAreValid THEN Hits(r) ELSE Misses(r, TRUE)
  \/ /\ pc[r] = "rehash"
     /\ IF FilesAreValid
        THEN Goes(r, "upgrade") /\ UNCHANGED <<dirs, kind, todo, on, path, history>>
        ELSE Misses(r, TRUE)

\* try_upgrade_manifest: fs::write truncates, then writes; its failure is a warning
UpgradeTruncates(r) ==
  /\ pc[r] = "upgrade"
  /\ \/ Cached = {} /\ Hits(r)
     \/ \E d \in Cached :
          /\ manifest' = [manifest EXCEPT ![d] = "torn"]
          /\ late' = IF manifest[d] = "none" /\ \E s \in Runs : pc[s] = "removing" /\ on[s] = d
                     THEN late \cup {d} ELSE late
          /\ on' = [on EXCEPT ![r] = d]
          /\ Goes(r, "upgrading")
          /\ UNCHANGED <<where, files, ripe, kind, todo, path, history>>

UpgradeWrites(r) ==
  /\ pc[r] = "upgrading"
  /\ manifest' = IF manifest[on[r]] = "none" THEN manifest ELSE [manifest EXCEPT ![on[r]] = "ok"]
  /\ on' = [on EXCEPT ![r] = None]
  /\ Goes(r, "upgraded")
  /\ UNCHANGED <<where, files, ripe, late, kind, todo, path, history>>

Upgraded(r) == pc[r] = "upgraded" /\ Hits(r)
-----------------------------------------------------------------------------
\* remove_dir_all opens the directory at p; without one it fails
Opens(r, p) ==
  \/ \E d \in At(p) :
       /\ on' = [on EXCEPT ![r] = d]
       /\ path' = [path EXCEPT ![r] = p]
       /\ doomed' = doomed \cup {d}
       /\ Goes(r, "removing")
  \/ At(p) = {} /\ Goes(r, "failed") /\ UNCHANGED <<on, path, doomed>>

\* (mutant) the invalid cache is left where it is
RemovesCache_Not(r) ==
  /\ pc[r] = "remove"
  /\ Goes(r, "scavenge")
  /\ UNCHANGED <<dirs, kind, todo, on, path, history>>
\* the stale cache before it is installed again
RemovesCache(r) ==
  /\ pc[r] = "remove"
  /\ Opens(r, CachePath)
  /\ UNCHANGED <<dirs, kind, todo, damaged, epoch>>

\* scavenge_stale_download_dirs, the listing of the root
Scavenges(r) ==
  /\ pc[r] = "scavenge"
  /\ todo' = [todo EXCEPT ![r] = Temps]
  /\ Goes(r, "sweep")
  /\ UNCHANGED <<dirs, kind, on, path, history>>

\* confirm_cleanup: time passes between the inspection and the removal
Confirms(r, yes) ==
  /\ pc[r] = "confirm"
  /\ Goes(r, IF yes THEN "sweep" ELSE "ok")
  /\ UNCHANGED <<dirs, kind, todo, on, path, history>>

\* the next path: the scavenger looks at its age now, remove_model_cache_entries only
\* whether it is there
Sweeps(r) ==
  /\ pc[r] = "sweep"
  /\ \E p \in todo[r] :
       /\ todo' = [todo EXCEPT ![r] = @ \ {p}]
       /\ IF At(p) # {} /\ (kind[r] = "pull" => p \in Stale)
          THEN Opens(r, p)
          ELSE UNCHANGED <<on, path, doomed, pc>>
  /\ UNCHANGED <<dirs, kind, damaged, epoch>>

Swept(r) ==
  /\ pc[r] = "sweep" /\ todo[r] = {}
  /\ Goes(r, IF kind[r] = "pull" THEN "create" ELSE "ok")
  /\ UNCHANGED <<dirs, kind, todo, on, path, history>>

\* an entry of the directory that was opened, whatever has its path by now
RemovesEntry(r) ==
  /\ pc[r] = "removing"
  /\ \/ /\ \E f \in files[on[r]] : files' = [files EXCEPT ![on[r]] = @ \ {f}]
        /\ UNCHANGED manifest
     \/ /\ manifest[on[r]] # "none"
        /\ manifest' = [manifest EXCEPT ![on[r]] = "none"]
        /\ UNCHANGED files
  /\ ripe' = [ripe EXCEPT ![on[r]] = FALSE]
  /\ UNCHANGED <<where, late, calls, history>>

\* rmdir by path: an empty directory goes, a full one is an error, nothing there is none; a
\* manifest that somebody writes meanwhile may have escaped the listing
RemovesDir(r) ==
  /\ pc[r] = "removing" /\ files[on[r]] = {}
  /\ manifest[on[r]] = "none" \/ on[r] \in late
  /\ LET full == {d \in At(path[r]) : ~Empty(d)} IN
       /\ where' = [d \in Dirs |-> IF d \in At(path[r]) \ full THEN "nowhere" ELSE where[d]]
       /\ Goes(r, IF path[r] # CachePath \/ kind[r] \in Cleans THEN "sweep"
                  ELSE IF full = {} THEN "scavenge" ELSE "failed")
  /\ on' = [on EXCEPT ![r] = None]
  /\ path' = [path EXCEPT ![r] = None]
  /\ UNCHANGED <<files, manifest, ripe, late, kind, todo, history>>
-----------------------------------------------------------------------------
\* the temporary directory, with its first heartbeat
Creates(r) ==
  /\ pc[r] = "create"
  /\ where' = [where EXCEPT ![r] = "temp"]
  /\ Goes(r, "fetch")
  /\ UNCHANGED <<files, manifest, ripe, late, kind, todo, on, path, history>>

\* download_source_pinned_artifact, the file complete and its pin verified; its
\* create_dir_all makes the directory again when it is gone
Fetches(r) ==
  /\ pc[r] = "fetch"
  /\ \E f \in Files \ files[r] : files' = [files EXCEPT ![r] = @ \cup {f}]
  /\ where' = [where EXCEPT ![r] = "temp"]
  /\ UNCHANGED <<manifest, ripe, late, calls, history>>

\* (mutant) a file that could not be fetched is passed over
NetworkFails_Skips(r) ==
  /\ pc[r] = "fetch"
  /\ manifest' = [manifest EXCEPT ![r] = "ok"]
  /\ Goes(r, "promote")
  /\ Troubled
  /\ UNCHANGED <<where, files, ripe, late, kind, todo, on, path, doomed, damaged>>
\* no answer, a lost connection, a digest that does not match
NetworkFails(r) ==
  /\ pc[r] = "fetch"
  /\ Goes(r, "drop")
  /\ Troubled
  /\ UNCHANGED <<dirs, kind, todo, on, path, doomed, damaged>>

\* the manifest, and verify_cache_manifest_full
Seals(r) ==
  /\ pc[r] = "fetch" /\ files[r] = Files
  /\ manifest' = [manifest EXCEPT ![r] = "ok"]
  /\ Goes(r, "promote")
  /\ UNCHANGED <<where, files, ripe, late, kind, todo, on, path, history>>

\* rename, which replaces an empty directory and no other
Promotes(r) ==
  /\ pc[r] = "promote"
  /\ IF where[r] = "temp" /\ \A d \in Cached : Empty(d)
     THEN /\ where' = [d \in Dirs |-> IF d = r THEN "cache"
                                      ELSE IF where[d] = "cache" THEN "nowhere" ELSE where[d]]
          /\ Goes(r, "ok")
          /\ UNCHANGED kind
     ELSE /\ kind' = [kind EXCEPT ![r] = "rival"]
          /\ Goes(r, "check")
          /\ UNCHANGED where
  /\ UNCHANGED <<files, manifest, ripe, late, todo, on, path, history>>

\* TempDirCleanupGuard
Drops(r) ==
  /\ pc[r] = "drop"
  /\ where' = [where EXCEPT ![r] = "nowhere"]
  /\ Goes(r, "failed")
  /\ UNCHANGED <<files, manifest, ripe, late, kind, todo, on, path, history>>
-----------------------------------------------------------------------------
\* the process dies, and what it has on disk stays
Crash(r) ==
  /\ r \in Live
  /\ Goes(r, "dead")
  /\ on' = [on EXCEPT ![r] = None]
  /\ path' = [path EXCEPT ![r] = None]
  /\ Troubled
  /\ UNCHANGED <<dirs, kind, todo, doomed, damaged>>

\* six hours without a sign of life
Ripens(r) ==
  /\ where[r] = "temp" /\ ~ripe[r] /\ r \notin Live
  /\ \A s \in Live : on[s] # r
  /\ ripe' = [ripe EXCEPT ![r] = TRUE]
  /\ UNCHANGED <<where, files, manifest, late, calls, history>>

\* somebody else deletes or rewrites a file of the cache
Damage(d) ==
  /\ where[d] = "cache" /\ Cardinality(damaged) < MaxDamage
  /\ \E f \in files[d] : files' = [files EXCEPT ![d] = @ \ {f}]
  /\ damaged' = damaged \cup {d}
  /\ epoch' = IF Live = {} THEN epoch ELSE "troubled"
  /\ UNCHANGED <<where, manifest, ripe, late, calls, doomed>>

Init ==
  /\ where \in {[d \in Dirs |-> IF d = Old THEN w ELSE "nowhere"] : w \in {"nowhere", "cache"}}
  /\ files \in {[d \in Dirs |-> IF d = Old THEN F ELSE {}] : F \in SUBSET Files}
  /\ manifest \in {[d \in Dirs |-> IF d = Old THEN m ELSE "none"] :
                     m \in {"none", "torn", "old", "ok"}}
  /\ where[Old] = "nowhere" => Empty(Old)
  /\ ripe = [d \in Dirs |-> FALSE]
  /\ kind = [r \in Runs |-> None]
  /\ pc = [r \in Runs |-> "new"]
  /\ todo = [r \in Runs |-> {}]
  /\ on = [r \in Runs |-> None]
  /\ path = [r \in Runs |-> None]
  /\ late = {}
  /\ doomed = {}
  /\ damaged = {}
  /\ epoch = "quiet"

Step(r) ==
  \/ ReadManifest(r) \/ CheckFiles(r) \/ UpgradeTruncates(r) \/ UpgradeWrites(r) \/ Upgraded(r)
  \/ RemovesCache(r) \/ Scavenges(r) \/ Sweeps(r) \/ Swept(r) \/ RemovesEntry(r) \/ RemovesDir(r)
  \/ Creates(r) \/ Fetches(r) \/ NetworkFails(r) \/ Seals(r) \/ Promotes(r) \/ Drops(r)
  \/ \E yes \in BOOLEAN : Confirms(r, yes)

Next ==
  \/ \E r \in Runs : Step(r) \/ Crash(r)
  \/ \E r \in Runs, k \in {"pull", "load"} \cup Cleans : Begin(r, k)
  \/ \E r \in Runs : Ripens(r)
  \/ \E d \in Dirs : Damage(d)

Spec == Init /\ [][Next]_vars
-----------------------------------------------------------------------------
\* The variables have their types, and one directory is in the cache at most.
TypeOK ==
  /\ where \in [Dirs -> {"nowhere", "temp", "cache"}]
  /\ files \in [Dirs -> SUBSET Files]
  /\ manifest \in [Dirs -> {"none", "torn", "old", "ok"}]
  /\ ripe \in [Dirs -> BOOLEAN]
  /\ kind \in [Runs -> {None, "pull", "rival", "load"} \cup Cleans]
  /\ pc \in [Runs -> Places]
  /\ todo \in [Runs -> SUBSET Paths]
  /\ on \in [Runs -> Dirs \cup {None}]
  /\ path \in [Runs -> Paths \cup {None}]
  /\ epoch \in {"quiet", "pulls", "troubled"}
  /\ late \subseteq Dirs /\ doomed \subseteq Dirs /\ damaged \subseteq Dirs
  /\ \A d, e \in Cached : d = e

\* What a pull puts into the cache is whole from the first moment and stays so until a
\* removal opens that very directory or somebody else damages it: neither a crash, nor a
\* failed download, nor a removal that was begun on its predecessor leaves a part of it.
\* ("does not promote the failed artifact", openspec download-resilience.)
CacheIsWhole ==
  \A r \in Runs :
    where[r] = "cache" /\ r \notin doomed \cup damaged => files[r] = Files /\ manifest[r] # "none"

\* The directory of a download under way is touched by nobody else, however scavengers and
\* cleans interleave with it ("Active downloads are skipped", openspec cache-cleanup).
LiveIsLeftAlone ==
  [][\A r \in Runs : pc[r] \in {"fetch", "promote"} /\ pc'[r] = pc[r] =>
       where'[r] = "temp" /\ files[r] \subseteq files'[r] /\ manifest'[r] = manifest[r]]_vars

\* When pulls and loads were alone from the first to the last of them, and the network and
\* the disk held, the cache is whole at the end: whatever crashes, cleans and older versions
\* left behind, and however the pulls removed, downloaded and promoted against each other.
\* ("Concurrent downloads do not corrupt cache", openspec download-resilience.)
PullsHeal ==
  [][Live # {} /\ Live' = {} /\ epoch' = "pulls" /\ late = {} =>
       \E d \in Dirs : where'[d] = "cache" /\ files'[d] = Files /\ manifest'[d] = "ok"]_vars
=============================================================================
