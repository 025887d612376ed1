------------------------------ MODULE VaultIndex ------------------------------
(***************************************************************************)
(* One active collection: the files of the vault, the index of them in     *)
(* SQLite (`pages`, `file_state`), and everything that moves one towards   *)
(* the other: page writes (commands/put.rs), the file watcher and the      *)
(* supervisor's passes (vault_sync/watcher.rs, vault_sync/mod.rs), the     *)
(* walk, diff and apply of a pass (core/reconciler.rs) and the recovery    *)
(* sentinels.  Identity of pages across renames is not in this module:     *)
(* a page and its path are one.                                            *)
(***************************************************************************)
EXTENDS Naturals, FiniteSets

CONSTANTS
  Paths,      \* relative paths of the vault
  Data,       \* contents of a file
  None,       \* no content, no row, nobody
  Writers,    \* threads that serve `put`
  Inside,     \* those in the process of the runtime host; the others in another one
  Capacity,   \* WATCH_CHANNEL_CAPACITY
  Faults,     \* what may fail: "mark" a flag write, "commit" the transaction of a
              \* put, "rename" its rename, "pass" a reconcile pass in SQLite or I/O
  MaxEdits,   \* bound: writes by somebody else
  MaxPuts,    \* bound: puts
  MaxCrashes, \* bound: crashes of the host, of its watcher, of a writer outside it
  MaxFails    \* bound: passes that fail, audits

ASSUME IndexAssumption ==
  /\ None \notin Data
  /\ None \notin Writers
  /\ Inside \subseteq Writers
  /\ Capacity \in Nat \ {0}
  /\ Faults \subseteq {"mark", "commit", "rename", "pass"}
  /\ {MaxEdits, MaxPuts, MaxCrashes, MaxFails} \subseteq Nat

VARIABLES
  \* the disk
  disk,      \* disk[p]: content (None: no file) and stat stamp of p; a stamp is new at each write
  sentinels, \* recovery sentinels, by the number of the write that left them
  \* the database
  page,      \* page[p]: content and version of the page, version 0 if there is none
  row,       \* row[p]: the file_state row of p: content hash and stat stamp, or None
  flag,      \* collections.needs_full_sync
  tx,        \* the writer whose transaction holds the write lock, or None
  \* the runtime host
  watch,     \* "down" (no host), "starting", "on", or "crashed" (the watcher of the host)
  os,        \* paths with a notification not yet handed to the watcher
  chan,      \* events in the watcher's channel
  dirty,     \* is something in the watcher's batch buffer?
  selfWrite, \* selfWrite[p]: content in SELF_WRITE_DEDUP for p, or None
  pass,      \* the reconcile pass of the supervisor
  \* the writers
  put,       \* put[w]: the write w is in the middle of
  \* history and bounds
  held,      \* held[p]: what p has held since the start
  torn,      \* files a put renamed but did not commit, that no pass has read since
  unnoticed, \* files whose last change was not announced, or its announcement lost, or that
             \* a put committed under a pass; and that no pass has read since
  late,      \* files a put committed between the plan of a full-hash pass, which took
             \* them for unchanged, and its self-heal; not written or read since
  edits, puts, crashes, fails

diskVars == <<disk, held, torn, unnoticed>>
db == <<page, row, late>>
watcher == <<watch, os, chan, dirty>>
counts == <<edits, puts, crashes, fails>>
vars == <<diskVars, sentinels, db, flag, tx, watcher, selfWrite, pass, put, counts>>

NoPage == [data |-> None, ver |-> 0]
IdlePass == [kind |-> "none", pc |-> "idle", seen |-> [p \in Paths |-> 0],
             plan |-> [p \in Paths |-> "keep"], got |-> [p \in Paths |-> None],
             found |-> {}]
IdlePut == [pc |-> "idle", id |-> 0, path |-> None, data |-> None, ver |-> 0, stat |-> 0]

HostUp == watch \in {"on", "crashed"}
Exists(p) == disk[p].data # None
Behind == {p \in Paths : page[p].data # disk[p].data}
-----------------------------------------------------------------------------
(***************************************************************************)
(* The disk, and whoever else writes there.                                *)
(***************************************************************************)

Write(p, d) ==
  /\ disk' = [disk EXCEPT ![p] = [data |-> d, stat |-> @.stat + 1]]
  /\ held' = [held EXCEPT ![p] = @ \cup {d}]
  /\ os' = IF watch = "on" THEN os \cup {p} ELSE os

\* will the host hear of this write?  Not before it has armed its watcher, and not if
\* the file becomes again what the host wrote a moment ago.
Announced(p, d) == HostUp /\ selfWrite[p] # d

\* an editor, git or a sync client creates, rewrites or deletes a file
ExternalEdit(p, d) ==
  /\ edits < MaxEdits
  /\ d # disk[p].data
  /\ Write(p, d)
  /\ torn' = torn \ {p}
  /\ unnoticed' = IF Announced(p, d) THEN unnoticed \ {p} ELSE unnoticed \cup {p}
  /\ edits' = edits + 1
  /\ UNCHANGED <<sentinels, db, flag, tx, watch, chan, dirty, selfWrite, pass, put,
                 puts, crashes, fails>>
-----------------------------------------------------------------------------
(***************************************************************************)
(* A page write: persist_with_vault_write, from the checks to the sentinel *)
(* it removes at the end.                                                  *)
(***************************************************************************)

\* vault_sync::mark_collection_needs_full_sync, where a failure is swallowed; like every
\* statement that writes, it waits for the transaction that holds the write lock
Mark == tx' = None /\ (flag' = TRUE \/ ("mark" \in Faults /\ flag' = flag))

\* check_fs_precondition: the row and the file agree, by stat or by hash
PreconditionHolds(p) ==
  IF row[p] = None THEN ~Exists(p)
  ELSE Exists(p) /\ (row[p].stat = disk[p].stat \/ row[p].data = disk[p].data)

\* write admission, the mutex of the path in this process, the version the
\* client names, the precondition: all before the transaction begins
PutCheck(w, p, d) ==
  /\ puts < MaxPuts
  /\ put[w].pc = "idle"
  /\ w \in Inside => HostUp
  /\ ~flag
  /\ \A v \in Writers : put[v].pc # "idle" /\ put[v].path = p => (v \in Inside) # (w \in Inside)
  /\ PreconditionHolds(p)
  /\ put' = [put EXCEPT ![w] = [pc |-> "checked", id |-> puts + 1, path |-> p, data |-> d,
                                ver |-> page[p].ver, stat |-> 0]]
  /\ puts' = puts + 1
  /\ UNCHANGED <<diskVars, sentinels, db, flag, tx, watcher, selfWrite, pass,
                 edits, crashes, fails>>

\* (mutant) UPDATE without its WHERE version
VersionHolds_Always(w) == TRUE
VersionHolds(w) == page[put[w].path].ver = put[w].ver

\* (mutant) the transaction is committed before the rename
PutStage_Commits(w) ==
  /\ put[w].pc = "checked"
  /\ tx = None
  /\ VersionHolds(w)
  /\ tx' = w
  /\ sentinels' = sentinels \cup {put[w].id}
  /\ page' = [page EXCEPT ![put[w].path].data = put[w].data]
  /\ put' = [put EXCEPT ![w].pc = "staged"]
  /\ UNCHANGED <<diskVars, row, late, flag, watcher, selfWrite, pass, counts>>

\* stage_page_record under BEGIN IMMEDIATE: an INSERT, or an UPDATE of the version
\* that was checked; then the sentinel
PutStage(w) ==
  /\ put[w].pc = "checked"
  /\ tx = None
  /\ IF VersionHolds(w)
     THEN /\ tx' = w
          /\ sentinels' = sentinels \cup {put[w].id}
          /\ put' = [put EXCEPT ![w].pc = "staged"]
     ELSE /\ put' = [put EXCEPT ![w] = IdlePut]
          /\ UNCHANGED <<tx, sentinels>>
  /\ UNCHANGED <<diskVars, db, flag, watcher, selfWrite, pass, counts>>

\* the entry that will suppress the watcher's event, then the rename
PutRename(w) ==
  LET p == put[w].path IN
  /\ put[w].pc = "staged"
  /\ selfWrite' = IF w \in Inside THEN [selfWrite EXCEPT ![p] = put[w].data] ELSE selfWrite
  /\ Write(p, put[w].data)
  /\ torn' = torn \cup {p}
  /\ unnoticed' = IF w \in Inside \/ watch = "down" \/ Announced(p, put[w].data)
                  THEN unnoticed \ {p} ELSE unnoticed \cup {p}
  /\ put' = [put EXCEPT ![w].pc = "renamed", ![w].stat = disk[p].stat + 1]
  /\ UNCHANGED <<sentinels, db, flag, tx, watch, chan, dirty, pass, counts>>

Forget(w) ==
  selfWrite' = IF w \in Inside THEN [selfWrite EXCEPT ![put[w].path] = None] ELSE selfWrite

\* cleanup_pre_rename: rollback, and neither an entry nor a sentinel is left
PutRenameFails(w) ==
  /\ "rename" \in Faults
  /\ put[w].pc = "staged"
  /\ Forget(w)
  /\ tx' = None
  /\ sentinels' = sentinels \ {put[w].id}
  /\ put' = [put EXCEPT ![w] = IdlePut]
  /\ UNCHANGED <<diskVars, db, flag, watcher, pass, counts>>

\* the file is still what was written: commit page and row with its stat.  (A file
\* rewritten in place with the same bytes passes too.)
PutCommit(w) ==
  LET p == put[w].path IN
  /\ put[w].pc = "renamed"
  /\ disk[p].data = put[w].data
  /\ page' = [page EXCEPT ![p] = [data |-> put[w].data, ver |-> put[w].ver + 1]]
  /\ row' = [row EXCEPT ![p] = [data |-> put[w].data, stat |-> disk[p].stat]]
  /\ tx' = None
  /\ torn' = torn \ {p}
  /\ unnoticed' = IF pass.pc = "idle" THEN unnoticed \ {p} ELSE unnoticed \cup {p}
  /\ late' = IF pass.pc = "diffed" /\ pass.plan[p] = "heal" THEN late \cup {p} ELSE late \ {p}
  /\ put' = [put EXCEPT ![w].pc = "committed"]
  /\ UNCHANGED <<disk, held, sentinels, flag, watcher, selfWrite, pass, counts>>

\* handle_post_rename_failure, and the same for ConcurrentRename: rollback, forget the
\* entry, raise the flag as well as may be, leave the sentinel
PutFails(w) ==
  /\ put[w].pc = "renamed"
  /\ "commit" \in Faults \/ disk[put[w].path].stat # put[w].stat
  /\ Forget(w)
  /\ Mark
  /\ unnoticed' = IF flag' /\ pass.pc = "idle" THEN unnoticed ELSE unnoticed \cup {put[w].path}
  /\ put' = [put EXCEPT ![w] = IdlePut]
  /\ UNCHANGED <<disk, held, torn, sentinels, db, watcher, pass, counts>>

PutFinish(w) ==
  /\ put[w].pc = "committed"
  /\ sentinels' = sentinels \ {put[w].id}
  /\ put' = [put EXCEPT ![w] = IdlePut]
  /\ UNCHANGED <<diskVars, db, flag, tx, watcher, selfWrite, pass, counts>>

Put(w) == PutStage(w) \/ PutRename(w) \/ PutRenameFails(w) \/ PutCommit(w)
          \/ PutFails(w) \/ PutFinish(w)

\* the processes of the writers in W die: their transactions are rolled back, their
\* sentinels stay
Die(W) ==
  /\ tx' = IF tx \in W THEN None ELSE tx
  /\ put' = [w \in Writers |-> IF w \in W THEN IdlePut ELSE put[w]]

OutsideCrashes ==
  /\ crashes < MaxCrashes
  /\ \E w \in Writers \ Inside : put[w].pc # "idle"
  /\ Die(Writers \ Inside)
  /\ crashes' = crashes + 1
  /\ UNCHANGED <<diskVars, sentinels, db, flag, watcher, selfWrite, pass, edits, puts, fails>>
-----------------------------------------------------------------------------
(***************************************************************************)
(* The watcher.                                                            *)
(***************************************************************************)

\* (mutant) the entry is looked up by path only
Suppressed_ByPath(p) == selfWrite[p] # None
Suppressed(p) == selfWrite[p] # None /\ selfWrite[p] = disk[p].data

\* (mutant) one more than the channel holds
Room_OneMore == chan <= Capacity
Room == chan < Capacity

\* watch_callback: the event is dropped, queued, or replaced by the flag
WatchEvent(p) ==
  /\ p \in os
  /\ os' = os \ {p}
  /\ \/ /\ Suppressed(p)
        /\ UNCHANGED <<chan, flag, tx>>
     \/ /\ ~Suppressed(p)
        /\ Room
        /\ chan' = chan + 1
        /\ UNCHANGED <<flag, tx>>
     \/ /\ ~Suppressed(p)
        /\ ~Room
        /\ tx = None
        /\ Mark
        /\ UNCHANGED chan
  /\ UNCHANGED <<diskVars, sentinels, db, watch, dirty, selfWrite, pass, put, counts>>

\* five seconds after the write (self_write_dedup_ttl)
SelfWriteExpires(p) ==
  /\ selfWrite[p] # None
  /\ selfWrite' = [selfWrite EXCEPT ![p] = None]
  /\ UNCHANGED <<diskVars, sentinels, db, flag, tx, watcher, pass, put, counts>>

\* mark_watcher_crashed: buffer and channel are gone
WatcherCrashes ==
  /\ crashes < MaxCrashes
  /\ watch = "on"
  /\ pass.pc = "idle"
  /\ watch' = "crashed"
  /\ os' = {}
  /\ chan' = 0
  /\ dirty' = FALSE
  /\ crashes' = crashes + 1
  /\ UNCHANGED <<diskVars, sentinels, db, flag, tx, selfWrite, pass, put, edits, puts, fails>>

\* sync_collection_watchers after the back-off
Rearm ==
  /\ watch = "crashed"
  /\ pass.pc = "idle"
  /\ tx = None
  /\ Mark
  /\ unnoticed' = IF flag' THEN unnoticed ELSE unnoticed \cup Behind
  /\ watch' = "on"
  /\ UNCHANGED <<disk, held, torn, sentinels, db, os, chan, dirty, selfWrite, pass, put, counts>>

\* poll_collection_watcher up to the debounce
PollDrain ==
  /\ watch = "on"
  /\ pass.pc = "idle"
  /\ chan > 0
  /\ chan' = 0
  /\ dirty' = TRUE
  /\ UNCHANGED <<diskVars, sentinels, db, flag, tx, watch, os, selfWrite, pass, put, counts>>
-----------------------------------------------------------------------------
(***************************************************************************)
(* A reconcile pass: walk, diff against file_state, read, apply, clear the *)
(* flag.  The whole tree is walked, whatever the events said.              *)
(***************************************************************************)

Kinds == {"watcher", "overflow", "startup", "audit"}
ByHash == {"overflow", "startup", "audit"}   \* full-hash kinds; "watcher" trusts the stat

StatNow(p) == IF Exists(p) THEN disk[p].stat ELSE 0

\* the walk takes the stat of every file; the audit only of tracked files
Walk(kind, paths, found) ==
  pass' = [IdlePass EXCEPT !.kind = kind, !.pc = "walked", !.found = found,
             !.seen = [p \in Paths |-> IF p \in paths THEN StatNow(p) ELSE 0],
             !.plan = [p \in Paths |-> IF p \in paths THEN "look" ELSE "keep"]]

PollReconcile ==
  /\ watch = "on"
  /\ pass.pc = "idle"
  /\ dirty
  /\ dirty' = FALSE
  /\ Walk("watcher", Paths, {})
  /\ UNCHANGED <<diskVars, sentinels, db, flag, tx, watch, os, chan, selfWrite, put, counts>>

OverflowRecovery ==
  /\ HostUp
  /\ pass.pc = "idle"
  /\ flag
  /\ Walk("overflow", Paths, {})
  /\ UNCHANGED <<diskVars, sentinels, db, flag, tx, watcher, selfWrite, put, counts>>

Audit ==
  /\ HostUp
  /\ pass.pc = "idle"
  /\ fails < MaxFails
  /\ fails' = fails + 1
  /\ \E due \in SUBSET {p \in Paths : row[p] # None} : due # {} /\ Walk("audit", due, {})
  /\ UNCHANGED <<diskVars, sentinels, db, flag, tx, watcher, selfWrite, put,
                 edits, puts, crashes>>

Considered == {p \in Paths : pass.plan[p] = "look"}
\* a tracked file the walk did not meet: an audit only notes it (its RenameResolution is
\* the default one, and build_apply_actions deletes what that one holds)
Missing(p) == IF row[p] = None THEN "keep" ELSE IF pass.kind = "audit" THEN "absent" ELSE "delete"
\* (mutant) a full-hash pass takes a tracked file for unchanged
Action_TrustsRow(p) ==
  IF pass.seen[p] = 0 THEN Missing(p)
  ELSE IF row[p] = None THEN "new" ELSE IF pass.kind \in ByHash THEN "heal" ELSE "modified"
Action(p) ==
  IF pass.seen[p] = 0 THEN Missing(p)
  ELSE IF row[p] = None THEN "new"
  ELSE IF pass.kind \in ByHash
       THEN IF row[p].data = disk[p].data THEN "heal" ELSE "modified"
       ELSE IF row[p].stat = pass.seen[p] THEN "keep" ELSE "modified"

\* detect_duplicate_uuids_in_tree reads every file whose stat is not the one in its row,
\* the full-hash kinds read every file
MustRead(p) == pass.seen[p] # 0 /\ (pass.kind \in ByHash \/ row[p] = None
                                    \/ row[p].stat # pass.seen[p])

\* load_db_files and stat_diff_from_walk, or build_full_hash_plan, which also reads
\* and hashes every file it walked
PassDiff ==
  /\ pass.pc = "walked"
  /\ \A p \in Considered : MustRead(p) => Exists(p)
  /\ pass' = [pass EXCEPT !.pc = "diffed",
                !.plan = [p \in Paths |-> IF p \in Considered THEN Action(p) ELSE "keep"],
                !.got = [p \in Paths |-> disk[p].data]]
  /\ UNCHANGED <<diskVars, sentinels, db, flag, tx, watcher, selfWrite, put, counts>>

Reads == {p \in Paths : pass.plan[p] \in {"modified", "new"}}

\* apply_full_hash_metadata_self_heal writes the stat of the walk beside the hash of
\* the plan; an audit that misses a file raises the flag; build_apply_actions looks the
\* pages up; apply_reingest reads the files
PassRead ==
  /\ pass.pc = "diffed"
  /\ tx = None
  /\ \A p \in Reads : Exists(p)
  /\ row' = [p \in Paths |-> IF pass.plan[p] = "heal" /\ row[p] # None
                             THEN [data |-> pass.got[p], stat |-> pass.seen[p]] ELSE row[p]]
  /\ pass' = [pass EXCEPT !.pc = "read",
                !.plan = [p \in Paths |-> IF @[p] \in {"delete", "modified"} /\ row[p] = None
                                          THEN "keep" ELSE @[p]],
                !.got = [p \in Paths |-> disk[p].data]]
  /\ flag' = (flag \/ \E p \in Paths : pass.plan[p] = "absent")
  /\ UNCHANGED <<diskVars, sentinels, page, late, tx, watcher, selfWrite, put, counts>>

\* (mutant) the stat is taken again when the row is written
StoredStat_Now(p) == disk[p].stat
StoredStat(p) == pass.seen[p]

\* one transaction for the chunk: delete the missing, then write what was read, with
\* the stat of the walk
PassApply ==
  /\ pass.pc = "read"
  /\ tx = None
  /\ page' = [p \in Paths |-> CASE pass.plan[p] = "delete" -> NoPage
                                [] p \in Reads -> [data |-> pass.got[p], ver |-> page[p].ver + 1]
                                [] OTHER -> page[p]]
  /\ row' = [p \in Paths |-> CASE pass.plan[p] = "delete" -> None
                               [] p \in Reads -> [data |-> pass.got[p], stat |-> StoredStat(p)]
                               [] OTHER -> row[p]]
  /\ pass' = [IdlePass EXCEPT !.kind = pass.kind, !.pc = "applied", !.found = pass.found]
  /\ torn' = {p \in torn : pass.seen[p] # disk[p].stat}
  /\ unnoticed' = {p \in unnoticed : pass.kind = "audit" \/ pass.seen[p] # StatNow(p)}
  /\ late' = {p \in late : pass.plan[p] # "delete" /\ p \notin Reads}
  /\ UNCHANGED <<disk, held, sentinels, flag, tx, watcher, selfWrite, put, counts>>

\* (mutant) the flag is cleared after the watcher's passes only
Cleared_ByWatcher == pass.kind = "watcher"
Cleared == pass.kind # "audit"

\* (mutant) the sentinels are listed again when the pass is over
Removed_All == IF pass.kind = "startup" THEN sentinels ELSE {}
Removed == pass.found

\* the UPDATE that clears the flag, in a statement of its own; at the start of a host
\* also the sentinels found before the pass, and then the watcher is armed
PassEnd ==
  /\ pass.pc = "applied"
  /\ tx = None \/ pass.kind = "audit"
  /\ flag' = (flag /\ ~Cleared)
  /\ sentinels' = sentinels \ Removed
  /\ watch' = IF pass.kind = "startup" THEN "on" ELSE watch
  /\ pass' = IdlePass
  /\ UNCHANGED <<diskVars, db, tx, os, chan, dirty, selfWrite, put, counts>>

\* an error: a file that was walked or planned is gone, or SQLite or I/O fails.  Nothing
\* of the chunk is applied, flag and sentinels stay; what the watcher's buffer held is lost.
Vanished == \/ pass.pc = "walked" /\ \E p \in Considered : pass.seen[p] # 0 /\ ~Exists(p)
            \/ pass.pc = "diffed" /\ \E p \in Reads : ~Exists(p)
PassFails ==
  /\ pass.pc # "idle"
  /\ \/ Vanished /\ UNCHANGED fails
     \/ "pass" \in Faults /\ fails < MaxFails /\ fails' = fails + 1
  /\ pass' = IdlePass
  /\ unnoticed' = IF pass.kind = "watcher" THEN unnoticed \cup Behind ELSE unnoticed
  /\ watch' = IF pass.kind = "startup" THEN "on" ELSE watch
  /\ UNCHANGED <<disk, held, torn, sentinels, db, flag, tx, os, chan, dirty, selfWrite, put,
                 edits, puts, crashes>>

Pass == PassDiff \/ PassRead \/ PassApply \/ PassEnd \/ PassFails
-----------------------------------------------------------------------------
(***************************************************************************)
(* The host.                                                               *)
(***************************************************************************)

\* run_startup_sequence: sentinels are listed and answered by a full-hash pass; then
\* the watchers are armed, without a walk
Start ==
  /\ watch = "down"
  /\ pass.pc = "idle"
  /\ IF sentinels = {}
     THEN watch' = "on" /\ UNCHANGED <<flag, pass>>
     ELSE /\ tx = None
          /\ watch' = "starting"
          /\ flag' = TRUE
          /\ Walk("startup", Paths, sentinels)
  /\ UNCHANGED <<diskVars, sentinels, db, tx, os, chan, dirty, selfWrite, put, counts>>

HostCrashes ==
  /\ crashes < MaxCrashes
  /\ watch # "down"
  /\ watch' = "down"
  /\ os' = {}
  /\ chan' = 0
  /\ dirty' = FALSE
  /\ selfWrite' = [p \in Paths |-> None]
  /\ pass' = IdlePass
  /\ Die(Inside)
  /\ unnoticed' = unnoticed \cup (Behind \ torn)
  /\ crashes' = crashes + 1
  /\ UNCHANGED <<disk, held, torn, sentinels, db, flag, edits, puts, fails>>
-----------------------------------------------------------------------------
Init ==
  /\ disk = [p \in Paths |-> [data |-> None, stat |-> 0]]
  /\ held = [p \in Paths |-> {None}]
  /\ torn = {}
  /\ unnoticed = {}
  /\ late = {}
  /\ sentinels = {}
  /\ page = [p \in Paths |-> NoPage]
  /\ row = [p \in Paths |-> None]
  /\ flag = FALSE
  /\ tx = None
  /\ watch = "on"
  /\ os = {}
  /\ chan = 0
  /\ dirty = FALSE
  /\ selfWrite = [p \in Paths |-> None]
  /\ pass = IdlePass
  /\ put = [w \in Writers |-> IdlePut]
  /\ edits = 0 /\ puts = 0 /\ crashes = 0 /\ fails = 0

Next ==
  \/ \E p \in Paths, d \in Data \cup {None} : ExternalEdit(p, d)
  \/ \E w \in Writers, p \in Paths, d \in Data : PutCheck(w, p, d)
  \/ \E w \in Writers : Put(w)
  \/ \E p \in Paths : WatchEvent(p) \/ SelfWriteExpires(p)
  \/ OutsideCrashes \/ WatcherCrashes \/ Rearm \/ PollDrain
  \/ PollReconcile \/ OverflowRecovery \/ Audit \/ Pass
  \/ Start \/ HostCrashes

Spec == Init /\ [][Next]_vars

\* what a host that runs gets done: its callbacks, its loop, its writers
Fairness ==
  /\ \A p \in Paths : WF_vars(WatchEvent(p))
  /\ WF_vars(Rearm) /\ WF_vars(PollDrain) /\ WF_vars(Pass) /\ WF_vars(Start)
  /\ SF_vars(PollReconcile) /\ SF_vars(OverflowRecovery)
  /\ \A w \in Writers : SF_vars(PutStage(w)) /\ WF_vars(PutRename(w) \/ PutRenameFails(w))
                        /\ WF_vars(PutCommit(w) \/ PutFails(w)) /\ WF_vars(PutFinish(w))
FairSpec == Spec /\ Fairness
-----------------------------------------------------------------------------
TypeOK ==
  /\ disk \in [Paths -> [data : Data \cup {None}, stat : Nat]]
  /\ held \in [Paths -> SUBSET (Data \cup {None})]
  /\ {torn, unnoticed, late} \subseteq SUBSET Paths
  /\ sentinels \subseteq Nat
  /\ page \in [Paths -> [data : Data \cup {None}, ver : Nat]]
  /\ row \in [Paths -> [data : Data \cup {None}, stat : Nat] \cup {None}]
  /\ flag \in BOOLEAN
  /\ tx \in Writers \cup {None}
  /\ watch \in {"down", "starting", "on", "crashed"}
  /\ os \subseteq Paths
  /\ chan \in 0 .. Capacity
  /\ dirty \in BOOLEAN
  /\ selfWrite \in [Paths -> Data \cup {None}]
  /\ pass \in [kind : Kinds \cup {"none"}, pc : {"idle", "walked", "diffed", "read", "applied"},
               seen : [Paths -> Nat],
               plan : [Paths -> {"look", "keep", "absent", "delete", "new", "heal", "modified"}],
               got : [Paths -> Data \cup {None}], found : SUBSET Nat]
  /\ put \in [Writers -> [pc : {"idle", "checked", "staged", "renamed", "committed"},
                          id : Nat, path : Paths \cup {None}, data : Data \cup {None}, ver : Nat,
                          stat : Nat]]
  /\ {edits, puts, crashes, fails} \subseteq Nat

\* A file whose stat is the stored one has the stored content, whatever was written
\* while passes and puts were under way: the walk may skip it without reading it
\* (file_state::stat_differs, FastPath of the precondition).
StatIsTrusted ==
  \A p \in Paths : row[p] # None /\ Exists(p) /\ row[p].stat = disk[p].stat
                     => row[p].data = disk[p].data

\* "DB state never leads disk state": the index holds nothing that was not in the file
\* before, at whichever step a put or a pass is cut off.
DbNeverLeads == \A p \in Paths : page[p].data \in held[p]

\* Once nobody writes any more, the index comes to agree with every file, except those
\* whose last change nobody was told of: made while no watcher was armed, or in a buffer
\* that a crash or a failed pass emptied, or behind a flag that could not be raised, or
\* (a put) committed while a pass was under way that had walked before.
Follows == <>[](\A p \in Paths : p \in Behind => p \in unnoticed \cup late)

\* Writes are not refused for ever: the flag that closes write admission is answered.
WritesReopen == []<>~flag

\* The hash the next full-hash pass compares with is that of the text in the index,
\* whatever passes and puts run at the same time, but where a put committed between the
\* plan of such a pass and its self-heal (which writes the hash of the plan).
RowIsOfPage == \A p \in Paths \ late : row[p] # None => row[p].data = page[p].data

\* A file that a put renamed but did not commit, because its process died or a step
\* failed, is named by a sentinel until a pass has read it: the next host starts with
\* a full-hash pass, and removes no sentinel of a write it has not seen.
RenameIsCovered == torn # {} => sentinels # {}

\* Of two writers that started from one version of a page, in one process or in two,
\* at most one commits; nor does a put that was overtaken by a pass.
BaseIsCurrent ==
  [][\A w \in Writers : put[w].pc = "renamed" /\ put'[w].pc = "committed"
                          => page[put[w].path].ver = put[w].ver]_vars

\* A pass removes no page whose file holds what the page says.
PutIsKept ==
  [][\A p \in Paths : page[p] # NoPage /\ page'[p] = NoPage
                        => disk[p].data # page[p].data]_vars
=============================================================================
