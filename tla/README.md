# Quaid in TLA+

Quaid keeps Markdown vaults and conversation logs on disk and indexes them in
one SQLite file that any number of processes open at once: a daemon, servers
for agents, and short commands of the operator. There is no coordinator but the
rows of that file. These specifications are about what happens between those
processes, and between them and the other programs that write into a vault.

## The system

| component | state | operations | how it meets the others | module |
|---|---|---|---|---|
| restore, remap, finalize (`core/vault_sync/{mod,restore,remap,ownership,session}.rs`) | row of `collections`, `collection_owners`, `serve_sessions`, supervisor handles in each runtime's memory, the restored directory | supervisor tick, handshake, stage, rename, finalize, attach, switch of the root, the resets | commands and runtimes share nothing but the row; the directory is shared with every program on the machine | VaultRestore |
| watcher, reconciler, write admission (`reconciler.rs`, `watcher.rs`, `precondition.rs`, `recovery.rs`, `write_lock.rs`) | `file_state`, watcher channel and buffer, `needs_full_sync`, the host's own writes | events, full, full-hash and audit passes, recovery at start | `needs_full_sync` is how they speak to the restore protocol | VaultIndex, PageIdentity |
| page write path (`commands/put.rs`) | sentinel, temporary file, page row, `file_state` row | check, stage, rename, commit, finish | leaves `needs_full_sync` when the commit fails | VaultIndex |
| identity of pages, quarantine (`reconciler.rs`, `page_uuid.rs`, `quarantine.rs`) | pages, their uuids and raw imports, exports | duplicates, renames, reingest, delete or quarantine, export, discard, restore, sweep | called by passes and by the operator | PageIdentity |
| embedding jobs (`vault_sync/embedding.rs`, `raw_imports.rs`) | rows of `embedding_jobs` | enqueue, claim, finish, retry, reset at start | every write of a page leaves a job | EmbeddingQueue |
| facts and supersede chains (`conversation/supersede.rs`, `supersede.rs`, `file_edit.rs`, `check.rs`) | files of facts, pages, their links | resolve, write, link in a pass, put, resolve by hand | extraction writes files; passes make them pages | Facts |
| correction sessions (`conversation/correction.rs`) | rows of `correction_sessions` | start, continue, the model's answer, commit, expire | commits into the chain of a fact | Facts |
| extraction queue (`conversation/queue.rs`, `janitor.rs`) | rows of `extraction_queue` | enqueue, forced enqueue, dequeue with recovery of leases, mark done or failed, purge | filled by turn capture and `quaid extract`, emptied by one worker per runtime | ExtractionQueue |
| turn capture and idle close (`turn_writer.rs`, `idle_close.rs`, `mcp/tools/conversation.rs`, `commands/extract.rs`) | day-files, row of `conversation_sessions`, session lock (mutex and flock), idle trackers of each process | add a turn, close, scan for idle sessions, forced reset | day-files are read by the worker without the lock | Conversation |
| extraction worker (`extractor.rs`) | the job in hand and its windows | claim, read, infer and write per window, move the cursor, finish | writes the cursor into the day-file | Conversation |
| model cache (`conversation/model_lifecycle.rs`, `commands/model.rs`) | a cache directory with its manifest, temporary directories | check, upgrade the manifest, remove, scavenge, download, promote, clean | no lock at all: processes meet in the file system | ModelCache |
| search, graph, assertions, entities, formats, schema, CLI, HTTP | rows, files | queries and sequential updates | - | - |

What is hard in it: every statement runs on a connection of its own, so each
pair of a check and a write has a gap (`restore.rs:730`, `mod.rs:2142-2154`);
work of many seconds sits between a reading and the write that rests on it
(finalize, attach, a pass, inference, a download); processes die anywhere and
what they held has to be taken over; time-outs race with slow owners; a file and
a row are written one after the other; caches and timers live in the memory of
one of several processes. `PROJECT.json` lists each hazard with its line and the
properties that are about it.

What makes each component correct, in a sentence: *restore* - a vault is served
only from a directory that was verified, closed while it is moved, and always
attached again; *index* - it never leads the files, and comes to agree with
them; *writes* - no put overwrites what it has not seen, and a torn one is known
to the next start; *identity* - a page goes wherever its `quaid_id` goes, and
what only the database has is not thrown away; *queues* - no job is lost and
nobody does the job of another; *facts* - every chain has a head, and what was
retired stays so; *capture* - a session is one numbered log; *worker* - every
turn is sent to the extractor and none is skipped; *model cache* - what is in
the cache is whole, and no download is taken from under its owner.

## Modules

```
VaultRestore   <- MCVaultRestore            ExtractionQueue <- Conversation <- MCConversation
               <- VaultRestore_proofs                          |            <- Conversation_proofs
VaultIndex     <- MCVaultIndex                                 | INSTANCE
               <- VaultIndex_proofs                           SessionLog (abstract)
PageIdentity   <- MCPageIdentity            EmbeddingQueue  <- MCEmbeddingQueue
               <- PageIdentity_proofs                       <- EmbeddingQueue_proofs
                    <- PageOrder_proofs     ModelCache      <- MCModelCache
Facts          <- MCFacts                                   <- ModelCache_proofs
               <- Facts_proofs
```

VaultIndex, PageIdentity and Facts look at one pass of the reconciler from three
sides: what may happen in the middle of it, which page a file is, and what the
transaction does with facts. They are not one module because each needs a state
the other two can do without. VaultRestore takes from VaultIndex that writers may
raise `needs_full_sync` late (`LateMarks`).

### VaultRestore

One collection. `col` is its row, with the columns the protocol compares:
`state`, `root` (`root_path`), `sync` (`needs_full_sync`), `gen`
(`reload_generation`), `ackBy` and `ackGen` (`watcher_released_*`), `pending`,
`command`, `beat` (`pending_command_heartbeat_at` as null, fresh or stale),
`lease` (`restore_lease_session_id`), `integrity`, `short`
(`pending_manifest_incomplete_at`, young or past its escalation), `halted`
(`reconcile_halted_at`). `owner` is the lease, `live` the sessions whose
heartbeat is fresh, `rt[r]` a runtime and `cmd[c]` a command. A directory has
the name of the command that restores or remaps to it.

Each UPDATE of the row is an operator (`Marked`, `Staged`, `TxB`, `Reverted`,
`Attached`, `Remapped`, `Reset`). Where a handler reads, works and writes, it is
two actions and what it decided is kept in `plan`: finalize (`RcrtFinalize`,
`RcrtApply`; `FinalizeDecides`, `FinalizeApplies`), attach (`AttachBegins`,
`AttachEnds`), the overflow recovery, the mark and the reading of its generation
(`Mark`, `ReadGeneration`). A tick is `Observe` (the lease and the ack), the RCRT
pass, `SyncHandles` and the recovery, in the order of `run_supervisor_loop`. A
runtime is a daemon or a serve host: a serve host starts only where no session is
live, a daemon also beside a live serve host (`StartDaemon`), whose leases it then
does not get.

`reconciled`, `overtaken` and `astray` are history: the root of the last full pass
to end, the actors under whose full pass the root was switched, and whether the last
such pass to end was one of these, or restore-reset forgave a sync that was owed.

A command walks `checked - marked - waiting - admitted - draining - safe -
staged - renamed - finalizing` (restore), `safe - attach` (remap), and may fail
or be killed at any of them. `MarkDirty`, `BeatLapses`, `ManifestAges`,
`DamageTree` and `RepairTree` are the surroundings.

What was left out or folded: `active_lease_session_id` is kept with the owner
row; the watchers that a tick starts and drops are in VaultIndex (they go
one tick after the ack, which is one source of late marks); a collection is never
detached; a runtime whose heartbeat lapses is dead
(none is stalled); `clear_manifest_incomplete` and `run_tx_b` are one step, and
so are the lease and the state of an offline restore; the overflow recovery runs
in every tick; the file_state cleanup after a remap, which touches no column
here, is not there.

### VaultIndex

The files of one active collection (`disk[p]`: content and a stamp for the stat),
the index (`page[p]`: content and version, `row[p]`: the `file_state` row), the
flag and the sentinels, the host's watcher (`os` - notifications, `chan` - its
channel, `dirty` - its buffer, `selfWrite` - the writes of its own it suppresses)
and the writers. A put is `PutCheck` (admission, mutex, version, precondition),
`PutStage` (transaction and sentinel), `PutRename`, `PutCommit`, `PutFinish`, with
its failure exits, and its process may die between any two. A pass is a walk
(`PollReconcile`, `OverflowRecovery`, `Audit`, `Start`), `PassDiff` (load the rows
and compare), `PassRead`, `PassApply` (one transaction) and `PassEnd` (the flag,
the sentinels, the watcher); files and rows change under each of them. A pass of
more than 256 actions is applied in chunks in the code and in one here; ignore
patterns, the chain of rename detection and the page's identity are left out.

An audit deletes nothing: a tracked file it misses is planned "absent", which raises
the flag, and the pass that answers the flag deletes the page (`Missing`, `PassRead`).

`Faults` names what may fail. Nothing else is excluded: puts and passes run at once,
others edit while no host is up or write the host's own bytes back. `unnoticed` and
`late` are history and name the files for which the code then owes nothing: those whose
last change nobody was told of, or whose announcement was lost, until a pass has read
them; and those a put committed between the plan of a full-hash pass and its self-heal.

### PageIdentity

Paths are numbers in sort order, a file is a content and a `quaid_id`. Other
programs `Save`, `Move`, `Copy` and `Unlink`; a `Pass` is one step, computed on a
record of the tables that is committed or rolled back as the transaction is:
losers among duplicates (`LoserSets`), the three stages that match missing files
to new ones (`ByEvents`, `ByUuid`, `ByHash`: a step per event or missing file, in any
order of the hash sets), then the actions, kind by kind (`Act`, `Apply`). `Put`, `WriteId`, `Annotate`
(state that only the database has), `Export`, `Discard`, `Restore` and `Sweep` are
the calls. Pages too small to be told by their bytes (`Trivial`) make a pass
refuse. A restore from quarantine and a discard are one step each.

### Facts

A slot is a namespace and a slug; the slug of a fact is its content and the number
of its file. `file[s]`, `page[s]` and `row[s]` are the three copies of what a fact
says, and `next` of a page is `superseded_by`. `Extract` is resolution and the
writing of the file for a window (`Resolution`, `Place`); a pass is `PassBegin`,
one `PassDeletes` or `PassIngests` per action (`Due`: what is modified before what is
new, each by path) and `PassEnds`, in a transaction
that fails as a whole; `Chain` is `reconcile_supersede_chain` on a table of pages,
used by passes, puts and corrections. Edits by users (`EditNote`, `EditFact`,
`Unlink`), `Put`, `Resolve` (`quaid check --resolve`) and the correction calls come
in between. Similarity is a relation given as a constant (`Near`, `Like`).
`EditFact` ends in a failed pass, as in the code (finding `edited`), so the body
of `handle_extracted_edit` is not there.

### EmbeddingQueue

A text is the number of the write it came from. `Write` and `Delete` are what
pages do to the queue. `Drain` claims what is ready, up to the threads of the
process (`Batch`): a single job goes to the connection at hand, several to threads
that open the database themselves (`Opens`). `Load`, `Embed` and `Finish` are the
work on one job. Any step of it may fail and be noted for a retry (`Fails`,
`MarkFailed`), or the thread may end with nothing noted (`Leaves`): the open fails, the
note fails as well, or it panics. `Crash` and `Start` are the process, with the reset of
running jobs at start (`Resumed`) that asks nobody whether they are alive. `raced`,
`stolen` and `left` are history: they name the pages and the jobs for which the code
gives no fence.

### ModelCache

A run is one call (`pull`, `load`, `clean`) in one process. A download has a
directory with the name of its run, and `where` says whether that is at a
temporary path, at the cache path or gone; `files` and `manifest` are what is
complete in it. A removal opens a directory, empties it and then removes what has
its path (`Opens`, `RemovesEntry`, `RemovesDir`), as `std::fs::remove_dir_all`
does; a rename replaces an empty directory and no other (`Promotes`). Every run
may crash at any step and leaves what it has. `ripe` is the only sign by which
others know an abandoned download. `doomed`, `damaged`, `late` and `epoch` are
history for the properties. Assumed: damage is seen by the check (in the code a
fast check does not see damage that keeps size and mtime), live downloads beat in
time, and the alias is pinned.

### ExtractionQueue

The rows and what each worker was handed. Times are kept as far as the code
compares them (scheduled later, due now, lease expired). `Dequeue` is the two
statements of `dequeue`: recovery may happen alone, since between the statements
other processes may act. Which due row comes first is left open, which allows
more than the `ORDER BY` does. `holder` is history, and lets
`StaleWorkerCannotFinish` speak of who claimed a row last.

### Conversation and SessionLog

One session of one namespace, over the queue (`EXTENDS`). `file[d]` is a
day-file (ordinals, status, cursor), `cache` the row of `conversation_sessions`,
`lock` the session lock, `call[t]` the call a client or a supervisor is in,
`tracker[h]` the idle tracker of host h for this session, `work[w]` the worker's
windows. `HostOf` says in which process a client runs: in a runtime host, or in
a transport-only server. Steps under the lock that write both the file and the
row are two actions (`AppendTurn`/`AppendCaches`, `CloseSession`/`CloseCaches`),
the job is enqueued in a third outside the lock, and `Partial` names the points
between at which a call may end. The worker reads without the lock
(`PlanWindows`), and takes it for each cursor (`AdvanceCursor`). `dropped` is history:
the days whose tail a step let go (`Owed`, `RanOut`, `TakesOver`, `SetsBack`) since a
job of theirs was queued last.

`SessionLog` is what capture promises: a log numbered 1, 2, 3, ... and closed for
good. `Conversation` implements it, with the day-files joined in order as the log
(`ImplementsSessionLog`), which includes that no number is given twice.

Left out: rewrites of a file are atomic (an unreadable file is `CannotRead`);
dates do not run backwards, though the caller chooses them; extraction is enabled
and a model is there; of facts only `extracted` is kept, the positions that were
sent; a context-only window is an empty window; `quaid extract --all`.

## Runs

| run | instance | what it shows |
|---|---|---|
| `any` | 1 runtime (starts, crashes), 1 command of any kind, 1 hand-driven finalize, 1 dirty mark at any time, damage: 1.7 million states | `AckIsExact`, `RootIsVerified`, `OpenUnlessAstray`, `OriginatorConcludes`, `TypeOK` |
| `attach` | a serve host and a daemon, 1 command of any kind, 1 dirty mark, fair: 168 thousand | `PendingIsClosed`, `OpenMeansReconciled`, `SwitchIsAttached`, `PendingIsConcluded` |
| `capture` | 2 clients in 2 processes, 1 host, 2 day-files, 3 turns, `--force`, calls that die before their job or in a reset: 2.4 million | `ImplementsSessionLog` |
| `extract` | 1 client, 1 host, 2 turns, 1 crash, 2 attempts, calls that die around a close or before their job, fair: 140 thousand | `CursorIsHonest`, `TailIsQueued`, `EveryTurnIsExtracted`, `IdleSessionIsClosed`, `TypeOK` |
| `write` | 1 file, 2 puts (a writer in the host, one in another process), 1 edit by others, a channel of 1, 1 crash, 1 audit or failing pass, every fault: 2.9 million | `StatIsTrusted`, `DbNeverLeads`, `RenameIsCovered`, `RowIsOfPage`, `BaseIsCurrent`, `TypeOK` |
| `follow` | 1 file, 1 put of the host, 2 edits by others, a channel of 1, 1 crash, 1 audit or failing pass, every fault, fair: 548 thousand | `Follows`, `WritesReopen` |
| `pages` | 3 paths, 3 changes by others, 2 calls, contents that can and cannot be told apart: 123 thousand | `OrderIsIrrelevant`, `RowsLeadToLivePages`, `IdentityFollowsUuid`, `FilesAreIndexed`, `DbOnlyStateIsKept` |
| `facts` | 2 facts, a note, 2 extractions, 1 edit, 2 calls, 1 correction, with passes under and between: 486 thousand | `ChainsEndInHeads`, `OnlyEditsWedge`, `RetiredStaysRetired`, `RetryWritesNothing`, `TypeOK` |
| `embed` | 2 pages, one written twice, a serving process with 2 threads and a command with one, 1 crash, 2 attempts, threads that end unnoted, fair: 785 thousand | `NoLostText`, `ClaimIsExclusive`, `JobsSettle`, `TypeOK` |
| `models` | 3 calls of any kind, 2 files, any earlier cache, crashes, 1 damage, symmetric: 557 thousand | `CacheIsWhole`, `LiveIsLeftAlone`, `PullsHeal` |
| `lost` | 2 files, 1 put, 1 edit, passes that overlap | a finding: `PutIsKept` is violated |
| `edited` | 1 fact, extracted, made a page, edited | a finding: `PassesGetThrough` is violated |

Each property has a mutant of a modelled definition (marked `(mutant)` in the
modules) that breaks it under the run's own configuration. The types of PageIdentity and
ModelCache are left to their theorems.

### Bounds

*Restore.* A command moves the row through one protocol and a second one is
enough for every pair of a check and a write; a third adds no new pair. Two
runtimes are enough for a take-over, and for a daemon beside a serve host, which
is as many as can be live at a time. One dirty mark is enough for a flag that is
raised once before or during a protocol.

*Index.* One file is enough for each race of a pass, a put and an edit over one
path, and two contents for telling what was read from what is there; two writers,
one on each side of the process mutex, are every pair the version check knows.
The race of `lost` needs a second file that makes the pass. A channel of one event
overflows at the second. `MaxFails` bounds passes that fail in SQLite or I/O and audits
together: one of them is enough beside two edits, since what it leaves behind is
judged from then on.

*Identity.* Three paths and three changes give a move and a copy beside a third
file, swaps through a third name, and two candidates for one missing file.
*Facts.* Two facts with two extractions and a call are the smallest case in which
two heads, a take-over and a link back can occur; with two namespaces, two windows
or three facts the properties held as well, once `RetryWritesNothing` was said of files
of one namespace only (what five extractions in two namespaces do is told below). *Embeddings.* Two
pages and two threads in one process are the smallest drain that uses threads; a
command drains beside it, one crash lets a job be taken over and finished late,
and with a limit of two attempts it may come to its last in either way. Threads that
end without a note are not bounded. *Cache.* Three calls are a remover, a promoter and one that checks
between them; two files make a partial directory.

*Conversation.* Two day-files are what it takes for a session to change its latest
file, three turns put two on one side, and with windows of two the two turns of
`extract` give one full window, two half windows or a job that began between them.
`MaxRetries` 2 is the smallest at which a row comes back, and `MaxRows` is large
enough there for each job to get a row: `Insert` finds a free one, or the call
waits, which liveness would show. The tail is checked with one client, one runtime
host and no `--force`; the theorem `TailStaysQueued` has the others.

Where a run is smaller than the code, and why, is said with the known limits
below. Deadlock is not checked: commands end, bounds are reached, and nothing has
to happen when nobody calls.

## Where the code keeps less than it says

Two of these are runs that show it (`findings` in `PROJECT.json`); the others were
met while the models were made, with the constants or definitions named here. The
passing runs leave them out, or have them with a history variable that names the case,
and then the property says that there is no other.

*Restore.* With `LateMarks` (dirty marks of writers admitted before the handshake)
`PendingIsClosed` and `OpenMeansReconciled` fail: the flag makes the runtime attach
the collection under the command that was admitted. `PendingIsClosed` also fails
for a remap beside a finalize by hand. With `Damage`, `SwitchIsAttached` fails: a
verdict of an outdated comparison may be written after another actor committed,
and then blocks the attach until the operator resets. An online remap switches the
root of an open collection. A mark that falls between the two places in a tick that
drop a handle is never acknowledged (`AckIsComing` does not hold). A command that
fails or dies after its mark leaves the collection closed with nothing pending
(`ClosedIsReopened`). Two commands that both move the vault may pass the check
together (`OneDestructiveCommand`), and break nearly every property, so the runs, and the
theorems that say so, have one such command beside any number of finalizers. Beside a
restore, a finalize by hand may attach twice, the second on an older reading. So
`OpenMeansReconciled` is checked for one command alone (`attach`), and in general only
`OpenUnlessAstray` holds: of a switch under a full pass that ends afterwards nobody takes
notice (`complete_attach` compares neither the root nor the generation with what it
read), and restore-reset clears `needs_full_sync` without a pass.

*Index.* `lost`: a pass that walked before a put renamed and loaded the rows after
it committed deletes the new page. A put that commits under a pass in general may be
undone by it, and its own event is suppressed. The other ways into `unnoticed`, which
`Follows` excuses until a pass has read the file: an edit while no watcher is armed, since
`run_startup_sequence` (`mod.rs:1324-1337`) arms watchers without a walk, where
`openspec/specs/vault-sync/spec.md:23` wants one, and what a crash of the host empties
with its buffer; an edit that puts the host's own last bytes back, or a put of another
process with these bytes (events are suppressed by content, `mod.rs:976`); a watcher's pass
that fails in SQLite or I/O (the buffer is emptied before it, `mod.rs:1892`, and its error
is only logged); a flag that could not be raised after a failed commit in a host that
stays up (sentinels are read at start), or when a watcher is re-armed; and a flag that
such a commit raises while a pass is under way, since the pass clears it at its end with
the marks raised meanwhile. `late`, which `RowIsOfPage` excuses: the self-heal of a
full-hash pass (`reconciler.rs:1681`) writes the hash of its plan beside a newer page. An
audit deletes nothing itself: it only raises the flag. An edit between
precondition and rename is overwritten.

*Identity.* `PageIdentity!PassesGetThrough` fails: a file with a `quaid_id` is moved
away and a new file saved at its old path before the next pass; the insert then
meets a uuid that is taken, and every pass fails. Other wedges: a file with another
`quaid_id` moved over a tracked one, the slug of a quarantined page, a page others
name in `superseded_by`. A put to a quarantined page leaves it quarantined. What is
added after an export of the same quarantine goes with the page.

*Facts.* `edited`. A correction creates a page without a `file_state` row, and the
next pass fails. Namespaced `supersedes` are not linked by a pass
(`reconciler.rs:3272` passes ""), or are linked to the page of the root that has the
slug: when files of the root and of another namespace wait for the same pass, the other
one's may retire a page of the root that its extraction has just written, and the
extraction, repeated, writes again. `did` therefore remembers an extraction only if no
file of another namespace waited. Two extractions before a pass may leave two heads,
which stay ambiguous. `check --resolve` is not written into the file, so a put
undoes it. A keeper with two predecessors can not be put again. A correction is
committed although its link failed.

*Embeddings.* Several ways leave a job "running" with nobody at it. A drain of two
jobs or more gives them to threads that call `db::open` (`embedding.rs:139`), which asks
for the default model (`db.rs:144`): on a database made for another one it fails, and `?`
leaves the thread before `mark_embedding_job_failed`; so does an open that waits too long
for a lock. A step that fails, the last DELETE (312) too, is noted by
`mark_embedding_job_failed`, whose own failure is returned to a caller that only logs it
(122) or is dropped (146): a database that is locked fails both. A thread that panics is
joined and logged (160). A command that dies leaves its job as well. Such a job stays
"running" until a serving process starts, is then claimed again, and after the last
attempt never. `left` holds these pages from there to the next claim, write or such
start, and `JobsSettle` excuses one only while its row is "running" with nobody at it
(`Stranded`). A page rewritten while its job runs loses the new job to the old
worker's DELETE by id (`raced`); a starting host takes running jobs of a live one
(`stolen`). The specification (`vault-sync/spec.md:676`) counts
three attempts that a retry increments; the code counts claims, five of them.

*Cache.* A check and the removal by path that follows it are two steps: a pull that
found the old cache invalid, or a clean that was confirmed late, may remove the
cache another pull has just promoted. `CacheIsWhole` excuses directories a removal
has opened, and `PullsHeal` says that pulls among themselves end well. A manifest
upgrade truncates before it writes: a reader between takes the cache for broken and
downloads it again; a manifest written into a directory under removal makes the
removal fail (`late`). A download that is suspended for longer than the threshold
may be scavenged. A cache hit returns before the scavenging, and a broad clean does
not see a cache directory without a manifest.

*Conversation.* At the points "appended" and "closing" of `Partial` the day-file is
ahead of the cached row: a turn gets a number twice, or a closed session takes a
turn in a new day-file. A tail of new turns waits for nothing when it is let go
(`dropped`, which `TailIsQueued` excuses until a job of the day is queued again):
the call that wrote its last turn dies before it queues the job ("appended",
"cached"), or a forced extraction does after its resets ("reset"); its row is
finished by a worker that had lost it to another (`StaleWorkerCannotFinish` fails
with two runtime hosts); a cursor is set back behind it by a job of an earlier
reading that ends after another one; or its retries ran out. `IdleSessionIsClosed`
fails when every client is in another process than the host, whose tracker then sees
no turn; `CursorIsHonest` fails with a forced extraction beside a job.

## Fairness

`VaultRestore!FairSpec`: the supervisor thread loops without waiting for anybody
(`WF Tick(r)`) and refreshes its lease every few seconds, so in ticks again and
again (`SF Observes(r, TRUE)`); an installed runtime is started again (`WF
StartRuntime(r)`); a running command goes on, since its only wait is bounded by
`HANDSHAKE_TIMEOUT_SECS` (`WF Works(c)`); heartbeats and manifests grow old with
time. Nothing obliges the operator to do anything, and `AttachHalts`,
`DamageTree` and `RepairTree` are never owed. The liveness properties assume
that in the end some runtime stays up (`SomeRuntimeStays`).

`Conversation!FairSpec`: a call that began goes on, the supervisor scans, the
worker loops, timers run and leases expire. Clients are never obliged to call.
`Worker(w)` as a whole is fair, not its outcomes: a job may fail each time, and
`EveryTurnIsExtracted` says then that its retries ran out. `IdleSessionIsClosed`
excuses a crash, since the tracker is in memory.

`VaultIndex!FairSpec`: notifications are delivered (`WF WatchEvent(p)`), the host
re-arms a crashed watcher, drains its channel, goes on with a pass and is started
again (WF each); the passes of the buffer and of the flag are `SF`, since either may
be kept from beginning by the other and by puts, and the supervisor tries both in
every tick. A put that began goes on; `PutStage` is `SF` because SQLite lets a
waiting writer in between others. Nobody is obliged to edit, put or audit.

`EmbeddingQueue!FairSpec`: a thread goes on with its job, a serving process drains
every two seconds and is started again. `Works(w)` as a whole is fair, not its outcomes:
each step may fail each time, noted or not, and crashes are bounded by `MaxCrashes`.
Commands are not obliged to drain or to run again.

`PageIdentity`, `Facts` and `ModelCache` have safety and action properties only.

## Proofs

All are proved for any values of the constants, from the assumptions the modules
name (`ActorsAreDistinct`, `BoundsAssumption`, `IndexAssumption`,
`EmbeddingAssumption`, `CacheAssumption`, `FactsAssumption`, `QueueAssumption`,
`ConversationAssumption`, `IdentityAssumption`, `NoneAssumption`) and nothing else but what a theorem says it assumes. Each invariant is proved
with a lemma for the operators it rests on, one step per action, and `PTL` at the end.

`VaultRestore_proofs`:

- `TypeCorrect`: `Spec => []TypeOK`. `TypeOK` is not inductive: what an attach
  is working on (`base`) becomes `reconciled`, so `TypeInv` adds that it is a
  root while an attach is under way (`BasesKnown`).
- `HandshakeIsExact`: `Spec => []AckIsExact`, with any number of concurrent
  commands. `AckInv` adds that the ack columns of the row are null or hold a pair
  that was really written (`AckColumnsWritten`), that an online restore never
  attaches by itself (`OnlineNeverAttaches`) and that a waiting command waits for
  a session (`WaitsForASession`).
- `RootAlwaysVerified` and `OnlyTheOriginatorConcludes`, under `OnlyMover(m)`: one
  command m may move the vault and the others only drive finalize. `MoverInv(m)`
  says that what is pending is m's and was staged by it (`OnlyMoverStages`), that
  whoever has decided to commit did so on a directory that was complete
  (`CommitsAreVerified`), and that a decision of anybody but the originator was
  taken when the heartbeat had lapsed, which does not become fresh again while
  that directory is pending (`OthersConcludeLate`). The directory may be damaged
  in between: the theorem says that what is served was verified, not that it has
  stayed so.
- `PendingStaysClosed` under `OnlyMover(m)` and without `LateMarks`: while a restored
  directory is pending, nobody attaches and nobody marks, so the only way out of
  "restoring" is the end of m's protocol.
- `OpenStaysReconciled`: `Spec => []OpenUnlessAstray`, for any commands and runtimes at
  once, late marks and damage. `BasesFollow` says that an actor in a full pass has the root
  of the row as its base, unless the root was switched under it; `IndexFollows` that
  where no sync is owed the last pass was of this root, or went astray. A switch of the
  root owes a sync (`FollowSwitched`), which only a pass that ends or restore-reset clears.

`VaultIndex_proofs`, over an invariant of types (`Types`, `Flags`) that
`IndexTypeCorrect` is about:

- `BaseStaysCurrent`: with `Locked`, a put between its version check and its end
  holds the write lock, and the version it checked is still the page's.
- `IndexNeverLeads`: `History` adds that what the disk, the index and a pass have of a
  file was in the file.
- `StatStaysTrusted`: `Stamps` says of every stamp in a row or a pass that it is not newer
  than the disk's, and that with an equal one the content is the same.
- `RenameStaysCovered`: `Numbers` gives each put under way a number of its own, and a
  sentinel from its rename on that no pass has listed; `Covered` follows the sentinel
  of a torn file through the start, which removes only those it listed before its walk.
- `RowStaysOfPage`: `Spec => []RowIsOfPage`, for puts and passes at the same time in any
  processes. `RowsFollow` says that what a full-hash pass will write beside a stat is
  the hash the row has, except where a put committed since its plan (`late`), and that
  otherwise a row is of its page. Writers outside the host are included.

`PageIdentity_proofs`. A pass is a chain of walks whose number of steps is a constant of
the model; `RunOfSteps` says once that what each step keeps the walk keeps (it goes over
the well-founded order of the numbers, since induction itself is out of reach). Each walk
has a lemma for its step and one for the walk:

- the resolution (`Resolved`): every missing and every new file is matched at most once,
  with the page of its row, and after the walk by uuid no new file that is left has the
  uuid of a file that is still missing (`NoneHasItsUuid`), which the walk by bytes keeps;
- the transaction (`Deleted`, `Renamed`, `Changed`, `Added`, `Concluded`): which rows are
  those of before, which are bound to their file by now, and which pages may be gone.

The inductive invariant is `Sound`: types and `Good(Tables)`, where a row leads to a page
with its path and its raw import (`GoodRow`), the `quaid_id` of an import is that of its
page (`GoodPage`), and uuids are unique. It is needed for all of these:

- `TypeInvariant` and `LiveRows`: a row has a page of its own because the page has the
  path of the row, which every walk has to keep while rows move.
- `DbOnlyStateIsSafe`: a pass deletes only pages in `Gone(r)`, none of them kept.
- `FilesGetIndexed`: a pass that got through has bound every file it did not leave out.
- `IdentityIsFollowed`: of the files with one uuid a pass keeps one (`OneTwinIsLeft`). If its
  page were deleted, it was that of a file still missing after the walk by uuid; but the
  file that is left was tracked, renamed or new, and each of these contradicts that.

These hold for any set of losers, any order of the hash sets and any number of paths.

`PageOrder_proofs` adds that the order does not matter:

- `OrderNeverMatters`. What a walk has come to after some paths is a function of the *set* of
  these paths (`Done`), and the step for one path more takes the function at a set to that at
  the set with the path: `AfterUuids` and `AfterBytes` for the resolution, `IsDropped` and
  `IsFreed` for the transaction. Each needs that the paths do not interfere: pages have each
  its own uuid, so that no two missing files have a candidate by uuid in common
  (`HavingIsOwn`); of missing files with the same bytes none is matched, as long as they are
  counted as they were before the walk (`Pairs`; the mutant counts them as they are left);
  and a row leads to a page of its own, so that freeing one path does not decide whether the
  page of another is quarantined. The walk by bytes may be ended by a page that is too small
  at any point: then the results differ, but the verdict is the same (`Come`), and nothing is
  committed.

`EmbeddingQueue_proofs`:

- `QueueTypeCorrect`, `ClaimsAreExclusive`, `TextIsNeverLost`. `IdsAreOfPages` says
  that an id belongs to one page for ever; `ClaimIsHeld` that the job of a worker is
  in its table, running, and the worker alone at it; `WorkIsFresh` that a worker that has
  read, on a page that was not written since, has its present text, so that the job it
  deletes was done. `Draining` says what a batch does to rows and threads.

`ModelCache_proofs`, over `CacheInv`:

- `CacheTypeCorrect`, `PromotedIsWhole`, `DownloadsAreLeftAlone`. `Placed` says in
  which state a run's directory can be where, `Kinds` what each kind of call may be
  doing, `Aimed` that nobody means to remove, removes or upgrades the directory of a
  download that lives, `Sealed` that what is promoted is complete.

`Facts_proofs`, over tables of pages rather than actions: a table is good when it is
typed, what supersedes a page is a page, and no pages supersede each other in a
circle. Writing a page, deleting one that supersedes nobody, undoing a link and
making one to the writer of a free page keep it good, and every action is some of
these on the table or on the one of the pass (`Sound`).

- `Typed`, `ChainsEnd`. A new link closes no circle because its writer is a head when it is
  made: `Chain` unlinks first, and links only to what is a head or is already the writer's.
- `RetiredStays`. `Kept` says what a pass under way may rely on: files it has not come to
  are as they were when it began, and who was retired then is so in its table as well.
- `OnlyEdits`. `Untouched` follows the rows and files: until something is touched no file of
  a row is gone, every fact that is a page is what its file says, and so a pass has nothing to
  delete and no fact to ingest that is a page already.
- `RetriesAreHarmless`: `Spec => RetryWritesNothing`. `Remembered` says what a repeated
  extraction finds: its file waits at its first place (`Waiting`), so the place is taken by
  what it would write again, or every file has been seen and its page is a head
  (`Taken`), so the fact is dropped or ambiguous. Between the two the pass must not retire
  that page: no file that waits names it (`Names`), since what such files supersede are
  pages already (`Sourced`) and its own was none when it was written; and when the pass ends every
  file has its row (`Listed`).

`SlotsAreFinite` and `FirstExists` give the pages that name one successor, and the files
that are due, a first one; nothing else rests on the bounds of slots.

`Conversation_proofs`, over lemmas about the statements of the queue (`Queued`,
`Claiming`, `Ending`, `Passing`) and about windows (`Chunking`: every new turn falls into
one, in order; a window is a set of positions, numbered by division):

- `ConversationTypeCorrect`. The cursor is typed because windows are turns of the day-file of
  the job (`WorkInside`), the number of the next turn because without a cached row there is
  no day-file (`FilesCached`).
- `CursorStaysHonest`, for any number of workers, without `--force` and if no call ends at
  "appended". `LogInv` (ordinals of a day-file increase, none is above what the cached row
  or the call that has the lock knows) makes a new turn greater than every cursor;
  `WindowsHonest` says that a turn before one of a window was sent, or is in it or in one
  before it.
- `TailStaysQueued`: `Spec => []TailIsQueued`, for any number of workers and hosts, with
  crashes, retries, `--force` and calls that die anywhere. `TailKept` follows each new turn: some row of its
  day covers it (`Covers`), or a call owes the day a job, or the day is in `dropped`. A row
  covers a turn while it waits, and while it runs and whoever holds it has yet to read the
  day-file or has the turn in a window (`Has`). `Held` says that a running row is the
  one its holder was handed, and `SortInv` that ordinals increase, so that a cursor moved
  to the end of a window leaves no new turn before it.

- `SessionIsOneLog`: `Spec => ImplementsSessionLog`, any number of workers, with `--force`,
  if no call ends at "appended" or "closing". A step of the conversation appends to the log
  (`AppendTurn`), closes it (`CloseSession`) or leaves it (`StepLogs`). `Numbered` says
  that each day-file goes on counting where the ones before it end, so that the concatenation of
  the day-files is 1, 2, ..., up to the last number given. It is a recursive function, but of the days
  only: the definition is met by a function (the counted logs), hence by `Concatenated`, and
  a least day at which they differ would be one at which they agree (`ConcatenatedIs`). `ClosedKnown`
  says that the cached row knows of a closed session, or the call that is about to tell it has the
  lock: so a turn never goes to a closed day-file nor to one before it.

Where a theorem has hypotheses they are needed: the section above names what happens
without them. `OpenStaysReconciled`, `RowStaysOfPage` and `TailStaysQueued` have none: the
history variables in their properties name the steps the code itself does not fence, and
the theorems say that no other step breaks the property.

Model-checked only: all liveness (`PendingIsConcluded`, `SwitchIsAttached`,
`EveryTurnIsExtracted`, `IdleSessionIsClosed`, `Follows`, `WritesReopen`,
`JobsSettle`), which the prover does not reach, and `PullsHeal`.

## Not modelled

- *Assertions, links, graph, entities, gaps, namespaces, novelty*: sequential reads
  and writes of rows inside one call, and extraction of text by patterns. No second
  actor meets them in the middle.
- *Search and ranking*: read-only queries and scores, numeric.
- *Database, schema and migration*: sequential set-up of one process; the columns the
  components use are their variables.
- *Inference, embeddings, the caches of embedding models*: numeric, or a second copy
  of the download in another layout; inference is a step that succeeds or fails.
- *Formats*: parsing and rendering; turns, facts and files are values.
- *MCP server, HTTP, CLI*: arguments and dispatch. Which process hosts a runtime
  enters Conversation, and the guards of the collection commands VaultRestore.
- Inside modelled components: detached collections, ignore patterns, symlinks, raw
  import retention, slugs set in frontmatter, the two-phase stability check of a
  restore, history sidecars, the IPC proxy of `put`, unpinned models.
