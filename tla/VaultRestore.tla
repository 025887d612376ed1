---------------------------- MODULE VaultRestore ----------------------------
(***************************************************************************)
(* The restore and remap protocol of core/vault_sync for one collection:   *)
(* the `collections` row, the owner lease, the runtime hosts that tick in  *)
(* run_supervisor_loop, and the commands `collection restore`,             *)
(* `collection sync --remap-root`, `collection sync --finalize-pending`,   *)
(* `collection restore-reset` and `collection reconcile-reset`.            *)
(*                                                                         *)
(* An UPDATE of the row is one operator (Marked, Staged, TxB, ...).  A     *)
(* handler that reads the row, works for a while and then writes is split  *)
(* at that point, since every statement runs on its own connection outside *)
(* a transaction: the decision it took is kept in the actor's `plan`.      *)
(***************************************************************************)
EXTENDS Naturals, FiniteSets

CONSTANTS
  Runtimes,   \* sessions of type daemon or serve_host: those that run a supervisor
  Daemons,    \* ... of them, the daemons; the others are promoted serve_hosts
  Commands,   \* invocations of the operator's commands; command c names directory c
  Home,       \* the directory the collection is attached to at the start
  None,       \* SQL NULL, or an absent map entry
  Jobs,       \* Jobs[c]: what command c may be asked to do
  MaxMarks,   \* bound: how often other code raises needs_full_sync
  LateMarks,  \* may a writer admitted before the handshake still raise it after?
  Damage      \* may a restored directory lose or change files before finalize?

AllJobs == {"restoreOnline", "restoreOffline", "remapOnline", "remapOffline", "finalize"}
Roots == Commands \cup {Home}
Sessions == Runtimes \cup Commands

ASSUME ActorsAreDistinct ==
  /\ Daemons \subseteq Runtimes
  /\ Runtimes \cap Commands = {}
  /\ Home \notin Sessions
  /\ None \notin Sessions \cup {Home} \cup AllJobs
ASSUME BoundsAssumption ==
  /\ Jobs \in [Commands -> SUBSET AllJobs]
  /\ MaxMarks \in Nat
  /\ LateMarks \in BOOLEAN
  /\ Damage \in BOOLEAN

VARIABLES
  col,         \* the row of `collections`
  owner,       \* collection_owners.session_id = collections.active_lease_session_id
  live,        \* runtimes whose serve_sessions.heartbeat_at is fresh
  rt,          \* rt[r]: in-process state of runtime r
  cmd,         \* cmd[c]: progress of command c
  tree,        \* tree[c]: what directory c holds
  marks,       \* how many marks were made
  \* history, read by no action:
  acks,        \* (session, generation) pairs acknowledged so far
  verified,    \* directories some manifest or remap verification accepted
  reconciled,  \* directory the index was last fully reconciled against
  overtaken,   \* actors under whose full pass the root was switched
  astray       \* was the last full pass to end overtaken, or an owed one forgiven?

passes == <<reconciled, overtaken, astray>>
history == <<acks, verified, passes>>
vars == <<col, owner, live, rt, cmd, tree, marks, history>>

Plans == {"none", "blocked", "deferred", "orphan", "nothing", "abort",
          "commit", "stamp", "fail"}

RuntimeStates == {"new", "rcrt", "finalizing", "attach", "attaching", "handles",
                  "load", "observe", "recover", "recovering", "down"}
CommandStates == {"idle", "checked", "marked", "waiting", "admitted", "draining",
                  "safe", "staged", "renamed", "finalizing", "attach",
                  "attaching", "done", "failed"}

Rows ==
  [state : {"active", "restoring"}, root : Roots, sync : BOOLEAN, gen : Nat,
   ackBy : Runtimes \cup {None}, ackGen : Nat \cup {None},
   pending : Commands \cup {None}, command : Commands \cup {None},
   beat : {"null", "fresh", "stale"}, lease : Sessions \cup {None},
   integrity : BOOLEAN, short : {"no", "young", "old"}, halted : BOOLEAN]

RuntimeRecords ==
  [pc : RuntimeStates, handle : Nat \cup {None}, last : Nat \cup {None},
   plan : Plans, base : Roots \cup {None}]

CommandRecords ==
  [pc : CommandStates, job : AllJobs \cup {None}, gen : Nat,
   host : Sessions \cup {None}, plan : Plans, base : Roots \cup {None}]

TypeOK ==
  /\ col \in Rows
  /\ owner \in Sessions \cup {None}
  /\ live \in SUBSET Runtimes
  /\ rt \in [Runtimes -> RuntimeRecords]
  /\ cmd \in [Commands -> CommandRecords]
  /\ tree \in [Commands -> {"absent", "complete", "short", "altered"}]
  /\ marks \in Nat
  /\ acks \in SUBSET (Runtimes \X Nat)
  /\ verified \in SUBSET Roots
  /\ reconciled \in Roots
  /\ overtaken \in SUBSET Sessions
  /\ astray \in BOOLEAN

-----------------------------------------------------------------------------
(* The statements that write the row. *)

\* mark_collection_restoring_for_handshake
Marked(c) == [c EXCEPT !.state = "restoring", !.gen = @ + 1,
                       !.ackBy = None, !.ackGen = None, !.beat = "fresh"]

\* stage_pending: command k announces its directory and its identity; the
\* online branch also rewrites restore_lease_session_id
Staged(c, k, lease) == [c EXCEPT !.pending = k, !.command = k, !.beat = "fresh",
                                 !.lease = lease]

\* (mutant) run_tx_b without its early return when nothing is pending
TxB_NothingPending(c) ==
  [c EXCEPT !.integrity = FALSE, !.short = "no", !.root = c.pending,
            !.state = "restoring", !.sync = TRUE, !.gen = @ + 1, !.ackBy = None,
            !.ackGen = None, !.beat = "null", !.pending = None, !.command = None]

\* (mutant) run_tx_b does not raise needs_full_sync
TxB_OwesNothing(c) ==
  IF c.pending = None THEN [c EXCEPT !.integrity = FALSE, !.short = "no"]
  ELSE [c EXCEPT !.integrity = FALSE, !.short = "no", !.root = c.pending,
                 !.state = "restoring", !.gen = @ + 1, !.ackBy = None, !.ackGen = None,
                 !.beat = "null", !.pending = None, !.command = None]

\* clear_manifest_incomplete, then run_tx_b, which re-reads pending_root_path
TxB(c) ==
  LET cleared == [c EXCEPT !.integrity = FALSE, !.short = "no"]
  IN  IF c.pending = None THEN cleared
      ELSE [cleared EXCEPT !.root = c.pending, !.state = "restoring", !.sync = TRUE,
                           !.gen = @ + 1, !.ackBy = None, !.ackGen = None,
                           !.beat = "null", !.pending = None, !.command = None]

\* revert_orphan_restore_state and revert_aborted_restore (root_path is not '')
Reverted(c) == [c EXCEPT !.state = "active", !.pending = None, !.beat = "null",
                         !.command = None, !.ackBy = None, !.ackGen = None]

\* the last UPDATE of complete_attach, with its WHERE clause
Attached(c) == IF c.sync
               THEN [c EXCEPT !.state = "active", !.sync = FALSE, !.gen = @ + 1]
               ELSE c

\* the root switch of remap_collection, online and offline
Remapped(c, k, online) ==
  IF online
  THEN [c EXCEPT !.root = k, !.state = "restoring", !.sync = TRUE, !.gen = @ + 1,
                 !.ackBy = None, !.ackGen = None, !.beat = "null"]
  ELSE [c EXCEPT !.root = k, !.state = "restoring", !.sync = TRUE, !.lease = None]

\* restore_reset
Reset(c) == [c EXCEPT !.state = "active", !.pending = None, !.command = None,
                      !.lease = None, !.beat = "null", !.ackBy = None,
                      !.ackGen = None, !.integrity = FALSE, !.short = "no",
                      !.sync = FALSE]

-----------------------------------------------------------------------------
(* finalize_pending_restore: the verdict, reached on one reading of the row *)
(* and of the directory, and the statement that carries it out later.      *)

\* (mutant) the comparison only looks for missing files
Compared_IgnoresContent(c) ==
  CASE tree[c] = "absent" -> "abort"
    [] tree[c] = "short"  -> IF col.short = "old" THEN "fail" ELSE "stamp"
    [] OTHER              -> "commit"

\* what the manifest comparison says of directory c
Compared(c) ==
  CASE tree[c] = "absent"   -> "abort"
    [] tree[c] = "complete" -> "commit"
    [] tree[c] = "altered"  -> "fail"
    [] tree[c] = "short"    -> IF col.short = "old" THEN "fail" ELSE "stamp"

Concluded ==
  IF col.pending # None THEN Compared(col.pending)
  ELSE IF col.state = "restoring" THEN "orphan" ELSE "nothing"

\* (mutant) a runtime does not look at the heartbeat of the originator
Verdict_NeverDefers(isOriginator) ==
  IF col.integrity THEN "blocked" ELSE Concluded

\* (mutant) any heartbeat defers, however old
Verdict_AlwaysDefers(isOriginator) ==
  IF col.integrity THEN "blocked"
  ELSE IF ~isOriginator /\ col.beat # "null" THEN "deferred" ELSE Concluded

Verdict(isOriginator) ==
  IF col.integrity THEN "blocked"
  ELSE IF ~isOriginator /\ col.beat = "fresh" THEN "deferred" ELSE Concluded

Finalized(c, plan) ==
  CASE plan \in {"orphan", "abort"} -> Reverted(c)
    [] plan = "commit" -> TxB(c)
    [] plan = "stamp"  -> [c EXCEPT !.short = IF @ = "no" THEN "young" ELSE @]
    [] plan = "fail"   -> [c EXCEPT !.integrity = TRUE]
    [] OTHER -> c

\* history: the directories found complete when a verdict accepted them
VerifiedBy(plan) ==
  verified \cup {c \in Commands : plan = "commit" /\ c = col.pending /\ tree[c] = "complete"}

\* live_collection_owner: a lease held by a command's cli session is invisible
LiveOwner == IF owner \in live THEN owner ELSE None

\* (mutant) is_collection_dirty does not see needs_full_sync
Clean_Always == TRUE

\* is_collection_dirty: of what it reads, the needs_full_sync column
Clean == ~col.sync

\* what complete_attach refuses before its full-hash pass
MayAttach(session) == ~col.halted /\ col.sync /\ owner = session

-----------------------------------------------------------------------------
Idle == [pc |-> "idle", job |-> None, gen |-> 0, host |-> None,
         plan |-> "none", base |-> None]
NotStarted == [pc |-> "new", handle |-> None, last |-> None, plan |-> "none",
               base |-> None]

Init ==
  /\ col = [state |-> "active", root |-> Home, sync |-> FALSE, gen |-> 0,
            ackBy |-> None, ackGen |-> None, pending |-> None, command |-> None,
            beat |-> "null", lease |-> None, integrity |-> FALSE,
            short |-> "no", halted |-> FALSE]
  /\ owner = None
  /\ live = {}
  /\ rt = [r \in Runtimes |-> NotStarted]
  /\ cmd = [c \in Commands |-> Idle]
  /\ tree = [c \in Commands |-> "absent"]
  /\ marks = 0
  /\ acks = {}
  /\ verified = {Home}
  /\ reconciled = Home
  /\ overtaken = {}
  /\ astray = FALSE

\* the actors in the middle of a full pass
Reconciling == {r \in Runtimes : rt[r].base # None} \cup {c \in Commands : cmd[c].base # None}

\* history of the full passes: session s begins one, ends the one that read `base`, and
\* the root is switched under those that run
PassBegins(s) == /\ overtaken' = overtaken \ {s}
                 /\ UNCHANGED <<reconciled, astray>>
PassEnds(s, base) == /\ reconciled' = base
                     /\ astray' = (s \in overtaken)
                     /\ overtaken' = overtaken \ {s}
RootSwitched == /\ overtaken' = IF col'.root = col.root THEN overtaken
                                ELSE overtaken \cup Reconciling
                /\ UNCHANGED <<reconciled, astray>>

-----------------------------------------------------------------------------
(* The runtime host. *)

Up(r) == rt[r].pc \notin {"new", "down"}
Goto(r, pc) == rt' = [rt EXCEPT ![r].pc = pc]

\* acquire_owner_lease: refused, without more ado, while another owner lives
Acquires(r) == IF LiveOwner \in {None, r} THEN r ELSE owner

\* try_promote_to_serve_host, then start_full_runtime and run_startup_sequence up
\* to claim_owned_collections; run_rcrt_pass and sync_supervisor_handles follow
StartServeHost(r) ==
  /\ rt[r].pc = "new"
  /\ r \notin Daemons
  /\ live = {}
  /\ live' = {r}
  /\ owner' = r
  /\ Goto(r, "rcrt")
  /\ UNCHANGED <<col, cmd, tree, marks, history>>

\* try_claim_daemon_session looks for live daemons only, so that a daemon may
\* start beside a serve_host; the rows of a daemon known to be dead are deleted
StartDaemon(r) ==
  LET reaped == live \cap Daemons IN
  /\ rt[r].pc = "new"
  /\ r \in Daemons
  /\ \A d \in reaped : rt[d].pc = "down"
  /\ live' = (live \ reaped) \cup {r}
  /\ owner' = IF owner \in live \ reaped THEN owner ELSE r
  /\ col' = [col EXCEPT !.lease = IF @ \in reaped THEN None ELSE @]
  /\ Goto(r, "rcrt")
  /\ UNCHANGED <<cmd, tree, marks, history>>

StartRuntime(r) == StartServeHost(r) \/ StartDaemon(r)

\* load_initial_generations, before the first tick
LoadGenerations(r) ==
  /\ rt[r].pc = "load"
  /\ rt' = [rt EXCEPT ![r].pc = "observe", ![r].last = col.gen]
  /\ UNCHANGED <<col, owner, live, cmd, tree, marks, history>>

\* the reload_generation block of the tick, which refreshes the lease every
\* HEARTBEAT_INTERVAL_SECS: write_supervisor_ack_if_needed for a generation newer
\* than the last one seen, if a handle of an older generation is registered; the
\* handle goes whether or not the ack was written
Observes(r, refresh) ==
  /\ rt[r].pc = "observe"
  /\ LET newer == /\ col.gen > rt[r].last
                  /\ rt[r].handle # None
                  /\ rt[r].handle < col.gen
         holder == IF refresh THEN Acquires(r) ELSE owner
         writes == /\ newer
                   /\ holder = r
                   /\ col.state = "restoring"
                   /\ col.ackBy = None
     IN /\ owner' = holder
        /\ col' = IF writes THEN [col EXCEPT !.ackBy = r, !.ackGen = col.gen] ELSE col
        /\ acks' = IF writes THEN acks \cup {<<r, col.gen>>} ELSE acks
        /\ rt' = [rt EXCEPT ![r].pc = "rcrt", ![r].last = col.gen,
                            ![r].handle = IF newer THEN None ELSE @]
  /\ UNCHANGED <<live, cmd, tree, marks, verified, passes>>

Observe(r) == \E refresh \in BOOLEAN : Observes(r, refresh)

\* (mutant) ownership is read from the row's recorded lease
RcrtActs_ByRecordedLease(r) == /\ col.lease = r
                               /\ col.state = "restoring"
                               /\ rt[r].handle = None
                               /\ ~col.halted

\* run_rcrt_pass: whether this collection needs its hand, and which
RcrtActs(r) == /\ owner = r
               /\ col.state = "restoring"
               /\ rt[r].handle = None
               /\ ~col.halted
AwaitsFinalize == col.pending # None \/ col.command # None
AwaitsAttach == col.sync /\ ~col.integrity /\ col.short = "no"

RcrtFinalize(r) ==
  /\ rt[r].pc = "rcrt"
  /\ RcrtActs(r)
  /\ AwaitsFinalize
  /\ rt' = [rt EXCEPT ![r].pc = "finalizing", ![r].plan = Verdict(FALSE)]
  /\ verified' = VerifiedBy(Verdict(FALSE))
  /\ UNCHANGED <<col, owner, live, cmd, tree, marks, acks, passes>>

RcrtApply(r) ==
  /\ rt[r].pc = "finalizing"
  /\ col' = Finalized(col, rt[r].plan)
  /\ Goto(r, IF rt[r].plan = "commit" THEN "attach" ELSE "handles")
  /\ RootSwitched
  /\ UNCHANGED <<owner, live, cmd, tree, marks, acks, verified>>

RcrtAttach(r) ==
  /\ rt[r].pc = "rcrt"
  /\ RcrtActs(r)
  /\ ~AwaitsFinalize
  /\ AwaitsAttach
  /\ rt' = [rt EXCEPT ![r].pc = "attach", ![r].plan = "none"]
  /\ UNCHANGED <<col, owner, live, cmd, tree, marks, history>>

RcrtSkips(r) ==
  /\ rt[r].pc = "rcrt"
  /\ ~(RcrtActs(r) /\ (AwaitsFinalize \/ AwaitsAttach))
  /\ Goto(r, "handles")
  /\ UNCHANGED <<col, owner, live, cmd, tree, marks, history>>

\* complete_attach up to full_hash_reconcile_authorized, which reads the root
AttachBegins(r) ==
  /\ rt[r].pc = "attach"
  /\ MayAttach(r)
  /\ rt' = [rt EXCEPT ![r].pc = "attaching", ![r].base = col.root]
  /\ PassBegins(r)
  /\ UNCHANGED <<col, owner, live, cmd, tree, marks, acks, verified>>

\* ... refused: an error ends the pass; after a finalize, Ok(false) registers
\* the handle nonetheless
AttachRefused(r) ==
  /\ rt[r].pc = "attach"
  /\ ~MayAttach(r)
  /\ rt' = [rt EXCEPT ![r].pc = "handles",
                      ![r].handle = IF rt[r].plan = "commit" /\ ~col.halted /\ ~col.sync
                                    THEN col.gen ELSE @]
  /\ UNCHANGED <<col, owner, live, cmd, tree, marks, history>>

\* ... its closing UPDATE, and register_supervisor_handle
AttachEnds(r) ==
  /\ rt[r].pc = "attaching"
  /\ col' = Attached(col)
  /\ rt' = [rt EXCEPT ![r].pc = "handles", ![r].base = None,
                      ![r].handle = IF col.sync \/ rt[r].plan = "commit"
                                    THEN Attached(col).gen ELSE @]
  /\ PassEnds(r, rt[r].base)
  /\ UNCHANGED <<owner, live, cmd, tree, marks, acks, verified>>

\* ... or its full-hash pass failed on a page identity, which halts the
\* collection (convert_reconcile_error)
AttachHalts(r) ==
  /\ rt[r].pc = "attaching"
  /\ col' = [col EXCEPT !.halted = TRUE]
  /\ rt' = [rt EXCEPT ![r].pc = "handles", ![r].base = None]
  /\ UNCHANGED <<owner, live, cmd, tree, marks, history>>

\* sync_supervisor_handles
SyncHandles(r) ==
  /\ rt[r].pc = "handles"
  /\ rt' = [rt EXCEPT ![r].pc = IF rt[r].last = None THEN "load" ELSE "recover",
                      ![r].handle = IF owner = r /\ col.state = "active"
                                    THEN col.gen ELSE None]
  /\ UNCHANGED <<col, owner, live, cmd, tree, marks, history>>

\* run_overflow_recovery_pass
RecoverBegins(r) ==
  /\ rt[r].pc = "recover"
  /\ IF col.state = "active" /\ col.sync /\ owner = r
     THEN /\ rt' = [rt EXCEPT ![r].pc = "recovering", ![r].base = col.root]
          /\ PassBegins(r)
     ELSE /\ Goto(r, "observe")
          /\ UNCHANGED passes
  /\ UNCHANGED <<col, owner, live, cmd, tree, marks, acks, verified>>

RecoverEnds(r) ==
  /\ rt[r].pc = "recovering"
  /\ col' = IF col.state = "active" THEN [col EXCEPT !.sync = FALSE] ELSE col
  /\ rt' = [rt EXCEPT ![r].pc = "observe", ![r].base = None]
  /\ PassEnds(r, rt[r].base)
  /\ UNCHANGED <<owner, live, cmd, tree, marks, acks, verified>>

Tick(r) ==
  \/ LoadGenerations(r) \/ Observe(r)
  \/ RcrtFinalize(r) \/ RcrtApply(r) \/ RcrtAttach(r) \/ RcrtSkips(r)
  \/ AttachBegins(r) \/ AttachRefused(r) \/ AttachEnds(r)
  \/ SyncHandles(r) \/ RecoverBegins(r) \/ RecoverEnds(r)

Gone == [NotStarted EXCEPT !.pc = "down"]

\* the process dies; its session row and its lease stay behind
Crash(r) ==
  /\ Up(r)
  /\ rt' = [rt EXCEPT ![r] = Gone]
  /\ UNCHANGED <<col, owner, live, cmd, tree, marks, history>>

\* the end of run_supervisor_loop: unregister_session drops the lease too, and
\* the two lease columns of the row that name the session
StopRuntime(r) ==
  /\ rt[r].pc = "observe"
  /\ rt' = [rt EXCEPT ![r] = Gone]
  /\ live' = live \ {r}
  /\ owner' = IF owner = r THEN None ELSE owner
  /\ col' = [col EXCEPT !.lease = IF @ = r THEN None ELSE @]
  /\ UNCHANGED <<cmd, tree, marks, history>>

\* SESSION_LIVENESS_SECS pass after the last heartbeat of a dead process
HeartbeatLapses(r) ==
  /\ r \in live
  /\ rt[r].pc = "down"
  /\ live' = live \ {r}
  /\ UNCHANGED <<col, owner, rt, cmd, tree, marks, history>>

-----------------------------------------------------------------------------
(* The operator's commands. *)

Online(c) == cmd[c].job \in {"restoreOnline", "remapOnline"}
Restores(c) == cmd[c].job \in {"restoreOnline", "restoreOffline"}
Remaps(c) == cmd[c].job \in {"remapOnline", "remapOffline"}

\* unregister_session of a command's own short-lived session
Released(c) == IF owner = c THEN None ELSE owner
Unleased(c, k) == [c EXCEPT !.lease = IF @ = k THEN None ELSE @]

\* ensure_restore_not_blocked
NotBlocked == col.state # "restoring" /\ ~col.integrity /\ col.short = "no"

\* begin_restore / remap_collection up to ensure_restore_not_blocked, and
\* finalize_pending_restore_via_cli up to its halt check
Begin(c) ==
  /\ cmd[c].pc = "idle"
  /\ \E job \in Jobs[c] :
       /\ IF job = "finalize" THEN ~col.halted ELSE NotBlocked
       /\ cmd' = [cmd EXCEPT ![c].pc = "checked", ![c].job = job]
  /\ UNCHANGED <<col, owner, live, rt, tree, marks, history>>

\* mark_collection_restoring_for_handshake: the UPDATE ...
Mark(c) ==
  /\ cmd[c].pc = "checked"
  /\ Online(c)
  /\ LiveOwner # None
  /\ col' = Marked(col)
  /\ cmd' = [cmd EXCEPT ![c].pc = "marked", ![c].host = LiveOwner]
  /\ UNCHANGED <<owner, live, rt, tree, marks, history>>

\* ... and the SELECT that reads the generation back, a statement of its own
ReadGeneration(c) ==
  /\ cmd[c].pc = "marked"
  /\ cmd' = [cmd EXCEPT ![c].pc = "waiting", ![c].gen = col.gen]
  /\ UNCHANGED <<col, owner, live, rt, tree, marks, history>>

\* (mutant) the ack is matched on the session only
SeeAck_AnyGeneration(c) ==
  /\ cmd[c].pc = "waiting"
  /\ LiveOwner = cmd[c].host
  /\ col.ackBy = cmd[c].host
  /\ col' = IF Restores(c) THEN [col EXCEPT !.lease = cmd[c].host] ELSE col
  /\ cmd' = [cmd EXCEPT ![c].pc = "admitted"]
  /\ UNCHANGED <<owner, live, rt, tree, marks, history>>

\* wait_for_exact_ack returning Ok; a restore then records the lease
SeeAck(c) ==
  /\ cmd[c].pc = "waiting"
  /\ LiveOwner = cmd[c].host
  /\ col.ackBy = cmd[c].host
  /\ col.ackGen = cmd[c].gen
  /\ col' = IF Restores(c) THEN [col EXCEPT !.lease = cmd[c].host] ELSE col
  /\ cmd' = [cmd EXCEPT ![c].pc = "admitted"]
  /\ UNCHANGED <<owner, live, rt, tree, marks, history>>

\* wait_for_exact_ack giving up: the owner died or changed, or
\* HANDSHAKE_TIMEOUT_SECS passed; the row stays as it is
GiveUp(c) ==
  /\ cmd[c].pc = "waiting"
  /\ cmd' = [cmd EXCEPT ![c].pc = "failed"]
  /\ UNCHANGED <<col, owner, live, rt, tree, marks, history>>

\* start_short_lived_owner_lease; an offline restore then closes the collection
TakeLease(c) ==
  /\ cmd[c].pc = "checked"
  /\ ~Online(c)
  /\ LiveOwner = None
  /\ owner' = c
  /\ col' = IF Restores(c) THEN [col EXCEPT !.state = "restoring", !.lease = c] ELSE col
  /\ cmd' = [cmd EXCEPT ![c].pc = "admitted", ![c].host = c]
  /\ UNCHANGED <<live, rt, tree, marks, history>>

\* authorize_full_hash_reconcile for the drift capture: a restore shows the
\* persisted lease of a restoring collection, a remap its lease
MayDrain(c) == IF Restores(c) THEN col.state = "restoring" /\ col.lease = cmd[c].host
                              ELSE owner = cmd[c].host

\* run_restore_remap_safety_pipeline: the first dirty check, and the drift capture
Drain(c) ==
  /\ cmd[c].pc = "admitted"
  /\ cmd[c].job # "finalize"
  /\ Clean
  /\ MayDrain(c)
  /\ cmd' = [cmd EXCEPT ![c].pc = "draining"]
  /\ UNCHANGED <<col, owner, live, rt, tree, marks, history>>

\* ... and the recheck after its fence
Drained(c) ==
  /\ cmd[c].pc = "draining"
  /\ Clean
  /\ cmd' = [cmd EXCEPT ![c].pc = "safe"]
  /\ UNCHANGED <<col, owner, live, rt, tree, marks, history>>

\* ... or its full-hash pass failed on a page identity
DrainHalts(c) ==
  /\ cmd[c].pc = "draining"
  /\ col' = Unleased([col EXCEPT !.halted = TRUE], c)
  /\ owner' = Released(c)
  /\ cmd' = [cmd EXCEPT ![c].pc = "failed"]
  /\ UNCHANGED <<live, rt, tree, marks, history>>

\* stage_pending: the pending columns are written first ...
Stage(c) ==
  /\ cmd[c].pc = "safe"
  /\ Restores(c)
  /\ col' = Staged(col, c, IF Online(c) THEN cmd[c].host ELSE col.lease)
  /\ cmd' = [cmd EXCEPT ![c].pc = "staged"]
  /\ UNCHANGED <<owner, live, rt, tree, marks, history>>

\* ... and the staged tree is renamed onto the directory afterwards
Rename(c) ==
  /\ cmd[c].pc = "staged"
  /\ tree' = [tree EXCEPT ![c] = "complete"]
  /\ cmd' = [cmd EXCEPT ![c].pc = "renamed"]
  /\ UNCHANGED <<col, owner, live, rt, marks, history>>

\* finalize_pending_restore as the originator, or as an external finalizer
FinalizeDecides(c) ==
  /\ \/ cmd[c].pc = "renamed"
     \/ cmd[c].pc = "admitted" /\ cmd[c].job = "finalize" /\ AwaitsFinalize
  /\ LET verdict == Verdict(Restores(c) /\ col.command = c) IN
       /\ cmd' = [cmd EXCEPT ![c].pc = "finalizing", ![c].plan = verdict]
       /\ verified' = VerifiedBy(verdict)
  /\ UNCHANGED <<col, owner, live, rt, tree, marks, acks, passes>>

\* an online restore returns whatever the outcome was; the other two attach
\* after a commit and end otherwise
FinalizeApplies(c) ==
  /\ cmd[c].pc = "finalizing"
  /\ LET attaches == ~Online(c) /\ cmd[c].plan = "commit" IN
       /\ col' = IF attaches THEN Finalized(col, cmd[c].plan)
                 ELSE Unleased(Finalized(col, cmd[c].plan), c)
       /\ owner' = IF attaches THEN owner ELSE Released(c)
       /\ cmd' = [cmd EXCEPT ![c].pc = IF attaches THEN "attach" ELSE "done"]
  /\ RootSwitched
  /\ UNCHANGED <<live, rt, tree, marks, acks, verified>>

\* finalize_pending_restore_via_cli when nothing is pending
FinalizeFindsNone(c) ==
  /\ cmd[c].pc = "admitted"
  /\ cmd[c].job = "finalize"
  /\ ~AwaitsFinalize
  /\ owner' = IF AwaitsAttach THEN owner ELSE Released(c)
  /\ cmd' = [cmd EXCEPT ![c].pc = IF AwaitsAttach THEN "attach" ELSE "done"]
  /\ UNCHANGED <<col, live, rt, tree, marks, history>>

\* remap_collection: verify_remap_root accepted the directory, and the switch
SwitchRoot(c) ==
  /\ cmd[c].pc = "safe"
  /\ Remaps(c)
  /\ col' = Remapped(col, c, Online(c))
  /\ verified' = verified \cup {c}
  /\ cmd' = [cmd EXCEPT ![c].pc = IF Online(c) THEN "done" ELSE "attach"]
  /\ RootSwitched
  /\ UNCHANGED <<owner, live, rt, tree, marks, acks>>

\* complete_attach by an offline command
CommandAttachBegins(c) ==
  /\ cmd[c].pc = "attach"
  /\ MayAttach(c)
  /\ cmd' = [cmd EXCEPT ![c].pc = "attaching", ![c].base = col.root]
  /\ PassBegins(c)
  /\ UNCHANGED <<col, owner, live, rt, tree, marks, acks, verified>>

CommandAttachEnds(c) ==
  /\ cmd[c].pc = "attaching"
  /\ col' = Unleased(Attached(col), c)
  /\ owner' = Released(c)
  /\ PassEnds(c, cmd[c].base)
  /\ cmd' = [cmd EXCEPT ![c].pc = "done", ![c].base = None]
  /\ UNCHANGED <<live, rt, tree, marks, acks, verified>>

Active(c) == cmd[c].pc \notin {"idle", "done", "failed"}

\* any step may be refused or fail (SQLite, I/O, a dirty or unstable vault, no
\* live owner, complete_attach refusing); the short-lived session is dropped
Fail(c) ==
  /\ Active(c)
  /\ col' = Unleased(col, c)
  /\ owner' = Released(c)
  /\ cmd' = [cmd EXCEPT ![c].pc = "failed", ![c].base = None]
  /\ UNCHANGED <<live, rt, tree, marks, history>>

\* the command's process is killed
Kill(c) ==
  /\ Active(c)
  /\ cmd' = [cmd EXCEPT ![c].pc = "failed", ![c].base = None]
  /\ UNCHANGED <<col, owner, live, rt, tree, marks, history>>

\* collection restore-reset
RestoreReset ==
  /\ col.integrity
  /\ col' = Reset(col)
  /\ astray' = (astray \/ col.sync)
  /\ UNCHANGED <<owner, live, rt, cmd, tree, marks, acks, verified, reconciled, overtaken>>

\* collection reconcile-reset
ReconcileReset ==
  /\ col.halted
  /\ col' = [col EXCEPT !.halted = FALSE]
  /\ UNCHANGED <<owner, live, rt, cmd, tree, marks, history>>

-----------------------------------------------------------------------------
(* The surroundings: code outside this protocol, time and the file system. *)

\* mark_collection_needs_full_sync by a write that failed after its rename or
\* by a watcher whose channel is full.  Neither statement looks at the state of
\* the collection, so a write or a callback that began before the handshake may
\* raise the flag after it: that is what LateMarks adds
MarkDirty ==
  /\ marks < MaxMarks
  /\ LateMarks \/ col.state = "active"
  /\ col' = [col EXCEPT !.sync = TRUE]
  /\ marks' = marks + 1
  /\ UNCHANGED <<owner, live, rt, cmd, tree, history>>

\* pending_command_heartbeat_at is written twice and never refreshed, so it may
\* grow older than SESSION_LIVENESS_SECS while its command is still at work
BeatLapses ==
  /\ col.beat = "fresh"
  /\ col' = [col EXCEPT !.beat = "stale"]
  /\ UNCHANGED <<owner, live, rt, cmd, tree, marks, history>>

\* manifest_incomplete_escalation_secs pass
ManifestAges ==
  /\ col.short = "young"
  /\ col' = [col EXCEPT !.short = "old"]
  /\ UNCHANGED <<owner, live, rt, cmd, tree, marks, history>>

\* another program touches the restored directory before it is finalized
DamageTree(c) ==
  /\ Damage
  /\ col.pending = c
  /\ tree[c] = "complete"
  /\ tree' \in {[tree EXCEPT ![c] = t] : t \in {"short", "altered"}}
  /\ UNCHANGED <<col, owner, live, rt, cmd, marks, history>>

\* the missing files arrive
RepairTree(c) ==
  /\ tree[c] = "short"
  /\ tree' = [tree EXCEPT ![c] = "complete"]
  /\ UNCHANGED <<col, owner, live, rt, cmd, marks, history>>

\* what a running command does next; Begin and Kill are the operator's
Works(c) ==
  \/ Mark(c) \/ ReadGeneration(c) \/ SeeAck(c) \/ GiveUp(c)
  \/ TakeLease(c) \/ Drain(c) \/ Drained(c) \/ DrainHalts(c)
  \/ Stage(c) \/ Rename(c) \/ FinalizeDecides(c) \/ FinalizeApplies(c)
  \/ FinalizeFindsNone(c) \/ SwitchRoot(c)
  \/ CommandAttachBegins(c) \/ CommandAttachEnds(c) \/ Fail(c)

CommandStep(c) == Begin(c) \/ Works(c) \/ Kill(c)

RuntimeStep(r) ==
  \/ StartRuntime(r) \/ Tick(r) \/ AttachHalts(r)
  \/ Crash(r) \/ StopRuntime(r) \/ HeartbeatLapses(r)

Environment ==
  \/ RestoreReset \/ ReconcileReset \/ MarkDirty \/ BeatLapses \/ ManifestAges
  \/ \E c \in Commands : DamageTree(c) \/ RepairTree(c)

Next ==
  \/ \E r \in Runtimes : RuntimeStep(r)
  \/ \E c \in Commands : CommandStep(c)
  \/ Environment

Spec == Init /\ [][Next]_vars

\* The supervisor thread keeps ticking and, in ticks again and again, refreshes its
\* lease; a command that runs goes on (it waits at most HANDSHAKE_TIMEOUT_SECS) and
\* time passes.  Nothing obliges the operator to start a command, to reset a block
\* or to repair a directory.
FairSpec ==
  /\ Spec
  /\ \A r \in Runtimes : /\ WF_vars(Tick(r))
                        /\ SF_vars(Observes(r, TRUE))
                        /\ WF_vars(StartRuntime(r))
                        /\ WF_vars(HeartbeatLapses(r))
  /\ \A c \in Commands : WF_vars(Works(c))
  /\ WF_vars(BeatLapses)
  /\ WF_vars(ManifestAges)

-----------------------------------------------------------------------------
(* Properties. *)

\* A command that went past the online handshake
Admitted(c) == /\ Online(c)
               /\ cmd[c].pc \in {"admitted", "draining", "safe", "staged", "renamed",
                                 "finalizing", "done"}

\* A command between its admission and the end of its destructive part
Destructive(c) == /\ Restores(c) \/ Remaps(c)
                  /\ cmd[c].pc \in {"draining", "safe", "staged", "renamed"}

\* An online command proceeds only on an acknowledgement that the session it
\* was told to wait for really wrote, for the generation it read back
\* (wait_for_exact_ack): no left-over ack of an earlier handshake lets it in.
AckIsExact == \A c \in Commands : Admitted(c) => <<cmd[c].host, cmd[c].gen>> \in acks

\* The vault is only ever served from a directory that a manifest comparison or
\* a remap verification accepted, whichever actor's verdict and statement the
\* root switch came from (finalize_pending_restore, run_tx_b, remap_collection).
RootIsVerified == col.root \in verified

\* A collection that accepts writes and owes no sync has an index that was
\* reconciled against the directory it is attached to (run_tx_b, complete_attach,
\* run_overflow_recovery_pass, restore_reset).
OpenMeansReconciled == col.state = "active" /\ ~col.sync => reconciled = col.root

\* In any deployment such an index is current unless the root was switched under the full
\* pass that ended last, or restore-reset forgave a sync that was owed: needs_full_sync
\* covers every other order of marks, switches and passes (run_tx_b, remap_collection,
\* complete_attach, run_overflow_recovery_pass, restore_reset).
OpenUnlessAstray ==
  col.state = "active" /\ ~col.sync => reconciled = col.root \/ astray

\* A directory is pending only while the collection is closed, so the runtime's
\* restore continuation, which looks at restoring collections, will find it.
PendingIsClosed == col.pending # None => col.state = "restoring"

\* At most one command is inside its destructive part (ensure_restore_not_blocked
\* refuses a second one with RestoreInProgress).  The code does not keep this: two
\* commands that both move the vault may pass the check together.
OneDestructiveCommand == \A c, k \in Commands : Destructive(c) /\ Destructive(k) => c = k

\* a step that ends what is pending while its command's heartbeat is fresh
ConcludedByOriginator ==
  /\ col.pending # None
  /\ col.beat = "fresh"
  /\ col'.pending # col.pending
  => \/ col.integrity
     \/ /\ cmd[col.pending].pc = "finalizing"
        /\ cmd'[col.pending].pc # "finalizing"

\* While its heartbeat is fresh, a staged directory is concluded only by the
\* command that staged it, or by the operator's reset of an integrity failure
\* (FinalizeCaller, finalize_pending_restore, restore_reset).
OriginatorConcludes == [][ConcludedByOriginator]_vars

SomeRuntimeStays == <>[](\E r \in Runtimes : Up(r))

\* A staged restore whose command is gone is concluded by a runtime that stays:
\* committed, rolled back, or blocked for the operator.
PendingIsConcluded ==
  SomeRuntimeStays =>
    (col.pending # None ~> col.pending = None \/ col.integrity \/ col.halted)

\* A collection whose root was switched is attached again.
SwitchIsAttached ==
  SomeRuntimeStays =>
    (col.sync ~> ~col.sync \/ col.halted \/ col.integrity)

\* A closed collection is opened again or blocked for the operator.  The code does
\* not keep this: a command that fails after the mark leaves it closed for good.
ClosedIsReopened ==
  SomeRuntimeStays =>
    (col.state = "restoring" ~> col.state = "active" \/ col.integrity \/ col.halted)

\* While a command waits for the live owner it was told of, and that owner has
\* yet to see the new generation, the owner still holds the handle whose release
\* writes the ack (run_supervisor_loop, sync_supervisor_handles).  The code does not
\* keep this: a mark between the two places of a tick that drop handles gets no ack.
AckIsComing ==
  \A c \in Commands :
    LET host == cmd[c].host IN
    /\ cmd[c].pc = "waiting"
    /\ col.state = "restoring"
    /\ LiveOwner = host
    /\ Up(host)
    /\ rt[host].last # None
    /\ rt[host].last < cmd[c].gen
    => rt[host].handle # None
=============================================================================
