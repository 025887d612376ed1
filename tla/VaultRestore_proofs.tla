------------------------- MODULE VaultRestore_proofs -------------------------
(***************************************************************************)
(* Theorems about VaultRestore for any number of runtimes and commands.    *)
(***************************************************************************)
EXTENDS VaultRestore, TLAPS

(* Every statement that writes the row leaves a row. *)

\* mark_collection_restoring_for_handshake, stage_pending, remap_collection,
\* the revert paths, complete_attach and restore_reset keep the row well formed.
LEMMA RowWrites ==
  ASSUME NEW c \in Rows
  PROVE  /\ Marked(c) \in Rows
         /\ \A k \in Commands, l \in Sessions \cup {None} : Staged(c, k, l) \in Rows
         /\ \A k \in Commands, b \in BOOLEAN : Remapped(c, k, b) \in Rows
         /\ \A k \in Commands : Unleased(c, k) \in Rows
         /\ TxB(c) \in Rows
         /\ Reverted(c) \in Rows
         /\ Attached(c) \in Rows
         /\ Reset(c) \in Rows
<1>0. c.gen + 1 \in Nat
  BY DEF Rows
<1>1. Marked(c) \in Rows
  BY <1>0 DEF Rows, Marked
<1>2. \A k \in Commands, l \in Sessions \cup {None} : Staged(c, k, l) \in Rows
  BY DEF Rows, Staged
<1>3. \A k \in Commands, b \in BOOLEAN : Remapped(c, k, b) \in Rows
  BY <1>0 DEF Rows, Remapped, Roots
<1>4. \A k \in Commands : Unleased(c, k) \in Rows
  BY DEF Rows, Unleased
<1>5. TxB(c) \in Rows
  BY <1>0 DEF Rows, TxB, Roots
<1>6. Reverted(c) \in Rows
  BY DEF Rows, Reverted
<1>7. Attached(c) \in Rows
  BY <1>0 DEF Rows, Attached
<1>8. Reset(c) \in Rows
  BY DEF Rows, Reset
<1> QED
  BY <1>1, <1>2, <1>3, <1>4, <1>5, <1>6, <1>7, <1>8

\* finalize_pending_restore leaves a row, whatever it decided.
LEMMA FinalizedRow ==
  ASSUME NEW c \in Rows, NEW p \in Plans
  PROVE  Finalized(c, p) \in Rows
<1>1. CASE p \in {"orphan", "abort"}
  BY <1>1, RowWrites DEF Finalized
<1>2. CASE p = "commit"
  BY <1>2, RowWrites DEF Finalized
<1>3. CASE p = "stamp"
  BY <1>3 DEF Finalized, Rows
<1>4. CASE p = "fail"
  BY <1>4 DEF Finalized, Rows
<1>5. CASE p \in {"none", "blocked", "deferred", "nothing"}
  BY <1>5 DEF Finalized
<1> QED
  BY <1>1, <1>2, <1>3, <1>4, <1>5 DEF Plans

\* The reads of the row that a step stores have the type of their field, and a
\* lease holder that is live is a runtime.
LEMMA ReadTypes ==
  ASSUME TypeOK
  PROVE  /\ \A b \in BOOLEAN : Verdict(b) \in Plans
         /\ LiveOwner \in Runtimes \cup {None}
         /\ \A p \in Plans : VerifiedBy(p) \in SUBSET Roots
         /\ \A r \in Runtimes : Acquires(r) \in Sessions \cup {None}
         /\ \A c \in Commands : Released(c) \in Sessions \cup {None}
<1>1. \A c \in Commands : Compared(c) \in Plans
  BY DEF TypeOK, Compared, Plans
<1>2. col.pending \in Commands \cup {None}
  BY DEF TypeOK, Rows
<1>3. \A b \in BOOLEAN : Verdict(b) \in Plans
  BY <1>1, <1>2 DEF Verdict, Concluded, Plans
<1>4. LiveOwner \in Runtimes \cup {None}
  BY DEF TypeOK, LiveOwner
<1>5. \A p \in Plans : VerifiedBy(p) \in SUBSET Roots
  BY DEF TypeOK, VerifiedBy, Roots
<1>6. \A r \in Runtimes : Acquires(r) \in Sessions \cup {None}
  BY DEF TypeOK, Acquires, Sessions
<1>7. \A c \in Commands : Released(c) \in Sessions \cup {None}
  BY DEF TypeOK, Released
<1> QED
  BY <1>3, <1>4, <1>5, <1>6, <1>7

\* The history of the full passes is typed.
LEMMA PassTypes ==
  ASSUME overtaken \in SUBSET Sessions, astray \in BOOLEAN, reconciled \in Roots,
         \/ RootSwitched
         \/ \E s \in Sessions : PassBegins(s)
         \/ \E s \in Sessions, base \in Roots : PassEnds(s, base)
  PROVE  overtaken' \in SUBSET Sessions /\ astray' \in BOOLEAN /\ reconciled' \in Roots
<1>1. Reconciling \subseteq Sessions
  BY DEF Reconciling, Sessions
<1>2. CASE RootSwitched
  BY <1>1, <1>2 DEF RootSwitched
<1>3. CASE \E s \in Sessions : PassBegins(s)
  BY <1>3 DEF PassBegins
<1>4. ASSUME NEW s \in Sessions, NEW base \in Roots, PassEnds(s, base)
      PROVE  overtaken' \in SUBSET Sessions /\ astray' \in BOOLEAN /\ reconciled' \in Roots
  <2>1. overtaken' \in SUBSET Sessions /\ reconciled' \in Roots
    BY <1>4 DEF PassEnds
  <2>2. astray' \in BOOLEAN
    <3>1. astray' = (s \in overtaken)
      BY <1>4 DEF PassEnds
    <3>2. (s \in overtaken) \in BOOLEAN
      OBVIOUS
    <3> QED
      BY <3>1, <3>2, Zenon
  <2> QED
    BY <2>1, <2>2
<1> QED
  BY <1>2, <1>3, <1>4

\* What a pass that is under way will record as reconciled is a directory: the
\* type of `reconciled` rests on it.
BasesKnown ==
  /\ \A r \in Runtimes : rt[r].pc \in {"attaching", "recovering"} => rt[r].base \in Roots
  /\ \A c \in Commands : cmd[c].pc = "attaching" => cmd[c].base \in Roots

TypeInv == TypeOK /\ BasesKnown

LEMMA RuntimeTypes ==
  ASSUME TypeInv, NEW r \in Runtimes, RuntimeStep(r)
  PROVE  TypeInv'
<1> USE DEF TypeInv, TypeOK, BasesKnown, history, passes, Goto
<1>0. /\ rt[r] \in RuntimeRecords
      /\ col \in Rows
      /\ r \in Sessions
      /\ col.gen \in Nat
      /\ col.root \in Roots
  BY DEF Sessions, Rows
<1>1. CASE StartRuntime(r)
  BY <1>0, <1>1 DEF StartRuntime, StartServeHost, StartDaemon, RuntimeRecords, RuntimeStates,
                        Rows, Sessions
<1>2. CASE LoadGenerations(r)
  BY <1>0, <1>2 DEF LoadGenerations, RuntimeRecords, RuntimeStates
<1>3. CASE Observe(r)
  <2>1. PICK refresh \in BOOLEAN :
          /\ owner' \in {Acquires(r), owner}
          /\ col' \in {col, [col EXCEPT !.ackBy = r, !.ackGen = col.gen]}
          /\ acks' \in {acks, acks \cup {<<r, col.gen>>}}
          /\ \E h \in {None, rt[r].handle} :
               rt' = [rt EXCEPT ![r].pc = "rcrt", ![r].last = col.gen, ![r].handle = h]
    BY <1>3 DEF Observe, Observes
  <2>2. col' \in Rows
    BY <1>0, <2>1 DEF Rows
  <2>3. PICK h \in Nat \cup {None} :
          rt' = [rt EXCEPT ![r].pc = "rcrt", ![r].last = col.gen, ![r].handle = h]
    BY <1>0, <2>1 DEF RuntimeRecords
  <2>4. rt' \in [Runtimes -> RuntimeRecords] /\ BasesKnown'
    BY <1>0, <1>3, <2>3 DEF Observe, Observes, RuntimeRecords, RuntimeStates
  <2> QED
    BY <1>0, <1>3, <2>1, <2>2, <2>4, ReadTypes DEF Observe, Observes
<1>4. CASE RcrtFinalize(r)
  BY <1>0, <1>4, ReadTypes DEF RcrtFinalize, RuntimeRecords, RuntimeStates
<1>5. CASE RcrtApply(r)
  BY <1>0, PassTypes, <1>5, FinalizedRow DEF RcrtApply, RuntimeRecords, RuntimeStates
<1>6. CASE RcrtAttach(r)
  BY <1>0, <1>6 DEF RcrtAttach, RuntimeRecords, RuntimeStates, Plans
<1>7. CASE RcrtSkips(r)
  BY <1>0, <1>7 DEF RcrtSkips, RuntimeRecords, RuntimeStates
<1>8. CASE AttachBegins(r)
  BY <1>0, PassTypes, <1>8 DEF AttachBegins, RuntimeRecords, RuntimeStates
<1>9. CASE AttachRefused(r)
  BY <1>0, <1>9 DEF AttachRefused, RuntimeRecords, RuntimeStates
<1>10. CASE AttachEnds(r)
  <2>1. Attached(col) \in Rows /\ Attached(col).gen \in Nat
    BY <1>0, RowWrites DEF Rows
  <2> QED
    BY <1>0, PassTypes, <1>10, <2>1 DEF AttachEnds, RuntimeRecords, RuntimeStates
<1>11. CASE AttachHalts(r)
  BY <1>0, <1>11 DEF AttachHalts, RuntimeRecords, RuntimeStates, Rows
<1>12. CASE SyncHandles(r)
  BY <1>0, <1>12 DEF SyncHandles, RuntimeRecords, RuntimeStates
<1>13. CASE RecoverBegins(r)
  BY <1>0, PassTypes, <1>13 DEF RecoverBegins, RuntimeRecords, RuntimeStates
<1>14. CASE RecoverEnds(r)
  <2>1. col' \in Rows
    BY <1>0, <1>14 DEF RecoverEnds, Rows
  <2> QED
    BY <1>0, PassTypes, <1>14, <2>1 DEF RecoverEnds, RuntimeRecords, RuntimeStates
<1>15. CASE Crash(r)
  BY <1>0, <1>15 DEF Crash, Gone, NotStarted, RuntimeRecords, RuntimeStates, Plans
<1>16. CASE StopRuntime(r)
  BY <1>0, <1>16 DEF StopRuntime, Gone, NotStarted, RuntimeRecords, RuntimeStates, Plans, Rows
<1>17. CASE HeartbeatLapses(r)
  BY <1>17 DEF HeartbeatLapses
<1> QED
  BY <1>1, <1>2, <1>3, <1>4, <1>5, <1>6, <1>7, <1>8, <1>9, <1>10, <1>11, <1>12, <1>13,
     <1>14, <1>15, <1>16, <1>17 DEF RuntimeStep, Tick

LEMMA CommandTypes ==
  ASSUME TypeInv, NEW c \in Commands, CommandStep(c)
  PROVE  TypeInv'
<1> USE DEF TypeInv, TypeOK, BasesKnown, history, passes
<1>0. /\ cmd[c] \in CommandRecords
      /\ col \in Rows
      /\ col.gen \in Nat
      /\ col.root \in Roots
      /\ c \in Sessions /\ c \in Roots
      /\ Jobs[c] \subseteq AllJobs
      /\ cmd[c].host \in Sessions \cup {None}
      /\ cmd[c].plan \in Plans
  BY BoundsAssumption DEF Sessions, Roots, Rows, CommandRecords
<1>a. \A d \in Rows : Unleased(d, c) \in Rows
  BY RowWrites
<1>1. CASE Begin(c)
  <2>1. PICK job \in AllJobs : cmd' = [cmd EXCEPT ![c].pc = "checked", ![c].job = job]
    BY <1>0, <1>1 DEF Begin
  <2> QED
    BY <1>0, <1>1, <2>1 DEF Begin, CommandRecords, CommandStates
<1>2. CASE Mark(c)
  BY <1>0, <1>2, ReadTypes, RowWrites DEF Mark, CommandRecords, CommandStates, Sessions
<1>3. CASE ReadGeneration(c)
  BY <1>0, <1>3 DEF ReadGeneration, CommandRecords, CommandStates
<1>4. CASE SeeAck(c)
  <2>1. col' \in Rows
    BY <1>0, <1>4 DEF SeeAck, Rows
  <2> QED
    BY <1>0, <1>4, <2>1 DEF SeeAck, CommandRecords, CommandStates
<1>5. CASE GiveUp(c)
  BY <1>0, <1>5 DEF GiveUp, CommandRecords, CommandStates
<1>6. CASE TakeLease(c)
  <2>1. col' \in Rows
    BY <1>0, <1>6 DEF TakeLease, Rows
  <2> QED
    BY <1>0, <1>6, <2>1 DEF TakeLease, CommandRecords, CommandStates
<1>7. CASE Drain(c)
  BY <1>0, <1>7 DEF Drain, CommandRecords, CommandStates
<1>8. CASE Drained(c)
  BY <1>0, <1>8 DEF Drained, CommandRecords, CommandStates
<1>9. CASE DrainHalts(c)
  <2>1. [col EXCEPT !.halted = TRUE] \in Rows
    BY <1>0 DEF Rows
  <2> QED
    BY <1>0, <1>a, <1>9, <2>1, ReadTypes DEF DrainHalts, CommandRecords, CommandStates
<1>10. CASE Stage(c)
  <2>1. \A l \in Sessions \cup {None} : Staged(col, c, l) \in Rows
    BY <1>0, RowWrites
  <2>2. col.lease \in Sessions \cup {None}
    BY <1>0 DEF Rows
  <2>3. col' \in Rows
    BY <1>0, <1>10, <2>1, <2>2 DEF Stage
  <2> QED
    BY <1>0, <1>10, <2>3 DEF Stage, CommandRecords, CommandStates
<1>11. CASE Rename(c)
  BY <1>0, <1>11 DEF Rename, CommandRecords, CommandStates
<1>12. CASE FinalizeDecides(c)
  <2>1. Verdict(Restores(c) /\ col.command = c) \in Plans
    BY ReadTypes
  <2> QED
    BY <1>0, <1>12, <2>1, ReadTypes DEF FinalizeDecides, CommandRecords, CommandStates
<1>13. CASE FinalizeApplies(c)
  <2>1. Finalized(col, cmd[c].plan) \in Rows
    BY <1>0, FinalizedRow
  <2>2. col' \in Rows
    BY <1>a, <1>13, <2>1 DEF FinalizeApplies
  <2> QED
    BY <1>0, <1>13, <2>2, ReadTypes, PassTypes DEF FinalizeApplies, CommandRecords, CommandStates
<1>14. CASE FinalizeFindsNone(c)
  BY <1>0, <1>14, ReadTypes DEF FinalizeFindsNone, CommandRecords, CommandStates
<1>15. CASE SwitchRoot(c)
  <2>1. col' \in Rows
    <3>1. Online(c) \in BOOLEAN
      BY DEF Online
    <3>2. \A b \in BOOLEAN : Remapped(col, c, b) \in Rows
      BY <1>0, RowWrites
    <3> QED
      BY <1>15, <3>1, <3>2 DEF SwitchRoot
  <2> QED
    BY <1>0, <1>15, <2>1, PassTypes DEF SwitchRoot, CommandRecords, CommandStates
<1>16. CASE CommandAttachBegins(c)
  BY <1>0, <1>16, PassTypes DEF CommandAttachBegins, CommandRecords, CommandStates
<1>17. CASE CommandAttachEnds(c)
  <2>1. col' \in Rows
    BY <1>0, <1>a, <1>17, RowWrites DEF CommandAttachEnds
  <2> QED
    BY <1>0, <1>17, <2>1, ReadTypes, PassTypes DEF CommandAttachEnds, CommandRecords, CommandStates
<1>18. CASE Fail(c)
  BY <1>0, <1>a, <1>18, ReadTypes DEF Fail, CommandRecords, CommandStates
<1>19. CASE Kill(c)
  BY <1>0, <1>19 DEF Kill, CommandRecords, CommandStates
<1> QED
  BY <1>1, <1>2, <1>3, <1>4, <1>5, <1>6, <1>7, <1>8, <1>9, <1>10, <1>11, <1>12, <1>13,
     <1>14, <1>15, <1>16, <1>17, <1>18, <1>19 DEF CommandStep, Works

LEMMA EnvironmentTypes ==
  ASSUME TypeInv, Environment
  PROVE  TypeInv'
<1> USE DEF TypeInv, TypeOK, BasesKnown, history, passes
<1>1. CASE RestoreReset
  BY <1>1, RowWrites DEF RestoreReset
<1>2. CASE ReconcileReset
  BY <1>2 DEF ReconcileReset, Rows
<1>3. CASE MarkDirty
  <2>1. col' \in Rows
    BY <1>3 DEF MarkDirty, Rows
  <2>2. marks' \in Nat
    BY <1>3 DEF MarkDirty
  <2> QED
    BY <1>3, <2>1, <2>2 DEF MarkDirty
<1>4. CASE BeatLapses
  BY <1>4 DEF BeatLapses, Rows
<1>5. CASE ManifestAges
  BY <1>5 DEF ManifestAges, Rows
<1>6. ASSUME NEW c \in Commands, DamageTree(c) PROVE TypeInv'
  BY <1>6 DEF DamageTree
<1>7. ASSUME NEW c \in Commands, RepairTree(c) PROVE TypeInv'
  BY <1>7 DEF RepairTree
<1> QED
  BY <1>1, <1>2, <1>3, <1>4, <1>5, <1>6, <1>7 DEF Environment

LEMMA TypeInvariant == Spec => []TypeInv
<1>1. Init => TypeInv
  <2> SUFFICES ASSUME Init PROVE TypeInv
    OBVIOUS
  <2>1. col \in Rows /\ rt \in [Runtimes -> RuntimeRecords] /\ cmd \in [Commands -> CommandRecords]
    BY DEF Init, Rows, RuntimeRecords, RuntimeStates, CommandRecords, CommandStates, Plans,
           NotStarted, Idle, Roots
  <2>2. /\ overtaken \in SUBSET Sessions /\ astray \in BOOLEAN /\ reconciled \in Roots
        /\ acks \in SUBSET (Runtimes \X Nat) /\ verified \in SUBSET Roots
        /\ live \in SUBSET Runtimes /\ owner \in Sessions \cup {None} /\ marks \in Nat
    BY DEF Init, Roots
  <2>3. BasesKnown /\ tree \in [Commands -> {"absent", "complete", "short", "altered"}]
    BY DEF Init, BasesKnown, NotStarted, Idle
  <2> QED
    BY <2>1, <2>2, <2>3 DEF TypeInv, TypeOK
<1>2. TypeInv /\ [Next]_vars => TypeInv'
  <2> SUFFICES ASSUME TypeInv, [Next]_vars PROVE TypeInv'
    OBVIOUS
  <2>1. CASE UNCHANGED vars
    BY <2>1 DEF vars, history, passes, TypeInv, TypeOK, BasesKnown
  <2>2. CASE Next
    BY <2>2, RuntimeTypes, CommandTypes, EnvironmentTypes DEF Next
  <2> QED
    BY <2>1, <2>2
<1> QED
  BY <1>1, <1>2, PTL DEF Spec

\* The program's variables stay in the sets declared for them; a root that a
\* step stores is a directory and never NULL (run_tx_b, complete_attach).
THEOREM TypeCorrect == Spec => []TypeOK
<1>1. TypeInv => TypeOK
  BY DEF TypeInv
<1> QED
  BY <1>1, TypeInvariant, PTL

-----------------------------------------------------------------------------
(* The handshake: an online command is let in by an acknowledgement that    *)
(* was really written.  What makes it inductive is that the ack columns of  *)
(* the row never hold a pair nobody wrote, and that an online command never *)
(* takes the path of complete_attach, whose end is "done" as well.          *)

AckColumnsWritten == col.ackBy # None => <<col.ackBy, col.ackGen>> \in acks

OnlineNeverAttaches == \A c \in Commands : Online(c) => cmd[c].pc \notin {"attach", "attaching"}

\* it waits for a session and not for NULL, which the empty columns would match
WaitsForASession == \A c \in Commands : cmd[c].pc \in {"marked", "waiting"} => cmd[c].host # None

AckInv == AckIsExact /\ AckColumnsWritten /\ OnlineNeverAttaches /\ WaitsForASession

\* d holds the ack of c, or none
KeepsAck(c, d) == d.ackBy = None \/ (d.ackBy = c.ackBy /\ d.ackGen = c.ackGen)

\* No statement but write_supervisor_ack_if_needed invents an acknowledgement.
LEMMA AckWrites ==
  ASSUME NEW c \in Rows
  PROVE  /\ KeepsAck(c, Marked(c))
         /\ \A k \in Commands, l \in Sessions \cup {None} : KeepsAck(c, Staged(c, k, l))
         /\ \A k \in Commands, b \in BOOLEAN : KeepsAck(c, Remapped(c, k, b))
         /\ \A k \in Commands : KeepsAck(c, Unleased(c, k))
         /\ \A p \in Plans : KeepsAck(c, Finalized(c, p))
         /\ \A p \in Plans, k \in Commands : KeepsAck(c, Unleased(Finalized(c, p), k))
         /\ KeepsAck(c, Attached(c))
         /\ \A k \in Commands : KeepsAck(c, Unleased(Attached(c), k))
         /\ KeepsAck(c, Reset(c))
<1> USE DEF KeepsAck
<1>1. KeepsAck(c, Marked(c))
  BY DEF Rows, Marked
<1>2. \A k \in Commands, l \in Sessions \cup {None} : KeepsAck(c, Staged(c, k, l))
  BY DEF Rows, Staged
<1>3. \A k \in Commands, b \in BOOLEAN : KeepsAck(c, Remapped(c, k, b))
  BY DEF Rows, Remapped
<1>4. \A d \in Rows, k \in Commands : Unleased(d, k).ackBy = d.ackBy /\ Unleased(d, k).ackGen = d.ackGen
  BY DEF Rows, Unleased
<1>5. KeepsAck(c, TxB(c)) /\ KeepsAck(c, Reverted(c))
  BY DEF Rows, TxB, Reverted
<1>6. \A p \in Plans : KeepsAck(c, Finalized(c, p))
  BY <1>5 DEF Finalized, Plans, Rows
<1>7. KeepsAck(c, Attached(c))
  BY DEF Rows, Attached
<1>8. KeepsAck(c, Reset(c))
  BY DEF Rows, Reset
<1>9. \A p \in Plans : Finalized(c, p) \in Rows
  BY FinalizedRow
<1>10. Attached(c) \in Rows
  BY RowWrites
<1> QED
  BY <1>1, <1>2, <1>3, <1>4, <1>6, <1>7, <1>8, <1>9, <1>10

LEMMA AckRuntime ==
  ASSUME TypeInv, AckInv, NEW r \in Runtimes, RuntimeStep(r)
  PROVE  AckInv'
<1> USE DEF TypeInv, TypeOK, history, passes, PassBegins, PassEnds, RootSwitched, Goto
<1>0. /\ col \in Rows
      /\ rt[r].plan \in Plans
  BY DEF RuntimeRecords
<1>1. cmd' = cmd /\ acks \subseteq acks'
  BY DEF RuntimeStep, Tick, StartRuntime, StartServeHost, StartDaemon, LoadGenerations,
         Observe, Observes, RcrtFinalize, RcrtApply,
         RcrtAttach, RcrtSkips, AttachBegins, AttachRefused, AttachEnds, AttachHalts,
         SyncHandles, RecoverBegins, RecoverEnds, Crash, StopRuntime, HeartbeatLapses
<1>2. AckIsExact' /\ OnlineNeverAttaches' /\ WaitsForASession'
  BY <1>1 DEF AckInv, AckIsExact, OnlineNeverAttaches, WaitsForASession, Admitted, Online
<1>3. CASE Observe(r)
  <2>1. PICK refresh \in BOOLEAN :
          \/ col' = col /\ acks' = acks
          \/ /\ col' = [col EXCEPT !.ackBy = r, !.ackGen = col.gen]
             /\ acks' = acks \cup {<<r, col.gen>>}
    BY <1>3 DEF Observe, Observes
  <2>2. AckColumnsWritten'
    <3>1. CASE col' = col /\ acks' = acks
      BY <3>1 DEF AckInv, AckColumnsWritten
    <3>2. CASE /\ col' = [col EXCEPT !.ackBy = r, !.ackGen = col.gen]
               /\ acks' = acks \cup {<<r, col.gen>>}
      <4>1. col'.ackBy = r /\ col'.ackGen = col.gen
        BY <1>0, <3>2 DEF Rows
      <4> QED
        BY <3>2, <4>1 DEF AckColumnsWritten
    <3> QED
      BY <2>1, <3>1, <3>2
  <2> QED
    BY <1>2, <2>2 DEF AckInv
<1>4. CASE RcrtApply(r)
  BY <1>0, <1>1, <1>2, <1>4, AckWrites DEF RcrtApply, AckInv, AckColumnsWritten, KeepsAck
<1>5. CASE AttachEnds(r)
  BY <1>0, <1>1, <1>2, <1>5, AckWrites DEF AttachEnds, AckInv, AckColumnsWritten, KeepsAck
<1>6. CASE AttachHalts(r) \/ RecoverEnds(r) \/ StopRuntime(r) \/ StartRuntime(r)
  <2>1. KeepsAck(col, col')
    BY <1>0, <1>6 DEF AttachHalts, RecoverEnds, StopRuntime, StartRuntime, StartServeHost,
                      StartDaemon, KeepsAck, Rows
  <2> QED
    BY <1>1, <1>2, <2>1 DEF AckInv, AckColumnsWritten, KeepsAck
<1>7. CASE ~(Observe(r) \/ RcrtApply(r) \/ AttachEnds(r) \/ AttachHalts(r) \/ RecoverEnds(r)
             \/ StopRuntime(r) \/ StartRuntime(r))
  <2>1. col' = col
    BY <1>7 DEF RuntimeStep, Tick, LoadGenerations, RcrtFinalize, RcrtAttach,
                RcrtSkips, AttachBegins, AttachRefused, SyncHandles, RecoverBegins, Crash,
                HeartbeatLapses
  <2> QED
    BY <1>1, <1>2, <2>1 DEF AckInv, AckColumnsWritten
<1> QED
  BY <1>3, <1>4, <1>5, <1>6, <1>7

LEMMA AckCommand ==
  ASSUME TypeInv, AckInv, NEW c \in Commands, CommandStep(c)
  PROVE  AckInv'
<1> USE DEF TypeInv, TypeOK, history, passes, PassBegins, PassEnds, RootSwitched
<1>0. /\ col \in Rows
      /\ cmd[c].plan \in Plans
      /\ cmd[c].host \in Sessions \cup {None}
      /\ col.lease \in Sessions \cup {None}
  BY DEF CommandRecords, Rows
<1>1. acks' = acks
  BY DEF CommandStep, Works, Begin, Mark, ReadGeneration, SeeAck, GiveUp, TakeLease, Drain,
         Drained, DrainHalts, Stage, Rename, FinalizeDecides, FinalizeApplies,
         FinalizeFindsNone, SwitchRoot, CommandAttachBegins, CommandAttachEnds, Fail, Kill
<1>2. KeepsAck(col, col')
  <2>1. CASE Mark(c)
    BY <1>0, <2>1, AckWrites DEF Mark
  <2>2. CASE SeeAck(c)
    BY <1>0, <2>2 DEF SeeAck, KeepsAck, Rows
  <2>3. CASE TakeLease(c)
    BY <1>0, <2>3 DEF TakeLease, KeepsAck, Rows
  <2>4. CASE DrainHalts(c)
    BY <1>0, <2>4 DEF DrainHalts, Unleased, KeepsAck, Rows
  <2>5. CASE Stage(c)
    <3>1. PICK l \in Sessions \cup {None} : col' = Staged(col, c, l)
      BY <1>0, <2>5 DEF Stage
    <3> QED
      BY <1>0, <3>1, AckWrites
  <2>6. CASE FinalizeApplies(c)
    BY <1>0, <2>6, AckWrites DEF FinalizeApplies
  <2>7. CASE SwitchRoot(c)
    <3>1. \A b \in BOOLEAN : KeepsAck(col, Remapped(col, c, b))
      BY <1>0, AckWrites
    <3>2. Online(c) \in BOOLEAN
      BY DEF Online
    <3> QED
      BY <2>7, <3>1, <3>2 DEF SwitchRoot
  <2>8. CASE CommandAttachEnds(c)
    BY <1>0, <2>8, AckWrites DEF CommandAttachEnds
  <2>9. CASE Fail(c)
    BY <1>0, <2>9, AckWrites DEF Fail
  <2>10. CASE col' = col
    BY <2>10 DEF KeepsAck
  <2> QED
    BY <2>1, <2>2, <2>3, <2>4, <2>5, <2>6, <2>7, <2>8, <2>9, <2>10
       DEF CommandStep, Works, Begin, ReadGeneration, GiveUp, Drain, Drained, Rename,
           FinalizeDecides, FinalizeFindsNone, CommandAttachBegins, Kill
<1>3. AckColumnsWritten'
  BY <1>1, <1>2 DEF AckInv, AckColumnsWritten, KeepsAck
<1>4. \A k \in Commands \ {c} : cmd'[k] = cmd[k]
  BY DEF CommandStep, Works, Begin, Mark, ReadGeneration, SeeAck, GiveUp, TakeLease, Drain,
         Drained, DrainHalts, Stage, Rename, FinalizeDecides, FinalizeApplies,
         FinalizeFindsNone, SwitchRoot, CommandAttachBegins, CommandAttachEnds, Fail, Kill
<1>5. /\ Admitted(c)' => <<cmd'[c].host, cmd'[c].gen>> \in acks
      /\ Online(c)' => cmd'[c].pc \notin {"attach", "attaching"}
      /\ cmd'[c].pc \in {"marked", "waiting"} => cmd'[c].host # None
  <2> USE DEF Admitted, Online, AckInv, AckIsExact, OnlineNeverAttaches, WaitsForASession, CommandRecords
  <2>1. CASE Begin(c)
    <3>1. cmd'[c].pc = "checked"
      BY <2>1 DEF Begin
    <3> QED
      BY <3>1
  <2>2. CASE Mark(c) \/ ReadGeneration(c)
    BY <2>2 DEF Mark, ReadGeneration
  <2>11. CASE GiveUp(c) \/ Fail(c) \/ Kill(c) \/ DrainHalts(c)
    <3>1. cmd'[c].pc = "failed"
      BY <2>11 DEF GiveUp, Fail, Kill, DrainHalts
    <3> QED
      BY <3>1
  <2>3. CASE SeeAck(c)
    <3>1. <<cmd[c].host, cmd[c].gen>> \in acks
      <4>1. cmd[c].host # None
        BY <2>3 DEF SeeAck, WaitsForASession
      <4> QED
        BY <2>3, <4>1 DEF SeeAck, AckColumnsWritten
    <3> QED
      BY <2>3, <3>1 DEF SeeAck
  <2>4. CASE TakeLease(c)
    BY <2>4 DEF TakeLease
  <2>5. CASE Drain(c) \/ Drained(c) \/ Stage(c) \/ Rename(c)
    BY <2>5 DEF Drain, Drained, Stage, Rename
  <2>6. CASE FinalizeDecides(c)
    BY <2>6 DEF FinalizeDecides
  <2>7. CASE FinalizeApplies(c)
    BY <2>7 DEF FinalizeApplies
  <2>8. CASE FinalizeFindsNone(c)
    BY <2>8 DEF FinalizeFindsNone
  <2>9. CASE SwitchRoot(c)
    BY <2>9 DEF SwitchRoot
  <2>10. CASE CommandAttachBegins(c) \/ CommandAttachEnds(c)
    BY <2>10 DEF CommandAttachBegins, CommandAttachEnds
  <2> QED
    BY <2>1, <2>2, <2>3, <2>4, <2>5, <2>6, <2>7, <2>8, <2>9, <2>10, <2>11 DEF CommandStep, Works
<1> QED
  BY <1>1, <1>3, <1>4, <1>5 DEF AckInv, AckIsExact, OnlineNeverAttaches, WaitsForASession,
                                Admitted, Online

LEMMA AckEnvironment ==
  ASSUME TypeInv, AckInv, Environment
  PROVE  AckInv'
<1>1. cmd' = cmd /\ acks' = acks
  BY DEF Environment, RestoreReset, ReconcileReset, MarkDirty, BeatLapses, ManifestAges,
         DamageTree, RepairTree, history, passes
<1>2. KeepsAck(col, col')
  <2>1. CASE RestoreReset
    BY <2>1, AckWrites DEF RestoreReset, TypeInv, TypeOK
  <2>2. CASE ~RestoreReset
    BY <2>2 DEF Environment, ReconcileReset, MarkDirty, BeatLapses, ManifestAges,
                DamageTree, RepairTree, KeepsAck, TypeInv, TypeOK, Rows
  <2> QED
    BY <2>1, <2>2
<1> QED
  BY <1>1, <1>2 DEF AckInv, AckIsExact, AckColumnsWritten, OnlineNeverAttaches,
                    WaitsForASession, Admitted,
                    Online, KeepsAck

\* Every step of every process keeps what an ack rests on.
LEMMA AckInvariant == Spec => []AckInv
<1>1. Init => AckInv
  BY DEF Init, Idle, AckInv, AckIsExact, AckColumnsWritten, OnlineNeverAttaches,
         WaitsForASession, Admitted, Online
<1>2. TypeInv /\ AckInv /\ [Next]_vars => AckInv'
  <2> SUFFICES ASSUME TypeInv, AckInv, [Next]_vars PROVE AckInv'
    OBVIOUS
  <2>1. CASE UNCHANGED vars
    BY <2>1 DEF vars, history, AckInv, AckIsExact, AckColumnsWritten, OnlineNeverAttaches,
         WaitsForASession, Admitted, Online
  <2>2. CASE Next
    BY <2>2, AckRuntime, AckCommand, AckEnvironment DEF Next
  <2> QED
    BY <2>1, <2>2
<1> QED
  BY <1>1, <1>2, TypeInvariant, PTL DEF Spec

\* No command of any number of them, racing any number of runtimes, proceeds past
\* the handshake without an ack of exactly the session and the generation it waits
\* for (mark_collection_restoring_for_handshake, wait_for_exact_ack,
\* write_supervisor_ack_if_needed).
THEOREM HandshakeIsExact == Spec => []AckIsExact
<1>1. AckInv => AckIsExact
  BY DEF AckInv
<1> QED
  BY <1>1, AckInvariant, PTL

-----------------------------------------------------------------------------
(* One command that moves the vault, and any number of runtimes and of      *)
(* `--finalize-pending` commands that may conclude it.  Two commands that   *)
(* move the vault at once break both theorems below (README, findings).     *)

OnlyMover(m) == \A c \in Commands \ {m} : Jobs[c] \subseteq {"finalize"}

\* m announced its directory, or ended: it writes no fresh heartbeat any more
PastStaging(m) ==
  cmd[m].pc \in {"staged", "renamed", "finalizing", "attach", "attaching", "done", "failed"}

Concluding == {"orphan", "abort", "commit"}

\* Commands do what they were asked; only the mover's directory is ever pending.
OnlyMoverStages(m) ==
  /\ \A c \in Commands : cmd[c].job \in Jobs[c] \cup {None}
  /\ \A c \in Commands : cmd[c].pc \in {"staged", "renamed"} => Restores(c)
  /\ col.pending \in {m, None}
  /\ col.command \in {m, None}

\* A verdict to commit, however old, is about a directory that was compared.
CommitsAreVerified(m) ==
  /\ RootIsVerified
  /\ \A r \in Runtimes : rt[r].plan = "commit" => m \in verified
  /\ \A c \in Commands : cmd[c].plan = "commit" => m \in verified

\* A verdict another actor than the mover still has to apply was reached on a
\* heartbeat that had lapsed, and no later step makes it fresh again.
OthersConcludeLate(m) ==
  /\ col.pending # None \/ col.command # None => PastStaging(m)
  /\ \A r \in Runtimes : rt[r].pc = "finalizing" /\ rt[r].plan \in Concluding =>
       col.beat # "fresh" /\ PastStaging(m)
  /\ \A c \in Commands \ {m} : cmd[c].pc = "finalizing" /\ cmd[c].plan \in Concluding =>
       col.beat # "fresh" /\ PastStaging(m)

MoverInv(m) == OnlyMoverStages(m) /\ CommitsAreVerified(m) /\ OthersConcludeLate(m)

\* What each statement does to the columns these invariants read.
LEMMA RowColumns ==
  ASSUME NEW c \in Rows
  PROVE  /\ Marked(c).pending = c.pending /\ Marked(c).command = c.command
         /\ Marked(c).root = c.root
         /\ \A k \in Commands, l \in Sessions \cup {None} :
              LET s == Staged(c, k, l) IN
              s.pending = k /\ s.command = k /\ s.root = c.root
         /\ \A k \in Commands, b \in BOOLEAN :
              LET s == Remapped(c, k, b) IN
              /\ s.pending = c.pending /\ s.command = c.command /\ s.root = k
              /\ s.beat = "fresh" => c.beat = "fresh"
         /\ \A k \in Commands :
              LET s == Unleased(c, k) IN
              s.pending = c.pending /\ s.command = c.command /\ s.root = c.root /\ s.beat = c.beat
         /\ LET s == Attached(c) IN
              s.pending = c.pending /\ s.command = c.command /\ s.root = c.root /\ s.beat = c.beat
         /\ LET s == Reset(c) IN
              s.pending = None /\ s.command = None /\ s.root = c.root /\ s.beat # "fresh"
         /\ \A p \in Plans :
              LET s == Finalized(c, p) IN
              /\ s.pending \in {c.pending, None}
              /\ s.command \in {c.command, None}
              /\ p \notin Concluding => s.pending = c.pending
              /\ s.root = c.root \/ (p = "commit" /\ c.pending # None /\ s.root = c.pending)
              /\ s.beat = "fresh" => c.beat = "fresh"
<1>1. Marked(c).pending = c.pending /\ Marked(c).command = c.command /\ Marked(c).root = c.root
  BY DEF Rows, Marked
<1>2. \A k \in Commands, l \in Sessions \cup {None} :
        LET s == Staged(c, k, l) IN s.pending = k /\ s.command = k /\ s.root = c.root
  BY DEF Rows, Staged
<1>3. \A k \in Commands, b \in BOOLEAN :
        LET s == Remapped(c, k, b) IN
        /\ s.pending = c.pending /\ s.command = c.command /\ s.root = k
        /\ s.beat = "fresh" => c.beat = "fresh"
  BY DEF Rows, Remapped
<1>4. \A k \in Commands :
        LET s == Unleased(c, k) IN
        s.pending = c.pending /\ s.command = c.command /\ s.root = c.root /\ s.beat = c.beat
  BY DEF Rows, Unleased
<1>5. LET s == Attached(c) IN
        s.pending = c.pending /\ s.command = c.command /\ s.root = c.root /\ s.beat = c.beat
  BY DEF Rows, Attached
<1>6. LET s == Reset(c) IN
        s.pending = None /\ s.command = None /\ s.root = c.root /\ s.beat # "fresh"
  BY DEF Rows, Reset
<1>7. LET s == TxB(c) IN
        /\ s.pending = None
        /\ s.command \in {c.command, None}
        /\ s.root = c.root \/ (c.pending # None /\ s.root = c.pending)
        /\ s.beat = "fresh" => c.beat = "fresh"
  BY DEF Rows, TxB
<1>8. LET s == Reverted(c) IN
        s.pending = None /\ s.command = None /\ s.root = c.root /\ s.beat # "fresh"
  BY DEF Rows, Reverted
<1>9. ASSUME NEW p \in Plans
      PROVE  LET s == Finalized(c, p) IN
             /\ s.pending \in {c.pending, None}
             /\ s.command \in {c.command, None}
             /\ p \notin Concluding => s.pending = c.pending
             /\ s.root = c.root \/ (p = "commit" /\ c.pending # None /\ s.root = c.pending)
             /\ s.beat = "fresh" => c.beat = "fresh"
  <2>1. CASE p \in Concluding
    BY <1>7, <1>8, <2>1 DEF Finalized, Concluding
  <2>2. CASE p \notin Concluding
    BY <2>2 DEF Finalized, Concluding, Rows
  <2> QED
    BY <2>1, <2>2
<1> QED
  BY <1>1, <1>2, <1>3, <1>4, <1>5, <1>6, <1>9

\* The sides of the row the mover's invariants read are left alone.
SameColumns == /\ col'.pending = col.pending
               /\ col'.command = col.command
               /\ col'.root = col.root
               /\ col'.beat = "fresh" => col.beat = "fresh"

LEMMA VerdictFacts ==
  ASSUME TypeOK
  PROVE  /\ \A b \in BOOLEAN : Verdict(b) = "commit" =>
              col.pending # None /\ col.pending \in VerifiedBy("commit")
         /\ Verdict(FALSE) \in Concluding => col.beat # "fresh"
         /\ \A p \in Plans : verified \subseteq VerifiedBy(p)
<1>1. \A c \in Commands : Compared(c) = "commit" => tree[c] = "complete"
  BY DEF TypeOK, Compared
<1>2. col.pending \in Commands \cup {None}
  BY DEF TypeOK, Rows
<1>3. \A b \in BOOLEAN : Verdict(b) = "commit" =>
        col.pending # None /\ tree[col.pending] = "complete"
  BY <1>1, <1>2 DEF Verdict, Concluded
<1>4. Verdict(FALSE) \in Concluding => col.beat # "fresh"
  BY DEF Verdict, Concluding
<1> QED
  BY <1>2, <1>3, <1>4 DEF VerifiedBy

LEMMA MoverRuntime ==
  ASSUME NEW m \in Commands, OnlyMover(m), TypeInv, MoverInv(m),
         NEW r \in Runtimes, RuntimeStep(r)
  PROVE  MoverInv(m)' /\ ConcludedByOriginator
<1> USE DEF TypeInv, TypeOK, history, passes, PassBegins, PassEnds, RootSwitched, Goto
<1>0. col \in Rows /\ rt[r].plan \in Plans
  BY DEF RuntimeRecords
<1>1. cmd' = cmd
  BY DEF RuntimeStep, Tick, StartRuntime, StartServeHost, StartDaemon, LoadGenerations,
         Observe, Observes, RcrtFinalize, RcrtApply,
         RcrtAttach, RcrtSkips, AttachBegins, AttachRefused, AttachEnds, AttachHalts,
         SyncHandles, RecoverBegins, RecoverEnds, Crash, StopRuntime, HeartbeatLapses
<1>2. CASE RcrtFinalize(r)
  <2>1. /\ col' = col
        /\ rt' = [rt EXCEPT ![r].pc = "finalizing", ![r].plan = Verdict(FALSE)]
        /\ verified' = VerifiedBy(Verdict(FALSE))
        /\ AwaitsFinalize
    BY <1>2 DEF RcrtFinalize
  <2>2. Verdict(FALSE) = "commit" => m \in verified'
    BY <2>1, VerdictFacts DEF MoverInv, OnlyMoverStages
  <2>3. Verdict(FALSE) \in Concluding => col.beat # "fresh" /\ PastStaging(m)
    BY <2>1, VerdictFacts DEF MoverInv, OthersConcludeLate, AwaitsFinalize
  <2>4. verified \subseteq verified'
    BY <2>1, VerdictFacts, ReadTypes
  <2>5. CommitsAreVerified(m)'
    <3>1. \A q \in Runtimes : rt'[q].plan = IF q = r THEN Verdict(FALSE) ELSE rt[q].plan
      BY <2>1 DEF RuntimeRecords
    <3>2. (\A q \in Runtimes : rt[q].plan = "commit" => m \in verified) /\ RootIsVerified
      BY DEF MoverInv, CommitsAreVerified
    <3>3. \A q \in Runtimes : rt'[q].plan = "commit" => m \in verified'
      BY <2>2, <2>4, <3>1, <3>2
    <3>4. RootIsVerified' /\ \A c \in Commands : cmd'[c].plan = "commit" => m \in verified'
      BY <1>1, <2>1, <2>4 DEF MoverInv, CommitsAreVerified, RootIsVerified
    <3> QED
      BY <3>3, <3>4 DEF CommitsAreVerified
  <2>6. OthersConcludeLate(m)'
    BY <1>1, <2>1, <2>3 DEF MoverInv, OthersConcludeLate, PastStaging, RuntimeRecords
  <2>7. OnlyMoverStages(m)'
    BY <1>1, <2>1 DEF MoverInv, OnlyMoverStages, Restores
  <2> QED
    BY <2>1, <2>5, <2>6, <2>7 DEF MoverInv, ConcludedByOriginator
<1>3. CASE RcrtApply(r)
  <2>1. /\ col' = Finalized(col, rt[r].plan)
        /\ verified' = verified
        /\ rt[r].pc = "finalizing"
        /\ \A q \in Runtimes : /\ rt'[q].plan = rt[q].plan
                               /\ rt'[q].pc = "finalizing" => rt[q].pc = "finalizing"
    BY <1>3 DEF RcrtApply, RuntimeRecords
  <2>2. /\ col'.pending \in {col.pending, None}
        /\ col'.command \in {col.command, None}
        /\ rt[r].plan \notin Concluding => col'.pending = col.pending
        /\ col'.root = col.root
             \/ (rt[r].plan = "commit" /\ col.pending # None /\ col'.root = col.pending)
        /\ col'.beat = "fresh" => col.beat = "fresh"
    BY <1>0, <2>1, RowColumns
  <2>3. CommitsAreVerified(m)'
    BY <1>1, <2>1, <2>2 DEF MoverInv, CommitsAreVerified, OnlyMoverStages, RootIsVerified
  <2>4. OthersConcludeLate(m)'
    BY <1>1, <2>1, <2>2 DEF MoverInv, OthersConcludeLate, PastStaging
  <2>5. OnlyMoverStages(m)'
    BY <1>1, <2>2 DEF MoverInv, OnlyMoverStages, Restores
  <2>6. ConcludedByOriginator
    BY <2>1, <2>2 DEF MoverInv, OthersConcludeLate, ConcludedByOriginator
  <2> QED
    BY <2>3, <2>4, <2>5, <2>6 DEF MoverInv
<1>4. CASE ~(RcrtFinalize(r) \/ RcrtApply(r))
  <2>1. SameColumns
    <3>1. CASE AttachEnds(r)
      BY <1>0, <3>1, RowColumns DEF AttachEnds, SameColumns
    <3>2. CASE Observe(r)
      <4>1. \/ col' = col
            \/ col' = [col EXCEPT !.ackBy = r, !.ackGen = col.gen]
        BY <3>2 DEF Observe, Observes
      <4> QED
        BY <1>0, <4>1 DEF SameColumns, Rows
    <3>3. CASE AttachHalts(r) \/ RecoverEnds(r) \/ StopRuntime(r) \/ StartRuntime(r)
      BY <1>0, <3>3 DEF AttachHalts, RecoverEnds, StopRuntime, StartRuntime, StartServeHost,
                        StartDaemon, SameColumns, Rows
    <3>4. CASE col' = col
      BY <3>4 DEF SameColumns
    <3> QED
      BY <1>4, <3>1, <3>2, <3>3, <3>4
         DEF RuntimeStep, Tick, StartRuntime, StartServeHost, StartDaemon, LoadGenerations,
             RcrtAttach, RcrtSkips,
             AttachBegins, AttachRefused, SyncHandles, RecoverBegins, Crash, HeartbeatLapses
  <2>2. /\ verified' = verified
        /\ \A q \in Runtimes : /\ rt'[q].plan \in {rt[q].plan, "none"}
                               /\ rt'[q].pc = "finalizing" =>
                                    rt[q].pc = "finalizing" /\ rt'[q].plan = rt[q].plan
    <3>1. CASE Crash(r) \/ StopRuntime(r)
      BY <3>1 DEF Crash, StopRuntime, Gone, NotStarted
    <3>2. CASE Observe(r)
      <4>1. PICK h \in {None, rt[r].handle} :
              rt' = [rt EXCEPT ![r].pc = "rcrt", ![r].last = col.gen, ![r].handle = h]
        BY <3>2 DEF Observe, Observes
      <4> QED
        BY <3>2, <4>1 DEF Observe, Observes, RuntimeRecords
    <3>3. CASE StartRuntime(r) \/ LoadGenerations(r) \/ RcrtAttach(r) \/ RcrtSkips(r)
               \/ AttachBegins(r)
      BY <3>3 DEF StartRuntime, StartServeHost, StartDaemon, LoadGenerations, RcrtAttach,
                  RcrtSkips, AttachBegins, RuntimeRecords
    <3>4. CASE AttachRefused(r) \/ AttachEnds(r) \/ AttachHalts(r) \/ SyncHandles(r)
      BY <3>4 DEF AttachRefused, AttachEnds, AttachHalts, SyncHandles, RuntimeRecords
    <3>5. CASE RecoverBegins(r) \/ RecoverEnds(r) \/ HeartbeatLapses(r)
      BY <3>5 DEF RecoverBegins, RecoverEnds, HeartbeatLapses, RuntimeRecords
    <3> QED
      BY <1>4, <3>1, <3>2, <3>3, <3>4, <3>5 DEF RuntimeStep, Tick
  <2>3. CommitsAreVerified(m)'
    BY <1>1, <2>1, <2>2 DEF SameColumns, MoverInv, CommitsAreVerified, RootIsVerified
  <2>4. OthersConcludeLate(m)'
    BY <1>1, <2>1, <2>2 DEF SameColumns, MoverInv, OthersConcludeLate, PastStaging
  <2>5. OnlyMoverStages(m)'
    BY <1>1, <2>1 DEF SameColumns, MoverInv, OnlyMoverStages, Restores
  <2> QED
    BY <2>1, <2>3, <2>4, <2>5 DEF MoverInv, SameColumns, ConcludedByOriginator
<1> QED
  BY <1>2, <1>3, <1>4

LEMMA MoverCommand ==
  ASSUME NEW m \in Commands, OnlyMover(m), TypeInv, MoverInv(m),
         NEW c \in Commands, CommandStep(c)
  PROVE  MoverInv(m)' /\ ConcludedByOriginator
<1> USE DEF TypeInv, TypeOK, history, passes, PassBegins, PassEnds, RootSwitched
<1>0. /\ col \in Rows
      /\ cmd[c] \in CommandRecords
      /\ cmd[c].plan \in Plans
      /\ m \in Roots /\ c \in Roots
      /\ None \notin Commands
  BY ActorsAreDistinct DEF CommandRecords, Roots, Sessions
<1>1. /\ rt' = rt
      /\ \A k \in Commands \ {c} : cmd'[k] = cmd[k]
  BY DEF CommandStep, Works, Begin, Mark, ReadGeneration, SeeAck, GiveUp, TakeLease, Drain,
         Drained, DrainHalts, Stage, Rename, FinalizeDecides, FinalizeApplies,
         FinalizeFindsNone, SwitchRoot, CommandAttachBegins, CommandAttachEnds, Fail, Kill
<1>2. c # m => cmd[c].job \in {"finalize", None}
  BY DEF MoverInv, OnlyMoverStages, OnlyMover
<1>3. c # m => ~Restores(c) /\ ~Remaps(c) /\ ~Online(c)
  BY <1>2, ActorsAreDistinct DEF Restores, Remaps, Online, AllJobs
<1>4. Online(c) \/ Restores(c) \/ Remaps(c) => c = m
  BY <1>3
\* a step that leaves the columns, the history and every plan alone
<1>5. ASSUME SameColumns,
             verified \subseteq verified',
             col'.root \in verified',
             cmd'[c].plan = cmd[c].plan,
             cmd'[c].job \in Jobs[c] \cup {None},
             cmd'[c].pc \in {"staged", "renamed"} => Restores(c)',
             cmd'[c].pc = "finalizing" => cmd[c].pc = "finalizing",
             c = m /\ PastStaging(m) => PastStaging(m)'
      PROVE  MoverInv(m)' /\ ConcludedByOriginator
  <2>1. OnlyMoverStages(m)'
    BY <1>1, <1>5 DEF MoverInv, OnlyMoverStages, SameColumns, Restores
  <2>2. CommitsAreVerified(m)'
    BY <1>1, <1>5 DEF MoverInv, CommitsAreVerified, SameColumns, RootIsVerified
  <2>3. PastStaging(m) => PastStaging(m)'
    BY <1>1, <1>5 DEF PastStaging
  <2>4. OthersConcludeLate(m)'
    BY <1>1, <1>5, <2>3 DEF MoverInv, OthersConcludeLate, SameColumns
  <2> QED
    BY <1>5, <2>1, <2>2, <2>4 DEF MoverInv, SameColumns, ConcludedByOriginator
<1>6. cmd[c].job \in Jobs[c] \cup {None} /\ RootIsVerified
  BY DEF MoverInv, OnlyMoverStages, CommitsAreVerified
<1> USE DEF CommandRecords, PastStaging, Restores
<1>7. CASE Begin(c)
  <2>1. PICK job \in Jobs[c] : cmd' = [cmd EXCEPT ![c].pc = "checked", ![c].job = job]
    BY <1>7 DEF Begin
  <2> QED
    BY <1>0, <1>5, <1>6, <1>7, <2>1 DEF Begin, SameColumns, RootIsVerified
<1>8. CASE ReadGeneration(c) \/ GiveUp(c) \/ Drain(c) \/ Drained(c) \/ Kill(c)
  BY <1>0, <1>5, <1>6, <1>8
     DEF ReadGeneration, GiveUp, Drain, Drained, Kill, SameColumns, RootIsVerified
<1>9. CASE SeeAck(c) \/ TakeLease(c) \/ DrainHalts(c)
  <2>1. SameColumns
    <3>1. CASE SeeAck(c)
      BY <1>0, <3>1 DEF SeeAck, SameColumns, Rows
    <3>2. CASE TakeLease(c)
      BY <1>0, <3>2 DEF TakeLease, SameColumns, Rows
    <3>3. CASE DrainHalts(c)
      BY <1>0, <3>3 DEF DrainHalts, Unleased, SameColumns, Rows
    <3> QED
      BY <1>9, <3>1, <3>2, <3>3
  <2>2. verified' = verified /\ col'.root \in verified'
    BY <1>6, <1>9, <2>1 DEF SeeAck, TakeLease, DrainHalts, SameColumns, RootIsVerified
  <2> QED
    BY <1>0, <1>5, <1>6, <1>9, <2>1, <2>2 DEF SeeAck, TakeLease, DrainHalts
<1>10. CASE Fail(c)
  <2>1. SameColumns
    BY <1>0, <1>10, RowColumns DEF Fail, SameColumns
  <2> QED
    BY <1>0, <1>5, <1>6, <1>10, <2>1 DEF Fail, SameColumns, RootIsVerified
<1>11. CASE FinalizeFindsNone(c) \/ CommandAttachBegins(c)
  BY <1>0, <1>5, <1>6, <1>11
     DEF FinalizeFindsNone, CommandAttachBegins, SameColumns, RootIsVerified
<1>12. CASE CommandAttachEnds(c)
  <2>1. SameColumns
    <3>1. Attached(col) \in Rows
      BY <1>0, RowWrites
    <3> QED
      BY <1>0, <1>12, <3>1, RowColumns DEF CommandAttachEnds, SameColumns
  <2> QED
    BY <1>0, <1>5, <1>6, <1>12, <2>1 DEF CommandAttachEnds, SameColumns, RootIsVerified
<1>13. CASE Rename(c)
  BY <1>0, <1>5, <1>6, <1>13
     DEF Rename, SameColumns, RootIsVerified, MoverInv, OnlyMoverStages
<1>14. CASE Mark(c)
  <2>1. /\ c = m
        /\ ~PastStaging(m)
        /\ cmd' = [cmd EXCEPT ![m].pc = "marked", ![m].host = LiveOwner]
        /\ col' = Marked(col)
        /\ verified' = verified
    BY <1>4, <1>14 DEF Mark
  <2>2. col'.pending = None /\ col'.command = None /\ col'.root = col.root
    BY <1>0, <2>1, RowColumns DEF MoverInv, OthersConcludeLate
  <2>3. OnlyMoverStages(m)'
    BY <1>0, <1>1, <2>1, <2>2 DEF MoverInv, OnlyMoverStages
  <2>4. CommitsAreVerified(m)'
    BY <1>0, <1>1, <2>1, <2>2 DEF MoverInv, CommitsAreVerified, RootIsVerified
  <2>5. OthersConcludeLate(m)'
    BY <1>0, <1>1, <2>1, <2>2 DEF MoverInv, OthersConcludeLate
  <2>6. ConcludedByOriginator
    BY <2>1 DEF MoverInv, OthersConcludeLate, ConcludedByOriginator
  <2> QED
    BY <2>3, <2>4, <2>5, <2>6 DEF MoverInv
<1>15. CASE Stage(c)
  <2>1. /\ c = m
        /\ ~PastStaging(m)
        /\ Restores(m)
        /\ cmd' = [cmd EXCEPT ![m].pc = "staged"]
        /\ verified' = verified
    BY <1>4, <1>15 DEF Stage
  <2>2. col'.pending = m /\ col'.command = m /\ col'.root = col.root
    <3>1. PICK l \in Sessions \cup {None} : col' = Staged(col, m, l)
      BY <1>0, <1>15, <2>1 DEF Stage, Rows
    <3> QED
      BY <1>0, <3>1, RowColumns
  <2>3. OnlyMoverStages(m)'
    BY <1>0, <1>1, <2>1, <2>2 DEF MoverInv, OnlyMoverStages
  <2>4. CommitsAreVerified(m)'
    BY <1>0, <1>1, <2>1, <2>2 DEF MoverInv, CommitsAreVerified, RootIsVerified
  <2>5. OthersConcludeLate(m)'
    BY <1>0, <1>1, <2>1, <2>2 DEF MoverInv, OthersConcludeLate
  <2>6. ConcludedByOriginator
    BY <2>1 DEF MoverInv, OthersConcludeLate, ConcludedByOriginator
  <2> QED
    BY <2>3, <2>4, <2>5, <2>6 DEF MoverInv
<1>16. CASE FinalizeDecides(c)
  <2> DEFINE v == Verdict(Restores(c) /\ col.command = c)
  <2>1. /\ col' = col
        /\ cmd' = [cmd EXCEPT ![c].pc = "finalizing", ![c].plan = v]
        /\ verified' = VerifiedBy(v)
    BY <1>16 DEF FinalizeDecides
  <2>2. v \in Plans
    BY ReadTypes
  <2>3. v = "commit" => m \in verified'
    <3>1. v = "commit" => col.pending # None /\ col.pending \in VerifiedBy("commit")
      BY VerdictFacts
    <3> QED
      BY <2>1, <3>1 DEF MoverInv, OnlyMoverStages
  <2>4. verified \subseteq verified'
    BY <2>1, <2>2, VerdictFacts
  <2>5. c # m => cmd[c].pc # "renamed"
    BY <1>3 DEF MoverInv, OnlyMoverStages
  <2>6. c # m /\ v \in Concluding => col.beat # "fresh" /\ PastStaging(m)
    <3>1. c # m => AwaitsFinalize /\ v = Verdict(FALSE)
      BY <1>3, <1>16, <2>5 DEF FinalizeDecides
    <3> QED
      BY <3>1, VerdictFacts DEF MoverInv, OthersConcludeLate, AwaitsFinalize
  <2>7. PastStaging(m) => PastStaging(m)'
    BY <1>0, <1>1, <2>1
  <2>8. OnlyMoverStages(m)'
    BY <1>0, <1>1, <2>1 DEF MoverInv, OnlyMoverStages
  <2>9. CommitsAreVerified(m)'
    <3>1. /\ col.root \in verified'
          /\ \A r \in Runtimes : rt[r].plan = "commit" => m \in verified'
          /\ \A k \in Commands \ {c} : cmd[k].plan = "commit" => m \in verified'
      BY <2>4 DEF MoverInv, CommitsAreVerified, RootIsVerified
    <3>2. cmd'[c].plan = v
      BY <1>0, <2>1
    <3> HIDE DEF v
    <3> QED
      BY <1>1, <2>1, <2>3, <3>1, <3>2 DEF CommitsAreVerified, RootIsVerified
  <2>10. OthersConcludeLate(m)'
    <3>1. cmd'[c].plan = v
      BY <1>0, <2>1
    <3> HIDE DEF v
    <3> QED
      BY <1>1, <2>1, <2>6, <2>7, <3>1 DEF MoverInv, OthersConcludeLate
  <2> QED
    BY <2>1, <2>8, <2>9, <2>10 DEF MoverInv, ConcludedByOriginator
<1>17. CASE FinalizeApplies(c)
  <2> DEFINE f == Finalized(col, cmd[c].plan)
  <2>1. /\ cmd[c].pc = "finalizing"
        /\ col' \in {f, Unleased(f, c)}
        /\ cmd'[c].pc \in {"attach", "done"}
        /\ cmd'[c].plan = cmd[c].plan
        /\ cmd'[c].job = cmd[c].job
        /\ verified' = verified
    BY <1>0, <1>17 DEF FinalizeApplies
  <2>2. /\ f \in Rows
        /\ f.pending \in {col.pending, None}
        /\ f.command \in {col.command, None}
        /\ cmd[c].plan \notin Concluding => f.pending = col.pending
        /\ f.root = col.root
             \/ (cmd[c].plan = "commit" /\ col.pending # None /\ f.root = col.pending)
        /\ f.beat = "fresh" => col.beat = "fresh"
    BY <1>0, FinalizedRow, RowColumns
  <2> HIDE DEF f
  <2>3. /\ col'.pending = f.pending
        /\ col'.command = f.command
        /\ col'.root = f.root
        /\ col'.beat = f.beat
    BY <2>1, <2>2, RowColumns
  <2>4. PastStaging(m) => PastStaging(m)'
    BY <1>1, <2>1
  <2>5. OnlyMoverStages(m)'
    BY <1>1, <2>1, <2>2, <2>3 DEF MoverInv, OnlyMoverStages
  <2>6. CommitsAreVerified(m)'
    BY <1>1, <2>1, <2>2, <2>3 DEF MoverInv, CommitsAreVerified, OnlyMoverStages, RootIsVerified
  <2>7. OthersConcludeLate(m)'
    BY <1>1, <2>1, <2>2, <2>3, <2>4 DEF MoverInv, OthersConcludeLate
  <2>8. ConcludedByOriginator
    <3>1. CASE c = m
      BY <1>0, <2>1, <3>1 DEF MoverInv, OnlyMoverStages, ConcludedByOriginator
    <3>2. CASE c # m
      BY <2>1, <2>2, <2>3, <3>2 DEF MoverInv, OthersConcludeLate, ConcludedByOriginator
    <3> QED
      BY <3>1, <3>2
  <2> QED
    BY <2>5, <2>6, <2>7, <2>8 DEF MoverInv
<1>18. CASE SwitchRoot(c)
  <2>1. /\ c = m
        /\ cmd'[c].pc \in {"done", "attach"}
        /\ cmd'[c].plan = cmd[c].plan
        /\ cmd'[c].job = cmd[c].job
        /\ verified' = verified \cup {m}
    BY <1>0, <1>4, <1>18 DEF SwitchRoot
  <2>2. /\ col'.pending = col.pending /\ col'.command = col.command /\ col'.root = m
        /\ col'.beat = "fresh" => col.beat = "fresh"
    <3>1. Online(c) \in BOOLEAN
      BY DEF Online
    <3> QED
      BY <1>0, <1>18, <2>1, <3>1, RowColumns DEF SwitchRoot
  <2>3. OnlyMoverStages(m)'
    BY <1>1, <2>1, <2>2 DEF MoverInv, OnlyMoverStages
  <2>4. CommitsAreVerified(m)'
    BY <1>1, <2>1, <2>2 DEF MoverInv, CommitsAreVerified, RootIsVerified
  <2>5. OthersConcludeLate(m)'
    BY <1>1, <2>1, <2>2 DEF MoverInv, OthersConcludeLate
  <2> QED
    BY <2>2, <2>3, <2>4, <2>5 DEF MoverInv, ConcludedByOriginator
<1> QED
  BY <1>7, <1>8, <1>9, <1>10, <1>11, <1>12, <1>13, <1>14, <1>15, <1>16, <1>17, <1>18
     DEF CommandStep, Works

LEMMA MoverEnvironment ==
  ASSUME NEW m \in Commands, OnlyMover(m), TypeInv, MoverInv(m), Environment
  PROVE  MoverInv(m)' /\ ConcludedByOriginator
<1>1. cmd' = cmd /\ rt' = rt /\ verified' = verified
  BY DEF Environment, RestoreReset, ReconcileReset, MarkDirty, BeatLapses, ManifestAges,
         DamageTree, RepairTree, history, passes
<1>2. /\ col'.pending = col.pending \/ (col.integrity /\ col'.pending = None)
      /\ col'.command \in {col.command, None}
      /\ col'.root = col.root
      /\ col'.beat = "fresh" => col.beat = "fresh"
  <2>1. CASE RestoreReset
    BY <2>1, RowColumns DEF RestoreReset, TypeInv, TypeOK
  <2>2. CASE ~RestoreReset
    BY <2>2 DEF Environment, ReconcileReset, MarkDirty, BeatLapses, ManifestAges,
                DamageTree, RepairTree, TypeInv, TypeOK, Rows
  <2> QED
    BY <2>1, <2>2
<1>3. OnlyMoverStages(m)'
  BY <1>1, <1>2 DEF MoverInv, OnlyMoverStages, Restores
<1>4. CommitsAreVerified(m)'
  BY <1>1, <1>2 DEF MoverInv, CommitsAreVerified, RootIsVerified
<1>5. OthersConcludeLate(m)'
  BY <1>1, <1>2 DEF MoverInv, OthersConcludeLate, PastStaging
<1> QED
  BY <1>2, <1>3, <1>4, <1>5 DEF MoverInv, ConcludedByOriginator

LEMMA MoverInvariant ==
  ASSUME NEW m \in Commands, OnlyMover(m)
  PROVE  Spec => [](TypeInv /\ MoverInv(m))
<1>1. Init => MoverInv(m)
  BY ActorsAreDistinct
     DEF Init, Idle, NotStarted, MoverInv, OnlyMoverStages, CommitsAreVerified,
         OthersConcludeLate, RootIsVerified
<1>2. TypeInv /\ MoverInv(m) /\ [Next]_vars => MoverInv(m)'
  <2> SUFFICES ASSUME TypeInv, MoverInv(m), [Next]_vars PROVE MoverInv(m)'
    OBVIOUS
  <2>1. CASE UNCHANGED vars
    BY <2>1 DEF vars, history, MoverInv, OnlyMoverStages, CommitsAreVerified, OthersConcludeLate,
                RootIsVerified, PastStaging, Restores
  <2>2. CASE Next
    BY <2>2, MoverRuntime, MoverCommand, MoverEnvironment DEF Next
  <2> QED
    BY <2>1, <2>2
<1> QED
  BY <1>1, <1>2, TypeInvariant, PTL DEF Spec

\* With one command that moves the vault, whoever concludes it and whenever, the
\* collection is only ever attached to a directory that was found complete
\* (finalize_pending_restore, run_tx_b, remap_collection).
THEOREM RootAlwaysVerified ==
  ASSUME NEW m \in Commands, OnlyMover(m)
  PROVE  Spec => []RootIsVerified
<1>1. MoverInv(m) => RootIsVerified
  BY DEF MoverInv, CommitsAreVerified
<1> QED
  BY <1>1, MoverInvariant, PTL

\* With one command that moves the vault, no runtime and no other command ends
\* its pending restore while its heartbeat is fresh, although the verdict and the
\* statement that carries it out are separate steps (finalize_pending_restore).
THEOREM OnlyTheOriginatorConcludes ==
  ASSUME NEW m \in Commands, OnlyMover(m)
  PROVE  Spec => OriginatorConcludes
<1>1. TypeInv /\ MoverInv(m) /\ [Next]_vars => [ConcludedByOriginator]_vars
  BY MoverRuntime, MoverCommand, MoverEnvironment DEF Next
<1> QED
  BY <1>1, MoverInvariant, PTL DEF Spec, OriginatorConcludes

-----------------------------------------------------------------------------
(* A pending directory and the state of the collection: one command that    *)
(* moves the vault, any number of runtimes and of hand finalizers, and no   *)
(* needs_full_sync mark after the collection was closed.                    *)

Settling == {"draining", "safe"}

\* While a directory is pending, and before it in the last steps of a restore, the
\* collection is closed and owes no sync: no attach under way can open it.
ClosedWhileStaging(m) ==
  /\ col.pending # None => col.state = "restoring" /\ ~col.sync
  /\ Restores(m) /\ cmd[m].pc \in Settling => col.state = "restoring" /\ ~col.sync

\* An integrity failure, found or still to be recorded, is about a staged directory:
\* no reset of an earlier one can open the collection before m announces its own.
FailuresAreLate(m) ==
  /\ col.integrity => PastStaging(m)
  /\ \A r \in Runtimes : rt[r].pc = "finalizing" /\ rt[r].plan = "fail" => PastStaging(m)
  /\ \A c \in Commands : cmd[c].pc = "finalizing" /\ cmd[c].plan = "fail" => PastStaging(m)

ClosedInv(m) == ClosedWhileStaging(m) /\ FailuresAreLate(m)

SameGates == /\ col'.pending = col.pending
             /\ col'.state = col.state
             /\ col'.sync = col.sync
             /\ col'.integrity = col.integrity

\* What each statement does to the columns that open and close the collection.
LEMMA GateColumns ==
  ASSUME NEW c \in Rows
  PROVE  /\ LET s == Marked(c) IN
              /\ s.state = "restoring" /\ s.sync = c.sync /\ s.pending = c.pending
              /\ s.integrity = c.integrity /\ s.root = c.root /\ s.ackBy = None
         /\ \A k \in Commands, l \in Sessions \cup {None} :
              LET s == Staged(c, k, l) IN
              /\ s.state = c.state /\ s.sync = c.sync /\ s.pending = k
              /\ s.integrity = c.integrity /\ s.root = c.root
         /\ \A k \in Commands, b \in BOOLEAN :
              LET s == Remapped(c, k, b) IN
              /\ s.state = "restoring" /\ s.sync /\ s.pending = c.pending
              /\ s.integrity = c.integrity /\ s.root = k
         /\ \A k \in Commands :
              LET s == Unleased(c, k) IN
              /\ s.state = c.state /\ s.sync = c.sync /\ s.pending = c.pending
              /\ s.integrity = c.integrity /\ s.root = c.root /\ s.ackBy = c.ackBy
         /\ LET s == Attached(c) IN
              /\ ~s.sync
              /\ s.state = IF c.sync THEN "active" ELSE c.state
              /\ s.pending = c.pending /\ s.integrity = c.integrity /\ s.root = c.root
              /\ s.ackBy = c.ackBy
         /\ LET s == Reset(c) IN
              s.pending = None /\ ~s.integrity /\ ~s.sync /\ s.state = "active"
<1>1. LET s == Marked(c) IN
        /\ s.state = "restoring" /\ s.sync = c.sync /\ s.pending = c.pending
        /\ s.integrity = c.integrity /\ s.root = c.root /\ s.ackBy = None
  BY DEF Rows, Marked
<1>2. \A k \in Commands, l \in Sessions \cup {None} :
        LET s == Staged(c, k, l) IN
        /\ s.state = c.state /\ s.sync = c.sync /\ s.pending = k
        /\ s.integrity = c.integrity /\ s.root = c.root
  BY DEF Rows, Staged
<1>3. \A k \in Commands, b \in BOOLEAN :
        LET s == Remapped(c, k, b) IN
        /\ s.state = "restoring" /\ s.sync /\ s.pending = c.pending
        /\ s.integrity = c.integrity /\ s.root = k
  BY DEF Rows, Remapped
<1>4. \A k \in Commands :
        LET s == Unleased(c, k) IN
        /\ s.state = c.state /\ s.sync = c.sync /\ s.pending = c.pending
        /\ s.integrity = c.integrity /\ s.root = c.root /\ s.ackBy = c.ackBy
  BY DEF Rows, Unleased
<1>5. LET s == Attached(c) IN
        /\ ~s.sync
        /\ s.state = IF c.sync THEN "active" ELSE c.state
        /\ s.pending = c.pending /\ s.integrity = c.integrity /\ s.root = c.root
        /\ s.ackBy = c.ackBy
  BY DEF Rows, Attached
<1>6. LET s == Reset(c) IN s.pending = None /\ ~s.integrity /\ ~s.sync /\ s.state = "active"
  BY DEF Rows, Reset
<1> QED
  BY <1>1, <1>2, <1>3, <1>4, <1>5, <1>6

\* What the statement of a verdict does to them (run_tx_b, revert_orphan_restore_state,
\* revert_aborted_restore).
LEMMA FinalizedGates ==
  ASSUME NEW c \in Rows, NEW p \in Plans
  PROVE  LET s == Finalized(c, p) IN
         /\ p \notin Concluding =>
              s.state = c.state /\ s.sync = c.sync /\ s.pending = c.pending /\ s.root = c.root
         /\ p \in Concluding => s.pending = None
         /\ s.integrity => c.integrity \/ p = "fail"
         /\ s.root # c.root => s.sync /\ s.state = "restoring" /\ c.pending # None /\ p = "commit"
         /\ s.sync # c.sync => s.sync
         /\ s.pending = c.pending \/ p \in Concluding
<1>1. CASE p = "commit"
  BY <1>1 DEF Finalized, TxB, Rows, Concluding
<1>2. CASE p \in {"orphan", "abort"}
  BY <1>2 DEF Finalized, Reverted, Rows, Concluding
<1>3. CASE p \notin Concluding
  BY <1>3 DEF Finalized, Rows, Concluding
<1> QED
  BY <1>1, <1>2, <1>3 DEF Concluding

\* A verdict that a directory failed is a verdict about a pending one.
LEMMA FailVerdicts ==
  ASSUME TypeOK, NEW b \in BOOLEAN, Verdict(b) = "fail"
  PROVE  col.pending # None
BY DEF Verdict, Concluded

\* A runtime's step opens no collection with a pending directory: what it attaches owes a
\* sync, and what it concludes is no longer pending.
LEMMA ClosedRuntime ==
  ASSUME NEW m \in Commands, TypeInv, MoverInv(m), ClosedInv(m),
         NEW r \in Runtimes, RuntimeStep(r)
  PROVE  ClosedInv(m)'
<1> USE DEF TypeInv, TypeOK, history, passes, PassBegins, PassEnds, RootSwitched, Goto
<1>0. col \in Rows /\ rt[r] \in RuntimeRecords /\ rt[r].plan \in Plans
  BY DEF RuntimeRecords
<1>1. cmd' = cmd
  BY DEF RuntimeStep, Tick, StartRuntime, StartServeHost, StartDaemon, LoadGenerations,
         Observe, Observes, RcrtFinalize, RcrtApply,
         RcrtAttach, RcrtSkips, AttachBegins, AttachRefused, AttachEnds, AttachHalts,
         SyncHandles, RecoverBegins, RecoverEnds, Crash, StopRuntime, HeartbeatLapses
<1>2. PastStaging(m)' = PastStaging(m) /\ Restores(m)' = Restores(m)
  BY <1>1 DEF PastStaging, Restores
<1>3. cmd[m].pc \in Settling => ~PastStaging(m)
  BY DEF Settling, PastStaging
\* a step that reaches no verdict, and neither marks the collection nor closes it
<1>4. ASSUME \A q \in Runtimes : rt'[q].pc = "finalizing" =>
               rt[q].pc = "finalizing" /\ rt'[q].plan = rt[q].plan,
             col'.pending = col.pending,
             col'.integrity = col.integrity,
             \/ col'.state = col.state /\ col'.sync = col.sync
             \/ col.state = "active" /\ col'.state = "active"
             \/ col.sync
      PROVE  ClosedInv(m)'
  <2>1. FailuresAreLate(m)'
    BY <1>1, <1>2, <1>4 DEF ClosedInv, FailuresAreLate
  <2>2. ClosedWhileStaging(m)'
    BY <1>1, <1>2, <1>4 DEF ClosedInv, ClosedWhileStaging
  <2> QED
    BY <2>1, <2>2 DEF ClosedInv
<1>5. CASE RcrtFinalize(r)
  <2>1. /\ col' = col
        /\ rt' = [rt EXCEPT ![r].pc = "finalizing", ![r].plan = Verdict(FALSE)]
    BY <1>5 DEF RcrtFinalize
  <2>2. Verdict(FALSE) = "fail" => PastStaging(m)
    BY FailVerdicts DEF MoverInv, OthersConcludeLate
  <2>3. FailuresAreLate(m)'
    BY <1>1, <1>2, <2>1, <2>2 DEF ClosedInv, FailuresAreLate, RuntimeRecords
  <2>4. ClosedWhileStaging(m)'
    BY <1>1, <1>2, <2>1 DEF ClosedInv, ClosedWhileStaging
  <2> QED
    BY <2>3, <2>4 DEF ClosedInv
<1>6. CASE RcrtApply(r)
  <2>1. /\ rt[r].pc = "finalizing"
        /\ col' = Finalized(col, rt[r].plan)
        /\ \A q \in Runtimes : rt'[q].pc = "finalizing" =>
             rt[q].pc = "finalizing" /\ rt'[q].plan = rt[q].plan
    BY <1>6 DEF RcrtApply, RuntimeRecords
  <2>2. rt[r].plan \in Concluding => PastStaging(m)
    BY <2>1 DEF MoverInv, OthersConcludeLate
  <2>3. FailuresAreLate(m)'
    BY <1>0, <1>1, <1>2, <2>1, FinalizedGates DEF ClosedInv, FailuresAreLate
  <2>4. ClosedWhileStaging(m)'
    <3>1. CASE rt[r].plan \in Concluding
      BY <1>0, <1>1, <1>2, <1>3, <2>1, <2>2, <3>1, FinalizedGates DEF ClosedWhileStaging
    <3>2. CASE rt[r].plan \notin Concluding
      BY <1>0, <1>1, <1>2, <2>1, <3>2, FinalizedGates DEF ClosedInv, ClosedWhileStaging
    <3> QED
      BY <3>1, <3>2
  <2> QED
    BY <2>3, <2>4 DEF ClosedInv
<1>7. CASE AttachEnds(r) \/ RecoverEnds(r)
  <2>1. /\ col'.pending = col.pending
        /\ col'.integrity = col.integrity
        /\ \/ col'.state = col.state /\ col'.sync = col.sync
           \/ col.state = "active" /\ col'.state = "active"
           \/ col.sync
    <3>1. CASE AttachEnds(r)
      BY <1>0, <3>1, GateColumns DEF AttachEnds, Attached
    <3>2. CASE RecoverEnds(r)
      BY <1>0, <3>2 DEF RecoverEnds, Rows
    <3> QED
      BY <1>7, <3>1, <3>2
  <2>2. \A q \in Runtimes : rt'[q].pc = "finalizing" =>
          rt[q].pc = "finalizing" /\ rt'[q].plan = rt[q].plan
    BY <1>7 DEF AttachEnds, RecoverEnds, RuntimeRecords
  <2> QED
    BY <1>4, <2>1, <2>2
<1>8. CASE Observe(r)
  <2>1. PICK h \in {None, rt[r].handle} :
          /\ rt' = [rt EXCEPT ![r].pc = "rcrt", ![r].last = col.gen, ![r].handle = h]
          /\ col' \in {col, [col EXCEPT !.ackBy = r, !.ackGen = col.gen]}
    BY <1>8 DEF Observe, Observes
  <2>2. SameGates
    BY <1>0, <2>1 DEF SameGates, Rows
  <2>3. \A q \in Runtimes : rt'[q].pc = "finalizing" =>
          rt[q].pc = "finalizing" /\ rt'[q].plan = rt[q].plan
    BY <2>1 DEF RuntimeRecords
  <2> HIDE <2>1 DEF TypeInv, TypeOK
  <2> QED
    BY <1>4, <2>2, <2>3 DEF SameGates
<1>9. CASE ~(RcrtFinalize(r) \/ RcrtApply(r) \/ AttachEnds(r) \/ RecoverEnds(r) \/ Observe(r))
  <2>1. SameGates
    BY <1>0, <1>9 DEF RuntimeStep, Tick, StartRuntime, StartServeHost, StartDaemon,
                      LoadGenerations, RcrtAttach, RcrtSkips, AttachBegins, AttachRefused,
                      AttachHalts, SyncHandles, RecoverBegins, Crash, StopRuntime,
                      HeartbeatLapses, SameGates, Rows
  <2>2. \A q \in Runtimes : rt'[q].pc = "finalizing" =>
          rt[q].pc = "finalizing" /\ rt'[q].plan = rt[q].plan
    <3>1. CASE Crash(r) \/ StopRuntime(r)
      BY <3>1 DEF Crash, StopRuntime, Gone, NotStarted
    <3>2. CASE StartRuntime(r) \/ LoadGenerations(r) \/ RcrtAttach(r) \/ RcrtSkips(r)
               \/ AttachBegins(r)
      BY <3>2 DEF StartRuntime, StartServeHost, StartDaemon, LoadGenerations, RcrtAttach,
                  RcrtSkips, AttachBegins, RuntimeRecords
    <3>3. CASE AttachRefused(r) \/ AttachHalts(r) \/ SyncHandles(r) \/ RecoverBegins(r)
               \/ HeartbeatLapses(r)
      BY <3>3 DEF AttachRefused, AttachHalts, SyncHandles, RecoverBegins, HeartbeatLapses,
                  RuntimeRecords
    <3> QED
      BY <1>9, <3>1, <3>2, <3>3 DEF RuntimeStep, Tick
  <2> QED
    BY <1>4, <2>1, <2>2 DEF SameGates
<1> QED
  BY <1>5, <1>6, <1>7, <1>8, <1>9

\* Nor does a step of a command: a restore only stages what it found closed and clean.
LEMMA ClosedCommand ==
  ASSUME NEW m \in Commands, OnlyMover(m), TypeInv, MoverInv(m), ClosedInv(m),
         NEW c \in Commands, CommandStep(c)
  PROVE  ClosedInv(m)'
<1> USE DEF TypeInv, TypeOK, history, passes, PassBegins, PassEnds, RootSwitched
<1>0. /\ col \in Rows
      /\ cmd[c] \in CommandRecords
      /\ cmd[c].plan \in Plans
      /\ None \notin Commands
  BY ActorsAreDistinct DEF CommandRecords, Sessions
<1>1. /\ rt' = rt
      /\ \A k \in Commands \ {c} : cmd'[k] = cmd[k]
  BY DEF CommandStep, Works, Begin, Mark, ReadGeneration, SeeAck, GiveUp, TakeLease, Drain,
         Drained, DrainHalts, Stage, Rename, FinalizeDecides, FinalizeApplies,
         FinalizeFindsNone, SwitchRoot, CommandAttachBegins, CommandAttachEnds, Fail, Kill
<1>2. c # m => cmd[c].job \in {"finalize", None}
  BY DEF MoverInv, OnlyMoverStages, OnlyMover
<1>3. Online(c) \/ Restores(c) \/ Remaps(c) => c = m
  BY <1>2, ActorsAreDistinct DEF Restores, Remaps, Online, AllJobs
<1>4. cmd[m].pc \in Settling => ~PastStaging(m)
  BY DEF Settling, PastStaging
<1>5. PastStaging(m) => PastStaging(m)'
  BY <1>0, <1>1
     DEF CommandStep, Works, Begin, Mark, ReadGeneration, SeeAck, GiveUp, TakeLease, Drain,
         Drained, DrainHalts, Stage, Rename, FinalizeDecides, FinalizeApplies,
         FinalizeFindsNone, SwitchRoot, CommandAttachBegins, CommandAttachEnds, Fail, Kill,
         PastStaging, CommandRecords
<1> USE DEF CommandRecords
\* a step that reaches no verdict, and closes the collection for no restore under way
<1>6. ASSUME cmd'[c].pc = "finalizing" => cmd[c].pc = "finalizing" /\ cmd'[c].plan = cmd[c].plan,
             col'.integrity => col.integrity,
             ClosedWhileStaging(m)'
      PROVE  ClosedInv(m)'
  BY <1>1, <1>5, <1>6 DEF ClosedInv, FailuresAreLate
<1>7. ASSUME SameGates,
             cmd'[c].job = cmd[c].job,
             cmd'[c].pc \in Settling => cmd[c].pc \in Settling
      PROVE  ClosedWhileStaging(m)' /\ (col'.integrity => col.integrity)
  <2>1. Restores(m)' /\ cmd'[m].pc \in Settling => Restores(m) /\ cmd[m].pc \in Settling
    BY <1>1, <1>7 DEF Restores
  <2> QED
    BY <1>7, <2>1 DEF ClosedInv, ClosedWhileStaging, SameGates
<1>8. CASE Begin(c)
  <2>1. /\ col' = col /\ cmd[c].pc = "idle"
        /\ \E j : cmd' = [cmd EXCEPT ![c].pc = "checked", ![c].job = j]
    BY <1>8 DEF Begin
  <2>2. cmd'[c].pc = "checked"
    BY <1>0, <2>1
  <2>3. ClosedWhileStaging(m)'
    BY <1>1, <2>1, <2>2 DEF ClosedInv, ClosedWhileStaging, Settling, Restores
  <2> QED
    BY <1>6, <2>1, <2>2, <2>3
<1>9. CASE ReadGeneration(c) \/ GiveUp(c) \/ Rename(c) \/ FinalizeFindsNone(c)
           \/ CommandAttachBegins(c) \/ Kill(c)
  <2>1. /\ SameGates
        /\ cmd'[c].job = cmd[c].job
        /\ cmd'[c].pc \in {"waiting", "failed", "renamed", "attach", "attaching", "done"}
    BY <1>0, <1>9 DEF ReadGeneration, GiveUp, Rename, FinalizeFindsNone, CommandAttachBegins,
                      Kill, SameGates
  <2> QED
    BY <1>6, <1>7, <2>1 DEF Settling
<1>10. CASE SeeAck(c) \/ DrainHalts(c) \/ Fail(c)
  <2>1. SameGates
    BY <1>0, <1>10 DEF SeeAck, DrainHalts, Fail, Unleased, SameGates, Rows
  <2>2. cmd'[c].job = cmd[c].job /\ cmd'[c].pc \in {"admitted", "failed"}
    BY <1>0, <1>10 DEF SeeAck, DrainHalts, Fail
  <2> QED
    BY <1>6, <1>7, <2>1, <2>2 DEF Settling
<1>11. CASE Mark(c)
  <2>1. /\ c = m
        /\ cmd[m].pc = "checked"
        /\ cmd'[m].pc = "marked"
        /\ col' = Marked(col)
    BY <1>0, <1>3, <1>11 DEF Mark
  <2>2. col.pending = None
    BY <2>1 DEF MoverInv, OthersConcludeLate, PastStaging
  <2>3. ClosedWhileStaging(m)' /\ (col'.integrity => col.integrity)
    BY <1>0, <2>1, <2>2, GateColumns DEF ClosedWhileStaging, Settling
  <2> QED
    BY <1>6, <2>1, <2>3
<1>12. CASE TakeLease(c)
  <2>1. /\ col'.pending = col.pending
        /\ col'.sync = col.sync
        /\ col'.integrity = col.integrity
        /\ col'.state \in {col.state, "restoring"}
        /\ cmd[c].pc = "checked"
        /\ cmd'[c].pc = "admitted"
    BY <1>0, <1>12 DEF TakeLease, Rows
  <2>2. ClosedWhileStaging(m)'
    BY <1>1, <2>1 DEF ClosedInv, ClosedWhileStaging, Settling, Restores
  <2> QED
    BY <1>6, <2>1, <2>2
<1>13. CASE Drain(c) \/ Drained(c)
  <2>1. /\ col' = col
        /\ ~col.sync
        /\ cmd'[c].pc \in Settling
        /\ cmd'[c].job = cmd[c].job
        /\ Drain(c) => (Restores(c) => col.state = "restoring")
        /\ Drained(c) => cmd[c].pc \in Settling
    BY <1>0, <1>13 DEF Drain, Drained, Clean, MayDrain, Settling
  <2>2. Restores(c) => col.state = "restoring"
    <3>1. CASE Drain(c)
      BY <2>1, <3>1
    <3>2. CASE Drained(c)
      BY <1>3, <2>1, <3>2 DEF ClosedInv, ClosedWhileStaging
    <3> QED
      BY <1>13, <3>1, <3>2
  <2>3. ClosedWhileStaging(m)'
    BY <1>1, <2>1, <2>2 DEF ClosedInv, ClosedWhileStaging, Restores
  <2> QED
    BY <1>6, <2>1, <2>3 DEF Settling
<1>14. CASE Stage(c)
  <2>1. /\ c = m
        /\ Restores(m)
        /\ cmd[m].pc \in Settling
        /\ cmd'[m].pc = "staged"
        /\ \E l \in Sessions \cup {None} : col' = Staged(col, m, l)
    BY <1>0, <1>3, <1>14 DEF Stage, Settling, Rows
  <2>2. ClosedWhileStaging(m)' /\ (col'.integrity => col.integrity)
    BY <1>0, <2>1, GateColumns DEF ClosedInv, ClosedWhileStaging, Settling
  <2> QED
    BY <1>6, <2>1, <2>2
<1>15. CASE FinalizeDecides(c)
  <2>1. /\ col' = col
        /\ cmd'[c].pc = "finalizing"
        /\ cmd'[c].job = cmd[c].job
        /\ \E b \in BOOLEAN : cmd'[c].plan = Verdict(b)
    BY <1>0, <1>15 DEF FinalizeDecides, Restores
  <2>2. cmd'[c].plan = "fail" => PastStaging(m)
    BY <2>1, FailVerdicts DEF MoverInv, OthersConcludeLate
  <2>3. FailuresAreLate(m)'
    BY <1>1, <1>5, <2>1, <2>2 DEF ClosedInv, FailuresAreLate
  <2>4. ClosedWhileStaging(m)'
    BY <1>1, <2>1 DEF ClosedInv, ClosedWhileStaging, Settling, Restores
  <2> QED
    BY <2>3, <2>4 DEF ClosedInv
<1>16. CASE FinalizeApplies(c)
  <2> DEFINE f == Finalized(col, cmd[c].plan)
  <2>1. /\ cmd[c].pc = "finalizing"
        /\ col' \in {f, Unleased(f, c)}
        /\ cmd'[c].pc \in {"attach", "done"}
        /\ cmd'[c].job = cmd[c].job
    BY <1>0, <1>16 DEF FinalizeApplies
  <2>2. /\ f \in Rows
        /\ cmd[c].plan \notin Concluding =>
             f.state = col.state /\ f.sync = col.sync /\ f.pending = col.pending
        /\ cmd[c].plan \in Concluding => f.pending = None
        /\ f.integrity => col.integrity \/ cmd[c].plan = "fail"
    BY <1>0, FinalizedRow, FinalizedGates
  <2> HIDE DEF f
  <2>3. /\ col'.pending = f.pending /\ col'.state = f.state /\ col'.sync = f.sync
        /\ col'.integrity = f.integrity
    BY <2>1, <2>2, GateColumns
  <2>4. cmd[c].plan \in Concluding => cmd'[m].pc \notin Settling
    <3>1. cmd[c].plan \in Concluding /\ c # m => PastStaging(m)
      BY <2>1 DEF MoverInv, OthersConcludeLate
    <3> QED
      BY <1>1, <1>4, <2>1, <3>1 DEF Settling
  <2>5. ClosedWhileStaging(m)'
    BY <1>1, <2>1, <2>2, <2>3, <2>4 DEF ClosedInv, ClosedWhileStaging, Settling, Restores
  <2>6. FailuresAreLate(m)'
    BY <1>1, <1>5, <2>1, <2>2, <2>3 DEF ClosedInv, FailuresAreLate
  <2> QED
    BY <2>5, <2>6 DEF ClosedInv
<1>17. CASE SwitchRoot(c)
  <2>1. /\ c = m
        /\ cmd[m].pc = "safe"
        /\ cmd'[m].pc \in {"done", "attach"}
        /\ col' = Remapped(col, m, Online(m))
    BY <1>0, <1>3, <1>17 DEF SwitchRoot
  <2>2. col.pending = None
    BY <2>1 DEF MoverInv, OthersConcludeLate, PastStaging
  <2>3. ClosedWhileStaging(m)' /\ (col'.integrity => col.integrity)
    <3>1. Online(m) \in BOOLEAN
      BY DEF Online
    <3> QED
      BY <1>0, <2>1, <2>2, <3>1, GateColumns DEF ClosedWhileStaging, Settling
  <2> QED
    BY <1>6, <2>1, <2>3
<1>18. CASE CommandAttachEnds(c)
  <2>1. /\ Attached(col) \in Rows
        /\ col' = Unleased(Attached(col), c)
        /\ cmd'[c].pc = "done"
        /\ cmd'[c].job = cmd[c].job
    BY <1>0, <1>18, RowWrites DEF CommandAttachEnds
  <2>2. /\ col'.pending = col.pending
        /\ col'.integrity = col.integrity
        /\ ~col'.sync
        /\ ~col.sync => col'.state = col.state
    BY <1>0, <2>1, GateColumns
  <2>3. ClosedWhileStaging(m)'
    BY <1>1, <2>1, <2>2 DEF ClosedInv, ClosedWhileStaging, Settling, Restores
  <2> QED
    BY <1>6, <2>1, <2>2, <2>3
<1> QED
  BY <1>8, <1>9, <1>10, <1>11, <1>12, <1>13, <1>14, <1>15, <1>16, <1>17, <1>18
     DEF CommandStep, Works

\* Nor do resets, time and other programs, when nobody marks a closed collection.
LEMMA ClosedEnvironment ==
  ASSUME NEW m \in Commands, ~LateMarks, TypeInv, ClosedInv(m), Environment
  PROVE  ClosedInv(m)'
<1> USE DEF TypeInv, TypeOK, history, passes, PassBegins, PassEnds, RootSwitched
<1>1. cmd' = cmd /\ rt' = rt
  BY DEF Environment, RestoreReset, ReconcileReset, MarkDirty, BeatLapses, ManifestAges,
         DamageTree, RepairTree
<1>2. /\ col'.integrity => col.integrity
      /\ \/ SameGates
         \/ col'.pending = None /\ col.integrity
         \/ col.state = "active" /\ col'.state = "active" /\ col'.pending = col.pending
  <2>1. CASE RestoreReset
    BY <2>1, GateColumns DEF RestoreReset
  <2>2. CASE MarkDirty
    BY <2>2 DEF MarkDirty, Rows
  <2>3. CASE ReconcileReset \/ BeatLapses \/ ManifestAges
             \/ \E c \in Commands : DamageTree(c) \/ RepairTree(c)
    BY <2>3 DEF ReconcileReset, BeatLapses, ManifestAges, DamageTree, RepairTree, SameGates, Rows
  <2> QED
    BY <2>1, <2>2, <2>3 DEF Environment
<1>3. col.integrity => cmd[m].pc \notin Settling
  BY DEF ClosedInv, FailuresAreLate, Settling, PastStaging
<1>4. ClosedWhileStaging(m)'
  BY <1>1, <1>2, <1>3 DEF ClosedInv, ClosedWhileStaging, SameGates, Restores
<1>5. FailuresAreLate(m)'
  BY <1>1, <1>2 DEF ClosedInv, FailuresAreLate, PastStaging
<1> QED
  BY <1>4, <1>5 DEF ClosedInv

LEMMA ClosedInvariant ==
  ASSUME NEW m \in Commands, OnlyMover(m), ~LateMarks
  PROVE  Spec => [](TypeInv /\ MoverInv(m) /\ ClosedInv(m))
<1>1. Init => ClosedInv(m)
  BY DEF Init, Idle, NotStarted, ClosedInv, ClosedWhileStaging, FailuresAreLate, Settling
<1>2. TypeInv /\ MoverInv(m) /\ ClosedInv(m) /\ [Next]_vars => ClosedInv(m)'
  <2> SUFFICES ASSUME TypeInv, MoverInv(m), ClosedInv(m), [Next]_vars PROVE ClosedInv(m)'
    OBVIOUS
  <2>1. CASE UNCHANGED vars
    BY <2>1 DEF vars, history, ClosedInv, ClosedWhileStaging, FailuresAreLate, PastStaging, Restores
  <2>2. CASE Next
    BY <2>2, ClosedRuntime, ClosedCommand, ClosedEnvironment DEF Next
  <2> QED
    BY <2>1, <2>2
<1> QED
  BY <1>1, <1>2, MoverInvariant, PTL DEF Spec

\* With one command that moves the vault, and no writer that raises needs_full_sync after
\* the handshake, a directory is pending only while the collection is closed, whatever the
\* runtimes and the hand finalizers conclude and however late: the continuation of the
\* restore, which looks at restoring collections, will find it (stage_pending, run_rcrt_pass).
THEOREM PendingStaysClosed ==
  ASSUME NEW m \in Commands, OnlyMover(m), ~LateMarks
  PROVE  Spec => []PendingIsClosed
<1>1. ClosedInv(m) => PendingIsClosed
  BY DEF ClosedInv, ClosedWhileStaging, PendingIsClosed
<1> QED
  BY <1>1, ClosedInvariant, PTL

-----------------------------------------------------------------------------
(* An open collection and its index, whoever moves the vault and whenever:  *)
(* the full pass of an actor reads the root it records, or the root was     *)
(* switched under it.                                                       *)

\* What the pass of an actor will record is the root, or the actor was overtaken.
BasesFollow ==
  /\ \A r \in Runtimes : rt[r].base # None => rt[r].base = col.root \/ r \in overtaken
  /\ \A c \in Commands : cmd[c].base # None => cmd[c].base = col.root \/ c \in overtaken

\* Whatever the state, an index is current or owes a sync, or went astray.
IndexFollows == ~col.sync => reconciled = col.root \/ astray

FollowInv == BasesFollow /\ IndexFollows

\* No pass begins or ends in the step.
SameBases == /\ \A r \in Runtimes : rt'[r].base \in {rt[r].base, None}
             /\ \A c \in Commands : cmd'[c].base \in {cmd[c].base, None}

\* A sync that was not owed is owed, or root and sync stay.
Owes == ~col'.sync => ~col.sync /\ col'.root = col.root

\* A step that switches the root owes a sync, and overtakes every pass.
LEMMA FollowSwitched ==
  ASSUME FollowInv, RootSwitched, Owes, SameBases
  PROVE  FollowInv'
<1>1. IndexFollows'
  BY DEF FollowInv, IndexFollows, Owes, RootSwitched
<1>2. ASSUME NEW r \in Runtimes, rt'[r].base # None
      PROVE  rt'[r].base = col'.root \/ r \in overtaken'
  <2>1. rt'[r].base = rt[r].base /\ r \in Reconciling
    BY <1>2 DEF SameBases, Reconciling
  <2> QED
    BY <1>2, <2>1 DEF FollowInv, BasesFollow, RootSwitched
<1>3. ASSUME NEW c \in Commands, cmd'[c].base # None
      PROVE  cmd'[c].base = col'.root \/ c \in overtaken'
  <2>1. cmd'[c].base = cmd[c].base /\ c \in Reconciling
    BY <1>3 DEF SameBases, Reconciling
  <2> QED
    BY <1>3, <2>1 DEF FollowInv, BasesFollow, RootSwitched
<1> QED
  BY <1>1, <1>2, <1>3 DEF FollowInv, BasesFollow

\* ... and one that has nothing to do with passes keeps the root.
LEMMA FollowOn ==
  ASSUME FollowInv, UNCHANGED passes, Owes, SameBases, col'.root = col.root
  PROVE  FollowInv'
BY FollowSwitched DEF RootSwitched, passes

\* finalize_pending_restore switches the root in run_tx_b only, which owes a sync.
LEMMA FinalizedOwes ==
  ASSUME NEW c \in Rows, NEW plan, ~Finalized(c, plan).sync
  PROVE  ~c.sync /\ Finalized(c, plan).root = c.root
<1>1. CASE plan = "commit"
  BY <1>1 DEF Finalized, TxB, Rows
<1>2. CASE plan # "commit"
  BY <1>2 DEF Finalized, Reverted, Rows
<1> QED
  BY <1>1, <1>2

LEMMA FollowRuntime ==
  ASSUME TypeInv, FollowInv, NEW r \in Runtimes, RuntimeStep(r)
  PROVE  FollowInv'
<1> USE DEF TypeInv, TypeOK, history, Goto
<1>0. /\ rt[r] \in RuntimeRecords /\ rt \in [Runtimes -> RuntimeRecords] /\ col \in Rows
      /\ r \notin Commands /\ None \notin Roots
  BY ActorsAreDistinct DEF Sessions, Roots
<1>1. CASE RcrtApply(r)
  <2>1. RootSwitched /\ SameBases
    BY <1>0, <1>1 DEF RcrtApply, SameBases, RuntimeRecords
  <2>2. Owes
    BY <1>0, <1>1, FinalizedOwes DEF RcrtApply, Owes
  <2> QED
    BY <2>1, <2>2, FollowSwitched
<1>2. CASE AttachBegins(r) \/ (RecoverBegins(r) /\ rt'[r].pc = "recovering")
  <2>1. /\ rt'[r].base = col.root /\ \A q \in Runtimes \ {r} : rt'[q] = rt[q]
        /\ UNCHANGED <<col, cmd>>
        /\ overtaken' = overtaken \ {r} /\ UNCHANGED <<reconciled, astray>>
    BY <1>0, <1>2 DEF AttachBegins, RecoverBegins, PassBegins, RuntimeRecords
  <2> QED
    BY <1>0, <2>1 DEF FollowInv, BasesFollow, IndexFollows
<1>3. CASE AttachEnds(r) \/ RecoverEnds(r)
  <2>1. /\ rt[r].base \in Roots /\ rt'[r].base = None
        /\ \A q \in Runtimes \ {r} : rt'[q] = rt[q]
        /\ UNCHANGED cmd /\ col'.root = col.root
        /\ reconciled' = rt[r].base /\ astray' = (r \in overtaken)
        /\ overtaken' = overtaken \ {r}
    BY <1>0, <1>3 DEF AttachEnds, RecoverEnds, Attached, PassEnds, BasesKnown, RuntimeRecords, Rows
  <2>2. rt[r].base = col.root \/ r \in overtaken
    BY <1>0, <2>1 DEF FollowInv, BasesFollow
  <2> QED
    BY <1>0, <2>1, <2>2 DEF FollowInv, BasesFollow, IndexFollows
<1>4. CASE \/ StartRuntime(r) \/ LoadGenerations(r) \/ Observe(r) \/ RcrtFinalize(r)
           \/ RcrtAttach(r) \/ RcrtSkips(r) \/ AttachRefused(r) \/ AttachHalts(r)
           \/ SyncHandles(r) \/ Crash(r) \/ StopRuntime(r) \/ HeartbeatLapses(r)
  <2>1. UNCHANGED passes /\ cmd' = cmd
    BY <1>0, <1>4 DEF StartRuntime, StartServeHost, StartDaemon, LoadGenerations, Observe,
                      Observes, RcrtFinalize, RcrtAttach, RcrtSkips, AttachRefused,
                      AttachHalts, SyncHandles, Crash, StopRuntime,
                      HeartbeatLapses, RuntimeRecords
  <2>2. col'.root = col.root /\ col'.sync = col.sync
    BY <1>0, <1>4 DEF StartRuntime, StartServeHost, StartDaemon, LoadGenerations, Observe,
                      Observes, RcrtFinalize, RcrtAttach, RcrtSkips, AttachRefused,
                      AttachHalts, SyncHandles, Crash, StopRuntime,
                      HeartbeatLapses, Rows
  <2>3. \A q \in Runtimes \ {r} : rt'[q] = rt[q]
    BY <1>0, <1>4 DEF StartRuntime, StartServeHost, StartDaemon, LoadGenerations, Observe,
                      Observes, RcrtFinalize, RcrtAttach, RcrtSkips, AttachRefused,
                      AttachHalts, SyncHandles, Crash, StopRuntime, HeartbeatLapses
  <2>4. rt'[r].base \in {rt[r].base, None}
    <3>1. CASE Crash(r) \/ StopRuntime(r) \/ HeartbeatLapses(r)
      BY <1>0, <3>1 DEF Crash, StopRuntime, HeartbeatLapses, Gone, NotStarted
    <3>2. CASE StartRuntime(r) \/ LoadGenerations(r) \/ RcrtFinalize(r)
      <4>1. CASE StartRuntime(r)
        BY <1>0, <4>1 DEF StartRuntime, StartServeHost, StartDaemon, RuntimeRecords
      <4>2. CASE LoadGenerations(r)
        BY <1>0, <4>2 DEF LoadGenerations, RuntimeRecords
      <4>3. CASE RcrtFinalize(r)
        <5>1. \E v : rt' = [rt EXCEPT ![r].pc = "finalizing", ![r].plan = v]
          BY <4>3 DEF RcrtFinalize
        <5> QED
          BY <1>0, <5>1 DEF RuntimeRecords
      <4> QED
        BY <3>2, <4>1, <4>2, <4>3
    <3>3. CASE Observe(r)
      <4>1. \E h : rt' = [rt EXCEPT ![r].pc = "rcrt", ![r].last = col.gen, ![r].handle = h]
        BY <3>3 DEF Observe, Observes
      <4> QED
        BY <1>0, <4>1 DEF RuntimeRecords
    <3>4. CASE \/ RcrtAttach(r) \/ RcrtSkips(r) \/ AttachRefused(r) \/ AttachHalts(r)
               \/ SyncHandles(r)
      BY <1>0, <3>4 DEF RcrtAttach, RcrtSkips, AttachRefused, AttachHalts, SyncHandles,
                        RuntimeRecords
    <3> QED
      BY <1>4, <3>1, <3>2, <3>3, <3>4
  <2> QED
    BY <2>1, <2>2, <2>3, <2>4, FollowOn DEF Owes, SameBases
<1>5. CASE RecoverBegins(r) /\ rt'[r].pc # "recovering"
  <2>1. rt' = [rt EXCEPT ![r].pc = "observe"] /\ UNCHANGED <<col, cmd, passes>>
    BY <1>0, <1>5 DEF RecoverBegins, RuntimeRecords
  <2>2. \A q \in Runtimes : rt'[q].base = rt[q].base
    BY <1>0, <2>1 DEF RuntimeRecords
  <2> QED
    BY <2>1, <2>2, FollowOn DEF Owes, SameBases
<1> QED
  BY <1>1, <1>2, <1>3, <1>4, <1>5 DEF RuntimeStep, Tick

LEMMA FollowCommand ==
  ASSUME TypeInv, FollowInv, NEW c \in Commands, CommandStep(c)
  PROVE  FollowInv'
<1> USE DEF TypeInv, TypeOK, history
<1>0. /\ cmd[c] \in CommandRecords /\ cmd \in [Commands -> CommandRecords] /\ col \in Rows
      /\ c \notin Runtimes /\ None \notin Roots
  BY ActorsAreDistinct DEF Sessions, Roots
<1>1. CASE FinalizeApplies(c) \/ SwitchRoot(c)
  <2>1. RootSwitched /\ SameBases
    BY <1>0, <1>1 DEF FinalizeApplies, SwitchRoot, SameBases, CommandRecords
  <2>2. CASE FinalizeApplies(c)
    <3>1. /\ col'.root = Finalized(col, cmd[c].plan).root
          /\ col'.sync = Finalized(col, cmd[c].plan).sync
      <4>1. Finalized(col, cmd[c].plan) \in Rows
        BY <1>0, FinalizedRow DEF CommandRecords
      <4> QED
        BY <2>2, <4>1 DEF FinalizeApplies, Unleased, Rows
    <3> QED
      BY <1>0, <2>1, <3>1, FinalizedOwes, FollowSwitched DEF Owes
  <2>3. CASE SwitchRoot(c)
    <3>1. col'.sync
      BY <1>0, <2>3 DEF SwitchRoot, Remapped, Rows
    <3> QED
      BY <2>1, <3>1, FollowSwitched DEF Owes
  <2> QED
    BY <1>1, <2>2, <2>3
<1>2. CASE CommandAttachBegins(c)
  <2>1. /\ cmd'[c].base = col.root /\ \A k \in Commands \ {c} : cmd'[k] = cmd[k]
        /\ UNCHANGED <<col, rt>>
        /\ overtaken' = overtaken \ {c} /\ UNCHANGED <<reconciled, astray>>
    BY <1>0, <1>2 DEF CommandAttachBegins, PassBegins, CommandRecords
  <2> QED
    BY <1>0, <2>1 DEF FollowInv, BasesFollow, IndexFollows
<1>3. CASE CommandAttachEnds(c)
  <2>1. /\ cmd[c].base \in Roots /\ cmd'[c].base = None
        /\ \A k \in Commands \ {c} : cmd'[k] = cmd[k]
        /\ UNCHANGED rt /\ col'.root = col.root
        /\ reconciled' = cmd[c].base /\ astray' = (c \in overtaken)
        /\ overtaken' = overtaken \ {c}
    BY <1>0, <1>3 DEF CommandAttachEnds, Attached, Unleased, PassEnds, BasesKnown,
                      CommandRecords, Rows
  <2>2. cmd[c].base = col.root \/ c \in overtaken
    BY <1>0, <2>1 DEF FollowInv, BasesFollow
  <2> QED
    BY <1>0, <2>1, <2>2 DEF FollowInv, BasesFollow, IndexFollows
<1>4. CASE \/ Begin(c) \/ Mark(c) \/ ReadGeneration(c) \/ SeeAck(c) \/ GiveUp(c)
           \/ TakeLease(c) \/ Drain(c) \/ Drained(c) \/ DrainHalts(c)
           \/ Stage(c) \/ Rename(c) \/ FinalizeDecides(c) \/ FinalizeFindsNone(c)
           \/ Fail(c) \/ Kill(c)
  <2>1. UNCHANGED passes /\ rt' = rt
    BY <1>4 DEF Begin, Mark, ReadGeneration, SeeAck, GiveUp, TakeLease, Drain, Drained,
                DrainHalts, Stage, Rename, FinalizeDecides, FinalizeFindsNone, Fail, Kill
  <2>2. col'.root = col.root /\ col'.sync = col.sync
    BY <1>0, <1>4 DEF Begin, Mark, ReadGeneration, SeeAck, GiveUp, TakeLease, Drain, Drained,
                DrainHalts, Stage, Rename, FinalizeDecides, FinalizeFindsNone, Fail, Kill,
                Marked, Staged, Unleased, Rows
  <2>3. cmd'[c].base \in {cmd[c].base, None} /\ \A k \in Commands \ {c} : cmd'[k] = cmd[k]
    BY <1>0, <1>4 DEF Begin, Mark, ReadGeneration, SeeAck, GiveUp, TakeLease, Drain, Drained,
                DrainHalts, Stage, Rename, FinalizeDecides, FinalizeFindsNone, Fail, Kill,
                CommandRecords
  <2> QED
    BY <2>1, <2>2, <2>3, FollowOn DEF Owes, SameBases
<1> QED
  BY <1>1, <1>2, <1>3, <1>4 DEF CommandStep, Works

LEMMA FollowEnvironment ==
  ASSUME TypeInv, FollowInv, Environment
  PROVE  FollowInv'
<1> USE DEF TypeInv, TypeOK, history
<1>1. CASE RestoreReset
  <2>1. /\ UNCHANGED <<rt, cmd, reconciled, overtaken>> /\ col'.root = col.root
        /\ astray' = (astray \/ col.sync)
    BY <1>1 DEF RestoreReset, Reset, Rows
  <2> QED
    BY <2>1 DEF FollowInv, BasesFollow, IndexFollows
<1>2. CASE \/ ReconcileReset \/ MarkDirty \/ BeatLapses \/ ManifestAges
           \/ \E c \in Commands : DamageTree(c) \/ RepairTree(c)
  <2>1. /\ UNCHANGED <<rt, cmd, passes>> /\ col'.root = col.root
        /\ col.sync => col'.sync
    BY <1>2 DEF ReconcileReset, MarkDirty, BeatLapses, ManifestAges, DamageTree, RepairTree, Rows
  <2> QED
    BY <2>1, FollowOn DEF Owes, SameBases
<1> QED
  BY <1>1, <1>2 DEF Environment

\* With any number of commands and runtimes, late marks and damage, a collection that is
\* open and owes no sync has the index of the directory it is attached to, unless the root
\* was switched under the full pass that ended last, or restore-reset forgave an owed sync
\* (run_tx_b, remap_collection, complete_attach, run_overflow_recovery_pass, restore_reset).
THEOREM OpenStaysReconciled == Spec => []OpenUnlessAstray
<1>1. Init => FollowInv
  BY DEF Init, Idle, NotStarted, FollowInv, BasesFollow, IndexFollows
<1>2. TypeInv /\ FollowInv /\ [Next]_vars => FollowInv'
  <2> SUFFICES ASSUME TypeInv, FollowInv, [Next]_vars
               PROVE  FollowInv'
    OBVIOUS
  <2>1. CASE UNCHANGED vars
    BY <2>1 DEF vars, history, passes, FollowInv, BasesFollow, IndexFollows
  <2>2. CASE Next
    BY <2>2, FollowRuntime, FollowCommand, FollowEnvironment DEF Next
  <2> QED
    BY <2>1, <2>2
<1>3. FollowInv => OpenUnlessAstray
  BY DEF FollowInv, IndexFollows, OpenUnlessAstray
<1> QED
  BY <1>1, <1>2, <1>3, TypeInvariant, PTL DEF Spec
=============================================================================
