-------------------------- MODULE VaultIndex_proofs --------------------------
(***************************************************************************)
(* Theorems about VaultIndex for any files, writers, faults and bounds.    *)
(***************************************************************************)
EXTENDS VaultIndex, TLAPS

(* Types. *)

Content == Data \cup {None}
PutType == [pc : {"idle", "checked", "staged", "renamed", "committed"}, id : Nat,
            path : Paths \cup {None}, data : Content, ver : Nat, stat : Nat]
PassType == [kind : Kinds \cup {"none"}, pc : {"idle", "walked", "diffed", "read", "applied"},
             seen : [Paths -> Nat],
             plan : [Paths -> {"look", "keep", "absent", "delete", "new", "heal", "modified"}],
             got : [Paths -> Content], found : SUBSET Nat]

\* A write that has begun is of a file and a content.
PutsAreOfFiles ==
  \A w \in Writers : put[w].pc # "idle" => put[w].path \in Paths /\ put[w].data \in Data

\* What TypeOK says of each variable, and of the writes under way.
Types ==
  /\ disk \in [Paths -> [data : Content, stat : Nat]]
  /\ held \in [Paths -> SUBSET Content]
  /\ torn \subseteq Paths
  /\ sentinels \subseteq Nat
  /\ page \in [Paths -> [data : Content, ver : Nat]]
  /\ row \in [Paths -> [data : Content, stat : Nat] \cup {None}]
  /\ tx \in Writers \cup {None}
  /\ watch \in {"down", "starting", "on", "crashed"}
  /\ os \subseteq Paths
  /\ chan \in 0 .. Capacity
  /\ selfWrite \in [Paths -> Content]
  /\ pass \in PassType
  /\ put \in [Writers -> PutType]
  /\ PutsAreOfFiles
  /\ {edits, puts, crashes, fails} \subseteq Nat

Flags == flag \in BOOLEAN /\ dirty \in BOOLEAN

\* The history of files is of files.
Excuses == unnoticed \subseteq Paths /\ late \subseteq Paths

\* The three together are TypeOK.
LEMMA TypesSplit == Types /\ Flags /\ Excuses => TypeOK
BY DEF Types, Flags, Excuses, TypeOK, PutType, PassType, Content

\* The records of nobody.
LEMMA IdleTypes ==
  /\ IdlePass \in PassType
  /\ IdlePut \in PutType
  /\ NoPage \in [data : Content, ver : Nat]
BY DEF IdlePass, IdlePut, NoPage, PassType, PutType, Content, Kinds

\* A walk starts a typed pass.
LEMMA WalkTypes ==
  ASSUME Types, NEW kind \in Kinds, NEW paths \in SUBSET Paths, NEW found \in SUBSET Nat,
         Walk(kind, paths, found)
  PROVE  pass' \in PassType
<1> DEFINE seen == [p \in Paths |-> IF p \in paths THEN StatNow(p) ELSE 0]
           plan == [p \in Paths |-> IF p \in paths THEN "look" ELSE "keep"]
<1>1. seen \in [Paths -> Nat]
  BY DEF Types, StatNow
<1>2. plan \in [Paths -> {"look", "keep", "absent", "delete", "new", "heal", "modified"}]
  OBVIOUS
<1>3. pass' = [kind |-> kind, pc |-> "walked", seen |-> seen, plan |-> plan,
               got |-> [p \in Paths |-> None], found |-> found]
  BY DEF Walk, IdlePass
<1> HIDE DEF seen, plan
<1> QED
  BY <1>1, <1>2, <1>3 DEF PassType, Content

\* A step of a writer keeps the types when it moves the writer on, or back to idle.
LEMMA PutMoves ==
  ASSUME Types, NEW w \in Writers, NEW pc \in {"staged", "renamed", "committed"},
         NEW stat \in Nat, put[w].pc # "idle",
         \/ put' = [put EXCEPT ![w] = IdlePut]
         \/ put' = [put EXCEPT ![w].pc = pc]
         \/ put' = [put EXCEPT ![w].pc = pc, ![w].stat = stat]
  PROVE  put' \in [Writers -> PutType] /\ PutsAreOfFiles'
<1>1. CASE put' = [put EXCEPT ![w] = IdlePut]
  <2>1. put' \in [Writers -> PutType]
    BY <1>1, IdleTypes DEF Types
  <2> QED
    BY <1>1, <2>1 DEF Types, PutsAreOfFiles, IdlePut
<1>2. ASSUME NEW new \in PutType, put' = [put EXCEPT ![w] = new],
             new.path = put[w].path, new.data = put[w].data
      PROVE  put' \in [Writers -> PutType] /\ PutsAreOfFiles'
  BY <1>2 DEF Types, PutsAreOfFiles
<1>3. CASE put' = [put EXCEPT ![w].pc = pc]
  <2>1. [put[w] EXCEPT !.pc = pc] \in PutType
    BY DEF Types, PutType
  <2>2. put' = [put EXCEPT ![w] = [put[w] EXCEPT !.pc = pc]]
    BY <1>3 DEF Types
  <2> QED
    BY <1>2, <2>1, <2>2 DEF Types, PutType
<1>4. CASE put' = [put EXCEPT ![w].pc = pc, ![w].stat = stat]
  <2>0. put[w] \in PutType
    BY DEF Types
  <2>1. [put[w] EXCEPT !.pc = pc, !.stat = stat] \in PutType
    BY <2>0 DEF PutType
  <2>2. put' = [put EXCEPT ![w] = [put[w] EXCEPT !.pc = pc, !.stat = stat]]
    BY <1>4 DEF Types
  <2> QED
    BY <1>2, <2>1, <2>2 DEF Types, PutType
<1> QED
  BY <1>1, <1>3, <1>4

\* Processes that die leave the types.
LEMMA DieTypes ==
  ASSUME Types, NEW W \in SUBSET Writers, Die(W)
  PROVE  /\ tx' \in Writers \cup {None}
         /\ put' \in [Writers -> PutType]
         /\ PutsAreOfFiles'
BY IdleTypes DEF Die, Types, PutsAreOfFiles, IdlePut

\* A write to the disk keeps the types.
LEMMA WriteTypes ==
  ASSUME Types, NEW p \in Paths, NEW d \in Content, Write(p, d)
  PROVE  /\ disk' \in [Paths -> [data : Content, stat : Nat]]
         /\ held' \in [Paths -> SUBSET Content]
         /\ os' \subseteq Paths
<1>1. disk' = [disk EXCEPT ![p] = [data |-> d, stat |-> disk[p].stat + 1]]
  BY DEF Write, Types
<1> QED
  BY <1>1 DEF Write, Types

\* The steps of a write keep the types.
LEMMA PutTypes == ASSUME Types, NEW w \in Writers, Put(w) PROVE Types'
<1> USE IndexAssumption
<1>1. CASE PutStage(w)
  <2>1. put' \in [Writers -> PutType] /\ PutsAreOfFiles'
    BY <1>1, PutMoves DEF PutStage
  <2>2. sentinels' \subseteq Nat /\ tx' \in Writers \cup {None}
    BY <1>1 DEF PutStage, Types, PutType
  <2> QED
    BY <1>1, <2>1, <2>2 DEF PutStage, Types, diskVars, db, watcher, counts
<1>2. CASE PutRename(w)
  <2>1. put[w].path \in Paths /\ put[w].data \in Data /\ disk[put[w].path].stat + 1 \in Nat
    BY <1>2 DEF PutRename, Types, PutsAreOfFiles
  <2>2. put' \in [Writers -> PutType] /\ PutsAreOfFiles'
    BY <1>2, <2>1, PutMoves DEF PutRename
  <2>3. /\ disk' \in [Paths -> [data : Content, stat : Nat]]
        /\ held' \in [Paths -> SUBSET Content]
        /\ os' \subseteq Paths
    BY <1>2, <2>1, WriteTypes DEF PutRename, Content
  <2>4. selfWrite' \in [Paths -> Content] /\ torn' \subseteq Paths
    BY <1>2, <2>1 DEF PutRename, Types, Content
  <2> QED
    BY <1>2, <2>2, <2>3, <2>4 DEF PutRename, Types, db, counts
<1>3. CASE PutRenameFails(w)
  <2>1. put' \in [Writers -> PutType] /\ PutsAreOfFiles'
    BY <1>3, PutMoves DEF PutRenameFails
  <2>2. selfWrite' \in [Paths -> Content]
    BY <1>3 DEF PutRenameFails, Forget, Types, Content
  <2> QED
    BY <1>3, <2>1, <2>2 DEF PutRenameFails, Types, diskVars, db, watcher, counts
<1>4. CASE PutCommit(w)
  <2>1. put' \in [Writers -> PutType] /\ PutsAreOfFiles'
    BY <1>4, PutMoves DEF PutCommit
  <2>2. /\ put[w].path \in Paths /\ put[w].data \in Content /\ put[w].ver + 1 \in Nat
        /\ disk[put[w].path].stat \in Nat
    BY <1>4 DEF PutCommit, Types, PutsAreOfFiles, PutType, Content
  <2>3. /\ page' \in [Paths -> [data : Content, ver : Nat]]
        /\ row' \in [Paths -> [data : Content, stat : Nat] \cup {None}]
    BY <1>4, <2>2 DEF PutCommit, Types
  <2>4. torn' \subseteq Paths
    BY <1>4 DEF PutCommit, Types
  <2> QED
    BY <1>4, <2>1, <2>3, <2>4 DEF PutCommit, Types, watcher, counts
<1>5. CASE PutFails(w)
  <2>1. put' \in [Writers -> PutType] /\ PutsAreOfFiles'
    BY <1>5, PutMoves DEF PutFails
  <2>2. selfWrite' \in [Paths -> Content] /\ tx' \in Writers \cup {None}
    BY <1>5 DEF PutFails, Forget, Mark, Types, Content
  <2> QED
    BY <1>5, <2>1, <2>2 DEF PutFails, Types, diskVars, db, watcher, counts
<1>6. CASE PutFinish(w)
  <2>1. put' \in [Writers -> PutType] /\ PutsAreOfFiles'
    BY <1>6, PutMoves DEF PutFinish
  <2> QED
    BY <1>6, <2>1 DEF PutFinish, Types, diskVars, db, watcher, counts
<1> QED
  BY <1>1, <1>2, <1>3, <1>4, <1>5, <1>6 DEF Put

\* The actions of a pass of the kinds in Kinds keep its type.
LEMMA PassTypes ==
  ASSUME Types, PassDiff \/ PassRead \/ PassApply \/ PassEnd \/ PassFails
  PROVE  Types'
<1> USE IndexAssumption
<1> DEFINE Plans == {"look", "keep", "absent", "delete", "new", "heal", "modified"}
<1>0. /\ pass \in PassType
      /\ pass.seen \in [Paths -> Nat] /\ pass.plan \in [Paths -> Plans]
      /\ pass.got \in [Paths -> Content] /\ pass.found \subseteq Nat
  BY DEF Types, PassType
<1>1. CASE PassDiff
  <2> DEFINE plan == [p \in Paths |-> IF p \in Considered THEN Action(p) ELSE "keep"]
             got == [p \in Paths |-> disk[p].data]
  <2>1. plan \in [Paths -> Plans]
    BY DEF Action, Missing
  <2>2. got \in [Paths -> Content]
    BY DEF Types
  <2>3. pass' = [pass EXCEPT !.pc = "diffed", !.plan = plan, !.got = got]
    BY <1>1 DEF PassDiff
  <2> HIDE DEF plan, got
  <2>4. pass' \in PassType
    BY <1>0, <2>1, <2>2, <2>3 DEF PassType
  <2> QED
    BY <1>1, <2>4 DEF PassDiff, Types, PutsAreOfFiles, diskVars, db, watcher, counts
<1>2. CASE PassRead
  <2> DEFINE plan == [p \in Paths |-> IF pass.plan[p] \in {"delete", "modified"} /\ row[p] = None
                                      THEN "keep" ELSE pass.plan[p]]
             got == [p \in Paths |-> disk[p].data]
  <2>1. plan \in [Paths -> Plans]
    BY <1>0
  <2>2. got \in [Paths -> Content]
    BY DEF Types
  <2>3. pass' = [pass EXCEPT !.pc = "read", !.plan = plan, !.got = got]
    BY <1>0, <1>2 DEF PassRead, PassType
  <2> HIDE DEF plan, got
  <2>4. pass' \in PassType
    BY <1>0, <2>1, <2>2, <2>3 DEF PassType
  <2>5. row' \in [Paths -> [data : Content, stat : Nat] \cup {None}]
    BY <1>0, <1>2 DEF PassRead, Types
  <2> QED
    BY <1>2, <2>4, <2>5 DEF PassRead, Types, PutsAreOfFiles, diskVars, watcher, counts
<1>3. CASE PassApply
  <2>1. [IdlePass EXCEPT !.kind = pass.kind, !.pc = "applied", !.found = pass.found] \in PassType
    BY <1>0, IdleTypes DEF PassType
  <2>2. \A p \in Paths : /\ page'[p] \in [data : Content, ver : Nat]
                         /\ row'[p] \in [data : Content, stat : Nat] \cup {None}
    <3> SUFFICES ASSUME NEW p \in Paths
                 PROVE  /\ page'[p] \in [data : Content, ver : Nat]
                        /\ row'[p] \in [data : Content, stat : Nat] \cup {None}
      OBVIOUS
    <3>1. /\ page'[p] = NoPage \/ page'[p] = page[p]
             \/ page'[p] = [data |-> pass.got[p], ver |-> page[p].ver + 1]
          /\ row'[p] = None \/ row'[p] = row[p]
             \/ row'[p] = [data |-> pass.got[p], stat |-> pass.seen[p]]
      BY <1>3 DEF PassApply, StoredStat
    <3>2. page[p] \in [data : Content, ver : Nat]
          /\ row[p] \in [data : Content, stat : Nat] \cup {None}
      BY DEF Types
    <3> QED
      BY <1>0, <3>1, <3>2, IdleTypes
  <2>3. /\ page' \in [Paths -> [data : Content, ver : Nat]]
        /\ row' \in [Paths -> [data : Content, stat : Nat] \cup {None}]
    BY <1>3, <2>2 DEF PassApply
  <2>4. torn' \subseteq Paths /\ pass' \in PassType
    BY <1>3, <2>1 DEF PassApply, Types
  <2> QED
    BY <1>3, <2>3, <2>4 DEF PassApply, Types, PutsAreOfFiles, watcher, counts
<1>4. CASE PassEnd
  <2>1. watch' \in {"down", "starting", "on", "crashed"} /\ sentinels' \subseteq Nat
    BY <1>4 DEF PassEnd, Types
  <2> QED
    BY <1>4, <2>1, IdleTypes DEF PassEnd, Types, PutsAreOfFiles, diskVars, db, counts
<1>5. CASE PassFails
  <2>1. watch' \in {"down", "starting", "on", "crashed"}
    BY <1>5 DEF PassFails, Types
  <2>2. fails' \in Nat
    BY <1>5 DEF PassFails, Types
  <2> QED
    BY <1>5, <2>1, <2>2, IdleTypes DEF PassFails, Types, PutsAreOfFiles, diskVars, db
<1> QED
  BY <1>1, <1>2, <1>3, <1>4, <1>5

\* Reading takes the contents and keeps the rest, but for the plan.
LEMMA ReadGets ==
  ASSUME Types, PassDiff \/ PassRead
  PROVE  /\ pass'.got = [p \in Paths |-> disk[p].data]
         /\ pass'.seen = pass.seen
         /\ pass'.found = pass.found
         /\ pass'.pc = IF pass.pc = "walked" THEN "diffed" ELSE "read"
         /\ pass.pc \in {"walked", "diffed"}
<1>0. pass \in PassType
  BY DEF Types
<1> DEFINE got == [p \in Paths |-> disk[p].data]
<1>1. ASSUME NEW plan, NEW pc, pass' = [pass EXCEPT !.pc = pc, !.plan = plan, !.got = got]
      PROVE  pass'.got = got /\ pass'.seen = pass.seen /\ pass'.found = pass.found /\ pass'.pc = pc
  <2> HIDE DEF got
  <2> QED
    BY <1>0, <1>1 DEF PassType
<1>2. CASE PassDiff
  <2>1. pass' = [pass EXCEPT !.pc = "diffed",
                   !.plan = [p \in Paths |-> IF p \in Considered THEN Action(p) ELSE "keep"],
                   !.got = got]
    BY <1>2 DEF PassDiff
  <2> HIDE DEF got
  <2>2. pass'.got = got /\ pass'.seen = pass.seen /\ pass'.found = pass.found /\ pass'.pc = "diffed"
    BY <1>1, <2>1
  <2> QED
    BY <1>2, <2>2 DEF PassDiff, got
<1>3. CASE PassRead
  <2> DEFINE plan == [p \in Paths |-> IF pass.plan[p] \in {"delete", "modified"} /\ row[p] = None
                                      THEN "keep" ELSE pass.plan[p]]
  <2>1. pass' = [pass EXCEPT !.pc = "read", !.plan = plan, !.got = got]
    BY <1>0, <1>3 DEF PassRead, PassType
  <2> HIDE DEF got, plan
  <2>2. pass'.got = got /\ pass'.seen = pass.seen /\ pass'.found = pass.found /\ pass'.pc = "read"
    BY <1>1, <2>1
  <2> QED
    BY <1>3, <2>2 DEF PassRead, got
<1> QED
  BY <1>2, <1>3

\* Every step keeps the types.
LEMMA TypesStep == ASSUME Types, [Next]_vars PROVE Types'
<1> USE IndexAssumption
<1>1. ASSUME NEW p \in Paths, NEW d \in Data \cup {None}, ExternalEdit(p, d) PROVE Types'
  <2>1. /\ disk' \in [Paths -> [data : Content, stat : Nat]]
        /\ held' \in [Paths -> SUBSET Content]
        /\ os' \subseteq Paths
    BY <1>1, WriteTypes DEF ExternalEdit, Content
  <2> QED
    BY <1>1, <2>1 DEF ExternalEdit, Types, PutsAreOfFiles, db
<1>2. ASSUME NEW w \in Writers, NEW p \in Paths, NEW d \in Data, PutCheck(w, p, d) PROVE Types'
  <2> DEFINE new == [pc |-> "checked", id |-> puts + 1, path |-> p, data |-> d,
                     ver |-> page[p].ver, stat |-> 0]
  <2>1. new \in PutType /\ puts + 1 \in Nat
    BY DEF Types, PutType, Content
  <2>2. put' = [put EXCEPT ![w] = new]
    BY <1>2 DEF PutCheck
  <2>3. put' \in [Writers -> PutType] /\ PutsAreOfFiles'
    BY <2>1, <2>2 DEF Types, PutsAreOfFiles
  <2> QED
    BY <1>2, <2>1, <2>3 DEF PutCheck, Types, diskVars, db, watcher
<1>3. ASSUME NEW w \in Writers, Put(w) PROVE Types'
  BY <1>3, PutTypes
<1>4. ASSUME NEW p \in Paths, WatchEvent(p) PROVE Types'
  <2>1. chan' \in 0 .. Capacity /\ os' \subseteq Paths /\ tx' \in Writers \cup {None}
    BY <1>4 DEF WatchEvent, Room, Mark, Types
  <2> QED
    BY <1>4, <2>1 DEF WatchEvent, Types, PutsAreOfFiles, diskVars, db, counts
<1>5. ASSUME NEW p \in Paths, SelfWriteExpires(p) PROVE Types'
  <2>1. selfWrite' \in [Paths -> Content]
    BY <1>5 DEF SelfWriteExpires, Types, Content
  <2> QED
    BY <1>5, <2>1 DEF SelfWriteExpires, Types, PutsAreOfFiles, diskVars, db, watcher, counts
<1>6. CASE OutsideCrashes
  <2>1. Writers \ Inside \in SUBSET Writers
    OBVIOUS
  <2>2. /\ tx' \in Writers \cup {None} /\ put' \in [Writers -> PutType] /\ PutsAreOfFiles'
        /\ crashes' \in Nat
    BY <1>6, <2>1, DieTypes DEF OutsideCrashes, Types
  <2> QED
    BY <1>6, <2>2 DEF OutsideCrashes, Types, diskVars, db, watcher
<1>7. CASE WatcherCrashes \/ Rearm \/ PollDrain
  <2>1. chan' \in 0 .. Capacity /\ tx' \in Writers \cup {None} /\ os' \subseteq Paths
    BY <1>7 DEF WatcherCrashes, Rearm, PollDrain, Mark, Types, watcher
  <2>2. watch' \in {"down", "starting", "on", "crashed"} /\ crashes' \in Nat
    BY <1>7 DEF WatcherCrashes, Rearm, PollDrain, Types, counts
  <2> QED
    BY <1>7, <2>1, <2>2
       DEF WatcherCrashes, Rearm, PollDrain, Types, PutsAreOfFiles, diskVars, db, counts
<1>8. CASE PollReconcile
  <2>1. pass' \in PassType
    BY <1>8, WalkTypes DEF PollReconcile, Kinds
  <2> QED
    BY <1>8, <2>1 DEF PollReconcile, Types, PutsAreOfFiles, diskVars, db, counts
<1>9. CASE OverflowRecovery
  <2>1. pass' \in PassType
    BY <1>9, WalkTypes DEF OverflowRecovery, Kinds
  <2> QED
    BY <1>9, <2>1 DEF OverflowRecovery, Types, PutsAreOfFiles, diskVars, db, watcher, counts
<1>10. CASE Audit
  <2>1. PICK due \in SUBSET {p \in Paths : row[p] # None} : Walk("audit", due, {})
    BY <1>10 DEF Audit
  <2>2. pass' \in PassType
    BY <2>1, WalkTypes DEF Kinds
  <2>3. fails' \in Nat
    BY <1>10 DEF Audit, Types
  <2> QED
    BY <1>10, <2>2, <2>3 DEF Audit, Types, PutsAreOfFiles, diskVars, db, watcher
<1>11. CASE Pass
  BY <1>11, PassTypes DEF Pass
<1>12. CASE Start
  <2>1. pass' \in PassType /\ watch' \in {"down", "starting", "on", "crashed"}
    <3>1. CASE sentinels = {}
      BY <1>12, <3>1 DEF Start, Types
    <3>2. CASE sentinels # {}
      <4>1. Walk("startup", Paths, sentinels) /\ watch' = "starting"
        BY <1>12, <3>2 DEF Start
      <4> QED
        BY <4>1, WalkTypes DEF Kinds, Types
    <3> QED
      BY <3>1, <3>2
  <2> QED
    BY <1>12, <2>1 DEF Start, Types, PutsAreOfFiles, diskVars, db, counts
<1>13. CASE HostCrashes
  <2>1. tx' \in Writers \cup {None} /\ put' \in [Writers -> PutType] /\ PutsAreOfFiles'
    BY <1>13, DieTypes DEF HostCrashes
  <2>2. pass' \in PassType /\ selfWrite' \in [Paths -> Content] /\ crashes' \in Nat
    BY <1>13, IdleTypes DEF HostCrashes, Types, Content
  <2> QED
    BY <1>13, <2>1, <2>2 DEF HostCrashes, Types, diskVars, db
<1>14. CASE UNCHANGED vars
  BY <1>14 DEF vars, Types, PutsAreOfFiles, diskVars, db, watcher, counts
<1> QED
  BY <1>1, <1>2, <1>3, <1>4, <1>5, <1>6, <1>7, <1>8, <1>9, <1>10, <1>11, <1>12, <1>13, <1>14
     DEF Next

\* Every step keeps the two flags Boolean.
LEMMA FlagsStep == ASSUME Flags, [Next]_vars PROVE Flags'
<1>1. /\ \/ flag' = flag \/ flag' = TRUE \/ flag' = (flag /\ ~Cleared)
         \/ flag' = (flag \/ \E p \in Paths : pass.plan[p] = "absent")
      /\ dirty' = dirty \/ dirty' = TRUE \/ dirty' = FALSE
  BY Zenon DEF Next, ExternalEdit, PutCheck, Put, PutStage, PutRename, PutRenameFails, PutCommit,
     PutFails, PutFinish, Mark, WatchEvent, SelfWriteExpires, OutsideCrashes, WatcherCrashes, Rearm,
     PollDrain, PollReconcile, OverflowRecovery, Audit, Pass, PassDiff, PassRead, PassApply,
     PassEnd, PassFails, Start, HostCrashes, vars, diskVars, db, watcher, counts
<1> QED
  BY <1>1, Zenon DEF Flags

\* Every step keeps the history of files.
LEMMA ExcusesStep == ASSUME Types, Excuses, [Next]_vars PROVE Excuses'
<1>1. ASSUME unnoticed' = unnoticed, late' = late PROVE Excuses'
  BY <1>1 DEF Excuses
<1>2. Behind \subseteq Paths
  BY DEF Behind
<1>3. ASSUME NEW p \in Paths, NEW d \in Data \cup {None}, ExternalEdit(p, d) PROVE Excuses'
  BY <1>3 DEF ExternalEdit, Excuses, db
<1>4. ASSUME NEW w \in Writers, Put(w) PROVE Excuses'
  <2>1. put[w].pc # "idle" => put[w].path \in Paths
    BY DEF Types, PutsAreOfFiles
  <2>2. CASE PutStage(w) \/ PutRenameFails(w) \/ PutFinish(w)
    BY <1>1, <2>2 DEF PutStage, PutRenameFails, PutFinish, diskVars, db
  <2>3. CASE PutRename(w)
    BY <2>1, <2>3 DEF PutRename, Excuses, db
  <2>4. CASE PutCommit(w)
    BY <2>1, <2>4 DEF PutCommit, Excuses
  <2>5. CASE PutFails(w)
    BY <2>1, <2>5 DEF PutFails, Excuses, db
  <2> QED
    BY <1>4, <2>2, <2>3, <2>4, <2>5 DEF Put
<1>5. ASSUME NEW w \in Writers, NEW p \in Paths, NEW d \in Data, PutCheck(w, p, d) PROVE Excuses'
  BY <1>1, <1>5 DEF PutCheck, diskVars, db
<1>6. ASSUME NEW p \in Paths, WatchEvent(p) \/ SelfWriteExpires(p) PROVE Excuses'
  BY <1>1, <1>6 DEF WatchEvent, SelfWriteExpires, diskVars, db
<1>7. CASE OutsideCrashes \/ WatcherCrashes \/ PollDrain \/ PollReconcile \/ OverflowRecovery
           \/ Audit \/ Start \/ PassDiff \/ PassRead \/ PassEnd
  BY <1>1, <1>7 DEF OutsideCrashes, WatcherCrashes, PollDrain, PollReconcile, OverflowRecovery,
                    Audit, Start, PassDiff, PassRead, PassEnd, diskVars, db
<1>8. CASE Rearm \/ PassFails \/ HostCrashes
  BY <1>2, <1>8 DEF Rearm, PassFails, HostCrashes, Excuses, db
<1>9. CASE PassApply
  BY <1>9 DEF PassApply, Excuses
<1>10. CASE UNCHANGED vars
  BY <1>1, <1>10 DEF vars, diskVars, db
<1> QED
  BY <1>3, <1>4, <1>5, <1>6, <1>7, <1>8, <1>9, <1>10 DEF Next, Pass

\* The typed states, for the invariants below.
LEMMA TypesHold == Spec => []Types
<1>1. Init => Types
  <2> SUFFICES ASSUME Init PROVE Types
    OBVIOUS
  <2>1. /\ [data |-> None, stat |-> 0] \in [data : Content, stat : Nat]
        /\ {None} \in SUBSET Content /\ None \in Content
    BY DEF Content
  <2>2. 0 \in 0 .. Capacity
    BY IndexAssumption
  <2> QED
    BY <2>1, <2>2, IdleTypes DEF Init, Types, PutsAreOfFiles, IdlePut
<1> QED
  BY <1>1, TypesStep, PTL DEF Spec

\* Files, index, pass and writes hold what they may hold, and the watcher's channel never
\* more than its capacity, for any files, writers and bounds.
THEOREM IndexTypeCorrect == Spec => []TypeOK
<1>1. Init => Flags
  BY Zenon DEF Init, Flags
<1>2. Init => Excuses
  BY DEF Init, Excuses
<1> QED
  BY <1>1, <1>2, TypesHold, FlagsStep, ExcusesStep, TypesSplit, PTL DEF Spec

-----------------------------------------------------------------------------
(* The write lock, and the version a put commits on. *)

\* A put between its UPDATE and its COMMIT holds the write lock, and the version it checked
\* is the present one.
Locked ==
  \A w \in Writers : put[w].pc \in {"staged", "renamed"} =>
    tx = w /\ page[put[w].path].ver = put[w].ver

\* Steps of those who need the lock to be free change nothing of it.
LEMMA FreeLock ==
  ASSUME Locked, tx = None, put' = put
  PROVE  Locked'
BY IndexAssumption DEF Locked

\* So do steps that change neither the lock nor a page.
LEMMA SameLock ==
  ASSUME Locked, tx' = tx, page' = page,
         \A w \in Writers : put'[w] = put[w] \/ put'[w].pc \notin {"staged", "renamed"}
  PROVE  Locked'
BY DEF Locked

\* Every step keeps it.
LEMMA LockStep == ASSUME Types, Locked, [Next]_vars PROVE Locked'
<1> USE IndexAssumption
<1>1. ASSUME NEW p \in Paths, NEW d \in Data \cup {None}, ExternalEdit(p, d) PROVE Locked'
  BY <1>1, SameLock DEF ExternalEdit, db
<1>2. ASSUME NEW w \in Writers, NEW p \in Paths, NEW d \in Data, PutCheck(w, p, d) PROVE Locked'
  <2>1. \A v \in Writers : put'[v] = put[v] \/ put'[v].pc = "checked"
    BY <1>2 DEF PutCheck, Types
  <2> QED
    BY <1>2, <2>1, SameLock DEF PutCheck, db
<1>3. ASSUME NEW w \in Writers, Put(w) PROVE Locked'
  <2>1. /\ page' = page \/ PutCommit(w)
        /\ \A v \in Writers \ {w} : put'[v] = put[v]
    BY <1>3 DEF Put, PutStage, PutRename, PutRenameFails, PutCommit, PutFails, PutFinish, db, Types
  <2>2. CASE PutStage(w)
    <3>1. put'[w] = [put[w] EXCEPT !.pc = "staged"] \/ put'[w] = IdlePut
      BY <2>2 DEF PutStage, Types
    <3>2. /\ tx = None
          /\ put'[w].pc = "staged" => tx' = w /\ VersionHolds(w)
      BY <2>2, <3>1 DEF PutStage, Types, PutType, IdlePut
    <3>3. page' = page
      BY <2>2 DEF PutStage, db
    <3>4. /\ put'[w].pc \in {"staged", "idle"}
          /\ put'[w].pc = "staged" => put'[w].path = put[w].path /\ put'[w].ver = put[w].ver
      BY <3>1 DEF Types, PutType, IdlePut
    <3> QED
      BY <2>1, <3>2, <3>3, <3>4 DEF Locked, VersionHolds
  <2>3. CASE PutRename(w)
    <3>1. /\ put'[w].pc = "renamed" /\ put'[w].path = put[w].path /\ put'[w].ver = put[w].ver
          /\ put[w].pc = "staged" /\ tx' = tx /\ page' = page
      BY <2>3 DEF PutRename, db, Types, PutType
    <3> QED
      BY <2>1, <3>1 DEF Locked
  <2>4. CASE PutRenameFails(w) \/ PutCommit(w) \/ PutFails(w)
    <3>1. put[w].pc \in {"staged", "renamed"} /\ tx' = None
      BY <2>4 DEF PutRenameFails, PutCommit, PutFails, Mark
    <3>2. put'[w].pc \in {"idle", "committed"}
      BY <2>4 DEF PutRenameFails, PutCommit, PutFails, Types, PutType, IdlePut
    <3> QED
      BY <2>1, <3>1, <3>2 DEF Locked
  <2>5. CASE PutFinish(w)
    <3>1. put'[w].pc = "idle" /\ tx' = tx /\ page' = page
      BY <2>5 DEF PutFinish, db, Types, IdlePut
    <3> QED
      BY <2>1, <3>1, SameLock
  <2> QED
    BY <1>3, <2>2, <2>3, <2>4, <2>5 DEF Put
<1>4. ASSUME NEW p \in Paths, WatchEvent(p) PROVE Locked'
  BY <1>4, SameLock, FreeLock DEF WatchEvent, db
<1>5. ASSUME NEW p \in Paths, SelfWriteExpires(p) PROVE Locked'
  BY <1>5, SameLock DEF SelfWriteExpires, db
<1>6. ASSUME NEW W \in SUBSET Writers, Die(W), page' = page PROVE Locked'
  <2>1. \A w \in Writers : \/ w \in W /\ put'[w].pc = "idle"
                           \/ w \notin W /\ put'[w] = put[w]
    BY <1>6 DEF Die, IdlePut
  <2> QED
    BY <1>6, <2>1 DEF Locked, Die
<1>7. CASE OutsideCrashes
  <2>1. Writers \ Inside \in SUBSET Writers
    OBVIOUS
  <2> QED
    BY <1>6, <1>7, <2>1 DEF OutsideCrashes, db
<1>8. CASE WatcherCrashes \/ PollDrain \/ PollReconcile \/ OverflowRecovery \/ Audit \/ Start
  BY <1>8, SameLock DEF WatcherCrashes, PollDrain, PollReconcile, OverflowRecovery, Audit, Start, db
<1>9. CASE Rearm
  BY <1>9, FreeLock DEF Rearm
<1>10. CASE PassDiff \/ PassEnd \/ PassFails
  BY <1>10, SameLock DEF PassDiff, PassEnd, PassFails, db
<1>11. CASE PassRead \/ PassApply
  BY <1>11, FreeLock DEF PassRead, PassApply
<1>12. CASE HostCrashes
  BY <1>6, <1>12 DEF HostCrashes, db
<1>13. CASE UNCHANGED vars
  BY <1>13, SameLock DEF vars, db
<1> QED
  BY <1>1, <1>2, <1>3, <1>4, <1>5, <1>7, <1>8, <1>9, <1>10, <1>11, <1>12, <1>13 DEF Next, Pass

\* The lock is held in every reachable state by whom it should.
LEMMA LockHolds == Spec => [](Types /\ Locked)
<1>1. Init => Locked
  BY DEF Init, Locked, IdlePut
<1> QED
  BY <1>1, TypesHold, LockStep, PTL DEF Spec

\* Of writers that started from one version of a page, in one process or in two, at most
\* one commits, and none that a pass overtook: the guard of the UPDATE and the lock held
\* until the COMMIT make the version check last (stage_page_record).
THEOREM BaseStaysCurrent == Spec => BaseIsCurrent
<1>1. Locked => [\A w \in Writers : put[w].pc = "renamed" /\ put'[w].pc = "committed"
                                      => page[put[w].path].ver = put[w].ver]_vars
  BY DEF Locked
<1> QED
  BY <1>1, LockHolds, PTL DEF BaseIsCurrent
-----------------------------------------------------------------------------
(* The index holds what the files held. *)

\* What the disk, the index and a pass have of a file, the file has held.
History ==
  \A p \in Paths : {None, disk[p].data, page[p].data, pass.got[p]} \subseteq held[p]

\* Every step keeps it.
LEMMA HistoryStep == ASSUME Types, History, [Next]_vars PROVE History'
<1>1. ASSUME NEW p \in Paths, NEW d \in Content, Write(p, d), page' = page, pass' = pass
      PROVE  History'
  <2>1. disk' = [disk EXCEPT ![p] = [data |-> d, stat |-> disk[p].stat + 1]]
    BY <1>1 DEF Write, Types
  <2>2. /\ held' = [held EXCEPT ![p] = held[p] \cup {d}]
        /\ \A q \in Paths : disk'[q].data = IF q = p THEN d ELSE disk[q].data
    BY <1>1, <2>1 DEF Write, Types
  <2> QED
    BY <1>1, <2>2 DEF History, Types
<1>2. ASSUME disk' = disk, held' = held, page' = page, pass' = pass PROVE History'
  BY <1>2 DEF History
<1>3. ASSUME disk' = disk, held' = held, page' = page,
             pass'.got = [p \in Paths |-> None] \/ pass'.got = pass.got
      PROVE  History'
  BY <1>3 DEF History
<1>4. IdlePass.got = [p \in Paths |-> None]
  BY DEF IdlePass
<1>5. ASSUME NEW kind, NEW paths, NEW found, Walk(kind, paths, found)
      PROVE  pass'.got = [p \in Paths |-> None]
  BY <1>5 DEF Walk, IdlePass
<1>6. ASSUME NEW p \in Paths, NEW d \in Data \cup {None}, ExternalEdit(p, d) PROVE History'
  BY <1>1, <1>6 DEF ExternalEdit, db, Content
<1>7. ASSUME NEW w \in Writers, Put(w) PROVE History'
  <2>1. CASE PutRename(w)
    <3>1. put[w].path \in Paths /\ put[w].data \in Content
      BY <2>1 DEF PutRename, Types, PutsAreOfFiles, Content
    <3> QED
      BY <1>1, <2>1, <3>1 DEF PutRename, db
  <2>2. CASE PutCommit(w)
    <3>1. \A p \in Paths : page'[p].data = page[p].data \/ page'[p].data = disk[p].data
      BY <2>2 DEF PutCommit, Types
    <3> QED
      BY <2>2, <3>1 DEF PutCommit, History
  <2>3. CASE PutStage(w) \/ PutRenameFails(w) \/ PutFails(w) \/ PutFinish(w)
    BY <1>2, <2>3 DEF PutStage, PutRenameFails, PutFails, PutFinish, diskVars, db
  <2> QED
    BY <1>7, <2>1, <2>2, <2>3 DEF Put
<1>8. ASSUME NEW w \in Writers, NEW p \in Paths, NEW d \in Data, PutCheck(w, p, d) PROVE History'
  BY <1>2, <1>8 DEF PutCheck, diskVars, db
<1>9. ASSUME NEW p \in Paths, WatchEvent(p) \/ SelfWriteExpires(p) PROVE History'
  BY <1>2, <1>9 DEF WatchEvent, SelfWriteExpires, diskVars, db
<1>10. CASE OutsideCrashes \/ WatcherCrashes \/ Rearm \/ PollDrain
  BY <1>2, <1>10 DEF OutsideCrashes, WatcherCrashes, Rearm, PollDrain, diskVars, db
<1>11. CASE PollReconcile \/ OverflowRecovery \/ Audit \/ Start
  <2>1. pass'.got = [p \in Paths |-> None] \/ pass' = pass
    BY <1>5, <1>11 DEF PollReconcile, OverflowRecovery, Audit, Start
  <2> QED
    BY <1>3, <1>11, <2>1 DEF PollReconcile, OverflowRecovery, Audit, Start, diskVars, db
<1>12. CASE PassDiff \/ PassRead
  <2>1. \A p \in Paths : pass'.got[p] = disk[p].data
    BY <1>12, ReadGets
  <2> QED
    BY <1>12, <2>1 DEF PassDiff, PassRead, History, diskVars, db
<1>13. CASE PassApply
  <2>1. \A p \in Paths : page'[p].data \in {None, page[p].data, pass.got[p]}
    BY <1>13 DEF PassApply, NoPage
  <2>2. pass'.got = [p \in Paths |-> None]
    BY <1>13 DEF PassApply, IdlePass
  <2> QED
    BY <1>13, <2>1, <2>2 DEF PassApply, History
<1>14. CASE PassEnd \/ PassFails \/ HostCrashes
  BY <1>3, <1>4, <1>14 DEF PassEnd, PassFails, HostCrashes, diskVars, db
<1>15. CASE UNCHANGED vars
  BY <1>2, <1>15 DEF vars, diskVars, db
<1> QED
  BY <1>6, <1>7, <1>8, <1>9, <1>10, <1>11, <1>12, <1>13, <1>14, <1>15 DEF Next, Pass

\* "DB state never leads disk state": at whichever step a put or a pass is cut off, the
\* index holds nothing of a file that the file did not hold before.
THEOREM IndexNeverLeads == Spec => []DbNeverLeads
<1>1. Init => History
  BY DEF Init, History, NoPage, IdlePass
<1>2. History => DbNeverLeads
  BY DEF History, DbNeverLeads
<1> QED
  BY <1>1, <1>2, TypesHold, HistoryStep, PTL DEF Spec

-----------------------------------------------------------------------------
(* Stat stamps. *)

\* No stored stamp is ahead of the file; where one is the file's, so is the content that
\* was taken with it.
Stamps ==
  \A p \in Paths :
    /\ pass.seen[p] <= disk[p].stat
    /\ pass.pc \in {"diffed", "read"} /\ pass.seen[p] = disk[p].stat => pass.got[p] = disk[p].data
    /\ row[p] # None => /\ row[p].stat <= disk[p].stat
                        /\ row[p].stat = disk[p].stat => row[p].data = disk[p].data

\* Every step keeps it.
LEMMA StampStep == ASSUME Types, Stamps, [Next]_vars PROVE Stamps'
<1> USE IndexAssumption
<1>0. \A p \in Paths : /\ pass.seen[p] \in Nat /\ disk[p].stat \in Nat
                       /\ row[p] # None => row[p].stat \in Nat
  BY DEF Types, PassType
<1>1. ASSUME NEW p \in Paths, NEW d \in Content, Write(p, d), row' = row, pass' = pass
      PROVE  Stamps'
  <2>1. disk' = [disk EXCEPT ![p] = [data |-> d, stat |-> disk[p].stat + 1]]
    BY <1>1 DEF Write, Types
  <2>2. disk'[p].stat = disk[p].stat + 1 /\ \A q \in Paths \ {p} : disk'[q] = disk[q]
    BY <2>1 DEF Types
  <2>3. pass.seen[p] < disk'[p].stat /\ (row[p] # None => row[p].stat < disk'[p].stat)
    BY <1>0, <2>2 DEF Stamps
  <2>4. ASSUME NEW q \in Paths
        PROVE  /\ pass'.seen[q] <= disk'[q].stat
               /\ pass'.pc \in {"diffed", "read"} /\ pass'.seen[q] = disk'[q].stat
                    => pass'.got[q] = disk'[q].data
               /\ row'[q] # None => /\ row'[q].stat <= disk'[q].stat
                                    /\ row'[q].stat = disk'[q].stat => row'[q].data = disk'[q].data
    <3>1. CASE q = p
      BY <1>0, <1>1, <2>2, <2>3, <3>1
    <3>2. CASE q # p
      BY <1>1, <2>2, <3>2 DEF Stamps
    <3> QED
      BY <3>1, <3>2
  <2> QED
    BY <2>4 DEF Stamps
<1>2. ASSUME disk' = disk, row' = row, pass' = pass PROVE Stamps'
  BY <1>2 DEF Stamps
<1>3. ASSUME disk' = disk, row' = row, pass'.pc \notin {"diffed", "read"},
             \A p \in Paths : pass'.seen[p] \in {0, disk[p].stat}
      PROVE  Stamps'
  BY <1>0, <1>3 DEF Stamps
<1>4. IdlePass.pc = "idle" /\ \A p \in Paths : IdlePass.seen[p] = 0
  BY DEF IdlePass
<1>5. ASSUME NEW kind, NEW paths, NEW found, Walk(kind, paths, found)
      PROVE  pass'.pc = "walked" /\ \A p \in Paths : pass'.seen[p] \in {0, disk[p].stat}
  BY <1>5 DEF Walk, IdlePass, StatNow
<1>6. ASSUME NEW p \in Paths, NEW d \in Data \cup {None}, ExternalEdit(p, d) PROVE Stamps'
  BY <1>1, <1>6 DEF ExternalEdit, db, Content
<1>7. ASSUME NEW w \in Writers, Put(w) PROVE Stamps'
  <2>1. CASE PutRename(w)
    <3>1. put[w].path \in Paths /\ put[w].data \in Content
      BY <2>1 DEF PutRename, Types, PutsAreOfFiles, Content
    <3> QED
      BY <1>1, <2>1, <3>1 DEF PutRename, db
  <2>2. CASE PutCommit(w)
    <3>1. \A p \in Paths : \/ row'[p] = row[p]
                           \/ row'[p].data = disk[p].data /\ row'[p].stat = disk[p].stat
      BY <2>2 DEF PutCommit, Types
    <3>2. disk' = disk /\ pass' = pass
      BY <2>2 DEF PutCommit
    <3> QED
      BY <1>0, <3>1, <3>2 DEF Stamps
  <2>3. CASE PutStage(w) \/ PutRenameFails(w) \/ PutFails(w) \/ PutFinish(w)
    BY <1>2, <2>3 DEF PutStage, PutRenameFails, PutFails, PutFinish, diskVars, db
  <2> QED
    BY <1>7, <2>1, <2>2, <2>3 DEF Put
<1>8. ASSUME NEW w \in Writers, NEW p \in Paths, NEW d \in Data, PutCheck(w, p, d) PROVE Stamps'
  BY <1>2, <1>8 DEF PutCheck, diskVars, db
<1>9. ASSUME NEW p \in Paths, WatchEvent(p) \/ SelfWriteExpires(p) PROVE Stamps'
  BY <1>2, <1>9 DEF WatchEvent, SelfWriteExpires, diskVars, db
<1>10. CASE OutsideCrashes \/ WatcherCrashes \/ Rearm \/ PollDrain
  BY <1>2, <1>10 DEF OutsideCrashes, WatcherCrashes, Rearm, PollDrain, diskVars, db
<1>11. CASE PollReconcile \/ OverflowRecovery \/ Audit \/ Start
  <2>1. disk' = disk /\ row' = row
    BY <1>11 DEF PollReconcile, OverflowRecovery, Audit, Start, diskVars, db
  <2>2. \/ pass' = pass
        \/ pass'.pc = "walked" /\ \A p \in Paths : pass'.seen[p] \in {0, disk[p].stat}
    BY <1>5, <1>11 DEF PollReconcile, OverflowRecovery, Audit, Start
  <2> QED
    BY <1>2, <1>3, <2>1, <2>2
<1>12. CASE PassDiff
  BY <1>12, ReadGets DEF PassDiff, Stamps, diskVars, db
<1>13. CASE PassRead
  <2>1. /\ pass.pc = "diffed" /\ disk' = disk /\ pass'.seen = pass.seen
        /\ \A p \in Paths : pass'.got[p] = disk[p].data
    BY <1>13, ReadGets DEF PassRead, diskVars
  <2>2. \A p \in Paths : \/ row'[p] = row[p]
                         \/ row'[p] = [data |-> pass.got[p], stat |-> pass.seen[p]]
    BY <1>13 DEF PassRead
  <2>3. ASSUME NEW p \in Paths
        PROVE  /\ pass'.seen[p] <= disk'[p].stat
               /\ pass'.got[p] = disk'[p].data
               /\ row'[p] # None => /\ row'[p].stat <= disk'[p].stat
                                    /\ row'[p].stat = disk'[p].stat => row'[p].data = disk'[p].data
    <3>1. /\ pass.seen[p] <= disk[p].stat
          /\ pass.seen[p] = disk[p].stat => pass.got[p] = disk[p].data
      BY <2>1 DEF Stamps
    <3>2. CASE row'[p] = row[p]
      BY <2>1, <3>1, <3>2 DEF Stamps
    <3>3. CASE row'[p] = [data |-> pass.got[p], stat |-> pass.seen[p]]
      BY <2>1, <3>1, <3>3
    <3> QED
      BY <2>2, <3>2, <3>3
  <2> QED
    BY <2>3 DEF Stamps
<1>14. CASE PassApply
  <2>1. /\ pass.pc = "read" /\ disk' = disk /\ pass'.pc = "applied"
        /\ \A p \in Paths : pass'.seen[p] = 0
    BY <1>14 DEF PassApply, IdlePass
  <2>2. \A p \in Paths : \/ row'[p] = None
                         \/ row'[p] = row[p]
                         \/ row'[p] = [data |-> pass.got[p], stat |-> pass.seen[p]]
    BY <1>14 DEF PassApply, StoredStat
  <2>3. ASSUME NEW p \in Paths
        PROVE  /\ pass'.seen[p] <= disk'[p].stat
               /\ row'[p] # None => /\ row'[p].stat <= disk'[p].stat
                                    /\ row'[p].stat = disk'[p].stat => row'[p].data = disk'[p].data
    <3>1. /\ pass.seen[p] <= disk[p].stat
          /\ pass.seen[p] = disk[p].stat => pass.got[p] = disk[p].data
      BY <2>1 DEF Stamps
    <3>2. CASE row'[p] \in {None, row[p]}
      BY <1>0, <2>1, <3>2 DEF Stamps
    <3>3. CASE row'[p] = [data |-> pass.got[p], stat |-> pass.seen[p]]
      BY <1>0, <2>1, <3>1, <3>3
    <3> QED
      BY <2>2, <3>2, <3>3
  <2> QED
    BY <2>1, <2>3 DEF Stamps
<1>15. CASE PassEnd \/ PassFails \/ HostCrashes
  BY <1>3, <1>4, <1>15 DEF PassEnd, PassFails, HostCrashes, diskVars, db
<1>16. CASE UNCHANGED vars
  BY <1>2, <1>16 DEF vars, diskVars, db
<1> QED
  BY <1>6, <1>7, <1>8, <1>9, <1>10, <1>11, <1>12, <1>13, <1>14, <1>15, <1>16 DEF Next, Pass

\* A file whose stat is the stored one has the stored content, whatever was written while
\* puts and passes were under way: the row is stored with a stat taken before its content
\* was read, so a walk may skip the file (file_state::stat_differs, apply_reingest).
THEOREM StatStaysTrusted == Spec => []StatIsTrusted
<1>1. Init => Stamps
  BY DEF Init, Stamps, IdlePass
<1>2. Stamps => StatIsTrusted
  BY DEF Stamps, StatIsTrusted
<1> QED
  BY <1>1, <1>2, TypesHold, StampStep, PTL DEF Spec
-----------------------------------------------------------------------------
(* Recovery sentinels. *)

Busy(w) == put[w].pc # "idle"

\* The numbers of writes under way are their own; a write that may have renamed has a
\* sentinel that no pass has found, one that has not has none.
Numbers ==
  /\ \A s \in sentinels \cup pass.found : s <= puts
  /\ \A w \in Writers : Busy(w) => put[w].id <= puts
  /\ \A v, w \in Writers : Busy(v) /\ Busy(w) /\ put[v].id = put[w].id => v = w
  /\ \A w \in Writers :
       /\ put[w].pc \in {"staged", "renamed"} => put[w].id \in sentinels \ pass.found
       /\ put[w].pc = "checked" => put[w].id \notin sentinels \cup pass.found

\* Every step keeps it.
LEMMA NumberStep == ASSUME Types, Locked, Numbers, [Next]_vars PROVE Numbers'
<1> USE IndexAssumption
<1>0. puts \in Nat /\ sentinels \subseteq Nat /\ pass.found \subseteq Nat
      /\ \A w \in Writers : put[w].id \in Nat
  BY DEF Types, PassType, PutType
<1>1. ASSUME sentinels' = sentinels, puts' = puts, pass'.found \in {pass.found, {}},
             \A w \in Writers : put'[w] = put[w] \/ put'[w].pc = "idle"
      PROVE  Numbers'
  BY <1>0, <1>1 DEF Numbers, Busy
<1>2. IdlePass.found = {}
  BY DEF IdlePass
<1>3. ASSUME NEW p \in Paths, NEW d \in Data \cup {None}, ExternalEdit(p, d) PROVE Numbers'
  BY <1>1, <1>3 DEF ExternalEdit
<1>4. ASSUME NEW w \in Writers, NEW p \in Paths, NEW d \in Data, PutCheck(w, p, d) PROVE Numbers'
  <2>1. /\ put'[w].id = puts + 1 /\ put'[w].pc = "checked" /\ puts' = puts + 1
        /\ sentinels' = sentinels /\ pass' = pass
        /\ \A v \in Writers \ {w} : put'[v] = put[v]
    BY <1>4 DEF PutCheck, Types
  <2>2. \A s \in sentinels' \cup pass'.found : s <= puts /\ s # puts + 1
    BY <1>0, <2>1 DEF Numbers
  <2>3. \A v \in Writers \ {w} : Busy(v) => put[v].id <= puts /\ put[v].id # puts + 1
    BY <1>0 DEF Numbers
  <2>4. /\ \A s \in sentinels' \cup pass'.found : s <= puts'
        /\ \A v \in Writers : put'[v].pc # "idle" => put'[v].id <= puts'
    BY <1>0, <2>1, <2>2, <2>3 DEF Busy
  <2>5. \A u, v \in Writers : put'[u].pc # "idle" /\ put'[v].pc # "idle" /\ put'[u].id = put'[v].id
                                => u = v
    BY <2>1, <2>3 DEF Numbers, Busy
  <2>6. \A v \in Writers :
          /\ put'[v].pc \in {"staged", "renamed"} => put'[v].id \in sentinels' \ pass'.found
          /\ put'[v].pc = "checked" => put'[v].id \notin sentinels' \cup pass'.found
    BY <2>1, <2>2 DEF Numbers
  <2> QED
    BY <2>4, <2>5, <2>6 DEF Numbers, Busy
<1>5. ASSUME NEW w \in Writers, Put(w) PROVE Numbers'
  <2>1. /\ pass' = pass /\ puts' = puts /\ Busy(w)
        /\ \A v \in Writers \ {w} : put'[v] = put[v]
        /\ put'[w].pc = "idle" \/ put'[w].id = put[w].id
    BY <1>5 DEF Put, PutStage, PutRename, PutRenameFails, PutCommit, PutFails, PutFinish, counts,
                Types, PutType, Busy, IdlePut
  <2>2. CASE PutStage(w)
    <3>1. /\ put[w].pc = "checked"
          /\ \/ put'[w].pc = "staged" /\ sentinels' = sentinels \cup {put[w].id}
             \/ put'[w].pc = "idle" /\ sentinels' = sentinels
      BY <2>2 DEF PutStage, Types, PutType, IdlePut
    <3>2. CASE put'[w].pc = "staged" /\ sentinels' = sentinels \cup {put[w].id}
      <4>1. put[w].id <= puts /\ put[w].id \notin pass.found /\ put'[w].id = put[w].id
        BY <2>1, <3>1, <3>2 DEF Numbers
      <4>2. \A v \in Writers \ {w} : Busy(v) => put[v].id # put[w].id
        BY <2>1 DEF Numbers
      <4>3. /\ \A s \in sentinels' \cup pass'.found : s <= puts'
            /\ \A v \in Writers : put'[v].pc # "idle" => put'[v].id <= puts'
        BY <2>1, <3>2, <4>1 DEF Numbers, Busy
      <4>4. \A u, v \in Writers : put'[u].pc # "idle" /\ put'[v].pc # "idle"
                                  /\ put'[u].id = put'[v].id => u = v
        BY <2>1, <4>1, <4>2 DEF Numbers, Busy
      <4>5. \A v \in Writers :
              /\ put'[v].pc \in {"staged", "renamed"} => put'[v].id \in sentinels' \ pass'.found
              /\ put'[v].pc = "checked" => put'[v].id \notin sentinels' \cup pass'.found
        BY <2>1, <3>2, <4>1, <4>2 DEF Numbers, Busy
      <4> QED
        BY <4>3, <4>4, <4>5 DEF Numbers, Busy
    <3>3. CASE put'[w].pc = "idle" /\ sentinels' = sentinels
      BY <2>1, <3>3 DEF Numbers, Busy
    <3> QED
      BY <3>1, <3>2, <3>3
  <2>3. CASE PutRename(w)
    <3>1. put[w].pc = "staged" /\ put'[w].pc = "renamed" /\ sentinels' = sentinels
      BY <2>3 DEF PutRename, Types, PutType
    <3> QED
      BY <1>0, <2>1, <3>1 DEF Numbers, Busy
  <2>4. CASE PutRenameFails(w) \/ PutFinish(w)
    <3>1. put'[w].pc = "idle" /\ sentinels' = sentinels \ {put[w].id}
      BY <2>4 DEF PutRenameFails, PutFinish, Types, IdlePut
    <3> QED
      BY <1>0, <2>1, <3>1 DEF Numbers, Busy
  <2>5. CASE PutCommit(w) \/ PutFails(w)
    <3>1. put[w].pc = "renamed" /\ put'[w].pc \in {"idle", "committed"} /\ sentinels' = sentinels
      BY <2>5 DEF PutCommit, PutFails, Types, PutType, IdlePut
    <3> QED
      BY <1>0, <2>1, <3>1 DEF Numbers, Busy
  <2> QED
    BY <1>5, <2>2, <2>3, <2>4, <2>5 DEF Put
<1>6. ASSUME NEW p \in Paths, WatchEvent(p) \/ SelfWriteExpires(p) PROVE Numbers'
  BY <1>1, <1>6 DEF WatchEvent, SelfWriteExpires, counts
<1>7. ASSUME NEW W \in SUBSET Writers, Die(W)
      PROVE  \A w \in Writers : put'[w] = put[w] \/ put'[w].pc = "idle"
  BY <1>7 DEF Die, IdlePut
<1>8. CASE OutsideCrashes
  <2>1. \A w \in Writers : put'[w] = put[w] \/ put'[w].pc = "idle"
    BY <1>7, <1>8 DEF OutsideCrashes
  <2> QED
    BY <1>1, <1>8, <2>1 DEF OutsideCrashes
<1>9. CASE WatcherCrashes \/ Rearm \/ PollDrain
  BY <1>1, <1>9 DEF WatcherCrashes, Rearm, PollDrain, counts
<1>10. ASSUME NEW kind, NEW paths, NEW found, Walk(kind, paths, found) PROVE pass'.found = found
  BY <1>10 DEF Walk, IdlePass, StatNow
<1>11. CASE PollReconcile \/ OverflowRecovery \/ Audit
  <2>1. pass'.found = {}
    BY <1>10, <1>11 DEF PollReconcile, OverflowRecovery, Audit
  <2> QED
    BY <1>1, <1>11, <2>1 DEF PollReconcile, OverflowRecovery, Audit, counts
<1>12. CASE Start
  <2>1. CASE sentinels = {}
    BY <1>1, <1>12, <2>1 DEF Start, counts
  <2>2. CASE sentinels # {}
    <3>1. /\ pass'.found = sentinels /\ tx = None
          /\ sentinels' = sentinels /\ put' = put /\ puts' = puts
      BY <1>10, <1>12, <2>2 DEF Start, counts
    <3>2. \A w \in Writers : put[w].pc \notin {"staged", "renamed"}
      BY <3>1 DEF Locked
    <3> QED
      BY <1>0, <3>1, <3>2 DEF Numbers, Busy
  <2> QED
    BY <2>1, <2>2
<1>13. CASE PassDiff \/ PassRead
  BY <1>1, <1>13, ReadGets DEF PassDiff, PassRead, counts
<1>14. CASE PassApply
  <2>1. pass'.found = pass.found
    BY <1>14 DEF PassApply, IdlePass
  <2> QED
    BY <1>1, <1>14, <2>1 DEF PassApply, counts
<1>15. CASE PassEnd
  <2>1. /\ sentinels' = sentinels \ pass.found /\ pass'.found = {}
        /\ put' = put /\ puts' = puts
    BY <1>2, <1>15 DEF PassEnd, Removed, counts
  <2> QED
    BY <1>0, <2>1 DEF Numbers, Busy
<1>16. CASE PassFails
  BY <1>1, <1>2, <1>16 DEF PassFails
<1>17. CASE HostCrashes
  <2>1. \A w \in Writers : put'[w] = put[w] \/ put'[w].pc = "idle"
    BY <1>7, <1>17 DEF HostCrashes
  <2> QED
    BY <1>1, <1>2, <1>17, <2>1 DEF HostCrashes
<1>18. CASE UNCHANGED vars
  BY <1>1, <1>18 DEF vars, counts
<1> QED
  BY <1>3, <1>4, <1>5, <1>6, <1>8, <1>9, <1>11, <1>12, <1>13, <1>14, <1>15, <1>16, <1>17, <1>18
     DEF Next, Pass


\* Sentinel s stands for the torn file p: it is not among those the pass will remove, or the
\* pass has the file's present stat and will read it; and no write under way will remove it,
\* but the one that left p torn.
Covers(s, p) ==
  /\ s \notin pass.found
     \/ (pass.pc \in {"walked", "diffed", "read"} /\ pass.seen[p] = disk[p].stat)
  /\ \A w \in Writers : Busy(w) /\ put[w].id = s => put[w].pc = "renamed" /\ put[w].path = p

Covered == \A p \in torn : Exists(p) /\ \E s \in sentinels : Covers(s, p)

\* Every step keeps it.
LEMMA CoverStep == ASSUME Types, Locked, Numbers, Covered, [Next]_vars PROVE Covered'
<1> USE IndexAssumption
<1>0. torn \subseteq Paths
  BY DEF Types
<1> DEFINE SameFile(p) == disk'[p] = disk[p]
           SamePass(p) == \/ pass'.found = {}
                          \/ /\ pass'.found = pass.found
                             /\ pass.pc \in {"walked", "diffed", "read"} =>
                                  pass'.pc \in {"walked", "diffed", "read"}
                             /\ pass'.seen[p] = pass.seen[p]
           SamePuts == \A w \in Writers : put'[w] = put[w] \/ put'[w].pc = "idle"
<1>1. ASSUME torn' \subseteq torn, sentinels' = sentinels, SamePuts,
             \A p \in torn' : SameFile(p) /\ SamePass(p)
      PROVE  Covered'
  <2> SUFFICES ASSUME NEW p \in torn' PROVE Exists(p)' /\ \E s \in sentinels' : Covers(s, p)'
    BY DEF Covered
  <2>1. PICK s \in sentinels : Covers(s, p)
    BY <1>1 DEF Covered
  <2>2. Exists(p)'
    BY <1>1 DEF Covered, Exists
  <2>3. Covers(s, p)'
    BY <1>1, <2>1 DEF Covers, Busy
  <2> QED
    BY <1>1, <2>1, <2>2, <2>3
<1>2. IdlePass.found = {}
  BY DEF IdlePass
<1>3. ASSUME NEW p \in Paths, NEW d \in Data \cup {None}, ExternalEdit(p, d) PROVE Covered'
  <2>1. \A q \in Paths \ {p} : disk'[q] = disk[q]
    BY <1>3 DEF ExternalEdit, Write, Types
  <2> QED
    BY <1>0, <1>1, <1>3, <2>1 DEF ExternalEdit
<1>4. ASSUME NEW w \in Writers, NEW p \in Paths, NEW d \in Data, PutCheck(w, p, d) PROVE Covered'
  <2> SUFFICES ASSUME NEW q \in torn PROVE Exists(q)' /\ \E s \in sentinels' : Covers(s, q)'
    BY <1>4 DEF Covered, PutCheck, diskVars
  <2>1. PICK s \in sentinels : Covers(s, q)
    BY DEF Covered
  <2>2. /\ put'[w].id = puts + 1 /\ pass' = pass /\ disk' = disk /\ sentinels' = sentinels
        /\ \A v \in Writers \ {w} : put'[v] = put[v]
    BY <1>4 DEF PutCheck, Types, diskVars
  <2>3. s # puts + 1
    <3>1. s <= puts /\ s \in Nat /\ puts \in Nat
      BY DEF Numbers, Types
    <3> QED
      BY <3>1
  <2>4. Covers(s, q)'
    BY <2>1, <2>2, <2>3 DEF Covers, Busy
  <2> QED
    BY <2>1, <2>2, <2>4 DEF Covered, Exists
<1>5. ASSUME NEW w \in Writers, Put(w) PROVE Covered'
  <2>1. /\ pass' = pass /\ Busy(w)
        /\ \A v \in Writers \ {w} : put'[v] = put[v]
        /\ put'[w].pc = "idle" \/ (put'[w].id = put[w].id /\ put'[w].path = put[w].path)
    BY <1>5 DEF Put, PutStage, PutRename, PutRenameFails, PutCommit, PutFails, PutFinish,
                Types, PutType, Busy, IdlePut
  \* the sentinel of a torn file that is not the write's own
  <2>2. ASSUME NEW q \in torn', NEW s \in sentinels, Covers(s, q), s # put[w].id, SameFile(q),
               sentinels \ {put[w].id} \subseteq sentinels'
        PROVE  s \in sentinels' /\ Covers(s, q)'
    BY <2>1, <2>2 DEF Covers, Busy
  <2>3. ASSUME put[w].pc # "renamed" \/ put[w].path \notin torn',
               torn' \subseteq torn, \A q \in torn' : SameFile(q),
               sentinels \ {put[w].id} \subseteq sentinels'
        PROVE  Covered'
    <3> SUFFICES ASSUME NEW q \in torn' PROVE Exists(q)' /\ \E s \in sentinels' : Covers(s, q)'
      BY DEF Covered
    <3>1. PICK s \in sentinels : Covers(s, q)
      BY <2>3 DEF Covered
    <3>2. s # put[w].id
      BY <2>1, <2>3, <3>1 DEF Covers
    <3>3. Exists(q)'
      BY <2>3 DEF Covered, Exists
    <3> QED
      BY <2>2, <2>3, <3>1, <3>2, <3>3
  <2>4. CASE PutStage(w)
    BY <2>3, <2>4 DEF PutStage, diskVars
  <2>5. CASE PutRenameFails(w)
    BY <2>3, <2>5 DEF PutRenameFails, diskVars
  <2>6. CASE PutFinish(w)
    BY <2>3, <2>6 DEF PutFinish, diskVars
  <2>7. CASE PutCommit(w)
    BY <2>3, <2>7 DEF PutCommit
  <2>8. CASE PutFails(w)
    <3>1. put'[w].pc = "idle"
      BY <2>8 DEF PutFails, Types, IdlePut
    <3> QED
      BY <1>1, <2>1, <2>8, <3>1 DEF PutFails, diskVars
  <2>9. CASE PutRename(w)
    <3>0. PICK p : p = put[w].path
      OBVIOUS
    <3>1. /\ p \in Paths /\ put[w].data # None /\ put[w].pc = "staged"
          /\ torn' = torn \cup {p} /\ sentinels' = sentinels
      BY <2>9, <3>0 DEF PutRename, Types, PutsAreOfFiles
    <3>2. disk'[p].data = put[w].data /\ \A q \in Paths \ {p} : disk'[q] = disk[q]
      BY <2>9, <3>0, <3>1 DEF PutRename, Write, Types
    <3>3. put'[w].pc = "renamed" /\ put'[w].id = put[w].id /\ put'[w].path = p
      BY <2>9, <3>0 DEF PutRename, Types, PutType
    <3>4. Exists(p)' /\ \E s \in sentinels' : Covers(s, p)'
      <4>1. put[w].id \in sentinels /\ put[w].id \notin pass.found
        BY <3>1 DEF Numbers
      <4>2. \A v \in Writers \ {w} : Busy(v) => put[v].id # put[w].id
        BY <2>1 DEF Numbers
      <4>3. PICK s \in sentinels : s = put[w].id
        BY <4>1
      <4>4. Covers(s, p)'
        BY <2>1, <3>3, <4>1, <4>2, <4>3 DEF Covers, Busy
      <4> QED
        BY <3>1, <3>2, <4>3, <4>4 DEF Exists
    <3>5. ASSUME NEW q \in torn, q # p PROVE Exists(q)' /\ \E s \in sentinels' : Covers(s, q)'
      <4>1. PICK s \in sentinels : Covers(s, q)
        BY DEF Covered
      <4>2. s # put[w].id
        BY <2>1, <3>1, <4>1 DEF Covers
      <4>3. disk'[q] = disk[q]
        BY <1>0, <3>2, <3>5
      <4>4. Exists(q)'
        BY <4>3 DEF Covered, Exists
      <4> QED
        BY <2>2, <3>1, <4>1, <4>2, <4>3, <4>4
    <3> QED
      BY <3>1, <3>4, <3>5 DEF Covered
  <2> QED
    BY <1>5, <2>4, <2>5, <2>6, <2>7, <2>8, <2>9 DEF Put
<1>6. ASSUME NEW p \in Paths, WatchEvent(p) \/ SelfWriteExpires(p) PROVE Covered'
  BY <1>1, <1>6 DEF WatchEvent, SelfWriteExpires, diskVars
<1>7. ASSUME NEW W \in SUBSET Writers, Die(W) PROVE SamePuts
  BY <1>7 DEF Die, IdlePut
<1>8. CASE OutsideCrashes
  <2>1. SamePuts
    BY <1>7, <1>8 DEF OutsideCrashes
  <2> QED
    BY <1>1, <1>8, <2>1 DEF OutsideCrashes, diskVars
<1>9. CASE WatcherCrashes \/ Rearm \/ PollDrain
  BY <1>1, <1>9 DEF WatcherCrashes, Rearm, PollDrain, diskVars
<1>10. ASSUME NEW kind, NEW paths, NEW found, Walk(kind, paths, found)
       PROVE  /\ pass'.found = found /\ pass'.pc = "walked"
              /\ \A p \in Paths : p \in paths /\ Exists(p) => pass'.seen[p] = disk[p].stat
  BY <1>10 DEF Walk, IdlePass, StatNow
<1>11. CASE PollReconcile \/ OverflowRecovery \/ Audit
  <2>1. pass'.found = {}
    BY <1>10, <1>11 DEF PollReconcile, OverflowRecovery, Audit
  <2> QED
    BY <1>1, <1>11, <2>1 DEF PollReconcile, OverflowRecovery, Audit, diskVars
<1>12. CASE Start
  <2>1. CASE sentinels = {}
    BY <1>1, <1>12, <2>1 DEF Start, diskVars
  <2>2. CASE sentinels # {}
    <3>1. /\ sentinels' = sentinels /\ put' = put /\ disk' = disk /\ torn' = torn
          /\ pass'.pc = "walked"
          /\ \A p \in Paths : Exists(p) => pass'.seen[p] = disk[p].stat
      BY <1>10, <1>12, <2>2 DEF Start, diskVars
    <3> SUFFICES ASSUME NEW p \in torn PROVE Exists(p)' /\ \E s \in sentinels' : Covers(s, p)'
      BY <3>1 DEF Covered
    <3>2. PICK s \in sentinels : Covers(s, p)
      BY DEF Covered
    <3>3. Exists(p) /\ Exists(p)'
      BY <3>1 DEF Covered, Exists
    <3>4. Covers(s, p)'
      BY <1>0, <3>1, <3>2, <3>3 DEF Covers, Busy
    <3> QED
      BY <3>1, <3>2, <3>3, <3>4
  <2> QED
    BY <2>1, <2>2
<1>13. CASE PassDiff \/ PassRead
  <2>1. /\ pass'.found = pass.found /\ pass'.seen = pass.seen /\ pass'.pc \in {"diffed", "read"}
    BY <1>13, ReadGets
  <2> QED
    BY <1>1, <1>13, <2>1 DEF PassDiff, PassRead, diskVars
<1>14. CASE PassApply
  <2>1. /\ sentinels' = sentinels /\ put' = put /\ disk' = disk
        /\ torn' = {p \in torn : pass.seen[p] # disk[p].stat} /\ pass'.found = pass.found
    BY <1>14 DEF PassApply, IdlePass
  <2> SUFFICES ASSUME NEW p \in torn, pass.seen[p] # disk[p].stat
               PROVE  Exists(p)' /\ \E s \in sentinels' : Covers(s, p)'
    BY <2>1 DEF Covered
  <2>2. PICK s \in sentinels : Covers(s, p)
    BY DEF Covered
  <2>3. Exists(p)'
    BY <2>1 DEF Covered, Exists
  <2>4. Covers(s, p)'
    BY <2>1, <2>2 DEF Covers, Busy
  <2> QED
    BY <2>1, <2>2, <2>3, <2>4
<1>15. CASE PassEnd
  <2>1. /\ sentinels' = sentinels \ pass.found /\ put' = put /\ disk' = disk /\ torn' = torn
        /\ pass'.found = {} /\ pass.pc = "applied"
    BY <1>2, <1>15 DEF PassEnd, Removed, diskVars
  <2> SUFFICES ASSUME NEW p \in torn PROVE Exists(p)' /\ \E s \in sentinels' : Covers(s, p)'
    BY <2>1 DEF Covered
  <2>2. PICK s \in sentinels : Covers(s, p)
    BY DEF Covered
  <2>3. Exists(p)'
    BY <2>1 DEF Covered, Exists
  <2>4. s \in sentinels' /\ Covers(s, p)'
    BY <2>1, <2>2 DEF Covers, Busy
  <2> QED
    BY <2>3, <2>4
<1>16. CASE PassFails
  BY <1>1, <1>2, <1>16 DEF PassFails, diskVars
<1>17. CASE HostCrashes
  <2>1. SamePuts
    BY <1>7, <1>17 DEF HostCrashes
  <2> QED
    BY <1>1, <1>2, <1>17, <2>1 DEF HostCrashes, diskVars
<1>18. CASE UNCHANGED vars
  BY <1>1, <1>18 DEF vars, diskVars
<1> QED
  BY <1>3, <1>4, <1>5, <1>6, <1>8, <1>9, <1>11, <1>12, <1>13, <1>14, <1>15, <1>16, <1>17, <1>18
     DEF Next, Pass

\* A file that a put renamed and did not commit, because its process died or a later step
\* failed, is named by a sentinel until a pass has read it: no start of a host removes the
\* sentinel of a write it has not seen, and no put that of another
\* (recover_owned_collection_sentinels, cleanup_pre_rename).
THEOREM RenameStaysCovered == Spec => []RenameIsCovered
<1>1. Init => Numbers /\ Covered
  BY DEF Init, Numbers, Covered, Busy, IdlePut, IdlePass
<1>2. Covered => RenameIsCovered
  BY DEF Covered, RenameIsCovered
<1> QED
  BY <1>1, <1>2, LockHolds, NumberStep, CoverStep, PTL DEF Spec

-----------------------------------------------------------------------------
(* Rows and pages. *)

\* What a pass will write beside a stat, the row has, unless a put committed since the
\* plan; and a row is of the page.
RowsFollow ==
  /\ pass.pc = "diffed" => \A p \in Paths \ late : pass.plan[p] = "heal" /\ row[p] # None
                                                     => pass.got[p] = row[p].data
  /\ RowIsOfPage

\* Every step keeps it.
LEMMA RowStep == ASSUME Types, RowsFollow, [Next]_vars PROVE RowsFollow'
<1> USE IndexAssumption
<1>1. ASSUME page' = page, row' = row, late' = late, pass' = pass \/ pass'.pc # "diffed"
      PROVE  RowsFollow'
  BY <1>1 DEF RowsFollow, RowIsOfPage
<1>2. IdlePass.pc = "idle"
  BY DEF IdlePass
<1>3. ASSUME NEW kind, NEW paths, NEW found, Walk(kind, paths, found)
      PROVE  pass'.pc = "walked"
  BY <1>3 DEF Walk, IdlePass
<1>4. ASSUME NEW p \in Paths, NEW d \in Data \cup {None}, ExternalEdit(p, d) PROVE RowsFollow'
  BY <1>1, <1>4 DEF ExternalEdit, db
<1>5. ASSUME NEW w \in Writers, NEW p \in Paths, NEW d \in Data, PutCheck(w, p, d)
      PROVE  RowsFollow'
  BY <1>1, <1>5 DEF PutCheck, db
<1>6. ASSUME NEW w \in Writers, Put(w) PROVE RowsFollow'
  <2>1. CASE PutCommit(w)
    <3> DEFINE p == put[w].path
    <3>1. /\ pass' = pass
          /\ \A q \in Paths \ {p} : page'[q] = page[q] /\ row'[q] = row[q]
          /\ p \in Paths => page'[p].data = put[w].data /\ row'[p].data = put[w].data
      BY <2>1 DEF PutCommit, Types
    <3>2. /\ late' \ {p} = late \ {p}
          /\ p \notin late' => ~(pass.pc = "diffed" /\ pass.plan[p] = "heal")
      BY <2>1 DEF PutCommit
    <3> HIDE DEF p
    <3>3. ASSUME NEW q \in Paths \ late'
          PROVE  /\ row'[q] # None => row'[q].data = page'[q].data
                 /\ pass.pc = "diffed" /\ pass.plan[q] = "heal" /\ row'[q] # None
                      => pass.got[q] = row'[q].data
      <4>1. CASE q = p
        BY <3>1, <3>2, <3>3, <4>1
      <4>2. CASE q # p
        <5>1. q \in Paths \ late
          BY <3>2, <3>3, <4>2
        <5> QED
          BY <3>1, <4>2, <5>1 DEF RowsFollow, RowIsOfPage
      <4> QED
        BY <4>1, <4>2
    <3> QED
      BY <3>1, <3>3 DEF RowsFollow, RowIsOfPage
  <2>2. CASE PutStage(w) \/ PutRename(w) \/ PutRenameFails(w) \/ PutFails(w) \/ PutFinish(w)
    BY <1>1, <2>2 DEF PutStage, PutRename, PutRenameFails, PutFails, PutFinish, db
  <2> QED
    BY <1>6, <2>1, <2>2 DEF Put
<1>7. ASSUME NEW p \in Paths, WatchEvent(p) \/ SelfWriteExpires(p) PROVE RowsFollow'
  BY <1>1, <1>7 DEF WatchEvent, SelfWriteExpires, db
<1>8. CASE OutsideCrashes \/ WatcherCrashes \/ Rearm \/ PollDrain
  BY <1>1, <1>8 DEF OutsideCrashes, WatcherCrashes, Rearm, PollDrain, db
<1>9. CASE PollReconcile \/ OverflowRecovery \/ Audit
  BY <1>1, <1>3, <1>9 DEF PollReconcile, OverflowRecovery, Audit, db
<1>10. CASE Start
  BY <1>1, <1>3, <1>10 DEF Start, db
<1>11. CASE PassDiff
  <2> DEFINE plan == [p \in Paths |-> IF p \in Considered THEN Action(p) ELSE "keep"]
             got == [p \in Paths |-> disk[p].data]
  <2>1. pass'.got = got /\ page' = page /\ row' = row /\ late' = late
    BY <1>11, ReadGets DEF PassDiff, db
  <2>2. pass'.plan = plan
    <3>1. pass \in PassType /\ pass' = [pass EXCEPT !.pc = "diffed", !.plan = plan, !.got = got]
      BY <1>11 DEF PassDiff, Types
    <3> HIDE DEF plan, got
    <3> QED
      BY <3>1 DEF PassType
  <2>3. \A p \in Paths : plan[p] = "heal" => disk[p].data = row[p].data
    BY DEF Action, Missing
  <2> QED
    BY <2>1, <2>2, <2>3 DEF RowsFollow, RowIsOfPage
<1>12. CASE PassRead
  <2>1. pass.pc = "diffed" /\ pass'.pc = "read" /\ page' = page /\ late' = late
    BY <1>12, ReadGets DEF PassRead
  <2>2. \A p \in Paths : \/ row'[p] = row[p]
                         \/ /\ pass.plan[p] = "heal" /\ row[p] # None
                            /\ row'[p] = [data |-> pass.got[p], stat |-> pass.seen[p]]
    BY <1>12 DEF PassRead
  <2>3. ASSUME NEW p \in Paths \ late, row'[p] # None PROVE row'[p].data = page[p].data
    <3>1. row[p] # None => row[p].data = page[p].data
      BY DEF RowsFollow, RowIsOfPage
    <3>2. CASE row'[p] = row[p]
      BY <2>3, <3>1, <3>2
    <3>3. CASE /\ pass.plan[p] = "heal" /\ row[p] # None
               /\ row'[p] = [data |-> pass.got[p], stat |-> pass.seen[p]]
      <4>1. pass.got[p] = row[p].data
        BY <2>1, <3>3 DEF RowsFollow
      <4> QED
        BY <3>1, <3>3, <4>1
    <3> QED
      BY <2>2, <3>2, <3>3
  <2> QED
    BY <2>1, <2>3 DEF RowsFollow, RowIsOfPage
<1>13. CASE PassApply
  <2>1. pass'.pc = "applied"
    BY <1>13 DEF PassApply, IdlePass
  <2>2. \A p \in Paths \ late' :
           \/ row'[p] = None
           \/ row'[p] = row[p] /\ page'[p] = page[p] /\ p \notin late
           \/ row'[p].data = pass.got[p] /\ page'[p].data = pass.got[p]
    BY <1>13 DEF PassApply
  <2> QED
    BY <2>1, <2>2 DEF RowsFollow, RowIsOfPage
<1>14. CASE PassEnd \/ PassFails \/ HostCrashes
  BY <1>1, <1>2, <1>14 DEF PassEnd, PassFails, HostCrashes, db
<1>15. CASE UNCHANGED vars
  BY <1>1, <1>15 DEF vars, db
<1> QED
  BY <1>4, <1>5, <1>6, <1>7, <1>8, <1>9, <1>10, <1>11, <1>12, <1>13, <1>14, <1>15 DEF Next, Pass

\* The hash the next full-hash pass compares with is that of the text in the index, so that
\* it never takes a stale page for unchanged, whatever puts and passes run at the same time
\* and at whatever point a process dies or a pass fails: the one exception is a file that a
\* put committed between the plan of a pass that took it for unchanged and that pass's
\* apply_full_hash_metadata_self_heal.
THEOREM RowStaysOfPage == Spec => []RowIsOfPage
<1>1. Init => RowsFollow
  BY DEF Init, RowsFollow, RowIsOfPage, IdlePass
<1>2. RowsFollow => RowIsOfPage
  BY DEF RowsFollow
<1>3. Types /\ RowsFollow /\ [Next]_vars => RowsFollow'
  BY RowStep
<1> QED
  BY <1>1, <1>2, <1>3, TypesHold, PTL DEF Spec

=============================================================================
