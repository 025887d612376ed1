---------------------------- MODULE PageIdentity ----------------------------
(***************************************************************************)
(* Which page a file is: the reconciler's handling of files that other     *)
(* programs create, edit, move, copy and delete (core/reconciler.rs,       *)
(* core/page_uuid.rs), and the life of a page whose file is gone           *)
(* (core/quarantine.rs).  A pass is one step here; VaultIndex has what may *)
(* happen in the middle of one.  The slug of a page is its path, and both  *)
(* are numbers in their sort order: files with a `slug` of their own and   *)
(* extracted facts are not in this module.                                 *)
(***************************************************************************)
EXTENDS Naturals, Sequences, FiniteSets

CONSTANTS
  MaxPath,  \* the paths are 1 .. MaxPath
  Data,     \* contents of a file, its frontmatter quaid_id apart
  Trivial,  \* contents with a body below MIN_CANONICAL_BODY_BYTES
  None,     \* no file, no row, no page
  MaxPages, \* bound: pages ever inserted
  MaxEdits, \* bound: steps of other programs
  MaxCalls  \* bound: puts and quarantine commands

ASSUME IdentityAssumption ==
  /\ {MaxPath, MaxPages, MaxEdits, MaxCalls} \subseteq Nat
  /\ Trivial \subseteq Data

Path == 1 .. MaxPath
PageId == 1 .. MaxPages
File == [id : 0 .. MaxPages, data : Data]
Page == [uuid : PageId, slug : Path, raw : File, quarantined : BOOLEAN, kept : BOOLEAN,
         exported : BOOLEAN]
Row == [page : PageId, was : File, by : {"pass", "put"}]

ASSUME NoneAssumption == None \notin PageId \cup File \cup Page \cup Row

VARIABLES
  file,  \* file[p]: content of the file at p and its quaid_id (0: none), or None
  row,   \* row[p]: the file_state row: page, the file it hashed, who wrote it, or None
  page,  \* page[i]: uuid, slug, active raw import, quarantined, DB-only state, export; or None
  last,  \* page ids are not used twice
  moved, \* native rename events since the last pass
  step,  \* the last step, if it was a pass ("ok", "failed", "refused") or a forced discard
  edits, calls

db == <<row, page, last>>
vars == <<file, db, moved, step, edits, calls>>

Files == {p \in Path : file[p] # None}
Tracked == {p \in Path : row[p] # None}
Pages == {i \in PageId : page[i] # None}
Quarantined == {i \in Pages : page[i].quarantined}
-----------------------------------------------------------------------------
(***************************************************************************)
(* The tables.  A change is computed on a record of them, which says in    *)
(* end how the transaction went: unless it is "ok" it is rolled back.      *)
(***************************************************************************)
Tables == [row |-> row, page |-> page, last |-> last, end |-> "ok"]
Fail(t) == [t EXCEPT !.end = "failed"]

\* load_existing_page_identity without a preferred page; quarantined pages are found too
WithSlug(t, p) == {i \in PageId : t.page[i] # None /\ t.page[i].slug = p}
WithUuid(t, u) == {i \in PageId : t.page[i] # None /\ t.page[i].uuid = u}

\* DELETE FROM pages, which takes the file_state rows of the page with it
DeletePage(t, i) ==
  [t EXCEPT !.page[i] = None,
            !.row = [p \in Path |-> IF @[p] # None /\ @[p].page = i THEN None ELSE @[p]]]

QuarantinePage(t, i) ==
  [t EXCEPT !.page[i] = [@ EXCEPT !.quarantined = TRUE, !.exported = FALSE]]

\* resolve_page_uuid: the stored one, which the file must not contradict
UuidAgrees(t, i, f) == f.id = 0 \/ f.id = t.page[i].uuid

\* apply_reingest: page i, or the one with the slug of the path, or a new one, takes the
\* file f at p.  Slugs and uuids are unique.
BindPage(t, i, p, f, who) ==
  IF ~UuidAgrees(t, i, f) \/ WithSlug(t, p) \ {i} # {} THEN Fail(t)
  ELSE [t EXCEPT !.page[i] = [@ EXCEPT !.slug = p, !.raw = f, !.quarantined = FALSE],
                 !.row[p] = [page |-> i, was |-> f, by |-> who]]

\* a page without a quaid_id in its file gets one of its own
NewUuid(i, f) == IF f.id = 0 THEN i ELSE f.id

InsertPage(t, p, f, who) ==
  LET i == t.last + 1
      uuid == NewUuid(i, f)
  IN IF WithUuid(t, uuid) # {} \/ WithSlug(t, p) # {} THEN Fail(t)
     ELSE [t EXCEPT !.last = i,
                    !.page[i] = [uuid |-> uuid, slug |-> p, raw |-> f, quarantined |-> FALSE,
                                 kept |-> FALSE, exported |-> FALSE],
                    !.row[p] = [page |-> i, was |-> f, by |-> who]]

Reingest(t, i, p) ==
  LET known == IF i \in PageId THEN {i} \cap {j \in PageId : t.page[j] # None} ELSE WithSlug(t, p)
  IN IF known = {} THEN InsertPage(t, p, file[p], "pass")
     ELSE BindPage(t, CHOOSE j \in known : TRUE, p, file[p], "pass")

Unbind(t, p) == [t EXCEPT !.row[p] = None]
-----------------------------------------------------------------------------
(***************************************************************************)
(* A pass: duplicates, diff, renames, actions.                             *)
(***************************************************************************)

\* detect_duplicate_uuids_in_tree: of the files with one quaid_id a tracked one wins,
\* else the oldest; the others are left out of the pass
Twins(p) == {q \in Files : file[q].id = file[p].id /\ file[p].id # 0}
Duplicates == {p \in Files : Cardinality(Twins(p)) > 1}
LoserSets ==
  {L \in SUBSET Duplicates :
     \A p \in Duplicates :
       \E w \in Twins(p) : /\ Twins(p) \ L = {w}
                           /\ w \in Tracked \/ Twins(p) \cap Tracked = {}}

\* (mutant) the bodies are compared, not the files
Modified_BodyOnly(L) == {p \in (Files \ L) \cap Tracked : file[p].data # row[p].was.data}
Modified(L) == {p \in (Files \ L) \cap Tracked : file[p] # row[p].was}
NewFiles(L) == (Files \ L) \ Tracked
Missing == Tracked \ Files   \* a tracked loser is not among them

UuidOf(p) == page[row[p].page].uuid

Matched(r, from, to) ==
  [r EXCEPT !.missing = @ \ {from}, !.new = @ \ {to},
            !.renames = @ \cup {[page |-> row[from].page, from |-> from, to |-> to]}]
Ambiguous(r, from) == [r EXCEPT !.missing = @ \ {from}, !.ambiguous = @ \cup {from}]

NativeStep(r, e) == IF e[1] \in r.missing /\ e[2] \in r.new THEN Matched(r, e[1], e[2]) ELSE r

\* apply_native_rename_matches, in the order of the events
ByEvents(start) ==
  LET r[k \in 0 .. Len(moved)] == IF k = 0 THEN start ELSE NativeStep(r[k - 1], moved[k])
  IN r[Len(moved)]

\* (mutant) files are matched by their bytes only
UuidStep_Never(r, from) == r
UuidStep(r, from) ==
  LET found == {to \in r.new : file[to].id = UuidOf(from)} IN
  IF found = {} THEN r
  ELSE IF Cardinality(found) = 1 THEN Matched(r, from, CHOOSE to \in found : TRUE)
  ELSE Ambiguous(r, from)

\* apply_uuid_rename_matches
ByUuid(order, start) ==
  LET r[k \in 0 .. MaxPath] ==
        IF k = 0 THEN start
        ELSE IF order[k] \in start.missing THEN UuidStep(r[k - 1], order[k])
        ELSE r[k - 1]
  IN r[MaxPath]

\* resolve_page_identity: what becomes of a missing file some new file has the bytes of
Identity(from, same, count) ==
  LET sameId == {to \in same : file[to].id = UuidOf(from)} IN
  IF Cardinality(sameId) = 1 THEN "match"
  ELSE IF sameId # {} \/ count # 1 \/ Cardinality(same) # 1 THEN "ambiguous"
  ELSE IF row[from].was.data \in Trivial THEN "refused"
  ELSE "match"

\* (mutant) the missing files with these bytes are counted as they are left
WithBytes_Left(r, missing, from) == {m \in r.missing : row[m].was = row[from].was}
WithBytes(r, missing, from) == {m \in missing : row[m].was = row[from].was}

\* a page too small to be told by its bytes ends the pass
HashStep(r, from, missing) ==
  LET same == {to \in r.new : file[to] = row[from].was}
      answer == Identity(from, same, Cardinality(WithBytes(r, missing, from)))
  IN CASE ~r.ok \/ same = {} -> r
       [] OTHER -> CASE answer = "match" -> Matched(r, from, CHOOSE to \in same : TRUE)
                     [] answer = "ambiguous" -> Ambiguous(r, from)
                     [] answer = "refused" -> [r EXCEPT !.ok = FALSE]

\* apply_hash_rename_matches
ByHash(order, start) ==
  LET r[k \in 0 .. MaxPath] ==
        IF k = 0 THEN start
        ELSE IF order[k] \in start.missing THEN HashStep(r[k - 1], order[k], start.missing)
        ELSE r[k - 1]
  IN r[MaxPath]

\* resolve_rename_resolution; order is that of the hash set of the missing files
Unresolved(L) ==
  [new |-> NewFiles(L), missing |-> Missing, renames |-> {}, ambiguous |-> {}, ok |-> TRUE]
Resolution(L, order) ==
  IF NewFiles(L) = {} \/ Missing = {} THEN Unresolved(L)
  ELSE ByHash(order, ByUuid(order, ByEvents(Unresolved(L))))

\* apply_delete_or_quarantine
DeleteOrQuarantine(t, p) ==
  LET i == row[p].page IN
  IF t.page[i] = None THEN t
  ELSE IF t.page[i].kept THEN QuarantinePage(Unbind(t, p), i)
  ELSE DeletePage(t, i)

\* apply_quarantine_unresolved_page; a page that this pass bound to another file stays
QuarantineUnresolved(t, p) ==
  LET i == row[p].page
      u == Unbind(t, p)
  IN IF u.page[i] = None \/ \E q \in Path : u.row[q] # None /\ u.row[q].page = i THEN u
     ELSE QuarantinePage(u, i)

\* (mutant) the row of the old path stays
Rename_KeepsOld(t, m) == Reingest(t, m.page, m.to)
Rename(t, m) == LET b == Reingest(t, m.page, m.to) IN IF b.end = "ok" THEN Unbind(b, m.from) ELSE b

\* apply_action; r is the resolution of the pass
Act(r, kind, t, p) ==
  CASE kind = "missing"    -> DeleteOrQuarantine(t, p)
    [] kind = "renamed"    -> Rename(t, CHOOSE m \in r.renames : m.to = p)
    [] kind = "modified"   -> Reingest(t, row[p].page, p)
    [] kind = "new"        -> Reingest(t, None, p)
    [] kind = "unresolved" -> QuarantineUnresolved(t, p)

\* apply_reconciliation: the actions of one kind, one after the other until one fails
Apply(r, kind, S, order, start) ==
  LET t[k \in 0 .. MaxPath] ==
        IF k = 0 THEN start
        ELSE LET before == t[k - 1] IN
             IF order[k] \in S /\ before.end = "ok" THEN Act(r, kind, before, order[k])
             ELSE before
  IN t[MaxPath]

\* build_apply_actions: what a hash set holds comes in its order, the rest sorted; one chunk
Sorted == [k \in Path |-> k]
Outcome(L, order) ==
  LET r == Resolution(L, order)
      deleted == Apply(r, "missing", r.missing, order, Tables)
      renamed == Apply(r, "renamed", {m.to : m \in r.renames}, Sorted, deleted)
      changed == Apply(r, "modified", Modified(L), Sorted, renamed)
      added == Apply(r, "new", r.new, Sorted, changed)
  IN IF r.ok THEN Apply(r, "unresolved", r.ambiguous \cup (L \cap Tracked), order, added)
     ELSE [Tables EXCEPT !.end = "refused"]

Orders == {o \in [1 .. MaxPath -> Path] : \A p \in Path : \E k \in 1 .. MaxPath : o[k] = p}

Commit(t) ==
  /\ row' = t.row
  /\ page' = t.page
  /\ last' = t.last

Room == last + Cardinality(Files) <= MaxPages

Pass ==
  /\ Room
  /\ \E L \in LoserSets, order \in Orders :
       LET t == Outcome(L, order) IN
       /\ IF t.end = "ok" THEN Commit(t) ELSE UNCHANGED db
       /\ step' = t.end
  /\ moved' = <<>>
  /\ UNCHANGED <<file, edits, calls>>
-----------------------------------------------------------------------------
(***************************************************************************)
(* Other programs.                                                         *)
(***************************************************************************)
Touch(f, events) ==
  /\ edits < MaxEdits
  /\ edits' = edits + 1
  /\ file' = f
  /\ moved' = moved \o events
  /\ step' = "none"
  /\ UNCHANGED <<db, calls>>

\* an editor keeps the quaid_id or drops it
Save(p) ==
  \E d \in Data, id \in IF p \in Files THEN {0, file[p].id} ELSE {0} :
    Touch([file EXCEPT ![p] = [id |-> id, data |-> d]], <<>>)

\* mv, onto a file or not; the watcher may see it as one event or as two changes
Move(p, q) ==
  /\ p \in Files /\ q # p
  /\ \E events \in {<<>>, <<<<p, q>>>>} :
       Touch([file EXCEPT ![q] = file[p], ![p] = None], events)

Copy(p, q) == p \in Files /\ q # p /\ Touch([file EXCEPT ![q] = file[p]], <<>>)
Unlink(p) == p \in Files /\ Touch([file EXCEPT ![p] = None], <<>>)
-----------------------------------------------------------------------------
(***************************************************************************)
(* quaid: writes of pages, and what becomes of quarantined ones.           *)
(***************************************************************************)
Call(name) ==
  /\ calls < MaxCalls
  /\ calls' = calls + 1
  /\ step' = name
  /\ UNCHANGED <<edits, moved>>

Precondition(p) == IF p \in Tracked THEN p \in Files /\ row[p].was = file[p] ELSE p \notin Files

\* put_from_string_with_output: the page with the slug, quarantined or not, takes the
\* content, and stays quarantined; the content has its quaid_id if it came from a get
Put(p) ==
  /\ Call("none")
  /\ Precondition(p)
  /\ \E d \in Data, id \in {0} \cup {page[i].uuid : i \in WithSlug(Tables, p)} :
       LET f == [id |-> id, data |-> d]
           t == IF WithSlug(Tables, p) = {} THEN InsertPage(Tables, p, f, "put")
                ELSE LET i == CHOOSE j \in WithSlug(Tables, p) : TRUE IN
                     [BindPage(Tables, i, p, f, "put")
                        EXCEPT !.page[i].quarantined = page[i].quarantined]
       IN /\ last < MaxPages \/ WithSlug(Tables, p) # {}
          /\ t.end = "ok"
          /\ Commit(t)
          /\ file' = [file EXCEPT ![p] = f]

\* write_quaid_id_to_file: the page is rendered with its uuid
WriteId(p) ==
  /\ Call("none")
  /\ Precondition(p) /\ p \in Tracked
  /\ LET i == row[p].page
         f == [id |-> page[i].uuid, data |-> page[i].raw.data]
     IN /\ ~page[i].quarantined /\ page[i].raw.id = 0
        /\ Commit(BindPage(Tables, i, p, f, "put"))
        /\ file' = [file EXCEPT ![p] = f]

\* a programmatic link, an assertion, raw data, a contradiction or a gap for page i
Annotate(i) ==
  /\ Call("none")
  /\ i \in Pages /\ ~page[i].kept
  /\ page' = [page EXCEPT ![i].kept = TRUE]
  /\ UNCHANGED <<file, row, last>>

Export(i) ==
  /\ Call("none")
  /\ i \in Quarantined /\ ~page[i].exported
  /\ page' = [page EXCEPT ![i].exported = TRUE]
  /\ UNCHANGED <<file, row, last>>

\* (mutant) an export is asked for, of whichever quarantine
MayDiscard_Any(i, force) == TRUE
MayDiscard(i, force) == page[i].kept => force \/ page[i].exported

Discard(i, force) ==
  /\ Call(IF force THEN "forced" ELSE "none")
  /\ i \in Quarantined
  /\ MayDiscard(i, force)
  /\ Commit(DeletePage(Tables, i))
  /\ UNCHANGED file

\* sweep_expired_quarantined_pages
Sweep(i) ==
  /\ i \in Quarantined
  /\ ~page[i].kept
  /\ Commit(DeletePage(Tables, i))
  /\ step' = "none"
  /\ UNCHANGED <<file, moved, edits, calls>>

\* restore_quarantined_page: the raw import becomes a file again, where there is none; a
\* failing transaction takes the file away again
Restore(i, p) ==
  LET t == BindPage(Tables, i, p, page[i].raw, "pass") IN
  /\ Call("none")
  /\ i \in Quarantined
  /\ p \notin Files
  /\ p \in Tracked => row[p].page = i
  /\ t.end = "ok"
  /\ Commit([t EXCEPT !.row = [q \in Path |-> IF q # p /\ @[q] # None /\ @[q].page = i
                                               THEN None ELSE @[q]]])
  /\ file' = [file EXCEPT ![p] = page[i].raw]
-----------------------------------------------------------------------------
Init ==
  /\ file = [p \in Path |-> None]
  /\ row = [p \in Path |-> None]
  /\ page = [i \in PageId |-> None]
  /\ last = 0
  /\ moved = <<>>
  /\ step = "none"
  /\ edits = 0 /\ calls = 0

Next ==
  \/ Pass
  \/ \E p \in Path : Save(p) \/ Unlink(p) \/ Put(p) \/ WriteId(p)
  \/ \E p, q \in Path : Move(p, q) \/ Copy(p, q)
  \/ \E i \in Pages : Annotate(i) \/ Export(i) \/ Sweep(i)
                      \/ (\E force \in BOOLEAN : Discard(i, force))
                      \/ \E p \in Path : Restore(i, p)

Spec == Init /\ [][Next]_vars
-----------------------------------------------------------------------------
TypeOK ==
  /\ file \in [Path -> File \cup {None}]
  /\ row \in [Path -> Row \cup {None}]
  /\ page \in [PageId -> Page \cup {None}]
  /\ last \in 0 .. MaxPages
  /\ moved \in Seq(Path \X Path)
  /\ step \in {"none", "ok", "failed", "refused", "forced"}
  /\ edits \in 0 .. MaxEdits /\ calls \in 0 .. MaxCalls

\* A pass comes to the same result in whichever order its hash sets are walked.
OrderIsIrrelevant ==
  Room => \A L \in LoserSets : Cardinality({Outcome(L, o) : o \in Orders}) = 1

\* A file row leads to a page, no two rows to one page; the page is not a quarantined one,
\* unless a put wrote to it since (put does not lift the quarantine).
RowsLeadToLivePages ==
  \A p \in Tracked :
    /\ row[p].page \in Pages
    /\ page[row[p].page].quarantined => row[p].by = "put"
    /\ \A q \in Tracked : row[q].page = row[p].page => q = p

\* After a pass a page whose quaid_id is in some file is bound to one file with it: it
\* kept its id, its links and its history wherever the file went.
IdentityFollowsUuid ==
  [][step' = "ok" =>
       \A i \in Pages :
         LET named == {p \in Files : file[p].id = page[i].uuid} IN
         named # {} => /\ page'[i] # None
                       /\ Cardinality({p \in named : row'[p] # None /\ row'[p].page = i}) = 1]_vars

\* After a pass every file that shares its quaid_id with no other is indexed as it is.
FilesAreIndexed ==
  [][step' = "ok" =>
       \A p \in Files \ Duplicates : /\ row'[p] # None /\ row'[p].was = file[p]
                                     /\ page'[row'[p].page].raw = file[p]]_vars

\* What exists only in the database is deleted by nobody but a discard that was forced or
\* that follows an export of this quarantine.
DbOnlyStateIsKept ==
  [][\A i \in Pages : page[i].kept /\ page'[i] = None
       => page[i].quarantined /\ (page[i].exported \/ step' = "forced")]_vars

\* Whatever other programs do to the files, no pass fails for good: it gets through, or it
\* is refused because a page is too small to be told by its bytes.
PassesGetThrough == step # "failed"
=============================================================================
