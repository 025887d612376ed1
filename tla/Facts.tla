-------------------------------- MODULE Facts --------------------------------
(***************************************************************************)
(* Chains of facts.  The extractor writes a fact as a file that may name   *)
(* the page it supersedes (core/conversation/supersede.rs), a pass of the  *)
(* reconciler turns the file into a page and the name into a link          *)
(* (core/supersede.rs), and users edit, put, resolve and correct           *)
(* (commands/put.rs, commands/check.rs, core/conversation/correction.rs).  *)
(* A page is known by its slot: its namespace and slug.  A slug is a pair: *)
(* the n-th file for content c is <<c, n>>, and <<0, n>> is a note, a page *)
(* of the root namespace that is no fact.                                  *)
(***************************************************************************)
EXTENDS Naturals, FiniteSets

CONSTANTS
  MaxSpace,   \* the namespaces are 0 .. MaxSpace, and 0 is the root
  MaxFact,    \* the contents of facts are 1 .. MaxFact
  KeyOf,      \* the type key of each content
  Near,       \* pairs of contents whose cosine is at least supersede_cosine_min
  Like,       \* pairs of keys whose cosine is at least key_match_cosine_min
  Attempts,   \* MAX_SLUG_COLLISION_ATTEMPTS
  Windows,    \* windows of turns the worker extracts from
  None,
  MaxNotes,   \* bound: notes
  MaxExtracts, MaxEdits, MaxCalls, MaxSessions  \* bounds: extractions, edits, calls, sessions

Space == 0 .. MaxSpace
Fact == 1 .. MaxFact

Slot == (Space \X Fact \X (1 .. Attempts)) \cup ({0} \X {0} \X (1 .. MaxNotes))
Note(s) == s[2] = 0
SlugOf(s) == <<s[2], s[3]>>
Slug == {SlugOf(s) : s \in Slot}

VARIABLES
  file,    \* file[s]: what the file of s says: data, supersedes and who wrote it, or None
  page,    \* page[s]: the same of the page of s, and next, its superseded_by; or None
  row,     \* row[s]: the file the file_state row of s was made from, or None
  tx,      \* the pass under way: its transaction and what it has to do, or None
  session, \* session[k]: a correction session, or None
  call,    \* the correction that holds the server's connection, or None
  step,    \* the last step, if it ended a pass ("ok", "failed") or repeated an extraction
  did,     \* the last extraction that wrote, if only the extractor's files of its namespace
           \* waited for a pass then and only passes and extractions came after it
  touched, \* a fact was edited, a file removed or a correction ingested
  count

vars == <<file, page, row, tx, session, call, step, did, touched, count>>

Author == Windows \cup {"explicit", "user"}
File == [data : 0 .. MaxFact, sup : Slug \cup {None}, by : Author]
Page == [data : 0 .. MaxFact, sup : Slug \cup {None}, by : Author, next : Slot \cup {None}]

ASSUME FactsAssumption ==
  /\ {MaxSpace, MaxFact, Attempts, MaxNotes} \subseteq Nat
  /\ None \notin Slot \cup Slug \cup (Windows \X Space \X Fact)
  /\ None \notin File \cup Page
  /\ Windows \cap {"explicit", "user"} = {}

Files == {s \in Slot : file[s] # None}
Pages == {s \in Slot : page[s] # None}
\* stat_diff_from_walk
Missing == {s \in Slot : row[s] # None /\ file[s] = None}
Modified == {s \in Files : row[s] # None /\ row[s] # file[s]}
Unseen == {s \in Files : row[s] = None}
Says(p) == [data |-> p.data, sup |-> p.sup, by |-> p.by]
AsPage(f, next) == [data |-> f.data, sup |-> f.sup, by |-> f.by, next |-> next]
-----------------------------------------------------------------------------
(***************************************************************************)
(* core/supersede.rs, over a table of pages pg.                            *)
(***************************************************************************)
Before(a, b) ==
  \/ a[1] < b[1]
  \/ a[1] = b[1] /\ a[2] < b[2]
  \/ a[1] = b[1] /\ a[2] = b[2] /\ a[3] < b[3]

\* resolve_supersede_target
Target(pg, ns, sup) ==
  LET s == <<ns, sup[1], sup[2]>> IN
  IF s \in Slot /\ pg[s] # None THEN s ELSE None

\* (mutant) superseded_by IS NULL is not asked for
IsHead_Any(pg, s) == TRUE
IsHead(pg, s) == pg[s].next = None

\* (mutant) the writer may be superseded itself
MayPoint_Any(pg, target, writer) == target # writer /\ pg[target].next \in {None, writer}
\* ensure_target_is_valid: head only, but for a link that is there already
MayPoint(pg, target, writer) ==
  /\ target # writer
  /\ pg[target].next = writer \/ (IsHead(pg, target) /\ IsHead(pg, writer))

\* SELECT ... WHERE superseded_by = writer LIMIT 1, in the order of the index on slugs
Predecessor(pg, ns, writer) ==
  LET all == {s \in Slot : s[1] = ns /\ pg[s] # None /\ pg[s].next = writer} IN
  IF all = {} THEN None ELSE CHOOSE s \in all : \A r \in all \ {s} : Before(s, r)

\* reconcile_supersede_chain: the pages, and whether it went through
Chain(pg, ns, writer) ==
  LET sup == pg[writer].sup
      target == IF sup = None THEN None ELSE Target(pg, ns, sup)
      prior == Predecessor(pg, ns, writer)
      freed == IF prior = None THEN pg ELSE [pg EXCEPT ![prior].next = None]
  IN IF sup # None /\ (target = None \/ ~MayPoint(pg, target, writer))
       THEN [page |-> pg, ok |-> FALSE]
     ELSE IF prior = target THEN [page |-> pg, ok |-> TRUE]
     ELSE IF target = None THEN [page |-> freed, ok |-> TRUE]
     ELSE IF ~IsHead(freed, target) THEN [page |-> freed, ok |-> FALSE]
     ELSE [page |-> [freed EXCEPT ![target].next = writer], ok |-> TRUE]
-----------------------------------------------------------------------------
(***************************************************************************)
(* The extractor's worker.                                                 *)
(***************************************************************************)
Heads(ns) == {s \in Pages : s[1] = ns /\ ~Note(s) /\ page[s].next = None}

\* select_head_candidates: heads with the key, else the one head with a key like it
Candidates(ns, c) ==
  LET exact == {s \in Heads(ns) : KeyOf[page[s].data] = KeyOf[c]}
      alike == {s \in Heads(ns) : <<KeyOf[page[s].data], KeyOf[c]>> \in Like}
  IN IF exact # {} THEN exact ELSE IF Cardinality(alike) = 1 THEN alike ELSE {}

\* resolve_from_candidates
Resolution(ns, c) ==
  LET heads == Candidates(ns, c)
      h == CHOOSE s \in heads : TRUE
  IN IF heads = {} THEN "coexist"
     ELSE IF Cardinality(heads) > 1 THEN "ambiguous"
     ELSE IF page[h].data = c THEN "drop"
     ELSE IF <<page[h].data, c>> \in Near THEN "supersede"
     ELSE "coexist"

\* (mutant) the file is not compared
Free_New(s, f) == file[s] = None /\ page[s] = None
\* allocate_output_path: the file is there already, or neither a file nor a page is
Free(s, f) == file[s] = f \/ (file[s] = None /\ page[s] = None)

Places(ns, f) == {n \in 1 .. Attempts : Free(<<ns, f.data, n>>, f)}
Place(ns, f) == <<ns, f.data, CHOOSE n \in Places(ns, f) : \A m \in Places(ns, f) : n <= m>>

\* resolve_and_write_fact_in_context; the transaction holds the lock that a pass holds
Extract(w, ns, c) ==
  LET how == Resolution(ns, c)
      prior == CHOOSE s \in Candidates(ns, c) : TRUE
      f == [data |-> c, sup |-> IF how = "supersede" THEN SlugOf(prior) ELSE None, by |-> w]
      x == <<w, ns, c>>
  IN /\ tx = None
     /\ count.extracts < MaxExtracts
     /\ count' = [count EXCEPT !.extracts = @ + 1]
     /\ IF how \in {"ambiguous", "drop"} \/ Places(ns, f) = {} THEN UNCHANGED <<file, did>>
        ELSE /\ file' = [file EXCEPT ![Place(ns, f)] = f]
             /\ did' = IF file' = file THEN did
                       ELSE IF \A s \in Unseen : file[s].by \in Windows /\ s[1] = ns THEN x
                       ELSE None
     /\ step' = IF x = did THEN "again" ELSE "none"
     /\ UNCHANGED <<page, row, tx, session, call, touched>>
-----------------------------------------------------------------------------
(***************************************************************************)
(* A pass: what is gone first, in the order of a hash set, then what is    *)
(* modified and what is new, by path; one transaction.                     *)
(***************************************************************************)
PassBegin ==
  /\ tx = None
  /\ Missing \cup Modified \cup Unseen # {}
  /\ tx' = [page |-> page, row |-> row, gone |-> Missing, modified |-> Modified, new |-> Unseen]
  /\ step' = "none"
  /\ UNCHANGED <<file, page, row, session, call, did, touched, count>>

PassStops(t, end) ==
  /\ tx' = None
  /\ step' = end
  /\ IF end = "ok" THEN page' = t.page /\ row' = t.row ELSE UNCHANGED <<page, row>>
  /\ UNCHANGED <<file, session, call, did, touched, count>>

PassGoesOn(t) ==
  /\ tx' = t
  /\ step' = "none"
  /\ UNCHANGED <<file, page, row, session, call, did, touched, count>>

\* (mutant) foreign keys are not enforced
Deletable_Any(pg, s) == TRUE
\* superseded_by is a foreign key
Deletable(pg, s) == \A r \in Slot : pg[r] # None => pg[r].next # s

\* apply_delete_or_quarantine
PassDeletes(s) ==
  /\ tx # None /\ s \in tx.gone
  /\ IF ~Deletable(tx.page, s) THEN PassStops(tx, "failed")
     ELSE PassGoesOn([tx EXCEPT !.page[s] = None, !.row[s] = None, !.gone = @ \ {s}])

\* (mutant) any page of the vault is
Extracted_Any(s) == TRUE
\* is_extracted_path
Extracted(s) == ~Note(s)

\* build_apply_actions: what is modified before what is new, each by path
Due(t) == IF t.modified # {} THEN t.modified ELSE t.new

\* apply_reingest.  For a fact that is a page handle_extracted_edit asks for a transaction
\* of its own, inside the one of the pass, or finds the page superseded.  A link that
\* cannot be made is a warning; its namespace is always the root.
PassIngests(s) ==
  /\ tx # None /\ tx.gone = {}
  /\ s \in Due(tx) /\ \A r \in Due(tx) \ {s} : Before(s, r)
  /\ LET known == tx.page[s] # None
         written == [tx.page EXCEPT ![s] =
                       AsPage(file[s], IF known THEN tx.page[s].next ELSE None)]
     IN IF known /\ Extracted(s) THEN PassStops(tx, "failed")
        ELSE PassGoesOn([tx EXCEPT !.page = Chain(written, 0, s).page, !.row[s] = file[s],
                                   !.modified = @ \ {s}, !.new = @ \ {s}])

PassEnds ==
  tx # None /\ tx.gone = {} /\ tx.modified = {} /\ tx.new = {} /\ PassStops(tx, "ok")
-----------------------------------------------------------------------------
(***************************************************************************)
(* Users: files, puts of notes, resolved contradictions.                   *)
(***************************************************************************)
Known == {None} \cup {SlugOf(s) : s \in Pages}

Edits(s, f) ==
  /\ tx = None   \* files that change under a pass are in VaultIndex
  /\ count.edits < MaxEdits
  /\ count' = [count EXCEPT !.edits = @ + 1]
  /\ file' = [file EXCEPT ![s] = f]
  /\ step' = "none"
  /\ did' = None
  /\ touched' = (touched \/ ~Note(s) \/ f = None)
  /\ UNCHANGED <<page, row, tx, session, call>>

EditNote(s) ==
  Note(s) /\ \E sup \in Known : Edits(s, [data |-> 0, sup |-> sup, by |-> "user"])
EditFact(s) ==
  ~Note(s) /\ s \in Files /\ \E c \in Fact \ {file[s].data} : Edits(s, [file[s] EXCEPT !.data = c])
Unlink(s) == s \in Files /\ Edits(s, None)

Calls ==
  /\ tx = None
  /\ count.calls < MaxCalls
  /\ count' = [count EXCEPT !.calls = @ + 1]
  /\ step' = "none"
  /\ did' = None
  /\ UNCHANGED <<tx, session, call, touched>>

\* put_from_string_with_output and commit_staged_page_record, of a note: a link that cannot be
\* made takes everything back
Put(s) ==
  /\ Note(s)
  /\ file[s] = row[s]
  /\ Calls
  /\ \E sup \in Known :
       LET f == [data |-> 0, sup |-> sup, by |-> "user"]
           out == Chain([page EXCEPT ![s] = AsPage(f, IF page[s] = None THEN None
                                                       ELSE page[s].next)], 0, s)
       IN /\ out.ok
          /\ page' = out.page
          /\ file' = [file EXCEPT ![s] = f]
          /\ row' = [row EXCEPT ![s] = f]

\* execute_resolve and mark_page_superseded: no file says so
Resolve(keeper, loser) ==
  /\ Calls
  /\ {keeper, loser} \subseteq Pages /\ keeper # loser
  /\ page[keeper].next = None /\ page[loser].next = None
  /\ page' = [page EXCEPT ![loser].next = keeper]
  /\ UNCHANGED <<file, row>>
-----------------------------------------------------------------------------
(***************************************************************************)
(* Corrections.  A call holds the connection of the server, so there is    *)
(* one at a time; the worker, the watcher and other commands have theirs.  *)
(***************************************************************************)
SessionId == 1 .. MaxSessions
Session == [target : Slot, status : {"open", "committed", "abandoned", "expired"}]
Call == [session : SessionId, slot : Slot \cup {None}]

Correctable(s) == s \in Pages /\ ~Note(s) /\ page[s].next = None

Leaves(k, status) ==
  /\ session' = [session EXCEPT ![k].status = status]
  /\ call' = None

\* start_correction, up to the model's answer
StartCorrection(s) ==
  /\ call = None /\ tx = None
  /\ Correctable(s)
  /\ \E k \in SessionId :
       /\ session[k] = None /\ \A m \in 1 .. k - 1 : session[m] # None
       /\ session' = [session EXCEPT ![k] = [target |-> s, status |-> "open"]]
       /\ call' = [session |-> k, slot |-> None]
  /\ step' = "none"
  /\ UNCHANGED <<file, page, row, tx, did, touched, count>>

\* continue_correction; turns are not counted here
ContinueCorrection(k) ==
  /\ call = None /\ tx = None
  /\ session[k] # None /\ session[k].status = "open"
  /\ Correctable(session[k].target)
  /\ call' = [session |-> k, slot |-> None]
  /\ step' = "none"
  /\ UNCHANGED <<file, page, row, tx, session, did, touched, count>>

\* the user's `abandon`, or the hour is over (the janitor has a connection of its own)
EndSession(k) ==
  /\ tx = None
  /\ session[k] # None /\ session[k].status = "open"
  /\ \/ call = None /\ Leaves(k, "abandoned")
     \/ session' = [session EXCEPT ![k].status = "expired"] /\ UNCHANGED call
  /\ step' = "none"
  /\ UNCHANGED <<file, page, row, tx, did, touched, count>>

\* apply_slm_outcome: abandoned, by the model or as the last turn; else a question to the
\* user, which opens the session again if it has expired, or an error of the model
Answer ==
  /\ call # None /\ call.slot = None /\ tx = None
  /\ \/ \E status \in {"abandoned", "open"} : Leaves(call.session, status)
     \/ call' = None /\ UNCHANGED session
  /\ step' = "none"
  /\ UNCHANGED <<file, page, row, tx, did, touched, count>>

\* the same, for a commit: force_supersede_fact_in_context writes the file
AnswerCommit(c) ==
  /\ call # None /\ call.slot = None /\ tx = None
  /\ LET s == session[call.session].target
         f == [data |-> c, sup |-> SlugOf(s), by |-> "explicit"]
     IN IF Places(s[1], f) = {} THEN call' = None /\ UNCHANGED file
        ELSE /\ file' = [file EXCEPT ![Place(s[1], f)] = f]
             /\ call' = [call EXCEPT !.slot = Place(s[1], f)]
  /\ step' = "none"
  /\ did' = None
  /\ UNCHANGED <<page, row, tx, session, touched, count>>

\* ... and ingest::run, into the root namespace, makes it a page, without a row
IngestCorrection ==
  /\ call # None /\ call.slot # None /\ tx = None
  /\ LET f == file[call.slot]
         s == <<0, call.slot[2], call.slot[3]>>
         seen == f # None /\ \E r \in Pages : SlugOf(r) = SlugOf(s) /\ Says(page[r]) = f
         out == Chain([page EXCEPT ![s] = AsPage(f, IF page[s] = None THEN None
                                                     ELSE page[s].next)], 0, s)
     IN \/ /\ f = None \/ (f # None /\ ~seen /\ ~out.ok)
           /\ call' = None
           /\ UNCHANGED <<page, session, touched>>
        \/ /\ f # None
           /\ seen \/ page[s] # None   \* AlreadyIngested, NotNovel
           /\ Leaves(call.session, "committed")
           /\ UNCHANGED <<page, touched>>
        \/ /\ f # None /\ ~seen
           /\ out.ok
           /\ page' = out.page
           /\ Leaves(call.session, "committed")
           /\ touched' = TRUE
  /\ step' = "none"
  /\ did' = None
  /\ UNCHANGED <<file, row, tx, count>>
-----------------------------------------------------------------------------
Init ==
  /\ file = [s \in Slot |-> None] /\ page = [s \in Slot |-> None] /\ row = [s \in Slot |-> None]
  /\ tx = None
  /\ session = [k \in SessionId |-> None]
  /\ call = None
  /\ step = "none"
  /\ did = None
  /\ touched = FALSE
  /\ count = [extracts |-> 0, edits |-> 0, calls |-> 0]

Next ==
  \/ \E w \in Windows, ns \in Space, c \in Fact : Extract(w, ns, c)
  \/ PassBegin \/ PassEnds
  \/ \E s \in Slot : \/ PassDeletes(s) \/ PassIngests(s) \/ EditNote(s) \/ EditFact(s) \/ Unlink(s) \/ Put(s)
                     \/ StartCorrection(s)
  \/ \E s, r \in Slot : Resolve(s, r)
  \/ \E k \in SessionId : ContinueCorrection(k) \/ EndSession(k)
  \/ Answer \/ IngestCorrection
  \/ \E c \in Fact : AnswerCommit(c)

Spec == Init /\ [][Next]_vars
-----------------------------------------------------------------------------
(***************************************************************************)
(* Properties.                                                             *)
(***************************************************************************)
\* The tables hold what they may hold, and a row is a row of a page.
TypeOK ==
  /\ file \in [Slot -> File \cup {None}]
  /\ page \in [Slot -> Page \cup {None}]
  /\ row \in [Slot -> File \cup {None}]
  /\ session \in [SessionId -> Session \cup {None}]
  /\ call \in Call \cup {None}
  /\ \A s \in Slot : row[s] # None => page[s] # None
  /\ \A s \in Pages : page[s].next \in Pages \cup {None}

Headless(pg, S) == S # {} /\ \A s \in S : pg[s] # None /\ pg[s].next \in S
NoCycle(pg) == \A S \in SUBSET Slot : ~Headless(pg, S)

\* Every chain of superseded pages ends in a head, whatever extractions, passes, puts,
\* resolutions and corrections link, unlink and delete, in any order: facts that point at
\* each other would be invisible to every search (the "headless A<->B cycle" of the guard
\* in core/supersede.rs).
ChainsEndInHeads == NoCycle(page)

\* Only an edit of a fact, a removed file or a correction can make a pass fail: what the
\* extractor writes, and what users put and write in notes, always gets through
\* (core/reconciler.rs: "an external edit must not be able to wedge the whole reconcile
\* pass").
OnlyEditsWedge == step = "failed" => touched

\* No pass fails: the comment quoted above, without the exceptions.
PassesGetThrough == step # "failed"

Claims(pg, j, i) == pg[j] # None /\ j[1] = i[1] /\ pg[j].sup = SlugOf(i)

\* A page that is retired stays retired, by the same page, while that page says it
\* supersedes it: links that fail or are taken over do not bring old facts back.
RetiredStaysRetired ==
  [][\A i, j \in Slot :
       (/\ page[i] # None /\ page[i].next = j /\ Claims(page, j, i)
        /\ page'[i] # None /\ Claims(page', j, i)) => page'[i].next = j]_vars

\* An extraction that is repeated, before or after a pass has made a page of its file,
\* writes nothing: the content-aware names of allocate_output_path together with the
\* resolution make retried windows harmless.  Files of other namespaces must not wait for
\* the same pass: it takes what they supersede for a page of the root.
RetryWritesNothing == [][step' = "again" => file' = file]_vars
=============================================================================
