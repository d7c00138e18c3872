------------------------------- MODULE Search --------------------------------
(***************************************************************************)
(* A search from the form to the preview: _do_search and the selection     *)
(* handler of gui/main_window.py over core/searcher.py and the search of   *)
(* core/mft_cache.py.                                                      *)
(*                                                                         *)
(* The window searches in its own thread.  Meanwhile the journal monitor   *)
(* changes the file list, which the search reads without its lock, and an  *)
(* index thread commits between the two queries of a content search.       *)
(*                                                                         *)
(* A file is its path, the sequence of the names below the drive; a name   *)
(* is one word.  Not covered: wildcards, upper and lower case, the order   *)
(* of the rows, the operators of full-text queries beyond their effect on  *)
(* how words are compared, files too large for a preview.                  *)
(***************************************************************************)
EXTENDS Integers, Sequences, SequencesExt

CONSTANTS
  File, Folder,   \* paths; the drive itself is <<>>
  Word, Symbol,   \* words; of them those without a letter or digit
  Begins, Inside, \* <<w, v>>: w is the beginning, a part of v
  Text,           \* Text[v]: the words of version v of a file; {}: nothing extracted
  Form,           \* <<name, content>>: what the two boxes can hold
  Extractable,    \* files of the extensions in CONTENT_EXTENSIONS
  Gone, NoFile,
  MaxWrites,      \* bound: versions of files
  MaxChanges      \* bound: changes of the list, the index and the folders

ASSUME Constants ==
  /\ File \subseteq Seq(Word) \ {<<>>} /\ Folder \subseteq Seq(Word) /\ Symbol \subseteq Word
  /\ Form \subseteq [words : SUBSET Word, form : {"plain", "native", "broken"}]
                 \X [words : SUBSET Word, form : {"plain", "native", "broken"}]
  /\ Extractable \subseteq File /\ Gone \notin File /\ NoFile \notin File
  /\ MaxWrites \in Nat /\ MaxChanges \in Nat

VARIABLES
  list,     \* _by_ref.values(): the entries of the dictionary, Gone where one was removed
  disk,     \* disk[f]: version of the file, 0: there is none
  table,    \* table[f]: NoRow, NoText or the version whose text is indexed
  folders,  \* _folder_indexed_at.keys()
  run,      \* the call of _do_search
  view,     \* results, preview and _preview_cache of the window
  used      \* used.writes, used.changes (bounds)

vars == <<list, disk, table, folders, run, view, used>>

NoRow == -1
NoText == 0
NoPreview == [file |-> NoFile, ver |-> 0, from |-> "none"]

NoQuery == [words |-> {}, form |-> "plain"]
Idle ==
  [pc |-> "idle", req |-> [name |-> NoQuery, content |-> NoQuery, scope |-> {}],
   named |-> {}, found |-> {}, pos |-> 1, size |-> 0, left |-> 0,
   frozen |-> FALSE, old |-> <<>>, moved |-> FALSE, must |-> {}, may |-> {}]

Live(entries) == {i \in 1..Len(entries) : entries[i] # Gone}
Size(entries) == Cardinality(Live(entries))

\* The lists of different files.
Lists ==
  {s \in UNION {[1..n -> File] : n \in 0..Cardinality(File)} :
     \A i, j \in DOMAIN s : s[i] = s[j] => i = j}

\* A dictionary rebuilt without its gaps: the same files in the same order.
Packed(s, entries) ==
  /\ Range(s) = Range(entries) \ {Gone}
  /\ \A i, j \in DOMAIN s, k, l \in DOMAIN entries :
       s[i] = entries[k] /\ s[j] = entries[l] => (i < j <=> k < l)

-----------------------------------------------------------------------------
(* Queries *)

\* _build_fts_query: plain words become prefixes, words of symbols are dropped;
\* what looks like full-text syntax is passed on and compared word by word.
FtsQuery(q) ==
  IF q.form = "plain"
  THEN [words |-> q.words \ Symbol, by |-> Begins, broken |-> FALSE]
  ELSE [words |-> q.words, by |-> {<<w, w>> : w \in Word}, broken |-> q.form = "broken"]

\* FTS5 MATCH.  A broken query raises OperationalError, which ends as no rows.
Match(fts, words) ==
  /\ ~fts.broken
  /\ \A w \in fts.words : \E v \in words : <<w, v>> \in fts.by

\* Faulty (mutant): a folder also takes in its namesakes' files.
MutantFolderClause(g, f) == g # <<>> /\ \E i \in 1..Len(f) - 1 : f[i] = Last(g)

\* _folder_clause: LIKE 'folder\%'.  The drive's own path ends in \ already, and
\* no path has two of them.
FolderClause(g, f) == g # <<>> /\ IsStrictPrefix(g, f)

InScope(scope, f) == scope = {} \/ \E g \in scope : FolderClause(g, f)

\* _search_db_filenames: fts_files holds the name and the path.
NameRows(q, scope) ==
  {f \in File : table[f] # NoRow /\ InScope(scope, f) /\ Match(FtsQuery(q), Range(f))}

\* _search_contents.
TextRows(q, scope) ==
  {f \in File : table[f] > NoText /\ InScope(scope, f) /\ Match(FtsQuery(q), Text[table[f]])}

\* Every word of the box in the name.
NameHit(q, f) == \A w \in q.words : <<w, Last(f)>> \in Inside

-----------------------------------------------------------------------------
(* What a search is to answer, said without its steps *)

Asked(q, words) ==
  IF q.form = "plain"
  THEN \A w \in q.words \ Symbol : \E v \in words : <<w, v>> \in Begins
  ELSE q.words \subseteq words

Fitting(req, tab, entries) ==
  IF req.content.words = {}
  THEN {f \in File : NameHit(req.name, f) /\ \E i \in 1..Len(entries) : entries[i] = f}
  ELSE {f \in File :
          /\ tab[f] > NoText
          /\ Asked(req.content, Text[tab[f]]) /\ Asked(req.name, Range(f))
          /\ req.scope = {} \/ \E g \in req.scope : IsStrictPrefix(g, f)}

\* Named mishaps: a query FTS5 refuses, a box with nothing but symbols, a drive
\* among the folders, a dictionary rebuilt under the search.
Unanswerable(r) ==
  IF r.req.content.words = {} THEN r.moved
  ELSE \/ <<>> \in r.req.scope
       \/ \E q \in {r.req.name, r.req.content} :
            q.words # {} /\ (FtsQuery(q).broken \/ FtsQuery(q).words = {})

\* must, may: files that fitted all the time, at some time, since the search
\* began (history).
Watched(tab, entries) ==
  IF run.pc \in {"names", "contents", "list"}
  THEN LET now == Fitting(run.req, tab, entries) IN
       [run EXCEPT !.must = @ \cap now, !.may = @ \cup now]
  ELSE run

-----------------------------------------------------------------------------
(* The other threads and programs *)

Change == used.changes < MaxChanges /\ used' = [used EXCEPT !.changes = @ + 1]

Write(f) ==
  /\ used.writes < MaxWrites
  /\ used' = [used EXCEPT !.writes = @ + 1]
  /\ disk' = [disk EXCEPT ![f] = used.writes + 2]
  /\ UNCHANGED <<list, table, folders, run, view>>

Delete(f) ==
  /\ disk[f] # 0 /\ Change
  /\ disk' = [disk EXCEPT ![f] = 0]
  /\ UNCHANGED <<list, table, folders, run, view>>

ListIs(entries) ==
  /\ Change
  /\ list' = entries
  /\ UNCHANGED <<disk, table, folders, view>>

\* add_or_update of a new file: at the end.  A dictionary without room is first
\* rebuilt without its gaps.
ListAdd(f) ==
  /\ f \notin Range(list)
  /\ \/ ListIs(Append(list, f)) /\ run' = Watched(table, list')
     \/ /\ Gone \in Range(list)
        /\ \E s \in Lists : Packed(s, list) /\ ListIs(Append(s, f))
        /\ run' = LET r == Watched(table, list') IN
                  IF r.pc = "list" THEN [r EXCEPT !.moved = @ \/ ~r.frozen] ELSE r

\* remove_by_ref.
ListRemove(i) ==
  /\ i \in Live(list) /\ ListIs([list EXCEPT ![i] = Gone])
  /\ run' = Watched(table, list')

\* add_or_update of a renamed file; another entry with that path is
\* removed, and the path is now that of another record.
ListRename(i, f) ==
  /\ i \in Live(list) /\ list[i] # f
  /\ ListIs([j \in 1..Len(list) |-> CASE j = i       -> f
                                      [] list[j] = f -> Gone
                                      [] OTHER       -> list[j]])
  /\ run' = LET r == Watched(table, list') IN
            IF r.pc = "list" THEN [r EXCEPT !.must = @ \ {f}] ELSE r

\* populate puts new dictionaries in place; a search goes on reading the old one.
Populate(s) ==
  /\ ListIs(s)
  /\ run' = LET r == Watched(table, list') IN
            IF r.pc = "list" /\ ~r.frozen THEN [r EXCEPT !.frozen = TRUE, !.old = list] ELSE r

\* An index thread commits a file: a text takes the old one's place, a file
\* without one keeps what it has.  The thread asks neither whether f is still
\* below a registered folder nor whether it still has the text extracted; that
\* text is the present one here (module Reindex has the older ones).
Commit(f) ==
  /\ disk[f] # 0 /\ Change
  /\ table' = [table EXCEPT ![f] = IF Text[disk[f]] # {} THEN disk[f]
                                   ELSE IF @ = NoRow THEN NoText ELSE @]
  /\ run' = Watched(table', list)
  /\ UNCHANGED <<list, disk, folders, view>>

Elsewhere ==
  \/ \E f \in File : Write(f) \/ Delete(f) \/ ListAdd(f) \/ Commit(f)
  \/ \E i \in 1..Len(list) : ListRemove(i) \/ \E f \in File : ListRename(i, f)
  \/ \E s \in Lists : Populate(s)

-----------------------------------------------------------------------------
(* _do_search *)

\* Faulty (mutant): the texts read for previews are kept.
MutantShown(S) ==
  [view EXCEPT !.shown = S, !.preview = NoPreview, !.base = disk]

\* Results replace the table's rows; selection and preview go with them,
\* and the texts read for previews are forgotten.  base: history.
Shown(S) ==
  [shown |-> S, preview |-> NoPreview,
   cache |-> [f \in File |-> 0], base |-> disk]

\* With a word in the content box the database is asked, within the folders;
\* otherwise the file list.  It runs on Return and after a finished scan.
Ask(n, c) ==
  /\ run.pc = "idle"
  /\ n.words \cup c.words # {}
  /\ LET req == [name |-> n, content |-> c, scope |-> IF c.words = {} THEN {} ELSE folders]
         now == Fitting(req, table, list)
     IN  run' = [Idle EXCEPT !.pc = IF c.words = {} THEN "list" ELSE "names", !.req = req,
                             !.size = Size(list), !.left = Size(list),
                             !.must = now, !.may = now]
  /\ UNCHANGED <<list, disk, table, folders, view, used>>

\* Both boxes empty.
AskNothing ==
  /\ run.pc = "idle"
  /\ view' = [view EXCEPT !.shown = {}, !.preview = NoPreview]
  /\ UNCHANGED <<list, disk, table, folders, run, used>>

\* get_connection raises, nobody catches it, and PyQt ends the process.
AskFails ==
  /\ run.pc = "names"
  /\ run' = [Idle EXCEPT !.pc = "aborted"]
  /\ UNCHANGED <<list, disk, table, folders, view, used>>

NamesStep ==
  /\ run.pc = "names"
  /\ run' = [run EXCEPT !.pc = "contents",
               !.named = IF FtsQuery(run.req.name).words = {} THEN {} ELSE NameRows(run.req.name, run.req.scope)]
  /\ UNCHANGED <<list, disk, table, folders, view, used>>

Texts == IF FtsQuery(run.req.content).words = {} THEN {} ELSE TextRows(run.req.content, run.req.scope)

\* Faulty (mutant): what only one query found is kept.
MutantMerged == run.named \cup Texts

\* With both boxes filled only the files of both queries stay.
Merged == IF run.req.name.words # {} THEN run.named \cap Texts ELSE Texts

ContentsStep ==
  /\ run.pc = "contents"
  /\ view' = Shown(Merged)
  /\ run' = Idle
  /\ UNCHANGED <<list, disk, table, folders, used>>

\* mft_cache.search iterates over the dictionary without the lock.  Python looks
\* before each entry whether the number of entries is still that of the start,
\* and does not hand out more than that.
Entries == IF run.frozen THEN run.old ELSE list
Rest == {i \in Live(Entries) : i \geq run.pos}

\* Faulty (mutant): what it has handed out is not counted.
MutantGrown == Size(Entries) # run.size

Grown == Size(Entries) # run.size \/ (Rest # {} /\ run.left = 0)

ListStep ==
  /\ run.pc = "list" /\ ~Grown
  /\ \E i \in Rest :
       /\ \A j \in Rest : i \leq j
       /\ run' = [run EXCEPT !.pos = i + 1, !.left = @ - 1,
                 !.found = IF NameHit(run.req.name, Entries[i]) THEN @ \cup {Entries[i]} ELSE @]
  /\ UNCHANGED <<list, disk, table, folders, view, used>>

ListEnd ==
  /\ run.pc = "list" /\ ~Grown /\ Rest = {}
  /\ view' = Shown(run.found)
  /\ run' = Idle
  /\ UNCHANGED <<list, disk, table, folders, used>>

\* RuntimeError, which nobody catches.
ListRaises ==
  /\ run.pc = "list" /\ Grown
  /\ run' = [Idle EXCEPT !.pc = "aborted"]
  /\ UNCHANGED <<list, disk, table, folders, view, used>>

SearchStep == AskFails \/ NamesStep \/ ContentsStep \/ ListStep \/ ListEnd \/ ListRaises

-----------------------------------------------------------------------------
(* Selection, preview and folders *)

\* What _on_selection_changed shows: the indexed text, one read before, or the
\* file's own; from the database nothing when it cannot be opened.
FromIndex(f) == table[f] > NoText
Preview(f, indexed) ==
  CASE indexed                               -> [file |-> f, ver |-> table[f], from |-> "index"]
    [] ~indexed /\ f \notin Extractable      -> NoPreview
    [] ~indexed /\ f \in Extractable /\ view.cache[f] # 0
                                             -> [file |-> f, ver |-> view.cache[f], from |-> "file"]
    [] OTHER -> IF disk[f] = 0 \/ Text[disk[f]] = {} THEN NoPreview
                ELSE [file |-> f, ver |-> disk[f], from |-> "file"]

Look(f, indexed) ==
  LET shown == Preview(f, indexed) IN
  view' = [view EXCEPT !.preview = shown,
             !.cache[f] = IF shown.from = "file" THEN shown.ver ELSE @]

Select(f) ==
  /\ run.pc = "idle" /\ f \in view.shown
  /\ Look(f, FromIndex(f)) \/ Look(f, FALSE)
  /\ UNCHANGED <<list, disk, table, folders, run, used>>

\* _on_header_clicked, _clear_preview.
ClearPreview ==
  /\ run.pc = "idle"
  /\ view' = [view EXCEPT !.preview = NoPreview]
  /\ UNCHANGED <<list, disk, table, folders, run, used>>

AddFolder(g) ==
  /\ run.pc = "idle" /\ Change
  /\ folders' = folders \cup {g}
  /\ UNCHANGED <<list, disk, table, run, view>>

RemoveFolder(g) ==
  /\ run.pc = "idle" /\ g \in folders /\ Change
  /\ folders' = folders \ {g}
  /\ table' = [f \in File |-> IF FolderClause(g, f) THEN NoRow ELSE table[f]]
  /\ UNCHANGED <<list, disk, run, view>>

\* The first scan of an empty list has ended: the boxes are enabled.
ScanFinished ==
  /\ run.pc = "initializing"
  /\ run' = Idle
  /\ UNCHANGED <<list, disk, table, folders, view, used>>

User ==
  \/ \E form \in Form : Ask(form[1], form[2])
  \/ AskNothing \/ ClearPreview \/ ScanFinished
  \/ \E f \in File : Select(f)
  \/ \E g \in Folder : AddFolder(g) \/ RemoveFolder(g)

Init ==
  /\ list \in {s \in Lists : Range(s) = File}
  /\ folders \in SUBSET Folder
  /\ disk = [f \in File |-> 1]
  /\ \E row \in {NoRow, 1} : table =
       [f \in File |-> IF \E g \in folders : IsStrictPrefix(g, f) THEN row ELSE NoRow]
  /\ run = [Idle EXCEPT !.pc = "initializing"]
  /\ view = [shown |-> {}, preview |-> NoPreview,
             cache |-> [f \in File |-> 0], base |-> disk]
  /\ used = [writes |-> 0, changes |-> 0]

Next == (run.pc # "aborted" /\ (Elsewhere \/ User)) \/ SearchStep

Spec == Init /\ [][Next]_vars
=============================================================================
