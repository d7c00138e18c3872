----------------------------- MODULE IndexTables -----------------------------
(***************************************************************************)
(* The tables of core/indexer.py that hold the content index, and the      *)
(* statements the program runs on them: files, file_contents, the two      *)
(* full-text tables that triggers keep beside them, and indexed_folders.   *)
(*                                                                         *)
(* Each operator takes the tables and returns them as one statement, its   *)
(* triggers and its ON DELETE CASCADE leave them.  Row ids are             *)
(* AUTOINCREMENT: an id is never given again.  All the program does with   *)
(* an id is to find out whether it is still that of a row, so the id of    *)
(* the n-th row a path ever had is <<p, n>>.                               *)
(***************************************************************************)
EXTENDS Naturals

CONSTANTS Path,      \* absolute paths of files of a supported type, not excluded
          Folder,    \* folders that can be registered for content search
          Under,     \* Under[f]: the paths below folder f
          NoRow      \* no row in files

\* One text per modification; 0 where there is none.
NoText == 0

\* files: modification time and has_content.  born, written: rows a path ever
\* had in files and in file_contents.  fts_files: ids whose name and path are
\* in the index (a row's path never changes).  folders: indexed_folders, a row
\* without and with indexed_at.
EmptyTables ==
  [files       |-> [p \in Path |-> NoRow],
   born        |-> [p \in Path |-> 0],
   contents    |-> {},
   written     |-> [p \in Path |-> 0],
   ftsFiles    |-> {},
   ftsContents |-> {},
   folders     |-> [f \in Folder |-> "absent"]]

Known(tab) == {p \in Path : tab.files[p] # NoRow}
FileId(tab, p) == <<p, tab.born[p]>>
FileIds(tab, S) == {FileId(tab, p) : p \in S}
Posting(c) == [id |-> c.id, text |-> c.text]
Registered(tab) == {f \in Folder : tab.folders[f] # "absent"}

\* INSERT OR IGNORE INTO files, and trigger files_ai.
InsertFiles(tab, S, mtime) ==
  LET new == S \ Known(tab) IN
  [tab EXCEPT
     !.files    = [p \in Path |-> IF p \in new THEN [mtime |-> mtime[p], has |-> FALSE]
                                               ELSE @[p]],
     !.born     = [p \in Path |-> IF p \in new THEN @[p] + 1 ELSE @[p]],
     !.ftsFiles = @ \cup {<<p, tab.born[p] + 1>> : p \in new}]

\* UPDATE files SET modified = ... WHERE path = ..., and trigger files_au.
UpdateFiles(tab, S, mtime) ==
  LET old == S \cap Known(tab) IN
  [tab EXCEPT
     !.files    = [p \in Path |-> IF p \in old THEN [@[p] EXCEPT !.mtime = mtime[p]]
                                               ELSE @[p]],
     !.ftsFiles = (@ \ FileIds(tab, old)) \cup FileIds(tab, old)]

\* Faulty (mutant): trigger fc_ad is missing.
MutantDeleteContents(tab, ids) == [tab EXCEPT !.contents = {c \in @ : c.file \notin ids}]

\* DELETE FROM file_contents WHERE file_id = ..., and trigger fc_ad.
DeleteContents(tab, ids) ==
  LET gone == {c \in tab.contents : c.file \in ids} IN
  [tab EXCEPT !.contents    = @ \ gone,
              !.ftsContents = @ \ {Posting(c) : c \in gone}]

\* INSERT INTO file_contents for the files of S, and trigger fc_ai.
InsertContents(tab, S, id, text) ==
  LET new == {[id |-> <<p, tab.written[p] + 1>>, file |-> id[p], text |-> text[p]] : p \in S} IN
  [tab EXCEPT !.contents    = @ \cup new,
              !.written     = [p \in Path |-> IF p \in S THEN @[p] + 1 ELSE @[p]],
              !.ftsContents = @ \cup {Posting(c) : c \in new}]

\* UPDATE files SET has_content = 1 WHERE id = ..., and trigger files_au.
SetHasContent(tab, ids) ==
  LET old == {p \in Known(tab) : FileId(tab, p) \in ids} IN
  [tab EXCEPT
     !.files    = [p \in Path |-> IF p \in old THEN [@[p] EXCEPT !.has = TRUE] ELSE @[p]],
     !.ftsFiles = (@ \ FileIds(tab, old)) \cup FileIds(tab, old)]

\* DELETE FROM files, trigger files_ad and the cascade to file_contents.
DeleteFiles(tab, S) ==
  LET old == S \cap Known(tab) IN
  [DeleteContents(tab, FileIds(tab, old)) EXCEPT
     !.files    = [p \in Path |-> IF p \in old THEN NoRow ELSE @[p]],
     !.ftsFiles = @ \ FileIds(tab, old)]

-----------------------------------------------------------------------------
(* The functions of indexer.py that write *)

\* What bulk_upsert_files writes for the paths of S (those with a time), given
\* the rows it has read before: found[p] is p's id number or 0, time[p] the
\* time stored then.
BulkUpsertFiles(tab, S, found, time, mtime) ==
  LET new     == {p \in S : found[p] = 0}
      changed == {p \in S : found[p] # 0 /\ time[p] # mtime[p]}
  IN  UpdateFiles(InsertFiles(tab, new, mtime), changed, mtime)

\* The ids bulk_upsert_files returns: those read before, and those of the rows
\* it finds after the inserts for the others.
PathToId(tab, found) ==
  [p \in Path |-> IF found[p] # 0 THEN <<p, found[p]>> ELSE FileId(tab, p)]

\* The FOREIGN KEY of file_contents: the rows inserted are of files that exist.
References(tab, S, id) == \A p \in S : p \in Known(tab) /\ id[p] = FileId(tab, p)

\* Faulty (mutants): old rows are not deleted; files with a row are passed over.
MutantKeepOld(tab, S, id, text) ==
  SetHasContent(InsertContents(tab, S, id, text), {id[p] : p \in S})

MutantKeepFirst(tab, S, id, text) ==
  LET new == {p \in S : ~tab.files[p].has} IN
  SetHasContent(InsertContents(tab, new, id, text), {id[p] : p \in new})

BulkUpsertContents(tab, S, id, text) ==
  LET ids == {id[p] : p \in S} IN
  SetHasContent(InsertContents(DeleteContents(tab, ids), S, id, text), ids)

\* upsert_file, upsert_content: the same for one file, statement by statement.
UpsertFile(tab, p, mtime) ==
  IF p \notin Known(tab) THEN InsertFiles(tab, {p}, [x \in {p} |-> mtime])
  ELSE IF tab.files[p].mtime = mtime THEN tab
  ELSE UpdateFiles(tab, {p}, [x \in {p} |-> mtime])

\* Faulty (mutant): the row stays.
MutantUpsertContent(tab, p, text) ==
  SetHasContent(InsertContents(tab, {p}, [x \in {p} |-> FileId(tab, p)], [x \in {p} |-> text]),
                {FileId(tab, p)})

\* One of the rows of the file is looked up and deleted by its own id.
UpsertContent(tab, p, text) ==
  LET id   == FileId(tab, p)
      rows == {c \in tab.contents : c.file = id}
      old  == IF rows = {} THEN {} ELSE {CHOOSE c \in rows : TRUE}
      less == [tab EXCEPT !.contents = @ \ old, !.ftsContents = @ \ {Posting(c) : c \in old}]
  IN  SetHasContent(InsertContents(less, {p}, [x \in {p} |-> id], [x \in {p} |-> text]), {id})

\* needs_content_update, for a file with modification time mtime.
NeedsContentUpdate(tab, p, mtime) ==
  p \notin Known(tab) \/ ~tab.files[p].has \/ tab.files[p].mtime # mtime

\* get_file_content_by_path, for the preview.
FileContentByPath(tab, p) ==
  {c.text : c \in {c \in tab.contents : p \in Known(tab) /\ c.file = FileId(tab, p)}}

AddIndexedFolder(tab, f) ==
  [tab EXCEPT !.folders[f] = IF @ = "absent" THEN "new" ELSE @]

\* Faulty (mutant): the files below the folder stay.
MutantRemoveIndexedFolder(tab, f) == [tab EXCEPT !.folders[f] = "absent"]

RemoveIndexedFolder(tab, f) ==
  [DeleteFiles(tab, Under[f]) EXCEPT !.folders[f] = "absent"]

UpdateIndexedAt(tab, F) ==
  [tab EXCEPT !.folders =
     [f \in Folder |-> IF f \in F /\ @[f] # "absent" THEN "indexed" ELSE @[f]]]

-----------------------------------------------------------------------------
\* What _search_contents joins: the postings, the row of file_contents with
\* that id, the row of files with that file_id.
Searchable(tab) ==
  [p \in Path |->
     {c.text : c \in {c \in tab.contents : /\ Posting(c) \in tab.ftsContents
                                          /\ p \in Known(tab)
                                          /\ c.file = FileId(tab, p)}}]
=============================================================================
