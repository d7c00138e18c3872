---------------------------- MODULE ReindexProps -----------------------------
(***************************************************************************)
(* What is claimed of module Reindex.                                      *)
(***************************************************************************)
EXTENDS Reindex

Row == [mtime : Nat, has : BOOLEAN]
Id == Path \X Nat
Content == [id : Id, file : Id, text : Nat]

Tables ==
  [files : [Path -> Row \cup {NoRow}], born : [Path -> Nat],
   contents : SUBSET Content, written : [Path -> Nat],
   ftsFiles : SUBSET Id, ftsContents : SUBSET [id : Id, text : Nat],
   folders : [Folder -> {"absent", "new", "indexed"}]]

ThreadState ==
  [pc : {"idle", "walk", "check", "stat", "extract", "flush", "write", "done"},
   walk : SUBSET Folder, todo : SUBSET Path, chunk : SUBSET Path, ready : SUBSET Path,
   buf : SUBSET Path, seen : [Path -> Nat], text : [Path -> Nat], mtime : [Path -> Nat],
   found : [Path -> Nat], time : [Path -> Nat], torn : SUBSET Path]

TypeOK ==
  /\ disk \in [Path -> [ver : Nat, good : BOOLEAN]]
  /\ clock \in Nat
  /\ db \in Tables
  /\ thread \in [Thread -> ThreadState]
  /\ jobs \in Nat /\ faults \in Nat
  /\ hazard \in [stale : SUBSET Path, revived : SUBSET Path]

-----------------------------------------------------------------------------
\* The full-text tables index exactly the rows of the tables they belong to:
\* no word of a replaced, deleted or cascaded row is found any more, none of a
\* stored one is missing.
MirrorsExact(tab) ==
  /\ tab.ftsFiles = FileIds(tab, Known(tab))
  /\ tab.ftsContents = {Posting(c) : c \in tab.contents}

\* has_content says whether there is a content row, there is at most one for a
\* file, and none without its file.
ContentsExact(tab) ==
  /\ \A c \in tab.contents : \E p \in Known(tab) : c.file = FileId(tab, p)
  /\ \A c, d \in tab.contents : c.file = d.file => c = d
  /\ \A p \in Known(tab) :
       tab.files[p].has <=> \E c \in tab.contents : c.file = FileId(tab, p)

\* The tables agree after every commit of threads and window, whatever was
\* read before the folder was removed, the row inserted or the text replaced.
TablesAgree == MirrorsExact(db) /\ ContentsExact(db)

\* The functions for a single file leave the tables as the bulk functions would,
\* and choose the files a thread would choose; the preview shows what a search
\* finds, whenever no thread is at work.
SinglesAgree ==
  (\A t \in Thread : At(t, "idle")) => \A p \in Path : \A m \in Version \ {0} :
    LET found == [x \in Path |-> IF x \in Known(db) THEN db.born[x] ELSE 0]
        time  == [x \in Path |-> IF x \in Known(db) THEN db.files[x].mtime ELSE 0]
        value == [x \in Path |-> m]
        one   == UpsertFile(db, p, m)
        id    == PathToId(one, found)
    IN  /\ one = BulkUpsertFiles(db, {p}, found, time, value)
        /\ UpsertContent(one, p, m) = BulkUpsertContents(one, {p}, id, value)
        /\ NeedsContentUpdate(db, p, m) <=> StoredTime[p] # m
        /\ FileContentByPath(db, p) = Searchable(db)[p]

\* A file whose stored time is that of the file is not read again, so its
\* stored text must be the file's: outside the two named mismatches no
\* interleaving of writers, threads and folder changes leaves an old text under
\* a new time.
SkippedIsCurrent ==
  \A p \in Path \ hazard.stale :
    HasContent(p) /\ db.files[p].mtime = disk[p].ver
      => \A c \in db.contents : c.file = FileId(db, p) => c.text = disk[p].ver

\* Of a folder that was removed nothing is found, unless a thread was still
\* working on it, or was to, at the time.
RemovedStaysRemoved == Known(db) \subseteq RegisteredPaths(db) \cup hazard.revived

\* Seen through a search, every commit replaces the texts of some files or
\* forgets a folder, as a whole.
Store == INSTANCE ContentStore WITH Text <- Version, store <- Searchable(db)
ImplementsStore == Store!Spec
=============================================================================
