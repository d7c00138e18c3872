---------------------------- MODULE ReindexProofs ----------------------------
(***************************************************************************)
(* Proofs about Reindex, for all values of its constants.                  *)
(***************************************************************************)
EXTENDS ReindexProps, TLAPS

-----------------------------------------------------------------------------
(* The statements, table by table *)

\* A row of file_contents belongs to the row its path has in files.
Placed(tab) ==
  \A c \in tab.contents : \E p \in Known(tab) : c.file = FileId(tab, p) /\ c.id[1] = p

Single(tab) == \A c, d \in tab.contents : c.file = d.file => c = d

Flagged(tab) ==
  \A p \in Known(tab) : tab.files[p].has <=> \E c \in tab.contents : c.file = FileId(tab, p)

\* Ids start at 1, so that 0 can stand for a row not found.
Numbered(tab) == \A p \in Known(tab) : tab.born[p] # 0

Agree(tab) ==
  MirrorsExact(tab) /\ Placed(tab) /\ Single(tab) /\ Flagged(tab) /\ Numbered(tab)

LEMMA AgreeSuffices == ASSUME NEW tab, Agree(tab) PROVE MirrorsExact(tab) /\ ContentsExact(tab)
BY DEF Agree, Placed, Single, Flagged, ContentsExact

LEMMA RowType ==
  /\ NoRow \notin Row
  /\ \A r \in Row : r # NoRow /\ r.mtime \in Nat /\ r.has \in BOOLEAN
BY NoRowIsNone DEF Row

LEMMA EmptyIs == EmptyTables \in Tables /\ Known(EmptyTables) = {} /\ Agree(EmptyTables)
<1>1. EmptyTables \in Tables
  BY DEF EmptyTables, Tables
<1>2. Known(EmptyTables) = {} /\ EmptyTables.contents = {} /\ EmptyTables.ftsFiles = {}
      /\ EmptyTables.ftsContents = {}
  BY DEF EmptyTables, Known
<1>3. QED
  BY <1>1, <1>2 DEF Agree, MirrorsExact, Placed, Single, Flagged, Numbered, FileIds

\* r has the files of S that tab does not have, with new ids.
InsertedFiles(tab, S, mtime, r) ==
  /\ r \in Tables
  /\ r.contents = tab.contents /\ r.ftsContents = tab.ftsContents
  /\ r.written = tab.written /\ r.folders = tab.folders
  /\ Known(r) = Known(tab) \cup S
  /\ \A p \in Path :
       /\ r.files[p] = IF p \in S \ Known(tab) THEN [mtime |-> mtime[p], has |-> FALSE]
                                               ELSE tab.files[p]
       /\ r.born[p] = IF p \in S \ Known(tab) THEN tab.born[p] + 1 ELSE tab.born[p]
  /\ r.ftsFiles = tab.ftsFiles \cup {<<p, tab.born[p] + 1>> : p \in S \ Known(tab)}

LEMMA InsertFilesIs ==
  ASSUME NEW tab \in Tables, NEW S, S \subseteq Path, NEW mtime \in [Path -> Nat],
         NEW r, r = InsertFiles(tab, S, mtime)
  PROVE  InsertedFiles(tab, S, mtime, r)
<1> DEFINE new == S \ Known(tab)
<1>1. /\ tab.files \in [Path -> Row \cup {NoRow}] /\ tab.born \in [Path -> Nat]
      /\ tab.ftsFiles \in SUBSET Id
  BY DEF Tables
<1>2. /\ r.contents = tab.contents /\ r.ftsContents = tab.ftsContents
      /\ r.written = tab.written /\ r.folders = tab.folders
      /\ r.files = [p \in Path |-> IF p \in new THEN [mtime |-> mtime[p], has |-> FALSE]
                                                ELSE tab.files[p]]
      /\ r.born = [p \in Path |-> IF p \in new THEN tab.born[p] + 1 ELSE tab.born[p]]
      /\ r.ftsFiles = tab.ftsFiles \cup {<<p, tab.born[p] + 1>> : p \in new}
  BY DEF InsertFiles, Tables
<1>3. \A p \in new : [mtime |-> mtime[p], has |-> FALSE] \in Row
  BY DEF Row
<1>4. Known(r) = Known(tab) \cup S
  <2>1. ASSUME NEW p \in Path PROVE r.files[p] # NoRow <=> p \in Known(tab) \cup S
    <3>1. CASE p \in new
      <4>1. r.files[p] = [mtime |-> mtime[p], has |-> FALSE]
        BY <1>2, <3>1
      <4>2. QED
        BY <1>3, <3>1, <4>1, RowType
    <3>2. CASE p \notin new
      <4>1. r.files[p] = tab.files[p]
        BY <1>2, <3>2
      <4>2. QED
        BY <3>2, <4>1 DEF Known
    <3>3. QED
      BY <3>1, <3>2
  <2>2. QED
    BY <2>1 DEF Known
<1>5. r.files \in [Path -> Row \cup {NoRow}] /\ r.born \in [Path -> Nat] /\ r.ftsFiles \in SUBSET Id
  <2>1. ASSUME NEW p \in Path PROVE r.files[p] \in Row \cup {NoRow} /\ r.born[p] \in Nat
    <3> HIDE DEF new
    <3>1. /\ r.files[p] = IF p \in new THEN [mtime |-> mtime[p], has |-> FALSE] ELSE tab.files[p]
          /\ r.born[p] = IF p \in new THEN tab.born[p] + 1 ELSE tab.born[p]
      BY <1>2, Zenon
    <3>2. CASE p \in new
      <4>1. r.files[p] \in Row
        BY <1>3, <3>1, <3>2, Zenon
      <4>2. tab.born[p] \in Nat
        BY <1>1
      <4>3. QED
        BY <3>1, <3>2, <4>1, <4>2
    <3>3. CASE p \notin new
      BY <1>1, <3>1, <3>3
    <3>4. QED
      BY <3>2, <3>3
  <2>2. r.ftsFiles \in SUBSET Id
    BY <1>1, <1>2 DEF Id
  <2>3. QED
    BY <1>2, <2>1, <2>2, Zenon
<1>6. r \in Tables
  <2>1. r = [tab EXCEPT !.files = r.files, !.born = r.born, !.ftsFiles = r.ftsFiles]
    BY DEF InsertFiles, Tables
  <2>2. QED
    BY <1>5, <2>1 DEF Tables
<1>7. QED
  BY <1>2, <1>4, <1>6 DEF InsertedFiles

\* r has other times for files of S.
UpdatedFiles(tab, S, mtime, r) ==
  /\ r \in Tables
  /\ r.contents = tab.contents /\ r.ftsContents = tab.ftsContents
  /\ r.written = tab.written /\ r.folders = tab.folders /\ r.born = tab.born
  /\ Known(r) = Known(tab)
  /\ \A p \in Known(tab) :
       /\ r.files[p].has = tab.files[p].has
       /\ r.files[p].mtime = IF p \in S THEN mtime[p] ELSE tab.files[p].mtime
  /\ r.ftsFiles = tab.ftsFiles

LEMMA UpdateFilesIs ==
  ASSUME NEW tab \in Tables, NEW S, S \subseteq Path, NEW mtime \in [Path -> Nat],
         tab.ftsFiles = FileIds(tab, Known(tab)),
         NEW r, r = UpdateFiles(tab, S, mtime)
  PROVE  UpdatedFiles(tab, S, mtime, r)
<1> DEFINE old == S \cap Known(tab)
<1>1. tab.files \in [Path -> Row \cup {NoRow}] /\ \A p \in Known(tab) : tab.files[p] \in Row
  BY DEF Tables, Known
<1>2. /\ r.contents = tab.contents /\ r.ftsContents = tab.ftsContents
      /\ r.written = tab.written /\ r.folders = tab.folders /\ r.born = tab.born
      /\ r.files = [p \in Path |-> IF p \in old THEN [tab.files[p] EXCEPT !.mtime = mtime[p]]
                                                ELSE tab.files[p]]
      /\ r.ftsFiles = (tab.ftsFiles \ FileIds(tab, old)) \cup FileIds(tab, old)
  BY DEF UpdateFiles, Tables
<1>3. \A p \in old : /\ [tab.files[p] EXCEPT !.mtime = mtime[p]] \in Row
                     /\ [tab.files[p] EXCEPT !.mtime = mtime[p]].has = tab.files[p].has
                     /\ [tab.files[p] EXCEPT !.mtime = mtime[p]].mtime = mtime[p]
  BY <1>1 DEF Row
<1>4. \A p \in Path :
        r.files[p] = IF p \in old THEN [tab.files[p] EXCEPT !.mtime = mtime[p]] ELSE tab.files[p]
  BY <1>2, Zenon
<1>5. r.ftsFiles = tab.ftsFiles
  BY <1>2 DEF FileIds
<1>6. /\ Known(r) = Known(tab)
      /\ \A p \in Known(tab) :
           /\ r.files[p].has = tab.files[p].has
           /\ r.files[p].mtime = IF p \in S THEN mtime[p] ELSE tab.files[p].mtime
  <2>1. \A p \in Path : r.files[p] # NoRow <=> tab.files[p] # NoRow
    <3>1. TAKE p \in Path
    <3>2. CASE p \in old
      BY <1>3, <1>4, <3>2, RowType DEF Known
    <3>3. CASE p \notin old
      BY <1>4, <3>3
    <3>4. QED
      BY <3>2, <3>3
  <2>2. ASSUME NEW p \in Known(tab)
        PROVE  /\ r.files[p].has = tab.files[p].has
               /\ r.files[p].mtime = IF p \in S THEN mtime[p] ELSE tab.files[p].mtime
    <3>1. p \in Path /\ (p \in old <=> p \in S)
      BY DEF Known
    <3> HIDE DEF old
    <3>2. CASE p \in old
      BY <1>3, <1>4, <3>1, <3>2
    <3>3. CASE p \notin old
      BY <1>4, <3>1, <3>3
    <3>4. QED
      BY <3>2, <3>3
  <2>3. QED
    BY <2>1, <2>2 DEF Known
<1>7. r \in Tables
  <2>1. r.files \in [Path -> Row \cup {NoRow}]
    <3>1. \A p \in Path : r.files[p] \in Row \cup {NoRow}
      BY <1>1, <1>2, <1>3, Zenon
    <3>2. QED
      BY <1>2, <3>1, Zenon
  <2>2. r = [tab EXCEPT !.files = r.files, !.ftsFiles = r.ftsFiles]
    BY DEF UpdateFiles, Tables
  <2>3. QED
    BY <1>5, <2>1, <2>2 DEF Tables
<1>8. QED
  BY <1>2, <1>5, <1>6, <1>7 DEF UpdatedFiles

\* r lacks the contents of the files with the given ids, and their postings.
DeletedContents(tab, ids, r) ==
  /\ r \in Tables
  /\ r.files = tab.files /\ r.born = tab.born /\ r.ftsFiles = tab.ftsFiles
  /\ r.written = tab.written /\ r.folders = tab.folders
  /\ r.contents = {c \in tab.contents : c.file \notin ids}
  /\ r.ftsContents = {Posting(c) : c \in r.contents}

LEMMA DeleteContentsIs ==
  ASSUME NEW tab \in Tables, NEW ids, MirrorsExact(tab), Placed(tab), Single(tab),
         NEW r, r = DeleteContents(tab, ids)
  PROVE  DeletedContents(tab, ids, r)
<1> DEFINE gone == {c \in tab.contents : c.file \in ids}
<1>1. /\ r.files = tab.files /\ r.born = tab.born /\ r.ftsFiles = tab.ftsFiles
      /\ r.written = tab.written /\ r.folders = tab.folders
      /\ r.contents = tab.contents \ gone
      /\ r.ftsContents = tab.ftsContents \ {Posting(c) : c \in gone}
  BY DEF DeleteContents, Tables
<1>2. ASSUME NEW c \in tab.contents, NEW d \in tab.contents, Posting(c) = Posting(d)
      PROVE  c = d
  <2>1. c.id = d.id
    BY <1>2 DEF Posting
  <2>2. c.file = d.file
    BY <2>1 DEF Placed
  <2>3. QED
    BY <2>2 DEF Single
<1>3. r.ftsContents = {Posting(c) : c \in tab.contents \ gone}
  BY <1>1, <1>2 DEF MirrorsExact
<1>4. r \in Tables
  <2>1. r.contents \subseteq tab.contents /\ r.ftsContents \subseteq tab.ftsContents
    BY <1>1
  <2>2. r = [tab EXCEPT !.contents = r.contents, !.ftsContents = r.ftsContents]
    BY DEF DeleteContents, Tables
  <2>3. QED
    BY <2>1, <2>2 DEF Tables
<1>5. QED
  BY <1>1, <1>3, <1>4 DEF DeletedContents

\* The rows that the INSERT adds.
NewRows(tab, S, id, text) ==
  {[id |-> <<p, tab.written[p] + 1>>, file |-> id[p], text |-> text[p]] : p \in S}

\* r has new rows for the texts of S.
InsertedContents(tab, S, id, text, r) ==
  /\ r \in Tables
  /\ r.files = tab.files /\ r.born = tab.born /\ r.ftsFiles = tab.ftsFiles
  /\ r.folders = tab.folders
  /\ r.contents = tab.contents \cup NewRows(tab, S, id, text)
  /\ r.ftsContents = tab.ftsContents \cup {Posting(c) : c \in NewRows(tab, S, id, text)}

LEMMA InsertContentsIs ==
  ASSUME NEW tab \in Tables, NEW S, S \subseteq Path, NEW id, NEW text,
         \A p \in S : id[p] \in Id /\ text[p] \in Nat,
         NEW r, r = InsertContents(tab, S, id, text)
  PROVE  InsertedContents(tab, S, id, text, r)
<1> DEFINE new == NewRows(tab, S, id, text)
<1>1. /\ r.files = tab.files /\ r.born = tab.born /\ r.ftsFiles = tab.ftsFiles
      /\ r.folders = tab.folders
      /\ r.contents = tab.contents \cup new
      /\ r.ftsContents = tab.ftsContents \cup {Posting(c) : c \in new}
      /\ r.written = [p \in Path |-> IF p \in S THEN tab.written[p] + 1 ELSE tab.written[p]]
  BY DEF InsertContents, NewRows, Tables
<1>2. tab.written \in [Path -> Nat] /\ r.written \in [Path -> Nat]
  BY <1>1 DEF Tables
<1>3. \A p \in S : [id |-> <<p, tab.written[p] + 1>>, file |-> id[p], text |-> text[p]] \in Content
  BY <1>2 DEF Content, Id
<1>4. new \subseteq Content
  BY <1>3 DEF NewRows
<1>5. \A c \in new : Posting(c) \in [id : Id, text : Nat]
  BY <1>4 DEF Posting, Content
<1>6. r \in Tables
  <2>1. r.contents \subseteq Content /\ r.ftsContents \subseteq [id : Id, text : Nat]
    BY <1>1, <1>4, <1>5 DEF Tables
  <2>2. r = [tab EXCEPT !.contents = r.contents, !.written = r.written, !.ftsContents = r.ftsContents]
    BY DEF InsertContents, Tables
  <2>3. QED
    BY <1>2, <2>1, <2>2 DEF Tables
<1>7. QED
  BY <1>1, <1>6 DEF InsertedContents

\* r has has_content for the files of S.
FlaggedFiles(tab, S, r) ==
  /\ r \in Tables
  /\ r.contents = tab.contents /\ r.ftsContents = tab.ftsContents
  /\ r.folders = tab.folders /\ r.born = tab.born /\ r.ftsFiles = tab.ftsFiles
  /\ Known(r) = Known(tab)
  /\ \A p \in Known(tab) :
       /\ r.files[p].has <=> (p \in S \/ tab.files[p].has)
       /\ r.files[p].mtime = tab.files[p].mtime

LEMMA SetHasContentIs ==
  ASSUME NEW tab \in Tables, NEW S \in SUBSET Known(tab), tab.ftsFiles = FileIds(tab, Known(tab)),
         NEW r, r = SetHasContent(tab, FileIds(tab, S))
  PROVE  FlaggedFiles(tab, S, r)
<1> DEFINE old == {p \in Known(tab) : FileId(tab, p) \in FileIds(tab, S)}
<1>1. tab.files \in [Path -> Row \cup {NoRow}] /\ \A p \in Known(tab) : tab.files[p] \in Row
  BY DEF Tables, Known
<1>2. old = S
  BY DEF FileIds, FileId
<1>3. /\ r.contents = tab.contents /\ r.ftsContents = tab.ftsContents
      /\ r.written = tab.written /\ r.folders = tab.folders /\ r.born = tab.born
      /\ r.files = [p \in Path |-> IF p \in old THEN [tab.files[p] EXCEPT !.has = TRUE]
                                                ELSE tab.files[p]]
      /\ r.ftsFiles = (tab.ftsFiles \ FileIds(tab, old)) \cup FileIds(tab, old)
  BY DEF SetHasContent, Tables
<1>4. \A p \in S : /\ [tab.files[p] EXCEPT !.has = TRUE] \in Row
                   /\ [tab.files[p] EXCEPT !.has = TRUE].has
                   /\ [tab.files[p] EXCEPT !.has = TRUE].mtime = tab.files[p].mtime
  BY <1>1 DEF Row
<1>5. Known(r) = Known(tab)
  <2> HIDE DEF old
  <2>1. \A p \in Path : r.files[p] =
           IF p \in S THEN [tab.files[p] EXCEPT !.has = TRUE] ELSE tab.files[p]
    BY <1>2, <1>3, Zenon
  <2>2. \A p \in S : r.files[p] # NoRow /\ p \in Path
    BY <1>4, <2>1, RowType DEF Known
  <2>3. \A p \in Path \ S : r.files[p] = tab.files[p]
    BY <2>1
  <2>4. QED
    BY <2>2, <2>3 DEF Known
<1>6. r.ftsFiles = tab.ftsFiles
  BY <1>2, <1>3 DEF FileIds
<1>7. \A p \in Known(tab) :
        /\ r.files[p].has <=> (p \in S \/ tab.files[p].has)
        /\ r.files[p].mtime = tab.files[p].mtime
  <2> HIDE DEF old
  <2>1. \A p \in Known(tab) :
          r.files[p] = IF p \in S THEN [tab.files[p] EXCEPT !.has = TRUE] ELSE tab.files[p]
    BY <1>2, <1>3 DEF Known
  <2>2. QED
    BY <1>4, <2>1
<1>8. r \in Tables
  <2>1. r.files \in [Path -> Row \cup {NoRow}]
    BY <1>1, <1>2, <1>3, <1>4
  <2>2. r = [tab EXCEPT !.files = r.files, !.ftsFiles = r.ftsFiles]
    BY DEF SetHasContent, Tables
  <2>3. QED
    BY <1>6, <2>1, <2>2 DEF Tables
<1>9. QED
  BY <1>3, <1>5, <1>6, <1>7, <1>8 DEF FlaggedFiles

-----------------------------------------------------------------------------
(* The functions that write *)

\* r has rows for files of S, inserted or with a new time; the rest is as in tab.
WroteFiles(tab, S, mtime, r) ==
  /\ r \in Tables /\ Agree(r)
  /\ r.contents = tab.contents /\ r.folders = tab.folders
  /\ Known(tab) \subseteq Known(r) /\ Known(r) \subseteq Known(tab) \cup S
  /\ \A p \in Known(tab) :
       /\ r.files[p].has = tab.files[p].has /\ r.born[p] = tab.born[p]
       /\ p \notin S => r.files[p].mtime = tab.files[p].mtime
       /\ r.files[p].mtime \in {tab.files[p].mtime, mtime[p]}
  /\ \A p \in Known(r) \ Known(tab) : ~r.files[p].has /\ r.files[p].mtime = mtime[p]

LEMMA BulkFilesIs ==
  ASSUME NEW tab \in Tables, Agree(tab), NEW S \in SUBSET Path,
         NEW found, NEW time, NEW mtime \in [Path -> Nat],
         NEW r, r = BulkUpsertFiles(tab, S, found, time, mtime)
  PROVE  WroteFiles(tab, S, mtime, r)
<1> DEFINE new == {p \in S : found[p] = 0}
           changed == {p \in S : found[p] # 0 /\ time[p] # mtime[p]}
           q == InsertFiles(tab, new, mtime)
<1>1. /\ q \in Tables
      /\ q.contents = tab.contents /\ q.ftsContents = tab.ftsContents /\ q.folders = tab.folders
      /\ Known(q) = Known(tab) \cup new
      /\ \A p \in Path :
           /\ q.files[p] = IF p \in new \ Known(tab) THEN [mtime |-> mtime[p], has |-> FALSE]
                                                     ELSE tab.files[p]
           /\ q.born[p] = IF p \in new \ Known(tab) THEN tab.born[p] + 1 ELSE tab.born[p]
      /\ q.ftsFiles = tab.ftsFiles \cup {<<p, tab.born[p] + 1>> : p \in new \ Known(tab)}
  <2>1. new \subseteq Path /\ q = InsertFiles(tab, new, mtime)
    OBVIOUS
  <2> HIDE DEF new, q
  <2>2. InsertedFiles(tab, new, mtime, q)
    BY <2>1, InsertFilesIs
  <2>3. QED
    BY <2>2 DEF InsertedFiles
<1>2. r = UpdateFiles(q, changed, mtime)
  BY DEF BulkUpsertFiles
<1>3. new \subseteq Path /\ changed \subseteq Path /\ Known(tab) \subseteq Path
  BY DEF Known
<1> HIDE DEF q, new, changed
<1>4. \A p \in Known(tab) : q.files[p] = tab.files[p] /\ q.born[p] = tab.born[p]
  BY <1>1, <1>3
<1>5. \A p \in Known(q) \ Known(tab) :
        q.files[p] = [mtime |-> mtime[p], has |-> FALSE] /\ q.born[p] = tab.born[p] + 1
  BY <1>1, <1>3
<1>6. q.ftsFiles = FileIds(q, Known(q))
  <2>1. FileIds(q, Known(q)) = FileIds(q, Known(tab)) \cup FileIds(q, new \ Known(tab))
    BY <1>1 DEF FileIds
  <2>2. FileIds(q, Known(tab)) = tab.ftsFiles
    BY <1>4 DEF FileIds, FileId, Agree, MirrorsExact
  <2>3. FileIds(q, new \ Known(tab)) = {<<p, tab.born[p] + 1>> : p \in new \ Known(tab)}
    <3>1. \A p \in new \ Known(tab) : FileId(q, p) = <<p, tab.born[p] + 1>>
      BY <1>1, <1>5 DEF FileId
    <3>2. QED
      BY <3>1 DEF FileIds
  <2>4. QED
    BY <1>1, <2>1, <2>2, <2>3
<1>7. /\ r \in Tables
      /\ r.contents = q.contents /\ r.ftsContents = q.ftsContents
      /\ r.folders = q.folders /\ r.born = q.born
      /\ Known(r) = Known(q)
      /\ \A p \in Known(q) :
           /\ r.files[p].has = q.files[p].has
           /\ r.files[p].mtime = IF p \in changed THEN mtime[p] ELSE q.files[p].mtime
      /\ r.ftsFiles = q.ftsFiles
  <2>1. UpdatedFiles(q, changed, mtime, r)
    BY <1>1, <1>2, <1>3, <1>6, UpdateFilesIs
  <2>2. QED
    BY <2>1 DEF UpdatedFiles
<1>8. ASSUME NEW p \in Known(r) \ Known(tab)
      PROVE  ~r.files[p].has /\ r.files[p].mtime = mtime[p]
  <2>1. q.files[p] = [mtime |-> mtime[p], has |-> FALSE]
    BY <1>5, <1>7
  <2>2. q.files[p].mtime = mtime[p] /\ ~q.files[p].has
    BY <2>1
  <2>3. QED
    BY <1>7, <2>2
<1>9. \A p \in Known(tab) :
        /\ r.files[p].has = tab.files[p].has /\ r.born[p] = tab.born[p]
        /\ p \notin S => r.files[p].mtime = tab.files[p].mtime
        /\ r.files[p].mtime \in {tab.files[p].mtime, mtime[p]}
  <2>1. changed \subseteq S
    BY DEF changed
  <2>2. ASSUME NEW p \in Known(tab)
        PROVE  /\ p \in Known(q) /\ q.files[p] = tab.files[p] /\ r.born[p] = tab.born[p]
    BY <1>1, <1>4, <1>7
  <2>3. QED
    BY <1>7, <2>1, <2>2
<1>10. \A p \in Known(tab) : FileId(r, p) = FileId(tab, p)
  BY <1>9 DEF FileId
<1>11. MirrorsExact(r)
  BY <1>1, <1>6, <1>7 DEF MirrorsExact, FileIds, FileId, Agree
<1>12. Placed(r)
  BY <1>1, <1>7, <1>10 DEF Placed, Agree
<1>13. Single(r)
  BY <1>1, <1>7 DEF Single, Agree
<1>14. Flagged(r)
  <2>1. ASSUME NEW p \in Known(r) \ Known(tab), NEW c \in r.contents PROVE c.file # FileId(r, p)
    BY <1>1, <1>7, <2>1 DEF Agree, Placed, FileId
  <2>2. \A p \in Known(tab) :
          r.files[p].has <=> \E c \in r.contents : c.file = FileId(r, p)
    <3> SUFFICES ASSUME NEW p \in Known(tab)
                 PROVE  r.files[p].has <=> \E c \in r.contents : c.file = FileId(r, p)
      OBVIOUS
    <3>1. r.files[p].has = tab.files[p].has /\ FileId(r, p) = FileId(tab, p)
          /\ r.contents = tab.contents
      BY <1>1, <1>7, <1>9, <1>10
    <3>2. QED
      BY <3>1 DEF Flagged, Agree
  <2>3. QED
    BY <1>8, <2>1, <2>2 DEF Flagged
<1>15. Known(tab) \subseteq Known(r) /\ Known(r) \subseteq Known(tab) \cup S
  BY <1>1, <1>7 DEF new
<1>16. Numbered(r)
  <2>1. \A p \in Known(tab) : r.born[p] # 0
    BY <1>9 DEF Agree, Numbered
  <2>2. \A p \in Known(r) \ Known(tab) : p \in Path /\ r.born[p] = tab.born[p] + 1
    BY <1>5, <1>7 DEF Known
  <2>3. \A p \in Path : tab.born[p] \in Nat
    BY DEF Tables
  <2>4. ASSUME NEW p \in Known(r) \ Known(tab) PROVE r.born[p] # 0
    <3>1. PICK n \in Nat : n = tab.born[p]
      BY <2>2, <2>3
    <3>2. r.born[p] = n + 1
      BY <2>2, <3>1
    <3>3. QED
      BY <3>1, <3>2
  <2>5. QED
    BY <2>1, <2>4 DEF Numbered
<1>17. QED
  BY <1>1, <1>7, <1>8, <1>9, <1>11, <1>12, <1>13, <1>14, <1>15, <1>16 DEF Agree, WroteFiles

\* r has the texts of S in place of the old ones; the rest is as in tab.
WroteContents(tab, S, text, r) ==
  /\ r \in Tables /\ Agree(r)
  /\ r.folders = tab.folders /\ r.born = tab.born /\ Known(r) = Known(tab)
  /\ \A p \in Known(tab) :
       /\ r.files[p].mtime = tab.files[p].mtime
       /\ r.files[p].has <=> (p \in S \/ tab.files[p].has)
  /\ \A p \in S, c \in r.contents : c.file = FileId(tab, p) => c.text = text[p]
  /\ \A p \in Known(tab) \ S, c \in r.contents : c.file = FileId(tab, p) => c \in tab.contents
  /\ \A p \in Known(tab) \ S, c \in tab.contents : c.file = FileId(tab, p) => c \in r.contents

LEMMA BulkContentsIs ==
  ASSUME NEW tab \in Tables, Agree(tab), NEW S, NEW id, NEW text,
         References(tab, S, id), \A p \in S : text[p] \in Nat,
         NEW r, r = BulkUpsertContents(tab, S, id, text)
  PROVE  WroteContents(tab, S, text, r)
<1> DEFINE ids == {id[p] : p \in S}
           d == DeleteContents(tab, ids)
           i == InsertContents(d, S, id, text)
<1>1. S \subseteq Known(tab) /\ S \subseteq Path /\ \A p \in S : id[p] = FileId(tab, p)
  BY DEF References, Known
<1>2. ASSUME NEW p \in S PROVE id[p] \in Id
  <2>1. p \in Path /\ tab.born[p] \in Nat
    BY <1>1 DEF Tables
  <2>2. QED
    BY <1>1, <2>1 DEF FileId, Id
<1>3. ids = FileIds(tab, S)
  BY <1>1 DEF FileIds
<1>4. /\ d \in Tables
      /\ d.files = tab.files /\ d.born = tab.born /\ d.ftsFiles = tab.ftsFiles
      /\ d.folders = tab.folders
      /\ d.contents = {c \in tab.contents : c.file \notin ids}
      /\ d.ftsContents = {Posting(c) : c \in d.contents}
  <2>1. d = DeleteContents(tab, ids)
    OBVIOUS
  <2> HIDE DEF d
  <2>2. DeletedContents(tab, ids, d)
    BY <2>1, DeleteContentsIs DEF Agree
  <2>3. QED
    BY <2>2 DEF DeletedContents
<1>5. r = SetHasContent(i, ids)
  BY DEF BulkUpsertContents
<1> HIDE DEF d, ids
<1>6. /\ i \in Tables
      /\ i.files = d.files /\ i.born = d.born /\ i.ftsFiles = d.ftsFiles
      /\ i.folders = d.folders
      /\ i.contents = d.contents \cup NewRows(d, S, id, text)
      /\ i.ftsContents = d.ftsContents \cup {Posting(c) : c \in NewRows(d, S, id, text)}
  <2>1. (\A p \in S : id[p] \in Id /\ text[p] \in Nat) /\ i = InsertContents(d, S, id, text)
    BY <1>2
  <2> HIDE DEF i
  <2>2. InsertedContents(d, S, id, text, i)
    BY <1>1, <1>4, <2>1, InsertContentsIs
  <2>3. QED
    BY <2>2 DEF InsertedContents
<1> HIDE DEF i
<1>7. Known(i) = Known(tab) /\ \A p \in Path : FileId(i, p) = FileId(tab, p)
  BY <1>4, <1>6 DEF Known, FileId
<1>8. FileIds(i, S) = ids /\ FileIds(i, Known(i)) = FileIds(tab, Known(tab))
  BY <1>3, <1>4, <1>6, <1>7 DEF FileIds, FileId
<1>9. /\ r \in Tables
      /\ r.contents = i.contents /\ r.ftsContents = i.ftsContents
      /\ r.folders = i.folders /\ r.born = i.born /\ r.ftsFiles = i.ftsFiles
      /\ Known(r) = Known(i)
      /\ \A p \in Known(i) :
           /\ r.files[p].has <=> (p \in S \/ i.files[p].has)
           /\ r.files[p].mtime = i.files[p].mtime
  <2>1. i.ftsFiles = FileIds(i, Known(i)) /\ S \in SUBSET Known(i)
    BY <1>1, <1>4, <1>6, <1>7, <1>8 DEF Agree, MirrorsExact
  <2>2. FlaggedFiles(i, S, r)
    BY <1>5, <1>6, <1>8, <2>1, SetHasContentIs
  <2>3. QED
    BY <2>2 DEF FlaggedFiles
<1>10. \A p \in Path : FileId(r, p) = FileId(tab, p)
  BY <1>7, <1>9 DEF FileId
<1>11. \A c \in r.contents :
         \/ c \in tab.contents /\ c.file \notin ids
         \/ \E p \in S : c = [id |-> <<p, d.written[p] + 1>>, file |-> id[p], text |-> text[p]]
  BY <1>4, <1>6, <1>9 DEF NewRows
<1>12. \A p \in S, c \in r.contents : c.file = FileId(tab, p) =>
         c = [id |-> <<p, d.written[p] + 1>>, file |-> id[p], text |-> text[p]]
  <2> SUFFICES ASSUME NEW p \in S, NEW c \in r.contents, c.file = FileId(tab, p)
               PROVE  c = [id |-> <<p, d.written[p] + 1>>, file |-> id[p], text |-> text[p]]
    OBVIOUS
  <2>1. c.file \in ids
    BY <1>1 DEF ids
  <2>2. PICK x \in S : c = [id |-> <<x, d.written[x] + 1>>, file |-> id[x], text |-> text[x]]
    BY <1>11, <2>1
  <2>3. x = p
    BY <1>1, <2>2 DEF FileId
  <2>4. QED
    BY <2>2, <2>3
<1>13. \A p \in S : [id |-> <<p, d.written[p] + 1>>, file |-> id[p], text |-> text[p]] \in r.contents
  BY <1>6, <1>9 DEF NewRows
<1>14. \A p \in Known(tab) \ S, c \in r.contents : c.file = FileId(tab, p) => c \in tab.contents
  BY <1>1, <1>11 DEF FileId
<1>15. \A p \in Known(tab) \ S, c \in tab.contents : c.file = FileId(tab, p) => c \in r.contents
  <2> SUFFICES ASSUME NEW p \in Known(tab) \ S, NEW c \in tab.contents, c.file = FileId(tab, p)
               PROVE  c \in r.contents
    OBVIOUS
  <2>1. c.file \notin ids
    BY <1>1 DEF ids, FileId
  <2>2. QED
    BY <1>4, <1>6, <1>9, <2>1
<1>16. MirrorsExact(r)
  <2>1. r.ftsFiles = FileIds(r, Known(r))
    BY <1>4, <1>6, <1>7, <1>8, <1>9 DEF FileIds, FileId, Agree, MirrorsExact
  <2>2. r.ftsContents = {Posting(c) : c \in r.contents}
    BY <1>4, <1>6, <1>9
  <2>3. QED
    BY <2>1, <2>2 DEF MirrorsExact
<1>17. Placed(r)
  <2> SUFFICES ASSUME NEW c \in r.contents
               PROVE  \E p \in Known(r) : c.file = FileId(r, p) /\ c.id[1] = p
    BY DEF Placed
  <2>1. CASE c \in tab.contents
    BY <1>7, <1>9, <1>10, <2>1 DEF Agree, Placed, Known
  <2>2. CASE c \notin tab.contents
    <3>1. PICK p \in S : c = [id |-> <<p, d.written[p] + 1>>, file |-> id[p], text |-> text[p]]
      BY <1>11, <2>2
    <3>2. p \in Known(r) /\ c.file = FileId(r, p) /\ c.id[1] = p
      BY <1>1, <1>7, <1>9, <1>10, <3>1
    <3>3. QED
      BY <3>2
  <2>3. QED
    BY <2>1, <2>2
<1>18. Single(r)
  <2> SUFFICES ASSUME NEW b \in r.contents, NEW c \in r.contents, b.file = c.file PROVE b = c
    BY DEF Single
  <2>1. PICK p \in Known(r) : b.file = FileId(tab, p)
    BY <1>10, <1>17 DEF Placed, Known
  <2>2. CASE p \in S
    BY <1>12, <2>1, <2>2
  <2>3. CASE p \notin S
    <3>1. b \in tab.contents /\ c \in tab.contents
      BY <1>7, <1>9, <1>14, <2>1, <2>3
    <3>2. QED
      BY <3>1 DEF Agree, Single
  <2>4. QED
    BY <2>2, <2>3
<1>19. \A p \in Known(tab) :
         /\ r.files[p].mtime = tab.files[p].mtime
         /\ r.files[p].has <=> (p \in S \/ tab.files[p].has)
  BY <1>4, <1>6, <1>7, <1>9
<1>20. Flagged(r)
  <2> SUFFICES ASSUME NEW p \in Known(tab)
               PROVE  r.files[p].has <=> \E c \in r.contents : c.file = FileId(tab, p)
    BY <1>7, <1>9, <1>10 DEF Flagged, Known
  <2>1. CASE p \in S
    BY <1>1, <1>13, <1>19, <2>1
  <2>2. CASE p \notin S
    <3>1. (\E c \in r.contents : c.file = FileId(tab, p))
            <=> \E c \in tab.contents : c.file = FileId(tab, p)
      BY <1>14, <1>15, <2>2
    <3>2. QED
      BY <1>19, <2>2, <3>1 DEF Agree, Flagged
  <2>3. QED
    BY <2>1, <2>2
<1>21. \A p \in S, c \in r.contents : c.file = FileId(tab, p) => c.text = text[p]
  BY <1>12
<1>22. r.folders = tab.folders /\ r.born = tab.born /\ Known(r) = Known(tab)
  BY <1>4, <1>6, <1>7, <1>9
<1>23. Numbered(r)
  BY <1>22 DEF Agree, Numbered
<1>24. QED
  BY <1>9, <1>14, <1>15, <1>16, <1>17, <1>18, <1>19, <1>20, <1>21, <1>22, <1>23
  DEF Agree, WroteContents

\* r has neither rows nor texts of S; the rest is as in tab.
DroppedFiles(tab, S, r) ==
  /\ r \in Tables /\ Agree(r)
  /\ r.folders = tab.folders /\ r.born = tab.born
  /\ Known(r) = Known(tab) \ S
  /\ \A p \in Known(tab) \ S : r.files[p] = tab.files[p]
  /\ r.contents \subseteq tab.contents
  /\ \A p \in Known(tab) \ S, c \in tab.contents : c.file = FileId(tab, p) => c \in r.contents

LEMMA DeleteFilesIs ==
  ASSUME NEW tab \in Tables, Agree(tab), NEW S,
         NEW r, r = DeleteFiles(tab, S)
  PROVE  DroppedFiles(tab, S, r)
<1> DEFINE old == S \cap Known(tab)
           d == DeleteContents(tab, FileIds(tab, old))
<1>1. /\ d \in Tables
      /\ d.files = tab.files /\ d.born = tab.born /\ d.ftsFiles = tab.ftsFiles
      /\ d.folders = tab.folders
      /\ d.contents = {c \in tab.contents : c.file \notin FileIds(tab, old)}
      /\ d.ftsContents = {Posting(c) : c \in d.contents}
  <2>1. d = DeleteContents(tab, FileIds(tab, old))
    OBVIOUS
  <2> HIDE DEF d
  <2>2. DeletedContents(tab, FileIds(tab, old), d)
    BY <2>1, DeleteContentsIs DEF Agree
  <2>3. QED
    BY <2>2 DEF DeletedContents
<1>2. r = [d EXCEPT !.files = [p \in Path |-> IF p \in old THEN NoRow ELSE d.files[p]],
                    !.ftsFiles = d.ftsFiles \ FileIds(tab, old)]
  BY DEF DeleteFiles
<1> HIDE DEF d
<1>3. /\ r.files = [p \in Path |-> IF p \in old THEN NoRow ELSE tab.files[p]]
      /\ r.ftsFiles = tab.ftsFiles \ FileIds(tab, old)
      /\ r.contents = d.contents /\ r.ftsContents = d.ftsContents
      /\ r.folders = tab.folders /\ r.born = tab.born
  <2>1. /\ r.files = [p \in Path |-> IF p \in old THEN NoRow ELSE d.files[p]]
        /\ r.ftsFiles = d.ftsFiles \ FileIds(tab, old)
        /\ r.contents = d.contents /\ r.ftsContents = d.ftsContents
        /\ r.folders = d.folders /\ r.born = d.born
    <3> HIDE DEF old
    <3>1. QED
      BY <1>1, <1>2 DEF Tables
  <2>2. QED
    BY <1>1, <2>1
<1>4. Known(r) = Known(tab) \ S /\ \A p \in Known(tab) \ S : r.files[p] = tab.files[p]
  <2>1. \A p \in Path : r.files[p] = IF p \in old THEN NoRow ELSE tab.files[p]
    BY <1>3, Zenon
  <2>2. QED
    BY <2>1 DEF Known
<1>5. \A p \in Path : FileId(r, p) = FileId(tab, p)
  BY <1>3 DEF FileId
<1>6. r \in Tables
  <2>1. r.files \in [Path -> Row \cup {NoRow}] /\ r.ftsFiles \in SUBSET Id
    BY <1>1, <1>3 DEF Tables
  <2>2. r = [d EXCEPT !.files = r.files, !.ftsFiles = r.ftsFiles]
    <3>1. PICK files, fts : r = [d EXCEPT !.files = files, !.ftsFiles = fts]
      BY <1>2, Zenon
    <3>2. r.files = files /\ r.ftsFiles = fts
      BY <1>1, <3>1 DEF Tables
    <3>3. QED
      BY <3>1, <3>2
  <2>3. QED
    BY <1>1, <2>1, <2>2 DEF Tables
<1>7. r.contents = {c \in tab.contents : c.file \notin FileIds(tab, old)}
  BY <1>1, <1>3
<1>8. \A p \in Known(tab) \ S, c \in tab.contents : c.file = FileId(tab, p) => c \in r.contents
  BY <1>7 DEF FileIds, FileId
<1>9. MirrorsExact(r)
  <2>1. r.ftsFiles = FileIds(r, Known(r))
    <3>1. FileIds(tab, Known(tab)) \ FileIds(tab, old) = FileIds(tab, Known(tab) \ S)
      BY DEF FileIds, FileId
    <3>2. FileIds(r, Known(r)) = FileIds(tab, Known(r))
      BY <1>5 DEF FileIds, Known
    <3>3. QED
      BY <1>3, <1>4, <3>1, <3>2 DEF Agree, MirrorsExact
  <2>2. QED
    BY <1>1, <1>3, <2>1 DEF MirrorsExact
<1>10. Placed(r)
  <2> SUFFICES ASSUME NEW c \in r.contents
               PROVE  \E p \in Known(r) : c.file = FileId(r, p) /\ c.id[1] = p
    BY DEF Placed
  <2>1. PICK p \in Known(tab) : c.file = FileId(tab, p) /\ c.id[1] = p
    BY <1>7 DEF Agree, Placed
  <2>2. p \notin S
    BY <1>7, <2>1 DEF FileIds
  <2>3. QED
    BY <1>4, <1>5, <2>1, <2>2 DEF Known
<1>11. Single(r)
  BY <1>7 DEF Agree, Single
<1>12. Flagged(r)
  <2> SUFFICES ASSUME NEW p \in Known(tab) \ S
               PROVE  r.files[p].has <=> \E c \in r.contents : c.file = FileId(tab, p)
    BY <1>4, <1>5 DEF Flagged, Known
  <2>1. (\E c \in r.contents : c.file = FileId(tab, p))
          <=> \E c \in tab.contents : c.file = FileId(tab, p)
    BY <1>7, <1>8
  <2>2. QED
    BY <1>4, <2>1 DEF Agree, Flagged
<1>13. Numbered(r)
  BY <1>3, <1>4 DEF Agree, Numbered
<1>14. QED
  BY <1>3, <1>4, <1>6, <1>7, <1>8, <1>9, <1>10, <1>11, <1>12, <1>13 DEF Agree, DroppedFiles

\* r is tab but for the folders.
OtherFolders(tab, folders, r) ==
  /\ r \in Tables /\ Agree(r) /\ r.folders = folders
  /\ r.files = tab.files /\ r.born = tab.born /\ r.contents = tab.contents
  /\ Known(r) = Known(tab)

LEMMA FoldersIs ==
  ASSUME NEW tab \in Tables, Agree(tab),
         NEW folders \in [Folder -> {"absent", "new", "indexed"}],
         NEW r, r = [tab EXCEPT !.folders = folders]
  PROVE  OtherFolders(tab, folders, r)
<1>1. /\ r.folders = folders /\ r.files = tab.files /\ r.born = tab.born
      /\ r.contents = tab.contents /\ r.ftsFiles = tab.ftsFiles /\ r.ftsContents = tab.ftsContents
  BY DEF Tables
<1>2. r \in Tables
  BY DEF Tables
<1>3. Known(r) = Known(tab) /\ \A p \in Path : FileId(r, p) = FileId(tab, p)
  BY <1>1 DEF Known, FileId
<1>4. MirrorsExact(r)
  BY <1>1, <1>3 DEF Agree, MirrorsExact, FileIds, Known, FileId
<1>5. Placed(r) /\ Single(r) /\ Flagged(r) /\ Numbered(r)
  BY <1>1, <1>3 DEF Agree, Placed, Single, Flagged, Numbered, Known
<1>6. QED
  BY <1>1, <1>2, <1>3, <1>4, <1>5 DEF Agree, OtherFolders

\* r has neither rows nor texts of X; the rest is as in tab, but for the folders.
Forgot(tab, X, r) ==
  /\ r \in Tables /\ Agree(r)
  /\ Known(r) = Known(tab) \ X
  /\ \A p \in Known(r) : r.files[p] = tab.files[p] /\ FileId(r, p) = FileId(tab, p)
  /\ r.contents \subseteq tab.contents
  /\ \A p \in Known(r), c \in tab.contents : c.file = FileId(tab, p) => c \in r.contents

LEMMA ForgotIs ==
  ASSUME NEW tab \in Tables, Agree(tab), NEW X,
         NEW d, d = DeleteFiles(tab, X),
         NEW folders \in [Folder -> {"absent", "new", "indexed"}],
         NEW r, r = [d EXCEPT !.folders = folders]
  PROVE  Forgot(tab, X, r) /\ r.folders = folders
<1>1. DroppedFiles(tab, X, d)
  BY DeleteFilesIs
<1>2. OtherFolders(d, folders, r)
  BY <1>1, FoldersIs DEF DroppedFiles
<1>3. QED
  BY <1>1, <1>2 DEF Forgot, DroppedFiles, OtherFolders, FileId

-----------------------------------------------------------------------------
(* The invariant *)

DiskGood ==
  /\ disk \in [Path -> [ver : Nat, good : BOOLEAN]]
  /\ clock \in Version /\ \A p \in Path : disk[p].ver \leq clock
  /\ jobs \in Nat /\ faults \in Nat
  /\ hazard \in [stale : SUBSET Path, revived : SUBSET Path]

\* No row and no text is of a later time than the last write, and no row of none.
Dated(tab) ==
  /\ \A p \in Known(tab) : tab.files[p].mtime # 0 /\ tab.files[p].mtime \leq clock
  /\ \A c \in tab.contents : c.text \leq clock

TablesGood ==
  /\ db \in Tables /\ Agree(db) /\ Dated(db)
  /\ RemovedStaysRemoved /\ SkippedIsCurrent

\* What a thread holds of a file that was not written meanwhile is of the file.
Current(th) ==
  \A p \in Extracted(th) \ th.torn : disk[p].ver # 0 => th.text[p] \in {disk[p].ver, NoText}

\* A thread works for registered folders, or for one removed under its hands.
Tied(th) == Held(th) \subseteq RegisteredPaths(db) \cup hazard.revived

ThreadGood(th) ==
  /\ th \in ThreadState
  /\ \A p \in Path : th.text[p] \leq clock /\ th.mtime[p] \leq clock
  /\ Current(th) /\ Tied(th)

Good ==
  /\ DiskGood /\ TablesGood
  /\ thread \in [Thread -> ThreadState] /\ \A t \in Thread : ThreadGood(thread[t])

LEMMA VersionType == Version \subseteq Nat /\ 0 \in Version
BY BoundsNatural DEF Version

LEMMA NoneType == None \in [Path -> Nat] /\ \A p \in Path : None[p] = 0
BY DEF None

LEMMA NoneBelow == ASSUME NEW n \in Nat PROVE \A p \in Path : None[p] \leq n
<1>1. TAKE p \in Path
<1>2. None[p] = 0
  BY NoneType
<1>3. QED
  BY <1>2

LEMMA IdleIs ==
  /\ IdleThread \in ThreadState
  /\ Held(IdleThread) = {} /\ Extracted(IdleThread) = {}
  /\ IdleThread.text = None /\ IdleThread.mtime = None
BY NoneType DEF IdleThread, ThreadState, Held, Extracted

LEMMA FreshGood ==
  ASSUME Good, NEW pc \in {"check", "done"}, NEW S \in SUBSET Path,
         S \subseteq RegisteredPaths(db) \cup hazard.revived,
         NEW th, th = [IdleThread EXCEPT !.pc = pc, !.todo = S]
  PROVE  ThreadGood(th)
<1>1. th \in ThreadState /\ Held(th) = S /\ Extracted(th) = {}
      /\ th.text = None /\ th.mtime = None
  BY NoneType DEF IdleThread, ThreadState, Held, Extracted
<1>2. clock \in Nat
  BY VersionType DEF Good, DiskGood
<1>3. \A p \in Path : th.text[p] \leq clock /\ th.mtime[p] \leq clock
  BY <1>1, <1>2, NoneBelow, Zenon
<1>4. QED
  BY <1>1, <1>3 DEF ThreadGood, Current, Tied

LEMMA IdleGood == ASSUME Good PROVE ThreadGood(IdleThread)
<1>1. clock \in Nat
  BY VersionType DEF Good, DiskGood
<1>2. \A p \in Path : IdleThread.text[p] \leq clock /\ IdleThread.mtime[p] \leq clock
  BY <1>1, IdleIs, NoneBelow, Zenon
<1>3. QED
  BY <1>2, IdleIs DEF ThreadGood, Current, Tied

LEMMA NextChunkGood ==
  ASSUME Good, NEW th, th.todo \in SUBSET Path,
         th.todo \subseteq RegisteredPaths(db) \cup hazard.revived
  PROVE  ThreadGood(NextChunk(th))
<1>1. PICK pc \in {"check", "done"} : NextChunk(th) = [IdleThread EXCEPT !.pc = pc, !.todo = th.todo]
  BY DEF NextChunk
<1>2. QED
  BY <1>1, FreshGood

\* What thread[t] says.
LEMMA ThreadIs ==
  ASSUME Good, NEW t \in Thread
  PROVE  /\ thread[t] \in ThreadState /\ ThreadGood(thread[t])
         /\ thread[t].todo \in SUBSET Path
         /\ thread[t].todo \subseteq RegisteredPaths(db) \cup hazard.revived
<1>1. thread[t] \in ThreadState /\ ThreadGood(thread[t])
  BY DEF Good
<1>2. thread[t].todo \in SUBSET Path
  BY <1>1 DEF ThreadState
<1>3. thread[t].todo \subseteq RegisteredPaths(db) \cup hazard.revived
  BY <1>1 DEF ThreadGood, Tied, Held
<1>4. QED
  BY <1>1, <1>2, <1>3

\* A step of one thread that leaves files and folders alone.
LEMMA ThreadMoves ==
  ASSUME Good, NEW t \in Thread, NEW th, ThreadGood(th),
         thread' = [thread EXCEPT ![t] = th],
         UNCHANGED <<disk, clock>>, jobs' \in Nat, faults' \in Nat,
         db'.folders = db.folders, TablesGood', hazard'.revived = hazard.revived,
         hazard' \in [stale : SUBSET Path, revived : SUBSET Path]
  PROVE  Good'
<1>1. DiskGood'
  BY DEF Good, DiskGood
<1>2. \A s \in Thread : ThreadGood(thread'[s])
  BY DEF Good
<1>3. RegisteredPaths(db') = RegisteredPaths(db)
  BY DEF RegisteredPaths, Registered
<1>4. (\A s \in Thread : ThreadGood(thread[s]))'
  BY <1>2, <1>3 DEF ThreadGood, Current, Tied
<1>5. thread' \in [Thread -> ThreadState]
  BY DEF Good, ThreadGood
<1>6. QED
  BY <1>1, <1>4, <1>5 DEF Good

\* A step of one thread that touches nothing else.
LEMMA OnlyThread ==
  ASSUME Good, NEW t \in Thread, NEW th, ThreadGood(th),
         thread' = [thread EXCEPT ![t] = th],
         UNCHANGED <<disk, clock, db, hazard>>, jobs' \in Nat, faults' \in Nat
  PROVE  Good'
<1>1. TablesGood'
  BY DEF Good, TablesGood, Dated, RemovedStaysRemoved, RegisteredPaths, SkippedIsCurrent, HasContent
<1>2. hazard' \in [stale : SUBSET Path, revived : SUBSET Path]
  BY DEF Good, DiskGood
<1>3. QED
  BY <1>1, <1>2, ThreadMoves

LEMMA InitGood == Init => Good
<1> SUFFICES ASSUME Init PROVE Good
  OBVIOUS
<1>1. DiskGood
  BY VersionType DEF Init, DiskGood, NoHazard
<1>2. db.contents = {} /\ Known(db) = {} /\ db \in Tables /\ Agree(db)
  <2> DEFINE F == [f \in Folder |-> IF f \in Earlier THEN "indexed" ELSE EmptyTables.folders[f]]
  <2>1. F \in [Folder -> {"absent", "new", "indexed"}]
    BY DEF EmptyTables
  <2>2. db = [EmptyTables EXCEPT !.folders = F]
    BY DEF Init
  <2> HIDE DEF F
  <2>3. OtherFolders(EmptyTables, F, db)
    BY <2>1, <2>2, EmptyIs, FoldersIs
  <2>4. EmptyTables.contents = {}
    BY DEF EmptyTables
  <2>5. QED
    BY <2>3, <2>4, EmptyIs DEF OtherFolders
<1>3. TablesGood
  BY <1>2 DEF TablesGood, Dated, RemovedStaysRemoved, SkippedIsCurrent, HasContent
<1>4. thread = [t \in Thread |-> IdleThread]
  BY DEF Init
<1>5. ThreadGood(IdleThread)
  <2>1. clock \in Nat
    BY DEF Init
  <2>2. \A p \in Path : IdleThread.text[p] \leq clock /\ IdleThread.mtime[p] \leq clock
    BY <2>1, IdleIs, NoneBelow, Zenon
  <2>3. QED
    BY <2>2, IdleIs DEF ThreadGood, Current, Tied
<1>6. QED
  BY <1>1, <1>3, <1>4, <1>5, IdleIs DEF Good

LEMMA FileGood ==
  ASSUME Good, FileStep
  PROVE  Good'
<1> USE VersionType
<1>1. PICK p \in Path : DeleteFile(p) \/ \E good \in BOOLEAN : WriteFile(p, good)
  BY DEF FileStep
<1>2. UNCHANGED <<db, jobs, faults, hazard>>
  BY <1>1 DEF DeleteFile, WriteFile
<1>3. clock \in Nat /\ clock' \in Nat /\ clock \leq clock'
  BY <1>1, BoundsNatural DEF DeleteFile, WriteFile, Good, DiskGood
<1>4. \A q \in Path \ {p} : disk'[q] = disk[q]
  BY <1>1 DEF DeleteFile, WriteFile, Good, DiskGood
<1>5. disk'[p].ver = 0 \/ (clock < disk'[p].ver /\ disk'[p].ver = clock')
  BY <1>1, <1>3 DEF DeleteFile, WriteFile, Good, DiskGood
<1>6. DiskGood'
  <2>1. disk' \in [Path -> [ver : Nat, good : BOOLEAN]] /\ clock' \in Version
    <3>1. CASE DeleteFile(p)
      BY <3>1 DEF DeleteFile, Good, DiskGood
    <3>2. CASE \E good \in BOOLEAN : WriteFile(p, good)
      <4>1. PICK good \in BOOLEAN : WriteFile(p, good)
        BY <3>2
      <4>2. clock < MaxWrites /\ clock' = clock + 1 /\ clock \in Nat
        BY <1>3, <4>1 DEF WriteFile
      <4>3. clock' \in Version
        BY <4>2, BoundsNatural DEF Version
      <4>4. disk' = [disk EXCEPT ![p] = [ver |-> clock + 1, good |-> good]]
            /\ disk \in [Path -> [ver : Nat, good : BOOLEAN]]
        BY <4>1 DEF WriteFile, Good, DiskGood
      <4>5. QED
        BY <4>2, <4>3, <4>4
    <3>3. QED
      BY <1>1, <3>1, <3>2
  <2>2. \A q \in Path : disk'[q].ver \leq clock'
    BY <1>3, <1>4, <1>5, <2>1 DEF Good, DiskGood
  <2>3. QED
    BY <1>2, <2>1, <2>2 DEF Good, DiskGood
<1>7. TablesGood'
  <2>1. \A q \in Known(db) : db.files[q].mtime \in Nat
    BY RowType DEF Good, TablesGood, Tables, Known
  <2>2. \A c \in db.contents : c.text \in Nat
    BY DEF Good, TablesGood, Tables, Content
  <2>3. Dated(db)'
    BY <1>2, <1>3, <2>1, <2>2 DEF Good, TablesGood, Dated
  <2>4. RemovedStaysRemoved'
    BY <1>2 DEF Good, TablesGood, RemovedStaysRemoved, RegisteredPaths
  <2>5. SkippedIsCurrent'
    <3> SUFFICES ASSUME NEW q \in Path \ hazard.stale, HasContent(q),
                        db.files[q].mtime = disk'[q].ver,
                        NEW c \in db.contents, c.file = FileId(db, q)
                 PROVE  c.text = disk'[q].ver
      BY <1>2 DEF SkippedIsCurrent, HasContent
    <3>1. db.files[q].mtime # 0 /\ db.files[q].mtime \leq clock /\ db.files[q].mtime \in Nat
      BY <2>1 DEF HasContent, Good, TablesGood, Dated
    <3>2. q # p
      BY <1>3, <1>5, <3>1
    <3>3. QED
      BY <1>4, <3>2 DEF Good, TablesGood, SkippedIsCurrent
  <2>6. QED
    BY <1>2, <2>3, <2>4, <2>5 DEF Good, TablesGood
<1>8. ASSUME NEW t \in Thread
      PROVE  \/ thread'[t] = thread[t] /\ (p \in Extracted(thread[t]) => disk'[p].ver = 0)
             \/ thread'[t] = [thread[t] EXCEPT !.torn = @ \cup {p}]
  <2>1. CASE DeleteFile(p)
    <3>1. disk'[p].ver = 0
      BY <2>1 DEF DeleteFile, Good, DiskGood
    <3>2. QED
      BY <2>1, <3>1 DEF DeleteFile
  <2>2. CASE \E good \in BOOLEAN : WriteFile(p, good)
    BY <2>2 DEF WriteFile
  <2>3. QED
    BY <1>1, <2>1, <2>2
<1>9. ASSUME NEW t \in Thread PROVE thread'[t] \in ThreadState /\ ThreadGood(thread[t])'
  <2> DEFINE th == thread'[t]
  <2>1. thread[t] \in ThreadState /\ ThreadGood(thread[t])
    BY ThreadIs
  <2>2. /\ th \in ThreadState
        /\ th.text = thread[t].text /\ th.mtime = thread[t].mtime
        /\ Held(th) = Held(thread[t]) /\ Extracted(th) = Extracted(thread[t])
        /\ thread[t].torn \subseteq th.torn
        /\ p \in Extracted(th) => p \in th.torn \/ disk'[p].ver = 0
    <3>1. CASE thread'[t] = thread[t] /\ (p \in Extracted(thread[t]) => disk'[p].ver = 0)
      BY <2>1, <3>1
    <3>2. CASE thread'[t] = [thread[t] EXCEPT !.torn = @ \cup {p}]
      BY <2>1, <3>2 DEF ThreadState, Held, Extracted
    <3>3. QED
      BY <1>8, <3>1, <3>2
  <2>3. \A q \in Path : th.text[q] \leq clock' /\ th.mtime[q] \leq clock'
    BY <1>3, <2>1, <2>2 DEF ThreadGood, ThreadState
  <2>4. \A q \in Extracted(th) \ th.torn : disk'[q].ver # 0 => th.text[q] \in {disk'[q].ver, NoText}
    <3>1. Extracted(th) \subseteq Path
      BY <2>2 DEF Extracted, ThreadState
    <3>2. QED
      BY <1>4, <2>1, <2>2, <3>1 DEF ThreadGood, Current
  <2>5. Held(th) \subseteq RegisteredPaths(db)' \cup hazard'.revived
    BY <1>2, <2>1, <2>2 DEF ThreadGood, Tied, RegisteredPaths
  <2> HIDE DEF th
  <2>6. QED
    BY <2>2, <2>3, <2>4, <2>5 DEF th, ThreadGood, Current, Tied
<1>10. thread' \in [Thread -> ThreadState]
  <2>1. \E f : thread' = [t \in Thread |-> f[t]]
    BY <1>1 DEF DeleteFile, WriteFile, Good
  <2>2. QED
    BY <1>9, <2>1
<1>11. QED
  BY <1>6, <1>7, <1>9, <1>10 DEF Good

-----------------------------------------------------------------------------
(* The window *)

\* The tables forget X and have other folders.
LEMMA ForgetGood ==
  ASSUME Good, NEW X, Forgot(db, X, db'),
         UNCHANGED <<disk, clock, thread, jobs, faults>>,
         hazard' \in [stale : SUBSET Path, revived : SUBSET Path], hazard'.stale = hazard.stale,
         (RegisteredPaths(db) \cup hazard.revived) \ X
            \subseteq RegisteredPaths(db') \cup hazard'.revived,
         \A t \in Thread : Held(thread[t]) \subseteq RegisteredPaths(db') \cup hazard'.revived
  PROVE  Good'
<1>1. DiskGood'
  BY DEF Good, DiskGood
<1>2. db' \in Tables /\ Agree(db')
  BY DEF Forgot
<1>3. /\ Known(db') = Known(db) \ X
      /\ \A p \in Known(db') : db'.files[p] = db.files[p] /\ FileId(db', p) = FileId(db, p)
      /\ db'.contents \subseteq db.contents
  BY DEF Forgot
<1>4. Dated(db)'
  <2>1. \A p \in Known(db') : db'.files[p].mtime # 0 /\ db'.files[p].mtime \leq clock
    BY <1>3 DEF Good, TablesGood, Dated
  <2>2. \A c \in db'.contents : c.text \leq clock
    BY <1>3 DEF Good, TablesGood, Dated
  <2>3. QED
    BY <2>1, <2>2 DEF Dated
<1>5. RemovedStaysRemoved'
  BY <1>3 DEF Good, TablesGood, RemovedStaysRemoved
<1>6. SkippedIsCurrent'
  <2> SUFFICES ASSUME NEW p \in Path \ hazard.stale, HasContent(p)', db'.files[p].mtime = disk[p].ver,
                      NEW c \in db'.contents, c.file = FileId(db', p)
               PROVE  c.text = disk[p].ver
    BY DEF SkippedIsCurrent
  <2>1. p \in Known(db') /\ db'.files[p].has
    BY DEF HasContent
  <2>2. HasContent(p) /\ db.files[p].mtime = disk[p].ver /\ c \in db.contents /\ c.file = FileId(db, p)
    BY <1>3, <2>1 DEF HasContent
  <2>3. QED
    BY <2>2 DEF Good, TablesGood, SkippedIsCurrent
<1>7. TablesGood'
  BY <1>2, <1>4, <1>5, <1>6 DEF TablesGood
<1>8. (\A t \in Thread : ThreadGood(thread[t]))'
  BY DEF Good, ThreadGood, Current, Tied
<1>9. QED
  BY <1>1, <1>7, <1>8 DEF Good

Inside(f) == UNION {Under[g] : g \in Registered(db) \cap Within[f]}

LEMMA AddFolderIs ==
  ASSUME Good, NEW f \in Folder, AddFolder(f)
  PROVE  Forgot(db, Inside(f), db') /\ RegisteredPaths(db) \subseteq RegisteredPaths(db')
<1> DEFINE inside == Registered(db) \cap Within[f]
           d == DeleteFiles(db, Inside(f))
           G == [g \in Folder |-> IF g \in inside THEN "absent" ELSE d.folders[g]]
           F == [G EXCEPT ![f] = IF @ = "absent" THEN "new" ELSE @]
<1>1. db \in Tables /\ Agree(db)
  BY DEF Good, TablesGood
<1>2. db' = [[d EXCEPT !.folders = G] EXCEPT !.folders[f] = IF @ = "absent" THEN "new" ELSE @]
  BY DEF AddFolder, AddIndexedFolder, Inside
<1>3. DroppedFiles(db, Inside(f), d)
  <2>1. d = DeleteFiles(db, Inside(f))
    OBVIOUS
  <2> HIDE DEF d
  <2>2. QED
    BY <1>1, <2>1, DeleteFilesIs
<1>4. d = DeleteFiles(db, Inside(f))
  OBVIOUS
<1> HIDE DEF d
<1>5. d \in Tables /\ d.folders = db.folders
      /\ d.folders \in [Folder -> {"absent", "new", "indexed"}]
  BY <1>3 DEF DroppedFiles, Tables
<1>6. F \in [Folder -> {"absent", "new", "indexed"}] /\ db' = [d EXCEPT !.folders = F]
  <2>1. G \in [Folder -> {"absent", "new", "indexed"}]
    BY <1>5
  <2> HIDE DEF G
  <2>2. QED
    BY <1>2, <1>5, <2>1 DEF Tables
<1>7. Forgot(db, Inside(f), db') /\ db'.folders = F
  <2> HIDE DEF F
  <2>1. QED
    BY <1>1, <1>4, <1>6, ForgotIs
<1>8. Registered(db) \ inside \subseteq Registered(db') /\ f \in Registered(db')
  BY <1>5, <1>7 DEF Registered
<1>9. ASSUME NEW g \in Registered(db), NEW p \in Under[g]
      PROVE  p \in RegisteredPaths(db')
  <2>1. CASE g \in inside
    <3>1. p \in Under[f]
      BY <2>1, WithinFolders
    <3>2. QED
      BY <1>8, <3>1 DEF RegisteredPaths
  <2>2. CASE g \notin inside
    BY <1>8, <2>2 DEF RegisteredPaths
  <2>3. QED
    BY <2>1, <2>2
<1>10. QED
  BY <1>7, <1>9 DEF RegisteredPaths

LEMMA AddFolderGood ==
  ASSUME Good, NEW f \in Folder, AddFolder(f)
  PROVE  Good'
<1>1. Forgot(db, Inside(f), db') /\ RegisteredPaths(db) \subseteq RegisteredPaths(db')
  BY AddFolderIs
<1>2. UNCHANGED <<disk, clock, thread, jobs, faults, hazard>>
  BY DEF AddFolder
<1>3. \A t \in Thread : Held(thread[t]) \subseteq RegisteredPaths(db') \cup hazard'.revived
  BY <1>1, <1>2 DEF Good, ThreadGood, Tied
<1>4. QED
  BY <1>1, <1>2, <1>3, ForgetGood DEF Good, DiskGood

LEMMA RemoveFolderIs ==
  ASSUME Good, NEW f \in Folder, NEW queued, RemoveFolder(f, queued)
  PROVE  Forgot(db, Under[f], db') /\ RegisteredPaths(db) \ Under[f] \subseteq RegisteredPaths(db')
<1> DEFINE d == DeleteFiles(db, Under[f])
           F == [d.folders EXCEPT ![f] = "absent"]
<1>1. db \in Tables /\ Agree(db)
  BY DEF Good, TablesGood
<1>2. db' = [d EXCEPT !.folders[f] = "absent"]
  BY DEF RemoveFolder, RemoveIndexedFolder
<1>3. d = DeleteFiles(db, Under[f])
  OBVIOUS
<1> HIDE DEF d
<1>4. DroppedFiles(db, Under[f], d)
  BY <1>1, <1>3, DeleteFilesIs
<1>5. d \in Tables /\ d.folders = db.folders
      /\ d.folders \in [Folder -> {"absent", "new", "indexed"}]
  BY <1>4 DEF DroppedFiles, Tables
<1>6. F \in [Folder -> {"absent", "new", "indexed"}] /\ db' = [d EXCEPT !.folders = F]
  BY <1>2, <1>5 DEF Tables
<1>7. Forgot(db, Under[f], db') /\ db'.folders = F
  <2> HIDE DEF F
  <2>1. QED
    BY <1>1, <1>3, <1>6, ForgotIs
<1>8. Registered(db) \ {f} \subseteq Registered(db')
  BY <1>5, <1>7 DEF Registered
<1>9. QED
  BY <1>7, <1>8 DEF RegisteredPaths

LEMMA RemoveFolderGood ==
  ASSUME Good, NEW f \in Folder, NEW queued, RemoveFolder(f, queued)
  PROVE  Good'
<1> DEFINE held == Under[f] \cap (queued \cup UNION {Held(thread[t]) : t \in Thread})
<1>1. Forgot(db, Under[f], db') /\ RegisteredPaths(db) \ Under[f] \subseteq RegisteredPaths(db')
  BY RemoveFolderIs
<1>2. UNCHANGED <<disk, clock, thread, jobs, faults>>
  BY DEF RemoveFolder
<1>3. /\ hazard' \in [stale : SUBSET Path, revived : SUBSET Path]
      /\ hazard'.stale = hazard.stale
      /\ hazard'.revived = (hazard.revived \ Under[f]) \cup held
  <2>1. Under[f] \in SUBSET Path /\ hazard \in [stale : SUBSET Path, revived : SUBSET Path]
    BY UnderPaths DEF Good, DiskGood
  <2>2. hazard' = [hazard EXCEPT !.revived = (hazard.revived \ Under[f]) \cup held]
    BY DEF RemoveFolder
  <2>3. held \subseteq Under[f]
    OBVIOUS
  <2> HIDE DEF held
  <2>4. QED
    BY <2>1, <2>2, <2>3
<1>4. \A t \in Thread : Held(thread[t]) \subseteq RegisteredPaths(db') \cup hazard'.revived
  <2> SUFFICES ASSUME NEW t \in Thread, NEW p \in Held(thread[t])
               PROVE  p \in RegisteredPaths(db') \cup hazard'.revived
    OBVIOUS
  <2>1. p \in RegisteredPaths(db) \cup hazard.revived
    BY DEF Good, ThreadGood, Tied
  <2>2. CASE p \in Under[f]
    BY <1>3, <2>2
  <2>3. CASE p \notin Under[f]
    BY <1>1, <1>3, <2>1, <2>3
  <2>4. QED
    BY <2>2, <2>3
<1>5. (RegisteredPaths(db) \cup hazard.revived) \ Under[f]
         \subseteq RegisteredPaths(db') \cup hazard'.revived
  BY <1>1, <1>3
<1> HIDE DEF held
<1>6. QED
  BY <1>1, <1>2, <1>3, <1>4, <1>5, ForgetGood

LEMMA StartPathsGood ==
  ASSUME Good, NEW t \in Thread, NEW S, StartPaths(t, S),
         S \subseteq RegisteredPaths(db) \cup hazard.revived,
         UNCHANGED <<disk, clock, db, faults, hazard>>
  PROVE  Good'
<1>1. S \in SUBSET Path
  BY UnderPaths DEF RegisteredPaths, Registered, Good, DiskGood
<1>2. ThreadGood([IdleThread EXCEPT !.pc = "check", !.todo = S])
  BY <1>1, FreshGood
<1>3. thread' = [thread EXCEPT ![t] = [IdleThread EXCEPT !.pc = "check", !.todo = S]]
      /\ jobs' \in Nat /\ faults' \in Nat
  BY DEF StartPaths, StartThread, Good, DiskGood
<1>4. QED
  BY <1>2, <1>3, OnlyThread

LEMMA StartFoldersGood ==
  ASSUME Good, NEW t \in Thread, NEW F \in SUBSET Registered(db), StartFolders(t, F),
         UNCHANGED <<disk, clock, db, faults, hazard>>
  PROVE  Good'
<1> DEFINE th == [IdleThread EXCEPT !.pc = "walk", !.walk = F]
<1>1. /\ th \in ThreadState /\ th.text = None /\ th.mtime = None
      /\ Extracted(th) = {} /\ Held(th) = UNION {Under[f] : f \in F}
  BY NoneType DEF IdleThread, ThreadState, Extracted, Held, Registered
<1>2. thread' = [thread EXCEPT ![t] = th] /\ jobs' \in Nat /\ faults' \in Nat
  BY DEF StartFolders, StartThread, Good, DiskGood
<1> HIDE DEF th
<1>3. \A p \in Path : th.text[p] \leq clock /\ th.mtime[p] \leq clock
  <2>1. clock \in Nat
    BY VersionType DEF Good, DiskGood
  <2>2. QED
    BY <1>1, <2>1, NoneBelow, Zenon
<1>4. Held(th) \subseteq RegisteredPaths(db)
  BY <1>1 DEF RegisteredPaths
<1>5. ThreadGood(th)
  BY <1>1, <1>3, <1>4 DEF ThreadGood, Current, Tied
<1>6. QED
  BY <1>2, <1>5, OnlyThread

-----------------------------------------------------------------------------
(* The threads *)

LEMMA WalkGood == ASSUME Good, NEW t \in Thread, Walk(t) PROVE Good'
<1> DEFINE found == OnDisk \cap UNION {Under[f] : f \in thread[t].walk}
           th == [IdleThread EXCEPT !.todo = found]
<1>1. th.todo = found /\ found \in SUBSET Path
  BY DEF IdleThread, OnDisk
<1>2. found \subseteq Held(thread[t])
  BY DEF Held
<1>3. thread' = [thread EXCEPT ![t] = NextChunk(th)]
      /\ UNCHANGED <<disk, clock, db, jobs, faults, hazard>>
  BY DEF Walk
<1> HIDE DEF th, found
<1>4. ThreadGood(NextChunk(th))
  BY <1>1, <1>2, ThreadIs, NextChunkGood DEF ThreadGood, Tied
<1>5. QED
  BY <1>3, <1>4, OnlyThread DEF Good, DiskGood

LEMMA CheckedGood ==
  ASSUME Good, NEW t \in Thread, NEW seen \in [Path -> Nat], Checked(t, seen), faults' \in Nat
  PROVE  Good'
<1>1. PICK S \in SUBSET thread[t].todo :
        thread' = [thread EXCEPT
            ![t].pc = "stat", ![t].todo = @ \ S, ![t].chunk = S,
            ![t].seen = [p \in Path |-> IF p \in S THEN seen[p] ELSE 0]]
  BY DEF Checked
<1> DEFINE new == [p \in Path |-> IF p \in S THEN seen[p] ELSE 0]
           th == [thread[t] EXCEPT !.pc = "stat", !.todo = @ \ S, !.chunk = S, !.seen = new]
<1>2. thread[t] \in ThreadState /\ ThreadGood(thread[t]) /\ thread \in [Thread -> ThreadState]
  BY ThreadIs DEF Good
<1>3. new \in [Path -> Nat]
  OBVIOUS
<1>4. thread' = [thread EXCEPT ![t] = th]
  BY <1>1, <1>2
<1> HIDE DEF new
<1>5. /\ th \in ThreadState /\ th.text = thread[t].text /\ th.mtime = thread[t].mtime
      /\ Extracted(th) = Extracted(thread[t]) /\ th.torn = thread[t].torn
      /\ Held(th) \subseteq Held(thread[t])
  <2>1. th \in ThreadState
    BY <1>2, <1>3 DEF ThreadState
  <2>2. /\ th.text = thread[t].text /\ th.mtime = thread[t].mtime /\ th.torn = thread[t].torn
        /\ th.ready = thread[t].ready /\ th.buf = thread[t].buf /\ th.chunk = S
        /\ th.walk = thread[t].walk /\ th.todo = thread[t].todo \ S
    BY <1>2 DEF ThreadState
  <2>3. QED
    BY <2>1, <2>2 DEF Extracted, Held
<1> HIDE DEF th
<1>6. ThreadGood(th)
  BY <1>2, <1>5 DEF ThreadGood, Current, Tied
<1>7. UNCHANGED <<disk, clock, db, jobs, hazard>>
  BY DEF Checked
<1>8. QED
  BY <1>4, <1>6, <1>7, OnlyThread DEF Good, DiskGood

LEMMA StatGood == ASSUME Good, NEW t \in Thread, Stat(t) PROVE Good'
<1> DEFINE needs == {p \in thread[t].chunk \cap OnDisk : thread[t].seen[p] # disk[p].ver}
           th == [thread[t] EXCEPT !.pc = "extract", !.chunk = needs, !.seen = None]
<1>1. thread[t] \in ThreadState /\ ThreadGood(thread[t])
  BY ThreadIs
<1>2. needs \subseteq thread[t].chunk
  OBVIOUS
<1>3. /\ UNCHANGED <<disk, clock, db, jobs, faults, hazard>>
      /\ \/ thread' = [thread EXCEPT ![t] = NextChunk(thread[t])]
         \/ thread' = [thread EXCEPT ![t] = th]
  BY DEF Stat
<1> HIDE DEF needs
<1>4. /\ th \in ThreadState /\ th.text = thread[t].text /\ th.mtime = thread[t].mtime
      /\ Extracted(th) = Extracted(thread[t]) /\ th.torn = thread[t].torn
      /\ Held(th) \subseteq Held(thread[t])
  <2>1. th \in ThreadState
    BY <1>1, <1>2, NoneType DEF ThreadState
  <2>2. /\ th.text = thread[t].text /\ th.mtime = thread[t].mtime /\ th.torn = thread[t].torn
        /\ th.ready = thread[t].ready /\ th.buf = thread[t].buf /\ th.chunk = needs
        /\ th.walk = thread[t].walk /\ th.todo = thread[t].todo
    BY <1>1 DEF ThreadState
  <2>3. QED
    BY <1>2, <2>1, <2>2 DEF Extracted, Held
<1> HIDE DEF th
<1>5. ThreadGood(th)
  BY <1>1, <1>4 DEF ThreadGood, Current, Tied
<1>6. ThreadGood(NextChunk(thread[t]))
  BY ThreadIs, NextChunkGood
<1>7. QED
  BY <1>3, <1>5, <1>6, OnlyThread DEF Good, DiskGood

LEMMA ExtractGood == ASSUME Good, NEW t \in Thread, NEW p \in Path, Extract(t, p) PROVE Good'
<1> DEFINE th == [thread[t] EXCEPT !.chunk = @ \ {p}, !.ready = @ \cup {p}, !.text[p] = TextOf(p)]
<1>1. thread[t] \in ThreadState /\ ThreadGood(thread[t]) /\ thread \in [Thread -> ThreadState]
  BY ThreadIs DEF Good
<1>2. thread' = [thread EXCEPT ![t] = th]
  BY <1>1 DEF Extract
<1>3. /\ clock \in Nat /\ TextOf(p) \in Nat /\ TextOf(p) \leq clock
      /\ TextOf(p) \in {disk[p].ver, NoText}
  <2>1. clock \in Nat /\ disk[p].ver \in Nat /\ disk[p].ver \leq clock
    BY VersionType DEF Good, DiskGood
  <2>2. CASE disk[p].good
    BY <2>1, <2>2 DEF TextOf
  <2>3. CASE ~disk[p].good
    BY <2>1, <2>3 DEF TextOf, NoText
  <2>4. QED
    BY <2>2, <2>3
<1>4. /\ th \in ThreadState /\ th.text = [thread[t].text EXCEPT ![p] = TextOf(p)]
      /\ th.mtime = thread[t].mtime
      /\ Extracted(th) = Extracted(thread[t]) \cup {p} /\ th.torn = thread[t].torn
      /\ Held(th) \subseteq Held(thread[t]) \cup {p} /\ p \in Held(thread[t])
  <2>1. /\ th \in ThreadState /\ th.text = [thread[t].text EXCEPT ![p] = TextOf(p)]
    BY <1>1, <1>3 DEF ThreadState
  <2>2. /\ th.mtime = thread[t].mtime /\ th.torn = thread[t].torn
        /\ th.ready = thread[t].ready \cup {p} /\ th.chunk = thread[t].chunk \ {p}
        /\ th.buf = thread[t].buf /\ th.walk = thread[t].walk /\ th.todo = thread[t].todo
    BY <1>1 DEF ThreadState
  <2>3. p \in thread[t].chunk
    BY DEF Extract
  <2>4. QED
    BY <2>1, <2>2, <2>3 DEF Extracted, Held
<1> HIDE DEF th
<1>5. \A q \in Path : th.text[q] = IF q = p THEN TextOf(p) ELSE thread[t].text[q]
  BY <1>1, <1>4 DEF ThreadState
<1>6. \A q \in Path : th.text[q] \leq clock /\ th.mtime[q] \leq clock
  BY <1>1, <1>3, <1>4, <1>5 DEF ThreadGood
<1>7. Current(th)
  <2>1. Extracted(th) \subseteq Path
    BY <1>4 DEF ThreadState, Extracted
  <2>2. QED
    BY <1>1, <1>3, <1>4, <1>5, <2>1 DEF ThreadGood, Current
<1>8. ThreadGood(th)
  BY <1>1, <1>4, <1>6, <1>7 DEF ThreadGood, Tied
<1>9. UNCHANGED <<disk, clock, db, jobs, faults, hazard>>
  BY DEF Extract
<1>10. QED
  BY <1>2, <1>8, <1>9, OnlyThread DEF Good, DiskGood

LEMMA CollectGood == ASSUME Good, NEW t \in Thread, NEW p \in Path, Collect(t, p) PROVE Good'
<1>1. thread[t] \in ThreadState /\ ThreadGood(thread[t]) /\ thread \in [Thread -> ThreadState]
  BY ThreadIs DEF Good
<1>2. PICK pc \in {"extract", "flush"} :
        thread' = [thread EXCEPT ![t].ready = @ \ {p}, ![t].buf = thread[t].buf \cup {p}, ![t].pc = pc]
  BY DEF Collect
<1> DEFINE th == [thread[t] EXCEPT !.ready = @ \ {p}, !.buf = thread[t].buf \cup {p}, !.pc = pc]
<1>3. thread' = [thread EXCEPT ![t] = th]
  BY <1>1, <1>2
<1>4. /\ th \in ThreadState /\ th.text = thread[t].text /\ th.mtime = thread[t].mtime
      /\ Extracted(th) = Extracted(thread[t]) /\ th.torn = thread[t].torn
      /\ Held(th) = Held(thread[t])
  <2>1. p \in thread[t].ready
    BY DEF Collect
  <2>2. /\ th \in ThreadState /\ th.text = thread[t].text /\ th.mtime = thread[t].mtime
        /\ th.torn = thread[t].torn /\ th.ready = thread[t].ready \ {p}
        /\ th.buf = thread[t].buf \cup {p} /\ th.walk = thread[t].walk
        /\ th.todo = thread[t].todo /\ th.chunk = thread[t].chunk
    BY <1>1 DEF ThreadState
  <2> HIDE DEF th
  <2>3. Extracted(th) = Extracted(thread[t])
    BY <2>1, <2>2 DEF Extracted
  <2>4. QED
    BY <2>2, <2>3 DEF Held
<1> HIDE DEF th
<1>5. ThreadGood(th)
  BY <1>1, <1>4 DEF ThreadGood, Current, Tied
<1>6. UNCHANGED <<disk, clock, db, jobs, faults, hazard>>
  BY DEF Collect
<1>7. QED
  BY <1>3, <1>5, <1>6, OnlyThread DEF Good, DiskGood

LEMMA FlushReadGood == ASSUME Good, NEW t \in Thread, FlushRead(t) PROVE Good'
<1> DEFINE here == thread[t].buf \cap OnDisk
           stored == here \cap Known(db)
           mtime == [p \in Path |-> IF p \in here THEN disk[p].ver ELSE 0]
           found == [p \in Path |-> IF p \in stored THEN db.born[p] ELSE 0]
           time == [p \in Path |-> IF p \in stored THEN db.files[p].mtime ELSE 0]
           th == [thread[t] EXCEPT !.pc = "write", !.mtime = mtime, !.found = found, !.time = time]
<1>1. thread[t] \in ThreadState /\ ThreadGood(thread[t]) /\ thread \in [Thread -> ThreadState]
  BY ThreadIs DEF Good
<1>2. /\ clock \in Nat /\ disk \in [Path -> [ver : Nat, good : BOOLEAN]]
      /\ \A p \in Path : disk[p].ver \leq clock
  BY VersionType DEF Good, DiskGood
<1>3. mtime \in [Path -> Nat] /\ \A p \in Path : mtime[p] \leq clock
  BY <1>2
<1>4. found \in [Path -> Nat]
  BY DEF Good, TablesGood, Tables
<1>5. time \in [Path -> Nat]
  <2>1. \A p \in Known(db) : db.files[p].mtime \in Nat
    BY RowType DEF Good, TablesGood, Tables, Known
  <2>2. QED
    BY <2>1
<1>6. thread' = [thread EXCEPT ![t].pc = "write", ![t].mtime = mtime, ![t].found = found,
                               ![t].time = time]
  BY DEF FlushRead
<1> HIDE DEF mtime, found, time
<1>7. thread' = [thread EXCEPT ![t] = th]
  BY <1>1, <1>6
<1>8. /\ th \in ThreadState /\ th.text = thread[t].text /\ th.mtime = mtime
      /\ Extracted(th) = Extracted(thread[t]) /\ th.torn = thread[t].torn
      /\ Held(th) = Held(thread[t])
  BY <1>1, <1>3, <1>4, <1>5 DEF ThreadState, Extracted, Held
<1> HIDE DEF th
<1>9. ThreadGood(th)
  BY <1>1, <1>3, <1>8 DEF ThreadGood, Current, Tied
<1>10. UNCHANGED <<disk, clock, db, jobs, faults, hazard>>
  BY DEF FlushRead
<1>11. QED
  BY <1>7, <1>9, <1>10, OnlyThread DEF Good, DiskGood

LEMMA ChunkFailsGood == ASSUME Good, NEW t \in Thread, ChunkFails(t) PROVE Good'
<1>1. ThreadGood(NextChunk(thread[t]))
  BY ThreadIs, NextChunkGood
<1>2. faults' \in Nat
  BY DEF ChunkFails, Fault, Good, DiskGood
<1>3. thread' = [thread EXCEPT ![t] = NextChunk(thread[t])]
      /\ UNCHANGED <<disk, clock, db, jobs, hazard>>
  BY DEF ChunkFails
<1>4. QED
  BY <1>1, <1>2, <1>3, OnlyThread DEF Good, DiskGood

LEMMA FinishGood == ASSUME Good, NEW t \in Thread, Finish(t) PROVE Good'
<1>1. ThreadGood(IdleThread)
  BY IdleGood
<1>2. QED
  BY <1>1, OnlyThread DEF Finish, Good, DiskGood

LEMMA FlushedGood == ASSUME Good, NEW t \in Thread PROVE ThreadGood(Flushed(thread[t]))
<1> DEFINE old == thread[t]
           text == [p \in Path |-> IF p \in old.buf THEN 0 ELSE old.text[p]]
           th == [old EXCEPT !.pc = "extract", !.buf = {}, !.mtime = None, !.found = None,
                             !.time = None, !.text = text, !.torn = @ \ old.buf]
<1>1. old \in ThreadState /\ ThreadGood(old)
  BY ThreadIs
<1>2. Flushed(old) \in {NextChunk(old), th}
  BY DEF Flushed
<1>3. text \in [Path -> Nat] /\ (\A p \in Path : text[p] \in {0, old.text[p]})
      /\ \A p \in Path \ old.buf : text[p] = old.text[p]
  BY <1>1 DEF ThreadState
<1> HIDE DEF text, old
<1>4. /\ th \in ThreadState /\ th.text = text /\ th.mtime = None
      /\ th.ready = old.ready /\ th.buf = {} /\ th.torn = old.torn \ old.buf
      /\ th.walk = old.walk /\ th.todo = old.todo /\ th.chunk = old.chunk
  BY <1>1, <1>3, NoneType DEF ThreadState
<1> HIDE DEF th
<1>5. \A p \in Path : th.text[p] \leq clock /\ th.mtime[p] \leq clock
  <2>1. clock \in Nat
    BY VersionType DEF Good, DiskGood
  <2>2. \A p \in Path : th.mtime[p] \leq clock
    BY <1>4, <2>1, NoneBelow, Zenon
  <2>3. ASSUME NEW p \in Path PROVE th.text[p] \leq clock
    <3>1. th.text[p] = 0 \/ th.text[p] = old.text[p]
      BY <1>3, <1>4
    <3>2. old.text[p] \leq clock
      BY <1>1 DEF ThreadGood
    <3>3. QED
      BY <2>1, <3>1, <3>2
  <2>4. QED
    BY <2>2, <2>3
<1>6. Current(th)
  <2> SUFFICES ASSUME NEW p \in Extracted(th) \ th.torn, disk[p].ver # 0
               PROVE  th.text[p] \in {disk[p].ver, NoText}
    BY DEF Current
  <2>1. p \in old.ready /\ p \in Path
    BY <1>1, <1>4 DEF Extracted, ThreadState
  <2>2. CASE p \in old.buf
    BY <1>3, <1>4, <2>1, <2>2 DEF text, NoText
  <2>3. CASE p \notin old.buf
    BY <1>1, <1>3, <1>4, <2>1, <2>3 DEF ThreadGood, Current, Extracted
  <2>4. QED
    BY <2>2, <2>3
<1>7. Tied(th)
  BY <1>1, <1>4 DEF ThreadGood, Tied, Held, Extracted
<1>8. ThreadGood(th)
  BY <1>4, <1>5, <1>6, <1>7 DEF ThreadGood
<1>9. ThreadGood(NextChunk(old))
  BY ThreadIs, NextChunkGood DEF old
<1>10. QED
  BY <1>2, <1>8, <1>9 DEF old

\* The batch of a thread, and what storing it does to the tables.
LEMMA StoredIs ==
  ASSUME Good, NEW t \in Thread, Storable(thread[t])
  PROVE  /\ WroteFiles(db, Batch(thread[t]), thread[t].mtime, FilesStored(thread[t]))
         /\ WroteContents(FilesStored(thread[t]), Texts(thread[t]), thread[t].text, Stored(thread[t]))
<1> DEFINE th == thread[t]
           f == FilesStored(th)
<1>1. th \in ThreadState /\ db \in Tables /\ Agree(db)
  BY ThreadIs DEF Good, TablesGood
<1>2. Batch(th) \in SUBSET Path /\ Texts(th) \subseteq Path /\ th.mtime \in [Path -> Nat]
      /\ th.text \in [Path -> Nat]
  BY <1>1 DEF Batch, Texts, ThreadState
<1>3. WroteFiles(db, Batch(th), th.mtime, f)
  <2>1. f = BulkUpsertFiles(db, Batch(th), th.found, th.time, th.mtime)
    BY DEF FilesStored
  <2> HIDE DEF f, th
  <2>2. QED
    BY <1>1, <1>2, <2>1, BulkFilesIs
<1>4. f \in Tables /\ Agree(f)
  BY <1>3 DEF WroteFiles
<1>5. WroteContents(f, Texts(th), th.text, Stored(th))
  <2>1. Stored(th) = BulkUpsertContents(f, Texts(th), IdsOf(th), th.text)
        /\ References(f, Texts(th), IdsOf(th))
    BY DEF Stored, Storable
  <2>2. \A p \in Texts(th) : th.text[p] \in Nat
    BY <1>2
  <2> HIDE DEF f, th
  <2>3. QED
    BY <1>4, <2>1, <2>2, BulkContentsIs
<1>6. QED
  BY <1>3, <1>5

LEMMA FlushWriteGood == ASSUME Good, NEW t \in Thread, FlushWrite(t) PROVE Good'
<1> DEFINE th == thread[t]
           f == FilesStored(th)
           S == Batch(th)
           X == Texts(th)
<1>1. th \in ThreadState /\ ThreadGood(th)
  BY ThreadIs
<1>2. /\ Storable(th) /\ db' = Stored(th)
      /\ hazard' = [hazard EXCEPT !.stale = (@ \ X) \cup Mismatched(th)]
      /\ thread' = [thread EXCEPT ![t] = Flushed(th)]
      /\ UNCHANGED <<disk, clock, jobs, faults>>
  BY DEF FlushWrite
<1>3. WroteFiles(db, S, th.mtime, f) /\ WroteContents(f, X, th.text, db')
  BY <1>2, StoredIs
<1>4. X \subseteq S /\ S \subseteq th.buf /\ S \subseteq Path /\ \A p \in S : th.mtime[p] # 0
  BY <1>1 DEF Batch, Texts, ThreadState
<1>5. Mismatched(th) = (X \cap th.torn) \cup {p \in S \ X : HasContent(p)}
  BY DEF Mismatched
<1>6. \A p \in X : th.text[p] # NoText
  BY DEF Texts
<1> HIDE DEF f, S, X
<1>7. /\ hazard \in [stale : SUBSET Path, revived : SUBSET Path]
      /\ hazard' \in [stale : SUBSET Path, revived : SUBSET Path]
      /\ hazard'.revived = hazard.revived
      /\ hazard'.stale = (hazard.stale \ X) \cup Mismatched(th)
  BY <1>2, <1>4, <1>5 DEF Good, DiskGood
<1>8. /\ db' \in Tables /\ Agree(db') /\ db'.folders = db.folders
      /\ Known(db') = Known(f) /\ Known(db) \subseteq Known(f) /\ Known(f) \subseteq Known(db) \cup S
      /\ f.contents = db.contents
      /\ \A p \in Path : FileId(db', p) = FileId(f, p)
  BY <1>3 DEF WroteFiles, WroteContents, FileId
<1>9. \A p \in Known(db) :
        /\ db'.files[p].mtime \in {db.files[p].mtime, th.mtime[p]}
        /\ p \notin S => db'.files[p].mtime = db.files[p].mtime
        /\ db'.files[p].has <=> (p \in X \/ db.files[p].has)
        /\ FileId(db', p) = FileId(db, p)
  BY <1>3 DEF WroteFiles, WroteContents, FileId
<1>10. \A p \in Known(db') \ Known(db) :
         p \in S /\ db'.files[p].mtime = th.mtime[p] /\ (db'.files[p].has <=> p \in X)
  BY <1>3 DEF WroteFiles, WroteContents
<1>11. ASSUME NEW p \in Known(db'), NEW c \in db'.contents, c.file = FileId(db', p)
       PROVE  IF p \in X THEN c.text = th.text[p] ELSE c \in db.contents
  BY <1>3, <1>8, <1>11 DEF WroteContents, Known
<1>12. Dated(db)'
  <2>1. ASSUME NEW p \in Known(db')
        PROVE  db'.files[p].mtime # 0 /\ db'.files[p].mtime \leq clock
    <3>1. p \in Path
      BY DEF Known
    <3>2. th.mtime[p] \leq clock /\ (p \in S => th.mtime[p] # 0)
      BY <1>1, <1>4, <3>1 DEF ThreadGood
    <3>3. p \in Known(db) => db.files[p].mtime # 0 /\ db.files[p].mtime \leq clock
      BY DEF Good, TablesGood, Dated
    <3>4. QED
      BY <1>9, <1>10, <3>2, <3>3
  <2>2. ASSUME NEW c \in db'.contents PROVE c.text \leq clock
    <3>1. PICK p \in Known(db') : c.file = FileId(db', p)
      BY <1>8 DEF Agree, Placed
    <3>2. p \in Path
      BY DEF Known
    <3>3. QED
      BY <1>1, <1>11, <3>1, <3>2 DEF ThreadGood, Good, TablesGood, Dated
  <2>3. QED
    BY <1>2, <2>1, <2>2 DEF Dated
<1>13. RemovedStaysRemoved'
  <2>1. S \subseteq RegisteredPaths(db) \cup hazard.revived
    BY <1>1, <1>4 DEF ThreadGood, Tied, Held, Extracted
  <2>2. RegisteredPaths(db') = RegisteredPaths(db)
    BY <1>8 DEF RegisteredPaths, Registered
  <2>3. QED
    BY <1>7, <1>8, <2>1, <2>2 DEF Good, TablesGood, RemovedStaysRemoved
<1>14. SkippedIsCurrent'
  <2> SUFFICES ASSUME NEW p \in Path \ hazard'.stale, p \in Known(db'), db'.files[p].has,
                      db'.files[p].mtime = disk[p].ver,
                      NEW c \in db'.contents, c.file = FileId(db', p)
               PROVE  c.text = disk[p].ver
    BY <1>2 DEF SkippedIsCurrent, HasContent
  <2>1. CASE p \in X
    <3>1. p \notin th.torn /\ p \in Extracted(th)
      BY <1>4, <1>5, <1>7, <2>1 DEF Extracted
    <3>2. disk[p].ver # 0
      BY <1>12, <1>2 DEF Dated
    <3>3. th.text[p] = disk[p].ver
      BY <1>1, <1>6, <2>1, <3>1, <3>2 DEF ThreadGood, Current
    <3>4. QED
      BY <1>11, <2>1, <3>3
  <2>2. CASE p \in S \ X
    <3>1. ~HasContent(p)
      BY <1>5, <1>7, <2>2
    <3>2. QED
      BY <1>9, <1>10, <2>2, <3>1 DEF HasContent
  <2>3. CASE p \notin S
    <3>1. p \in Known(db) /\ p \notin X /\ p \notin hazard.stale
      BY <1>4, <1>7, <1>8, <2>3
    <3>2. HasContent(p) /\ db.files[p].mtime = disk[p].ver
      BY <1>9, <2>3, <3>1 DEF HasContent
    <3>3. c \in db.contents /\ c.file = FileId(db, p)
      BY <1>9, <1>11, <3>1
    <3>4. QED
      BY <3>1, <3>2, <3>3 DEF Good, TablesGood, SkippedIsCurrent
  <2>4. QED
    BY <1>4, <2>1, <2>2, <2>3
<1>15. TablesGood'
  BY <1>8, <1>12, <1>13, <1>14 DEF TablesGood
<1>16. ThreadGood(Flushed(th))
  BY FlushedGood
<1> HIDE DEF th
<1>17. QED
  BY <1>2, <1>7, <1>8, <1>15, <1>16, ThreadMoves DEF Good, DiskGood

LEMMA StutterGood == ASSUME Good, UNCHANGED vars PROVE Good'
BY DEF vars, Good, DiskGood, TablesGood, Dated, RemovedStaysRemoved, RegisteredPaths,
       SkippedIsCurrent, HasContent, ThreadGood, Current, Tied

LEMMA StoredTimeType == ASSUME Good PROVE StoredTime \in [Path -> Nat]
<1>1. \A p \in Known(db) : db.files[p].mtime \in Nat
  BY RowType DEF Good, TablesGood, Tables, Known
<1>2. QED
  BY <1>1 DEF StoredTime

LEMMA NextGood == ASSUME Good, [Next]_vars PROVE Good'
<1>1. CASE FileStep
  BY <1>1, FileGood
<1>2. CASE WindowStep
  <2>1. CASE \E f \in Folder : AddFolder(f) \/ RemoveFolder(f, {})
    BY <2>1, AddFolderGood, RemoveFolderGood
  <2>2. CASE /\ UNCHANGED <<disk, clock, db, faults, hazard>>
             /\ \E t \in Thread :
                  \/ \E S \in (SUBSET RegisteredPaths(db)) \ {{}} : StartPaths(t, S)
                  \/ \E F \in (SUBSET Registered(db)) \ {{}} : StartFolders(t, F)
    <3>1. PICK t \in Thread :
             \/ \E S \in SUBSET RegisteredPaths(db) : StartPaths(t, S)
             \/ \E F \in SUBSET Registered(db) : StartFolders(t, F)
      BY <2>2
    <3>2. QED
      BY <2>2, <3>1, StartPathsGood, StartFoldersGood
  <2>3. QED
    BY <1>2, <2>1, <2>2 DEF WindowStep
<1>3. ASSUME NEW t \in Thread, ThreadStep(t) \/ Finish(t) PROVE Good'
  <2>1. CASE Walk(t)
    BY <2>1, WalkGood
  <2>2. CASE Check(t)
    BY <2>2, CheckedGood, StoredTimeType DEF Check, Good, DiskGood
  <2>3. CASE CheckFails(t)
    <3>1. faults' \in Nat
      BY <2>3 DEF CheckFails, Fault, Good, DiskGood
    <3>2. QED
      BY <2>3, <3>1, CheckedGood, NoneType DEF CheckFails
  <2>4. CASE Stat(t)
    BY <2>4, StatGood
  <2>5. CASE \E p \in Path : Extract(t, p) \/ Collect(t, p)
    BY <2>5, ExtractGood, CollectGood
  <2>6. CASE FlushRead(t)
    BY <2>6, FlushReadGood
  <2>7. CASE FlushWrite(t)
    BY <2>7, FlushWriteGood
  <2>8. CASE ChunkFails(t)
    BY <2>8, ChunkFailsGood
  <2>9. CASE Finish(t)
    BY <2>9, FinishGood
  <2>10. QED
    BY <1>3, <2>1, <2>2, <2>3, <2>4, <2>5, <2>6, <2>7, <2>8, <2>9 DEF ThreadStep
<1>4. CASE UNCHANGED vars
  BY <1>4, StutterGood
<1>5. QED
  BY <1>1, <1>2, <1>3, <1>4 DEF Next

LEMMA AlwaysGood == Spec => []Good
<1>1. Init => Good
  BY InitGood
<1>2. Good /\ [Next]_vars => Good'
  BY NextGood
<1>3. QED
  BY <1>1, <1>2, PTL DEF Spec

-----------------------------------------------------------------------------
(* What a search finds *)

\* The texts of the row that p has.
TextsOf(tab, p) ==
  {c.text : c \in {c \in tab.contents : p \in Known(tab) /\ c.file = FileId(tab, p)}}

LEMMA SearchableIs ==
  ASSUME NEW tab, MirrorsExact(tab)
  PROVE  Searchable(tab) = [p \in Path |-> TextsOf(tab, p)]
<1>1. \A c \in tab.contents : Posting(c) \in tab.ftsContents
  BY DEF MirrorsExact
<1>2. ASSUME NEW p \in Path
      PROVE  {c \in tab.contents : /\ Posting(c) \in tab.ftsContents
                                   /\ p \in Known(tab) /\ c.file = FileId(tab, p)}
               = {c \in tab.contents : p \in Known(tab) /\ c.file = FileId(tab, p)}
  BY <1>1
<1>3. QED
  BY <1>2 DEF Searchable, TextsOf

LEMMA SearchableType ==
  ASSUME NEW tab \in Tables, MirrorsExact(tab), NEW n \in Version,
         \A c \in tab.contents : c.text \leq n
  PROVE  Searchable(tab) \in [Path -> SUBSET Version]
<1>1. Searchable(tab) = [p \in Path |-> TextsOf(tab, p)]
  BY SearchableIs
<1>2. \A c \in tab.contents : c.text \in Nat
  BY DEF Tables, Content
<1>3. \A c \in tab.contents : c.text \in Version
  BY <1>2, BoundsNatural DEF Version
<1>4. \A p \in Path : TextsOf(tab, p) \subseteq Version
  BY <1>3 DEF TextsOf
<1>5. QED
  BY <1>1, <1>4

\* Storing a batch.
LEMMA FlushWritePuts == ASSUME Good, Good', NEW t \in Thread, FlushWrite(t) PROVE Store!Put
<1> DEFINE th == thread[t]
           f == FilesStored(th)
           S == Batch(th)
           X == Texts(th)
<1>1. Storable(th) /\ db' = Stored(th)
  BY DEF FlushWrite
<1>2. WroteFiles(db, S, th.mtime, f) /\ WroteContents(f, X, th.text, db')
  BY <1>1, StoredIs
<1>3. References(f, X, IdsOf(th))
  BY <1>1 DEF Storable
<1>4. X \subseteq Known(f)
  BY <1>3 DEF References
<1> HIDE DEF th, f, S, X
<1>5. /\ Known(db') = Known(f) /\ Known(db) \subseteq Known(f) /\ f.contents = db.contents
      /\ Flagged(f) /\ Flagged(db') /\ Placed(db)
      /\ \A p \in Path : FileId(db', p) = FileId(f, p)
      /\ \A p \in Known(db) : FileId(db', p) = FileId(db, p)
  BY <1>2 DEF WroteFiles, WroteContents, FileId, Agree, Good, TablesGood
<1>6. ASSUME NEW p \in X PROVE TextsOf(db', p) = {th.text[p]}
  <2>1. p \in Known(db') /\ db'.files[p].has
    BY <1>2, <1>4, <1>5 DEF WroteContents
  <2>2. PICK c \in db'.contents : c.file = FileId(db', p)
    BY <1>5, <2>1 DEF Flagged
  <2>3. \A e \in db'.contents : e.file = FileId(db', p) => e.text = th.text[p]
    BY <1>2, <1>5, <2>1 DEF WroteContents, Known
  <2>4. QED
    BY <2>1, <2>2, <2>3 DEF TextsOf
<1>7. ASSUME NEW p \in Path \ X PROVE TextsOf(db', p) = TextsOf(db, p)
  <2>1. CASE p \in Known(db)
    <3>1. p \in Known(f) \ X /\ p \in Known(db') /\ FileId(db', p) = FileId(db, p)
          /\ FileId(f, p) = FileId(db, p)
      BY <1>5, <2>1
    <3>2. \A c : c \in db'.contents /\ c.file = FileId(db, p)
                   <=> c \in db.contents /\ c.file = FileId(db, p)
      BY <1>2, <1>5, <3>1 DEF WroteContents
    <3>3. QED
      BY <2>1, <3>1, <3>2 DEF TextsOf
  <2>2. CASE p \in Known(db') \ Known(db)
    <3>1. ~db'.files[p].has
      BY <1>2, <1>5, <2>2 DEF WroteFiles, WroteContents
    <3>2. \A c \in db'.contents : c.file # FileId(db', p)
      BY <1>5, <2>2, <3>1 DEF Flagged
    <3>3. QED
      BY <2>2, <3>2 DEF TextsOf
  <2>3. CASE p \notin Known(db')
    BY <1>5, <2>3 DEF TextsOf
  <2>4. QED
    BY <2>1, <2>2, <2>3
<1>8. /\ Searchable(db) = [p \in Path |-> TextsOf(db, p)]
      /\ Searchable(db') = [p \in Path |-> TextsOf(db', p)]
      /\ Searchable(db') \in [Path -> SUBSET Version]
  <2>1. /\ MirrorsExact(db) /\ MirrorsExact(db') /\ db' \in Tables
        /\ clock' \in Version /\ \A c \in db'.contents : c.text \leq clock'
    BY DEF Good, DiskGood, TablesGood, Agree, Dated
  <2>2. QED
    BY <2>1, SearchableIs, SearchableType
<1>9. ASSUME NEW p \in Path, Searchable(db')[p] # Searchable(db)[p]
      PROVE  \E x \in Version : Searchable(db')[p] = {x}
  <2>1. p \in X /\ Searchable(db')[p] = {th.text[p]}
    BY <1>6, <1>7, <1>8, <1>9
  <2>2. th.text[p] \in Version
    BY <1>8, <2>1
  <2>3. QED
    BY <2>1, <2>2
<1>10. QED
  BY <1>8, <1>9 DEF Store!Put

\* Forgetting the files below some folders.
LEMMA ForgotRemoves ==
  ASSUME Good, NEW F, Forgot(db, UNION {Under[g] : g \in F}, db')
  PROVE  Store!Remove(F)
<1> DEFINE X == UNION {Under[g] : g \in F}
<1>1. \A p \in Path : p \in X <=> \E g \in F : p \in Under[g]
  OBVIOUS
<1> HIDE DEF X
<1>2. Known(db') = Known(db) \ X
      /\ (\A p \in Known(db') : FileId(db', p) = FileId(db, p))
      /\ db'.contents \subseteq db.contents
      /\ (\A p \in Known(db'), c \in db.contents : c.file = FileId(db, p) => c \in db'.contents)
  BY DEF Forgot, X
<1>3. ASSUME NEW p \in Path
      PROVE  TextsOf(db', p) = IF p \in X THEN {} ELSE TextsOf(db, p)
  <2>1. CASE p \in X
    BY <1>2, <2>1 DEF TextsOf
  <2>2. CASE p \notin X /\ p \in Known(db)
    <3>1. \A c : c \in db'.contents /\ c.file = FileId(db, p)
                   <=> c \in db.contents /\ c.file = FileId(db, p)
      BY <1>2, <2>2
    <3>2. QED
      BY <1>2, <2>2, <3>1 DEF TextsOf
  <2>3. CASE p \notin X /\ p \notin Known(db)
    BY <1>2, <2>3 DEF TextsOf
  <2>4. QED
    BY <2>1, <2>2, <2>3
<1>4. /\ Searchable(db) = [p \in Path |-> TextsOf(db, p)]
      /\ Searchable(db') = [p \in Path |-> TextsOf(db', p)]
  BY SearchableIs DEF Forgot, Good, TablesGood, Agree
<1>5. \A p \in Path : TextsOf(db', p) = IF \E g \in F : p \in Under[g] THEN {} ELSE Searchable(db)[p]
  BY <1>1, <1>3, <1>4
<1>6. QED
  BY <1>4, <1>5 DEF Store!Remove

LEMMA InitStore == Init => Store!Init
<1> SUFFICES ASSUME Init PROVE Store!Init
  OBVIOUS
<1>1. db.contents = {}
  BY DEF Init, EmptyTables
<1>2. QED
  BY <1>1 DEF Searchable, Store!Init

LEMMA NextStore == ASSUME Good, Good', [Next]_vars PROVE [Store!Next]_(Searchable(db))
<1>1. CASE UNCHANGED db
  BY <1>1 DEF Searchable
<1>2. ASSUME NEW f \in Folder, AddFolder(f) PROVE Store!Next
  <2>1. Store!Remove(Registered(db) \cap Within[f])
    BY <1>2, AddFolderIs, ForgotRemoves DEF Inside
  <2>2. QED
    BY <2>1 DEF Store!Next, Registered
<1>3. ASSUME NEW f \in Folder, RemoveFolder(f, {}) PROVE Store!Next
  <2>1. UNION {Under[g] : g \in {f}} = Under[f]
    OBVIOUS
  <2>2. Store!Remove({f})
    BY <1>3, <2>1, RemoveFolderIs, ForgotRemoves
  <2>3. QED
    BY <2>2 DEF Store!Next
<1>4. ASSUME NEW t \in Thread, FlushWrite(t) PROVE Store!Next
  BY <1>4, FlushWritePuts DEF Store!Next
<1>5. \/ UNCHANGED db
      \/ \E f \in Folder : AddFolder(f) \/ RemoveFolder(f, {})
      \/ \E t \in Thread : FlushWrite(t)
  <2>1. CASE FileStep
    BY <2>1 DEF FileStep, DeleteFile, WriteFile
  <2>2. CASE WindowStep
    BY <2>2 DEF WindowStep
  <2>3. ASSUME NEW t \in Thread, ThreadStep(t) \/ Finish(t), ~FlushWrite(t) PROVE UNCHANGED db
    BY <2>3 DEF ThreadStep, Walk, Check, CheckFails, Checked, Stat, Extract, Collect, FlushRead,
                ChunkFails, Finish
  <2>4. CASE UNCHANGED vars
    BY <2>4 DEF vars
  <2>5. QED
    BY <2>1, <2>2, <2>3, <2>4 DEF Next
<1>6. QED
  BY <1>1, <1>2, <1>3, <1>4, <1>5

-----------------------------------------------------------------------------
(* The functions for a single file *)

LEMMA NoneInserted ==
  ASSUME NEW tab \in Tables, NEW mtime
  PROVE  InsertFiles(tab, {}, mtime) = tab
<1>1. /\ tab.files = [p \in Path |-> tab.files[p]] /\ tab.born = [p \in Path |-> tab.born[p]]
  BY DEF Tables
<1>2. InsertFiles(tab, {}, mtime) =
        [tab EXCEPT !.files = [p \in Path |-> tab.files[p]],
                    !.born = [p \in Path |-> tab.born[p]], !.ftsFiles = tab.ftsFiles]
  BY DEF InsertFiles
<1>3. [tab EXCEPT !.files = tab.files, !.born = tab.born, !.ftsFiles = tab.ftsFiles] = tab
  BY DEF Tables
<1>4. QED
  BY <1>1, <1>2, <1>3, Zenon

LEMMA NoneUpdated ==
  ASSUME NEW tab \in Tables, NEW mtime
  PROVE  UpdateFiles(tab, {}, mtime) = tab
<1>1. tab.files = [p \in Path |-> tab.files[p]]
  BY DEF Tables
<1>2. UpdateFiles(tab, {}, mtime) =
        [tab EXCEPT !.files = [p \in Path |-> tab.files[p]], !.ftsFiles = tab.ftsFiles]
  BY DEF UpdateFiles, FileIds
<1>3. [tab EXCEPT !.files = tab.files, !.ftsFiles = tab.ftsFiles] = tab
  BY DEF Tables
<1>4. QED
  BY <1>1, <1>2, <1>3, Zenon

\* What bulk_upsert_files reads before it writes.
FoundIds(tab) == [x \in Path |-> IF x \in Known(tab) THEN tab.born[x] ELSE 0]
FoundTimes(tab) == [x \in Path |-> IF x \in Known(tab) THEN tab.files[x].mtime ELSE 0]

\* upsert_file and bulk_upsert_files for one file.
LEMMA UpsertFileIs ==
  ASSUME NEW tab \in Tables, Numbered(tab), NEW p \in Path, NEW m \in Nat
  PROVE  UpsertFile(tab, p, m)
           = BulkUpsertFiles(tab, {p}, FoundIds(tab), FoundTimes(tab), [x \in Path |-> m])
<1> DEFINE value == [x \in Path |-> m]
           new == {q \in {p} : FoundIds(tab)[q] = 0}
           changed == {q \in {p} : FoundIds(tab)[q] # 0 /\ FoundTimes(tab)[q] # value[q]}
<1>1. BulkUpsertFiles(tab, {p}, FoundIds(tab), FoundTimes(tab), value)
        = UpdateFiles(InsertFiles(tab, new, value), changed, value)
  BY DEF BulkUpsertFiles
<1>2. CASE p \notin Known(tab)
  <2>1. new = {p} /\ changed = {}
    BY <1>2 DEF FoundIds
  <2>2. InsertFiles(tab, {p}, [x \in {p} |-> m]) = InsertFiles(tab, {p}, value)
    BY DEF InsertFiles
  <2>3. InsertFiles(tab, {p}, value) \in Tables
    <3>1. PICK r : r = InsertFiles(tab, {p}, value)
      OBVIOUS
    <3>2. value \in [Path -> Nat] /\ {p} \subseteq Path
      OBVIOUS
    <3> HIDE DEF value
    <3>3. InsertedFiles(tab, {p}, value, r)
      BY <3>1, <3>2, InsertFilesIs
    <3>4. QED
      BY <3>1, <3>3 DEF InsertedFiles
  <2>4. UpdateFiles(InsertFiles(tab, {p}, value), {}, value) = InsertFiles(tab, {p}, value)
    BY <2>3, NoneUpdated
  <2>5. UpsertFile(tab, p, m) = InsertFiles(tab, {p}, [x \in {p} |-> m])
    BY <1>2 DEF UpsertFile
  <2>6. QED
    BY <1>1, <2>1, <2>2, <2>4, <2>5
<1>3. CASE p \in Known(tab)
  <2>1. FoundIds(tab)[p] # 0 /\ FoundTimes(tab)[p] = tab.files[p].mtime /\ value[p] = m
    BY <1>3 DEF FoundIds, FoundTimes, Numbered
  <2>2. new = {} /\ InsertFiles(tab, {}, value) = tab
    BY <2>1, NoneInserted
  <2>3. CASE tab.files[p].mtime = m
    <3>1. changed = {} /\ UpdateFiles(tab, {}, value) = tab
      BY <2>1, <2>3, NoneUpdated
    <3>2. UpsertFile(tab, p, m) = tab
      BY <1>3, <2>3 DEF UpsertFile
    <3>3. QED
      BY <1>1, <2>2, <3>1, <3>2
  <2>4. CASE tab.files[p].mtime # m
    <3>1. changed = {p}
      BY <2>1, <2>4
    <3>2. UpdateFiles(tab, {p}, [x \in {p} |-> m]) = UpdateFiles(tab, {p}, value)
      BY DEF UpdateFiles
    <3>3. UpsertFile(tab, p, m) = UpdateFiles(tab, {p}, [x \in {p} |-> m])
      BY <1>3, <2>4 DEF UpsertFile
    <3>4. QED
      BY <1>1, <2>2, <3>1, <3>2, <3>3
  <2>5. QED
    BY <2>3, <2>4
<1>4. QED
  BY <1>2, <1>3

\* upsert_content, which deletes a row by its own id, and bulk_upsert_contents,
\* which deletes all rows of the file.
LEMMA UpsertContentIs ==
  ASSUME NEW tab \in Tables, Single(tab), NEW p \in Path, NEW m \in Nat,
         NEW id, id[p] = FileId(tab, p)
  PROVE  UpsertContent(tab, p, m) = BulkUpsertContents(tab, {p}, id, [x \in Path |-> m])
<1> DEFINE value == [x \in Path |-> m]
           fid == FileId(tab, p)
           rows == {c \in tab.contents : c.file = fid}
           old == IF rows = {} THEN {} ELSE {CHOOSE c \in rows : TRUE}
           less == [tab EXCEPT !.contents = @ \ old, !.ftsContents = @ \ {Posting(c) : c \in old}]
<1>1. rows = old
  BY DEF Single
<1>2. {c \in tab.contents : c.file \in {fid}} = rows
  OBVIOUS
<1>3. DeleteContents(tab, {fid}) = less
  BY <1>1, <1>2 DEF DeleteContents
<1>4. {id[q] : q \in {p}} = {fid}
  OBVIOUS
<1>5. BulkUpsertContents(tab, {p}, id, value)
        = SetHasContent(InsertContents(DeleteContents(tab, {fid}), {p}, id, value), {fid})
  BY <1>4 DEF BulkUpsertContents
<1>6. UpsertContent(tab, p, m)
        = SetHasContent(InsertContents(less, {p}, [x \in {p} |-> fid], [x \in {p} |-> m]), {fid})
  BY DEF UpsertContent
<1> HIDE DEF less, rows, old
<1>7. InsertContents(less, {p}, [x \in {p} |-> fid], [x \in {p} |-> m])
        = InsertContents(less, {p}, id, value)
  <2>1. {[id |-> <<q, less.written[q] + 1>>, file |-> [x \in {p} |-> fid][q],
          text |-> [x \in {p} |-> m][q]] : q \in {p}}
          = {[id |-> <<q, less.written[q] + 1>>, file |-> id[q], text |-> value[q]] : q \in {p}}
    OBVIOUS
  <2>2. QED
    BY <2>1 DEF InsertContents
<1>8. QED
  BY <1>3, <1>5, <1>6, <1>7

LEMMA SinglesMatch == ASSUME Good PROVE SinglesAgree
<1> SUFFICES ASSUME NEW p \in Path, NEW m \in Version \ {0}
             PROVE  LET one == UpsertFile(db, p, m)
                        value == [x \in Path |-> m]
                        id == PathToId(one, FoundIds(db))
                    IN  /\ one = BulkUpsertFiles(db, {p}, FoundIds(db), FoundTimes(db), value)
                        /\ UpsertContent(one, p, m) = BulkUpsertContents(one, {p}, id, value)
                        /\ NeedsContentUpdate(db, p, m) <=> StoredTime[p] # m
                        /\ FileContentByPath(db, p) = Searchable(db)[p]
  BY DEF SinglesAgree, FoundIds, FoundTimes
<1>1. m \in Nat /\ m # 0
  BY VersionType
<1>2. db \in Tables /\ Agree(db)
  BY DEF Good, TablesGood
<1>3. PICK one : one = UpsertFile(db, p, m)
  OBVIOUS
<1>4. one = BulkUpsertFiles(db, {p}, FoundIds(db), FoundTimes(db), [x \in Path |-> m])
  BY <1>1, <1>2, <1>3, UpsertFileIs DEF Agree
<1>5. WroteFiles(db, {p}, [x \in Path |-> m], one)
  <2>1. [x \in Path |-> m] \in [Path -> Nat] /\ {p} \in SUBSET Path
    BY <1>1
  <2>2. QED
    BY <1>2, <1>4, <2>1, BulkFilesIs
<1>6. one \in Tables /\ Single(one) /\ (p \in Known(db) => one.born[p] = db.born[p])
  BY <1>5 DEF WroteFiles, Agree
<1>7. PathToId(one, FoundIds(db))[p] = FileId(one, p)
  BY <1>6 DEF PathToId, FoundIds, FileId
<1>8. UpsertContent(one, p, m)
        = BulkUpsertContents(one, {p}, PathToId(one, FoundIds(db)), [x \in Path |-> m])
  BY <1>1, <1>6, <1>7, UpsertContentIs
<1>9. NeedsContentUpdate(db, p, m) <=> StoredTime[p] # m
  BY <1>1 DEF NeedsContentUpdate, StoredTime
<1>10. FileContentByPath(db, p) = Searchable(db)[p]
  BY <1>2, SearchableIs DEF Agree, FileContentByPath, TextsOf
<1>11. QED
  BY <1>3, <1>4, <1>8, <1>9, <1>10

-----------------------------------------------------------------------------
(* The theorems *)

\* Type correctness.
THEOREM ReindexTypeCorrect == Spec => []TypeOK
<1>1. Good => TypeOK
  BY VersionType DEF Good, DiskGood, TablesGood, TypeOK
<1>2. QED
  BY <1>1, AlwaysGood, PTL

\* bulk_upsert_files, bulk_upsert_contents and remove_indexed_folder: with any
\* number of threads that act on rows read earlier, the full-text tables index
\* exactly the stored rows, a file has at most one text, none is without its
\* file, and has_content tells whether there is one.
THEOREM TablesAlwaysAgree == Spec => []TablesAgree
<1>1. Good => TablesAgree
  BY AgreeSuffices DEF Good, TablesGood, TablesAgree
<1>2. QED
  BY <1>1, AlwaysGood, PTL

\* upsert_file, upsert_content, needs_content_update and the preview: in every
\* state they do what the bulk functions, the check of a thread and a search do.
\* That the singles delete one row of a file, the bulk functions all, and that
\* 0 stands for a file without a row, is right because of what the tables keep.
THEOREM SinglesAlwaysAgree == Spec => []SinglesAgree
<1>1. Good => SinglesAgree
  BY SinglesMatch
<1>2. QED
  BY <1>1, AlwaysGood, PTL

\* check, stat, extract and flush: outside the two named mismatches the text of
\* a file that the next check would skip is the text of the file, however
\* writers, threads and the window interleave.
THEOREM SkippingIsSafe == Spec => []SkippedIsCurrent
<1>1. Good => SkippedIsCurrent
  BY DEF Good, TablesGood
<1>2. QED
  BY <1>1, AlwaysGood, PTL

\* remove_indexed_folder: rows below a folder that is not registered are of
\* files that a thread held when the folder was removed.
THEOREM RemovalHolds == Spec => []RemovedStaysRemoved
<1>1. Good => RemovedStaysRemoved
  BY DEF Good, TablesGood
<1>2. QED
  BY <1>1, AlwaysGood, PTL

\* _search_contents sees every commit of threads and window as a whole: it
\* replaces the texts of some files by one each, or forgets whole folders.
THEOREM ReindexImplementsStore == Spec => ImplementsStore
<1>1. Init => Store!Init
  BY InitStore
<1>2. Good /\ Good' /\ [Next]_vars => [Store!Next]_(Searchable(db))
  BY NextStore
<1>3. QED
  BY <1>1, <1>2, AlwaysGood, PTL DEF Spec, ImplementsStore, Store!Spec
=============================================================================
