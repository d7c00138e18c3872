---------------------------- MODULE SearchProofs -----------------------------
(***************************************************************************)
(* Proofs about Search, for all values of its constants.                   *)
(***************************************************************************)
EXTENDS SearchProps, TLAPS, FiniteSetTheorems

IdleAt(c) == [Idle EXCEPT !.pc = c]

LEMMA IdleType ==
  /\ Idle \in Call /\ Idle.left = 0 /\ Idle.size = 0
  /\ IdleAt("initializing") \in Call /\ IdleAt("initializing").left \leq IdleAt("initializing").size
  /\ IdleAt("aborted") \in Call /\ IdleAt("aborted").left \leq IdleAt("aborted").size
<1>1. Idle \in Call /\ Idle.left = 0 /\ Idle.size = 0
  BY DEF Idle, Call, NoQuery, QueryType
<1>2. ASSUME NEW pc \in {"initializing", "aborted"}
      PROVE  IdleAt(pc) \in Call /\ IdleAt(pc).left \leq IdleAt(pc).size
  <2>1. IdleAt(pc) \in Call
    BY <1>1 DEF Call, IdleAt
  <2>2. IdleAt(pc).left = 0 /\ IdleAt(pc).size = 0
    BY <1>1 DEF Call, IdleAt
  <2>3. QED
    BY <2>1, <2>2
<1>3. QED
  BY <1>1, <1>2

LEMMA ListsType == \A s \in Lists : s \in Seq(File) /\ \A i, j \in DOMAIN s : s[i] = s[j] => i = j
BY DEF Lists

LEMMA SizeType == ASSUME NEW s \in Seq(File \cup {Gone}) PROVE Size(s) \in Nat
<1>1. Live(s) \subseteq 1..Len(s)
  BY DEF Live
<1>2. IsFiniteSet(1..Len(s))
  BY FS_Interval
<1>3. QED
  BY <1>1, <1>2, FS_Subset, FS_CardinalityType DEF Size

LEMMA WatchedType ==
  ASSUME run \in Call, run.left \leq run.size, NEW tab, NEW entries
  PROVE  /\ Watched(tab, entries) \in Call
         /\ Watched(tab, entries).left = run.left /\ Watched(tab, entries).size = run.size
<1>1. Fitting(run.req, tab, entries) \subseteq File
  BY DEF Fitting
<1>2. QED
  BY <1>1 DEF Watched, Call

LEMMA QueryTypes == \A form \in Form : form[1] \in QueryType /\ form[2] \in QueryType
BY Constants DEF QueryType

LEMMA InitType == Init => SearchTypeOK
<1> SUFFICES ASSUME Init PROVE SearchTypeOK
  OBVIOUS
<1>1. list \in Seq(File \cup {Gone})
  BY ListsType DEF Init
<1>2. disk \in [File -> Version]
  BY Constants DEF Init, Version
<1>3. table \in [File -> Version \cup {NoRow}]
  BY Constants DEF Init, Version
<1>4. run \in Call /\ run.left \leq run.size
  BY IdleType DEF Init, IdleAt
<1>5. view \in View
  BY <1>2, Constants DEF Init, View, Version
<1>6. used \in [writes : 0..MaxWrites, changes : 0..MaxChanges]
  BY Constants DEF Init
<1>7. QED
  BY <1>1, <1>2, <1>3, <1>4, <1>5, <1>6 DEF Init, SearchTypeOK

LEMMA ChangeType ==
  ASSUME SearchTypeOK, Change
  PROVE  used' \in [writes : 0..MaxWrites, changes : 0..MaxChanges]
<1>1. used.changes \in Nat /\ MaxChanges \in Nat /\ used.changes < MaxChanges
  BY Constants DEF SearchTypeOK, Change
<1>2. used.changes + 1 \in 0..MaxChanges
  BY <1>1
<1>3. used' = [used EXCEPT !.changes = used.changes + 1]
  BY DEF Change
<1>4. QED
  BY <1>2, <1>3 DEF SearchTypeOK

LEMMA ListAddType ==
  ASSUME SearchTypeOK, NEW f \in File, ListAdd(f)
  PROVE  list' \in Seq(File \cup {Gone}) /\ run' \in Call /\ run'.left \leq run'.size /\ Change
         /\ UNCHANGED <<disk, table, folders, view>>
<1>1. CASE ListIs(Append(list, f)) /\ run' = Watched(table, list')
  BY <1>1, WatchedType DEF SearchTypeOK, ListIs
<1>2. ASSUME NEW s \in Lists, Packed(s, list), ListIs(Append(s, f)),
             run' = LET r == Watched(table, list') IN
                    IF r.pc = "list" THEN [r EXCEPT !.moved = @ \/ ~r.frozen] ELSE r
      PROVE  list' \in Seq(File \cup {Gone}) /\ run' \in Call /\ run'.left \leq run'.size /\ Change
             /\ UNCHANGED <<disk, table, folders, view>>
  <2>1. s \in Seq(File)
    BY ListsType
  <2>2. list' \in Seq(File \cup {Gone}) /\ Change /\ UNCHANGED <<disk, table, folders, view>>
    BY <1>2, <2>1 DEF ListIs
  <2> DEFINE r == Watched(table, list')
  <2>3. r \in Call /\ r.left = run.left /\ r.size = run.size
    BY WatchedType DEF SearchTypeOK
  <2>4. \A b \in BOOLEAN : [r EXCEPT !.moved = b] \in Call
    BY <2>3 DEF Call
  <2>5. (r.moved \/ ~r.frozen) \in BOOLEAN
    OBVIOUS
  <2>6. run' = r \/ \E b \in BOOLEAN : run' = [r EXCEPT !.moved = b]
    BY <1>2, <2>5
  <2> HIDE DEF r
  <2>7. ASSUME NEW b \in BOOLEAN
        PROVE  [r EXCEPT !.moved = b].left = r.left /\ [r EXCEPT !.moved = b].size = r.size
    BY <2>3 DEF Call
  <2>8. run' \in Call /\ run'.left \leq run'.size
    BY <2>3, <2>4, <2>6, <2>7 DEF SearchTypeOK
  <2>9. QED
    BY <2>2, <2>8
<1>3. QED
  BY <1>1, <1>2 DEF ListAdd

LEMMA ListType ==
  ASSUME SearchTypeOK,
         \/ \E i \in 1..Len(list) : ListRemove(i) \/ \E f \in File : ListRename(i, f)
         \/ \E s \in Lists : Populate(s)
  PROVE  /\ list' \in Seq(File \cup {Gone}) /\ run' \in Call /\ run'.left \leq run'.size /\ Change
         /\ UNCHANGED <<disk, table, folders, view>>
<1> DEFINE W == Watched(table, list')
<1>1. W \in Call /\ W.left = run.left /\ W.size = run.size
  BY WatchedType DEF SearchTypeOK
<1>2. ASSUME NEW i \in 1..Len(list), ListRemove(i)
      PROVE  list' \in Seq(File \cup {Gone}) /\ run' = W /\ Change
             /\ UNCHANGED <<disk, table, folders, view>>
  BY <1>2 DEF ListRemove, ListIs, SearchTypeOK
<1>3. ASSUME NEW i \in 1..Len(list), NEW f \in File, ListRename(i, f)
      PROVE  /\ list' \in Seq(File \cup {Gone}) /\ Change /\ UNCHANGED <<disk, table, folders, view>>
             /\ run' = W \/ run' = [W EXCEPT !.must = W.must \ {f}]
  <2> DEFINE new == [j \in 1..Len(list) |-> CASE j = i       -> f
                                              [] list[j] = f -> Gone
                                              [] OTHER       -> list[j]]
  <2>1. \A j \in 1..Len(list) : new[j] \in File \cup {Gone}
    BY DEF SearchTypeOK
  <2>2. new \in Seq(File \cup {Gone})
    BY <2>1 DEF SearchTypeOK
  <2>3. list' = new
    BY <1>3 DEF ListRename, ListIs
  <2> HIDE DEF new
  <2>4. QED
    BY <1>3, <2>2, <2>3 DEF ListRename, ListIs
<1>4. ASSUME NEW s \in Lists, Populate(s)
      PROVE  /\ list' \in Seq(File \cup {Gone}) /\ Change /\ UNCHANGED <<disk, table, folders, view>>
             /\ run' = W \/ run' = [W EXCEPT !.frozen = TRUE, !.old = list]
  BY <1>4, ListsType DEF Populate, ListIs
<1> HIDE DEF W
<1>5. \A f \in File : LET r == [W EXCEPT !.must = W.must \ {f}] IN
         r \in Call /\ r.left = W.left /\ r.size = W.size
  BY <1>1 DEF Call
<1>6. LET r == [W EXCEPT !.frozen = TRUE, !.old = list] IN
         r \in Call /\ r.left = W.left /\ r.size = W.size
  BY <1>1 DEF Call, SearchTypeOK
<1>7. QED
  BY <1>1, <1>2, <1>3, <1>4, <1>5, <1>6 DEF SearchTypeOK

LEMMA ElsewhereType == SearchTypeOK /\ Elsewhere => SearchTypeOK'
<1> SUFFICES ASSUME SearchTypeOK, Elsewhere PROVE SearchTypeOK'
  OBVIOUS
<1>1. ASSUME NEW f \in File, Write(f) PROVE SearchTypeOK'
  <2>1. used.writes + 2 \in Version
    BY <1>1, Constants DEF Write, SearchTypeOK, Version
  <2>2. used.writes < MaxWrites /\ used' = [used EXCEPT !.writes = @ + 1]
    BY <1>1 DEF Write
  <2> DEFINE more == used.writes + 1
  <2>3. used \in [writes : 0..MaxWrites, changes : 0..MaxChanges]
    BY DEF SearchTypeOK
  <2>4. more \in 0..MaxWrites /\ used' = [used EXCEPT !.writes = more]
    BY <2>2, <2>3, Constants
  <2> HIDE DEF more
  <2>5. used' \in [writes : 0..MaxWrites, changes : 0..MaxChanges]
    BY <2>3, <2>4
  <2>6. QED
    BY <1>1, <2>1, <2>5 DEF Write, SearchTypeOK
<1>2. ASSUME NEW f \in File, Delete(f) PROVE SearchTypeOK'
  <2>1. 0 \in Version
    BY Constants DEF Version
  <2>2. QED
    BY <1>2, <2>1, ChangeType DEF Delete, SearchTypeOK
<1>3. ASSUME NEW f \in File, ListAdd(f) PROVE SearchTypeOK'
  BY <1>3, ListAddType, ChangeType DEF SearchTypeOK
<1>4. ASSUME NEW f \in File, Commit(f) PROVE SearchTypeOK'
  <2>1. NoText \in Version
    BY Constants DEF Version, NoText
  <2>2. table' \in [File -> Version \cup {NoRow}]
    BY <1>4, <2>1 DEF Commit, SearchTypeOK
  <2>3. run' \in Call /\ run'.left \leq run'.size
    BY <1>4, WatchedType DEF Commit, SearchTypeOK
  <2>4. QED
    BY <1>4, <2>2, <2>3, ChangeType DEF Commit, SearchTypeOK
<1>5. ASSUME \/ \E i \in 1..Len(list) : ListRemove(i) \/ \E f \in File : ListRename(i, f)
             \/ \E s \in Lists : Populate(s)
      PROVE  SearchTypeOK'
  BY <1>5, ListType, ChangeType DEF SearchTypeOK
<1>6. QED
  BY <1>1, <1>2, <1>3, <1>4, <1>5 DEF Elsewhere

LEMMA ShownType == ASSUME SearchTypeOK, NEW S \in SUBSET File PROVE Shown(S) \in View
BY Constants DEF Shown, View, SearchTypeOK, Version

LEMMA SearchStepType == SearchTypeOK /\ SearchStep => SearchTypeOK'
<1> SUFFICES ASSUME SearchTypeOK, SearchStep PROVE SearchTypeOK'
  OBVIOUS
<1>1. CASE AskFails \/ ListRaises
  <2>1. run' = IdleAt("aborted") /\ UNCHANGED <<list, disk, table, folders, view, used>>
    BY <1>1 DEF AskFails, ListRaises, IdleAt
  <2>2. QED
    BY <2>1, IdleType DEF SearchTypeOK
<1>2. CASE NamesStep
  <2>1. NameRows(run.req.name, run.req.scope) \subseteq File
    BY DEF NameRows
  <2>2. \A S \in SUBSET File : LET r == [run EXCEPT !.pc = "contents", !.named = S] IN
          r \in Call /\ r.left = run.left /\ r.size = run.size
    BY DEF SearchTypeOK, Call
  <2>3. \E S \in SUBSET File : run' = [run EXCEPT !.pc = "contents", !.named = S]
    BY <1>2, <2>1 DEF NamesStep
  <2>4. run' \in Call /\ run'.left \leq run'.size
    BY <2>2, <2>3 DEF SearchTypeOK
  <2>5. QED
    BY <1>2, <2>4 DEF NamesStep, SearchTypeOK
<1>3. CASE ContentsStep
  <2>1. Merged \subseteq File
    BY DEF Merged, Texts, TextRows, SearchTypeOK, Call
  <2>2. QED
    BY <1>3, <2>1, ShownType, IdleType DEF ContentsStep, SearchTypeOK
<1>4. CASE ListStep
  <2>1. PICK i \in Rest : run' = [run EXCEPT !.pos = i + 1, !.left = @ - 1,
           !.found = IF NameHit(run.req.name, Entries[i]) THEN @ \cup {Entries[i]} ELSE @]
    BY <1>4 DEF ListStep
  <2>2. run.left \in Nat \ {0}
    BY <1>4, <2>1 DEF ListStep, Grown, SearchTypeOK, Call
  <2>3. i \in Nat \ {0} /\ Entries[i] \in File
    BY DEF Rest, Live, Entries, SearchTypeOK, Call
  <2> DEFINE next == i + 1
             less == run.left - 1
  <2>4. next \in Nat \ {0} /\ less \in Nat /\ less \leq run.size
    BY <2>2, <2>3 DEF SearchTypeOK, Call
  <2>5. \E S \in SUBSET File : run' = [run EXCEPT !.pos = next, !.left = less, !.found = S]
    <3>1. run.found \subseteq File
      BY DEF SearchTypeOK, Call
    <3>2. QED
      BY <2>1, <2>3, <3>1
  <2> HIDE DEF next, less
  <2>6. PICK S \in SUBSET File : run' = [run EXCEPT !.pos = next, !.left = less, !.found = S]
    BY <2>5
  <2>7. run' \in Call
    BY <2>4, <2>6 DEF SearchTypeOK, Call
  <2>8. run'.left = less /\ run'.size = run.size
    BY <2>6 DEF SearchTypeOK, Call
  <2>9. QED
    BY <1>4, <2>4, <2>7, <2>8 DEF ListStep, SearchTypeOK
<1>5. CASE ListEnd
  <2>1. run.found \subseteq File
    BY DEF SearchTypeOK, Call
  <2>2. QED
    BY <1>5, <2>1, ShownType, IdleType DEF ListEnd, SearchTypeOK
<1>6. QED
  BY <1>1, <1>2, <1>3, <1>4, <1>5 DEF SearchStep

LEMMA UserType == SearchTypeOK /\ User => SearchTypeOK'
<1> SUFFICES ASSUME SearchTypeOK, User PROVE SearchTypeOK'
  OBVIOUS
<1>1. ASSUME NEW form \in Form, Ask(form[1], form[2]) PROVE SearchTypeOK'
  <2> DEFINE req == [name |-> form[1], content |-> form[2],
                     scope |-> IF form[2].words = {} THEN {} ELSE folders]
             pc == IF form[2].words = {} THEN "list" ELSE "names"
             now == Fitting(req, table, list)
  <2>1. req \in [name : QueryType, content : QueryType, scope : SUBSET Folder]
    BY QueryTypes DEF SearchTypeOK
  <2>2. now \subseteq File
    BY DEF Fitting
  <2>3. Size(list) \in Nat
    BY SizeType DEF SearchTypeOK
  <2>4. run' = [Idle EXCEPT !.pc = pc, !.req = req, !.size = Size(list), !.left = Size(list),
                            !.must = now, !.may = now]
    BY <1>1 DEF Ask
  <2>5. pc \in {"list", "names"}
    OBVIOUS
  <2> HIDE DEF req, pc, now
  <2>6. run' \in Call /\ run'.left = run'.size /\ run'.size \in Nat
    BY <2>1, <2>2, <2>3, <2>4, <2>5, IdleType DEF Call
  <2>7. QED
    BY <1>1, <2>6 DEF Ask, SearchTypeOK
<1>2. CASE AskNothing \/ ClearPreview
  BY <1>2 DEF AskNothing, ClearPreview, SearchTypeOK, View
<1>3. CASE ScanFinished
  BY <1>3, IdleType DEF ScanFinished, SearchTypeOK
<1>4. ASSUME NEW f \in File, Select(f) PROVE SearchTypeOK'
  <2>1. ASSUME NEW b \in BOOLEAN, b => FromIndex(f), Look(f, b) PROVE view' \in View
    <3> DEFINE shown == Preview(f, b)
    <3>1. shown \in {NoPreview} \cup [file : File, ver : Version, from : {"index", "file"}]
      BY <2>1 DEF Preview, SearchTypeOK, View, FromIndex, NoText, NoRow, Version
    <3>2. shown.from = "file" => shown.ver \in Version
      BY <3>1 DEF NoPreview
    <3>3. view' = [view EXCEPT !.preview = shown,
                               !.cache[f] = IF shown.from = "file" THEN shown.ver ELSE @]
      BY <2>1 DEF Look
    <3> HIDE DEF shown
    <3>4. QED
      BY <3>1, <3>2, <3>3 DEF SearchTypeOK, View
  <2>2. view' \in View
    <3>1. FromIndex(f) \in BOOLEAN
      BY DEF FromIndex
    <3>2. QED
      BY <1>4, <2>1, <3>1, Zenon DEF Select
  <2>3. QED
    BY <1>4, <2>2 DEF Select, SearchTypeOK
<1>5. ASSUME NEW g \in Folder, AddFolder(g) PROVE SearchTypeOK'
  BY <1>5, ChangeType DEF AddFolder, SearchTypeOK
<1>6. ASSUME NEW g \in Folder, RemoveFolder(g) PROVE SearchTypeOK'
  BY <1>6, ChangeType DEF RemoveFolder, SearchTypeOK
<1>7. QED
  BY <1>1, <1>2, <1>3, <1>4, <1>5, <1>6 DEF User

LEMMA NextType == SearchTypeOK /\ [Next]_vars => SearchTypeOK'
<1>1. SearchTypeOK /\ UNCHANGED vars => SearchTypeOK'
  BY DEF SearchTypeOK, vars
<1>2. QED
  BY <1>1, ElsewhereType, UserType, SearchStepType DEF Next

\* The types hold in every behaviour: of list, index and tables, of the call of
\* _do_search and of the window's preview.
THEOREM SearchTypeCorrect == Spec => []SearchTypeOK
BY InitType, NextType, PTL DEF Spec

-----------------------------------------------------------------------------
(* The preview *)

\* Versions only grow: a file that is there is at least as new as at the last
\* search, and so is every text kept for previews.
Fresh ==
  /\ \A f \in File :
       /\ view.base[f] \leq used.writes + 1
       /\ disk[f] # 0 => view.base[f] \leq disk[f]
       /\ disk[f] \leq used.writes + 1
       /\ view.cache[f] # 0 => view.base[f] \leq view.cache[f]
  /\ PreviewTrue

LEMMA InitFresh == Init => Fresh
BY Constants DEF Init, Fresh, PreviewTrue

\* A new answer starts anew.
LEMMA ShownFresh ==
  ASSUME SearchTypeOK, Fresh, NEW S, view' = Shown(S), UNCHANGED <<disk, used>>
  PROVE  Fresh'
BY Constants DEF SearchTypeOK, Version, Fresh, Shown, PreviewTrue

LEMMA SelectFresh ==
  ASSUME SearchTypeOK, Fresh, NEW f \in File, Select(f)
  PROVE  Fresh'
<1>1. f \in view.shown /\ UNCHANGED <<disk, used>>
  BY DEF Select
<1>2. ASSUME NEW b \in BOOLEAN, Look(f, b) PROVE Fresh'
  <2> DEFINE p == Preview(f, b)
  <2>1. /\ p # NoPreview => p.file = f
        /\ p.from = "file" => p # NoPreview /\ view.base[f] \leq p.ver
    BY DEF Preview, NoPreview, Fresh, SearchTypeOK
  <2>2. view' = [view EXCEPT !.preview = p, !.cache[f] = IF p.from = "file" THEN p.ver ELSE @]
    BY <1>2 DEF Look
  <2> HIDE DEF p
  <2>3. /\ view'.preview = p /\ view'.shown = view.shown /\ view'.base = view.base
        /\ view'.cache = [view.cache EXCEPT ![f] = IF p.from = "file" THEN p.ver ELSE @]
    BY <2>2 DEF SearchTypeOK, View
  <2>4. PreviewTrue'
    BY <1>1, <2>1, <2>3 DEF PreviewTrue
  <2>5. \A g \in File : view'.cache[g] # 0 => view'.base[g] \leq view'.cache[g]
    BY <2>1, <2>3 DEF Fresh, SearchTypeOK, View
  <2>6. QED
    BY <1>1, <2>3, <2>4, <2>5 DEF Fresh
<1>3. FromIndex(f) \in BOOLEAN
  BY DEF FromIndex
<1>4. QED
  BY <1>2, <1>3, Zenon DEF Select

LEMMA NextFresh == SearchTypeOK /\ Fresh /\ [Next]_vars => Fresh'
<1> SUFFICES ASSUME SearchTypeOK, Fresh, [Next]_vars PROVE Fresh'
  OBVIOUS
<1>1. CASE UNCHANGED <<disk, view>> /\ used'.writes = used.writes
  BY <1>1 DEF Fresh, PreviewTrue
<1>2. ASSUME NEW f \in File, Write(f) PROVE Fresh'
  <2>1. /\ disk' = [disk EXCEPT ![f] = used.writes + 2] /\ UNCHANGED view
        /\ used'.writes = used.writes + 1 /\ used.writes \in Nat
    BY <1>2, Constants DEF Write, SearchTypeOK
  <2>2. QED
    BY <2>1 DEF Fresh, PreviewTrue, SearchTypeOK, View, Version
<1>3. ASSUME NEW f \in File, Delete(f) PROVE Fresh'
  BY <1>3 DEF Delete, Change, Fresh, PreviewTrue, SearchTypeOK
<1>4. ASSUME Change, UNCHANGED <<disk, view>> PROVE Fresh'
  BY <1>1, <1>4 DEF Change, SearchTypeOK
<1>5. CASE Elsewhere
  <2>1. ASSUME NEW f \in File, ListAdd(f) \/ Commit(f) PROVE Change /\ UNCHANGED <<disk, view>>
    BY <2>1 DEF ListAdd, ListIs, Commit
  <2>2. ASSUME NEW i \in 1..Len(list), ListRemove(i) PROVE Change /\ UNCHANGED <<disk, view>>
    BY <2>2 DEF ListRemove, ListIs
  <2>3. ASSUME NEW i \in 1..Len(list), NEW f \in File, ListRename(i, f)
        PROVE  Change /\ UNCHANGED <<disk, view>>
    BY <2>3 DEF ListRename, ListIs
  <2>4. ASSUME NEW s \in Lists, Populate(s) PROVE Change /\ UNCHANGED <<disk, view>>
    BY <2>4 DEF Populate, ListIs
  <2>5. QED
    BY <1>2, <1>3, <1>4, <1>5, <2>1, <2>2, <2>3, <2>4 DEF Elsewhere
<1>6. CASE User
  <2>1. ASSUME NEW form \in Form, Ask(form[1], form[2]) PROVE Fresh'
    BY <1>1, <2>1 DEF Ask
  <2>2. CASE AskNothing \/ ClearPreview
    BY <2>2 DEF AskNothing, ClearPreview, Fresh, PreviewTrue, SearchTypeOK, View
  <2>3. CASE ScanFinished
    BY <1>1, <2>3 DEF ScanFinished
  <2>4. ASSUME NEW g \in Folder, AddFolder(g) \/ RemoveFolder(g) PROVE Fresh'
    BY <1>4, <2>4 DEF AddFolder, RemoveFolder
  <2>5. QED
    BY <1>6, <2>1, <2>2, <2>3, <2>4, SelectFresh DEF User
<1>7. CASE SearchStep
  <2>1. CASE AskFails \/ NamesStep \/ ListStep \/ ListRaises
    BY <1>1, <2>1 DEF AskFails, NamesStep, ListStep, ListRaises
  <2>2. CASE ContentsStep \/ ListEnd
    BY <2>2, ShownFresh DEF ContentsStep, ListEnd
  <2>3. QED
    BY <1>7, <2>1, <2>2 DEF SearchStep
<1>8. QED
  BY <1>1, <1>5, <1>6, <1>7 DEF Next, vars

\* A preview read from the file is never older than the answer it belongs to,
\* however often the file is rewritten, deleted and created again.
THEOREM PreviewsTrue == Spec => []PreviewTrue
<1>1. Init => SearchTypeOK /\ Fresh
  BY InitType, InitFresh
<1>2. SearchTypeOK /\ Fresh /\ [Next]_vars => (SearchTypeOK /\ Fresh)'
  BY NextType, NextFresh
<1>3. SearchTypeOK /\ Fresh => PreviewTrue
  BY DEF Fresh
<1>4. QED
  BY <1>1, <1>2, <1>3, PTL DEF Spec

-----------------------------------------------------------------------------
(* The answer *)

Searching == {"names", "contents", "list"}

\* No file is twice in the list.
Once == \A i, j \in 1..Len(list) : list[i] = list[j] => i = j \/ list[i] = Gone

\* must and may close in on what fits now.
Watching == run.must \subseteq Fitting(run.req, table, list) /\ Fitting(run.req, table, list) \subseteq run.may

\* Between the two queries: what the first one found.
NamesRead ==
  /\ \A f \in run.named : Asked(run.req.name, Range(f))
  /\ Unanswerable(run) \/ run.req.name.words = {} \/ run.must \subseteq run.named

\* In the loop over the dictionary: a file that is due has been found or is
\* still to come.
Due(f) == f \in run.found \/ \E i \in 1..Len(Entries) : i \geq run.pos /\ Entries[i] = f
Reading ==
  /\ run.req.content.words = {}
  /\ run.found \subseteq run.may
  /\ run.frozen => \A i \in Live(run.old) : NameHit(run.req.name, run.old[i]) => run.old[i] \in run.may
  /\ run.moved \/ \A f \in run.must : Due(f)

Answering ==
  /\ Once
  /\ run.pc \in Searching => Watching
  /\ run.pc \in {"names", "contents"} => run.req.content.words # {}
  /\ run.pc = "contents" => NamesRead
  /\ run.pc = "list" => Reading

\* Full-text matching against its definition without steps.
LEMMA MatchAsked ==
  ASSUME NEW q \in QueryType, NEW words
  PROVE  /\ Match(FtsQuery(q), words) => Asked(q, words)
         /\ Asked(q, words) /\ ~FtsQuery(q).broken => Match(FtsQuery(q), words)
<1>1. CASE q.form = "plain"
  BY <1>1 DEF Match, FtsQuery, Asked
<1>2. CASE q.form # "plain"
  <2>1. q.words \subseteq Word
    BY DEF QueryType
  <2>2. /\ FtsQuery(q).words = q.words /\ FtsQuery(q).by = {<<w, w>> : w \in Word}
    BY <1>2 DEF FtsQuery
  <2>3. \A w \in q.words : \A v : <<w, v>> \in FtsQuery(q).by <=> w = v
    BY <2>1, <2>2
  <2>4. QED
    BY <1>2, <2>2, <2>3 DEF Match, Asked
<1>3. QED
  BY <1>1, <1>2

LEMMA InitAnswering == Init => Answering
BY ListsType DEF Init, Answering, Once, Searching, IdleAt, Idle

\* What the other threads leave of the call of _do_search, and what they add.
Kept(r) ==
  /\ r.pc = run.pc /\ r.req = run.req /\ r.named = run.named
  /\ r.found = run.found /\ r.pos = run.pos
Closer(r) ==
  run.pc \in Searching =>
    /\ r.must \subseteq run.must /\ r.must \subseteq Fitting(run.req, table', list')
    /\ r.may = run.may \cup Fitting(run.req, table', list')

LEMMA WatchedKept ==
  ASSUME run \in Call
  PROVE  LET w == Watched(table', list') IN
         /\ w \in Call /\ Kept(w) /\ Closer(w)
         /\ w.frozen = run.frozen /\ w.old = run.old /\ w.moved = run.moved
<1>1. Fitting(run.req, table', list') \subseteq File
  BY DEF Fitting
<1>2. QED
  BY <1>1 DEF Watched, Kept, Closer, Searching, Call

LEMMA Stirred ==
  ASSUME SearchTypeOK, Answering, Once', Kept(run'), Closer(run'), run.pc = "list" => Reading'
  PROVE  Answering'
<1>1. run.pc \in Searching => Watching'
  BY DEF Kept, Closer, Watching
<1>2. run.pc \in {"names", "contents"} => run'.req.content.words # {}
  BY DEF Kept, Answering
<1>3. run.pc = "contents" => NamesRead'
  BY <1>2 DEF Kept, Closer, Answering, NamesRead, Unanswerable, Searching
<1>4. QED
  BY <1>1, <1>2, <1>3 DEF Kept, Answering

\* The loop reads the same dictionary on, wherever the files still due stay
\* ahead of it.
LEMMA StirredReading ==
  ASSUME Answering, Kept(run'), Closer(run'), run.pc = "list",
         run'.frozen = run.frozen, run'.old = run.old,
         run'.moved \/ \A f \in run'.must : Due(f)'
  PROVE  Reading'
<1>1. run.may \subseteq run'.may
  BY DEF Closer, Searching
<1>2. QED
  BY <1>1 DEF Answering, Reading, Kept

LEMMA ListAddAnswering ==
  ASSUME SearchTypeOK, Answering, NEW f \in File, ListAdd(f)
  PROVE  Answering'
<1> DEFINE W == Watched(table', list')
<1>1. W \in Call /\ Kept(W) /\ Closer(W) /\ W.frozen = run.frozen /\ W.old = run.old /\ W.moved = run.moved
  BY WatchedKept DEF SearchTypeOK
<1>2. list \in Seq(File \cup {Gone}) /\ UNCHANGED table
  BY DEF ListAdd, ListIs, SearchTypeOK
<1>3. \A i \in 1..Len(list) : list[i] # f
  BY <1>2 DEF ListAdd, Range
<1>4. CASE list' = Append(list, f) /\ run' = W
  <2>1. Once'
    BY <1>2, <1>3, <1>4 DEF Once, Answering
  <2> HIDE DEF W
  <2>2. ASSUME run.pc = "list", ~run.moved, NEW g \in run'.must PROVE Due(g)'
    <3>1. Due(g)
      BY <1>1, <1>4, <2>2 DEF Answering, Reading, Closer, Searching
    <3>2. \A i \in 1..Len(list) : i \in 1..Len(list') /\ list'[i] = list[i]
      BY <1>2, <1>4
    <3>3. \A i \in 1..Len(Entries) : i \in 1..Len(Entries') /\ Entries'[i] = Entries[i]
      BY <1>1, <1>4, <3>2 DEF Entries
    <3>4. QED
      BY <1>1, <1>4, <3>1, <3>3 DEF Due, Kept
  <2>3. QED
    BY <1>1, <1>4, <2>1, <2>2, Stirred, StirredReading
<1>5. ASSUME NEW s \in Lists, Packed(s, list), list' = Append(s, f),
             run' = IF W.pc = "list" THEN [W EXCEPT !.moved = @ \/ ~W.frozen] ELSE W
      PROVE  Answering'
  <2>1. s \in Seq(File) /\ \A i \in 1..Len(s) : s[i] # f
    <3>1. s \in Seq(File)
      BY ListsType
    <3>2. f \notin Range(s)
      BY <1>5, Zenon DEF Packed, ListAdd
    <3>3. QED
      BY <3>1, <3>2 DEF Range
  <2>2. Once'
    BY <1>5, <2>1, ListsType DEF Once
  <2> HIDE DEF W
  <2>3. \/ run' = W /\ run.pc # "list"
        \/ \E b \in BOOLEAN : run' = [W EXCEPT !.moved = b] /\ (b \/ (run.frozen /\ (run.moved => b)))
    <3>1. (W.moved \/ ~W.frozen) \in BOOLEAN
      OBVIOUS
    <3>2. QED
      BY <1>1, <1>5, <3>1 DEF Kept
  <2>4. Kept(run') /\ Closer(run') /\ run'.frozen = run.frozen /\ run'.old = run.old
    BY <1>1, <2>3 DEF Kept, Closer, Call
  <2>5. ASSUME run.pc = "list", ~run'.moved PROVE run.frozen /\ ~run.moved
    BY <1>1, <2>3, <2>5 DEF Call
  <2>6. ASSUME run.pc = "list", ~run'.moved, NEW g \in run'.must PROVE Due(g)'
    BY <2>4, <2>5, <2>6 DEF Answering, Reading, Closer, Searching, Due, Entries, Kept
  <2>7. QED
    BY <2>2, <2>4, <2>6, Stirred, StirredReading
<1>6. QED
  BY <1>2, <1>4, <1>5 DEF ListAdd, ListIs

\* A file that is still fitting after an entry was removed or renamed is the one
\* it was: its entry is where it was.
LEMMA Overwritten ==
  ASSUME SearchTypeOK, Answering, run.pc = "list", ~run.moved, Kept(run'), Closer(run'),
         run'.frozen = run.frozen, run'.old = run.old, NEW i \in 1..Len(list),
         list' \in Seq(File \cup {Gone}), Len(list') = Len(list),
         \A j \in 1..Len(list) : list'[j] \in {list[j], Gone} \/ j = i,
         NEW g \in run'.must, list'[i] # g
  PROVE  Due(g)'
<1>1. Due(g) /\ g \in File /\ g # Gone
  BY Constants DEF Answering, Reading, Closer, Searching, Fitting
<1>2. CASE g \in run.found \/ run.frozen
  BY <1>1, <1>2 DEF Due, Kept, Entries
<1>3. CASE g \notin run.found /\ ~run.frozen
  <2>1. PICK k \in 1..Len(list) : k \geq run.pos /\ list[k] = g
    BY <1>1, <1>3 DEF Due, Entries
  <2>2. g \in Fitting(run.req, table', list')
    BY DEF Closer, Searching
  <2>3. PICK m \in 1..Len(list) : list'[m] = g
    BY <2>2 DEF Fitting, Answering, Reading
  <2>4. m # i /\ list[m] = g
    BY <1>1, <2>3
  <2>5. m = k
    BY <1>1, <2>1, <2>4 DEF Answering, Once
  <2>6. QED
    BY <1>3, <2>1, <2>3, <2>5 DEF Due, Kept, Entries
<1>4. QED
  BY <1>2, <1>3

LEMMA ListRemoveAnswering ==
  ASSUME SearchTypeOK, Answering, NEW i \in 1..Len(list), ListRemove(i)
  PROVE  Answering'
<1> DEFINE W == Watched(table', list')
<1>1. /\ Kept(run') /\ Closer(run') /\ run'.frozen = run.frozen /\ run'.old = run.old
      /\ run'.moved = run.moved
  <2>1. Kept(W) /\ Closer(W) /\ W.frozen = run.frozen /\ W.old = run.old /\ W.moved = run.moved
    BY WatchedKept DEF SearchTypeOK
  <2>2. run' = W
    BY DEF ListRemove, ListIs
  <2> HIDE DEF W
  <2>3. QED
    BY <2>1, <2>2
<1>2. list' = [list EXCEPT ![i] = Gone] /\ list \in Seq(File \cup {Gone})
  BY DEF ListRemove, ListIs, SearchTypeOK
<1>3. Len(list') = Len(list) /\ list' \in Seq(File \cup {Gone})
  BY <1>2
<1>4. Once'
  BY <1>2, <1>3 DEF Once, Answering
<1>5. ASSUME run.pc = "list", ~run'.moved, NEW g \in run'.must PROVE Due(g)'
  <2>1. g # Gone
    BY <1>1, <1>5, Constants DEF Closer, Searching, Fitting
  <2>2. QED
    BY <1>1, <1>2, <1>3, <1>5, <2>1, Overwritten
<1>6. QED
  BY <1>1, <1>4, <1>5, Stirred, StirredReading

LEMMA ListRenameAnswering ==
  ASSUME SearchTypeOK, Answering, NEW i \in 1..Len(list), NEW f \in File, ListRename(i, f)
  PROVE  Answering'
<1> DEFINE W == Watched(table', list')
           new == [j \in 1..Len(list) |-> CASE j = i       -> f
                                             [] list[j] = f -> Gone
                                             [] OTHER       -> list[j]]
<1>1. W \in Call /\ Kept(W) /\ Closer(W) /\ W.frozen = run.frozen /\ W.old = run.old /\ W.moved = run.moved
  BY WatchedKept DEF SearchTypeOK
<1>2. list \in Seq(File \cup {Gone}) /\ list' = new
  BY DEF ListRename, ListIs, SearchTypeOK
<1>3. new \in Seq(File \cup {Gone}) /\ Len(new) = Len(list)
  <2>1. \A j \in 1..Len(list) : new[j] \in File \cup {Gone}
    BY <1>2
  <2>2. QED
    BY <1>2, <2>1
<1>4. /\ new[i] = f /\ f # Gone
      /\ \A j \in 1..Len(list) : j # i => new[j] \in {list[j], Gone} /\ new[j] # f
  BY Constants DEF ListRename
<1>5. run' = IF W.pc = "list" THEN [W EXCEPT !.must = @ \ {f}] ELSE W
  BY DEF ListRename, ListIs
<1> HIDE DEF new, W
<1>6. Once'
  BY <1>2, <1>3, <1>4 DEF Once, Answering
<1>7. /\ Kept(run') /\ Closer(run') /\ run'.frozen = run.frozen /\ run'.old = run.old
      /\ run'.moved = run.moved
      /\ run.pc = "list" => f \notin run'.must
  BY <1>1, <1>5 DEF Kept, Closer, Call
<1>8. ASSUME run.pc = "list", ~run'.moved, NEW g \in run'.must PROVE Due(g)'
  <2>1. list' \in Seq(File \cup {Gone}) /\ Len(list') = Len(list)
    BY <1>2, <1>3
  <2>2. \A j \in 1..Len(list) : list'[j] \in {list[j], Gone} \/ j = i
    BY <1>2, <1>4
  <2>3. list'[i] # g
    BY <1>2, <1>4, <1>7, <1>8
  <2>4. QED
    BY <1>7, <1>8, <2>1, <2>2, <2>3, Overwritten
<1>9. QED
  BY <1>6, <1>7, <1>8, Stirred, StirredReading

LEMMA PopulateAnswering ==
  ASSUME SearchTypeOK, Answering, NEW s \in Lists, Populate(s)
  PROVE  Answering'
<1> DEFINE W == Watched(table', list')
<1>1. W \in Call /\ Kept(W) /\ Closer(W) /\ W.frozen = run.frozen /\ W.old = run.old /\ W.moved = run.moved
  BY WatchedKept DEF SearchTypeOK
<1>2. /\ list' = s /\ UNCHANGED table
      /\ run' = IF W.pc = "list" /\ ~W.frozen THEN [W EXCEPT !.frozen = TRUE, !.old = list] ELSE W
  BY DEF Populate, ListIs
<1>3. Once'
  BY <1>2, ListsType DEF Once
<1> HIDE DEF W
<1>4. /\ Kept(run') /\ Closer(run') /\ run'.moved = run.moved
      /\ run.pc = "list" => run'.frozen /\ run'.old = Entries
  BY <1>1, <1>2 DEF Kept, Closer, Call, Entries
<1>5. CASE run.pc = "list"
  <2>1. \A i \in Live(run'.old) : NameHit(run.req.name, run'.old[i]) => run'.old[i] \in run.may
    <3>1. CASE run.frozen
      BY <1>4, <1>5, <3>1 DEF Answering, Reading, Entries
    <3>2. CASE ~run.frozen
      BY <1>4, <1>5, <3>2 DEF Answering, Reading, Watching, Searching, Entries, Live, Fitting, SearchTypeOK
    <3>3. QED
      BY <3>1, <3>2
  <2>2. run.may \subseteq run'.may /\ run'.must \subseteq run.must
    BY <1>4, <1>5 DEF Closer, Searching
  <2>3. \A g \in run'.must : Due(g) => Due(g)'
    BY <1>4, <1>5 DEF Due, Kept, Entries
  <2>4. Reading'
    BY <1>4, <1>5, <2>1, <2>2, <2>3 DEF Answering, Reading, Kept
  <2>5. QED
    BY <1>3, <1>4, <2>4, Stirred
<1>6. QED
  BY <1>3, <1>4, <1>5, Stirred

LEMMA ElsewhereAnswering == SearchTypeOK /\ Answering /\ Elsewhere => Answering'
<1> SUFFICES ASSUME SearchTypeOK, Answering, Elsewhere PROVE Answering'
  OBVIOUS
<1>1. ASSUME NEW f \in File, Write(f) \/ Delete(f) PROVE Answering'
  <2>1. UNCHANGED <<list, table, run>>
    BY <1>1 DEF Write, Delete
  <2>2. QED
    BY <2>1 DEF Answering, Once, Watching, NamesRead, Unanswerable, Reading, Due, Entries
<1>2. ASSUME NEW f \in File, Commit(f) PROVE Answering'
  <2>1. list' = list /\ run' = Watched(table', list')
    BY <1>2 DEF Commit
  <2>2. /\ Kept(run') /\ Closer(run') /\ run'.frozen = run.frozen /\ run'.old = run.old
        /\ run'.moved = run.moved
    BY <2>1, WatchedKept DEF SearchTypeOK
  <2>3. Once'
    BY <2>1 DEF Answering, Once
  <2>4. ASSUME run.pc = "list", ~run'.moved, NEW g \in run'.must PROVE Due(g)'
    <3>1. Due(g)
      BY <2>2, <2>4 DEF Answering, Reading, Closer, Searching
    <3>2. QED
      BY <2>1, <2>2, <3>1 DEF Due, Kept, Entries
  <2>5. QED
    BY <2>2, <2>3, <2>4, Stirred, StirredReading
<1>3. QED
  BY <1>1, <1>2, ListAddAnswering, ListRemoveAnswering, ListRenameAnswering, PopulateAnswering
     DEF Elsewhere

LEMMA AskAnswering ==
  ASSUME SearchTypeOK, Answering, NEW form \in Form, Ask(form[1], form[2])
  PROVE  Answering'
<1> DEFINE req == [name |-> form[1], content |-> form[2],
                   scope |-> IF form[2].words = {} THEN {} ELSE folders]
           pc == IF form[2].words = {} THEN "list" ELSE "names"
           now == Fitting(req, table, list)
           size == Size(list)
<1>1. /\ run' = [Idle EXCEPT !.pc = pc, !.req = req, !.size = size, !.left = size,
                             !.must = now, !.may = now]
      /\ UNCHANGED <<list, table>>
  BY DEF Ask
<1>2. (pc = "list" /\ req.content.words = {}) \/ (pc = "names" /\ req.content.words # {})
  OBVIOUS
<1>3. list \in Seq(File \cup {Gone}) /\ now = Fitting(req, table, list)
  BY DEF SearchTypeOK
<1> HIDE DEF req, pc, now, size
<1>4. /\ run'.pc = pc /\ run'.req = req /\ run'.must = now /\ run'.may = now
      /\ run'.found = {} /\ run'.pos = 1 /\ ~run'.frozen /\ ~run'.moved
  BY <1>1 DEF Idle
<1>5. Watching' /\ Once'
  BY <1>1, <1>3, <1>4 DEF Watching, Answering, Once
<1>6. ASSUME pc = "list" PROVE Reading'
  <2>1. ASSUME NEW f \in now PROVE Due(f)'
    <3>1. PICK i \in 1..Len(list) : list[i] = f
      BY <1>2, <1>3, <1>6 DEF Fitting
    <3>2. QED
      BY <1>1, <1>3, <1>4, <3>1 DEF Due, Entries
  <2>2. QED
    BY <1>2, <1>4, <1>6, <2>1 DEF Reading
<1>7. QED
  BY <1>2, <1>4, <1>5, <1>6 DEF Answering

LEMMA UserAnswering == SearchTypeOK /\ Answering /\ User => Answering'
<1> SUFFICES ASSUME SearchTypeOK, Answering, User PROVE Answering'
  OBVIOUS
<1>1. ASSUME run'.pc = "idle", list' = list PROVE Answering'
  BY <1>1 DEF Answering, Once, Searching
<1>2. CASE AskNothing \/ ClearPreview
  BY <1>1, <1>2 DEF AskNothing, ClearPreview
<1>3. CASE ScanFinished
  BY <1>1, <1>3 DEF ScanFinished, Idle
<1>4. ASSUME NEW f \in File, Select(f) PROVE Answering'
  BY <1>1, <1>4 DEF Select
<1>5. ASSUME NEW g \in Folder, AddFolder(g) \/ RemoveFolder(g) PROVE Answering'
  BY <1>1, <1>5 DEF AddFolder, RemoveFolder
<1>6. QED
  BY <1>2, <1>3, <1>4, <1>5, AskAnswering DEF User

\* The first query finds what fits and nothing else.
LEMMA NamesAnswering == ASSUME SearchTypeOK, Answering, NamesStep PROVE Answering'
<1> DEFINE name == run.req.name
           rows == IF FtsQuery(name).words = {} THEN {} ELSE NameRows(name, run.req.scope)
<1>1. run' = [run EXCEPT !.pc = "contents", !.named = rows] /\ UNCHANGED <<list, table>>
  BY DEF NamesStep
<1>2. name \in QueryType
  BY DEF SearchTypeOK, Call
<1>3. \A f \in rows : Asked(name, Range(f))
  BY <1>2, MatchAsked DEF NameRows
<1>4. Unanswerable(run) \/ name.words = {} \/ run.must \subseteq rows
  <2> SUFFICES ASSUME ~Unanswerable(run), name.words # {}, NEW f \in run.must PROVE f \in rows
    OBVIOUS
  <2>1. run.req.content.words # {} /\ f \in Fitting(run.req, table, list)
    BY DEF NamesStep, Answering, Watching, Searching
  <2>2. /\ f \in File /\ table[f] > NoText /\ Asked(name, Range(f))
        /\ run.req.scope = {} \/ \E g \in run.req.scope : IsStrictPrefix(g, f)
    BY <2>1 DEF Fitting
  <2>3. FtsQuery(name).words # {} /\ ~FtsQuery(name).broken /\ <<>> \notin run.req.scope
    BY <2>1 DEF Unanswerable
  <2>4. InScope(run.req.scope, f)
    BY <2>2, <2>3 DEF InScope, FolderClause
  <2>5. Match(FtsQuery(name), Range(f))
    BY <1>2, <2>2, <2>3, MatchAsked
  <2>6. table[f] # NoRow
    BY <2>2 DEF NoText, NoRow
  <2>7. QED
    BY <2>2, <2>3, <2>4, <2>5, <2>6 DEF NameRows
<1> HIDE DEF rows
<1>5. /\ run'.pc = "contents" /\ run'.req = run.req /\ run'.named = rows
      /\ run'.must = run.must /\ run'.may = run.may
  BY <1>1 DEF SearchTypeOK, Call
<1>6. NamesRead'
  BY <1>3, <1>4, <1>5 DEF NamesRead, Unanswerable, NamesStep, Answering
<1>7. QED
  BY <1>1, <1>5, <1>6 DEF Answering, Once, Watching, NamesStep, Searching

\* One turn of the loop.
LEMMA ListStepAnswering == ASSUME SearchTypeOK, Answering, ListStep PROVE Answering'
<1>1. PICK i \in Rest : /\ \A j \in Rest : i \leq j
                       /\ run' = [run EXCEPT !.pos = i + 1, !.left = @ - 1,
           !.found = IF NameHit(run.req.name, Entries[i]) THEN @ \cup {Entries[i]} ELSE @]
  BY DEF ListStep
<1>2. /\ UNCHANGED <<list, table>> /\ run.pc = "list"
  BY DEF ListStep
<1>3. /\ run'.pc = "list" /\ run'.req = run.req /\ run'.must = run.must /\ run'.may = run.may
      /\ run'.frozen = run.frozen /\ run'.old = run.old /\ run'.moved = run.moved
      /\ run'.pos = i + 1
      /\ run'.found = IF NameHit(run.req.name, Entries[i]) THEN run.found \cup {Entries[i]} ELSE run.found
  BY <1>1, <1>2 DEF SearchTypeOK, Call
<1>4. i \in Live(Entries) /\ Entries \in Seq(File \cup {Gone}) /\ Entries[i] \in File
  BY DEF Rest, Live, Entries, SearchTypeOK, Call
<1>5. NameHit(run.req.name, Entries[i]) => Entries[i] \in run.may
  <2>1. CASE run.frozen
    BY <1>2, <1>4, <2>1 DEF Answering, Reading, Entries
  <2>2. CASE ~run.frozen
    BY <1>2, <1>4, <2>2 DEF Answering, Reading, Watching, Searching, Entries, Live, Fitting
  <2>3. QED
    BY <2>1, <2>2
<1>6. ASSUME NEW f \in run.must, Due(f) PROVE Due(f)'
  <2>1. f \in File /\ f # Gone /\ NameHit(run.req.name, f)
    BY <1>2, Constants DEF Answering, Reading, Watching, Searching, Fitting
  <2>2. CASE f \in run.found
    BY <1>3, <2>2 DEF Due
  <2>3. ASSUME NEW k \in 1..Len(Entries), k \geq run.pos, Entries[k] = f PROVE Due(f)'
    <3>1. k \in Rest
      BY <2>1, <2>3 DEF Rest, Live
    <3>2. k = i \/ k \geq i + 1
      BY <1>1, <1>4, <3>1 DEF Live
    <3>3. Entries' = Entries
      BY <1>2, <1>3 DEF Entries
    <3>4. QED
      BY <1>3, <2>1, <2>3, <3>2, <3>3 DEF Due
  <2>4. QED
    BY <1>6, <2>2, <2>3 DEF Due
<1>7. Reading'
  BY <1>2, <1>3, <1>5, <1>6 DEF Answering, Reading
<1>8. QED
  BY <1>2, <1>3, <1>7 DEF Answering, Once, Watching, Searching

LEMMA SearchStepAnswering == SearchTypeOK /\ Answering /\ SearchStep => Answering'
<1> SUFFICES ASSUME SearchTypeOK, Answering, SearchStep PROVE Answering'
  OBVIOUS
<1>1. ASSUME run'.pc \in {"idle", "aborted"}, list' = list PROVE Answering'
  BY <1>1 DEF Answering, Once, Searching
<1>2. CASE AskFails \/ ListRaises
  BY <1>1, <1>2 DEF AskFails, ListRaises, Idle
<1>3. CASE ContentsStep \/ ListEnd
  BY <1>1, <1>3 DEF ContentsStep, ListEnd, Idle
<1>4. QED
  BY <1>2, <1>3, NamesAnswering, ListStepAnswering DEF SearchStep

\* The answer of a content search.
LEMMA TextsRight ==
  ASSUME SearchTypeOK, Answering, run.pc = "contents"
  PROVE  /\ Merged \subseteq run.may
         /\ Unanswerable(run) \/ run.must \subseteq Merged
<1> DEFINE name == run.req.name
           content == run.req.content
<1>1. name \in QueryType /\ content \in QueryType /\ content.words # {}
  BY DEF SearchTypeOK, Call, Answering
<1>2. ASSUME NEW f \in Merged PROVE f \in run.may
  <2>1. f \in TextRows(content, run.req.scope) /\ (name.words # {} => f \in run.named)
    BY <1>2 DEF Merged, Texts
  <2>2. /\ f \in File /\ table[f] > NoText /\ InScope(run.req.scope, f)
        /\ Asked(content, Text[table[f]])
    BY <1>1, <2>1, MatchAsked DEF TextRows
  <2>3. Asked(name, Range(f))
    BY <2>1 DEF Answering, NamesRead, Asked
  <2>4. f \in Fitting(run.req, table, list)
    BY <1>1, <2>2, <2>3 DEF Fitting, InScope, FolderClause
  <2>5. QED
    BY <2>4 DEF Answering, Watching, Searching
<1>3. ASSUME ~Unanswerable(run), NEW f \in run.must PROVE f \in Merged
  <2>1. f \in Fitting(run.req, table, list)
    BY <1>3 DEF Answering, Watching, Searching
  <2>2. /\ f \in File /\ table[f] > NoText /\ Asked(content, Text[table[f]])
        /\ run.req.scope = {} \/ \E g \in run.req.scope : IsStrictPrefix(g, f)
    BY <1>1, <2>1 DEF Fitting
  <2>3. FtsQuery(content).words # {} /\ ~FtsQuery(content).broken /\ <<>> \notin run.req.scope
    BY <1>1, <1>3 DEF Unanswerable
  <2>4. InScope(run.req.scope, f)
    BY <2>2, <2>3 DEF InScope, FolderClause
  <2>5. f \in Texts
    BY <1>1, <2>2, <2>3, <2>4, MatchAsked DEF Texts, TextRows
  <2>6. name.words # {} => f \in run.named
    BY <1>3 DEF Answering, NamesRead
  <2>7. QED
    BY <2>5, <2>6 DEF Merged
<1>4. QED
  BY <1>2, <1>3

\* The answer of a search of the file list.
LEMMA ListRight ==
  ASSUME SearchTypeOK, Answering, ListEnd
  PROVE  /\ run.found \subseteq run.may
         /\ Unanswerable(run) \/ run.must \subseteq run.found
<1>1. run.pc = "list" /\ Rest = {} /\ Reading /\ Watching
  BY DEF ListEnd, Answering, Searching
<1>2. ASSUME ~Unanswerable(run), NEW f \in run.must PROVE f \in run.found
  <2>1. Due(f)
    BY <1>1, <1>2 DEF Reading, Unanswerable
  <2>2. f # Gone
    BY <1>1, Constants DEF Watching, Fitting
  <2>3. QED
    BY <1>1, <2>1, <2>2 DEF Due, Rest, Live
<1>3. QED
  BY <1>1, <1>2 DEF Reading

LEMMA NextAnswering == SearchTypeOK /\ Answering /\ [Next]_vars => Answering'
<1>1. UNCHANGED vars /\ Answering => Answering'
  BY DEF vars, Answering, Once, Watching, NamesRead, Unanswerable, Reading, Due, Entries
<1>2. QED
  BY <1>1, ElsewhereAnswering, UserAnswering, SearchStepAnswering DEF Next

LEMMA OnlyEndsAnswer ==
  ASSUME SearchTypeOK, [Next]_vars, run.pc \in {"contents", "list"}, run'.pc = "idle"
  PROVE  ContentsStep \/ ListEnd
<1>1. CASE UNCHANGED vars
  BY <1>1 DEF vars
<1>2. CASE Elsewhere
  <2>1. ASSUME UNCHANGED run PROVE FALSE
    BY <2>1
  <2>2. Watched(table', list').pc = run.pc /\ Watched(table', list') \in Call
    BY WatchedKept DEF Kept, SearchTypeOK
  <2>3. QED
    BY <1>2, <2>1, <2>2 DEF Elsewhere, Write, Delete, ListAdd, ListIs, ListRemove, ListRename,
                            Populate, Commit, Call
<1>3. CASE User
  BY <1>3 DEF User, Ask, AskNothing, ClearPreview, ScanFinished, Select, AddFolder, RemoveFolder
<1>4. CASE SearchStep
  BY <1>4 DEF SearchStep, AskFails, NamesStep, ListStep, ListRaises, Idle, SearchTypeOK, Call
<1>5. QED
  BY <1>1, <1>2, <1>3, <1>4 DEF Next

\* Every search answers with all that fitted from its first step to its last and
\* with nothing that fitted at no moment of it, whatever the monitor, the scans
\* and the index threads do meanwhile, except for the mishaps named.
THEOREM AnswersRight == Spec => AnswerRight
<1>1. Init => SearchTypeOK /\ Answering
  BY InitType, InitAnswering
<1>2. SearchTypeOK /\ Answering /\ [Next]_vars => (SearchTypeOK /\ Answering)'
  BY NextType, NextAnswering
<1> DEFINE Right ==
      run.pc \in {"contents", "list"} /\ run'.pc = "idle" =>
        /\ view'.shown \subseteq run.may
        /\ Unanswerable(run) \/ run.must \subseteq view'.shown
<1>3. SearchTypeOK /\ Answering /\ [Next]_vars => Right
  <2> SUFFICES ASSUME SearchTypeOK, Answering, [Next]_vars,
                      run.pc \in {"contents", "list"}, run'.pc = "idle"
               PROVE  /\ view'.shown \subseteq run.may
                      /\ Unanswerable(run) \/ run.must \subseteq view'.shown
    OBVIOUS
  <2>1. CASE ContentsStep
    <3>1. view'.shown = Merged /\ run.pc = "contents"
      BY <2>1 DEF ContentsStep, Shown
    <3>2. QED
      BY <3>1, TextsRight
  <2>2. CASE ListEnd
    <3>1. view'.shown = run.found
      BY <2>2 DEF ListEnd, Shown
    <3>2. QED
      BY <2>2, <3>1, ListRight
  <2>3. QED
    BY <2>1, <2>2, OnlyEndsAnswer
<1> HIDE DEF Right
<1>4. SearchTypeOK /\ Answering /\ [Next]_vars => [Right]_vars
  BY <1>3
<1>5. Spec => [][Right]_vars
  BY <1>1, <1>2, <1>4, PTL DEF Spec
<1>6. QED
  BY <1>5 DEF Right, AnswerRight
=============================================================================
