--------------------------- MODULE IndexPanelProofs ---------------------------
(***************************************************************************)
(* Proofs about IndexPanel, for all values of its constants.               *)
(***************************************************************************)
EXTENDS IndexPanel, ReindexProofs

-----------------------------------------------------------------------------
(* The invariant *)

\* What a thread has in hand, step by step.
Orderly(th) ==
  /\ th.torn \subseteq Extracted(th) /\ th.chunk \cap Extracted(th) = {}
  /\ th.ready \cap th.buf = {}
  /\ th.pc \in {"idle", "walk", "done"} => th.todo = {}
  /\ th.pc # "walk" => th.walk = {}
  /\ th.pc \in {"idle", "walk", "check", "done"} => th.chunk = {}
  /\ th.pc \in {"idle", "walk", "check", "stat", "done"} => Extracted(th) = {}

\* What it has read of a file not written since is what it is going to store.
Read(th) ==
  \A p \in Extracted(th) \ th.torn : disk[p].ver # 0 =>
    /\ th.text[p] = TextOf(p)
    /\ th.pc = "write" /\ p \in th.buf => th.mtime[p] # 0

ThreadsRight == \A t \in Thread : Orderly(thread[t]) /\ Read(thread[t])

\* No registered folder is inside another.
Apart == \A f, g \in Registered(db) : f = g \/ g \notin Within[f]

\* Files that are going to be indexed, known to the window.
Waiting == win.queued \cup UNION {win.pending[f] : f \in Folder}

\* The panel shows the table.
Shown(f) ==
  /\ win.badge[f] # "none" <=> f \in Registered(db)
  /\ win.at[f] = "new" => f \in Registered(db)
  /\ db.folders[f] = "indexed" => win.at[f] = "indexed"

\* Nothing goes on without a window.
Off == win = NoWindow /\ \A t \in Thread : thread[t] = IdleThread

\* What waits is of registered folders, or was to be indexed when they were
\* removed.
Owned == Waiting \subseteq RegisteredPaths(db) \cup hazard.revived

\* Only reports of changes name files.
OnlyChanges(s) == \A i \in 1..Len(s) : s[i].sig # "changed" => s[i].paths = {}

Listed ==
  /\ win.on => \A f \in Folder : Shown(f)
  /\ ~win.on => Off
  /\ \A f \in Folder : win.pending[f] \subseteq Under[f]
  /\ Owned
  /\ OnlyChanges(win.inbox)
  /\ win.button => win.queued = {}

\* What the thread is going to store with the present text: not a file it is
\* about to find unchanged, nor one written since it was read.
Due(th) == {p \in th.chunk : th.pc = "stat" => th.seen[p] # disk[p].ver}
Coming(th) ==
  th.todo \cup Due(th) \cup (Extracted(th) \ th.torn) \cup UNION {Under[f] : f \in th.walk}

\* Folders that count as indexed, or will when the run ends.
Tracked(f) ==
  /\ f \in Registered(db)
  /\ db.folders[f] = "indexed" \/ win.at[f] = "indexed" \/ f \in win.indexing \ lost.cut

Excused == lost.paths \cup hazard.stale
HasText(p) == disk[p].ver # 0 /\ disk[p].good

\* Nothing is left to do for the file.
Settled(p) == p \in Excused \/ ~HasText(p) \/ Searched(p)

Safe(f, p) ==
  \/ Settled(p)
  \/ p \in win.pending[f] \cup win.queued \cup Reported \cup unread
  \/ \E t \in Thread : p \in Coming(thread[t])

Covered == \A f \in Folder : Tracked(f) => \A p \in Under[f] : Safe(f, p)

PanelGood == Good /\ PanelTypeOK /\ ThreadsRight /\ Apart /\ Listed /\ Covered

-----------------------------------------------------------------------------
(* Signals *)

SignalType == [sig : {"changed", "scanDone", "finished"}, paths : SUBSET Path]

PathsIn(s) == UNION {s[i].paths : i \in 1..Len(s)}

LEMMA AppendIs ==
  ASSUME NEW s \in Seq(SignalType), NEW e \in SignalType
  PROVE  /\ Append(s, e) \in Seq(SignalType)
         /\ PathsIn(Append(s, e)) = PathsIn(s) \cup e.paths
         /\ OnlyChanges(s) /\ (e.sig # "changed" => e.paths = {}) => OnlyChanges(Append(s, e))
<1> DEFINE r == Append(s, e)
<1>1. r \in Seq(SignalType) /\ Len(r) = Len(s) + 1 /\ Len(s) \in Nat /\ r[Len(s) + 1] = e
      /\ \A i \in 1..Len(s) : r[i] = s[i]
  OBVIOUS
<1>2. 1..Len(r) = (1..Len(s)) \cup {Len(s) + 1}
  BY <1>1
<1> HIDE DEF r
<1>3. PathsIn(r) = PathsIn(s) \cup e.paths
  <2>1. {r[i].paths : i \in 1..Len(r)} = {s[i].paths : i \in 1..Len(s)} \cup {e.paths}
    BY <1>1, <1>2
  <2>2. QED
    BY <2>1 DEF PathsIn
<1>4. OnlyChanges(s) /\ (e.sig # "changed" => e.paths = {}) => OnlyChanges(r)
  BY <1>1, <1>2 DEF OnlyChanges
<1>5. QED
  BY <1>1, <1>3, <1>4 DEF r

LEMMA TailIs ==
  ASSUME NEW s \in Seq(SignalType), s # <<>>
  PROVE  /\ Tail(s) \in Seq(SignalType) /\ Head(s) \in SignalType
         /\ PathsIn(s) = Head(s).paths \cup PathsIn(Tail(s))
         /\ OnlyChanges(s) => /\ OnlyChanges(Tail(s))
                              /\ Head(s).sig # "changed" => Head(s).paths = {}
<1> DEFINE r == Tail(s)
<1>1. r \in Seq(SignalType) /\ Len(s) = Len(r) + 1 /\ Len(r) \in Nat /\ Head(s) = s[1]
      /\ Head(s) \in SignalType /\ \A i \in 1..Len(r) : r[i] = s[i + 1]
  OBVIOUS
<1> HIDE DEF r
<1>2. \A i \in 1..Len(s) : i = 1 \/ (i - 1 \in 1..Len(r) /\ s[i] = r[i - 1])
  <2> TAKE i \in 1..Len(s)
  <2>1. i \in Nat /\ (i = 1 \/ i - 1 \in 1..Len(r))
    BY <1>1
  <2>2. i - 1 \in 1..Len(r) => r[i - 1] = s[(i - 1) + 1]
    BY <1>1
  <2>3. (i - 1) + 1 = i
    BY <2>1
  <2>4. QED
    BY <2>1, <2>2, <2>3
<1>3. \A i \in 1..Len(r) : i + 1 \in 1..Len(s)
  BY <1>1
<1>4. PathsIn(s) = Head(s).paths \cup PathsIn(r)
  <2>1. ASSUME NEW x PROVE x \in PathsIn(s) <=> x \in Head(s).paths \cup PathsIn(r)
    <3>1. x \in PathsIn(s) <=> \E i \in 1..Len(s) : x \in s[i].paths
      BY DEF PathsIn
    <3>2. x \in PathsIn(r) <=> \E i \in 1..Len(r) : x \in r[i].paths
      BY DEF PathsIn
    <3>3. 1 \in 1..Len(s)
      BY <1>1
    <3>4. QED
      BY <1>1, <1>2, <1>3, <3>1, <3>2, <3>3
  <2>2. QED
    BY <2>1
<1>5. OnlyChanges(s) => OnlyChanges(r) /\ (Head(s).sig # "changed" => Head(s).paths = {})
  BY <1>1, <1>3 DEF OnlyChanges
<1>6. QED
  BY <1>1, <1>4, <1>5 DEF r

LEMMA EmptyInbox == PathsIn(<<>>) = {} /\ OnlyChanges(<<>>)
BY DEF PathsIn, OnlyChanges

-----------------------------------------------------------------------------
(* What the window's functions leave *)

LEMMA WindowIs ==
  ASSUME NEW w \in WindowState
  PROVE  /\ w.on \in BOOLEAN /\ w.button \in BOOLEAN /\ w.count \in {0, 1}
         /\ w.badge \in [Folder -> {"none", "pending", "done", "changed", "indexing"}]
         /\ w.at \in [Folder -> {"absent", "new", "indexed"}]
         /\ w.pending \in [Folder -> SUBSET Path]
         /\ w.indexing \subseteq Folder /\ w.queued \subseteq Path
         /\ w.inbox \in Seq(SignalType)
BY DEF WindowState, SignalType

\* r shows the folders of tab; the rest is as in w.
Loaded(w, tab, r) ==
  /\ r \in WindowState
  /\ r.on = w.on /\ r.pending = w.pending /\ r.indexing = w.indexing
  /\ r.queued = w.queued /\ r.inbox = w.inbox /\ r.button = w.button
  /\ r.at = tab.folders
  /\ \A f \in Folder : r.badge[f] # "none" <=> f \in Registered(tab)

LEMMA LoadFoldersIs ==
  ASSUME NEW w \in WindowState, NEW tab \in Tables, NEW r, r = LoadFolders(w, tab)
  PROVE  Loaded(w, tab, r)
<1> DEFINE badge == [f \in Folder |-> CASE tab.folders[f] = "absent"  -> "none"
                                        [] tab.folders[f] = "new"     -> "pending"
                                        [] tab.folders[f] = "indexed" -> "done"]
<1>1. tab.folders \in [Folder -> {"absent", "new", "indexed"}]
  BY DEF Tables
<1>2. \A f \in Folder : /\ badge[f] \in {"none", "pending", "done"}
                        /\ badge[f] # "none" <=> f \in Registered(tab)
  <2> TAKE f \in Folder
  <2>1. tab.folders[f] \in {"absent", "new", "indexed"}
    BY <1>1
  <2>2. QED
    BY <2>1 DEF Registered
<1>3. badge \in [Folder -> {"none", "pending", "done", "changed", "indexing"}]
  BY <1>2
<1>4. r = [w EXCEPT !.at = tab.folders, !.badge = badge]
  BY DEF LoadFolders
<1> HIDE DEF badge
<1>5. /\ r.on = w.on /\ r.pending = w.pending /\ r.indexing = w.indexing
      /\ r.queued = w.queued /\ r.inbox = w.inbox /\ r.at = tab.folders /\ r.badge = badge
      /\ r.button = w.button
  BY <1>4 DEF WindowState
<1>6. r \in WindowState
  BY <1>1, <1>3, <1>4 DEF WindowState
<1>7. QED
  BY <1>2, <1>5, <1>6 DEF Loaded

\* In r the files of S wait with the folders around them.
HasNoted(w, S, r) ==
  /\ r \in WindowState
  /\ r.on = w.on /\ r.at = w.at /\ r.indexing = w.indexing
  /\ r.queued = w.queued /\ r.inbox = w.inbox /\ r.button = w.button
  /\ \A f \in Folder :
       /\ r.pending[f] = IF w.badge[f] = "none" THEN w.pending[f]
                         ELSE w.pending[f] \cup (S \cap Under[f])
       /\ r.badge[f] = "none" <=> w.badge[f] = "none"

LEMMA NotedIs ==
  ASSUME NEW w \in WindowState, NEW S \in SUBSET Path, NEW r, r = Noted(w, S)
  PROVE  HasNoted(w, S, r)
<1> DEFINE pending == [f \in Folder |-> IF w.badge[f] = "none" THEN w.pending[f]
                                        ELSE w.pending[f] \cup (S \cap Under[f])]
           badge == [f \in Folder |->
                       IF w.badge[f] # "none" /\ pending[f] # {} THEN "changed" ELSE w.badge[f]]
<1>1. pending \in [Folder -> SUBSET Path]
  BY WindowIs
<1>2. /\ r = [w EXCEPT !.pending = pending, !.badge = badge]
      /\ \A f \in Folder : pending[f] = IF w.badge[f] = "none" THEN w.pending[f]
                                        ELSE w.pending[f] \cup (S \cap Under[f])
  BY DEF Noted, WindowState
<1> HIDE DEF pending
<1>3. badge \in [Folder -> {"none", "pending", "done", "changed", "indexing"}]
      /\ \A f \in Folder : badge[f] = "none" <=> w.badge[f] = "none"
  BY WindowIs
<1> HIDE DEF badge
<1>4. /\ r.on = w.on /\ r.at = w.at /\ r.indexing = w.indexing
      /\ r.queued = w.queued /\ r.inbox = w.inbox /\ r.pending = pending /\ r.badge = badge
      /\ r.button = w.button
  BY <1>2 DEF WindowState
<1>5. r \in WindowState
  <2>1. badge \in [Folder -> {"none", "pending", "done", "changed", "indexing"}]
    BY <1>3
  <2>2. [w EXCEPT !.pending = pending, !.badge = badge] \in WindowState
    BY <1>1, <2>1 DEF WindowState
  <2>3. QED
    BY <1>2, <2>2
<1>6. QED
  BY <1>2, <1>3, <1>4, <1>5 DEF HasNoted

\* r is w but for the count of threads and the button.
SamePanel(w, r) ==
  /\ r \in WindowState
  /\ r.on = w.on /\ r.at = w.at /\ r.badge = w.badge /\ r.pending = w.pending
  /\ r.indexing = w.indexing /\ r.queued = w.queued /\ r.inbox = w.inbox

LEMMA ThreadDoneIs ==
  ASSUME NEW w \in WindowState, NEW r, r = ThreadDone(w)
  PROVE  SamePanel(w, r)
<1> DEFINE count == IF w.count > 0 THEN w.count - 1 ELSE 0
           button == w.button \/ count = 0
<1>1. count \in 0..1 /\ button \in BOOLEAN
  BY WindowIs
<1>2. r = [w EXCEPT !.count = count, !.button = button]
  BY DEF ThreadDone, WindowState
<1> HIDE DEF count, button
<1>3. QED
  BY <1>1, <1>2 DEF SamePanel, WindowState

\* In r the run has ended.
HasMarked(w, r) ==
  /\ r \in WindowState
  /\ r.on = w.on /\ r.pending = w.pending /\ r.queued = w.queued /\ r.inbox = w.inbox
  /\ r.indexing = {}
  /\ \A f \in Folder : /\ r.at[f] = IF f \in w.indexing THEN "indexed" ELSE w.at[f]
                       /\ r.badge[f] = "none" <=> w.badge[f] = "none"

LEMMA MarkedIs ==
  ASSUME NEW w \in WindowState, NEW r, r = Marked(w)
  PROVE  HasMarked(w, r)
<1> DEFINE at == [f \in Folder |-> IF f \in w.indexing THEN "indexed" ELSE w.at[f]]
           badge == [f \in Folder |->
                       IF f \notin w.indexing \/ w.badge[f] = "none" THEN w.badge[f]
                       ELSE IF w.pending[f] # {} THEN "changed" ELSE "done"]
<1>1. at \in [Folder -> {"absent", "new", "indexed"}]
      /\ \A f \in Folder : at[f] = IF f \in w.indexing THEN "indexed" ELSE w.at[f]
  BY WindowIs
<1>2. badge \in [Folder -> {"none", "pending", "done", "changed", "indexing"}]
      /\ \A f \in Folder : badge[f] = "none" <=> w.badge[f] = "none"
  BY WindowIs
<1>3. r = [w EXCEPT !.at = at, !.badge = badge, !.indexing = {}]
  BY DEF Marked, WindowState
<1> HIDE DEF at, badge
<1>4. /\ r.on = w.on /\ r.pending = w.pending /\ r.queued = w.queued /\ r.inbox = w.inbox
      /\ r.indexing = {} /\ r.at = at /\ r.badge = badge
  BY <1>3 DEF WindowState
<1>5. r \in WindowState
  <2>1. at \in [Folder -> {"absent", "new", "indexed"}]
        /\ badge \in [Folder -> {"none", "pending", "done", "changed", "indexing"}]
    BY <1>1, <1>2
  <2>2. [w EXCEPT !.at = at, !.badge = badge, !.indexing = {}] \in WindowState
    BY <2>1 DEF WindowState
  <2>3. QED
    BY <1>3, <2>2
<1>6. QED
  BY <1>1, <1>2, <1>4, <1>5 DEF HasMarked

LEMMA NewWindowIs ==
  /\ NewWindow \in WindowState /\ NoWindow \in WindowState
  /\ NewWindow.on /\ ~NoWindow.on
  /\ \A w \in {NewWindow, NoWindow} :
       /\ w.indexing = {} /\ w.queued = {} /\ w.inbox = <<>>
       /\ \A f \in Folder : w.pending[f] = {} /\ w.at[f] = "absent" /\ w.badge[f] = "none"
<1>1. NewWindow \in WindowState
  BY DEF NewWindow, WindowState
<1>2. NoWindow = [NewWindow EXCEPT !.on = FALSE, !.button = FALSE]
  BY DEF NoWindow
<1>3. NoWindow \in WindowState
  BY <1>1, <1>2 DEF WindowState
<1>4. QED
  BY <1>1, <1>3 DEF NewWindow, NoWindow

-----------------------------------------------------------------------------
(* The tables, files and threads below the window *)

LEMMA FoldersType ==
  ASSUME Good
  PROVE  db.folders \in [Folder -> {"absent", "new", "indexed"}] /\ Registered(db) \subseteq Folder
BY DEF Good, TablesGood, Tables, Registered

LEMMA UpdateIndexedAtIs ==
  ASSUME Good, NEW F \in SUBSET Folder, db' = UpdateIndexedAt(db, F)
  PROVE  /\ Forgot(db, {}, db') /\ Registered(db') = Registered(db)
         /\ \A f \in Folder : db'.folders[f] = "indexed" => db.folders[f] = "indexed" \/ f \in F
<1> DEFINE folders == [f \in Folder |-> IF f \in F /\ db.folders[f] # "absent" THEN "indexed"
                                        ELSE db.folders[f]]
<1>1. db \in Tables /\ Agree(db) /\ db.folders \in [Folder -> {"absent", "new", "indexed"}]
  BY FoldersType DEF Good, TablesGood
<1>2. folders \in [Folder -> {"absent", "new", "indexed"}]
  BY <1>1
<1>3. db' = [db EXCEPT !.folders = folders]
  BY DEF UpdateIndexedAt
<1>4. \A f \in Folder : /\ folders[f] = "absent" <=> db.folders[f] = "absent"
                        /\ folders[f] = "indexed" => db.folders[f] = "indexed" \/ f \in F
  BY <1>1
<1> HIDE DEF folders
<1>5. OtherFolders(db, folders, db')
  BY <1>1, <1>2, <1>3, FoldersIs
<1>6. Forgot(db, {}, db')
  BY <1>5 DEF OtherFolders, Forgot, FileId
<1>7. QED
  BY <1>4, <1>5, <1>6 DEF OtherFolders, Registered

LEMMA EndRunGood == ASSUME PanelGood, EndRun PROVE Good'
<1>1. UNCHANGED <<disk, clock, thread, jobs, hazard>>
  BY DEF EndRun
<1>2. CASE db' = UpdateIndexedAt(db, win.indexing) /\ UNCHANGED faults
  <2>1. win.indexing \in SUBSET Folder
    BY WindowIs DEF PanelGood, PanelTypeOK
  <2>2. Forgot(db, {}, db') /\ RegisteredPaths(db') = RegisteredPaths(db)
    BY <1>2, <2>1, UpdateIndexedAtIs DEF PanelGood, RegisteredPaths
  <2>3. \A t \in Thread : Held(thread[t]) \subseteq RegisteredPaths(db') \cup hazard'.revived
    BY <1>1, <2>2 DEF PanelGood, Good, ThreadGood, Tied
  <2>4. hazard' \in [stale : SUBSET Path, revived : SUBSET Path]
    BY <1>1 DEF PanelGood, Good, DiskGood
  <2>5. (RegisteredPaths(db) \cup hazard.revived) \ {}
            \subseteq RegisteredPaths(db') \cup hazard'.revived
    BY <1>1, <2>2
  <2>6. QED
    BY <1>1, <1>2, <2>2, <2>3, <2>4, <2>5, ForgetGood DEF PanelGood
<1>3. CASE Fault /\ UNCHANGED db
  <2>1. faults' \in Nat
    BY <1>3 DEF Fault, PanelGood, Good, DiskGood
  <2>2. DiskGood' /\ TablesGood'
    BY <1>1, <1>3, <2>1 DEF PanelGood, Good, DiskGood, TablesGood, Dated, RemovedStaysRemoved,
                           RegisteredPaths, SkippedIsCurrent, HasContent
  <2>3. (\A t \in Thread : ThreadGood(thread[t]))'
    BY <1>1, <1>3 DEF PanelGood, Good, ThreadGood, Current, Tied, RegisteredPaths
  <2>4. QED
    BY <1>1, <2>2, <2>3 DEF PanelGood, Good
<1>4. QED
  BY <1>2, <1>3 DEF EndRun

LEMMA ExitGood == ASSUME PanelGood, Exit PROVE Good'
<1>1. UNCHANGED <<disk, clock, db, jobs, faults, hazard>>
      /\ thread' = [t \in Thread |-> IdleThread]
  BY DEF Exit
<1>2. DiskGood' /\ TablesGood'
  BY <1>1 DEF PanelGood, Good, DiskGood, TablesGood, Dated, RemovedStaysRemoved, RegisteredPaths,
              SkippedIsCurrent, HasContent
<1>3. ThreadGood(IdleThread)
  BY IdleGood DEF PanelGood
<1>4. \A t \in Thread : thread'[t] = IdleThread
  BY <1>1
<1>5. (\A t \in Thread : ThreadGood(thread[t]))'
  BY <1>1, <1>3, <1>4 DEF ThreadGood, Current, Tied, RegisteredPaths
<1>6. QED
  BY <1>1, <1>2, <1>5, IdleIs DEF Good

LEMMA StartsGood ==
  ASSUME PanelGood, StartQueued \/ ClickIndex
  PROVE  Good'
<1>1. Good /\ UNCHANGED <<disk, clock, db, faults, hazard>>
  BY DEF PanelGood, StartQueued, ClickIndex
<1>2. Waiting \subseteq RegisteredPaths(db) \cup hazard.revived
  BY DEF PanelGood, Listed, Owned
<1>3. CASE StartQueued
  <2>1. PICK t \in Thread : StartPaths(t, win.queued)
    BY <1>3 DEF StartQueued
  <2>2. win.queued \subseteq RegisteredPaths(db) \cup hazard.revived
    BY <1>2 DEF Waiting
  <2>3. QED
    BY <1>1, <2>1, <2>2, StartPathsGood
<1>4. CASE ClickIndex
  <2>1. PICK t \in Thread : IF FullFolders # {} THEN StartFolders(t, FullFolders)
                                                ELSE StartPaths(t, ChangedPaths)
    BY <1>4 DEF ClickIndex
  <2>2. ChangedPaths \subseteq RegisteredPaths(db) \cup hazard.revived
    BY <1>2 DEF Waiting, ChangedPaths, ChangedFolders
  <2>3. FullFolders \subseteq Registered(db)
    BY <1>4 DEF ClickIndex, PanelGood, Listed, Shown, FullFolders
  <2>4. QED
    BY <1>1, <2>1, <2>2, <2>3, StartFoldersGood, StartPathsGood
<1>5. QED
  BY <1>3, <1>4

\* A fault of the monitor or the window alone.
LEMMA FaultGood ==
  ASSUME Good, UNCHANGED <<disk, clock, db, thread, jobs, hazard>>, UNCHANGED faults \/ Fault
  PROVE  Good'
<1>1. faults' \in Nat
  BY DEF Good, DiskGood, Fault
<1>2. QED
  BY <1>1 DEF Good, DiskGood, TablesGood, Dated, RemovedStaysRemoved, RegisteredPaths,
     SkippedIsCurrent, HasContent, ThreadGood, Current, Tied

LEMMA PanelKeepsGood == ASSUME PanelGood, [PanelNext]_panelVars PROVE Good'
<1>1. Good
  BY DEF PanelGood
<1>2. CASE UNCHANGED vars
  BY <1>1, <1>2, StutterGood
<1>3. CASE \E p \in Path : PanelDelete(p) \/ \E good \in BOOLEAN : PanelWrite(p, good)
  BY <1>1, <1>3, FileGood DEF FileStep, PanelDelete, PanelWrite
<1>4. CASE \E f \in Folder : UserAdd(f) \/ UserRemove(f)
  BY <1>1, <1>4, AddFolderGood, RemoveFolderGood DEF UserAdd, UserRemove
<1>5. CASE \E t \in Thread : PanelThread(t) \/ PanelFinish(t)
  BY <1>1, <1>5, NextGood DEF Next, PanelThread, PanelFinish
<1>6. CASE UNCHANGED panelVars \/ Poll \/ ScanDone \/ OnPathsChanged \/ StartApp
  BY <1>2, <1>6 DEF panelVars, Poll, ScanDone, OnPathsChanged, StartApp
<1>7. ASSUME NEW S, PollCutShort(S) \/ OnScanFinished PROVE Good'
  BY <1>1, <1>7, FaultGood DEF PollCutShort, OnScanFinished
<1>8. QED
  BY <1>3, <1>4, <1>5, <1>6, <1>7, EndRunGood, ExitGood, StartsGood DEF PanelNext, Slot

-----------------------------------------------------------------------------
(* The window step by step *)

\* r is w with other signals.
OtherInbox(w, s, r) ==
  /\ r \in WindowState /\ r.inbox = s
  /\ r.on = w.on /\ r.at = w.at /\ r.badge = w.badge /\ r.pending = w.pending
  /\ r.indexing = w.indexing /\ r.queued = w.queued /\ r.button = w.button

LEMMA InboxIs ==
  ASSUME NEW w \in WindowState, NEW s \in Seq(SignalType), NEW r, r = [w EXCEPT !.inbox = s]
  PROVE  OtherInbox(w, s, r)
BY DEF OtherInbox, WindowState, SignalType

LEMMA SignalIs ==
  ASSUME PanelTypeOK, NEW sig \in {"changed", "scanDone", "finished"}, NEW S \in SUBSET Path,
         Signal(sig, S)
  PROVE  /\ OtherInbox(win, win'.inbox, win')
         /\ PathsIn(win'.inbox) = PathsIn(win.inbox) \cup S
         /\ OnlyChanges(win.inbox) /\ (sig # "changed" => S = {}) => OnlyChanges(win'.inbox)
<1> DEFINE e == [sig |-> sig, paths |-> S]
<1>1. win \in WindowState /\ win.inbox \in Seq(SignalType)
  BY WindowIs DEF PanelTypeOK
<1>2. e \in SignalType /\ e.paths = S /\ e.sig = sig
  BY DEF SignalType
<1>3. win' = [win EXCEPT !.inbox = Append(win.inbox, e)]
  BY DEF Signal
<1> HIDE DEF e
<1>4. /\ Append(win.inbox, e) \in Seq(SignalType)
      /\ PathsIn(Append(win.inbox, e)) = PathsIn(win.inbox) \cup e.paths
      /\ OnlyChanges(win.inbox) /\ (e.sig # "changed" => e.paths = {})
            => OnlyChanges(Append(win.inbox, e))
  BY <1>1, <1>2, AppendIs
<1>5. OtherInbox(win, Append(win.inbox, e), win')
  BY <1>1, <1>3, <1>4, InboxIs
<1>6. QED
  BY <1>2, <1>4, <1>5 DEF OtherInbox

LEMMA PollCutShortIs ==
  ASSUME PanelTypeOK, NEW S \in SUBSET Path, PollCutShort(S)
  PROVE  /\ UNCHANGED <<disk, clock, db, thread, jobs, hazard, exits, scans, edits>>
         /\ OtherInbox(win, win'.inbox, win') /\ win.on /\ unread' = {}
         /\ PathsIn(win'.inbox) = PathsIn(win.inbox) \cup S
         /\ OnlyChanges(win.inbox) => OnlyChanges(win'.inbox)
         /\ lost' \in [paths : SUBSET Path, cut : SUBSET Folder] /\ lost'.cut = lost.cut
         /\ lost'.paths = lost.paths \cup (unread \ S)
<1>1. /\ win \in WindowState /\ lost \in [paths : SUBSET Path, cut : SUBSET Folder]
      /\ unread \in SUBSET Path
  BY DEF PanelTypeOK
<1>2. /\ OtherInbox(win, win'.inbox, win') /\ PathsIn(win'.inbox) = PathsIn(win.inbox) \cup S
      /\ OnlyChanges(win.inbox) => OnlyChanges(win'.inbox)
  <2>1. CASE S = {}
    BY <1>1, <2>1 DEF PollCutShort, OtherInbox
  <2>2. CASE S # {}
    BY <2>2, SignalIs DEF PollCutShort
  <2>3. QED
    BY <2>1, <2>2
<1>3. QED
  BY <1>1, <1>2 DEF PollCutShort

LEMMA RestIs ==
  ASSUME PanelTypeOK, NEW sig, Handle(sig)
  PROVE  /\ OtherInbox(win, Rest.inbox, Rest)
         /\ Head(win.inbox).paths \in SUBSET Path /\ Head(win.inbox).sig = sig
         /\ PathsIn(win.inbox) = Head(win.inbox).paths \cup PathsIn(Rest.inbox)
         /\ OnlyChanges(win.inbox) =>
              OnlyChanges(Rest.inbox) /\ (sig # "changed" => Head(win.inbox).paths = {})
<1>1. win \in WindowState /\ win.inbox \in Seq(SignalType) /\ win.inbox # <<>>
      /\ Head(win.inbox).sig = sig
  BY WindowIs DEF PanelTypeOK, Handle
<1>2. /\ Tail(win.inbox) \in Seq(SignalType) /\ Head(win.inbox) \in SignalType
      /\ PathsIn(win.inbox) = Head(win.inbox).paths \cup PathsIn(Tail(win.inbox))
      /\ OnlyChanges(win.inbox) => /\ OnlyChanges(Tail(win.inbox))
                                   /\ sig # "changed" => Head(win.inbox).paths = {}
  BY <1>1, TailIs
<1>3. Rest = [win EXCEPT !.inbox = Tail(win.inbox)]
  BY DEF Rest
<1>4. OtherInbox(win, Tail(win.inbox), Rest)
  BY <1>1, <1>2, <1>3, InboxIs
<1>5. QED
  BY <1>1, <1>2, <1>4 DEF OtherInbox, SignalType

LEMMA OnPathsChangedIs ==
  ASSUME PanelTypeOK, OnPathsChanged
  PROVE  /\ HasNoted(Rest, Head(win.inbox).paths, win') /\ OtherInbox(win, Rest.inbox, Rest)
         /\ PathsIn(win.inbox) = Head(win.inbox).paths \cup PathsIn(win'.inbox)
         /\ OnlyChanges(win.inbox) => OnlyChanges(win'.inbox)
<1>1. Handle("changed") /\ win' = Noted(Rest, Head(win.inbox).paths)
  BY DEF OnPathsChanged
<1>2. /\ OtherInbox(win, Rest.inbox, Rest) /\ Head(win.inbox).paths \in SUBSET Path
      /\ PathsIn(win.inbox) = Head(win.inbox).paths \cup PathsIn(Rest.inbox)
      /\ OnlyChanges(win.inbox) => OnlyChanges(Rest.inbox)
  BY <1>1, RestIs
<1>3. HasNoted(Rest, Head(win.inbox).paths, win')
  BY <1>1, <1>2, NotedIs DEF OtherInbox
<1>4. QED
  BY <1>2, <1>3 DEF HasNoted

LEMMA OnScanFinishedIs ==
  ASSUME PanelTypeOK, Good, OnScanFinished
  PROVE  /\ OtherInbox(win, Rest.inbox, Rest)
         /\ Loaded(Rest, db, win') \/ OtherInbox(win, Rest.inbox, win')
         /\ OnlyChanges(win.inbox) => /\ OnlyChanges(win'.inbox)
                                      /\ PathsIn(win.inbox) = PathsIn(win'.inbox)
<1>1. /\ Handle("scanDone") /\ db \in Tables
      /\ win' = LoadFolders(Rest, db) \/ win' = Rest
  BY DEF OnScanFinished, Good, TablesGood
<1>2. /\ OtherInbox(win, Rest.inbox, Rest)
      /\ PathsIn(win.inbox) = Head(win.inbox).paths \cup PathsIn(Rest.inbox)
      /\ OnlyChanges(win.inbox) => OnlyChanges(Rest.inbox) /\ Head(win.inbox).paths = {}
  BY <1>1, RestIs
<1>3. Loaded(Rest, db, win') \/ win' = Rest
  BY <1>1, <1>2, LoadFoldersIs DEF OtherInbox
<1>4. QED
  BY <1>2, <1>3 DEF Loaded, OtherInbox

LEMMA EmptyQueueIs ==
  ASSUME NEW r \in WindowState, NEW w, w = [r EXCEPT !.queued = {}, !.count = 1]
  PROVE  /\ w \in WindowState /\ w.on = r.on /\ w.at = r.at /\ w.badge = r.badge
         /\ w.pending = r.pending /\ w.indexing = r.indexing /\ w.queued = {}
         /\ w.inbox = r.inbox
<1>1. 1 \in 0..1 /\ {} \in SUBSET Path
  OBVIOUS
<1>2. QED
  BY <1>1 DEF WindowState

LEMMA StartQueuedIs ==
  ASSUME PanelTypeOK, StartQueued
  PROVE  /\ win' \in WindowState
         /\ win'.on = win.on /\ win'.at = win.at /\ win'.badge = win.badge
         /\ win'.pending = win.pending /\ win'.indexing = win.indexing /\ win'.queued = {}
         /\ OnlyChanges(win.inbox) => /\ OnlyChanges(win'.inbox)
                                      /\ PathsIn(win.inbox) = PathsIn(win'.inbox)
<1> DEFINE w == [Rest EXCEPT !.queued = {}, !.count = 1]
<1>1. Handle("finished") /\ win' = ThreadDone(w)
  BY DEF StartQueued
<1>2. /\ OtherInbox(win, Rest.inbox, Rest)
      /\ PathsIn(win.inbox) = Head(win.inbox).paths \cup PathsIn(Rest.inbox)
      /\ OnlyChanges(win.inbox) => OnlyChanges(Rest.inbox) /\ Head(win.inbox).paths = {}
  BY <1>1, RestIs
<1>3. /\ w \in WindowState /\ w.on = Rest.on /\ w.at = Rest.at /\ w.badge = Rest.badge
      /\ w.pending = Rest.pending /\ w.indexing = Rest.indexing /\ w.queued = {}
      /\ w.inbox = Rest.inbox
  BY <1>2, EmptyQueueIs DEF OtherInbox
<1> HIDE DEF w
<1>4. SamePanel(w, win')
  BY <1>1, <1>3, ThreadDoneIs
<1>5. QED
  BY <1>2, <1>3, <1>4 DEF SamePanel, OtherInbox

LEMMA EndRunIs ==
  ASSUME PanelTypeOK, EndRun
  PROVE  /\ win' \in WindowState
         /\ win'.on = win.on /\ win'.pending = win.pending /\ win'.queued = win.queued
         /\ win'.indexing = {}
         /\ \A f \in Folder : /\ win'.at[f] = IF f \in win.indexing THEN "indexed" ELSE win.at[f]
                              /\ win'.badge[f] = "none" <=> win.badge[f] = "none"
         /\ OnlyChanges(win.inbox) => /\ OnlyChanges(win'.inbox)
                                      /\ PathsIn(win.inbox) = PathsIn(win'.inbox)
<1> DEFINE w == Marked(Rest)
<1>1. Handle("finished") /\ win' = ThreadDone(w)
  BY DEF EndRun
<1>2. /\ OtherInbox(win, Rest.inbox, Rest)
      /\ PathsIn(win.inbox) = Head(win.inbox).paths \cup PathsIn(Rest.inbox)
      /\ OnlyChanges(win.inbox) => OnlyChanges(Rest.inbox) /\ Head(win.inbox).paths = {}
  BY <1>1, RestIs
<1>3. HasMarked(Rest, w)
  BY <1>2, MarkedIs DEF OtherInbox
<1> HIDE DEF w
<1>4. SamePanel(w, win')
  BY <1>1, <1>3, ThreadDoneIs DEF HasMarked
<1>5. QED
  BY <1>2, <1>3, <1>4 DEF SamePanel, HasMarked, OtherInbox

LEMMA ClickIndexIs ==
  ASSUME PanelTypeOK, ClickIndex
  PROVE  /\ win' \in WindowState
         /\ win'.on = win.on /\ win'.at = win.at /\ win'.inbox = win.inbox
         /\ win'.indexing = Active /\ win'.queued = IF FullFolders # {} THEN ChangedPaths ELSE {}
         /\ \A f \in Folder :
              /\ win'.pending[f] = IF f \in ChangedFolders THEN {} ELSE win.pending[f]
              /\ win'.badge[f] = "none" <=> win.badge[f] = "none"
<1> DEFINE pending == [f \in Folder |-> IF f \in ChangedFolders THEN {} ELSE win.pending[f]]
           badge == [f \in Folder |-> IF f \in Active /\ win.badge[f] # "none" THEN "indexing"
                                      ELSE win.badge[f]]
           queued == IF FullFolders # {} THEN ChangedPaths ELSE {}
<1>1. win \in WindowState /\ Active \subseteq Folder /\ ChangedFolders \subseteq Folder
  BY DEF PanelTypeOK, Active, FullFolders, ChangedFolders
<1>2. pending \in [Folder -> SUBSET Path]
      /\ \A f \in Folder : pending[f] = IF f \in ChangedFolders THEN {} ELSE win.pending[f]
  BY <1>1, WindowIs
<1>3. badge \in [Folder -> {"none", "pending", "done", "changed", "indexing"}]
      /\ \A f \in Folder : badge[f] = "none" <=> win.badge[f] = "none"
  BY <1>1, WindowIs
<1>4. queued \subseteq Path
  BY <1>1, WindowIs DEF ChangedPaths
<1>5. win' = [win EXCEPT !.pending = pending, !.badge = badge, !.indexing = Active,
                         !.button = FALSE, !.count = 1, !.queued = queued]
  BY <1>1 DEF ClickIndex, WindowState
<1> HIDE DEF pending, badge
<1>6. /\ win'.on = win.on /\ win'.at = win.at /\ win'.inbox = win.inbox
      /\ win'.indexing = Active /\ win'.queued = queued
      /\ win'.pending = pending /\ win'.badge = badge
  BY <1>1, <1>5 DEF WindowState
<1> HIDE DEF queued
<1>7. FALSE \in BOOLEAN /\ 1 \in 0..1
  OBVIOUS
<1>8. win' \in WindowState
  BY <1>1, <1>2, <1>3, <1>4, <1>5, <1>7 DEF WindowState
<1>9. QED
  BY <1>2, <1>3, <1>6, <1>8 DEF queued

LEMMA UserAddIs ==
  ASSUME PanelTypeOK, Good', NEW f \in Folder, UserAdd(f)
  PROVE  Loaded(win, db', win')
<1>1. db' \in Tables /\ win' = LoadFolders(win, db') /\ win \in WindowState
  BY DEF Good, TablesGood, UserAdd, PanelTypeOK
<1>2. QED
  BY <1>1, LoadFoldersIs

LEMMA UserRemoveIs ==
  ASSUME PanelTypeOK, Good', NEW f \in Folder, UserRemove(f)
  PROVE  /\ win' \in WindowState
         /\ win'.on = win.on /\ win'.indexing = win.indexing /\ win'.queued = win.queued
         /\ win'.inbox = win.inbox /\ win'.button = win.button /\ win'.at = db'.folders
         /\ win'.pending = [win.pending EXCEPT ![f] = {}]
         /\ \A g \in Folder : win'.badge[g] # "none" <=> g \in Registered(db')
<1> DEFINE w == [win EXCEPT !.pending[f] = {}]
<1>1. db' \in Tables /\ win' = LoadFolders(w, db') /\ win \in WindowState
  BY DEF Good, TablesGood, UserRemove, PanelTypeOK
<1>2. /\ w \in WindowState /\ w.on = win.on /\ w.indexing = win.indexing
      /\ w.queued = win.queued /\ w.inbox = win.inbox /\ w.button = win.button
      /\ w.pending = [win.pending EXCEPT ![f] = {}]
  BY <1>1 DEF WindowState
<1> HIDE DEF w
<1>3. Loaded(w, db', win')
  BY <1>1, <1>2, LoadFoldersIs
<1>4. QED
  BY <1>2, <1>3 DEF Loaded

LEMMA StartAppIs ==
  ASSUME Good, StartApp
  PROVE  Loaded(NewWindow, db, win')
<1>1. db \in Tables /\ win' = LoadFolders(NewWindow, db)
  BY DEF Good, TablesGood, StartApp
<1>2. QED
  BY <1>1, NewWindowIs, LoadFoldersIs

-----------------------------------------------------------------------------
(* Types *)

LEMMA HeldType == ASSUME NEW th \in ThreadState PROVE Held(th) \subseteq Path
BY UnderPaths DEF ThreadState, Held, Extracted

LEMMA ReportedIs ==
  ASSUME PanelTypeOK
  PROVE  Reported = PathsIn(win.inbox) /\ Reported \subseteq Path
<1>1. ASSUME NEW s \in Seq(SignalType), NEW i \in 1..Len(s) PROVE s[i].paths \in SUBSET Path
  <2>1. s[i] \in SignalType
    OBVIOUS
  <2>2. QED
    BY <2>1 DEF SignalType
<1>2. \A i \in 1..Len(win.inbox) : win.inbox[i].paths \in SUBSET Path
  BY <1>1, WindowIs DEF PanelTypeOK
<1>3. QED
  BY <1>2 DEF Reported, PathsIn

LEMMA LostKept ==
  ASSUME PanelTypeOK, PanelGood, PanelNext
  PROVE  lost' \in [paths : SUBSET Path, cut : SUBSET Folder]
<1>1. /\ lost \in [paths : SUBSET Path, cut : SUBSET Folder] /\ unread \subseteq Path
      /\ win \in WindowState
  BY DEF PanelTypeOK
<1>2. CASE UNCHANGED lost \/ ScanDone \/ ClickIndex
  BY <1>1, <1>2 DEF ScanDone, ClickIndex
<1>3. ASSUME NEW f \in Folder, UserAdd(f) PROVE lost' \in [paths : SUBSET Path, cut : SUBSET Folder]
  BY <1>1, <1>3 DEF UserAdd
<1>4. CASE EndRun
  <2>1. UNION {Under[f] : f \in win.indexing \cap lost.cut} \subseteq Path
    BY <1>1, WindowIs, UnderPaths
  <2>2. QED
    BY <1>1, <1>4, <2>1 DEF EndRun
<1>5. CASE Exit
  <2>1. UnderWay \subseteq Path
    BY <1>1, HeldType, ReportedIs, WindowIs DEF UnderWay, PanelGood, Good
  <2>2. UNION {win.pending[f] : f \in Folder} \subseteq Path
    BY <1>1, WindowIs
  <2>3. QED
    BY <1>1, <1>5, <2>1, <2>2 DEF Exit
<1>6. ASSUME NEW t \in Thread, PanelThread(t)
      PROVE  lost' \in [paths : SUBSET Path, cut : SUBSET Folder]
  <2>1. thread[t] \in ThreadState
    BY ThreadIs DEF PanelGood
  <2>2. Dropped(thread[t]) \subseteq Path
    BY <2>1 DEF Dropped, Extracted, ThreadState
  <2>3. QED
    BY <1>1, <1>6, <2>2 DEF PanelThread
<1>7. ASSUME NEW S \in SUBSET Path, PollCutShort(S)
      PROVE  lost' \in [paths : SUBSET Path, cut : SUBSET Folder]
  BY <1>7, PollCutShortIs
<1>8. QED
  BY <1>2, <1>3, <1>4, <1>5, <1>6, <1>7 DEF PanelNext, Slot, PanelDelete, PanelWrite, Poll,
     OnPathsChanged, OnScanFinished, StartQueued, UserRemove, StartApp, PanelFinish

LEMMA WindowKept ==
  ASSUME PanelGood, Good', PanelNext
  PROVE  win' \in WindowState
<1>1. PanelTypeOK /\ win \in WindowState /\ unread \in SUBSET Path /\ Good
  BY DEF PanelGood, PanelTypeOK
<1>2. CASE Poll
  BY <1>1, <1>2, SignalIs DEF Poll, OtherInbox
<1>3. CASE ScanDone
  BY <1>1, <1>3, SignalIs DEF ScanDone, OtherInbox
<1>4. CASE \E t \in Thread : PanelFinish(t)
  BY <1>1, <1>4, SignalIs DEF PanelFinish, OtherInbox
<1>5. CASE Slot
  BY <1>1, <1>5, OnPathsChangedIs, OnScanFinishedIs, StartQueuedIs, EndRunIs
     DEF Slot, HasNoted, Loaded, OtherInbox
<1>6. CASE \E f \in Folder : UserAdd(f) \/ UserRemove(f)
  BY <1>1, <1>6, UserAddIs, UserRemoveIs DEF Loaded
<1>7. CASE ClickIndex \/ StartApp
  BY <1>1, <1>7, ClickIndexIs, StartAppIs DEF Loaded
<1>8. CASE Exit
  BY <1>8, NewWindowIs DEF Exit
<1>9. CASE UNCHANGED win
  BY <1>1, <1>9
<1>10. ASSUME NEW S \in SUBSET Path, PollCutShort(S) PROVE win' \in WindowState
  BY <1>1, <1>10, PollCutShortIs DEF OtherInbox
<1>11. QED
  BY <1>2, <1>3, <1>4, <1>5, <1>6, <1>7, <1>8, <1>9, <1>10
     DEF PanelNext, PanelDelete, PanelWrite, PanelThread

LEMMA PanelKeepsTypes == ASSUME PanelGood, Good', [PanelNext]_panelVars PROVE PanelTypeOK'
<1>1. PanelTypeOK
  BY DEF PanelGood
<1>2. CASE UNCHANGED panelVars
  BY <1>1, <1>2 DEF panelVars, PanelTypeOK
<1>3. CASE PanelNext
  <2>1. win' \in WindowState /\ lost' \in [paths : SUBSET Path, cut : SUBSET Folder]
    BY <1>1, <1>3, WindowKept, LostKept
  <2>2. unread' \in SUBSET Path
    BY <1>1, <1>3 DEF PanelNext, Slot, PanelDelete, PanelWrite, Poll, PollCutShort, ScanDone,
       OnPathsChanged, OnScanFinished, StartQueued, EndRun, UserAdd, UserRemove, ClickIndex,
       StartApp, Exit, PanelThread, PanelFinish, PanelTypeOK
  <2>3. exits' \in 0..MaxExits /\ scans' \in 0..MaxScans /\ edits' \in 0..MaxEdits
    <3>1. /\ exits \in 0..MaxExits /\ scans \in 0..MaxScans /\ edits \in 0..MaxEdits
      BY <1>1 DEF PanelTypeOK
    <3>2. /\ UNCHANGED exits \/ (exits < MaxExits /\ exits' = exits + 1)
          /\ UNCHANGED scans \/ (scans < MaxScans /\ scans' = scans + 1)
          /\ UNCHANGED edits \/ (edits < MaxEdits /\ edits' = edits + 1)
      BY <1>3 DEF PanelNext, Slot, PanelDelete, PanelWrite, Poll, PollCutShort, ScanDone,
         OnPathsChanged, OnScanFinished, StartQueued, EndRun, UserAdd, UserRemove, ClickIndex,
         StartApp, Exit, PanelThread, PanelFinish, Edit
    <3>3. QED
      BY <3>1, <3>2, PanelBounds
  <2>4. QED
    BY <2>1, <2>2, <2>3 DEF PanelTypeOK
<1>4. QED
  BY <1>2, <1>3

-----------------------------------------------------------------------------
(* Folders *)

LEMMA AddedFolders ==
  ASSUME Good, NEW f \in Folder, AddFolder(f)
  PROVE  \A g \in Folder :
           db'.folders[g] = IF g = f THEN IF f \in Registered(db) THEN db.folders[f] ELSE "new"
                            ELSE IF g \in Registered(db) \cap Within[f] THEN "absent"
                            ELSE db.folders[g]
<1> DEFINE inside == Registered(db) \cap Within[f]
           d == DeleteFiles(db, UNION {Under[g] : g \in inside})
           G == [g \in Folder |-> IF g \in inside THEN "absent" ELSE d.folders[g]]
           e == [d EXCEPT !.folders = G]
<1>1. db' = [e EXCEPT !.folders[f] = IF @ = "absent" THEN "new" ELSE @]
  BY DEF AddFolder, AddIndexedFolder
<1>2. f \notin inside
  BY DEF AddFolder
<1>3. d \in Tables /\ d.folders = db.folders
  <2>1. d = DeleteFiles(db, UNION {Under[g] : g \in inside}) /\ db \in Tables /\ Agree(db)
    BY DEF Good, TablesGood
  <2> HIDE DEF d
  <2>2. DroppedFiles(db, UNION {Under[g] : g \in inside}, d)
    BY <2>1, DeleteFilesIs
  <2>3. QED
    BY <2>2 DEF DroppedFiles
<1> HIDE DEF d
<1>4. e.folders = G
  BY <1>3 DEF Tables
<1>5. e \in [files : {e.files}, born : {e.born}, contents : {e.contents}, written : {e.written},
             ftsFiles : {e.ftsFiles}, ftsContents : {e.ftsContents}, folders : {e.folders}]
  BY <1>3 DEF Tables
<1> HIDE DEF e
<1>6. db'.folders = [G EXCEPT ![f] = IF @ = "absent" THEN "new" ELSE @]
  BY <1>1, <1>4, <1>5
<1>7. QED
  BY <1>2, <1>3, <1>6 DEF Registered

LEMMA RemovedFolders ==
  ASSUME Good, NEW f \in Folder, NEW queued, RemoveFolder(f, queued)
  PROVE  \A g \in Folder : db'.folders[g] = IF g = f THEN "absent" ELSE db.folders[g]
<1> DEFINE d == DeleteFiles(db, Under[f])
<1>1. d \in Tables /\ d.folders = db.folders
  <2>1. d = DeleteFiles(db, Under[f]) /\ db \in Tables /\ Agree(db)
    BY DEF Good, TablesGood
  <2> HIDE DEF d
  <2>2. DroppedFiles(db, Under[f], d)
    BY <2>1, DeleteFilesIs
  <2>3. QED
    BY <2>2 DEF DroppedFiles
<1>2. db' = [d EXCEPT !.folders[f] = "absent"]
  BY DEF RemoveFolder, RemoveIndexedFolder
<1> HIDE DEF d
<1>3. db'.folders = [d.folders EXCEPT ![f] = "absent"] /\ DOMAIN d.folders = Folder
  BY <1>1, <1>2 DEF Tables
<1>4. QED
  BY <1>1, <1>3

LEMMA ThreadLeavesFolders ==
  ASSUME Good, NEW t \in Thread, ThreadStep(t) \/ Finish(t)
  PROVE  db'.folders = db.folders /\ hazard'.revived = hazard.revived
<1>1. CASE FlushWrite(t)
  <2>1. Storable(thread[t]) /\ db' = Stored(thread[t])
    BY <1>1 DEF FlushWrite
  <2>2. db'.folders = db.folders
    BY <2>1, StoredIs DEF WroteFiles, WroteContents
  <2>3. hazard'.revived = hazard.revived
    BY <1>1 DEF FlushWrite, Good, DiskGood
  <2>4. QED
    BY <2>2, <2>3
<1>2. CASE ~FlushWrite(t)
  <2>1. UNCHANGED <<db, hazard>>
    BY <1>2 DEF ThreadStep, Walk, Check, CheckFails, Checked, Stat, Extract, Collect, FlushRead,
                ChunkFails, Finish
  <2>2. QED
    BY <2>1
<1>3. QED
  BY <1>1, <1>2

\* Only the user's two commands change which folders there are.
LEMMA FoldersStay ==
  ASSUME PanelGood, PanelNext, \A f \in Folder : ~UserAdd(f) /\ ~UserRemove(f)
  PROVE  /\ Registered(db') = Registered(db) /\ RegisteredPaths(db') = RegisteredPaths(db)
         /\ hazard'.revived = hazard.revived
         /\ db'.folders = db.folders \/ EndRun
<1>1. Good /\ win.indexing \in SUBSET Folder
  BY WindowIs DEF PanelGood, PanelTypeOK
<1>2. CASE \E t \in Thread : PanelThread(t) \/ PanelFinish(t)
  BY <1>1, <1>2, ThreadLeavesFolders DEF PanelThread, PanelFinish, Registered, RegisteredPaths
<1>3. CASE EndRun
  BY <1>1, <1>3, UpdateIndexedAtIs DEF EndRun, RegisteredPaths
<1>4. CASE UNCHANGED <<db, hazard>>
  BY <1>4 DEF RegisteredPaths
<1>5. QED
  BY <1>2, <1>3, <1>4 DEF PanelNext, Slot, PanelDelete, PanelWrite, DeleteFile, WriteFile, Poll,
     PollCutShort, ScanDone, OnPathsChanged, OnScanFinished, StartQueued, ClickIndex, StartApp, Exit, vars

LEMMA ApartKept == ASSUME PanelGood, [PanelNext]_panelVars PROVE Apart'
<1>1. Good /\ Apart
  BY DEF PanelGood
<1>2. CASE Registered(db') = Registered(db)
  BY <1>1, <1>2 DEF Apart
<1>3. ASSUME NEW f \in Folder, UserAdd(f) PROVE Apart'
  <2>1. AddFolder(f)
    BY <1>3 DEF UserAdd
  <2>2. Registered(db') \subseteq (Registered(db) \ Within[f]) \cup {f}
    BY <1>1, <2>1, AddedFolders DEF Registered
  <2>3. \A g \in Registered(db) : f \notin Within[g]
    BY <2>1 DEF AddFolder
  <2>4. QED
    BY <1>1, <2>2, <2>3 DEF Apart
<1>4. ASSUME NEW f \in Folder, UserRemove(f) PROVE Apart'
  <2>1. Registered(db') \subseteq Registered(db)
    BY <1>1, <1>4, RemovedFolders DEF UserRemove, Registered
  <2>2. QED
    BY <1>1, <2>1 DEF Apart
<1>5. QED
  BY <1>2, <1>3, <1>4, FoldersStay DEF panelVars, vars

-----------------------------------------------------------------------------
(* The panel and what waits in it *)

LEMMA ShownKept ==
  ASSUME PanelGood, Good', PanelNext, win'.on, NEW f \in Folder
  PROVE  Shown(f)'
<1>1. /\ Good /\ PanelTypeOK /\ (win.on => Shown(f)) /\ OnlyChanges(win.inbox)
      /\ (~win.on => win = NoWindow)
  BY DEF PanelGood, Listed, Off
<1>2. ASSUME NEW w, Loaded(w, db', win') PROVE Shown(f)'
  BY <1>2 DEF Loaded, Shown, Registered
<1>3. CASE OnScanFinished
  <2>1. win.on /\ db' = db
    BY <1>3 DEF OnScanFinished, Handle
  <2>2. CASE OtherInbox(win, Rest.inbox, win')
    BY <1>1, <2>1, <2>2 DEF OtherInbox, Shown, Registered
  <2>3. QED
    BY <1>1, <1>2, <1>3, <2>1, <2>2, OnScanFinishedIs
<1>4. CASE StartApp
  BY <1>1, <1>2, <1>4, StartAppIs DEF StartApp, vars
<1>5. ASSUME NEW g \in Folder, UserAdd(g) PROVE Shown(f)'
  BY <1>1, <1>2, <1>5, UserAddIs
<1>6. ASSUME NEW g \in Folder, UserRemove(g) PROVE Shown(f)'
  BY <1>1, <1>6, UserRemoveIs DEF Shown, Registered
<1>7. CASE EndRun
  <2>1. win.on /\ Shown(f)
    BY <1>1, <1>7 DEF EndRun, Handle
  <2>2. /\ Registered(db') = Registered(db)
        /\ db'.folders[f] = "indexed" => db.folders[f] = "indexed" \/ f \in win.indexing
    BY <1>1, <1>7, UpdateIndexedAtIs, WindowIs DEF EndRun, PanelTypeOK
  <2>3. /\ win'.at[f] = IF f \in win.indexing THEN "indexed" ELSE win.at[f]
        /\ win'.badge[f] = "none" <=> win.badge[f] = "none"
    BY <1>1, <1>7, EndRunIs
  <2>4. QED
    BY <2>1, <2>2, <2>3 DEF Shown
<1>8. ASSUME win'.at = win.at, win'.badge[f] = "none" <=> win.badge[f] = "none", win.on,
             db'.folders = db.folders
      PROVE  Shown(f)'
  BY <1>1, <1>8 DEF Shown, Registered
<1>9. CASE OnPathsChanged
  <2>1. win.on /\ db' = db
    BY <1>9 DEF OnPathsChanged, Handle, vars
  <2>2. win'.at = win.at /\ (win'.badge[f] = "none" <=> win.badge[f] = "none")
    BY <1>1, <1>9, OnPathsChangedIs DEF HasNoted, OtherInbox
  <2>3. QED
    BY <1>8, <2>1, <2>2
<1>10. CASE StartQueued
  BY <1>1, <1>8, <1>10, StartQueuedIs DEF StartQueued, Handle
<1>11. CASE ClickIndex
  BY <1>1, <1>8, <1>11, ClickIndexIs DEF ClickIndex
<1>12. CASE Poll
  BY <1>1, <1>8, <1>12, SignalIs DEF Poll, OtherInbox, vars, PanelTypeOK
<1>13. CASE ScanDone
  BY <1>1, <1>8, <1>13, SignalIs DEF ScanDone, OtherInbox, vars
<1>14. ASSUME NEW t \in Thread, PanelFinish(t) PROVE Shown(f)'
  <2>1. OtherInbox(win, win'.inbox, win')
    BY <1>1, <1>14, SignalIs DEF PanelFinish
  <2>2. db'.folders = db.folders
    BY <1>14 DEF PanelFinish, Finish
  <2>3. QED
    BY <1>8, <2>1, <2>2 DEF OtherInbox
<1>15. ASSUME NEW t \in Thread, PanelThread(t) PROVE Shown(f)'
  BY <1>1, <1>8, <1>15, ThreadLeavesFolders DEF PanelThread
<1>16. CASE \E p \in Path : PanelDelete(p) \/ \E good \in BOOLEAN : PanelWrite(p, good)
  BY <1>1, <1>8, <1>16 DEF PanelDelete, PanelWrite, DeleteFile, WriteFile
<1>17. CASE Exit
  BY <1>17, NewWindowIs DEF Exit
<1>18. ASSUME NEW S \in SUBSET Path, PollCutShort(S) PROVE Shown(f)'
  BY <1>1, <1>8, <1>18, PollCutShortIs DEF OtherInbox
<1>19. QED
  BY <1>3, <1>4, <1>5, <1>6, <1>7, <1>9, <1>10, <1>11, <1>12, <1>13, <1>14, <1>15, <1>16, <1>17,
     <1>18 DEF PanelNext, Slot

LEMMA OffKept ==
  ASSUME PanelGood, PanelNext, ~win'.on
  PROVE  Off'
<1>1. /\ PanelTypeOK /\ Good /\ (~win.on => Off)
  BY DEF PanelGood, Listed
<1>2. CASE Exit
  BY <1>2 DEF Exit, Off
<1>3. ASSUME NEW p \in Path, ~win.on, PanelDelete(p) \/ \E good \in BOOLEAN : PanelWrite(p, good)
      PROVE  Off'
  <2>1. win' = win /\ Off
    BY <1>1, <1>3 DEF PanelDelete, PanelWrite
  <2>2. ASSUME NEW t \in Thread PROVE thread'[t] = IdleThread
    <3>1. thread[t] = IdleThread /\ Extracted(IdleThread) = {}
      BY <2>1, IdleIs DEF Off
    <3>2. QED
      BY <1>3, <3>1 DEF PanelDelete, PanelWrite, DeleteFile, WriteFile
  <2>3. QED
    BY <2>1, <2>2 DEF Off
<1>4. ASSUME NEW t \in Thread, ~win.on, PanelFinish(t) PROVE FALSE
  BY <1>1, <1>4 DEF PanelFinish, Finish, At, Off, IdleThread
<1>5. CASE StartApp
  BY <1>1, <1>5, StartAppIs, NewWindowIs DEF Loaded
<1>6. CASE win.on /\ ~Exit
  <2>1. ASSUME NEW t \in Thread, PanelFinish(t) PROVE win'.on = win.on
    BY <1>1, <2>1, SignalIs DEF PanelFinish, OtherInbox
  <2>2. ASSUME Slot PROVE win'.on = win.on
    BY <1>1, <2>2, OnPathsChangedIs, OnScanFinishedIs, StartQueuedIs, EndRunIs
       DEF Slot, HasNoted, Loaded, OtherInbox
  <2>3. ASSUME Poll \/ ScanDone \/ \E S \in SUBSET Path : PollCutShort(S)
        PROVE  win'.on = win.on
    BY <1>1, <2>3, SignalIs, PollCutShortIs DEF Poll, ScanDone, OtherInbox, PanelTypeOK
  <2>4. ASSUME NEW f \in Folder, UserAdd(f) \/ UserRemove(f) PROVE win'.on = win.on
    <3>1. Good'
      BY <1>1, <2>4, AddFolderGood, RemoveFolderGood DEF UserAdd, UserRemove
    <3>2. QED
      BY <1>1, <2>4, <3>1, UserAddIs, UserRemoveIs DEF Loaded
  <2>5. ASSUME ClickIndex PROVE win'.on = win.on
    BY <1>1, <2>5, ClickIndexIs
  <2>6. win'.on = win.on \/ StartApp
    BY <1>5, <1>6, <2>1, <2>2, <2>3, <2>4, <2>5
       DEF PanelNext, PanelThread, PanelDelete, PanelWrite, StartApp
  <2>7. QED
    BY <1>5, <1>6, <2>6
<1>7. QED
  BY <1>2, <1>3, <1>4, <1>5, <1>6 DEF PanelNext, Slot, OnPathsChanged, OnScanFinished, StartQueued,
     EndRun, Handle, Poll, PollCutShort, ScanDone, UserAdd, UserRemove, ClickIndex, PanelThread

LEMMA WaitingShrinks ==
  ASSUME PanelGood, PanelNext, \A f \in Folder : ~UserAdd(f) /\ ~UserRemove(f),
         \A f \in Folder : win'.pending[f] \subseteq win.pending[f],
         win'.queued \subseteq win.queued \cup UNION {win.pending[f] : f \in Folder}
  PROVE  (\A f \in Folder : win.pending[f] \subseteq Under[f])' /\ Owned'
<1>1. /\ \A f \in Folder : win.pending[f] \subseteq Under[f]
      /\ Waiting \subseteq RegisteredPaths(db) \cup hazard.revived
  BY DEF PanelGood, Listed, Owned
<1>2. win'.queued \cup UNION {win'.pending[f] : f \in Folder} \subseteq Waiting
  BY DEF Waiting
<1>3. RegisteredPaths(db') = RegisteredPaths(db) /\ hazard'.revived = hazard.revived
  BY FoldersStay
<1>4. QED
  BY <1>1, <1>2, <1>3 DEF Owned, Waiting

LEMMA WaitsKept ==
  ASSUME PanelGood, Good', PanelNext
  PROVE  (\A f \in Folder : win.pending[f] \subseteq Under[f])' /\ Owned'
<1> DEFINE Goal == (\A f \in Folder : win.pending[f] \subseteq Under[f])' /\ Owned'
<1>1. /\ PanelTypeOK /\ Good /\ unread \in SUBSET Path
      /\ \A f \in Folder : win.pending[f] \subseteq Under[f]
      /\ win.on => \A f \in Folder : win.badge[f] # "none" <=> f \in Registered(db)
      /\ Waiting \subseteq RegisteredPaths(db) \cup hazard.revived
      /\ OnlyChanges(win.inbox)
  BY DEF PanelGood, Listed, Owned, Shown, PanelTypeOK
<1>2. win.pending \in [Folder -> SUBSET Path]
  BY <1>1, WindowIs DEF PanelTypeOK
<1>3. ASSUME NEW f \in Folder, UserAdd(f) PROVE Goal
  <2>1. Loaded(win, db', win') /\ AddFolder(f)
    BY <1>1, <1>3, UserAddIs DEF UserAdd
  <2>2. RegisteredPaths(db) \subseteq RegisteredPaths(db') /\ hazard' = hazard
    BY <1>1, <2>1, AddFolderIs DEF AddFolder
  <2>3. QED
    BY <1>1, <2>1, <2>2 DEF Loaded, Owned, Waiting
<1>4. ASSUME NEW f \in Folder, UserRemove(f) PROVE Goal
  <2> DEFINE queued == win.queued \cup UNION {win.pending[g] : g \in Folder \ {f}}
  <2>1. /\ RemoveFolder(f, queued) /\ win'.queued = win.queued
        /\ win'.pending = [win.pending EXCEPT ![f] = {}]
    BY <1>1, <1>4, UserRemoveIs DEF UserRemove
  <2>2. (\A g \in Folder : win.pending[g] \subseteq Under[g])'
    BY <1>1, <1>2, <2>1
  <2>3. win'.queued \cup UNION {win'.pending[g] : g \in Folder} \subseteq queued
    BY <1>2, <2>1
  <2>4. RegisteredPaths(db) \ Under[f] \subseteq RegisteredPaths(db')
    BY <1>1, <2>1, RemoveFolderIs
  <2>5. /\ (hazard.revived \ Under[f]) \subseteq hazard'.revived
        /\ Under[f] \cap queued \subseteq hazard'.revived
    BY <1>1, <2>1 DEF RemoveFolder, Good, DiskGood
  <2>6. queued \subseteq Waiting
    BY DEF Waiting
  <2> HIDE DEF queued
  <2>7. queued \subseteq RegisteredPaths(db') \cup hazard'.revived
    BY <1>1, <2>4, <2>5, <2>6
  <2>8. QED
    BY <2>2, <2>3, <2>7 DEF Owned, Waiting
<1>5. CASE OnPathsChanged
  <2>1. /\ HasNoted(Rest, Head(win.inbox).paths, win') /\ OtherInbox(win, Rest.inbox, Rest)
        /\ win.on
    BY <1>1, <1>5, OnPathsChangedIs DEF OnPathsChanged, Handle
  <2>2. win'.queued = win.queued
        /\ \A f \in Folder : win'.pending[f] = IF win.badge[f] = "none" THEN win.pending[f]
                               ELSE win.pending[f] \cup (Head(win.inbox).paths \cap Under[f])
    BY <2>1 DEF HasNoted, OtherInbox
  <2>3. \A f \in Folder : win.badge[f] # "none" => Under[f] \subseteq RegisteredPaths(db)
    BY <1>1, <2>1 DEF RegisteredPaths
  <2>4. db' = db /\ hazard' = hazard
    BY <1>5 DEF OnPathsChanged, vars
  <2>5. win'.queued \cup UNION {win'.pending[f] : f \in Folder} \subseteq
            RegisteredPaths(db) \cup Waiting
    <3>1. ASSUME NEW f \in Folder PROVE win'.pending[f] \subseteq RegisteredPaths(db) \cup Waiting
      <4>1. win.pending[f] \subseteq Waiting
        BY DEF Waiting
      <4>2. QED
        BY <2>2, <2>3, <4>1
    <3>2. win'.queued \subseteq Waiting
      BY <2>2 DEF Waiting
    <3>3. QED
      BY <3>1, <3>2
  <2>6. QED
    BY <1>1, <2>2, <2>4, <2>5 DEF Owned, Waiting
<1>6. ASSUME \/ UNCHANGED win \/ Poll \/ ScanDone \/ OnScanFinished \/ StartQueued \/ EndRun
             \/ \E t \in Thread : PanelFinish(t)
             \/ \E S \in SUBSET Path : PollCutShort(S)
      PROVE  /\ win'.queued \subseteq win.queued
             /\ \A f \in Folder : win'.pending[f] \subseteq win.pending[f]
  BY <1>1, <1>6, SignalIs, PollCutShortIs, OnScanFinishedIs, StartQueuedIs, EndRunIs
     DEF Poll, ScanDone, PanelFinish, OtherInbox, Loaded
<1>7. ASSUME ClickIndex
      PROVE  /\ \A f \in Folder : win'.pending[f] \subseteq win.pending[f]
             /\ win'.queued \subseteq UNION {win.pending[f] : f \in Folder}
  BY <1>1, <1>7, ClickIndexIs DEF ChangedPaths, ChangedFolders
<1>8. ASSUME StartApp \/ Exit
      PROVE  win'.queued = {} /\ \A f \in Folder : win'.pending[f] = {}
  BY <1>1, <1>8, StartAppIs, NewWindowIs DEF Exit, Loaded
<1>9. ASSUME \A g \in Folder : ~UserAdd(g) /\ ~UserRemove(g), ~OnPathsChanged
      PROVE  /\ \A f \in Folder : win'.pending[f] \subseteq win.pending[f]
             /\ win'.queued \subseteq win.queued \cup UNION {win.pending[g] : g \in Folder}
  BY <1>6, <1>7, <1>8, <1>9 DEF PanelNext, Slot, PanelDelete, PanelWrite, PanelThread
<1>10. QED
  BY <1>3, <1>4, <1>5, <1>9, WaitingShrinks

LEMMA SignalsKept ==
  ASSUME PanelGood, Good', PanelNext
  PROVE  OnlyChanges(win.inbox)'
<1>1. PanelTypeOK /\ Good /\ OnlyChanges(win.inbox) /\ unread \in SUBSET Path
  BY DEF PanelGood, Listed, PanelTypeOK
<1>2. CASE Poll \/ ScanDone \/ \E t \in Thread : PanelFinish(t)
  BY <1>1, <1>2, SignalIs DEF Poll, ScanDone, PanelFinish
<1>3. CASE Slot
  BY <1>1, <1>3, OnPathsChangedIs, OnScanFinishedIs, StartQueuedIs, EndRunIs DEF Slot
<1>4. CASE StartApp \/ Exit
  <2>1. CASE StartApp
    BY <1>1, <2>1, StartAppIs, NewWindowIs, EmptyInbox DEF Loaded
  <2>2. CASE Exit
    BY <1>1, <2>2, NewWindowIs, EmptyInbox DEF Exit
  <2>3. QED
    BY <1>4, <2>1, <2>2
<1>5. ASSUME NEW f \in Folder, UserAdd(f) \/ UserRemove(f) PROVE OnlyChanges(win.inbox)'
  BY <1>1, <1>5, UserAddIs, UserRemoveIs DEF Loaded
<1>6. CASE ClickIndex
  BY <1>1, <1>6, ClickIndexIs
<1>7. CASE UNCHANGED win
  BY <1>1, <1>7
<1>8. ASSUME NEW S \in SUBSET Path, PollCutShort(S) PROVE OnlyChanges(win.inbox)'
  BY <1>1, <1>8, PollCutShortIs
<1>9. QED
  BY <1>2, <1>3, <1>4, <1>5, <1>6, <1>7, <1>8 DEF PanelNext, PanelDelete, PanelWrite, PanelThread

\* The button is off while files are queued.
LEMMA QueueKept ==
  ASSUME PanelGood, Good', PanelNext
  PROVE  (win.button => win.queued = {})'
<1>1. PanelTypeOK /\ Good /\ (win.button => win.queued = {}) /\ unread \in SUBSET Path
  BY DEF PanelGood, Listed, PanelTypeOK
<1>2. CASE Poll \/ ScanDone \/ \E t \in Thread : PanelFinish(t)
  BY <1>1, <1>2, SignalIs DEF Poll, ScanDone, PanelFinish, OtherInbox
<1>3. CASE OnPathsChanged \/ OnScanFinished
  BY <1>1, <1>3, OnPathsChangedIs, OnScanFinishedIs DEF OtherInbox, HasNoted, Loaded
<1>4. CASE StartQueued
  BY <1>1, <1>4, StartQueuedIs
<1>5. CASE EndRun
  <2>1. win.count \in {0, 1} /\ ~QueueIsNext
    BY <1>1, <1>5, WindowIs DEF PanelTypeOK, EndRun
  <2>2. win.queued = {}
    BY <2>1 DEF QueueIsNext
  <2>3. QED
    BY <1>1, <1>5, <2>2, EndRunIs
<1>6. CASE StartApp \/ Exit
  BY <1>1, <1>6, StartAppIs, NewWindowIs DEF Exit, Loaded
<1>7. ASSUME NEW f \in Folder, UserAdd(f) \/ UserRemove(f) PROVE (win.button => win.queued = {})'
  BY <1>1, <1>7, UserAddIs, UserRemoveIs DEF Loaded
<1>8. CASE ClickIndex
  <2>1. win'.button = FALSE
    BY <1>1, <1>8 DEF ClickIndex, PanelTypeOK, WindowState
  <2>2. QED
    BY <2>1
<1>9. CASE UNCHANGED win
  BY <1>1, <1>9
<1>10. ASSUME NEW S \in SUBSET Path, PollCutShort(S) PROVE (win.button => win.queued = {})'
  BY <1>1, <1>10, PollCutShortIs DEF OtherInbox
<1>11. QED
  BY <1>2, <1>3, <1>4, <1>5, <1>6, <1>7, <1>8, <1>9, <1>10
     DEF PanelNext, Slot, PanelDelete, PanelWrite, PanelThread

LEMMA ListedKept == ASSUME PanelGood, Good', [PanelNext]_panelVars PROVE Listed'
<1>1. Listed
  BY DEF PanelGood
<1>2. CASE UNCHANGED panelVars
  BY <1>1, <1>2 DEF panelVars, vars, Listed, Shown, Off, Owned, Waiting, RegisteredPaths, Registered
<1>3. CASE PanelNext
  BY <1>3, ShownKept, OffKept, WaitsKept, SignalsKept, QueueKept DEF Listed
<1>4. QED
  BY <1>2, <1>3

-----------------------------------------------------------------------------
(* What the threads have in hand *)

Right(th) == Orderly(th) /\ Read(th)

LEMMA RightMoves ==
  ASSUME Good, ThreadsRight, NEW t \in Thread, NEW th, Right(th),
         thread' = [thread EXCEPT ![t] = th], disk' = disk
  PROVE  ThreadsRight'
<1>1. thread \in [Thread -> ThreadState]
  BY DEF Good
<1>2. \A s \in Thread : Right(thread'[s])
  BY <1>1 DEF ThreadsRight, Right
<1>3. QED
  BY <1>2 DEF ThreadsRight, Right, Read, TextOf

LEMMA FreshRight ==
  ASSUME NEW pc \in {"check", "done"}, NEW S, pc = "done" => S = {},
         NEW th, th = [IdleThread EXCEPT !.pc = pc, !.todo = S]
  PROVE  Right(th)
<1>1. /\ th.pc = pc /\ th.todo = S /\ th.walk = {} /\ th.chunk = {} /\ th.torn = {}
      /\ th.ready = {} /\ th.buf = {}
  BY DEF IdleThread
<1>2. QED
  BY <1>1 DEF Right, Orderly, Read, Extracted

LEMMA NextChunkRight == ASSUME NEW th PROVE Right(NextChunk(th))
<1>1. NextChunk(th) = [IdleThread EXCEPT !.pc = IF th.todo = {} THEN "done" ELSE "check",
                                         !.todo = th.todo]
  BY DEF NextChunk
<1>2. QED
  BY <1>1, FreshRight

LEMMA StartsRight ==
  ASSUME PanelGood, NEW t \in Thread, disk' = disk,
         \/ \E S : StartPaths(t, S)
         \/ \E F : StartFolders(t, F)
  PROVE  ThreadsRight'
<1>1. Good /\ ThreadsRight
  BY DEF PanelGood
<1>2. ASSUME NEW S, StartPaths(t, S) PROVE ThreadsRight'
  <2> DEFINE th == [IdleThread EXCEPT !.pc = "check", !.todo = S]
  <2>1. Right(th)
    BY FreshRight
  <2>2. thread' = [thread EXCEPT ![t] = th]
    BY <1>2 DEF StartPaths, StartThread
  <2> HIDE DEF th
  <2>3. QED
    BY <1>1, <2>1, <2>2, RightMoves
<1>3. ASSUME NEW F, StartFolders(t, F) PROVE ThreadsRight'
  <2> DEFINE th == [IdleThread EXCEPT !.pc = "walk", !.walk = F]
  <2>1. /\ th.pc = "walk" /\ th.todo = {} /\ th.chunk = {} /\ th.torn = {}
        /\ th.ready = {} /\ th.buf = {}
    BY DEF IdleThread
  <2>2. thread' = [thread EXCEPT ![t] = th]
    BY <1>3 DEF StartFolders, StartThread
  <2> HIDE DEF th
  <2>3. Right(th)
    BY <2>1 DEF Right, Orderly, Read, Extracted
  <2>4. QED
    BY <1>1, <2>2, <2>3, RightMoves
<1>4. QED
  BY <1>2, <1>3

LEMMA IdleRight == Right(IdleThread)
BY DEF Right, Orderly, Read, Extracted, IdleThread

LEMMA FilesRight ==
  ASSUME PanelGood, NEW p \in Path,
         DeleteFile(p) \/ \E good \in BOOLEAN : WriteFile(p, good)
  PROVE  ThreadsRight'
<1>1. /\ Good /\ ThreadsRight /\ thread \in [Thread -> ThreadState]
      /\ disk \in [Path -> [ver : Nat, good : BOOLEAN]]
  BY DEF PanelGood, Good, DiskGood
<1>2. CASE DeleteFile(p)
  <2>1. thread' = thread /\ disk'[p].ver = 0 /\ \A q \in Path \ {p} : disk'[q] = disk[q]
    BY <1>1, <1>2 DEF DeleteFile
  <2>2. QED
    <3> SUFFICES ASSUME NEW t \in Thread PROVE Orderly(thread[t]) /\ Read(thread[t])'
      BY <2>1 DEF ThreadsRight
    <3>1. thread[t] \in ThreadState /\ Extracted(thread[t]) \subseteq Path
      BY <1>1 DEF ThreadState, Extracted
    <3>2. QED
      BY <1>1, <2>1, <3>1 DEF ThreadsRight, Read, TextOf
<1>3. ASSUME NEW good \in BOOLEAN, WriteFile(p, good) PROVE ThreadsRight'
  <2>1. \A q \in Path \ {p} : disk'[q] = disk[q]
    BY <1>1, <1>3 DEF WriteFile
  <2> SUFFICES ASSUME NEW t \in Thread PROVE Right(thread[t])'
    BY DEF ThreadsRight, Right
  <2>2. thread[t] \in ThreadState /\ Extracted(thread[t]) \subseteq Path
        /\ Orderly(thread[t]) /\ Read(thread[t])
    BY <1>1 DEF ThreadState, Extracted, ThreadsRight
  <2>3. thread'[t] = IF p \in Extracted(thread[t]) THEN [thread[t] EXCEPT !.torn = @ \cup {p}]
                                                   ELSE thread[t]
    BY <1>3 DEF WriteFile
  <2>4. CASE p \in Extracted(thread[t])
    <3>1. /\ thread'[t].torn = thread[t].torn \cup {p} /\ thread'[t].pc = thread[t].pc
          /\ thread'[t].walk = thread[t].walk /\ thread'[t].todo = thread[t].todo
          /\ thread'[t].chunk = thread[t].chunk /\ thread'[t].ready = thread[t].ready
          /\ thread'[t].buf = thread[t].buf /\ thread'[t].text = thread[t].text
          /\ thread'[t].mtime = thread[t].mtime
      BY <2>2, <2>3, <2>4 DEF ThreadState
    <3>2. QED
      BY <2>1, <2>2, <2>4, <3>1 DEF Right, Orderly, Read, Extracted, TextOf
  <2>5. CASE p \notin Extracted(thread[t])
    BY <2>1, <2>2, <2>3, <2>5 DEF Right, Orderly, Read, Extracted, TextOf
  <2>6. QED
    BY <2>4, <2>5
<1>4. QED
  BY <1>2, <1>3

LEMMA CheckedRight ==
  ASSUME PanelGood, NEW t \in Thread, NEW seen, Checked(t, seen)
  PROVE  ThreadsRight'
<1>1. Good /\ ThreadsRight /\ Orderly(thread[t]) /\ thread[t] \in ThreadState
  BY ThreadIs DEF PanelGood, ThreadsRight
<1>2. PICK S \in SUBSET thread[t].todo :
        thread' = [thread EXCEPT
            ![t].pc = "stat", ![t].todo = @ \ S, ![t].chunk = S,
            ![t].seen = [p \in Path |-> IF p \in S THEN seen[p] ELSE 0]]
  BY DEF Checked
<1> DEFINE new == [p \in Path |-> IF p \in S THEN seen[p] ELSE 0]
           th == [thread[t] EXCEPT !.pc = "stat", !.todo = @ \ S, !.chunk = S, !.seen = new]
<1>3. thread' = [thread EXCEPT ![t] = th]
  BY <1>2
<1> HIDE DEF new
<1>4. /\ th.pc = "stat" /\ th.chunk = S /\ th.walk = thread[t].walk /\ th.torn = thread[t].torn
      /\ th.ready = thread[t].ready /\ th.buf = thread[t].buf
  BY <1>1 DEF ThreadState
<1>5. thread[t].pc = "check" /\ disk' = disk
  BY DEF Checked, At
<1> HIDE DEF th
<1>6. Right(th)
  BY <1>1, <1>4, <1>5 DEF Right, Orderly, Read, Extracted
<1>7. QED
  BY <1>1, <1>3, <1>5, <1>6, RightMoves

LEMMA StatRight == ASSUME PanelGood, NEW t \in Thread, Stat(t) PROVE ThreadsRight'
<1> DEFINE needs == {p \in thread[t].chunk \cap OnDisk : thread[t].seen[p] # disk[p].ver}
           th == [thread[t] EXCEPT !.pc = "extract", !.chunk = needs, !.seen = None]
<1>1. Good /\ ThreadsRight /\ Orderly(thread[t]) /\ thread[t] \in ThreadState
  BY ThreadIs DEF PanelGood, ThreadsRight
<1>2. /\ thread[t].pc = "stat" /\ disk' = disk
      /\ \/ thread' = [thread EXCEPT ![t] = NextChunk(thread[t])]
         \/ thread' = [thread EXCEPT ![t] = th]
  BY DEF Stat, At
<1> HIDE DEF needs
<1>3. /\ th.pc = "extract" /\ th.walk = thread[t].walk /\ th.torn = thread[t].torn
      /\ th.ready = thread[t].ready /\ th.buf = thread[t].buf
  BY <1>1 DEF ThreadState
<1> HIDE DEF th
<1>4. Right(th)
  BY <1>1, <1>2, <1>3 DEF Right, Orderly, Read, Extracted
<1>5. QED
  BY <1>1, <1>2, <1>4, NextChunkRight, RightMoves

LEMMA ExtractRight ==
  ASSUME PanelGood, NEW t \in Thread, NEW p \in Path, Extract(t, p)
  PROVE  ThreadsRight'
<1> DEFINE old == thread[t]
           th == [old EXCEPT !.chunk = @ \ {p}, !.ready = @ \cup {p}, !.text[p] = TextOf(p)]
<1>1. /\ Good /\ ThreadsRight /\ Orderly(old) /\ Read(old) /\ old \in ThreadState
  BY ThreadIs DEF PanelGood, ThreadsRight
<1>2. /\ old.pc \in {"extract", "flush", "write"} /\ p \in old.chunk /\ disk' = disk
      /\ thread' = [thread EXCEPT ![t] = th]
  BY DEF Extract
<1> HIDE DEF old
<1>3. /\ th.pc = old.pc /\ th.walk = old.walk /\ th.todo = old.todo /\ th.torn = old.torn
      /\ th.chunk = old.chunk \ {p} /\ th.ready = old.ready \cup {p} /\ th.buf = old.buf
      /\ th.text = [old.text EXCEPT ![p] = TextOf(p)] /\ th.mtime = old.mtime
      /\ old.text \in [Path -> Nat]
  BY <1>1 DEF ThreadState
<1> HIDE DEF th
<1>4. Extracted(old) \subseteq Path
  BY <1>1 DEF ThreadState, Extracted
<1>5. Orderly(th)
  BY <1>1, <1>2, <1>3 DEF Orderly, Extracted
<1>6. Read(th)
  <2> SUFFICES ASSUME NEW q \in Extracted(th) \ th.torn, disk[q].ver # 0
               PROVE  /\ th.text[q] = TextOf(q)
                      /\ th.pc = "write" /\ q \in th.buf => th.mtime[q] # 0
    BY DEF Read
  <2>1. CASE q = p
    BY <1>1, <1>2, <1>3, <2>1 DEF Orderly, Extracted
  <2>2. CASE q # p
    <3>1. q \in Extracted(old) \ old.torn /\ q \in Path
      BY <1>3, <1>4, <2>2 DEF Extracted
    <3>2. QED
      BY <1>1, <1>3, <2>2, <3>1 DEF Read
  <2>3. QED
    BY <2>1, <2>2
<1>7. QED
  BY <1>1, <1>2, <1>5, <1>6, RightMoves DEF Right

LEMMA CollectRight ==
  ASSUME PanelGood, NEW t \in Thread, NEW p \in Path, Collect(t, p)
  PROVE  ThreadsRight'
<1> DEFINE old == thread[t]
<1>1. /\ Good /\ ThreadsRight /\ Orderly(old) /\ Read(old) /\ old \in ThreadState
  BY ThreadIs DEF PanelGood, ThreadsRight
<1>2. PICK pc \in {"flush", "extract"} :
        thread' = [thread EXCEPT ![t].ready = @ \ {p}, ![t].buf = thread[t].buf \cup {p}, ![t].pc = pc]
  BY DEF Collect
<1> DEFINE th == [old EXCEPT !.ready = @ \ {p}, !.buf = old.buf \cup {p}, !.pc = pc]
<1>3. thread' = [thread EXCEPT ![t] = th]
  BY <1>2
<1>4. old.pc = "extract" /\ p \in old.ready /\ disk' = disk
  BY DEF Collect, At
<1> HIDE DEF old
<1>5. /\ th.pc = pc /\ th.walk = old.walk /\ th.todo = old.todo /\ th.torn = old.torn
      /\ th.chunk = old.chunk /\ th.text = old.text
      /\ th.ready = old.ready \ {p} /\ th.buf = old.buf \cup {p}
      /\ Extracted(th) = Extracted(old)
  BY <1>1, <1>4 DEF ThreadState, Extracted
<1> HIDE DEF th
<1>6. Right(th)
  BY <1>1, <1>2, <1>4, <1>5 DEF Right, Orderly, Read
<1>7. QED
  BY <1>1, <1>3, <1>4, <1>6, RightMoves

LEMMA FlushReadRight == ASSUME PanelGood, NEW t \in Thread, FlushRead(t) PROVE ThreadsRight'
<1> DEFINE old == thread[t]
           here == old.buf \cap OnDisk
           stored == here \cap Known(db)
           mtime == [p \in Path |-> IF p \in here THEN disk[p].ver ELSE 0]
           found == [p \in Path |-> IF p \in stored THEN db.born[p] ELSE 0]
           time == [p \in Path |-> IF p \in stored THEN db.files[p].mtime ELSE 0]
           th == [old EXCEPT !.pc = "write", !.mtime = mtime, !.found = found, !.time = time]
<1>1. /\ Good /\ ThreadsRight /\ Orderly(old) /\ Read(old) /\ old \in ThreadState
  BY ThreadIs DEF PanelGood, ThreadsRight
<1>2. old.pc = "flush" /\ disk' = disk /\ thread' = [thread EXCEPT ![t] = th]
  BY DEF FlushRead, At
<1>3. \A p \in old.buf : disk[p].ver # 0 => mtime[p] # 0
  <2>1. old.buf \subseteq Path
    BY <1>1 DEF ThreadState
  <2>2. QED
    BY <2>1 DEF OnDisk
<1> HIDE DEF old, mtime, found, time
<1>4. /\ th.pc = "write" /\ th.walk = old.walk /\ th.todo = old.todo /\ th.torn = old.torn
      /\ th.chunk = old.chunk /\ th.text = old.text /\ th.ready = old.ready /\ th.buf = old.buf
      /\ th.mtime = mtime
  BY <1>1 DEF ThreadState
<1> HIDE DEF th
<1>5. Right(th)
  BY <1>1, <1>2, <1>3, <1>4 DEF Right, Orderly, Read, Extracted
<1>6. QED
  BY <1>1, <1>2, <1>5, RightMoves

\* What is left of the thread after a batch.
LEMMA FlushedIs ==
  ASSUME NEW th \in ThreadState, th.chunk \cup th.ready # {}
  PROVE  /\ Flushed(th).pc = "extract" /\ Flushed(th).walk = th.walk /\ Flushed(th).todo = th.todo
         /\ Flushed(th).chunk = th.chunk /\ Flushed(th).ready = th.ready /\ Flushed(th).buf = {}
         /\ Flushed(th).torn = th.torn \ th.buf
         /\ \A p \in Path \ th.buf : Flushed(th).text[p] = th.text[p]
<1> DEFINE text == [p \in Path |-> IF p \in th.buf THEN 0 ELSE th.text[p]]
<1>1. Flushed(th) = [th EXCEPT !.pc = "extract", !.buf = {}, !.mtime = None, !.found = None,
                               !.time = None, !.text = text, !.torn = th.torn \ th.buf]
  BY DEF Flushed, ThreadState
<1>2. \A p \in Path \ th.buf : text[p] = th.text[p]
  OBVIOUS
<1> HIDE DEF text
<1>3. QED
  BY <1>1, <1>2 DEF ThreadState

LEMMA FlushedRight ==
  ASSUME NEW th \in ThreadState, Right(th), th.pc = "write" PROVE Right(Flushed(th))
<1>1. CASE th.chunk \cup th.ready = {}
  <2>1. Flushed(th) = NextChunk(th)
    BY <1>1 DEF Flushed
  <2>2. QED
    BY <2>1, NextChunkRight
<1>2. CASE th.chunk \cup th.ready # {}
  <2> DEFINE r == Flushed(th)
  <2>1. /\ r.pc = "extract" /\ r.walk = th.walk /\ r.todo = th.todo
        /\ r.chunk = th.chunk /\ r.ready = th.ready /\ r.buf = {}
        /\ r.torn = th.torn \ th.buf
        /\ \A p \in Path \ th.buf : r.text[p] = th.text[p]
    BY <1>2, FlushedIs
  <2> HIDE DEF r
  <2>2. th.ready \subseteq Path
    BY DEF ThreadState
  <2>3. Orderly(r)
    BY <2>1 DEF Right, Orderly, Extracted
  <2>4. Read(r)
    <3> SUFFICES ASSUME NEW p \in th.ready \ r.torn, disk[p].ver # 0
                 PROVE  r.text[p] = TextOf(p)
      BY <2>1 DEF Read, Extracted
    <3>1. p \in Extracted(th) \ th.torn /\ p \in Path \ th.buf
      BY <2>1, <2>2 DEF Right, Orderly, Extracted
    <3>2. QED
      BY <2>1, <3>1 DEF Right, Read
  <2>5. QED
    BY <2>3, <2>4 DEF Right, r
<1>3. QED
  BY <1>1, <1>2

LEMMA ThreadRight ==
  ASSUME PanelGood, NEW t \in Thread, ThreadStep(t) \/ Finish(t)
  PROVE  ThreadsRight'
<1>1. Good /\ ThreadsRight /\ Right(thread[t]) /\ thread[t] \in ThreadState
  BY ThreadIs DEF PanelGood, ThreadsRight, Right
<1>2. CASE Walk(t)
  <2> DEFINE th == [IdleThread EXCEPT !.todo = OnDisk \cap UNION {Under[f] : f \in thread[t].walk}]
  <2>1. thread' = [thread EXCEPT ![t] = NextChunk(th)] /\ disk' = disk
    BY <1>2 DEF Walk
  <2>2. QED
    BY <1>1, <2>1, NextChunkRight, RightMoves
<1>3. CASE FlushWrite(t)
  <2>1. Right(Flushed(thread[t]))
    BY <1>1, <1>3, FlushedRight DEF FlushWrite, At
  <2>2. thread' = [thread EXCEPT ![t] = Flushed(thread[t])] /\ disk' = disk
    BY <1>3 DEF FlushWrite
  <2>3. QED
    BY <1>1, <2>1, <2>2, RightMoves
<1>4. CASE ChunkFails(t)
  <2>1. thread' = [thread EXCEPT ![t] = NextChunk(thread[t])] /\ disk' = disk
    BY <1>4 DEF ChunkFails
  <2>2. QED
    BY <1>1, <2>1, NextChunkRight, RightMoves
<1>5. CASE Finish(t)
  <2>1. thread' = [thread EXCEPT ![t] = IdleThread] /\ disk' = disk
    BY <1>5 DEF Finish
  <2>2. QED
    BY <1>1, <2>1, IdleRight, RightMoves
<1>6. QED
  BY <1>2, <1>3, <1>4, <1>5, CheckedRight, StatRight, ExtractRight, CollectRight, FlushReadRight
     DEF ThreadStep, Check, CheckFails

LEMMA ThreadsKept == ASSUME PanelGood, [PanelNext]_panelVars PROVE ThreadsRight'
<1>1. ThreadsRight
  BY DEF PanelGood
<1>2. CASE UNCHANGED <<disk, thread>>
  BY <1>1, <1>2 DEF ThreadsRight, Read, TextOf
<1>3. CASE \E p \in Path : PanelDelete(p) \/ \E good \in BOOLEAN : PanelWrite(p, good)
  BY <1>3, FilesRight DEF PanelDelete, PanelWrite
<1>4. CASE \E t \in Thread : PanelThread(t) \/ PanelFinish(t)
  BY <1>4, ThreadRight DEF PanelThread, PanelFinish
<1>5. CASE StartQueued \/ ClickIndex
  BY <1>5, StartsRight DEF StartQueued, ClickIndex
<1>6. CASE Exit
  <2>1. \A t \in Thread : Right(thread'[t]) /\ thread'[t] = IdleThread
    BY <1>6, IdleRight DEF Exit
  <2>2. QED
    BY <1>6, <2>1 DEF Exit, ThreadsRight, Right, Read, TextOf
<1>7. QED
  BY <1>2, <1>3, <1>4, <1>5, <1>6 DEF PanelNext, Slot, panelVars, vars, Poll, PollCutShort, ScanDone,
     OnPathsChanged, OnScanFinished, EndRun, UserAdd, UserRemove, StartApp, AddFolder, RemoveFolder

-----------------------------------------------------------------------------
(* Which folders count as indexed *)

LEMMA TrackedBefore ==
  ASSUME PanelGood, Good', PanelNext, NEW f \in Folder, Tracked(f)'
  PROVE  \/ Tracked(f)
         \/ EndRun /\ f \in win.indexing \cap lost.cut
         \/ ClickIndex /\ f \in FullFolders
<1>1. /\ PanelTypeOK /\ Good /\ (~win.on => win = NoWindow)
      /\ (win.on => \A g \in Folder : Shown(g))
      /\ lost \in [paths : SUBSET Path, cut : SUBSET Folder] /\ unread \in SUBSET Path
      /\ lost' \in [paths : SUBSET Path, cut : SUBSET Folder]
  BY LostKept DEF PanelGood, Listed, Off, PanelTypeOK
<1>2. ASSUME win'.at = win.at \/ win'.at = db.folders \/ win'.at[f] = "absent",
             win'.indexing = win.indexing \/ win'.indexing = {},
             db'.folders = db.folders, lost'.cut = lost.cut \/ win'.indexing = {}
      PROVE  Tracked(f)
  BY <1>2 DEF Tracked, Registered
<1>3. CASE Poll
  BY <1>1, <1>2, <1>3, SignalIs DEF Poll, OtherInbox, vars
<1>4. CASE ScanDone
  BY <1>1, <1>2, <1>4, SignalIs DEF ScanDone, OtherInbox, vars
<1>5. ASSUME NEW t \in Thread, PanelFinish(t) PROVE Tracked(f)
  <2>1. OtherInbox(win, win'.inbox, win') /\ db' = db /\ lost' = lost
    BY <1>1, <1>5, SignalIs DEF PanelFinish, Finish
  <2>2. QED
    BY <1>2, <2>1 DEF OtherInbox
<1>6. CASE OnPathsChanged
  BY <1>1, <1>2, <1>6, OnPathsChangedIs DEF OnPathsChanged, HasNoted, OtherInbox, vars
<1>7. CASE OnScanFinished
  BY <1>1, <1>2, <1>7, OnScanFinishedIs DEF OnScanFinished, Loaded, OtherInbox
<1>8. CASE StartQueued
  BY <1>1, <1>2, <1>8, StartQueuedIs DEF StartQueued
<1>9. CASE StartApp
  BY <1>1, <1>2, <1>9, StartAppIs, NewWindowIs DEF StartApp, Loaded, vars
<1>10. CASE Exit
  BY <1>1, <1>2, <1>10, NewWindowIs DEF Exit
<1>11. ASSUME NEW t \in Thread, PanelThread(t) PROVE Tracked(f)
  <2>1. db'.folders = db.folders /\ win' = win
    BY <1>1, <1>11, ThreadLeavesFolders DEF PanelThread
  <2>2. lost'.cut = lost.cut
    BY <1>1, <1>11 DEF PanelThread
  <2>3. QED
    BY <1>2, <2>1, <2>2
<1>12. CASE \E p \in Path : PanelDelete(p) \/ \E good \in BOOLEAN : PanelWrite(p, good)
  BY <1>2, <1>12 DEF PanelDelete, PanelWrite, DeleteFile, WriteFile
<1>13. ASSUME NEW g \in Folder, UserAdd(g) PROVE Tracked(f)
  <2>1. /\ Loaded(win, db', win') /\ win.on
        /\ lost'.cut = lost.cut \cup (({g} \cap win.indexing) \ Registered(db))
    BY <1>1, <1>13, UserAddIs DEF UserAdd
  <2>2. db'.folders[f] = IF f = g THEN IF g \in Registered(db) THEN db.folders[g] ELSE "new"
                         ELSE IF f \in Registered(db) \cap Within[g] THEN "absent"
                         ELSE db.folders[f]
    BY <1>1, <1>13, AddedFolders DEF UserAdd
  <2>3. win'.at = db'.folders /\ win'.indexing = win.indexing
    BY <2>1 DEF Loaded
  <2>4. CASE f \in Registered(db)
    BY <2>1, <2>2, <2>3, <2>4 DEF Tracked, Registered
  <2>5. CASE f \notin Registered(db)
    <3>1. f = g /\ db'.folders[f] = "new"
      BY <2>2, <2>5 DEF Tracked, Registered
    <3>2. QED
      BY <2>1, <2>3, <2>5, <3>1 DEF Tracked
  <2>6. QED
    BY <2>4, <2>5
<1>14. ASSUME NEW g \in Folder, UserRemove(g) PROVE Tracked(f)
  <2>1. db'.folders[f] = IF f = g THEN "absent" ELSE db.folders[f]
    BY <1>1, <1>14, RemovedFolders DEF UserRemove
  <2>2. win'.at = db'.folders /\ win'.indexing = win.indexing /\ lost' = lost
    BY <1>1, <1>14, UserRemoveIs DEF UserRemove
  <2>3. QED
    BY <2>1, <2>2 DEF Tracked, Registered
<1>15. CASE EndRun
  <2>1. /\ Registered(db') = Registered(db)
        /\ db'.folders[f] = "indexed" => db.folders[f] = "indexed" \/ f \in win.indexing
    BY <1>1, <1>15, UpdateIndexedAtIs, WindowIs DEF EndRun, PanelTypeOK
  <2>2. win'.indexing = {} /\ win'.at[f] = IF f \in win.indexing THEN "indexed" ELSE win.at[f]
    BY <1>1, <1>15, EndRunIs
  <2>3. QED
    BY <1>15, <2>1, <2>2 DEF Tracked
<1>16. CASE ClickIndex
  <2>1. db' = db /\ win'.at = win.at /\ win'.indexing = FullFolders \cup ChangedFolders
    BY <1>1, <1>16, ClickIndexIs DEF ClickIndex, Active
  <2>2. f \in ChangedFolders => win.at[f] = "indexed"
    BY DEF ChangedFolders
  <2>3. QED
    BY <1>16, <2>1, <2>2 DEF Tracked
<1>17. ASSUME NEW S \in SUBSET Path, PollCutShort(S) PROVE Tracked(f)
  BY <1>1, <1>2, <1>17, PollCutShortIs DEF OtherInbox
<1>18. QED
  BY <1>3, <1>4, <1>5, <1>6, <1>7, <1>8, <1>9, <1>10, <1>11, <1>12, <1>13, <1>14, <1>15, <1>16,
     <1>17 DEF PanelNext, Slot

-----------------------------------------------------------------------------
(* What is settled, and what the threads are going to store *)

\* A step that changes no text: files of S are no longer told apart.
LEMMA SettledKept ==
  ASSUME NEW p \in Path, Settled(p), disk'[p] = disk[p],
         Excused \subseteq Excused', Searched(p) => Searched(p)'
  PROVE  Settled(p)'
BY DEF Settled, HasText

LEMMA SearchedSame ==
  ASSUME NEW p \in Path, Searched(p), disk'[p] = disk[p], db' = db
  PROVE  Searched(p)'
BY DEF Searched, TextOf

LEMMA SearchedForgot ==
  ASSUME Good, NEW X, Forgot(db, X, db'), NEW p \in Path \ X, disk'[p] = disk[p], Searched(p)
  PROVE  Searched(p)'
<1>1. PICK c \in db.contents : c.file = FileId(db, p) /\ c.text = TextOf(p)
  BY DEF Searched
<1>2. PICK q \in Known(db) : c.file = FileId(db, q)
  BY DEF Good, TablesGood, Agree, Placed
<1>3. p \in Known(db)
  BY <1>1, <1>2 DEF FileId
<1>4. p \in Known(db') /\ FileId(db', p) = FileId(db, p) /\ c \in db'.contents
  BY <1>1, <1>3 DEF Forgot
<1>5. QED
  BY <1>1, <1>4 DEF Searched, TextOf

LEMMA IdleComing == Coming(IdleThread) = {}
BY DEF Coming, Due, Extracted, IdleThread

LEMMA ComingHeld == ASSUME NEW th PROVE Coming(th) \subseteq Held(th)
BY DEF Coming, Held, Due

\* A thread that the step leaves alone is still going to store the file.
LEMMA ComingSame ==
  ASSUME NEW t \in Thread, thread'[t] = thread[t], NEW p \in Path, disk'[p] = disk[p],
         p \in Coming(thread[t])
  PROVE  p \in Coming(thread[t])'
BY DEF Coming, Due

\* Registered folders share no file.
LEMMA Disjoint ==
  ASSUME PanelGood, NEW f \in Registered(db), NEW g \in Registered(db), f # g
  PROVE  Under[f] \cap Under[g] = {}
BY FoldersNest DEF PanelGood, Apart, Registered

-----------------------------------------------------------------------------
(* No step forgets a file *)

LEMMA WriteSafe ==
  ASSUME PanelGood, NEW f \in Folder, NEW p \in Path, Safe(f, p), NEW q \in Path,
         PanelDelete(q) \/ \E good \in BOOLEAN : PanelWrite(q, good)
  PROVE  Safe(f, p)'
<1>1. /\ disk \in [Path -> [ver : Nat, good : BOOLEAN]] /\ thread \in [Thread -> ThreadState]
      /\ PanelTypeOK
  BY DEF PanelGood, Good, DiskGood
<1>2. win' = win /\ db' = db /\ lost' = lost /\ hazard' = hazard /\ Reported' = Reported
      /\ Excused' = Excused
  BY DEF PanelDelete, PanelWrite, DeleteFile, WriteFile, Excused, Reported
<1>3. CASE p = q
  <2>1. CASE PanelDelete(q)
    BY <1>1, <1>3, <2>1 DEF PanelDelete, DeleteFile, Safe, Settled, HasText
  <2>2. CASE \E good \in BOOLEAN : PanelWrite(q, good)
    BY <1>3, <2>2 DEF PanelWrite, Safe
  <2>3. QED
    BY <2>1, <2>2
<1>4. CASE p # q
  <2>1. disk'[p] = disk[p]
    BY <1>1, <1>4 DEF PanelDelete, PanelWrite, DeleteFile, WriteFile
  <2>2. CASE Settled(p)
    BY <1>2, <2>1, <2>2, SettledKept, SearchedSame DEF Safe
  <2>3. CASE p \in win.pending[f] \cup win.queued \cup Reported \cup unread
    <3>1. p \in unread => p \in unread'
      BY <1>4 DEF PanelDelete, PanelWrite
    <3>2. QED
      BY <1>2, <2>3, <3>1 DEF Safe
  <2>4. ASSUME NEW t \in Thread, p \in Coming(thread[t]) PROVE p \in Coming(thread[t])'
    <3>1. CASE thread'[t] = thread[t]
      BY <2>1, <2>4, <3>1, ComingSame
    <3>2. CASE thread'[t] = [thread[t] EXCEPT !.torn = @ \cup {q}]
      <4>1. thread[t] \in ThreadState
        BY <1>1
      <4>2. /\ thread'[t].pc = thread[t].pc /\ thread'[t].torn = thread[t].torn \cup {q}
            /\ thread'[t].walk = thread[t].walk /\ thread'[t].todo = thread[t].todo
            /\ thread'[t].chunk = thread[t].chunk /\ thread'[t].ready = thread[t].ready
            /\ thread'[t].buf = thread[t].buf /\ thread'[t].seen = thread[t].seen
        BY <3>2, <4>1 DEF ThreadState
      <4>3. QED
        BY <1>4, <2>1, <2>4, <4>2 DEF Coming, Due, Extracted
    <3>3. QED
      BY <3>1, <3>2 DEF PanelDelete, PanelWrite, DeleteFile, WriteFile
  <2>5. QED
    BY <2>2, <2>3, <2>4 DEF Safe
<1>5. QED
  BY <1>3, <1>4

\* A step of the window that leaves files and threads alone.
LEMMA QuietSafe ==
  ASSUME NEW f \in Folder, NEW p \in Path, Safe(f, p), disk' = disk, thread' = thread,
         Excused \subseteq Excused', Searched(p) => Searched(p)',
         p \in win.pending[f] \cup win.queued \cup Reported \cup unread
           => p \in (win.pending[f] \cup win.queued \cup Reported \cup unread)' \cup Excused'
  PROVE  Safe(f, p)'
<1>1. CASE Settled(p)
  BY <1>1, SettledKept DEF Safe
<1>2. CASE p \in win.pending[f] \cup win.queued \cup Reported \cup unread
  BY <1>2 DEF Safe, Settled
<1>3. ASSUME NEW t \in Thread, p \in Coming(thread[t]) PROVE p \in Coming(thread[t])'
  BY <1>3, ComingSame
<1>4. QED
  BY <1>1, <1>2, <1>3 DEF Safe

LEMMA SignalsSafe ==
  ASSUME PanelGood, PanelTypeOK', NEW f \in Folder, NEW p \in Path, Safe(f, p),
         Poll \/ ScanDone \/ \E S \in SUBSET Path : PollCutShort(S)
  PROVE  Safe(f, p)'
<1>1. PanelTypeOK /\ unread \in SUBSET Path /\ lost \in [paths : SUBSET Path, cut : SUBSET Folder]
      /\ Reported = PathsIn(win.inbox) /\ Reported' = PathsIn(win.inbox')
  BY ReportedIs DEF PanelGood, PanelTypeOK, Reported, PathsIn
<1>2. UNCHANGED <<disk, thread, db, hazard>>
  BY DEF Poll, PollCutShort, ScanDone, vars
<1>3. CASE Poll
  <2>1. win'.pending = win.pending /\ win'.queued = win.queued
        /\ PathsIn(win'.inbox) = PathsIn(win.inbox) \cup unread
    BY <1>1, <1>3, SignalIs DEF Poll, OtherInbox
  <2>2. Excused \subseteq Excused' /\ (Searched(p) => Searched(p)')
    BY <1>2, <1>3, SearchedSame DEF Poll, Excused
  <2>3. QED
    BY <1>1, <1>2, <2>1, <2>2, QuietSafe
<1>4. CASE ScanDone
  <2>1. win'.pending = win.pending /\ win'.queued = win.queued
        /\ PathsIn(win'.inbox) = PathsIn(win.inbox) \cup {}
    BY <1>1, <1>4, SignalIs DEF ScanDone, OtherInbox
  <2>2. Excused \cup unread \subseteq Excused' /\ (Searched(p) => Searched(p)')
    BY <1>1, <1>2, <1>4, SearchedSame DEF ScanDone, Excused
  <2>3. QED
    BY <1>1, <1>2, <2>1, <2>2, QuietSafe
<1>5. ASSUME NEW S \in SUBSET Path, PollCutShort(S) PROVE Safe(f, p)'
  <2>1. /\ win'.pending = win.pending /\ win'.queued = win.queued
        /\ PathsIn(win'.inbox) = PathsIn(win.inbox) \cup S
        /\ lost'.paths = lost.paths \cup (unread \ S)
    BY <1>1, <1>5, PollCutShortIs DEF OtherInbox
  <2>2. /\ Excused \cup (unread \ S) \subseteq Excused'
        /\ Searched(p) => Searched(p)'
    BY <1>2, <2>1, SearchedSame DEF Excused
  <2>3. QED
    BY <1>1, <1>2, <2>1, <2>2, QuietSafe
<1>6. QED
  BY <1>3, <1>4, <1>5

LEMMA SlotsSafe ==
  ASSUME PanelGood, PanelTypeOK', NEW f \in Folder, Tracked(f), NEW p \in Under[f], Safe(f, p),
         OnPathsChanged \/ OnScanFinished \/ EndRun \/ StartApp
  PROVE  Safe(f, p)'
<1>1. /\ PanelTypeOK /\ Good /\ p \in Path /\ OnlyChanges(win.inbox)
      /\ lost \in [paths : SUBSET Path, cut : SUBSET Folder]
      /\ Reported = PathsIn(win.inbox) /\ Reported' = PathsIn(win'.inbox)
  BY ReportedIs, UnderPaths DEF PanelGood, Listed, PanelTypeOK, Reported, PathsIn
<1>2. UNCHANGED <<disk, thread, hazard, unread>>
  BY DEF OnPathsChanged, OnScanFinished, EndRun, StartApp, vars
<1>3. Excused \subseteq Excused'
  BY <1>1 DEF OnPathsChanged, OnScanFinished, EndRun, StartApp, vars, Excused
<1>4. Searched(p) => Searched(p)'
  <2>1. CASE db' = db
    BY <1>1, <1>2, <2>1, SearchedSame
  <2>2. CASE db' = UpdateIndexedAt(db, win.indexing)
    <3>1. Forgot(db, {}, db')
      BY <1>1, <2>2, UpdateIndexedAtIs, WindowIs DEF PanelTypeOK
    <3>2. QED
      BY <1>1, <1>2, <3>1, SearchedForgot
  <2>3. QED
    BY <2>1, <2>2 DEF OnPathsChanged, OnScanFinished, EndRun, StartApp, vars
<1>5. p \in win.pending[f] \cup win.queued \cup Reported
        => p \in (win.pending[f] \cup win.queued \cup Reported)'
  <2>1. CASE OnPathsChanged
    <3>1. win.on /\ win.badge[f] # "none"
      BY <2>1 DEF OnPathsChanged, Handle, PanelGood, Listed, Shown, Tracked
    <3>2. /\ win'.queued = win.queued
          /\ win'.pending[f] = win.pending[f] \cup (Head(win.inbox).paths \cap Under[f])
          /\ PathsIn(win.inbox) = Head(win.inbox).paths \cup PathsIn(win'.inbox)
      <4>1. /\ HasNoted(Rest, Head(win.inbox).paths, win') /\ OtherInbox(win, Rest.inbox, Rest)
            /\ PathsIn(win.inbox) = Head(win.inbox).paths \cup PathsIn(win'.inbox)
        BY <1>1, <2>1, OnPathsChangedIs
      <4>2. QED
        BY <3>1, <4>1 DEF HasNoted, OtherInbox
    <3>3. QED
      BY <1>1, <3>2
  <2>2. CASE OnScanFinished
    BY <1>1, <2>2, OnScanFinishedIs DEF Loaded, OtherInbox
  <2>3. CASE EndRun
    BY <1>1, <2>3, EndRunIs
  <2>4. CASE StartApp
    <3>1. win = NoWindow
      BY <2>4 DEF StartApp, PanelGood, Listed, Off
    <3>2. QED
      BY <1>1, <3>1, NewWindowIs, EmptyInbox
  <2>5. QED
    BY <2>1, <2>2, <2>3, <2>4
<1>6. QED
  BY <1>1, <1>2, <1>3, <1>4, <1>5, QuietSafe

LEMMA FoldersSafe ==
  ASSUME PanelGood, Good', NEW f \in Folder, Tracked(f), Tracked(f)', NEW p \in Under[f],
         Safe(f, p), NEW g \in Folder, UserAdd(g) \/ UserRemove(g)
  PROVE  Safe(f, p)'
<1>1. /\ PanelTypeOK /\ Good /\ p \in Path /\ f \in Registered(db) /\ f \in Registered(db')
      /\ win.pending \in [Folder -> SUBSET Path]
      /\ lost \in [paths : SUBSET Path, cut : SUBSET Folder]
      /\ hazard \in [stale : SUBSET Path, revived : SUBSET Path]
  BY UnderPaths, WindowIs DEF PanelGood, Good, DiskGood, PanelTypeOK, Tracked
<1>2. CASE UserAdd(g)
  <2>1. Loaded(win, db', win') /\ AddFolder(g)
    BY <1>1, <1>2, UserAddIs DEF UserAdd
  <2>2. UNCHANGED <<disk, thread, hazard, unread>> /\ lost'.paths = lost.paths
    BY <1>1, <1>2 DEF UserAdd, AddFolder
  <2>3. Forgot(db, Inside(g), db')
    BY <1>1, <2>1, AddFolderIs
  <2>4. f \notin Within[g] \/ f = g
    BY <1>1, <2>1, AddedFolders DEF Registered
  <2>5. ASSUME NEW h \in Registered(db) \cap Within[g] PROVE p \notin Under[h]
    <3>1. f # h
      BY <1>1, <2>1, <2>4 DEF AddFolder
    <3>2. QED
      BY <1>1, <3>1, Disjoint
  <2>6. p \notin Inside(g)
    BY <2>5 DEF Inside
  <2>7. Searched(p) => Searched(p)'
    BY <1>1, <2>2, <2>3, <2>6, SearchedForgot
  <2>8. win'.pending = win.pending /\ win'.queued = win.queued /\ Reported' = Reported
        /\ Excused' = Excused
    BY <2>1, <2>2 DEF Loaded, Reported, Excused
  <2>9. QED
    BY <1>1, <2>2, <2>7, <2>8, QuietSafe
<1>3. CASE UserRemove(g)
  <2> DEFINE queued == win.queued \cup UNION {win.pending[h] : h \in Folder \ {g}}
  <2>1. RemoveFolder(g, queued)
    BY <1>3 DEF UserRemove
  <2> HIDE DEF queued
  <2>2. UNCHANGED <<disk, thread, unread>> /\ lost' = lost /\ hazard'.stale = hazard.stale
    BY <1>1, <1>3, <2>1 DEF UserRemove, RemoveFolder
  <2>3. Forgot(db, Under[g], db')
    BY <1>1, <2>1, RemoveFolderIs
  <2>4. f # g
    BY <1>1, <2>1, RemovedFolders DEF Registered
  <2>5. p \notin Under[g]
    BY <1>1, <2>1, <2>4, Disjoint DEF RemoveFolder
  <2>6. Searched(p) => Searched(p)'
    BY <1>1, <2>2, <2>3, <2>5, SearchedForgot
  <2>7. win'.pending[f] = win.pending[f] /\ win'.queued = win.queued /\ Reported' = Reported
        /\ Excused' = Excused
    <3>1. win'.pending = [win.pending EXCEPT ![g] = {}] /\ win'.queued = win.queued
          /\ win'.inbox = win.inbox
      BY <1>1, <1>3, UserRemoveIs
    <3>2. win.pending \in [Folder -> SUBSET Path]
      BY <1>1 DEF PanelTypeOK, WindowState
    <3>3. win'.pending[f] = win.pending[f]
      BY <2>4, <3>1, <3>2
    <3>4. QED
      BY <2>2, <3>1, <3>3 DEF Reported, Excused
  <2>8. QED
    BY <1>1, <2>2, <2>6, <2>7, QuietSafe
<1>4. QED
  BY <1>2, <1>3

LEMMA ExitSafe ==
  ASSUME PanelGood, NEW f \in Folder, NEW p \in Path, Safe(f, p), Exit
  PROVE  Safe(f, p)'
<1>1. lost \in [paths : SUBSET Path, cut : SUBSET Folder]
  BY DEF PanelGood, PanelTypeOK
<1>2. UNCHANGED <<disk, db, hazard, unread>>
      /\ lost'.paths = lost.paths \cup UnderWay \cup UNION {win.pending[g] : g \in Folder}
  BY <1>1 DEF Exit
<1>3. CASE Settled(p)
  BY <1>2, <1>3, SettledKept, SearchedSame DEF Safe, Excused
<1>4. CASE p \in win.pending[f] \cup win.queued \cup Reported
  BY <1>2, <1>4 DEF UnderWay, Safe, Settled, Excused
<1>5. ASSUME NEW t \in Thread, p \in Coming(thread[t]) PROVE p \in UnderWay
  BY <1>5, ComingHeld DEF UnderWay
<1>6. QED
  BY <1>2, <1>3, <1>4, <1>5 DEF Safe, Settled, Excused

\* A thread is started on the files of S, and the window lets go of them.
LEMMA StartSafe ==
  ASSUME PanelGood, NEW f \in Folder, NEW p \in Path, Safe(f, p),
         NEW t \in Thread, NEW S, At(t, "idle"), thread' = [thread EXCEPT ![t] = S],
         UNCHANGED <<disk, db, hazard, unread>>, lost'.paths = lost.paths,
         p \in win.pending[f] \cup win.queued \cup Reported
           => p \in (win.pending[f] \cup win.queued \cup Reported)' \cup Coming(S)'
  PROVE  Safe(f, p)'
<1>1. thread \in [Thread -> ThreadState] /\ Orderly(thread[t])
  BY DEF PanelGood, Good, ThreadsRight
<1>2. Coming(thread[t]) = {}
  BY <1>1 DEF At, Orderly, Coming, Due, Extracted
<1>3. CASE Settled(p)
  BY <1>3, SettledKept, SearchedSame DEF Safe, Excused
<1>4. CASE p \in win.pending[f] \cup win.queued \cup Reported \cup unread
  <2>1. thread'[t] = S
    BY <1>1
  <2>2. QED
    BY <1>4, <2>1 DEF Safe
<1>5. ASSUME NEW s \in Thread, p \in Coming(thread[s]) PROVE p \in Coming(thread[s])'
  <2>1. s # t /\ thread'[s] = thread[s]
    BY <1>1, <1>2, <1>5
  <2>2. QED
    BY <1>5, <2>1, ComingSame
<1>6. QED
  BY <1>3, <1>4, <1>5 DEF Safe

LEMMA RunSafe ==
  ASSUME PanelGood, PanelTypeOK', NEW f \in Folder, NEW p \in Path, Safe(f, p), StartQueued
  PROVE  Safe(f, p)'
<1>1. PanelTypeOK /\ OnlyChanges(win.inbox) /\ Reported = PathsIn(win.inbox)
      /\ Reported' = PathsIn(win'.inbox)
  BY ReportedIs DEF PanelGood, Listed, Reported, PathsIn
<1>2. PICK t \in Thread : StartPaths(t, win.queued)
  BY DEF StartQueued
<1>3. PICK th : th = [IdleThread EXCEPT !.pc = "check", !.todo = win.queued]
                /\ At(t, "idle") /\ thread' = [thread EXCEPT ![t] = th]
  BY <1>2 DEF StartPaths, StartThread
<1>4. win.queued \subseteq Coming(th)'
  BY <1>3 DEF Coming, IdleThread
<1>5. UNCHANGED <<disk, db, hazard, unread, lost>>
  BY DEF StartQueued
<1>6. win'.pending = win.pending /\ Reported' = Reported
  BY <1>1, StartQueuedIs
<1>7. QED
  BY <1>3, <1>4, <1>5, <1>6, StartSafe

LEMMA ClickSafe ==
  ASSUME PanelGood, NEW f \in Folder, Tracked(f), NEW p \in Under[f], Safe(f, p), ClickIndex
  PROVE  Safe(f, p)'
<1>1. /\ PanelTypeOK /\ p \in Path /\ win.queued = {}
      /\ lost \in [paths : SUBSET Path, cut : SUBSET Folder]
  BY UnderPaths DEF PanelGood, Listed, PanelTypeOK, ClickIndex
<1>2. PICK t \in Thread : IF FullFolders # {} THEN StartFolders(t, FullFolders)
                                              ELSE StartPaths(t, ChangedPaths)
  BY DEF ClickIndex
<1>3. UNCHANGED <<disk, db, hazard, unread>> /\ lost'.paths = lost.paths
  BY <1>1 DEF ClickIndex
<1>4. /\ Reported' = Reported /\ win'.queued = IF FullFolders # {} THEN ChangedPaths ELSE {}
      /\ win'.pending[f] = IF f \in ChangedFolders THEN {} ELSE win.pending[f]
  BY <1>1, ClickIndexIs DEF Reported
<1>5. f \in ChangedFolders => win.pending[f] \subseteq ChangedPaths
  BY DEF ChangedPaths
<1>6. CASE FullFolders # {}
  <2> DEFINE th == [IdleThread EXCEPT !.pc = "walk", !.walk = FullFolders]
  <2>1. At(t, "idle") /\ thread' = [thread EXCEPT ![t] = th]
    BY <1>2, <1>6 DEF StartFolders, StartThread
  <2> HIDE DEF th
  <2>2. p \in win.pending[f] \cup win.queued \cup Reported
          => p \in (win.pending[f] \cup win.queued \cup Reported)'
    BY <1>1, <1>4, <1>5, <1>6
  <2>3. QED
    BY <1>1, <1>3, <2>1, <2>2, StartSafe
<1>7. CASE FullFolders = {}
  <2>1. PICK th : th = [IdleThread EXCEPT !.pc = "check", !.todo = ChangedPaths]
                  /\ At(t, "idle") /\ thread' = [thread EXCEPT ![t] = th]
    BY <1>2, <1>7 DEF StartPaths, StartThread
  <2>2. ChangedPaths \subseteq th.todo
    BY <2>1 DEF IdleThread
  <2>3. th.todo \subseteq Coming(th)'
    BY DEF Coming
  <2>4. p \in win.pending[f] \cup win.queued \cup Reported
          => p \in (win.pending[f] \cup win.queued \cup Reported)' \cup Coming(th)'
    BY <1>1, <1>4, <1>5, <2>2, <2>3
  <2>5. QED
    BY <1>1, <1>3, <2>1, <2>4, StartSafe
<1>8. QED
  BY <1>6, <1>7

\* A folder that has not been indexed is walked.
LEMMA WalkStarts ==
  ASSUME ClickIndex, PanelGood, NEW f \in FullFolders, NEW p \in Under[f]
  PROVE  Safe(f, p)'
<1>1. PICK t \in Thread : StartFolders(t, FullFolders)
  BY DEF ClickIndex
<1>2. thread \in [Thread -> ThreadState]
  BY DEF PanelGood, Good
<1>3. thread'[t] = [IdleThread EXCEPT !.pc = "walk", !.walk = FullFolders]
  BY <1>1, <1>2 DEF StartFolders, StartThread
<1>4. thread'[t].walk = FullFolders
  BY <1>3 DEF IdleThread
<1>5. p \in Coming(thread[t])'
  BY <1>4 DEF Coming
<1>6. QED
  BY <1>5 DEF Safe

LEMMA EndSafe ==
  ASSUME PanelGood, PanelTypeOK', NEW f \in Folder, NEW p \in Path, Safe(f, p),
         NEW t \in Thread, PanelFinish(t)
  PROVE  Safe(f, p)'
<1>1. /\ PanelTypeOK /\ Reported = PathsIn(win.inbox) /\ Reported' = PathsIn(win'.inbox)
      /\ thread \in [Thread -> ThreadState] /\ Orderly(thread[t])
  BY ReportedIs DEF PanelGood, PanelTypeOK, Reported, PathsIn, Good, ThreadsRight
<1>2. UNCHANGED <<disk, db, hazard, unread, lost>>
      /\ thread[t].pc = "done" /\ thread' = [thread EXCEPT ![t] = IdleThread]
  BY DEF PanelFinish, Finish, At
<1>3. Coming(thread[t]) = {}
  BY <1>1, <1>2 DEF Orderly, Coming, Due, Extracted
<1>4. /\ win'.pending = win.pending /\ win'.queued = win.queued
      /\ PathsIn(win'.inbox) = PathsIn(win.inbox) \cup {}
  BY <1>1, SignalIs DEF PanelFinish, OtherInbox
<1>5. CASE Settled(p)
  BY <1>2, <1>5, SettledKept, SearchedSame DEF Safe, Excused
<1>6. CASE p \in win.pending[f] \cup win.queued \cup Reported \cup unread
  BY <1>1, <1>2, <1>4, <1>6 DEF Safe
<1>7. ASSUME NEW s \in Thread, p \in Coming(thread[s]) PROVE p \in Coming(thread[s])'
  <2>1. s # t /\ thread'[s] = thread[s]
    BY <1>1, <1>2, <1>3, <1>7
  <2>2. QED
    BY <1>2, <1>7, <2>1, ComingSame
<1>8. QED
  BY <1>5, <1>6, <1>7 DEF Safe

-----------------------------------------------------------------------------
(* No thread forgets a file *)

\* A step of thread[t] that stores nothing: it keeps what it is going to store,
\* but for files that are settled.
LEMMA MoveSafe ==
  ASSUME PanelGood, NEW f \in Folder, NEW p \in Path, Safe(f, p), NEW t \in Thread, PanelThread(t),
         UNCHANGED <<db, hazard>>, NEW th, thread' = [thread EXCEPT ![t] = th],
         HasText(p) /\ ~Searched(p) /\ p \notin hazard.stale /\ p \in Coming(thread[t])
            => p \in Coming(th) \cup lost'.paths,
         p \in lost.paths \ lost'.paths => p \in Coming(th)
  PROVE  Safe(f, p)'
<1>1. thread \in [Thread -> ThreadState] /\ disk' = disk /\ win' = win /\ unread' = unread
  BY DEF PanelGood, Good, PanelThread, ThreadStep, Walk, Check, CheckFails, Checked, Stat, Extract,
         Collect, FlushRead, FlushWrite, ChunkFails
<1>2. thread'[t] = th /\ \A s \in Thread \ {t} : thread'[s] = thread[s]
  BY <1>1
<1>3. Coming(th)' = Coming(th)
  BY <1>1 DEF Coming, Due
<1>4. Searched(p)' = Searched(p) /\ HasText(p)' = HasText(p) /\ Reported' = Reported
  BY <1>1 DEF Searched, HasText, TextOf, Reported
<1>5. CASE p \in lost.paths
  BY <1>2, <1>3, <1>5 DEF Safe, Settled, Excused
<1>6. CASE p \in win.pending[f] \cup win.queued \cup Reported \cup unread
  BY <1>1, <1>4, <1>6 DEF Safe
<1>7. CASE p \in hazard.stale \/ ~HasText(p) \/ Searched(p)
  BY <1>4, <1>7 DEF Safe, Settled, Excused
<1>8. ASSUME NEW s \in Thread, p \in Coming(thread[s]), ~(s = t) PROVE p \in Coming(thread[s])'
  BY <1>1, <1>2, <1>8, ComingSame
<1>9. ASSUME p \in Coming(thread[t]), HasText(p), ~Searched(p), p \notin hazard.stale
      PROVE  Safe(f, p)'
  BY <1>2, <1>3, <1>9 DEF Safe, Settled, Excused
<1>10. QED
  BY <1>5, <1>6, <1>7, <1>8, <1>9 DEF Safe, Settled, Excused

\* What PanelThread does to the lost files.
LEMMA LostIs ==
  ASSUME PanelGood, NEW t \in Thread, PanelThread(t)
  PROVE  /\ ChunkFails(t) => lost'.paths = lost.paths \cup Dropped(thread[t])
         /\ ~ChunkFails(t) => lost'.paths = lost.paths \ StoredNow(t)
         /\ thread[t].pc # "write" => StoredNow(t) = {}
BY DEF PanelGood, PanelTypeOK, PanelThread, StoredNow, At

LEMMA FailSafe ==
  ASSUME PanelGood, NEW f \in Folder, NEW p \in Path, Safe(f, p), NEW t \in Thread,
         PanelThread(t), ChunkFails(t)
  PROVE  Safe(f, p)'
<1> DEFINE th == NextChunk(thread[t])
<1>1. /\ thread[t].pc \in {"extract", "flush", "write"} /\ thread' = [thread EXCEPT ![t] = th]
      /\ UNCHANGED <<db, hazard>>
  BY DEF ChunkFails
<1>2. th.todo = thread[t].todo
  BY DEF NextChunk, IdleThread
<1> HIDE DEF th
<1>3. Orderly(thread[t]) /\ lost'.paths = lost.paths \cup Dropped(thread[t])
  BY LostIs DEF PanelGood, ThreadsRight
<1>4. Coming(thread[t]) \subseteq Coming(th) \cup lost'.paths
  BY <1>1, <1>2, <1>3 DEF Orderly, Coming, Due, Dropped
<1>5. QED
  BY <1>1, <1>3, <1>4, MoveSafe

LEMMA WalkSafe ==
  ASSUME PanelGood, NEW f \in Folder, NEW p \in Path, Safe(f, p), NEW t \in Thread,
         PanelThread(t), ~ChunkFails(t), Walk(t)
  PROVE  Safe(f, p)'
<1> DEFINE found == OnDisk \cap UNION {Under[g] : g \in thread[t].walk}
           th == NextChunk([IdleThread EXCEPT !.todo = found])
<1>1. thread[t].pc = "walk" /\ thread' = [thread EXCEPT ![t] = th] /\ UNCHANGED <<db, hazard>>
  BY DEF Walk, At
<1>2. th.todo = found
  BY DEF NextChunk, IdleThread
<1>3. HasText(p) => p \in OnDisk
  BY DEF HasText, OnDisk
<1>4. Orderly(thread[t]) /\ lost'.paths = lost.paths
  BY <1>1, LostIs DEF PanelGood, ThreadsRight
<1>5. HasText(p) /\ p \in Coming(thread[t]) => p \in th.todo
  BY <1>1, <1>2, <1>3, <1>4 DEF Orderly, Coming, Due
<1> HIDE DEF th
<1>6. th.todo \subseteq Coming(th)
  BY DEF Coming
<1>7. QED
  BY <1>1, <1>4, <1>5, <1>6, MoveSafe

\* A file that a check finds unchanged is searched by its text.
LEMMA SkippedSearched ==
  ASSUME Good, NEW p \in Path, HasText(p), StoredTime[p] = disk[p].ver, p \notin hazard.stale
  PROVE  Searched(p)
<1>1. p \in Known(db) /\ db.files[p].has /\ db.files[p].mtime = disk[p].ver
  BY DEF StoredTime, HasText
<1>2. PICK c \in db.contents : c.file = FileId(db, p)
  BY <1>1 DEF Good, TablesGood, Agree, Flagged
<1>3. c.text = disk[p].ver
  BY <1>1, <1>2 DEF Good, TablesGood, SkippedIsCurrent, HasContent
<1>4. QED
  BY <1>2, <1>3 DEF Searched, TextOf, HasText

LEMMA CheckSafe ==
  ASSUME PanelGood, NEW f \in Folder, NEW p \in Path, Safe(f, p), NEW t \in Thread,
         PanelThread(t), ~ChunkFails(t), NEW seen \in {StoredTime, None}, Checked(t, seen)
  PROVE  Safe(f, p)'
<1>1. /\ Good /\ Orderly(thread[t]) /\ thread[t] \in ThreadState
      /\ thread[t].pc = "check" /\ UNCHANGED <<db, hazard>>
  BY ThreadIs DEF PanelGood, ThreadsRight, Checked, At
<1>2. PICK S \in SUBSET thread[t].todo :
        thread' = [thread EXCEPT
            ![t].pc = "stat", ![t].todo = @ \ S, ![t].chunk = S,
            ![t].seen = [q \in Path |-> IF q \in S THEN seen[q] ELSE 0]]
  BY DEF Checked
<1> DEFINE new == [q \in Path |-> IF q \in S THEN seen[q] ELSE 0]
           th == [thread[t] EXCEPT !.pc = "stat", !.todo = @ \ S, !.chunk = S, !.seen = new]
<1>3. thread' = [thread EXCEPT ![t] = th]
  BY <1>2
<1>4. p \in S => new[p] = seen[p]
  OBVIOUS
<1> HIDE DEF new
<1>5. th.pc = "stat" /\ th.chunk = S /\ th.todo = thread[t].todo \ S /\ th.seen = new
  BY <1>1 DEF ThreadState
<1> HIDE DEF th
<1>6. p \in Coming(thread[t]) => p \in thread[t].todo
  BY <1>1 DEF Orderly, Coming, Due
<1>7. HasText(p) /\ ~Searched(p) /\ p \notin hazard.stale => seen[p] # disk[p].ver
  <2>1. seen = None => seen[p] = 0
    BY NoneType
  <2>2. QED
    BY <1>1, <2>1, SkippedSearched DEF HasText
<1>8. HasText(p) /\ ~Searched(p) /\ p \notin hazard.stale /\ p \in Coming(thread[t])
        => p \in Coming(th)
  BY <1>4, <1>5, <1>6, <1>7 DEF Coming, Due
<1>9. lost'.paths = lost.paths
  BY <1>1, LostIs
<1>10. QED
  BY <1>1, <1>3, <1>8, <1>9, MoveSafe

LEMMA StatSafe ==
  ASSUME PanelGood, NEW f \in Folder, NEW p \in Path, Safe(f, p), NEW t \in Thread,
         PanelThread(t), ~ChunkFails(t), Stat(t)
  PROVE  Safe(f, p)'
<1> DEFINE old == thread[t]
           needs == {q \in old.chunk \cap OnDisk : old.seen[q] # disk[q].ver}
           th == IF needs = {} THEN NextChunk(old)
                 ELSE [old EXCEPT !.pc = "extract", !.chunk = needs, !.seen = None]
<1>1. /\ Orderly(old) /\ old \in ThreadState /\ old.pc = "stat" /\ UNCHANGED <<db, hazard>>
      /\ thread' = [thread EXCEPT ![t] = th]
  BY ThreadIs DEF PanelGood, ThreadsRight, Stat, At
<1>2. HasText(p) /\ p \in Due(old) => p \in needs
  BY <1>1 DEF Due, HasText, OnDisk
<1>3. lost'.paths = lost.paths
  BY <1>1, LostIs
<1> HIDE DEF old, needs
<1>4. p \in Coming(old) => p \in old.todo \cup Due(old)
  BY <1>1 DEF Orderly, Coming
<1>5. th.todo = old.todo /\ (needs = {} \/ (th.pc = "extract" /\ th.chunk = needs))
  BY <1>1 DEF NextChunk, IdleThread, ThreadState
<1> HIDE DEF th
<1>6. HasText(p) /\ p \in Coming(old) => p \in Coming(th)
  BY <1>2, <1>4, <1>5 DEF Coming, Due
<1>7. QED
  BY <1>1, <1>3, <1>6, MoveSafe DEF old

LEMMA ReadSafe ==
  ASSUME PanelGood, NEW f \in Folder, NEW p \in Path, Safe(f, p), NEW t \in Thread,
         PanelThread(t), ~ChunkFails(t), NEW q \in Path, Extract(t, q)
  PROVE  Safe(f, p)'
<1> DEFINE old == thread[t]
           th == [old EXCEPT !.chunk = @ \ {q}, !.ready = @ \cup {q}, !.text[q] = TextOf(q)]
<1>1. /\ Orderly(old) /\ old \in ThreadState /\ old.pc \in {"extract", "flush", "write"}
      /\ q \in old.chunk /\ UNCHANGED <<db, hazard>> /\ thread' = [thread EXCEPT ![t] = th]
  BY ThreadIs DEF PanelGood, ThreadsRight, Extract
<1>2. StoredNow(t) \subseteq old.buf \ old.torn
  BY DEF StoredNow, Texts, Batch
<1>3. lost'.paths = lost.paths \ StoredNow(t)
  BY LostIs
<1> HIDE DEF old
<1>4. /\ th.pc = old.pc /\ th.walk = old.walk /\ th.todo = old.todo /\ th.torn = old.torn
      /\ th.chunk = old.chunk \ {q} /\ th.ready = old.ready \cup {q} /\ th.buf = old.buf
  BY <1>1 DEF ThreadState
<1> HIDE DEF th
<1>5. q \notin old.torn
  BY <1>1 DEF Orderly
<1>6. Coming(old) \subseteq Coming(th) /\ old.buf \ old.torn \subseteq Coming(th)
  BY <1>1, <1>4, <1>5 DEF Coming, Due, Extracted
<1>7. QED
  BY <1>1, <1>2, <1>3, <1>6, MoveSafe DEF old

LEMMA CollectSafe ==
  ASSUME PanelGood, NEW f \in Folder, NEW p \in Path, Safe(f, p), NEW t \in Thread,
         PanelThread(t), ~ChunkFails(t), NEW q \in Path, Collect(t, q)
  PROVE  Safe(f, p)'
<1> DEFINE old == thread[t]
<1>1. /\ old \in ThreadState /\ old.pc = "extract" /\ q \in old.ready /\ UNCHANGED <<db, hazard>>
  BY ThreadIs DEF PanelGood, Collect, At
<1>2. PICK pc \in {"flush", "extract"} :
        thread' = [thread EXCEPT ![t].ready = @ \ {q}, ![t].buf = thread[t].buf \cup {q}, ![t].pc = pc]
  BY DEF Collect
<1> DEFINE th == [old EXCEPT !.ready = @ \ {q}, !.buf = old.buf \cup {q}, !.pc = pc]
<1>3. thread' = [thread EXCEPT ![t] = th]
  BY <1>2
<1>4. lost'.paths = lost.paths
  BY <1>1, LostIs
<1> HIDE DEF old
<1>5. /\ th.pc = pc /\ th.walk = old.walk /\ th.todo = old.todo /\ th.torn = old.torn
      /\ th.chunk = old.chunk /\ Extracted(th) = Extracted(old)
  BY <1>1 DEF ThreadState, Extracted
<1> HIDE DEF th
<1>6. Coming(old) \subseteq Coming(th)
  BY <1>1, <1>2, <1>5 DEF Coming, Due
<1>7. QED
  BY <1>1, <1>3, <1>4, <1>6, MoveSafe DEF old

LEMMA FlushReadSafe ==
  ASSUME PanelGood, NEW f \in Folder, NEW p \in Path, Safe(f, p), NEW t \in Thread,
         PanelThread(t), ~ChunkFails(t), FlushRead(t)
  PROVE  Safe(f, p)'
<1> DEFINE old == thread[t]
           here == old.buf \cap OnDisk
           stored == here \cap Known(db)
           mtime == [x \in Path |-> IF x \in here THEN disk[x].ver ELSE 0]
           found == [x \in Path |-> IF x \in stored THEN db.born[x] ELSE 0]
           time == [x \in Path |-> IF x \in stored THEN db.files[x].mtime ELSE 0]
           th == [old EXCEPT !.pc = "write", !.mtime = mtime, !.found = found, !.time = time]
<1>1. /\ old \in ThreadState /\ old.pc = "flush" /\ UNCHANGED <<db, hazard>>
      /\ thread' = [thread EXCEPT ![t] = th]
  BY ThreadIs DEF PanelGood, FlushRead, At
<1>2. lost'.paths = lost.paths
  BY <1>1, LostIs
<1> HIDE DEF old, mtime, found, time
<1>3. /\ th.pc = "write" /\ th.walk = old.walk /\ th.todo = old.todo /\ th.torn = old.torn
      /\ th.chunk = old.chunk /\ th.ready = old.ready /\ th.buf = old.buf
  BY <1>1 DEF ThreadState
<1> HIDE DEF th
<1>4. Coming(old) \subseteq Coming(th)
  BY <1>1, <1>3 DEF Coming, Due, Extracted
<1>5. QED
  BY <1>1, <1>2, <1>4, MoveSafe DEF old

\* A batch changes the texts of its files only.
LEMMA FlushWriteIs ==
  ASSUME Good, Good', NEW t \in Thread, FlushWrite(t), NEW p \in Path
  PROVE  /\ p \in Texts(thread[t]) =>
              \E c \in db'.contents : c.file = FileId(db', p) /\ c.text = thread[t].text[p]
         /\ p \notin Texts(thread[t]) =>
              \A c \in db.contents : c.file = FileId(db, p)
                                       => c \in db'.contents /\ c.file = FileId(db', p)
<1> DEFINE th == thread[t]
           f == FilesStored(th)
           S == Batch(th)
           X == Texts(th)
<1>1. Storable(th) /\ db' = Stored(th)
  BY DEF FlushWrite
<1>2. WroteFiles(db, S, th.mtime, f) /\ WroteContents(f, X, th.text, db')
  BY <1>1, StoredIs
<1>3. References(f, X, IdsOf(th))
  BY <1>1 DEF Storable
<1>4. X \subseteq Known(f)
  BY <1>3 DEF References
<1> HIDE DEF th, f, S, X
<1>5. /\ Known(db') = Known(f) /\ Known(db) \subseteq Known(f) /\ f.contents = db.contents
      /\ Flagged(db') /\ Placed(db)
      /\ \A q \in Path : FileId(db', q) = FileId(f, q)
      /\ \A q \in Known(db) : FileId(db', q) = FileId(db, q)
  BY <1>2 DEF WroteFiles, WroteContents, FileId, Agree, Good, TablesGood
<1>6. ASSUME p \in X PROVE \E c \in db'.contents : c.file = FileId(db', p) /\ c.text = th.text[p]
  <2>1. p \in Known(db') /\ db'.files[p].has
    BY <1>2, <1>4, <1>5, <1>6 DEF WroteContents
  <2>2. PICK c \in db'.contents : c.file = FileId(db', p)
    BY <1>5, <2>1 DEF Flagged
  <2>3. c.text = th.text[p]
    BY <1>2, <1>5, <1>6, <2>2 DEF WroteContents
  <2>4. QED
    BY <2>2, <2>3
<1>7. ASSUME p \notin X, NEW c \in db.contents, c.file = FileId(db, p)
      PROVE  c \in db'.contents /\ c.file = FileId(db', p)
  <2>1. PICK q \in Known(db) : c.file = FileId(db, q)
    BY <1>5 DEF Placed
  <2>2. p \in Known(db) /\ p \in Known(f) \ X
    BY <1>5, <1>7, <2>1 DEF FileId
  <2>3. c.file = FileId(f, p) /\ c.file = FileId(db', p)
    BY <1>5, <1>7, <2>2
  <2>4. QED
    BY <1>2, <1>5, <2>2, <2>3 DEF WroteContents
<1>8. QED
  BY <1>6, <1>7 DEF th, X

LEMMA StoreSafe ==
  ASSUME PanelGood, Good', NEW f \in Folder, NEW p \in Path, Safe(f, p), NEW t \in Thread,
         PanelThread(t), ~ChunkFails(t), FlushWrite(t)
  PROVE  Safe(f, p)'
<1> DEFINE th == thread[t]
<1>1. /\ Good /\ Orderly(th) /\ Read(th) /\ th \in ThreadState /\ th.pc = "write"
      /\ thread' = [thread EXCEPT ![t] = Flushed(th)] /\ disk' = disk
      /\ thread \in [Thread -> ThreadState]
      /\ hazard' = [hazard EXCEPT !.stale = (@ \ Texts(th)) \cup Mismatched(th)]
      /\ hazard \in [stale : SUBSET Path, revived : SUBSET Path]
      /\ disk \in [Path -> [ver : Nat, good : BOOLEAN]]
  BY ThreadIs DEF PanelGood, ThreadsRight, FlushWrite, At, Good, DiskGood
<1>2. win' = win /\ unread' = unread /\ Reported' = Reported
  BY DEF PanelThread, Reported
<1>3. lost'.paths = lost.paths \ (Texts(th) \ th.torn)
  BY <1>1, LostIs DEF StoredNow, At
<1>4. hazard'.stale = (hazard.stale \ Texts(th)) \cup Mismatched(th)
      /\ Texts(th) \cap th.torn \subseteq Mismatched(th) /\ Texts(th) \subseteq th.buf
  BY <1>1 DEF Mismatched, Texts, Batch
<1>5. /\ p \in Texts(th) =>
           \E c \in db'.contents : c.file = FileId(db', p) /\ c.text = th.text[p]
      /\ p \notin Texts(th) =>
           \A c \in db.contents : c.file = FileId(db, p)
                                    => c \in db'.contents /\ c.file = FileId(db', p)
  BY <1>1, FlushWriteIs
<1>6. TextOf(p)' = TextOf(p) /\ HasText(p)' = HasText(p)
  BY <1>1 DEF TextOf, HasText
<1>7. ASSUME p \in Texts(th) PROVE Settled(p)'
  <2>1. CASE p \in th.torn
    BY <1>4, <1>7, <2>1 DEF Settled, Excused
  <2>2. CASE p \notin th.torn /\ HasText(p)
    <3>1. th.text[p] = TextOf(p)
      BY <1>1, <1>4, <1>7, <2>2 DEF Read, HasText, Extracted
    <3>2. QED
      BY <1>5, <1>6, <1>7, <3>1 DEF Settled, Searched
  <2>3. CASE ~HasText(p)
    BY <1>6, <2>3 DEF Settled
  <2>4. QED
    BY <2>1, <2>2, <2>3
<1>8. ASSUME p \notin Texts(th), Settled(p) PROVE Settled(p)'
  <2>1. p \in Excused => p \in Excused'
    BY <1>3, <1>4, <1>8 DEF Excused
  <2>2. Searched(p) => Searched(p)'
    BY <1>5, <1>6, <1>8 DEF Searched
  <2>3. QED
    BY <1>6, <1>8, <2>1, <2>2 DEF Settled
<1>9. CASE p \in win.pending[f] \cup win.queued \cup Reported \cup unread
  BY <1>2, <1>9 DEF Safe
<1>10. ASSUME p \notin Texts(th), HasText(p), p \in Coming(th)
       PROVE  p \in Coming(Flushed(th))
  <2>1. p \notin th.buf \ th.torn
    <3>1. p \in th.buf \ th.torn => th.text[p] # NoText /\ th.mtime[p] # 0
      BY <1>1, <1>10 DEF Read, Extracted, HasText, TextOf, NoText
    <3>2. QED
      BY <1>10, <3>1 DEF Texts, Batch
  <2>2. p \in th.todo \cup th.chunk \cup (th.ready \ th.torn)
    BY <1>1, <1>10, <2>1 DEF Orderly, Coming, Due, Extracted
  <2>3. CASE th.chunk \cup th.ready = {}
    <3>1. Flushed(th).todo = th.todo
      BY <2>3 DEF Flushed, NextChunk, IdleThread
    <3>2. QED
      BY <2>2, <2>3, <3>1 DEF Coming
  <2>4. CASE th.chunk \cup th.ready # {}
    <3> DEFINE r == Flushed(th)
    <3>1. /\ r.pc = "extract" /\ r.todo = th.todo /\ r.chunk = th.chunk /\ r.ready = th.ready
          /\ r.torn = th.torn \ th.buf
      BY <1>1, <2>4, FlushedIs
    <3> HIDE DEF r, th
    <3>2. p \in Coming(r)
      BY <2>2, <3>1 DEF Coming, Due, Extracted
    <3>3. QED
      BY <3>2 DEF r
  <2>5. QED
    BY <2>3, <2>4
<1>11. thread'[t] = Flushed(th) /\ \A s \in Thread \ {t} : thread'[s] = thread[s]
  BY <1>1
<1>12. p \in Coming(Flushed(th)) => p \in Coming(thread[t])'
  <2>1. PICK r : r = Flushed(th) /\ thread'[t] = r
    BY <1>11
  <2>2. p \in Coming(r) => p \in Coming(thread[t])'
    BY <1>1, <2>1 DEF Coming, Due
  <2>3. QED
    BY <2>1, <2>2
<1>13. ASSUME NEW s \in Thread, p \in Coming(thread[s]), ~(s = t) PROVE p \in Coming(thread[s])'
  BY <1>1, <1>11, <1>13, ComingSame
<1>14. ASSUME p \in Coming(thread[t]), p \notin Texts(th) PROVE Safe(f, p)'
  <2>1. CASE HasText(p)
    BY <1>10, <1>12, <1>14, <2>1 DEF Safe
  <2>2. CASE ~HasText(p)
    BY <1>6, <2>2 DEF Safe, Settled
  <2>3. QED
    BY <2>1, <2>2
<1>15. QED
  BY <1>7, <1>8, <1>9, <1>13, <1>14 DEF Safe

LEMMA ThreadSafe ==
  ASSUME PanelGood, Good', NEW f \in Folder, NEW p \in Path, Safe(f, p), NEW t \in Thread,
         PanelThread(t)
  PROVE  Safe(f, p)'
<1>1. CASE ChunkFails(t)
  BY <1>1, FailSafe
<1>2. CASE ~ChunkFails(t)
  BY <1>2, WalkSafe, CheckSafe, StatSafe, ReadSafe, CollectSafe, FlushReadSafe, StoreSafe
     DEF PanelThread, ThreadStep, Check, CheckFails
<1>3. QED
  BY <1>1, <1>2

LEMMA CoveredKept ==
  ASSUME PanelGood, Good', PanelTypeOK', [PanelNext]_panelVars
  PROVE  Covered'
<1>1. CASE UNCHANGED panelVars
  BY <1>1 DEF PanelGood, panelVars, vars, Covered, Tracked, Registered, Safe, Settled, Excused,
     HasText, Searched, TextOf, Reported, Coming, Due
<1>2. ASSUME PanelNext, NEW f \in Folder, Tracked(f)', NEW p \in Under[f] PROVE Safe(f, p)'
  <2>1. p \in Path /\ lost \in [paths : SUBSET Path, cut : SUBSET Folder]
    BY UnderPaths DEF PanelGood, PanelTypeOK
  <2>2. ASSUME EndRun, f \in win.indexing \cap lost.cut PROVE Safe(f, p)'
    BY <2>1, <2>2 DEF EndRun, Safe, Settled, Excused
  <2>3. CASE ClickIndex /\ f \in FullFolders
    BY <2>3, WalkStarts
  <2>4. CASE Tracked(f)
    <3>1. Safe(f, p)
      BY <2>4 DEF PanelGood, Covered
    <3>2. QED
      BY <1>2, <2>1, <2>4, <3>1, WriteSafe, SignalsSafe, SlotsSafe, FoldersSafe, ExitSafe, RunSafe,
         ClickSafe, EndSafe, ThreadSafe DEF PanelNext, Slot
  <2>5. QED
    BY <1>2, <2>2, <2>3, <2>4, TrackedBefore
<1>3. QED
  BY <1>1, <1>2 DEF Covered

-----------------------------------------------------------------------------
(* The invariant holds *)

LEMMA PanelStep == ASSUME PanelGood, [PanelNext]_panelVars PROVE PanelGood'
<1>1. Good' /\ PanelTypeOK'
  BY PanelKeepsGood, PanelKeepsTypes
<1>2. QED
  BY <1>1, ThreadsKept, ApartKept, ListedKept, CoveredKept DEF PanelGood

LEMMA PanelStarts == ASSUME PanelInit PROVE PanelGood
<1>1. Good /\ \A t \in Thread : thread[t] = IdleThread
  BY InitGood DEF PanelInit, Init
<1>2. PanelTypeOK
  BY PanelBounds, NewWindowIs DEF PanelInit, PanelTypeOK
<1>3. ThreadsRight
  BY <1>1, IdleRight DEF ThreadsRight, Right
<1>4. \A f \in Folder : db.folders[f] = IF f \in Earlier THEN "indexed" ELSE "absent"
  BY DEF PanelInit, Init, EmptyTables
<1>5. Apart
  BY <1>4, FoldersNest DEF Apart, Registered
<1>6. /\ win = NoWindow /\ ~win.on /\ ~win.button /\ win.queued = {}
      /\ win.inbox = <<>> /\ \A f \in Folder : win.pending[f] = {}
  BY NewWindowIs DEF PanelInit, NoWindow
<1>7. Listed
  BY <1>1, <1>6, EmptyInbox DEF Listed, Off, Owned, Waiting
<1>8. Covered
  BY UnderPaths DEF PanelInit, Init, Covered, Safe, Settled, HasText
<1>9. QED
  BY <1>1, <1>2, <1>3, <1>5, <1>7, <1>8 DEF PanelGood

LEMMA AlwaysPanelGood == PanelSpec => []PanelGood
<1>1. PanelInit => PanelGood
  BY PanelStarts
<1>2. PanelGood /\ [PanelNext]_panelVars => PanelGood'
  BY PanelStep
<1>3. QED
  BY <1>1, <1>2, PTL DEF PanelSpec

-----------------------------------------------------------------------------
(* The theorems *)

\* MainWindow's fields keep their types: _folder_badges, _folder_indexed_at,
\* _pending_reindex_by_folder, the queue, the counter and the signals.
THEOREM PanelTypeCorrect == PanelSpec => []PanelTypeOK
<1>1. PanelGood => PanelTypeOK
  BY DEF PanelGood
<1>2. QED
  BY <1>1, AlwaysPanelGood, PTL

\* _on_usn_paths_changed, _on_index_clicked, _on_reindex_finished and the
\* threads: outside the named hazards no file below a folder that the window
\* holds to be indexed is left with an old text and nothing to index it again.
THEOREM NothingIsForgotten == PanelSpec => []NothingForgotten
<1>1. PanelGood => NothingForgotten
  <2> SUFFICES ASSUME PanelGood, win.on, NEW f \in Registered(db), win.at[f] = "indexed",
                      NEW p \in Under[f] \ (lost.paths \cup hazard.stale),
                      disk[p].ver # 0, disk[p].good
               PROVE  Searched(p) \/ p \in win.pending[f] \cup UnderWay \cup unread
    BY DEF NothingForgotten
  <2>1. f \in Folder /\ Safe(f, p)
    BY DEF PanelGood, Covered, Tracked, Registered
  <2>2. \A t \in Thread : Coming(thread[t]) \subseteq UnderWay
    BY ComingHeld DEF UnderWay
  <2>3. QED
    BY <2>1, <2>2 DEF Safe, Settled, Excused, HasText, UnderWay
<1>2. QED
  BY <1>1, AlwaysPanelGood, PTL

\* _remove_indexed_folder, with what waits in the window: rows below a folder that
\* is not registered are of files that a thread, the queue or another folder's
\* list of changed files held when the folder was removed.
THEOREM PanelRemovalHolds == PanelSpec => []RemovedStaysRemoved
<1>1. PanelGood => RemovedStaysRemoved
  BY DEF PanelGood, Good, TablesGood
<1>2. QED
  BY <1>1, AlwaysPanelGood, PTL

\* The two claims about the tables also hold under the real window, which
\* starts a thread on files that may wait for a folder no longer registered.
THEOREM PanelKeepsTables == PanelSpec => [](TablesAgree /\ SkippedIsCurrent)
<1>1. PanelGood => TablesAgree /\ SkippedIsCurrent
  BY AgreeSuffices DEF PanelGood, Good, TablesGood, TablesAgree
<1>2. QED
  BY <1>1, AlwaysPanelGood, PTL
=============================================================================
