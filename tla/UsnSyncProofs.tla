---------------------------- MODULE UsnSyncProofs ----------------------------
(***************************************************************************)
(* Proofs about UsnSync, for all values of its constants.                  *)
(***************************************************************************)
EXTENDS UsnSyncProps, TLAPS

\* A poll that has loaded its start has a real one.
Started == mon.pc \in {"query", "read", "apply"} => mon.start \in Usn

Inv == TypeOK /\ Started

LEMMA NoRowsType == NoRows \in Rows
BY DEF NoRows, Rows

LEMMA FreshTypes ==
  /\ IdleScan \in ScanState
  /\ OffMonitor \in MonitorState /\ NewMonitor \in MonitorState
  /\ NoWindow \in Window
  /\ EmptyIndex \in Index
<1>1. IdleScan \in ScanState
  BY NoRowsType DEF IdleScan, ScanState, Size, Position
<1>2. OffMonitor \in MonitorState
  BY NoRowsType, ConstantsOK DEF OffMonitor, MonitorState, Position
<1>3. NewMonitor \in MonitorState
  BY <1>2 DEF NewMonitor, MonitorState
<1>4. NoWindow \in Window
  BY DEF NoWindow, Window, Signal
<1>5. EmptyIndex \in Index
  BY NoRowsType DEF EmptyIndex, Index, Size
<1>6. QED
  BY <1>1, <1>2, <1>3, <1>4, <1>5

LEMMA InitType == Init => Inv
<1> SUFFICES ASSUME Init PROVE Inv
  OBVIOUS
<1>1. journal \in Journal /\ journal.lowest \leq NextUsn /\ NextUsn \leq MaxUsn
  BY ConstantsOK DEF Init, Journal, NextUsn
<1>2. db \in Database
  BY FreshTypes DEF Init, Database, Position
<1>3. risk \in Risk
  BY DEF Init, Risk, Position
<1>4. disk \in Rows /\ faults \in 0..MaxFaults /\ index \in Index /\ gui \in Window
      /\ scan \in [Scanner -> ScanState] /\ mon \in MonitorState
  BY FreshTypes, ConstantsOK DEF Init
<1>5. Started
  BY DEF Init, Started, OffMonitor
<1>6. QED
  BY <1>1, <1>2, <1>3, <1>4, <1>5 DEF Inv, TypeOK

-----------------------------------------------------------------------------
(* What the operators return. *)

LEMMA ShownType ==
  ASSUME NEW p \in Path \cup {NoPath} PROVE Shown(p) \in Path \cup {NoPath}
BY DEF Shown

LEMMA PutType ==
  ASSUME NEW ix \in Index, NEW f \in File, NEW p \in Path
  PROVE  Put(ix, f, p) \in Index
BY DEF Put, Index, Rows, Size

LEMMA DropType ==
  ASSUME NEW ix \in Index, NEW F
  PROVE  Drop(ix, F) \in Index
<1>1. [x \in File |-> IF x \in F THEN NoPath ELSE ix.rows[x]] \in Rows
  BY DEF Index, Rows
<1>2. QED
  BY <1>1 DEF Drop, Index

LEMMA AppliedType ==
  ASSUME disk \in Rows, NEW ix \in Index, NEW start
  PROVE  Applied(ix, start) \in Index
<1> DEFINE files == Touched(start.next, NextUsn)
           dels == {f \in files : LastDeletes(f, start.next, NextUsn)}
           placed == {f \in files \ dels : Shown(disk[f]) # NoPath}
           row(f) == CASE f \in placed -> disk[f]
                       [] f \in dels -> NoPath
                       [] f \notin placed \cup dels ->
                            IF ix.rows[f] \in {disk[x] : x \in placed} THEN NoPath
                                                                       ELSE ix.rows[f]
<1>1. ASSUME NEW f \in File PROVE row(f) \in Path \cup {NoPath}
  <2> HIDE DEF files, dels
  <2>1. CASE f \in placed
    <3>1. f \notin dels
      BY <2>1 DEF placed
    <3>2. row(f) = disk[f]
      BY <2>1, <3>1
    <3>3. QED
      BY <3>2 DEF Rows
  <2>2. CASE f \notin placed /\ f \in dels
    BY <2>2
  <2>3. CASE f \notin placed /\ f \notin dels
    <3>1. row(f) = IF ix.rows[f] \in {disk[x] : x \in placed} THEN NoPath ELSE ix.rows[f]
      BY <2>3
    <3>2. ix.rows[f] \in Path \cup {NoPath}
      BY DEF Index, Rows
    <3>3. QED
      BY <3>1, <3>2
  <2>4. QED
    BY <2>1, <2>2, <2>3
<1>2. [f \in File |-> row(f)] \in Rows
  <2> HIDE DEF row
  <2> QED BY <1>1 DEF Rows
<1>3. Applied(ix, start) = [ix EXCEPT !.rows = [f \in File |-> row(f)]]
  BY DEF Applied
<1>4. QED
  <2> HIDE DEF row
  <2> QED BY <1>2, <1>3 DEF Index

LEMMA CaughtUpType ==
  ASSUME disk \in Rows, NEW ix \in Index
  PROVE  CaughtUp(ix) \in Index
<1>1. CaughtUp(ix) = ix \/ CaughtUp(ix) = Applied(ix, db.cacheUsn)
  BY DEF CaughtUp
<1>2. QED
  BY <1>1, AppliedType

LEMMA StoredType ==
  ASSUME db \in Database, NEW rows \in Rows, NEW size \in Size
  PROVE  Stored(rows, size) \in Database
BY DEF Stored, Database, Index

-----------------------------------------------------------------------------
(* The volume. *)

LEMMA RecordType ==
  ASSUME Inv, disk' \in Rows, NEW f \in File, NEW del \in BOOLEAN, Record(f, del)
  PROVE  Inv'
<1>1. journal' \in Journal /\ journal'.lowest \leq NextUsn' /\ NextUsn' \leq MaxUsn
  <2>1. journal' = [journal EXCEPT !.recs = Append(@, [file |-> f, del |-> del])]
        /\ Len(journal.recs) < MaxUsn
    BY DEF Record, NextUsn
  <2>2. journal \in Journal /\ journal.lowest \leq Len(journal.recs)
    BY DEF Inv, TypeOK, NextUsn
  <2>3. journal'.recs = Append(journal.recs, [file |-> f, del |-> del])
        /\ journal'.lowest = journal.lowest /\ journal'.id = journal.id
    BY <2>1, <2>2 DEF Journal
  <2>4. Len(journal'.recs) = Len(journal.recs) + 1 /\ Len(journal.recs) \in Nat
        /\ journal'.recs \in Seq([file : File, del : BOOLEAN])
    BY <2>2, <2>3 DEF Journal
  <2>5. journal' \in Journal
    BY <2>1, <2>2, <2>3, <2>4 DEF Journal
  <2>6. QED
    BY <2>1, <2>2, <2>3, <2>4, <2>5, ConstantsOK DEF NextUsn, Journal
<1>2. QED
  BY <1>1 DEF Record, Inv, TypeOK, Started

LEMMA VolumeType == ASSUME Inv, Volume PROVE Inv'
<1>1. ASSUME NEW f \in File, DeleteFile(f) PROVE Inv'
  <2>1. disk' \in Rows
    BY <1>1 DEF DeleteFile, Inv, TypeOK, Rows
  <2>2. QED
    BY <1>1, <2>1, RecordType DEF DeleteFile
<1>2. ASSUME NEW f \in File, NEW p \in Path, PlaceFile(f, p) PROVE Inv'
  <2>1. disk' \in Rows
    BY <1>2 DEF PlaceFile, Inv, TypeOK, Rows
  <2>2. QED
    BY <1>2, <2>1, RecordType DEF PlaceFile
<1>3. ASSUME TrimJournal PROVE Inv'
  <2>1. PICK n \in journal.lowest+1..NextUsn : journal' = [journal EXCEPT !.lowest = n]
    BY <1>3 DEF TrimJournal
  <2>2. journal' \in Journal /\ journal'.lowest \leq NextUsn' /\ NextUsn' = NextUsn
    BY <2>1 DEF Inv, TypeOK, Journal, NextUsn
  <2>3. QED
    BY <1>3, <2>2 DEF TrimJournal, Inv, TypeOK, Started
<1>4. ASSUME RecreateJournal PROVE Inv'
  <2>1. journal \in Journal /\ NextUsn \in Nat /\ NextUsn \leq MaxUsn
    BY DEF Inv, TypeOK, Journal, NextUsn
  <2>2. journal' = [journal EXCEPT !.id = @ + 1, !.lowest = NextUsn]
        /\ journal.id + 1 \in 0..MaxJournals
    BY <1>4, <2>1, ConstantsOK DEF RecreateJournal, Journal
  <2>3. journal' \in Journal /\ journal'.lowest = NextUsn /\ journal'.recs = journal.recs
    BY <2>1, <2>2 DEF Journal
  <2>4. journal'.lowest \leq NextUsn' /\ NextUsn' = NextUsn
    BY <2>1, <2>3 DEF NextUsn
  <2>5. QED
    BY <1>4, <2>1, <2>3, <2>4 DEF RecreateJournal, Inv, TypeOK, Started
<1>5. QED
  BY <1>1, <1>2, <1>3, <1>4 DEF Volume

-----------------------------------------------------------------------------
(* The scanner. *)

\* A scan's record changes, to one of the right type.
LEMMA UpdateType ==
  ASSUME scan \in [Scanner -> ScanState], NEW s \in Scanner, NEW r \in ScanState, Update(s, r)
  PROVE  scan' \in [Scanner -> ScanState]
BY DEF Update

\* One more signal for the window.
LEMMA SignalType ==
  ASSUME gui \in Window, NEW signal \in Signal
  PROVE  [gui EXCEPT !.inbox = Append(@, signal)] \in Window
<1>1. Append(gui.inbox, signal) \in Seq(Signal)
  BY DEF Window
<1>2. QED
  BY <1>1 DEF Window

LEMMA FinishType ==
  ASSUME Inv, NEW s \in Scanner, NEW signal \in Signal, Finish(s, signal)
  PROVE  scan' \in [Scanner -> ScanState] /\ gui' \in Window
<1>1. scan' \in [Scanner -> ScanState]
  BY UpdateType, FreshTypes DEF Finish, Inv, TypeOK
<1>2. gui' \in Window
  BY SignalType DEF Finish, Inv, TypeOK
<1>3. QED
  BY <1>1, <1>2

\* A change of the marks keeps their type.
LEMMA RiskType ==
  ASSUME Inv
  PROVE  /\ \A t \in [Scanner -> BOOLEAN] : [risk EXCEPT !.taint = t] \in Risk
         /\ \A s \in Scanner, b \in BOOLEAN : [risk EXCEPT !.taint[s] = b] \in Risk
         /\ \A b \in BOOLEAN : [risk EXCEPT !.mem = b] \in Risk
         /\ \A t \in [Scanner -> BOOLEAN], b \in BOOLEAN :
              [risk EXCEPT !.taint = t, !.mem = b] \in Risk
BY DEF Inv, TypeOK, Risk

LEMMA OpenedType ==
  ASSUME NEW s, NEW mark \in BOOLEAN
  PROVE  Inv => Opened(s, mark) \in [Scanner -> BOOLEAN]
<1> SUFFICES ASSUME Inv PROVE Opened(s, mark) \in [Scanner -> BOOLEAN]
  OBVIOUS
<1>1. \A x \in Scanner : risk.taint[x] \in BOOLEAN
  BY DEF Inv, TypeOK, Risk
<1>2. \A x \in Scanner : Open(x) \in BOOLEAN
  BY DEF Open
<1>3. Polling \in BOOLEAN
  BY DEF Polling
<1>4. QED
  BY <1>1, <1>2, <1>3 DEF Opened

\* The position that a scan or a poll takes from the journal.
LEMMA PositionType ==
  Inv => NextUsn \in 0..MaxUsn /\ [id |-> journal.id, next |-> NextUsn] \in Usn
<1> SUFFICES ASSUME Inv
             PROVE  NextUsn \in 0..MaxUsn /\ [id |-> journal.id, next |-> NextUsn] \in Usn
  OBVIOUS
<1>1. NextUsn \in 0..MaxUsn /\ journal.id \in 0..MaxJournals
  BY ConstantsOK DEF Inv, TypeOK, Journal, NextUsn
<1>2. QED
  BY <1>1 DEF Usn

\* The steps of a scan that change only its own record and the marks.
LEMMA ScanLocalType ==
  ASSUME Inv, NEW s \in Scanner,
         ScanOpen(s) \/ (\E f \in File : ScanRead(s, f)) \/ ScanSnapshot(s) \/ ScanLoadRows(s)
  PROVE  Inv'
<1> DEFINE r == scan[s]
<1>0. r \in ScanState /\ disk \in Rows /\ db \in Database /\ index \in Index
  BY DEF Inv, TypeOK
<1>1. CASE ScanOpen(s)
  <2>1. [r EXCEPT !.pc = "reading", !.unread = File,
                  !.base = [id |-> journal.id, next |-> NextUsn]] \in ScanState
    BY <1>0, PositionType DEF ScanState, Position
  <2>2. scan' \in [Scanner -> ScanState]
    BY <1>1, <2>1, UpdateType DEF ScanOpen, Inv, TypeOK
  <2>3. risk' \in Risk
    BY <1>1, RiskType, OpenedType DEF ScanOpen
  <2>4. QED
    BY <1>1, <2>2, <2>3 DEF ScanOpen, Inv, TypeOK, Started, NextUsn
<1>2. ASSUME NEW f \in File, ScanRead(s, f) PROVE Inv'
  <2>1. Shown(disk[f]) \in Path \cup {NoPath}
    BY <1>0, ShownType DEF Rows
  <2>2. [r EXCEPT !.rows[f] = Shown(disk[f]), !.unread = @ \ {f}] \in ScanState
    BY <1>0, <2>1 DEF ScanState, Rows
  <2>3. scan' \in [Scanner -> ScanState]
    BY <1>2, <2>2, UpdateType DEF ScanRead, Inv, TypeOK
  <2>4. QED
    BY <1>2, <2>3 DEF ScanRead, Inv, TypeOK, Started, NextUsn
<1>3. CASE ScanSnapshot(s)
  <2>1. [r EXCEPT !.pc = "store", !.rows = index.rows,
                  !.size = index.size, !.base = db.usn] \in ScanState
    BY <1>0 DEF ScanState, Index, Database
  <2>2. scan' \in [Scanner -> ScanState]
    BY <1>3, <2>1, UpdateType DEF ScanSnapshot, Inv, TypeOK
  <2>3. risk.mem \/ Torn(Scanner \ {s}) \in BOOLEAN
    BY DEF Torn, Inv, TypeOK, Risk
  <2>4. risk' \in Risk
    BY <1>3, <2>3, RiskType DEF ScanSnapshot
  <2>5. QED
    BY <1>3, <2>2, <2>4 DEF ScanSnapshot, Inv, TypeOK, Started, NextUsn
<1>4. CASE ScanLoadRows(s)
  <2>1. [r EXCEPT !.pc = "loaded", !.rows = db.cache.rows,
                  !.size = db.cache.size, !.base = db.usn] \in ScanState
    BY <1>0 DEF ScanState, Index, Database
  <2>2. scan' \in [Scanner -> ScanState]
    BY <1>4, <2>1, UpdateType DEF ScanLoadRows, Inv, TypeOK
  <2>3. LoadedRisk \in BOOLEAN
    BY DEF LoadedRisk
  <2>4. risk' \in Risk
    BY <1>4, <2>3, RiskType, OpenedType DEF ScanLoadRows
  <2>5. QED
    BY <1>4, <2>2, <2>4 DEF ScanLoadRows, Inv, TypeOK, Started, NextUsn
<1>5. QED
  BY <1>1, <1>2, <1>3, <1>4

\* The steps that end a scan with a signal and change nothing but faults.
LEMMA ScanQuitType ==
  ASSUME Inv, NEW s \in Scanner,
         ScanStopped(s) \/ ScanUnreadable(s) \/ ScanEmpty(s) \/ ScanDbError(s)
  PROVE  Inv'
<1>1. CASE ScanStopped(s) \/ ScanUnreadable(s) \/ ScanEmpty(s)
  <2>1. Finish(s, "scanDone")
    BY <1>1 DEF ScanStopped, ScanUnreadable, ScanEmpty
  <2>2. scan' \in [Scanner -> ScanState] /\ gui' \in Window
    BY <2>1, FinishType DEF Signal
  <2>3. faults' \in 0..MaxFaults
    BY <1>1, ConstantsOK DEF ScanStopped, ScanUnreadable, ScanEmpty, Fault, Inv, TypeOK
  <2>4. QED
    BY <1>1, <2>2, <2>3
    DEF ScanStopped, ScanUnreadable, ScanEmpty, Inv, TypeOK, Started, NextUsn
<1>2. CASE ScanDbError(s)
  <2>1. scan' \in [Scanner -> ScanState]
    BY <1>2, UpdateType, FreshTypes DEF ScanDbError, Inv, TypeOK
  <2>2. faults' \in 0..MaxFaults
    BY <1>2, ConstantsOK DEF ScanDbError, Fault, Inv, TypeOK
  <2>3. QED
    BY <1>2, <2>1, <2>2 DEF ScanDbError, Inv, TypeOK, Started, NextUsn
<1>3. QED
  BY <1>1, <1>2

\* The steps that write the list or the database.
LEMMA ScanWriteType ==
  ASSUME Inv, NEW s \in Scanner,
         ScanCollect(s) \/ ScanPopulate(s) \/ ScanStore(s) \/ ScanLoad(s)
  PROVE  Inv'
<1> DEFINE r == scan[s]
<1>0. r \in ScanState /\ disk \in Rows /\ db \in Database /\ risk \in Risk
      /\ r.rows \in Rows /\ r.size \in Size /\ r.base \in Position
  BY DEF Inv, TypeOK, ScanState
<1>1. CASE ScanCollect(s)
  <2>1. PICK kept \in SUBSET File, size \in Size :
          Update(s, [r EXCEPT !.pc = "populate", !.size = size,
                       !.rows = [f \in File |-> IF f \in kept THEN @[f] ELSE NoPath]])
    BY <1>1 DEF ScanCollect
  <2>2. [f \in File |-> IF f \in kept THEN r.rows[f] ELSE NoPath] \in Rows
    BY <1>0 DEF Rows
  <2>3. [r EXCEPT !.pc = "populate", !.size = size,
           !.rows = [f \in File |-> IF f \in kept THEN @[f] ELSE NoPath]] \in ScanState
    BY <1>0, <2>2 DEF ScanState
  <2>4. scan' \in [Scanner -> ScanState]
    BY <2>1, <2>3, UpdateType DEF Inv, TypeOK
  <2>5. db' \in Database
    BY <1>0, <1>1 DEF ScanCollect, ScanPosition, Database
  <2>6. risk' \in Risk
    BY <1>0, <1>1 DEF ScanCollect, Risk
  <2>7. QED
    BY <1>1, <2>4, <2>5, <2>6 DEF ScanCollect, Inv, TypeOK, Started, NextUsn
<1>2. CASE ScanPopulate(s)
  <2>1. index' \in Index
    BY <1>0, <1>2 DEF ScanPopulate, Index
  <2>2. [r EXCEPT !.pc = "snapshot"] \in ScanState
    BY <1>0 DEF ScanState
  <2>3. scan' \in [Scanner -> ScanState]
    BY <1>2, <2>2, UpdateType DEF ScanPopulate, Inv, TypeOK
  <2>4. risk' \in Risk
    BY <1>0, <1>2 DEF ScanPopulate, Risk
  <2>5. QED
    BY <1>2, <2>1, <2>3, <2>4 DEF ScanPopulate, Inv, TypeOK, Started, NextUsn
<1>3. CASE ScanStore(s)
  <2>1. scan' \in [Scanner -> ScanState] /\ gui' \in Window
    BY <1>3, FinishType DEF ScanStore, Signal
  <2>2. db' \in Database
    BY <1>0, <1>3, StoredType DEF ScanStore
  <2>3. risk' \in Risk
    BY <1>0, <1>3 DEF ScanStore, Risk
  <2>4. QED
    BY <1>3, <2>1, <2>2, <2>3 DEF ScanStore, Inv, TypeOK, Started, NextUsn
<1>4. CASE ScanLoad(s)
  <2>1. scan' \in [Scanner -> ScanState] /\ gui' \in Window
    BY <1>4, FinishType DEF ScanLoad, Signal
  <2>2. \A f \in File : Shown(r.rows[f]) \in Path \cup {NoPath}
    BY <1>0, ShownType DEF Rows
  <2>3. [rows |-> [f \in File |-> Shown(r.rows[f])], size |-> r.size] \in Index
    BY <1>0, <2>2 DEF Index, Rows
  <2>4. index' \in Index
    BY <1>0, <1>4, <2>3, CaughtUpType DEF ScanLoad
  <2>5. risk' \in Risk
    <3>1. (risk.taint[s] \/ r.base # db.usn \/ Polling) \in BOOLEAN
      BY DEF Polling
    <3>2. QED
      BY <1>4, <3>1, RiskType DEF ScanLoad
  <2>6. QED
    BY <1>4, <2>1, <2>4, <2>5 DEF ScanLoad, Inv, TypeOK, Started, NextUsn
<1>5. QED
  BY <1>1, <1>2, <1>3, <1>4

LEMMA ScannerType ==
  ASSUME Inv, NEW s \in Scanner, ScannerStep(s) \/ ScannerFault(s) PROVE Inv'
BY ScanLocalType, ScanQuitType, ScanWriteType DEF ScannerStep, ScannerFault

-----------------------------------------------------------------------------
(* The monitor. *)

LEMMA EndPollType ==
  ASSUME Inv, EndPoll
  PROVE  mon' \in MonitorState /\ mon'.pc = "sleep" /\ mon'.start = NoUsn
BY FreshTypes DEF EndPoll, NewMonitor, OffMonitor, Inv, TypeOK, MonitorState

LEMMA ElementType ==
  ASSUME NEW S, NEW q \in Seq(S), NEW i \in 1..Len(q) PROVE q[i] \in S
OBVIOUS

\* The steps up to the read: a start taken from the database, an end from the
\* journal, and the files in between.
LEMMA MonReadType ==
  ASSUME Inv, MonExit \/ MonLoad \/ MonQuery \/ MonRead \/ MonReadRecreated \/ MonReadCutShort
  PROVE  Inv'
<1>0. mon \in MonitorState /\ journal \in Journal /\ db \in Database /\ NextUsn \in 0..MaxUsn
  BY PositionType DEF Inv, TypeOK
<1>1. CASE MonExit
  <2>1. mon' \in MonitorState /\ mon'.pc = "off"
    BY <1>1, FreshTypes DEF MonExit, OffMonitor
  <2>2. QED
    BY <1>1, <2>1 DEF MonExit, MonitorKeeps, Inv, TypeOK, Started, NextUsn
<1>2. CASE MonLoad
  <2>1. mon' \in MonitorState /\ mon'.start \in Usn
    BY <1>0, <1>2 DEF MonLoad, MonitorState, Database, Position
  <2>2. QED
    BY <1>2, <2>1 DEF MonLoad, MonitorKeeps, Inv, TypeOK, Started, NextUsn
<1>3. CASE MonQuery
  <2>1. mon' \in MonitorState /\ mon'.start = mon.start
    BY <1>0, <1>3 DEF MonQuery, MonitorState
  <2>2. QED
    BY <1>3, <2>1 DEF MonQuery, MonitorKeeps, Inv, TypeOK, Started, NextUsn
<1>4. ASSUME mon.start \in Usn, NEW last \in 0..NextUsn, ReadUpTo(last)
      PROVE  mon' \in MonitorState /\ mon'.start = mon.start
  <2>1. Touched(mon.start.next, last) \subseteq File
    <3>1. ASSUME NEW i \in 1..NextUsn PROVE journal.recs[i].file \in File
      <4>1. journal.recs \in Seq([file : File, del : BOOLEAN]) /\ i \in 1..Len(journal.recs)
        BY <1>0, <3>1 DEF Journal, NextUsn
      <4>2. journal.recs[i] \in [file : File, del : BOOLEAN]
        BY <4>1, ElementType
      <4>3. QED
        BY <4>2
    <3>2. Records(mon.start.next, last) \subseteq 1..NextUsn
      BY <1>0, <1>4 DEF Records, Usn
    <3>3. QED
      BY <3>1, <3>2 DEF Touched
  <2>2. QED
    BY <1>0, <1>4, <2>1 DEF ReadUpTo, MonitorState
<1>5. CASE MonRead \/ MonReadCutShort
  <2>1. mon.start \in Usn
    BY <1>5 DEF MonRead, MonReadCutShort, Inv, Started
  <2>2. PICK last \in 0..NextUsn : ReadUpTo(last)
    BY <1>0, <1>5, <2>1 DEF MonRead, MonReadCutShort, Usn
  <2>3. mon' \in MonitorState /\ mon'.start \in Usn
    BY <1>4, <2>1, <2>2
  <2>4. \A t : Tainted(t) \in [Scanner -> BOOLEAN]
    BY DEF Tainted
  <2>5. risk' \in Risk
    BY <1>5, <2>4, RiskType DEF MonRead, MonReadCutShort
  <2>6. faults' \in 0..MaxFaults
    BY <1>5, ConstantsOK DEF MonRead, MonReadCutShort, MonitorKeeps, Fault, Inv, TypeOK
  <2>7. QED
    BY <1>5, <2>3, <2>5, <2>6
    DEF MonRead, MonReadCutShort, MonitorKeeps, Inv, TypeOK, Started, NextUsn
<1>6. CASE MonReadRecreated
  <2>1. mon' \in MonitorState /\ mon'.start = mon.start
    BY <1>0, <1>6 DEF MonReadRecreated, MonitorState
  <2>2. \A t : Tainted(t) \in [Scanner -> BOOLEAN]
    BY DEF Tainted
  <2>3. risk' \in Risk
    BY <1>6, <2>2, RiskType DEF MonReadRecreated
  <2>4. QED
    BY <1>6, <2>1, <2>3 DEF MonReadRecreated, MonitorKeeps, Inv, TypeOK, Started, NextUsn
<1>7. QED
  BY <1>1, <1>2, <1>3, <1>5, <1>6

\* The application of what was read, change by change.
LEMMA MonApplyType ==
  ASSUME Inv, NEW f \in File, MonDelete(f) \/ MonResolve(f) \/ MonUpdate(f)
  PROVE  Inv'
<1>0. mon \in MonitorState /\ mon.todo \in Rows /\ disk \in Rows /\ index \in Index
  BY DEF Inv, TypeOK, MonitorState
<1>1. mon' \in MonitorState /\ mon'.start = mon.start /\ mon'.pc = mon.pc
  <2>1. mon' = [mon EXCEPT !.dels = @ \ {f}]
        \/ mon' = [mon EXCEPT !.upds = @ \ {f}, !.todo = [@ EXCEPT ![f] = disk[f]]]
        \/ mon' = [mon EXCEPT !.todo = [@ EXCEPT ![f] = NoPath]]
    BY <1>0 DEF MonDelete, MonResolve, MonUpdate, MonitorState
  <2>2. [mon.todo EXCEPT ![f] = disk[f]] \in Rows /\ [mon.todo EXCEPT ![f] = NoPath] \in Rows
    BY <1>0 DEF Rows
  <2>3. CASE mon' = [mon EXCEPT !.dels = @ \ {f}]
    BY <1>0, <2>3 DEF MonitorState
  <2>4. CASE mon' = [mon EXCEPT !.upds = @ \ {f}, !.todo = [@ EXCEPT ![f] = disk[f]]]
    BY <1>0, <2>2, <2>4 DEF MonitorState
  <2>5. CASE mon' = [mon EXCEPT !.todo = [@ EXCEPT ![f] = NoPath]]
    BY <1>0, <2>2, <2>5 DEF MonitorState
  <2>6. QED
    BY <2>1, <2>3, <2>4, <2>5
<1>2. index' \in Index
  <2>1. CASE MonDelete(f)
    BY <1>0, <2>1, DropType DEF MonDelete
  <2>2. CASE MonResolve(f)
    BY <1>0, <2>2 DEF MonResolve
  <2>3. CASE MonUpdate(f)
    <3>1. mon.todo[f] \in Path
      BY <1>0, <2>3 DEF MonUpdate, Rows
    <3>2. QED
      BY <1>0, <2>3, <3>1, PutType DEF MonUpdate
  <2>4. QED
    BY <2>1, <2>2, <2>3
<1>3. QED
  BY <1>1, <1>2
  DEF MonDelete, MonResolve, MonUpdate, MonitorKeeps, Inv, TypeOK, Started, NextUsn

LEMMA MonUnresolvedType ==
  ASSUME Inv, NEW F \in SUBSET File, MonUnresolved(F) PROVE Inv'
<1>1. mon' \in MonitorState /\ mon'.start = mon.start /\ mon'.pc = mon.pc
  BY DEF MonUnresolved, MonitorState, Inv, TypeOK
<1>2. risk' \in Risk
  BY RiskType DEF MonUnresolved
<1>3. faults' \in 0..MaxFaults
  BY ConstantsOK DEF MonUnresolved, Fault, Inv, TypeOK
<1>4. QED
  BY <1>1, <1>2, <1>3 DEF MonUnresolved, MonitorKeeps, Inv, TypeOK, Started, NextUsn

\* The ends of a poll.
LEMMA MonEndType ==
  ASSUME Inv,
         MonExpired \/ MonVolumeError \/ MonBreak \/ MonSave \/ MonDbError
  PROVE  Inv'
<1>1. CASE MonExpired \/ MonVolumeError
  <2>1. mon' \in MonitorState /\ mon'.pc = "sleep"
    BY <1>1, EndPollType DEF MonExpired, MonVolumeError, AskFullScan
  <2>2. gui' \in Window
    BY <1>1, SignalType
    DEF MonExpired, MonVolumeError, AskFullScan, Inv, TypeOK, Signal
  <2>3. faults' \in 0..MaxFaults
    BY <1>1, ConstantsOK DEF MonExpired, MonVolumeError, Fault, Inv, TypeOK
  <2>4. QED
    BY <1>1, <2>1, <2>2, <2>3
    DEF MonExpired, MonVolumeError, AskFullScan, Inv, TypeOK, Started, NextUsn
<1>2. CASE MonBreak
  <2>1. mon' \in MonitorState /\ mon'.start = mon.start /\ mon'.pc = mon.pc
    BY <1>2, NoRowsType DEF MonBreak, Inv, TypeOK, MonitorState
  <2>2. risk' \in Risk
    BY <1>2, RiskType DEF MonBreak
  <2>3. QED
    BY <1>2, <2>1, <2>2 DEF MonBreak, MonitorKeeps, Inv, TypeOK, Started, NextUsn
<1>3. CASE MonSave
  <2>1. mon' \in MonitorState /\ mon'.pc = "sleep"
    BY <1>3, EndPollType DEF MonSave
  <2>2. mon.start \in Usn /\ mon.upto \in 0..MaxUsn
    BY <1>3 DEF MonSave, Resolved, Inv, TypeOK, Started, MonitorState
  <2>3. db' \in Database
    BY <1>3, <2>2 DEF MonSave, PollPosition, Usn, Position, Database, Inv, TypeOK
  <2>4. QED
    BY <1>3, <2>1, <2>3 DEF MonSave, MonitorKeeps, Inv, TypeOK, Started, NextUsn
<1>4. CASE MonDbError
  <2>1. mon' \in MonitorState /\ mon'.pc = "sleep"
    BY <1>4, EndPollType DEF MonDbError
  <2>2. faults' \in 0..MaxFaults
    BY <1>4, ConstantsOK DEF MonDbError, Fault, Inv, TypeOK
  <2>3. QED
    BY <1>4, <2>1, <2>2 DEF MonDbError, MonitorKeeps, Inv, TypeOK, Started, NextUsn
<1>5. QED
  BY <1>1, <1>2, <1>3, <1>4

LEMMA MonitorType == ASSUME Inv, MonitorStep \/ MonitorFault PROVE Inv'
<1>1. CASE MonitorStep
  BY <1>1, MonReadType, MonApplyType, MonEndType DEF MonitorStep
<1>2. CASE MonitorFault
  BY <1>2, MonReadType, MonUnresolvedType, MonEndType DEF MonitorFault
<1>3. QED
  BY <1>1, <1>2

-----------------------------------------------------------------------------
(* The window. *)

LEMMA StartType ==
  ASSUME Inv, NEW s \in Scanner, NEW m \in {"mft", "cache"},
         scan' = [scan EXCEPT ![s] = [IdleScan EXCEPT !.pc = "start", !.mode = m]]
  PROVE  scan' \in [Scanner -> ScanState]
<1>1. [IdleScan EXCEPT !.pc = "start", !.mode = m] \in ScanState
  BY FreshTypes DEF ScanState
<1>2. QED
  BY <1>1 DEF Inv, TypeOK

LEMMA StartScanType ==
  ASSUME Inv, NEW s \in Scanner, StartScan(s)
  PROVE  scan' \in [Scanner -> ScanState]
<1>1. [IdleScan EXCEPT !.pc = "start"] \in ScanState
  BY FreshTypes DEF ScanState
<1>2. QED
  BY <1>1 DEF StartScan, Inv, TypeOK

\* The signal that a handler takes from the queue.
LEMMA TailType ==
  ASSUME gui \in Window, gui.inbox # <<>> PROVE Tail(gui.inbox) \in Seq(Signal)
BY DEF Window

\* The handlers and what the user does while the program runs.
LEMMA HandlerType ==
  ASSUME Inv,
         HandleDone \/ JoinDone \/ UserAsks
           \/ \E s \in Scanner : HandleNeedsFullScan(s) \/ UserConfirms(s)
  PROVE  Inv'
<1>0. gui \in Window /\ mon \in MonitorState
  BY DEF Inv, TypeOK
<1>1. CASE HandleDone
  <2>1. gui' = [gui EXCEPT !.inbox = Tail(@), !.join = (mon.pc # "off")]
        /\ Tail(gui.inbox) \in Seq(Signal)
    BY <1>0, <1>1, TailType DEF HandleDone, HasSignal
  <2>2. gui' \in Window
    BY <1>0, <2>1 DEF Window
  <2>3. mon' \in MonitorState /\ ((mon'.pc = mon.pc /\ mon'.start = mon.start) \/ mon'.pc = "sleep")
    <3>1. CASE mon.pc = "off"
      BY <1>1, <3>1, FreshTypes DEF HandleDone, NewMonitor, OffMonitor
    <3>2. CASE mon.pc # "off"
      BY <1>0, <1>1, <3>2 DEF HandleDone, MonitorState
    <3>3. QED
      BY <3>1, <3>2
  <2>4. QED
    BY <1>1, <2>2, <2>3 DEF HandleDone, WindowKeeps, Inv, TypeOK, Started, NextUsn
<1>2. CASE JoinDone
  <2>1. gui' \in Window
    BY <1>0, <1>2 DEF JoinDone, Window
  <2>2. mon' \in MonitorState /\ mon'.pc = "sleep"
    BY <1>2, FreshTypes DEF JoinDone, NewMonitor, OffMonitor
  <2>3. QED
    BY <1>2, <2>1, <2>2 DEF JoinDone, WindowKeeps, Inv, TypeOK, Started, NextUsn
<1>3. CASE UserAsks
  <2>1. gui' \in Window
    BY <1>0, <1>3 DEF UserAsks, Window
  <2>2. QED
    BY <1>3, <2>1 DEF UserAsks, WindowKeeps, Inv, TypeOK, Started, NextUsn
<1>4. ASSUME NEW s \in Scanner, HandleNeedsFullScan(s) PROVE Inv'
  <2>1. scan' \in [Scanner -> ScanState]
    BY <1>4, StartScanType DEF HandleNeedsFullScan
  <2>2. gui' = [gui EXCEPT !.inbox = Tail(@), !.handle = s]
        /\ Tail(gui.inbox) \in Seq(Signal)
    BY <1>0, <1>4, TailType DEF HandleNeedsFullScan, HasSignal
  <2>3. gui' \in Window
    BY <1>0, <2>2 DEF Window
  <2>4. QED
    BY <1>4, <2>1, <2>3 DEF HandleNeedsFullScan, WindowKeeps, Inv, TypeOK, Started, NextUsn
<1>5. ASSUME NEW s \in Scanner, UserConfirms(s) PROVE Inv'
  <2>1. scan' \in [Scanner -> ScanState]
    BY <1>5, StartScanType DEF UserConfirms
  <2>2. gui' \in Window
    BY <1>0, <1>5 DEF UserConfirms, Window
  <2>3. QED
    BY <1>5, <2>1, <2>2 DEF UserConfirms, WindowKeeps, Inv, TypeOK, Started, NextUsn
<1>6. QED
  BY <1>1, <1>2, <1>3, <1>4, <1>5

LEMMA AppStartType == ASSUME Inv, NEW s \in Scanner, AppStart(s) PROVE Inv'
<1>1. gui' \in Window
  BY FreshTypes DEF AppStart, Window
<1>2. scan' \in [Scanner -> ScanState]
  BY StartType, StartScanType DEF AppStart
<1>3. index' \in Index
  BY DEF AppStart, Inv, TypeOK, Database
<1>4. risk' \in Risk
  <2>1. (db.cache.size # "few" \/ LoadedRisk) \in BOOLEAN
    BY DEF LoadedRisk
  <2>2. QED
    BY <2>1, RiskType DEF AppStart
<1>5. QED
  BY <1>1, <1>2, <1>3, <1>4 DEF AppStart, WindowKeeps, Inv, TypeOK, Started, NextUsn

\* Closing the window, step by step.
LEMMA CloseType ==
  ASSUME Inv, UserClose \/ CloseScanWaited \/ CloseSave \/ CloseDbError
  PROVE  Inv'
<1>0. gui \in Window /\ mon \in MonitorState /\ scan \in [Scanner -> ScanState]
      /\ db \in Database /\ index \in Index
  BY DEF Inv, TypeOK
<1>1. gui' \in Window
  BY <1>0 DEF UserClose, CloseScanWaited, CloseSave, CloseDbError, Window
<1>2. CASE UserClose
  <2>1. ASSUME NEW s \in Scanner PROVE [scan[s] EXCEPT !.stop = TRUE] \in ScanState
    <3>1. \A b \in BOOLEAN : [scan[s] EXCEPT !.stop = b] \in ScanState
      BY <1>0 DEF ScanState
    <3>2. QED
      BY <3>1
  <2>2. scan' \in [Scanner -> ScanState]
    BY <1>0, <1>2, <2>1 DEF UserClose
  <2>3. QED
    BY <1>1, <1>2, <2>2 DEF UserClose, WindowKeeps, Inv, TypeOK, Started, NextUsn
<1>3. CASE CloseScanWaited
  <2>1. mon' \in MonitorState /\ mon'.pc = mon.pc /\ mon'.start = mon.start
    BY <1>0, <1>3 DEF CloseScanWaited, MonitorState
  <2>2. QED
    BY <1>1, <1>3, <2>1 DEF CloseScanWaited, WindowKeeps, Inv, TypeOK, Started, NextUsn
<1>4. CASE CloseSave
  <2>1. db' \in Database
    BY <1>0, <1>4, StoredType DEF CloseSave, Index
  <2>2. risk' \in Risk
    <3>1. risk' = risk
          \/ risk' = [risk EXCEPT !.db = risk.mem \/ Torn(Scanner), !.savedAt = db.usn]
      BY <1>4 DEF CloseSave
    <3>2. \A b \in BOOLEAN : [risk EXCEPT !.db = b, !.savedAt = db.usn] \in Risk
      BY <1>0 DEF Risk, Inv, TypeOK, Database
    <3>3. (risk.mem \/ Torn(Scanner)) \in BOOLEAN
      OBVIOUS
    <3>4. QED
      BY <3>1, <3>2, <3>3 DEF Inv, TypeOK
  <2>3. QED
    BY <1>1, <1>4, <2>1, <2>2 DEF CloseSave, WindowKeeps, Inv, TypeOK, Started, NextUsn
<1>5. CASE CloseDbError
  <2>1. faults' \in 0..MaxFaults
    BY <1>5, ConstantsOK DEF CloseDbError, Fault, Inv, TypeOK
  <2>2. QED
    BY <1>1, <1>5, <2>1 DEF CloseDbError, WindowKeeps, Inv, TypeOK, Started, NextUsn
<1>6. QED
  BY <1>2, <1>3, <1>4, <1>5

LEMMA StoppedType == ASSUME Inv, Stopped PROVE Inv'
<1>1. scan' \in [Scanner -> ScanState] /\ gui' \in Window /\ index' \in Index
  BY FreshTypes DEF Stopped
<1>2. mon' \in MonitorState /\ mon'.pc = "off"
  BY FreshTypes DEF Stopped, OffMonitor
<1>3. risk' \in Risk
  <2>1. [s \in Scanner |-> FALSE] \in [Scanner -> BOOLEAN]
    OBVIOUS
  <2>2. \A t \in [Scanner -> BOOLEAN], b \in BOOLEAN :
          [risk EXCEPT !.mem = b, !.taint = t] \in Risk
    BY DEF Risk, Inv, TypeOK
  <2>3. QED
    BY <2>1, <2>2 DEF Stopped
<1>4. QED
  BY <1>1, <1>2, <1>3 DEF Stopped, WindowKeeps, Inv, TypeOK, Started, NextUsn

LEMMA WindowType ==
  ASSUME Inv, WindowStep \/ User \/ CloseDbError \/ Crash PROVE Inv'
<1>1. CASE WindowStep
  BY <1>1, HandlerType, CloseType, StoppedType DEF WindowStep, ProcessExit
<1>2. CASE User
  BY <1>2, HandlerType, AppStartType, CloseType DEF User
<1>3. CASE CloseDbError \/ Crash
  BY <1>3, CloseType, StoppedType DEF Crash
<1>4. QED
  BY <1>1, <1>2, <1>3

-----------------------------------------------------------------------------
LEMMA StepType == Inv /\ [Next]_vars => Inv'
<1> SUFFICES ASSUME Inv, [Next]_vars PROVE Inv'
  OBVIOUS
<1>1. CASE Volume
  BY <1>1, VolumeType
<1>2. CASE WindowStep \/ User \/ CloseDbError \/ Crash
  BY <1>2, WindowType
<1>3. CASE \E s \in Scanner : ScannerStep(s) \/ ScannerFault(s)
  BY <1>3, ScannerType
<1>4. CASE MonitorStep \/ MonitorFault
  BY <1>4, MonitorType
<1>5. CASE UNCHANGED vars
  BY <1>5 DEF vars, Inv, TypeOK, Started, NextUsn
<1>6. QED
  BY <1>1, <1>2, <1>3, <1>4, <1>5 DEF Next

\* Whatever threads, user and volume do, and whatever fails, every part of the
\* program's memory and of its database keeps its type; a poll under way always
\* has a position to start from.
THEOREM TypeCorrect == Spec => []TypeOK
<1>1. Inv => TypeOK
  BY DEF Inv
<1>2. QED
  BY InitType, StepType, <1>1, PTL DEF Spec

-----------------------------------------------------------------------------
(* No position is ahead of the journal. *)

\* The positions that a step may leave behind: those there were, none, the end
\* of the journal, and the end of the poll that is being finished.
Sources == Positions \cup {NoUsn, [id |-> journal.id, next |-> NextUsn]}
             \cup (IF mon.pc = "apply" THEN {PollPosition} ELSE {})

\* The record of one scan changes, to one with such a position.
LEMMA UpdateSources ==
  ASSUME Inv, NEW s \in Scanner, NEW r, Update(s, r), r.base \in Sources
  PROVE  \A x \in Scanner : scan'[x].base \in Sources
<1> SUFFICES ASSUME NEW x \in Scanner PROVE scan'[x].base \in Sources
  OBVIOUS
<1>1. CASE x = s
  BY <1>1 DEF Update, Inv, TypeOK
<1>2. CASE x # s
  <2>1. scan'[x].base = scan[x].base
    BY <1>2 DEF Update, Inv, TypeOK
  <2>2. QED
    BY <2>1 DEF Sources, Positions
<1>3. QED
  BY <1>1, <1>2

LEMMA ScannerSources ==
  ASSUME Inv, NEW s \in Scanner, ScannerStep(s) \/ ScannerFault(s)
  PROVE  Positions' \subseteq Sources
<1> DEFINE r == scan[s]
<1>0. r \in ScanState /\ r.base \in Sources /\ db.usn \in Sources /\ db.cacheUsn \in Sources
      /\ mon.start \in Sources /\ IdleScan.base \in Sources /\ db \in Database
  BY DEF Inv, TypeOK, Sources, Positions, IdleScan
<1>1. mon' = mon
  BY DEF ScannerStep, ScannerFault, ScanOpen, ScanStopped, ScanRead, ScanCollect,
         ScanPopulate, ScanEmpty, ScanSnapshot, ScanStore, ScanLoadRows, ScanLoad,
         ScanUnreadable, ScanDbError
<1>2. db'.usn \in Sources /\ db'.cacheUsn \in Sources
  <2>1. CASE ScanCollect(s)
    <3>1. db' = [db EXCEPT !.usn = r.base]
      BY <2>1 DEF ScanCollect, ScanPosition
    <3>2. QED
      BY <1>0, <3>1 DEF Database
  <2>2. CASE ScanStore(s)
    <3>1. db'.usn = db.usn /\ db'.cacheUsn = db.cacheUsn
      BY <1>0, <2>2 DEF ScanStore, Stored, Database
    <3>2. QED
      BY <1>0, <3>1
  <2>3. CASE ~ScanCollect(s) /\ ~ScanStore(s)
    <3>1. db' = db
      BY <2>3 DEF ScannerStep, ScannerFault, ScanOpen, ScanStopped, ScanRead,
                  ScanPopulate, ScanEmpty, ScanSnapshot, ScanLoadRows, ScanLoad,
                  ScanUnreadable, ScanDbError
    <3>2. QED
      BY <1>0, <3>1
  <2>4. QED
    BY <2>1, <2>2, <2>3
<1>3. \A x \in Scanner : scan'[x].base \in Sources
  <2>1. CASE ScanOpen(s)
    <3> DEFINE q == [r EXCEPT !.pc = "reading", !.unread = File,
                              !.base = [id |-> journal.id, next |-> NextUsn]]
    <3>1. q.base = [id |-> journal.id, next |-> NextUsn]
      BY <1>0 DEF ScanState
    <3>2. Update(s, q) /\ q.base \in Sources
      BY <2>1, <3>1 DEF ScanOpen, Sources
    <3>3. QED
      BY <3>2, UpdateSources
  <2>2. CASE ScanSnapshot(s) \/ ScanLoadRows(s)
    <3>1. ASSUME NEW pc, NEW rows, NEW size,
                 Update(s, [r EXCEPT !.pc = pc, !.rows = rows, !.size = size, !.base = db.usn])
          PROVE  \A x \in Scanner : scan'[x].base \in Sources
      <4> DEFINE q == [r EXCEPT !.pc = pc, !.rows = rows, !.size = size, !.base = db.usn]
      <4>1. q.base = db.usn
        BY <1>0 DEF ScanState
      <4>2. QED
        BY <1>0, <3>1, <4>1, UpdateSources
    <3>2. QED
      BY <2>2, <3>1 DEF ScanSnapshot, ScanLoadRows
  <2>3. CASE (\E f \in File : ScanRead(s, f)) \/ ScanCollect(s) \/ ScanPopulate(s)
    <3>1. PICK q : Update(s, q) /\ q.base = r.base
      <4>1. ASSUME NEW rows, NEW unread
            PROVE  [r EXCEPT !.rows = rows, !.unread = unread].base = r.base
        BY <1>0 DEF ScanState
      <4>2. ASSUME NEW pc, NEW size, NEW rows
            PROVE  [r EXCEPT !.pc = pc, !.size = size, !.rows = rows].base = r.base
        BY <1>0 DEF ScanState
      <4>3. [r EXCEPT !.pc = "snapshot"].base = r.base
        BY <1>0 DEF ScanState
      <4>4. CASE \E f \in File : ScanRead(s, f)
        <5>1. PICK f \in File :
                Update(s, [r EXCEPT !.rows = [@ EXCEPT ![f] = Shown(disk[f])],
                                    !.unread = @ \ {f}])
          BY <1>0, <4>4 DEF ScanRead, ScanState
        <5>2. QED
          BY <4>1, <5>1
      <4>5. CASE ScanCollect(s)
        <5>1. PICK kept, size :
                Update(s, [r EXCEPT !.pc = "populate", !.size = size,
                  !.rows = [f \in File |-> IF f \in kept THEN @[f] ELSE NoPath]])
          BY <4>5 DEF ScanCollect
        <5> DEFINE rows == [f \in File |-> IF f \in kept THEN r.rows[f] ELSE NoPath]
                   q == [r EXCEPT !.pc = "populate", !.size = size, !.rows = rows]
        <5>2. Update(s, q)
          BY <5>1
        <5>3. q.base = r.base
          BY <4>2
        <5>4. QED
          BY <5>2, <5>3
      <4>6. CASE ScanPopulate(s)
        BY <4>3, <4>6 DEF ScanPopulate
      <4>7. QED
        BY <2>3, <4>4, <4>5, <4>6
    <3>2. QED
      BY <1>0, <3>1, UpdateSources
  <2>4. CASE ScanStopped(s) \/ ScanUnreadable(s) \/ ScanEmpty(s) \/ ScanStore(s)
               \/ ScanLoad(s) \/ ScanDbError(s)
    <3>1. Update(s, IdleScan)
      BY <2>4 DEF ScanStopped, ScanUnreadable, ScanEmpty, ScanStore, ScanLoad,
                  ScanDbError, Finish
    <3>2. QED
      BY <1>0, <3>1, UpdateSources
  <2>5. QED
    BY <2>1, <2>2, <2>3, <2>4 DEF ScannerStep, ScannerFault
<1>4. QED
  BY <1>0, <1>1, <1>2, <1>3 DEF Positions

LEMMA MonitorSources ==
  ASSUME Inv, MonitorStep \/ MonitorFault
  PROVE  Positions' \subseteq Sources
<1>0. db.usn \in Sources /\ db.cacheUsn \in Sources /\ mon.start \in Sources
      /\ NoUsn \in Sources /\ (\A x \in Scanner : scan[x].base \in Sources)
      /\ db \in Database /\ mon \in MonitorState
  BY DEF Inv, TypeOK, Sources, Positions
<1>1. scan' = scan
  BY DEF MonitorStep, MonitorFault, MonitorKeeps, AskFullScan, MonExit, MonLoad, MonQuery,
         MonRead, MonExpired, MonDelete, MonResolve, MonUpdate, MonBreak, MonSave,
         MonReadRecreated, MonReadCutShort, MonVolumeError, MonDbError, MonUnresolved
<1>2. db'.usn \in Sources /\ db'.cacheUsn \in Sources
  <2>1. CASE MonSave
    <3>1. db' = [db EXCEPT !.usn = PollPosition] /\ PollPosition \in Sources
      BY <2>1 DEF MonSave, Resolved, Sources
    <3>2. QED
      BY <1>0, <3>1 DEF Database
  <2>2. CASE ~MonSave
    <3>1. db' = db
      BY <2>2 DEF MonitorStep, MonitorFault, AskFullScan, MonExit, MonLoad, MonQuery,
           MonRead, MonExpired, MonDelete, MonResolve, MonUpdate, MonBreak,
           MonReadRecreated, MonReadCutShort, MonVolumeError, MonDbError, MonUnresolved
    <3>2. QED
      BY <1>0, <3>1
  <2>3. QED
    BY <2>1, <2>2
<1>3. mon'.start \in {mon.start, db.usn, NoUsn}
  <2>1. CASE MonLoad
    BY <1>0, <2>1 DEF MonLoad, MonitorState
  <2>2. CASE MonExit \/ MonExpired \/ MonVolumeError \/ MonSave \/ MonDbError
    <3>1. mon' = OffMonitor \/ EndPoll
      BY <2>2 DEF MonExit, MonExpired, MonVolumeError, AskFullScan, MonSave, MonDbError
    <3>2. QED
      BY <3>1, EndPollType DEF OffMonitor
  <2>3. CASE MonQuery \/ MonRead \/ MonReadRecreated \/ MonReadCutShort \/ MonBreak
    BY <1>0, <2>3
    DEF MonQuery, MonRead, MonReadRecreated, MonReadCutShort, ReadUpTo, MonBreak, MonitorState
  <2>4. ASSUME NEW f \in File, MonDelete(f) \/ MonResolve(f) \/ MonUpdate(f)
        PROVE  mon'.start = mon.start
    BY <1>0, <2>4 DEF MonDelete, MonResolve, MonUpdate, MonitorState
  <2>5. ASSUME NEW F, MonUnresolved(F) PROVE mon'.start = mon.start
    BY <1>0, <2>5 DEF MonUnresolved, MonitorState
  <2>6. QED
    BY <2>1, <2>2, <2>3, <2>4, <2>5 DEF MonitorStep, MonitorFault
<1>4. QED
  BY <1>0, <1>1, <1>2, <1>3 DEF Positions

LEMMA WindowSources ==
  ASSUME Inv, WindowStep \/ User \/ CloseDbError \/ Crash
  PROVE  Positions' \subseteq Sources
<1>0. db.usn \in Sources /\ db.cacheUsn \in Sources /\ mon.start \in Sources
      /\ NoUsn \in Sources /\ (\A x \in Scanner : scan[x].base \in Sources)
      /\ db \in Database /\ mon \in MonitorState /\ scan \in [Scanner -> ScanState]
  BY DEF Inv, TypeOK, Sources, Positions
<1>1. db'.usn = db.usn /\ db'.cacheUsn = db.cacheUsn
  <2>1. CASE CloseSave
    BY <1>0, <2>1 DEF CloseSave, Stored, Database
  <2>2. CASE ~CloseSave
    BY <2>2 DEF WindowStep, User, HandleDone, JoinDone, HandleNeedsFullScan, CloseScanWaited,
                ProcessExit, Crash, Stopped, CloseDbError, UserAsks, UserClose, AppStart,
                UserConfirms
  <2>3. QED
    BY <2>1, <2>2
<1>2. mon'.start \in {mon.start, NoUsn}
  <2>1. CASE HandleDone \/ JoinDone \/ ProcessExit \/ Crash
    BY <1>0, <2>1 DEF HandleDone, JoinDone, ProcessExit, Crash, Stopped, NewMonitor, OffMonitor,
                      MonitorState
  <2>2. CASE CloseScanWaited
    BY <1>0, <2>2 DEF CloseScanWaited, MonitorState
  <2>3. CASE ~(HandleDone \/ JoinDone \/ ProcessExit \/ Crash \/ CloseScanWaited)
    BY <2>3 DEF WindowStep, User, HandleNeedsFullScan, CloseSave, CloseDbError, UserAsks,
                UserClose, AppStart, UserConfirms
  <2>4. QED
    BY <2>1, <2>2, <2>3
<1>3. ASSUME NEW x \in Scanner PROVE scan'[x].base \in {scan[x].base, NoUsn}
  <2>1. IdleScan.base = NoUsn /\ \A m \in {"mft", "cache"} :
          [IdleScan EXCEPT !.pc = "start", !.mode = m].base = NoUsn
    BY DEF IdleScan
  <2>2. [IdleScan EXCEPT !.pc = "start"].base = NoUsn
    BY DEF IdleScan
  <2>3. CASE \E s \in Scanner : AppStart(s) \/ HandleNeedsFullScan(s) \/ UserConfirms(s)
    BY <1>0, <2>1, <2>2, <2>3 DEF AppStart, HandleNeedsFullScan, UserConfirms, StartScan
  <2>4. CASE UserClose
    <3>1. scan'[x] = scan[x] \/ scan'[x] = [scan[x] EXCEPT !.stop = TRUE]
      BY <2>4 DEF UserClose
    <3>2. QED
      BY <1>0, <3>1 DEF ScanState
  <2>5. CASE ProcessExit \/ Crash
    BY <2>1, <2>5 DEF ProcessExit, Crash, Stopped
  <2>6. CASE HandleDone \/ JoinDone \/ CloseScanWaited \/ CloseSave \/ CloseDbError \/ UserAsks
    BY <2>6 DEF HandleDone, JoinDone, CloseScanWaited, CloseSave, CloseDbError, UserAsks
  <2>7. QED
    BY <2>3, <2>4, <2>5, <2>6 DEF WindowStep, User
<1>4. QED
  BY <1>0, <1>1, <1>2, <1>3 DEF Positions

LEMMA StepSources == Inv /\ [Next]_vars => Positions' \subseteq Sources
<1> SUFFICES ASSUME Inv, [Next]_vars PROVE Positions' \subseteq Sources
  OBVIOUS
<1>1. CASE Volume \/ UNCHANGED vars
  <2>1. db' = db /\ mon' = mon /\ scan' = scan
    BY <1>1 DEF Volume, DeleteFile, PlaceFile, Record, TrimJournal, RecreateJournal, vars
  <2>2. QED
    BY <2>1 DEF Positions, Sources
<1>2. QED
  BY <1>1, ScannerSources, MonitorSources, WindowSources DEF Next

LEMMA AppendLength ==
  ASSUME NEW S, NEW q \in Seq(S), NEW e \in S PROVE Len(Append(q, e)) = Len(q) + 1
OBVIOUS

\* The journal only grows, and is only replaced by a later one.
LEMMA JournalGrows ==
  Inv /\ [Next]_vars => journal.id \leq journal'.id /\ NextUsn \leq NextUsn'
<1> SUFFICES ASSUME Inv, [Next]_vars
             PROVE  journal.id \leq journal'.id /\ NextUsn \leq NextUsn'
  OBVIOUS
<1>0. journal \in Journal /\ journal.id \in Nat /\ NextUsn \in Nat
  BY DEF Inv, TypeOK, Journal, NextUsn
<1>1. ASSUME NEW f \in File, NEW del \in BOOLEAN, Record(f, del)
      PROVE  journal'.id = journal.id /\ NextUsn' = NextUsn + 1
  <2>1. journal'.recs = Append(journal.recs, [file |-> f, del |-> del]) /\ journal'.id = journal.id
    BY <1>0, <1>1 DEF Record, Journal
  <2>2. journal.recs \in Seq([file : File, del : BOOLEAN])
        /\ [file |-> f, del |-> del] \in [file : File, del : BOOLEAN]
    BY <1>0 DEF Journal
  <2>3. QED
    BY <2>1, <2>2, AppendLength DEF NextUsn
<1>2. CASE TrimJournal \/ RecreateJournal
  <2>1. journal'.recs = journal.recs /\ journal'.id \in {journal.id, journal.id + 1}
    BY <1>0, <1>2 DEF TrimJournal, RecreateJournal, Journal
  <2>2. QED
    BY <1>0, <2>1 DEF NextUsn
<1>3. CASE Volume
  <2>1. CASE \E f \in File, del \in BOOLEAN : Record(f, del)
    BY <1>0, <1>1, <2>1
  <2>2. (\E f \in File, del \in BOOLEAN : Record(f, del)) \/ TrimJournal \/ RecreateJournal
    <3>1. \A f \in File : DeleteFile(f) => Record(f, TRUE)
      BY DEF DeleteFile
    <3>2. \A f \in File, p \in Path : PlaceFile(f, p) => Record(f, FALSE)
      BY DEF PlaceFile
    <3>3. QED
      BY <1>3, <3>1, <3>2, ZenonT(30) DEF Volume
  <2>3. QED
    BY <1>0, <1>2, <2>1, <2>2
<1>4. CASE ~Volume
  <2>1. journal' = journal
    <3>1. CASE \E s \in Scanner : ScannerStep(s) \/ ScannerFault(s)
      BY <3>1 DEF ScannerStep, ScannerFault, ScanOpen, ScanStopped, ScanRead, ScanCollect,
         ScanPopulate, ScanEmpty, ScanSnapshot, ScanStore, ScanLoadRows, ScanLoad,
         ScanUnreadable, ScanDbError
    <3>2. CASE MonitorStep \/ MonitorFault
      BY <3>2 DEF MonitorStep, MonitorFault, MonitorKeeps, AskFullScan, MonExit, MonLoad,
         MonQuery, MonRead, MonExpired, MonDelete, MonResolve, MonUpdate, MonBreak, MonSave,
         MonReadRecreated, MonReadCutShort, MonVolumeError, MonDbError, MonUnresolved
    <3>3. CASE WindowStep \/ User \/ CloseDbError \/ Crash
      BY <3>3 DEF WindowStep, User, WindowKeeps, HandleDone, JoinDone, HandleNeedsFullScan,
         CloseScanWaited, CloseSave, ProcessExit, Crash, Stopped, CloseDbError, UserAsks,
         UserClose, AppStart, UserConfirms
    <3>4. QED
      BY <1>4, <3>1, <3>2, <3>3 DEF Next, vars
  <2>2. QED
    BY <1>0, <2>1 DEF NextUsn
<1>5. QED
  BY <1>3, <1>4

\* A poll that is past its query has just asked it, or has kept its range.
LEMMA RangeKept ==
  ASSUME Inv, [Next]_vars, mon'.pc \in {"read", "apply"}
  PROVE  \/ MonQuery
         \/ mon.pc \in {"read", "apply"} /\ mon'.start = mon.start /\ mon'.upto = mon.upto
<1>0. mon \in MonitorState
  BY DEF Inv, TypeOK
<1>1. CASE Volume \/ UNCHANGED vars \/ \E s \in Scanner : ScannerStep(s) \/ ScannerFault(s)
  <2>1. mon' = mon
    BY <1>1 DEF Volume, DeleteFile, PlaceFile, Record, TrimJournal, RecreateJournal, vars,
         ScannerStep, ScannerFault, ScanOpen, ScanStopped, ScanRead, ScanCollect,
         ScanPopulate, ScanEmpty, ScanSnapshot, ScanStore, ScanLoadRows, ScanLoad,
         ScanUnreadable, ScanDbError
  <2>2. QED
    BY <2>1
<1>2. CASE MonitorStep \/ MonitorFault
  <2>1. CASE MonExit \/ MonExpired \/ MonVolumeError \/ MonSave \/ MonDbError
    <3>1. mon' = OffMonitor \/ EndPoll
      BY <2>1 DEF MonExit, MonExpired, MonVolumeError, AskFullScan, MonSave, MonDbError
    <3>2. mon'.pc \in {"off", "sleep"}
      BY <3>1, EndPollType DEF OffMonitor
    <3>3. QED
      BY <3>2
  <2>2. CASE MonLoad
    BY <1>0, <2>2 DEF MonLoad, MonitorState
  <2>3. CASE MonRead \/ MonReadRecreated \/ MonReadCutShort \/ MonBreak
    BY <1>0, <2>3
    DEF MonRead, MonReadRecreated, MonReadCutShort, ReadUpTo, MonBreak, Resolved, MonitorState
  <2>4. ASSUME NEW f \in File, MonDelete(f) \/ MonResolve(f) \/ MonUpdate(f)
        PROVE  mon.pc = "apply" /\ mon'.start = mon.start /\ mon'.upto = mon.upto
    BY <1>0, <2>4 DEF MonDelete, MonResolve, MonUpdate, Resolved, MonitorState
  <2>5. ASSUME NEW F, MonUnresolved(F)
        PROVE  mon.pc = "apply" /\ mon'.start = mon.start /\ mon'.upto = mon.upto
    BY <1>0, <2>5 DEF MonUnresolved, MonitorState
  <2>6. QED
    BY <1>2, <2>1, <2>2, <2>3, <2>4, <2>5 DEF MonitorStep, MonitorFault
<1>3. CASE WindowStep \/ User \/ CloseDbError \/ Crash
  <2>1. mon' = mon \/ mon' = NewMonitor \/ mon' = OffMonitor
        \/ \E b \in BOOLEAN : mon' = [mon EXCEPT !.stop = b]
    BY <1>3 DEF WindowStep, User, HandleDone, JoinDone, HandleNeedsFullScan,
         CloseScanWaited, CloseSave, ProcessExit, Crash, Stopped, CloseDbError, UserAsks,
         UserClose, AppStart, UserConfirms
  <2>2. QED
    BY <1>0, <2>1 DEF NewMonitor, OffMonitor, MonitorState
<1>4. QED
  BY <1>1, <1>2, <1>3 DEF Next

LEMMA InitReached == Init => NeverAhead
BY DEF Init, NeverAhead, Positions, Reached, IdleScan, OffMonitor

LEMMA PositionsKept == Inv /\ Inv' /\ NeverAhead /\ [Next]_vars => NeverAhead'
<1> SUFFICES ASSUME Inv, Inv', NeverAhead, [Next]_vars PROVE NeverAhead'
  OBVIOUS
<1>0. journal.id \in Nat /\ journal'.id \in Nat /\ NextUsn \in Nat /\ NextUsn' \in Nat
      /\ journal.id \leq journal'.id /\ NextUsn \leq NextUsn'
  BY JournalGrows DEF Inv, TypeOK, Journal, NextUsn
<1>1. ASSUME mon.pc \in {"query", "read", "apply"}
      PROVE  /\ mon.start \in Usn
             /\ mon.start.id \leq journal.id /\ mon.start.next \leq NextUsn
  <2>1. mon.start \in Usn
    BY <1>1 DEF Inv, Started
  <2>2. mon.start # NoUsn
    BY <2>1, ConstantsOK DEF Usn
  <2>3. QED
    BY <2>1, <2>2 DEF NeverAhead, Reached, Positions
<1>2. \A p \in Sources : Reached(p)
  <2>1. CASE mon.pc = "apply"
    <3>1. Reached(PollPosition)
      BY <1>1, <2>1 DEF NeverAhead, Reached, PollPosition
    <3>2. QED
      BY <1>0, <3>1 DEF Sources, NeverAhead, Reached
  <2>2. CASE mon.pc # "apply"
    BY <1>0, <2>2 DEF Sources, NeverAhead, Reached
  <2>3. QED
    BY <2>1, <2>2
<1>3. ASSUME NEW p \in Positions' PROVE Reached(p)'
  <2>1. p \in Sources
    BY <1>3, StepSources
  <2>2. Reached(p)
    BY <1>2, <2>1
  <2>3. p \in Position
    BY <1>3 DEF Positions, Inv, TypeOK, Database, MonitorState, ScanState
  <2>4. QED
    BY <1>0, <2>2, <2>3 DEF Reached, Position, Usn
<1>4. ASSUME mon'.pc \in {"read", "apply"}
      PROVE  mon'.start.next \leq mon'.upto /\ mon'.upto \leq NextUsn'
  <2>1. CASE MonQuery
    <3>1. mon'.start = mon.start /\ mon'.upto = NextUsn
      BY <2>1 DEF MonQuery, Inv, TypeOK, MonitorState
    <3>2. QED
      BY <1>0, <1>1, <2>1, <3>1 DEF MonQuery
  <2>2. CASE mon.pc \in {"read", "apply"} /\ mon'.start = mon.start /\ mon'.upto = mon.upto
    <3>1. mon.upto \in Nat /\ mon.start.next \leq mon.upto /\ mon.upto \leq NextUsn
      BY <2>2 DEF NeverAhead, Inv, TypeOK, MonitorState
    <3>2. QED
      BY <1>0, <2>2, <3>1
  <2>3. QED
    BY <1>4, <2>1, <2>2, RangeKept
<1>5. QED
  BY <1>3, <1>4 DEF NeverAhead

\* No thread, and no order of threads, ever leaves in the database, in a poll
\* or in a scan a position that the journal has not reached: what is recorded
\* from now on will be read by every poll that starts from any of them.
THEOREM PositionsReached == Spec => []NeverAhead
BY InitType, StepType, InitReached, PositionsKept, PTL DEF Spec

=============================================================================
