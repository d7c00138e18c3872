---------------------------- MODULE DrivesProofs -----------------------------
(***************************************************************************)
(* Proofs about Drives, for any number of drives and simultaneous scans.   *)
(***************************************************************************)
EXTENDS Drives, TLAPS

\* The drive under way is one of the drives, and its start is known.
Underway ==
  /\ mon.pc \in {"apply", "save"} => mon.at \leq Len(Order) /\ PollAt \in DOMAIN mon.from
  /\ \A s \in Scanner :
       /\ scan[s].pc = "save" => scan[s].at \leq Len(Order) /\ scan[s].found[ScanAt(s)] # Missing
       /\ scan[s].pc = "populate" => scan[s].tx = Nothing

Typed == DrivesTypeOK /\ Underway

\* What a poll has saved started at a position that had been reported, on
\* drives where no poll was cut short since a scan made up for it.
Reported ==
  /\ DOMAIN mon.tx \subseteq DOMAIN mon.from
  /\ \A d \in DOMAIN mon.from \ untold : mon.from[d] \leq told[d]

\* The stored position of drive d, and those that the poll m knows of it, are at
\* most n.
AtMost(u, m, d, n) ==
  /\ u[d] \leq n
  /\ d \in DOMAIN m.from => m.from[d] \leq n
  /\ d \in DOMAIN m.tx => m.tx[d] \leq n
  /\ m.pc = "save" /\ d = Order[m.at] => m.upto \leq n

\* No position is past the end of its journal.
Reached ==
  /\ \A d \in Drive : AtMost(usn, mon, d, vol[d].end)
  /\ mon.pc = "apply" => mon.upto \leq vol[PollAt].end
  /\ \A s \in Scanner, d \in Drive : scan[s].found[d] # Missing => scan[s].found[d] \leq vol[d].end

\* A scan saves what it found.
Saves ==
  \A s \in Scanner : \A d \in DOMAIN scan[s].tx :
     scan[s].found[d] # Missing /\ scan[s].tx[d] \leq scan[s].found[d]

\* Of two scans at one time both count as raced everywhere.
Alone ==
  \A s, r \in Scanner : Running(s) /\ Running(r) /\ s # r => scan[s].raced = Drive

\* Nothing is past what a scan found of a drive that nobody else worked on.
Ahead ==
  \A s \in Scanner, d \in Drive :
    Running(s) /\ d \notin scan[s].raced /\ scan[s].found[d] # Missing
      => AtMost(usn, mon, d, scan[s].found[d])

\* A scan is about to replace the list.
Replaces == \E s \in Scanner : scan[s].pc = "populate" /\ \E d \in Drive : scan[s].found[d] # Missing

\* Nothing is past the list, when it is not about to be replaced.
Covered ==
  ~Replaces => \A d \in Drive \ behind : list[d] # Missing /\ AtMost(usn, mon, d, list[d])

Covering == Reached /\ Saves /\ Alone /\ Ahead /\ Covered

-----------------------------------------------------------------------------
(* Types *)

LEMMA DriveAt == ASSUME NEW i \in 1..Len(Order) PROVE Order[i] \in Drive
BY DEF Drive

LEMMA LengthType == Len(Order) \in Nat
BY DrivesInOrder

LEMMA NothingType == Nothing \in Transaction /\ DOMAIN Nothing = {}
<1>1. Nothing \in [{} -> Position] /\ {} \in SUBSET Drive
  BY DEF Nothing
<1>2. QED
  BY <1>1 DEF Transaction, Nothing

LEMMA TransactionType ==
  ASSUME NEW tx \in Transaction
  PROVE  /\ DOMAIN tx \subseteq Drive
         /\ \A d \in DOMAIN tx : tx[d] \in Position
BY DEF Transaction

LEMMA WithType ==
  ASSUME NEW tx \in Transaction, NEW d \in Drive, NEW n \in Position
  PROVE  /\ With(tx, d, n) \in Transaction
         /\ DOMAIN With(tx, d, n) = DOMAIN tx \cup {d}
         /\ \A x \in DOMAIN tx \cup {d} : With(tx, d, n)[x] = IF x = d THEN n ELSE tx[x]
<1> DEFINE D == DOMAIN tx \cup {d}
<1>1. D \in SUBSET Drive
  BY TransactionType
<1>2. With(tx, d, n) \in [D -> Position]
  BY TransactionType DEF With
<1>3. QED
  BY <1>1, <1>2 DEF Transaction, With

LEMMA MergedType ==
  ASSUME NEW old \in [Drive -> Position], NEW tx \in Transaction
  PROVE  /\ Merged(old, tx) \in [Drive -> Position]
         /\ \A d \in Drive : Merged(old, tx)[d] = IF d \in DOMAIN tx THEN tx[d] ELSE old[d]
BY TransactionType DEF Merged

LEMMA LargerType ==
  ASSUME NEW m \in Nat, NEW n \in Nat
  PROVE  /\ Larger(m, n) \in {m, n}
         /\ m \leq Larger(m, n) /\ n \leq Larger(m, n)
BY DEF Larger

PollRecord ==
  [pc : {"sleep", "drive", "apply", "save"}, at : 1..Len(Order)+1,
   tx : Transaction, from : Transaction, upto : Position,
   cut : SUBSET Drive, stop : BOOLEAN]

ScanRecord ==
  [pc : {"off", "drive", "save", "populate", "store", "done"}, at : 1..Len(Order)+1,
   tx : Transaction, found : [Drive -> Position \cup {Missing}], raced : SUBSET Drive]

LEMMA PositionType == Position \subseteq Nat /\ 0 \in Position /\ Missing \notin Position
BY BoundsNatural, MissingIsNoPosition DEF Position

LEMMA IdleTypes ==
  /\ Asleep \in PollRecord /\ Asleep.pc = "sleep" /\ Asleep.from = Nothing /\ Asleep.tx = Nothing
  /\ NoScan \in ScanRecord /\ NoScan.pc = "off" /\ NoScan.tx = Nothing
  /\ \A d \in Drive : NoScan.found[d] = Missing
<1>1. 1 \in 1..Len(Order)+1
  BY LengthType
<1>2. QED
  BY <1>1, NothingType, PositionType DEF Asleep, NoScan, PollRecord, ScanRecord

LEMMA InitTyped == Init => Typed
<1> SUFFICES ASSUME Init PROVE Typed
  OBVIOUS
<1>1. mon \in PollRecord /\ mon.pc = "sleep"
  BY IdleTypes DEF Init
<1>2. scan \in [Scanner -> ScanRecord] /\ \A s \in Scanner : scan[s].pc = "off"
  BY IdleTypes DEF Init
<1>3. faults \in 0..MaxFaults
  BY BoundsNatural DEF Init
<1>4. QED
  BY <1>1, <1>2, <1>3, PositionType
  DEF Init, Typed, DrivesTypeOK, Underway, PollRecord, ScanRecord

LEMMA StepType ==
  ASSUME scan \in [Scanner -> ScanRecord], NEW s \in Scanner, NEW sc \in ScanRecord, Step(s, sc)
  PROVE  /\ scan' \in [Scanner -> ScanRecord]
         /\ scan'[s] = sc
         /\ \A r \in Scanner \ {s} : scan'[r] = scan[r]
BY DEF Step

\* A scan's record: its drive is there and has been read when it is saved.
ScanFine(sc) ==
  /\ sc \in ScanRecord
  /\ sc.pc = "save" => sc.at \leq Len(Order) /\ sc.found[Order[sc.at]] # Missing
  /\ sc.pc = "populate" => sc.tx = Nothing

\* The poll's record: the drive that it has read is there, and so is its start.
PollFine(p) ==
  /\ p \in PollRecord
  /\ p.pc \in {"apply", "save"} => p.at \leq Len(Order) /\ Order[p.at] \in DOMAIN p.from

\* What all steps of the window and of the threads leave as it should be.
Shared ==
  /\ vol \in [Drive -> [on : BOOLEAN, end : Position, low : Position]]
  /\ usn \in [Drive -> Position] /\ told \in [Drive -> Position]
  /\ list \in [Drive -> Position \cup {Missing}]
  /\ gui \in [inbox : Seq({"needs_full_scan", "finished"}), join : BOOLEAN]
  /\ faults \in 0..MaxFaults
  /\ behind \in SUBSET Drive /\ untold \in SUBSET Drive

LEMMA TypedParts ==
  Typed <=> Shared /\ PollFine(mon) /\ scan \in [Scanner -> ScanRecord]
            /\ \A s \in Scanner : ScanFine(scan[s])
BY DEF Typed, DrivesTypeOK, Underway, Shared, PollFine, ScanFine, PollRecord, ScanRecord,
       PollAt, ScanAt

LEMMA TypedNext ==
  Shared' /\ PollFine(mon') /\ scan' \in [Scanner -> ScanRecord]
  /\ (\A s \in Scanner : ScanFine(scan'[s])) => Typed'
BY DEF Typed, DrivesTypeOK, Underway, Shared, PollFine, ScanFine, PollRecord, ScanRecord,
       PollAt, ScanAt

LEMMA ScanTyped ==
  ASSUME Typed, NEW s \in Scanner, NEW sc, ScanFine(sc), Step(s, sc)
  PROVE  scan' \in [Scanner -> ScanRecord] /\ \A r \in Scanner : ScanFine(scan'[r])
<1>1. scan \in [Scanner -> ScanRecord] /\ sc \in ScanRecord
  BY TypedParts DEF ScanFine
<1>2. QED
  BY <1>1, StepType, TypedParts

LEMMA FaultTyped == ASSUME Shared, Fault \/ UNCHANGED faults PROVE faults' \in 0..MaxFaults
BY BoundsNatural DEF Shared, Fault

LEMMA SignalTyped ==
  ASSUME Shared, NEW sig \in {"needs_full_scan", "finished"}, Signal(sig)
  PROVE  gui' \in [inbox : Seq({"needs_full_scan", "finished"}), join : BOOLEAN]
<1> DEFINE Sig == {"needs_full_scan", "finished"}
<1>1. gui \in [inbox : Seq(Sig), join : BOOLEAN]
  BY DEF Shared
<1>2. sig \in Sig
  OBVIOUS
<1> HIDE DEF Sig
<1>3. Append(gui.inbox, sig) \in Seq(Sig)
  BY <1>1, <1>2
<1>4. gui' \in [inbox : Seq(Sig), join : BOOLEAN]
  BY <1>1, <1>3 DEF Signal
<1>5. QED
  BY <1>4 DEF Sig

LEMMA PollTyped ==
  ASSUME Typed, Poll
  PROVE  Typed'
<1> USE DEF Shared, PollFine
<1>1. Shared /\ PollFine(mon) /\ scan \in [Scanner -> ScanRecord]
      /\ \A s \in Scanner : ScanFine(scan[s])
  BY TypedParts
<1>2. mon.at \leq Len(Order) => PollAt \in Drive
  BY <1>1, DriveAt, LengthType DEF PollAt, PollRecord
<1>3. PollFine(Asleep) /\ \A b \in BOOLEAN : PollFine([Asleep EXCEPT !.stop = b])
  BY IdleTypes DEF PollRecord
<1>4. CASE PollStart
  <2>1. PollFine(mon')
    BY <1>3, <1>4, IdleTypes DEF PollStart, PollRecord
  <2>2. QED
    BY <1>1, <1>4, <2>1, TypedNext DEF PollStart
<1>5. CASE PollRead
  <2>1. usn[PollAt] \in Position /\ vol[PollAt].end \in Position /\ PollAt \in Drive
        /\ mon.at \leq Len(Order)
    BY <1>1, <1>2, <1>5, LengthType DEF PollRead, PollEnds, PollRecord
  <2>2. With(mon.from, PollAt, usn[PollAt]) \in Transaction
        /\ PollAt \in DOMAIN With(mon.from, PollAt, usn[PollAt])
    <3>1. mon.from \in Transaction
      BY <1>1 DEF PollRecord
    <3>2. DOMAIN With(mon.from, PollAt, usn[PollAt]) = DOMAIN mon.from \cup {PollAt}
          /\ With(mon.from, PollAt, usn[PollAt]) \in Transaction
      BY <2>1, <3>1, WithType
    <3>3. QED
      BY <3>2
  <2>3. PollFine(mon')
    <3> DEFINE from == With(mon.from, PollAt, usn[PollAt])
               next == [mon EXCEPT !.pc = "apply", !.upto = vol[PollAt].end, !.from = from]
    <3> HIDE DEF from
    <3>1. next \in PollRecord /\ next.at = mon.at /\ next.from = from
      BY <1>1, <2>1, <2>2 DEF PollRecord, from
    <3>2. Order[next.at] \in DOMAIN next.from
      BY <2>2, <3>1 DEF from, PollAt
    <3>3. mon' = next
      BY <1>5 DEF PollRead, from
    <3>4. QED
      BY <2>1, <3>1, <3>2, <3>3
  <2>4. QED
    BY <1>1, <1>5, <2>3, TypedNext DEF PollRead
<1>6. CASE PollGivesUp
  <2>1. PollFine(mon')
    BY <1>1, <1>3, <1>6 DEF PollGivesUp, PollRecord
  <2>2. faults' \in 0..MaxFaults
    BY <1>1, <1>6, FaultTyped DEF PollGivesUp
  <2>3. gui' \in [inbox : Seq({"needs_full_scan", "finished"}), join : BOOLEAN]
    BY <1>1, <1>6, SignalTyped DEF PollGivesUp, GiveUp
  <2>4. QED
    BY <1>1, <1>6, <2>1, <2>2, <2>3, TypedNext DEF PollGivesUp, GiveUp
<1>7. CASE PollApply
  <2>1. PollAt \in Drive /\ mon.upto \in Position /\ mon.from[PollAt] \in Position
    BY <1>1, <1>2, <1>7, TransactionType DEF PollApply, PollRecord, PollAt
  <2>2. PollFine(mon')
    BY <1>1, <1>7, <2>1 DEF PollApply, PollRecord
  <2>3. /\ list' \in [Drive -> Position \cup {Missing}] /\ behind' \in SUBSET Drive
        /\ faults' \in 0..MaxFaults
    <3>1. Applied(list[PollAt], mon.from[PollAt], mon.upto) \in Position \cup {Missing}
      <4>1. list[PollAt] \in Position \cup {Missing}
        BY <1>1, <2>1
      <4>2. list[PollAt] # Missing => Larger(list[PollAt], mon.upto) \in Position
        BY <2>1, <4>1 DEF Larger
      <4>3. QED
        BY <4>1, <4>2 DEF Applied
    <3>2. faults' \in 0..MaxFaults
      BY <1>1, <1>7, FaultTyped DEF PollApply
    <3>3. QED
      BY <1>1, <1>7, <2>1, <3>1, <3>2 DEF PollApply
  <2>4. scan' \in [Scanner -> ScanRecord] /\ \A s \in Scanner : ScanFine(scan'[s])
    <3>1. CASE scan' = scan
      BY <1>1, <3>1
    <3>2. CASE scan' = RacedBy(PollAt)
      <4>1. \A s \in Scanner : scan'[s] = IF Running(s)
              THEN [scan[s] EXCEPT !.raced = @ \cup {PollAt}] ELSE scan[s]
        BY <3>2 DEF RacedBy
      <4>2. ASSUME NEW s \in Scanner PROVE ScanFine(scan'[s])
        <5>1. scan[s] \in ScanRecord /\ ScanFine(scan[s])
          BY <1>1
        <5>2. [scan[s] EXCEPT !.raced = @ \cup {PollAt}] \in ScanRecord
          BY <5>1, <2>1 DEF ScanRecord
        <5>3. ScanFine([scan[s] EXCEPT !.raced = @ \cup {PollAt}])
          BY <5>1, <5>2 DEF ScanFine, ScanRecord
        <5>4. QED
          BY <4>1, <5>1, <5>3
      <4>3. QED
        BY <3>2, <4>2 DEF RacedBy, ScanFine
    <3>3. QED
      BY <1>7, <3>1, <3>2 DEF PollApply
  <2>5. QED
    BY <1>1, <1>7, <2>2, <2>3, <2>4, TypedNext DEF PollApply
<1>8. CASE PollSave
  <2>1. PollAt \in Drive /\ mon.at \in 1..Len(Order)
    BY <1>1, <1>2, <1>8, LengthType DEF PollSave, PollRecord
  <2>2. With(mon.tx, PollAt, mon.upto) \in Transaction
    BY <1>1, <2>1, WithType DEF PollRecord
  <2>3. PollFine(mon')
    <3>1. mon.at + 1 \in 1..Len(Order)+1
      BY <2>1, LengthType
    <3>2. [mon EXCEPT !.pc = "drive", !.at = @ + 1, !.tx = With(@, PollAt, mon.upto)] \in PollRecord
      BY <1>1, <2>2, <3>1 DEF PollRecord
    <3>3. QED
      BY <1>1, <1>8, <3>2 DEF PollSave, PollRecord
  <2>4. QED
    BY <1>1, <1>8, <2>3, TypedNext DEF PollSave
<1>9. CASE PollTimesOut
  <2>1. PollFine(mon')
    BY <1>1, <1>3, <1>9 DEF PollTimesOut, PollRecord
  <2>2. faults' \in 0..MaxFaults
    BY <1>1, <1>9, FaultTyped DEF PollTimesOut
  <2>3. QED
    BY <1>1, <1>9, <2>1, <2>2, TypedNext DEF PollTimesOut
<1>10. CASE PollCommit
  <2>1. PollFine(mon')
    BY <1>1, <1>3, <1>10 DEF PollCommit, PollRecord
  <2>2. usn' \in [Drive -> Position]
    BY <1>1, <1>10, MergedType DEF PollCommit, PollRecord
  <2>3. ASSUME NEW d \in Drive PROVE Told(d) \in Position
    <3>1. told[d] \in Position /\ (d \in DOMAIN mon.tx => mon.tx[d] \in Position)
      BY <1>1, TransactionType DEF PollRecord
    <3>2. QED
      BY <3>1, LargerType, PositionType DEF Told
  <2>4. untold' \in SUBSET Drive
    BY <1>1, <1>10 DEF PollCommit, PollRecord
  <2>5. QED
    BY <1>1, <1>10, <2>1, <2>2, <2>3, <2>4, TypedNext DEF PollCommit
<1>11. QED
  BY <1>4, <1>5, <1>6, <1>7, <1>8, <1>9, <1>10 DEF Poll

LEMMA VolumeTyped ==
  ASSUME Typed, VolumeStep
  PROVE  Typed'
<1>1. Shared /\ PollFine(mon) /\ scan \in [Scanner -> ScanRecord]
      /\ \A s \in Scanner : ScanFine(scan[s])
  BY TypedParts
<1>2. /\ vol' \in [Drive -> [on : BOOLEAN, end : Position, low : Position]]
      /\ faults' \in 0..MaxFaults
      /\ UNCHANGED <<usn, list, mon, scan, gui, told, behind, untold>>
  <2>1. PICK d \in Drive : Change(d) \/ Trim(d) \/ Remove(d)
    BY DEF VolumeStep
  <2>2. vol[d].end < MaxUsn => vol[d].end + 1 \in Position
    BY <1>1, BoundsNatural DEF Shared, Position
  <2>3. faults' \in 0..MaxFaults
    BY <1>1, <2>1, FaultTyped DEF Change, Trim, Remove
  <2>4. QED
    <3>1. CASE Change(d)
      BY <1>1, <2>2, <2>3, <3>1 DEF Change, Shared
    <3>2. CASE Trim(d)
      BY <1>1, <2>3, <3>2 DEF Trim, Shared
    <3>3. CASE Remove(d)
      BY <1>1, <2>3, <3>3 DEF Remove, Shared
    <3>4. QED
      BY <2>1, <3>1, <3>2, <3>3
<1>3. QED
  BY <1>1, <1>2, TypedNext DEF Shared

LEMMA ScanStepTyped ==
  ASSUME Typed, NEW s \in Scanner, Scan(s)
  PROVE  Typed'
<1>1. Shared /\ PollFine(mon) /\ scan \in [Scanner -> ScanRecord]
      /\ \A r \in Scanner : ScanFine(scan[r])
  BY TypedParts
<1>2. scan[s].at \leq Len(Order) => ScanAt(s) \in Drive /\ scan[s].at \in 1..Len(Order)
  BY <1>1, DriveAt, LengthType DEF ScanAt, ScanRecord
<1>3. scan[s] \in ScanRecord /\ ScanFine(scan[s]) /\ scan[s].at \in Nat
  BY <1>1, LengthType DEF ScanRecord
<1>4. scan[s].at \leq Len(Order) => scan[s].at + 1 \in 1..Len(Order)+1
  BY <1>2, LengthType
<1>5. CASE ScanRead(s)
  <2> DEFINE sc == [scan[s] EXCEPT !.pc = "save", !.found[ScanAt(s)] = vol[ScanAt(s)].end]
  <2>1. scan[s].at \leq Len(Order) /\ vol[ScanAt(s)].end \in Position
    BY <1>1, <1>2, <1>5 DEF ScanRead, ScanReads, Shared
  <2>2. sc \in ScanRecord /\ sc.at = scan[s].at /\ sc.found[ScanAt(s)] = vol[ScanAt(s)].end
    BY <1>2, <1>3, <2>1 DEF ScanRecord
  <2>3. ScanFine(sc)
    BY <2>1, <2>2, PositionType DEF ScanFine, ScanAt
  <2>4. scan' \in [Scanner -> ScanRecord] /\ \A r \in Scanner : ScanFine(scan'[r])
    BY <1>5, <2>3, ScanTyped DEF ScanRead
  <2>5. QED
    BY <1>1, <1>5, <2>4, TypedNext DEF ScanRead, Shared
<1>6. CASE ScanSkips(s)
  <2> DEFINE sc == [scan[s] EXCEPT !.at = @ + 1]
  <2>1. ScanFine(sc)
    BY <1>3, <1>4, <1>6 DEF ScanSkips, ScanReads, ScanFine, ScanRecord
  <2>2. scan' \in [Scanner -> ScanRecord] /\ \A r \in Scanner : ScanFine(scan'[r])
    BY <1>6, <2>1, ScanTyped DEF ScanSkips
  <2>3. faults' \in 0..MaxFaults
    BY <1>1, <1>6, FaultTyped DEF ScanSkips
  <2>4. QED
    BY <1>1, <1>6, <2>2, <2>3, TypedNext DEF ScanSkips, Shared
<1>7. CASE ScanSave(s)
  <2> DEFINE tx == With(scan[s].tx, ScanAt(s), ScanPosition(s))
             sc == [scan[s] EXCEPT !.pc = "drive", !.at = @ + 1, !.tx = tx]
  <2>1. scan[s].at \leq Len(Order) /\ ScanPosition(s) \in Position
    BY <1>2, <1>3, <1>7 DEF ScanSave, ScanFine, ScanPosition, ScanAt, ScanRecord
  <2>2. tx \in Transaction
    BY <1>2, <1>3, <2>1, WithType DEF ScanRecord
  <2> HIDE DEF tx
  <2>3. ScanFine(sc)
    BY <1>3, <1>4, <2>1, <2>2 DEF ScanFine, ScanRecord
  <2>4. Step(s, sc)
    BY <1>7 DEF ScanSave, tx
  <2>5. scan' \in [Scanner -> ScanRecord] /\ \A r \in Scanner : ScanFine(scan'[r])
    BY <2>3, <2>4, ScanTyped
  <2>6. QED
    BY <1>1, <1>7, <2>5, TypedNext DEF ScanSave, Shared
<1>8. CASE ScanCommit(s)
  <2> DEFINE sc == [scan[s] EXCEPT !.pc = "populate", !.tx = Nothing]
  <2>1. ScanFine(sc)
    BY <1>3, NothingType DEF ScanFine, ScanRecord
  <2>2. scan' \in [Scanner -> ScanRecord] /\ \A r \in Scanner : ScanFine(scan'[r])
    BY <1>8, <2>1, ScanTyped DEF ScanCommit
  <2>3. usn' \in [Drive -> Position]
    <3>1. usn \in [Drive -> Position] /\ scan[s].tx \in Transaction
      BY <1>1, <1>3 DEF ScanRecord, Shared
    <3>2. usn' = Merged(usn, scan[s].tx)
      BY <1>8 DEF ScanCommit
    <3>3. QED
      BY <3>1, <3>2, MergedType
  <2>4. told' \in [Drive -> Position]
    <3>1. ASSUME NEW d \in Drive
          PROVE (IF d \in DOMAIN scan[s].tx THEN Larger(told[d], scan[s].tx[d]) ELSE told[d]) \in Position
      BY <1>1, <1>3, TransactionType DEF Larger, ScanRecord, Shared
    <3>2. QED
      BY <1>8, <3>1 DEF ScanCommit
  <2>5. untold' \in SUBSET Drive
    BY <1>1, <1>8 DEF ScanCommit, Shared
  <2>6. QED
    BY <1>1, <1>8, <2>2, <2>3, <2>4, <2>5, TypedNext DEF ScanCommit, Shared
<1>9. CASE ScanPopulate(s)
  <2> DEFINE left == {d \in Drive : scan[s].found[d] = Missing}
             sc == [scan[s] EXCEPT !.pc = IF left = Drive THEN "done" ELSE "store",
                                   !.found = NoScan.found]
  <2>1. ScanFine(sc)
    BY <1>3, IdleTypes DEF ScanFine, ScanRecord
  <2>2. scan' \in [Scanner -> ScanRecord] /\ \A r \in Scanner : ScanFine(scan'[r])
    BY <1>9, <2>1, ScanTyped DEF ScanPopulate
  <2>3. list' \in [Drive -> Position \cup {Missing}] /\ behind' \in SUBSET Drive
    BY <1>1, <1>3, <1>9 DEF ScanPopulate, ScanRecord, Shared
  <2>4. QED
    BY <1>1, <1>9, <2>2, <2>3, TypedNext DEF ScanPopulate, Shared
<1>10. CASE ScanStore(s)
  <2>1. ScanFine([scan[s] EXCEPT !.pc = "done"])
    BY <1>3 DEF ScanFine, ScanRecord
  <2>2. scan' \in [Scanner -> ScanRecord] /\ \A r \in Scanner : ScanFine(scan'[r])
    BY <1>10, <2>1, ScanTyped DEF ScanStore
  <2>3. QED
    BY <1>1, <1>10, <2>2, TypedNext DEF ScanStore, Shared
<1>11. ScanFine(NoScan)
  BY IdleTypes DEF ScanFine
<1>12. CASE ScanTimesOut(s)
  <2>1. scan' \in [Scanner -> ScanRecord] /\ \A r \in Scanner : ScanFine(scan'[r])
    BY <1>11, <1>12, ScanTyped DEF ScanTimesOut
  <2>2. faults' \in 0..MaxFaults
    BY <1>1, <1>12, FaultTyped DEF ScanTimesOut
  <2>3. QED
    BY <1>1, <1>12, <2>1, <2>2, TypedNext DEF ScanTimesOut, Shared
<1>13. CASE ScanFinish(s)
  <2>1. scan' \in [Scanner -> ScanRecord] /\ \A r \in Scanner : ScanFine(scan'[r])
    BY <1>11, <1>13, ScanTyped DEF ScanFinish
  <2>2. gui' \in [inbox : Seq({"needs_full_scan", "finished"}), join : BOOLEAN]
    BY <1>1, <1>13, SignalTyped DEF ScanFinish
  <2>3. QED
    BY <1>1, <1>13, <2>1, <2>2, TypedNext DEF ScanFinish, Shared
<1>14. QED
  BY <1>5, <1>6, <1>7, <1>8, <1>9, <1>10, <1>12, <1>13 DEF Scan

LEMMA InboxTyped ==
  ASSUME Shared, gui.inbox # <<>>
  PROVE  Tail(gui.inbox) \in Seq({"needs_full_scan", "finished"})
BY DEF Shared

LEMMA SlotTyped ==
  ASSUME Typed, Slot
  PROVE  Typed'
<1>1. Shared /\ PollFine(mon) /\ scan \in [Scanner -> ScanRecord]
      /\ \A r \in Scanner : ScanFine(scan[r])
  BY TypedParts
<1>2. CASE HandleFinished
  <2>1. gui' \in [inbox : Seq({"needs_full_scan", "finished"}), join : BOOLEAN]
    BY <1>1, <1>2, InboxTyped DEF HandleFinished, Signalled, Shared
  <2>2. PollFine(mon')
    BY <1>1, <1>2 DEF HandleFinished, PollFine, PollRecord
  <2>3. QED
    BY <1>1, <1>2, <2>1, <2>2, TypedNext DEF HandleFinished, Shared
<1>3. CASE JoinDone
  <2>1. gui' \in [inbox : Seq({"needs_full_scan", "finished"}), join : BOOLEAN]
    BY <1>1, <1>3 DEF JoinDone, Shared
  <2>2. PollFine(mon')
    BY <1>3, IdleTypes DEF JoinDone, PollFine
  <2>3. QED
    BY <1>1, <1>3, <2>1, <2>2, TypedNext DEF JoinDone, Shared
<1>4. ASSUME NEW s \in Scanner, HandleNeeds(s) PROVE Typed'
  <2>1. gui' \in [inbox : Seq({"needs_full_scan", "finished"}), join : BOOLEAN]
    BY <1>1, <1>4, InboxTyped DEF HandleNeeds, Signalled, Shared
  <2>2. \A R \in SUBSET Drive :
          /\ ScanFine([NoScan EXCEPT !.pc = "drive", !.raced = R])
          /\ \A r \in Scanner : ScanFine([scan[r] EXCEPT !.raced = R])
    <3> SUFFICES ASSUME NEW R \in SUBSET Drive
                 PROVE  /\ ScanFine([NoScan EXCEPT !.pc = "drive", !.raced = R])
                        /\ \A r \in Scanner : ScanFine([scan[r] EXCEPT !.raced = R])
      OBVIOUS
    <3>1. ScanFine([NoScan EXCEPT !.pc = "drive", !.raced = R])
      BY IdleTypes DEF ScanFine, ScanRecord
    <3>2. ASSUME NEW r \in Scanner PROVE ScanFine([scan[r] EXCEPT !.raced = R])
      <4>1. scan[r] \in ScanRecord /\ ScanFine(scan[r])
        BY <1>1
      <4>2. QED
        BY <4>1 DEF ScanFine, ScanRecord
    <3>3. QED
      BY <3>1, <3>2
  <2>3. scan' \in [Scanner -> ScanRecord] /\ \A r \in Scanner : ScanFine(scan'[r])
    <3> DEFINE others == {r \in Scanner : Running(r)}
               raced  == IF others = {} THEN {} ELSE Drive
    <3>1. raced \in SUBSET Drive /\ Drive \in SUBSET Drive
      OBVIOUS
    <3>2. scan' = [r \in Scanner |->
                    IF r = s THEN [NoScan EXCEPT !.pc = "drive", !.raced = raced]
                    ELSE IF r \in others THEN [scan[r] EXCEPT !.raced = Drive]
                    ELSE scan[r]]
      BY <1>4 DEF HandleNeeds
    <3> HIDE DEF others, raced
    <3>3. \A r \in Scanner : ScanFine(scan'[r])
      BY <1>1, <2>2, <3>1, <3>2
    <3>4. QED
      BY <3>2, <3>3 DEF ScanFine
  <2>4. QED
    BY <1>1, <1>4, <2>1, <2>3, TypedNext DEF HandleNeeds, Shared
<1>5. QED
  BY <1>2, <1>3, <1>4 DEF Slot

LEMMA StutterTyped == ASSUME Typed, UNCHANGED vars PROVE Typed'
BY TypedParts, TypedNext DEF vars, Shared

\* Every variable keeps its type, and whatever is under way on a drive is under
\* way on one that the program knows (the loops over get_ntfs_drives).
THEOREM DrivesTypeCorrect == Spec => []DrivesTypeOK
<1>1. Typed /\ [Next]_vars => Typed'
  BY VolumeTyped, PollTyped, SlotTyped, ScanStepTyped, StutterTyped DEF Next
<1>2. Typed => DrivesTypeOK
  BY DEF Typed
<1>3. QED
  BY InitTyped, <1>1, <1>2, PTL DEF Spec

-----------------------------------------------------------------------------
(* Reports *)

Reporting == Reported /\ ReportsKeepUp

\* What Typed says in the terms of the functions.
LEMMA Numbers ==
  ASSUME Typed
  PROVE  /\ mon.tx \in Transaction /\ mon.from \in Transaction /\ mon.upto \in Nat
         /\ \A d \in Drive : usn[d] \in Nat /\ told[d] \in Nat /\ vol[d].end \in Nat
         /\ \A d \in DOMAIN mon.tx : d \in Drive /\ mon.tx[d] \in Nat
         /\ \A d \in DOMAIN mon.from : d \in Drive /\ mon.from[d] \in Nat
         /\ mon.at \leq Len(Order) => PollAt \in Drive
         /\ \A s \in Scanner :
              /\ scan[s].tx \in Transaction
              /\ \A d \in DOMAIN scan[s].tx : d \in Drive /\ scan[s].tx[d] \in Nat
              /\ \A d \in Drive : scan[s].found[d] # Missing => scan[s].found[d] \in Nat
              /\ scan[s].at \leq Len(Order) => ScanAt(s) \in Drive
<1>1. Shared /\ mon \in PollRecord /\ scan \in [Scanner -> ScanRecord]
  BY TypedParts DEF PollFine
<1>2. mon.at \leq Len(Order) => PollAt \in Drive
  BY <1>1, DriveAt, LengthType DEF PollAt, PollRecord
<1>3. \A s \in Scanner : scan[s].at \leq Len(Order) => ScanAt(s) \in Drive
  BY <1>1, DriveAt, LengthType DEF ScanAt, ScanRecord
<1>4. /\ mon.tx \in Transaction /\ mon.from \in Transaction /\ mon.upto \in Nat
      /\ \A s \in Scanner : scan[s].tx \in Transaction /\ scan[s].found \in [Drive -> Position \cup {Missing}]
  BY <1>1, PositionType DEF PollRecord, ScanRecord
<1>5. \A d \in Drive : usn[d] \in Nat /\ told[d] \in Nat /\ vol[d].end \in Nat
  BY <1>1, PositionType DEF Shared
<1>6. \A s \in Scanner, d \in Drive : scan[s].found[d] # Missing => scan[s].found[d] \in Nat
  BY <1>4, PositionType
<1>7. QED
  BY <1>2, <1>3, <1>4, <1>5, <1>6, TransactionType, PositionType

LEMMA InitReporting == Init => Reporting
BY IdleTypes, NothingType DEF Init, Reporting, Reported, ReportsKeepUp

\* A poll that begins or ends knows no positions.
LEMMA NothingReported ==
  ASSUME Reporting, mon'.tx = Nothing, mon'.from = Nothing, UNCHANGED <<usn, told, untold>>
  PROVE  Reporting'
BY NothingType DEF Reporting, Reported, ReportsKeepUp

LEMMA SameReported ==
  ASSUME Reporting, mon'.tx = mon.tx, mon'.from = mon.from, UNCHANGED <<usn, told, untold>>
  PROVE  Reporting'
BY DEF Reporting, Reported, ReportsKeepUp

LEMMA PollReporting ==
  ASSUME Typed, Reporting, Poll
  PROVE  Reporting'
<1>1. mon \in PollRecord
  BY TypedParts DEF PollFine
<1>2. /\ Asleep.tx = Nothing /\ Asleep.from = Nothing
      /\ \A b \in BOOLEAN : [Asleep EXCEPT !.stop = b].tx = Nothing
                            /\ [Asleep EXCEPT !.stop = b].from = Nothing
      /\ [Asleep EXCEPT !.pc = "drive"].tx = Nothing /\ [Asleep EXCEPT !.pc = "drive"].from = Nothing
  BY DEF Asleep
<1>3. CASE PollStart
  BY <1>2, <1>3, NothingReported DEF PollStart
<1>4. CASE PollRead
  <2> DEFINE from == With(mon.from, PollAt, usn[PollAt])
  <2>1. PollAt \in Drive /\ usn[PollAt] \in Position
    BY <1>1, <1>4, Numbers, TypedParts, LengthType DEF PollRead, PollEnds, PollRecord, Shared
  <2>2. DOMAIN from = DOMAIN mon.from \cup {PollAt}
        /\ \A d \in DOMAIN from : from[d] = IF d = PollAt THEN usn[PollAt] ELSE mon.from[d]
    <3>1. mon.from \in Transaction
      BY Numbers
    <3>2. DOMAIN from = DOMAIN mon.from \cup {PollAt}
      BY <2>1, <3>1, WithType
    <3>3. \A d \in DOMAIN mon.from \cup {PollAt} :
            from[d] = IF d = PollAt THEN usn[PollAt] ELSE mon.from[d]
      BY DEF With
    <3> HIDE DEF from
    <3>4. QED
      BY <3>2, <3>3
  <2> HIDE DEF from
  <2>3. mon'.from = from /\ mon'.tx = mon.tx /\ UNCHANGED <<usn, told, untold>>
    BY <1>1, <1>4 DEF PollRead, PollRecord, from
  <2>4. QED
    BY <2>1, <2>2, <2>3 DEF Reporting, Reported, ReportsKeepUp
<1>5. CASE PollGivesUp
  BY <1>1, <1>2, <1>5, NothingReported DEF PollGivesUp, GiveUp, PollRecord
<1>6. CASE PollApply
  BY <1>1, <1>6, SameReported DEF PollApply, PollRecord
<1>7. CASE PollSave
  <2> DEFINE tx == With(mon.tx, PollAt, mon.upto)
  <2>1. PollAt \in Drive /\ mon.upto \in Position /\ PollAt \in DOMAIN mon.from
    BY <1>1, <1>7, Numbers, TypedParts DEF PollSave, PollRecord, PollFine, PollAt
  <2>2. DOMAIN tx = DOMAIN mon.tx \cup {PollAt}
    BY <2>1, Numbers, WithType
  <2> HIDE DEF tx
  <2>3. mon'.tx = tx /\ mon'.from = mon.from /\ UNCHANGED <<usn, told, untold>>
    BY <1>1, <1>7 DEF PollSave, PollRecord, tx
  <2>4. QED
    BY <2>1, <2>2, <2>3 DEF Reporting, Reported, ReportsKeepUp
<1>8. CASE PollTimesOut
  BY <1>1, <1>2, <1>8, NothingReported DEF PollTimesOut, PollRecord
<1>9. CASE PollCommit
  <2>1. mon'.tx = Nothing /\ mon'.from = Nothing
    BY <1>1, <1>2, <1>9 DEF PollCommit, PollRecord
  <2>2. ASSUME NEW d \in Drive \ untold' PROVE usn'[d] \leq told'[d]
    <3> d \notin untold /\ d \notin mon.cut
      BY <1>9 DEF PollCommit
    <3>1. usn'[d] = (IF d \in DOMAIN mon.tx THEN mon.tx[d] ELSE usn[d]) /\ told'[d] = Told(d)
      <4>1. usn \in [Drive -> Position] /\ mon.tx \in Transaction
        BY Numbers, TypedParts DEF Shared
      <4>2. usn' = Merged(usn, mon.tx)
        BY <1>9 DEF PollCommit
      <4>3. QED
        BY <1>9, <4>1, <4>2, MergedType DEF PollCommit
    <3>2. CASE d \in DOMAIN mon.tx
      <4>1. mon.from[d] \leq told[d] /\ mon.tx[d] \in Nat /\ told[d] \in Nat
        BY <3>2, Numbers DEF Reporting, Reported
      <4>2. QED
        BY <3>1, <3>2, <4>1, LargerType DEF Told
    <3>3. CASE d \notin DOMAIN mon.tx
      BY <3>1, <3>3 DEF Told, Reporting, ReportsKeepUp
    <3>4. QED
      BY <3>2, <3>3
  <2>3. QED
    BY <2>1, <2>2, NothingType DEF Reporting, Reported, ReportsKeepUp
<1>10. QED
  BY <1>3, <1>4, <1>5, <1>6, <1>7, <1>8, <1>9 DEF Poll

LEMMA ScanReporting ==
  ASSUME Typed, Reporting, NEW s \in Scanner, Scan(s)
  PROVE  Reporting'
<1>1. CASE ScanCommit(s)
  <2>1. UNCHANGED mon
    BY <1>1 DEF ScanCommit
  <2>2. ASSUME NEW d \in Drive
        PROVE  /\ told[d] \leq told'[d] /\ told[d] \in Nat /\ told'[d] \in Nat
               /\ d \notin untold' => usn'[d] \leq told'[d]
    <3>1. /\ usn'[d] = (IF d \in DOMAIN scan[s].tx THEN scan[s].tx[d] ELSE usn[d])
          /\ told'[d] = (IF d \in DOMAIN scan[s].tx THEN Larger(told[d], scan[s].tx[d]) ELSE told[d])
      <4>1. usn \in [Drive -> Position] /\ scan[s].tx \in Transaction
        BY Numbers, TypedParts DEF Shared
      <4>2. usn' = Merged(usn, scan[s].tx)
        BY <1>1 DEF ScanCommit
      <4>3. QED
        BY <1>1, <4>1, <4>2, MergedType DEF ScanCommit
    <3>2. told[d] \in Nat /\ usn[d] \in Nat /\ (d \in DOMAIN scan[s].tx => scan[s].tx[d] \in Nat)
      BY Numbers
    <3>3. told[d] \leq told'[d] /\ told'[d] \in Nat
      BY <3>1, <3>2, LargerType
    <3>4. d \notin untold' => d \notin untold \/ d \in DOMAIN scan[s].tx
      BY <1>1 DEF ScanCommit, MadeUp
    <3>5. CASE d \in DOMAIN scan[s].tx
      BY <3>1, <3>2, <3>3, <3>5, LargerType
    <3>6. CASE d \notin DOMAIN scan[s].tx
      BY <3>1, <3>2, <3>3, <3>4, <3>6 DEF Reporting, ReportsKeepUp
    <3>7. QED
      BY <3>5, <3>6
  <2>3. ASSUME NEW d \in DOMAIN mon.from \ untold' PROVE mon.from[d] \leq told'[d]
    <3>1. d \in Drive /\ mon.from[d] \in Nat
      BY Numbers
    <3>2. CASE d \notin untold
      BY <2>2, <3>1, <3>2 DEF Reporting, Reported
    <3>3. CASE d \in untold
      <4>1. MadeUp(s, d)
        BY <1>1, <3>3 DEF ScanCommit
      <4>2. told'[d] = Larger(told[d], scan[s].tx[d])
        BY <1>1, <3>1, <4>1 DEF ScanCommit, MadeUp
      <4>3. QED
        BY <4>1, <4>2 DEF MadeUp
    <3>4. QED
      BY <3>2, <3>3
  <2>4. QED
    BY <2>1, <2>2, <2>3 DEF Reporting, Reported, ReportsKeepUp
<1>2. CASE ~ScanCommit(s)
  BY <1>2, SameReported
  DEF Scan, ScanRead, ScanSkips, ScanSave, ScanPopulate, ScanStore, ScanTimesOut, ScanFinish
<1>3. QED
  BY <1>1, <1>2

LEMMA OtherReporting ==
  ASSUME Typed, Reporting, VolumeStep \/ Slot \/ UNCHANGED vars
  PROVE  Reporting'
<1>1. mon \in PollRecord
  BY TypedParts DEF PollFine
<1>2. CASE VolumeStep
  BY <1>2, SameReported DEF VolumeStep, Change, Trim, Remove
<1>3. CASE JoinDone
  BY <1>3, NothingReported DEF JoinDone, Asleep
<1>4. CASE HandleFinished
  BY <1>1, <1>4, SameReported DEF HandleFinished, PollRecord
<1>5. ASSUME NEW s \in Scanner, HandleNeeds(s) PROVE Reporting'
  BY <1>5, SameReported DEF HandleNeeds
<1>6. CASE UNCHANGED vars
  BY <1>6, SameReported DEF vars
<1>7. QED
  BY <1>2, <1>3, <1>4, <1>5, <1>6 DEF Slot

\* USNMonitorThread._poll and _run_mft_scan: no drive's position passes a change
\* that was neither reported to the index panel nor read by a full scan, however
\* many drives a poll goes through and wherever it ends, except on drives of
\* which a poll applied only a part and saved the new position all the same
\* (scanner.py 501-503, 569-570; mft_scanner.py 960-968, 1036-1039), until a
\* scan makes up for it.
THEOREM ReportsAreComplete == Spec => []ReportsKeepUp
<1>1. Typed /\ [Next]_vars => Typed'
  BY VolumeTyped, PollTyped, SlotTyped, ScanStepTyped, StutterTyped DEF Next
<1>2. Typed /\ Reporting /\ [Next]_vars => Reporting'
  BY PollReporting, ScanReporting, OtherReporting DEF Next
<1>3. Reporting => ReportsKeepUp
  BY DEF Reporting
<1>4. QED
  BY InitTyped, InitReporting, <1>1, <1>2, <1>3, PTL DEF Spec

-----------------------------------------------------------------------------
(* Positions and the list *)

\* A poll moves no position past a bound of all that it knows, except that it
\* then has the end of its range.
LEMMA PollAtMost ==
  ASSUME Typed, Poll, NEW d \in Drive, NEW n \in Nat, AtMost(usn, mon, d, n),
         PollApply /\ d = PollAt => mon.upto \leq n
  PROVE  AtMost(usn', mon', d, n)
<1>1. mon \in PollRecord /\ usn \in [Drive -> Position]
  BY TypedParts DEF PollFine, Shared
<1>2. /\ DOMAIN Asleep.tx = {} /\ DOMAIN Asleep.from = {} /\ Asleep.pc = "sleep"
      /\ \A b \in BOOLEAN : LET m == [Asleep EXCEPT !.stop = b] IN
           DOMAIN m.tx = {} /\ DOMAIN m.from = {} /\ m.pc = "sleep"
      /\ LET m == [Asleep EXCEPT !.pc = "drive"] IN
           DOMAIN m.tx = {} /\ DOMAIN m.from = {} /\ m.pc = "drive"
  BY NothingType DEF Asleep
<1>3. CASE PollStart
  BY <1>2, <1>3 DEF PollStart, AtMost
<1>4. CASE PollRead
  <2> DEFINE from == With(mon.from, PollAt, usn[PollAt])
  <2>1. DOMAIN from = DOMAIN mon.from \cup {PollAt}
        /\ \A x \in DOMAIN from : from[x] = IF x = PollAt THEN usn[PollAt] ELSE mon.from[x]
    BY DEF With
  <2> HIDE DEF from
  <2>2. mon'.from = from /\ mon'.tx = mon.tx /\ mon'.pc = "apply" /\ UNCHANGED usn
    BY <1>1, <1>4 DEF PollRead, PollRecord, from
  <2>3. QED
    BY <2>1, <2>2 DEF AtMost
<1>5. CASE PollGivesUp
  BY <1>1, <1>2, <1>5 DEF PollGivesUp, GiveUp, PollRecord, AtMost
<1>6. CASE PollApply
  <2>1. /\ mon'.at = mon.at /\ mon'.tx = mon.tx /\ mon'.from = mon.from
        /\ mon'.upto = mon.upto /\ mon'.pc = "save" /\ UNCHANGED usn
    BY <1>1, <1>6 DEF PollApply, PollRecord
  <2>2. QED
    BY <1>1, <1>6, <2>1 DEF PollRecord, AtMost, PollAt
<1>7. CASE PollSave
  <2> DEFINE tx == With(mon.tx, PollAt, mon.upto)
  <2>1. DOMAIN tx = DOMAIN mon.tx \cup {PollAt}
        /\ \A x \in DOMAIN tx : tx[x] = IF x = PollAt THEN mon.upto ELSE mon.tx[x]
    BY DEF With
  <2> HIDE DEF tx
  <2>2. mon'.tx = tx /\ mon'.from = mon.from /\ mon'.pc = "drive" /\ UNCHANGED usn /\ mon.pc = "save"
    BY <1>1, <1>7 DEF PollSave, PollRecord, tx
  <2>3. QED
    BY <2>1, <2>2 DEF AtMost, PollAt
<1>8. CASE PollTimesOut
  BY <1>1, <1>2, <1>8 DEF PollTimesOut, PollRecord, AtMost
<1>9. CASE PollCommit
  <2>1. mon' = [Asleep EXCEPT !.stop = mon.stop] /\ mon.stop \in BOOLEAN
    BY <1>1, <1>9 DEF PollCommit, PollRecord
  <2>2. usn'[d] = IF d \in DOMAIN mon.tx THEN mon.tx[d] ELSE usn[d]
    <3>1. mon.tx \in Transaction
      BY Numbers
    <3>2. usn' = Merged(usn, mon.tx)
      BY <1>9 DEF PollCommit
    <3>3. QED
      BY <1>1, <3>1, <3>2, MergedType
  <2>3. QED
    BY <1>2, <2>1, <2>2 DEF AtMost
<1>10. QED
  BY <1>3, <1>4, <1>5, <1>6, <1>7, <1>8, <1>9 DEF Poll

LEMMA SlotAtMost ==
  ASSUME Typed, Slot, NEW d \in Drive, NEW n \in Nat, AtMost(usn, mon, d, n)
  PROVE  AtMost(usn', mon', d, n)
<1>1. mon \in PollRecord
  BY TypedParts DEF PollFine
<1>2. CASE HandleFinished
  BY <1>1, <1>2 DEF HandleFinished, PollRecord, AtMost
<1>3. CASE JoinDone
  BY <1>3, IdleTypes, NothingType DEF JoinDone, AtMost
<1>4. ASSUME NEW s \in Scanner, HandleNeeds(s) PROVE AtMost(usn', mon', d, n)
  BY <1>4 DEF HandleNeeds, AtMost
<1>5. QED
  BY <1>2, <1>3, <1>4 DEF Slot

\* A larger bound is a bound.
LEMMA AtMostGrows ==
  ASSUME Typed, NEW d \in Drive, NEW m \in Nat, NEW n \in Nat, m \leq n, AtMost(usn, mon, d, m)
  PROVE  AtMost(usn, mon, d, n)
BY Numbers DEF AtMost

LEMMA InitCovering == Init => Covering
<1> SUFFICES ASSUME Init PROVE Covering
  OBVIOUS
<1>1. mon = Asleep /\ \A s \in Scanner : scan[s] = NoScan
  BY DEF Init
<1>2. \A d \in Drive : AtMost(usn, mon, d, 0)
  BY <1>1, IdleTypes, NothingType DEF Init, AtMost
<1>3. \A d \in Drive : list[d] = 0 /\ vol[d].end = 0
  BY DEF Init
<1>4. QED
  BY <1>1, <1>2, <1>3, IdleTypes, NothingType, MissingIsNoPosition
  DEF Covering, Reached, Saves, Alone, Ahead, Covered, Replaces, Running

LEMMA StutterCovering == ASSUME Covering, UNCHANGED vars PROVE Covering'
BY DEF vars, Covering, Reached, Saves, Alone, Ahead, Covered, Replaces, Running, AtMost, PollAt

LEMMA VolumeCovering ==
  ASSUME Typed, Covering, VolumeStep
  PROVE  Covering'
<1>1. UNCHANGED <<usn, list, mon, scan, gui, told, behind, untold>>
  BY DEF VolumeStep, Change, Trim, Remove
<1>2. ASSUME NEW d \in Drive PROVE vol[d].end \leq vol'[d].end /\ vol'[d].end \in Nat
  <2>1. vol[d].end \in Nat /\ vol \in [Drive -> [on : BOOLEAN, end : Position, low : Position]]
    BY Numbers, TypedParts DEF Shared
  <2>2. PICK x \in Drive : Change(x) \/ Trim(x) \/ Remove(x)
    BY DEF VolumeStep
  <2>3. QED
    BY <2>1, <2>2 DEF Change, Trim, Remove
<1>3. \A d \in Drive : AtMost(usn, mon, d, vol'[d].end)
  BY <1>2, AtMostGrows, Numbers DEF Covering, Reached
<1>4. mon.pc = "apply" => mon.upto \leq vol'[PollAt].end
  <2> SUFFICES ASSUME mon.pc = "apply" PROVE mon.upto \leq vol'[PollAt].end
    OBVIOUS
  <2>1. PollAt \in Drive
    BY Numbers, TypedParts DEF PollFine
  <2>2. QED
    BY <1>2, <2>1, Numbers DEF Covering, Reached
<1>5. \A s \in Scanner, d \in Drive : scan[s].found[d] # Missing => scan[s].found[d] \leq vol'[d].end
  BY <1>2, Numbers DEF Covering, Reached
<1>6. Reached'
  BY <1>1, <1>3, <1>4, <1>5 DEF Reached, PollAt
<1>7. QED
  BY <1>1, <1>6 DEF Covering, Saves, Alone, Ahead, Covered, Replaces, Running

\* What a poll does to the scans' records.
LEMMA PollRaces ==
  ASSUME Typed, Poll, NEW s \in Scanner
  PROVE  /\ scan'[s].pc = scan[s].pc /\ scan'[s].found = scan[s].found /\ scan'[s].tx = scan[s].tx
         /\ scan[s].raced \subseteq scan'[s].raced /\ scan'[s].raced \subseteq Drive
         /\ PollApply /\ mon.from[PollAt] # mon.upto /\ Running(s) => PollAt \in scan'[s].raced
<1>1. scan[s] \in ScanRecord
  BY TypedParts
<1>2. CASE PollApply
  <2>1. PollAt \in Drive
    BY <1>2, Numbers, TypedParts DEF PollApply, PollFine
  <2>2. CASE mon.from[PollAt] = mon.upto
    BY <1>1, <1>2, <2>2 DEF PollApply, ScanRecord
  <2>3. CASE mon.from[PollAt] # mon.upto
    <3>1. scan'[s] = IF Running(s) THEN [scan[s] EXCEPT !.raced = @ \cup {PollAt}] ELSE scan[s]
      BY <1>2, <2>3 DEF PollApply, RacedBy
    <3>2. QED
      BY <1>1, <2>1, <3>1 DEF ScanRecord
  <2>4. QED
    BY <2>2, <2>3
<1>3. CASE ~PollApply
  <2>1. UNCHANGED scan
    BY <1>3 DEF Poll, PollStart, PollRead, PollGivesUp, GiveUp, PollSave, PollTimesOut, PollCommit
  <2>2. QED
    BY <1>1, <1>3, <2>1 DEF ScanRecord
<1>4. QED
  BY <1>2, <1>3

LEMMA PollReached ==
  ASSUME Typed, Covering, Poll
  PROVE  Reached'
<1>1. UNCHANGED vol
  BY DEF Poll, PollStart, PollRead, PollGivesUp, GiveUp, PollApply, PollSave, PollTimesOut, PollCommit
<1>2. mon \in PollRecord
  BY TypedParts DEF PollFine
<1>3. PollApply => mon.upto \leq vol[PollAt].end
  BY DEF PollApply, Covering, Reached
<1>4. \A d \in Drive : AtMost(usn', mon', d, vol[d].end)
  BY <1>3, PollAtMost, Numbers DEF Covering, Reached
<1>5. mon'.pc = "apply" => mon'.upto \leq vol[PollAt'].end
  <2> SUFFICES ASSUME mon'.pc = "apply" PROVE mon'.upto \leq vol[PollAt'].end
    OBVIOUS
  <2>1. PollRead
    BY <1>2 DEF Poll, PollStart, PollGivesUp, PollApply, PollSave, PollTimesOut, PollCommit,
                Asleep, PollRecord
  <2>2. mon'.upto = vol[PollAt].end /\ mon'.at = mon.at /\ PollAt \in Drive
    BY <1>2, <2>1, Numbers, LengthType DEF PollRead, PollEnds, PollRecord
  <2>3. PollAt' = PollAt /\ vol[PollAt].end \in Nat
    BY <2>2, Numbers DEF PollAt
  <2>4. QED
    BY <2>2, <2>3
<1>6. \A s \in Scanner, d \in Drive : scan'[s].found[d] # Missing => scan'[s].found[d] \leq vol[d].end
  BY PollRaces DEF Covering, Reached
<1>7. QED
  BY <1>1, <1>4, <1>5, <1>6 DEF Reached

LEMMA PollCovering ==
  ASSUME Typed, Covering, Poll
  PROVE  Covering'
<1>1. Saves'
  BY PollRaces DEF Covering, Saves
<1>2. Alone'
  <2>1. \A s \in Scanner : Running(s)' <=> Running(s)
    BY PollRaces DEF Running
  <2>2. \A s \in Scanner : scan[s].raced = Drive => scan'[s].raced = Drive
    BY PollRaces
  <2>3. QED
    BY <2>1, <2>2 DEF Covering, Alone
<1>3. Ahead'
  <2> SUFFICES ASSUME NEW s \in Scanner, NEW d \in Drive,
                      Running(s)', d \notin scan'[s].raced, scan'[s].found[d] # Missing
               PROVE  AtMost(usn', mon', d, scan'[s].found[d])
    BY DEF Ahead
  <2>1. Running(s) /\ d \notin scan[s].raced /\ scan'[s].found[d] = scan[s].found[d]
    BY PollRaces DEF Running
  <2>2. scan[s].found[d] \in Nat /\ AtMost(usn, mon, d, scan[s].found[d])
    BY <2>1, Numbers DEF Covering, Ahead
  <2>3. PollApply /\ d = PollAt => mon.upto \leq scan[s].found[d]
    <3> SUFFICES ASSUME PollApply, d = PollAt PROVE mon.upto \leq scan[s].found[d]
      OBVIOUS
    <3>1. mon.from[PollAt] = mon.upto
      BY <2>1, PollRaces
    <3>2. PollAt \in DOMAIN mon.from
      BY TypedParts DEF PollApply, PollFine, PollAt
    <3>3. QED
      BY <2>2, <3>1, <3>2 DEF AtMost
  <2>4. QED
    BY <2>1, <2>2, <2>3, PollAtMost
<1>4. Covered'
  <2> SUFFICES ASSUME ~Replaces', NEW d \in Drive \ behind'
               PROVE  list'[d] # Missing /\ AtMost(usn', mon', d, list'[d])
    BY DEF Covered
  <2>1. ~Replaces
    BY PollRaces DEF Replaces
  <2>2. behind \subseteq behind'
    BY DEF Poll, PollStart, PollRead, PollGivesUp, GiveUp, PollApply, PollSave, PollTimesOut, PollCommit
  <2>3. list[d] # Missing /\ AtMost(usn, mon, d, list[d]) /\ list[d] \in Nat
    BY <2>1, <2>2, TypedParts, PositionType DEF Covering, Covered, Shared
  <2>4. CASE PollApply
    <3>1. /\ PollAt \in Drive /\ PollAt \in DOMAIN mon.from
          /\ mon.from[PollAt] \in Nat /\ mon.upto \in Nat
      BY <2>4, TypedParts, Numbers DEF PollApply, PollFine, PollAt
    <3>2. \/ list'[d] = list[d] /\ (d = PollAt => mon.from[d] = mon.upto)
          \/ d = PollAt /\ list'[d] = Applied(list[d], mon.from[d], mon.upto)
      BY <2>4, <3>1, TypedParts DEF PollApply, Shared
    <3>3. list'[d] # Missing /\ list'[d] \in Nat /\ list[d] \leq list'[d]
          /\ (d = PollAt => mon.upto \leq list'[d])
      <4>1. CASE list'[d] = list[d] /\ (d = PollAt => mon.from[d] = mon.upto)
        BY <2>3, <3>1, <4>1 DEF AtMost
      <4>2. CASE d = PollAt /\ list'[d] = Applied(list[d], mon.from[d], mon.upto)
        <5>1. mon.from[d] \leq list[d]
          BY <2>3, <3>1, <4>2 DEF AtMost
        <5>2. list'[d] = Larger(list[d], mon.upto)
          BY <2>3, <3>1, <4>2, <5>1 DEF Applied
        <5>3. QED
          BY <2>3, <3>1, <5>2, LargerType, MissingIsNoPosition
      <4>3. QED
        BY <3>2, <4>1, <4>2
    <3>4. AtMost(usn, mon, d, list'[d])
      BY <2>3, <3>3, AtMostGrows
    <3>5. QED
      BY <3>3, <3>4, PollAtMost
  <2>5. CASE ~PollApply
    <3>1. UNCHANGED list
      BY <2>5 DEF Poll, PollStart, PollRead, PollGivesUp, GiveUp, PollSave, PollTimesOut, PollCommit
    <3>2. QED
      BY <2>3, <2>5, <3>1, PollAtMost
  <2>6. QED
    BY <2>4, <2>5
<1>5. QED
  BY <1>1, <1>2, <1>3, <1>4, PollReached DEF Covering

LEMMA SlotCovering ==
  ASSUME Typed, Covering, Slot
  PROVE  Covering'
<1>1. UNCHANGED <<vol, usn, list, behind>>
  BY DEF Slot, HandleFinished, JoinDone, HandleNeeds
<1>2. \A d \in Drive : AtMost(usn', mon', d, vol[d].end)
  BY SlotAtMost, Numbers DEF Covering, Reached
<1>3. mon'.pc = "apply" => mon'.upto = mon.upto /\ mon'.at = mon.at /\ mon.pc = "apply"
  <2>1. mon \in PollRecord
    BY TypedParts DEF PollFine
  <2>2. CASE HandleFinished
    BY <2>1, <2>2 DEF HandleFinished, PollRecord
  <2>3. CASE JoinDone
    BY <2>3, IdleTypes DEF JoinDone
  <2>4. ASSUME NEW s \in Scanner, HandleNeeds(s) PROVE UNCHANGED mon
    BY <2>4 DEF HandleNeeds
  <2>5. QED
    BY <2>2, <2>3, <2>4 DEF Slot
<1>4. \A s \in Scanner :
        \/ /\ scan'[s].pc = scan[s].pc /\ scan'[s].found = scan[s].found /\ scan'[s].tx = scan[s].tx
           /\ scan'[s].raced = scan[s].raced \/ scan'[s].raced = Drive
        \/ /\ scan[s].pc = "off" /\ scan'[s].pc = "drive" /\ scan'[s].tx = Nothing
           /\ \A d \in Drive : scan'[s].found[d] = Missing
  <2>1. CASE UNCHANGED scan
    BY <2>1
  <2>2. ASSUME NEW q \in Scanner, HandleNeeds(q), NEW s \in Scanner
        PROVE  \/ /\ scan'[s].pc = scan[s].pc /\ scan'[s].found = scan[s].found
                  /\ scan'[s].tx = scan[s].tx
                  /\ scan'[s].raced = scan[s].raced \/ scan'[s].raced = Drive
               \/ /\ scan[s].pc = "off" /\ scan'[s].pc = "drive" /\ scan'[s].tx = Nothing
                  /\ \A d \in Drive : scan'[s].found[d] = Missing
    <3>1. scan[s] \in ScanRecord
      BY TypedParts
    <3>2. CASE s = q
      <4>1. PICK R : scan'[s] = [NoScan EXCEPT !.pc = "drive", !.raced = R]
        BY <2>2, <3>2 DEF HandleNeeds
      <4>2. scan'[s].pc = "drive" /\ scan'[s].tx = Nothing /\ \A d \in Drive : scan'[s].found[d] = Missing
        BY <4>1 DEF NoScan
      <4>3. QED
        BY <2>2, <3>2, <4>2 DEF HandleNeeds, Running
    <3>3. CASE s # q
      <4>1. scan'[s] = [scan[s] EXCEPT !.raced = Drive] \/ scan'[s] = scan[s]
        BY <2>2, <3>3 DEF HandleNeeds
      <4>2. QED
        BY <3>1, <4>1 DEF ScanRecord
    <3>4. QED
      BY <3>2, <3>3
  <2>3. QED
    BY <2>1, <2>2 DEF Slot, HandleFinished, JoinDone
<1>5. Reached'
  <2>1. PollAt' = PollAt \/ mon'.pc # "apply"
    BY <1>3 DEF PollAt
  <2>2. \A s \in Scanner, d \in Drive : scan'[s].found[d] # Missing => scan'[s].found[d] \leq vol[d].end
    BY <1>4 DEF Covering, Reached
  <2>3. QED
    BY <1>1, <1>2, <1>3, <2>1, <2>2 DEF Covering, Reached
<1>6. Saves'
  BY <1>4, NothingType DEF Covering, Saves
<1>7. Alone'
  <2>1. CASE UNCHANGED scan
    BY <2>1 DEF Covering, Alone, Running
  <2>2. ASSUME NEW q \in Scanner, HandleNeeds(q) PROVE Alone'
    <3> DEFINE others == {r \in Scanner : Running(r)}
               raced  == IF others = {} THEN {} ELSE Drive
    <3>1. \A r \in Scanner : scan'[r] = IF r = q THEN [NoScan EXCEPT !.pc = "drive", !.raced = raced]
                    ELSE IF r \in others THEN [scan[r] EXCEPT !.raced = Drive]
                    ELSE scan[r]
      BY <2>2 DEF HandleNeeds
    <3>2. scan'[q].raced = raced
      BY <3>1 DEF NoScan
    <3>3. ASSUME NEW r \in Scanner, r # q, Running(r)' PROVE r \in others /\ scan'[r].raced = Drive
      <4>1. scan[r] \in ScanRecord
        BY TypedParts
      <4>2. Running(r)
        BY <3>1, <3>3, <4>1 DEF Running, ScanRecord
      <4>3. scan'[r] = [scan[r] EXCEPT !.raced = Drive]
        BY <3>1, <3>3, <4>2
      <4>4. QED
        BY <4>1, <4>2, <4>3 DEF ScanRecord
    <3>4. (\E r \in Scanner : r # q /\ Running(r)') => scan'[q].raced = Drive
      BY <3>2, <3>3
    <3>5. QED
      BY <3>3, <3>4 DEF Alone
  <2>3. QED
    BY <2>1, <2>2 DEF Slot, HandleFinished, JoinDone
<1>8. Ahead'
  <2> SUFFICES ASSUME NEW s \in Scanner, NEW d \in Drive,
                      Running(s)', d \notin scan'[s].raced, scan'[s].found[d] # Missing
               PROVE  AtMost(usn', mon', d, scan'[s].found[d])
    BY DEF Ahead
  <2>1. Running(s) /\ d \notin scan[s].raced /\ scan'[s].found[d] = scan[s].found[d]
    BY <1>4 DEF Running
  <2>2. QED
    BY <2>1, SlotAtMost, Numbers DEF Covering, Ahead
<1>9. Covered'
  <2>1. Replaces' <=> Replaces
    BY <1>4 DEF Replaces
  <2>2. \A d \in Drive : list[d] # Missing => list[d] \in Nat
    BY TypedParts, PositionType DEF Shared
  <2>3. QED
    BY <1>1, <2>1, <2>2, SlotAtMost DEF Covering, Covered
<1>10. QED
  BY <1>5, <1>6, <1>7, <1>8, <1>9 DEF Covering

\* What a step of a scan does to its own record and leaves of the others.
LEMMA ScanRest ==
  ASSUME Typed, NEW s \in Scanner, Scan(s)
  PROVE  /\ UNCHANGED <<vol, mon>>
         /\ \A r \in Scanner \ {s} : scan'[r] = scan[r]
         /\ scan'[s].raced = scan[s].raced \/ scan'[s].pc = "off"
         /\ scan[s].pc # "off"
         /\ ~ScanCommit(s) => UNCHANGED usn
         /\ ~ScanPopulate(s) => UNCHANGED <<list, behind>>
<1>1. scan[s] \in ScanRecord /\ scan \in [Scanner -> ScanRecord]
  BY TypedParts
<1>2. UNCHANGED <<vol, mon>> /\ \A r \in Scanner \ {s} : scan'[r] = scan[r]
  BY <1>1 DEF Scan, ScanRead, ScanSkips, ScanSave, ScanCommit, ScanPopulate, ScanStore,
              ScanTimesOut, ScanFinish, Step
<1>3. ~ScanCommit(s) => UNCHANGED usn
  BY DEF Scan, ScanRead, ScanSkips, ScanSave, ScanPopulate, ScanStore, ScanTimesOut, ScanFinish
<1>4. ~ScanPopulate(s) => UNCHANGED <<list, behind>>
  BY DEF Scan, ScanRead, ScanSkips, ScanSave, ScanCommit, ScanStore, ScanTimesOut, ScanFinish
<1>5. scan[s].pc # "off"
  BY DEF Scan, ScanRead, ScanReads, ScanSkips, ScanSave, ScanCommit, ScanPopulate, ScanStore,
         ScanTimesOut, ScanFinish
<1>6. scan'[s].raced = scan[s].raced \/ scan'[s].pc = "off"
  <2>1. CASE ScanTimesOut(s) \/ ScanFinish(s)
    BY <1>1, <2>1, IdleTypes DEF ScanTimesOut, ScanFinish, Step
  <2>2. CASE ScanRead(s)
    BY <1>1, <2>2 DEF ScanRead, Step, ScanRecord
  <2>3. CASE ScanSkips(s)
    BY <1>1, <2>3 DEF ScanSkips, Step, ScanRecord
  <2>4. CASE ScanSave(s)
    BY <1>1, <2>4 DEF ScanSave, Step, ScanRecord
  <2>5. CASE ScanCommit(s)
    BY <1>1, <2>5 DEF ScanCommit, Step, ScanRecord
  <2>6. CASE ScanPopulate(s)
    BY <1>1, <2>6 DEF ScanPopulate, Step, ScanRecord
  <2>7. CASE ScanStore(s)
    BY <1>1, <2>7 DEF ScanStore, Step, ScanRecord
  <2>8. QED
    BY <2>1, <2>2, <2>3, <2>4, <2>5, <2>6, <2>7 DEF Scan
<1>7. QED
  BY <1>2, <1>3, <1>4, <1>5, <1>6

\* What a step of a scan does to what it found and saved.
LEMMA ScanFound ==
  ASSUME Typed, NEW s \in Scanner, Scan(s)
  PROVE  \/ /\ scan'[s].found = scan[s].found /\ scan'[s].tx = scan[s].tx
            /\ scan'[s].pc # "populate"
         \/ /\ ScanRead(s)
            /\ scan'[s].tx = scan[s].tx /\ scan'[s].pc = "save" /\ ScanAt(s) \in Drive
            /\ scan'[s].found = [scan[s].found EXCEPT ![ScanAt(s)] = vol[ScanAt(s)].end]
         \/ /\ ScanSave(s)
            /\ scan'[s].found = scan[s].found /\ scan'[s].pc = "drive" /\ ScanAt(s) \in Drive
            /\ scan[s].found[ScanAt(s)] # Missing
            /\ scan'[s].tx = With(scan[s].tx, ScanAt(s), scan[s].found[ScanAt(s)])
         \/ /\ ScanCommit(s)
            /\ scan'[s].found = scan[s].found /\ scan'[s].pc = "populate"
            /\ scan'[s].tx = Nothing
         \/ /\ scan'[s].pc # "populate" /\ scan'[s].tx = Nothing
            /\ \A d \in Drive : scan'[s].found[d] = Missing
<1>1. scan[s] \in ScanRecord /\ scan \in [Scanner -> ScanRecord] /\ ScanFine(scan[s])
  BY TypedParts
<1>2. CASE ScanRead(s)
  <2>1. ScanAt(s) \in Drive
    BY <1>2, Numbers DEF ScanRead, ScanReads
  <2>2. QED
    BY <1>1, <1>2, <2>1 DEF ScanRead, Step, ScanRecord
<1>3. CASE ScanSkips(s)
  BY <1>1, <1>3 DEF ScanSkips, ScanReads, Step, ScanRecord
<1>4. CASE ScanSave(s)
  <2>1. ScanAt(s) \in Drive /\ scan[s].found[ScanAt(s)] # Missing
    BY <1>1, <1>4, Numbers DEF ScanSave, ScanFine, ScanAt
  <2> DEFINE tx == With(scan[s].tx, ScanAt(s), scan[s].found[ScanAt(s)])
  <2>2. scan'[s] = [scan[s] EXCEPT !.pc = "drive", !.at = @ + 1, !.tx = tx]
    BY <1>1, <1>4 DEF ScanSave, Step, ScanPosition
  <2> HIDE DEF tx
  <2>3. scan'[s].found = scan[s].found /\ scan'[s].pc = "drive" /\ scan'[s].tx = tx
    BY <1>1, <2>2 DEF ScanRecord
  <2>4. QED
    BY <1>4, <2>1, <2>3 DEF tx
<1>5. CASE ScanCommit(s)
  BY <1>1, <1>5 DEF ScanCommit, Step, ScanRecord
<1>6. CASE ScanPopulate(s)
  <2>1. scan[s].tx = Nothing
    BY <1>1, <1>6 DEF ScanPopulate, ScanFine
  <2>2. \A d \in Drive : NoScan.found[d] = Missing
    BY IdleTypes
  <2>3. /\ scan'[s].tx = scan[s].tx /\ scan'[s].found = NoScan.found
        /\ scan'[s].pc # "populate"
    BY <1>1, <1>6 DEF ScanPopulate, Step, ScanRecord
  <2>4. QED
    BY <2>1, <2>2, <2>3
<1>7. CASE ScanStore(s)
  BY <1>1, <1>7 DEF ScanStore, Step, ScanRecord
<1>8. CASE ScanTimesOut(s) \/ ScanFinish(s)
  BY <1>1, <1>8, IdleTypes DEF ScanTimesOut, ScanFinish, Step
<1>9. QED
  BY <1>2, <1>3, <1>4, <1>5, <1>6, <1>7, <1>8 DEF Scan

\* What a scan commits is among what it found.
LEMMA ScanAtMost ==
  ASSUME Typed, NEW s \in Scanner, Scan(s), NEW d \in Drive, NEW n \in Nat,
         AtMost(usn, mon, d, n),
         ScanCommit(s) /\ d \in DOMAIN scan[s].tx => scan[s].tx[d] \leq n
  PROVE  AtMost(usn', mon', d, n)
<1>1. UNCHANGED mon
  BY ScanRest
<1>2. CASE ScanCommit(s)
  <2>1. usn \in [Drive -> Position] /\ scan[s].tx \in Transaction /\ usn' = Merged(usn, scan[s].tx)
    BY <1>2, Numbers, TypedParts DEF ScanCommit, Shared
  <2>2. usn'[d] = IF d \in DOMAIN scan[s].tx THEN scan[s].tx[d] ELSE usn[d]
    BY <2>1, MergedType
  <2>3. QED
    BY <1>1, <1>2, <2>2 DEF AtMost
<1>3. CASE ~ScanCommit(s)
  BY <1>1, <1>3, ScanRest DEF AtMost
<1>4. QED
  BY <1>2, <1>3

LEMMA ScanReached ==
  ASSUME Typed, Covering, NEW s \in Scanner, Scan(s)
  PROVE  Reached'
<1>1. UNCHANGED <<vol, mon>>
  BY ScanRest
<1>2. ASSUME NEW d \in Drive PROVE AtMost(usn', mon', d, vol[d].end)
  <2>1. d \in DOMAIN scan[s].tx => scan[s].tx[d] \leq vol[d].end
    BY Numbers DEF Covering, Reached, Saves
  <2>2. QED
    BY <2>1, ScanAtMost, Numbers DEF Covering, Reached
<1>3. ASSUME NEW r \in Scanner, NEW d \in Drive, scan'[r].found[d] # Missing
      PROVE  scan'[r].found[d] \leq vol[d].end
  <2>1. CASE r # s
    BY <1>3, <2>1, ScanRest DEF Covering, Reached
  <2>2. CASE r = s
    <3>1. scan[s].found \in [Drive -> Position \cup {Missing}] /\ vol[d].end \in Nat
      BY TypedParts, Numbers DEF ScanRecord
    <3>2. scan'[s].found[d] = scan[s].found[d] \/ scan'[s].found[d] = vol[d].end
          \/ scan'[s].found[d] = Missing
      BY <3>1, ScanFound
    <3>3. QED
      BY <1>3, <2>2, <3>1, <3>2 DEF Covering, Reached
  <2>3. QED
    BY <2>1, <2>2
<1>4. QED
  BY <1>1, <1>2, <1>3 DEF Covering, Reached, PollAt

LEMMA ScanSaves ==
  ASSUME Typed, Covering, NEW s \in Scanner, Scan(s)
  PROVE  Saves'
<1> SUFFICES ASSUME NEW r \in Scanner, NEW d \in DOMAIN scan'[r].tx
             PROVE  scan'[r].found[d] # Missing /\ scan'[r].tx[d] \leq scan'[r].found[d]
  BY DEF Saves
<1>1. CASE r # s
  BY <1>1, ScanRest DEF Covering, Saves
<1>2. CASE r = s
  <2>1. scan[s].found \in [Drive -> Position \cup {Missing}]
    BY TypedParts DEF ScanRecord
  <2>2. CASE scan'[s].found = scan[s].found /\ scan'[s].tx = scan[s].tx
    BY <1>2, <2>2 DEF Covering, Saves
  <2>3. CASE scan'[s].tx = Nothing
    BY <1>2, <2>3, NothingType
  <2>4. CASE /\ scan'[s].tx = scan[s].tx /\ ScanAt(s) \in Drive
             /\ scan'[s].found = [scan[s].found EXCEPT ![ScanAt(s)] = vol[ScanAt(s)].end]
    <3>1. d \in Drive /\ scan[s].found[d] # Missing /\ scan[s].tx[d] \leq scan[s].found[d]
          /\ scan[s].tx[d] \in Nat /\ scan[s].found[d] \in Nat
      BY <1>2, <2>4, Numbers DEF Covering, Saves
    <3>2. vol[d].end \in Nat /\ scan[s].found[d] \leq vol[d].end
      BY <3>1, Numbers DEF Covering, Reached
    <3>3. scan'[s].found[d] = scan[s].found[d] \/ scan'[s].found[d] = vol[d].end
      BY <2>1, <2>4, <3>1
    <3>4. QED
      BY <1>2, <2>4, <3>1, <3>2, <3>3, MissingIsNoPosition
  <2>5. CASE /\ scan'[s].found = scan[s].found /\ ScanAt(s) \in Drive
             /\ scan[s].found[ScanAt(s)] # Missing
             /\ scan'[s].tx = With(scan[s].tx, ScanAt(s), scan[s].found[ScanAt(s)])
    <3>1. d \in DOMAIN scan[s].tx \cup {ScanAt(s)}
          /\ scan'[s].tx[d] = IF d = ScanAt(s) THEN scan[s].found[ScanAt(s)] ELSE scan[s].tx[d]
      BY <1>2, <2>5 DEF With
    <3>2. QED
      BY <1>2, <2>5, <3>1, Numbers DEF Covering, Saves
  <2>6. QED
    BY <2>2, <2>3, <2>4, <2>5, ScanFound
<1>3. QED
  BY <1>1, <1>2

LEMMA ScanAlone ==
  ASSUME Typed, Covering, NEW s \in Scanner, Scan(s)
  PROVE  Alone'
<1>1. \A r \in Scanner : Running(r)' => Running(r) /\ scan'[r].raced = scan[r].raced
  BY ScanRest DEF Running
<1>2. QED
  BY <1>1 DEF Covering, Alone

LEMMA ScanAhead ==
  ASSUME Typed, Covering, NEW s \in Scanner, Scan(s)
  PROVE  Ahead'
<1> SUFFICES ASSUME NEW r \in Scanner, NEW d \in Drive,
                    Running(r)', d \notin scan'[r].raced, scan'[r].found[d] # Missing
             PROVE  AtMost(usn', mon', d, scan'[r].found[d])
  BY DEF Ahead
<1>1. Running(s)
  BY ScanRest DEF Running
<1>2. CASE r # s
  <2>1. scan'[r] = scan[r] /\ Running(r)
    BY <1>2, ScanRest DEF Running
  <2>2. scan[r].raced = Drive
    BY <1>1, <1>2, <2>1 DEF Covering, Alone
  <2>3. QED
    BY <2>1, <2>2
<1>3. CASE r = s
  <2>1. scan[s].found \in [Drive -> Position \cup {Missing}] /\ vol[d].end \in Nat
    BY TypedParts, Numbers DEF ScanRecord
  <2>2. d \notin scan[s].raced
    BY <1>3, ScanRest DEF Running
  <2>3. CASE scan'[s].found[d] = scan[s].found[d]
    <3>1. AtMost(usn, mon, d, scan[s].found[d]) /\ scan[s].found[d] \in Nat
      BY <1>1, <1>3, <2>2, <2>3, Numbers DEF Covering, Ahead
    <3>2. d \in DOMAIN scan[s].tx => scan[s].tx[d] \leq scan[s].found[d]
      BY DEF Covering, Saves
    <3>3. QED
      BY <1>3, <2>3, <3>1, <3>2, ScanAtMost
  <2>4. CASE ScanRead(s) /\ scan'[s].found[d] = vol[d].end
    <3>1. ~ScanCommit(s)
      <4>1. scan[s].at \in Nat /\ Len(Order) \in Nat
        BY TypedParts, LengthType DEF ScanRecord
      <4>2. QED
        BY <2>4, <4>1 DEF ScanRead, ScanReads, ScanCommit
    <3>2. AtMost(usn, mon, d, vol[d].end)
      BY DEF Covering, Reached
    <3>3. QED
      BY <1>3, <2>1, <2>4, <3>1, <3>2, ScanAtMost
  <2>5. QED
    BY <1>3, <2>1, <2>3, <2>4, ScanFound
<1>4. QED
  BY <1>2, <1>3

LEMMA ScanCovered ==
  ASSUME Typed, Covering, NEW s \in Scanner, Scan(s)
  PROVE  Covered'
<1> SUFFICES ASSUME ~Replaces', NEW d \in Drive \ behind'
             PROVE  list'[d] # Missing /\ AtMost(usn', mon', d, list'[d])
  BY DEF Covered
<1>1. CASE ScanPopulate(s) /\ \E x \in Drive : scan[s].found[x] # Missing
  <2>1. list' = scan[s].found
        /\ behind' = {x \in Drive : scan[s].found[x] = Missing} \cup scan[s].raced
    BY <1>1 DEF ScanPopulate
  <2>2. Running(s) /\ d \notin scan[s].raced /\ scan[s].found[d] # Missing
    BY <2>1, ScanRest DEF Running
  <2>3. AtMost(usn, mon, d, scan[s].found[d]) /\ scan[s].found[d] \in Nat
    BY <2>2, Numbers DEF Covering, Ahead
  <2>4. ~ScanCommit(s)
    BY <1>1 DEF ScanPopulate, ScanCommit
  <2>5. QED
    BY <2>1, <2>2, <2>3, <2>4, ScanAtMost
<1>2. CASE ~(ScanPopulate(s) /\ \E x \in Drive : scan[s].found[x] # Missing)
  <2>1. UNCHANGED <<list, behind>>
    BY <1>2, ScanRest DEF ScanPopulate
  <2>2. scan[s].pc = "populate" => ScanPopulate(s)
    BY DEF Scan, ScanRead, ScanReads, ScanSkips, ScanSave, ScanCommit, ScanStore, ScanTimesOut, ScanFinish
  <2>3. ~Replaces
    BY <1>2, <2>2, ScanRest DEF Replaces
  <2>4. list[d] # Missing /\ AtMost(usn, mon, d, list[d]) /\ list[d] \in Nat
    BY <2>1, <2>3, TypedParts, PositionType DEF Covering, Covered, Shared
  <2>5. ScanCommit(s) => d \notin DOMAIN scan[s].tx
    <3> SUFFICES ASSUME ScanCommit(s), d \in DOMAIN scan[s].tx PROVE FALSE
      OBVIOUS
    <3>1. scan'[s].pc = "populate" /\ scan'[s].found = scan[s].found
      BY TypedParts DEF ScanCommit, Step, ScanRecord
    <3>2. scan[s].found[d] # Missing
      BY DEF Covering, Saves
    <3>3. QED
      BY <3>1, <3>2 DEF Replaces
  <2>6. QED
    BY <2>1, <2>4, <2>5, ScanAtMost
<1>3. QED
  BY <1>1, <1>2

\* USNMonitorThread._poll and _run_mft_scan: the position of a drive never passes
\* a change that the list lacks, while no scan is about to replace the list and
\* no named hazard has touched the drive; however many drives share a
\* transaction, and wherever a poll or a scan of them is given up.
THEOREM ListCoversPositions == Spec => []PositionsCovered
<1>1. Typed /\ [Next]_vars => Typed'
  BY VolumeTyped, PollTyped, SlotTyped, ScanStepTyped, StutterTyped DEF Next
<1>2. Typed /\ Covering /\ [Next]_vars => Covering'
  <2> SUFFICES ASSUME Typed, Covering, [Next]_vars PROVE Covering'
    OBVIOUS
  <2>1. ASSUME NEW s \in Scanner, Scan(s) PROVE Covering'
    BY <2>1, ScanReached, ScanSaves, ScanAlone, ScanAhead, ScanCovered DEF Covering
  <2>2. QED
    BY <2>1, VolumeCovering, PollCovering, SlotCovering, StutterCovering DEF Next
<1>3. Typed /\ Covering => PositionsCovered
  BY DEF Covering, Covered, Replaces, AtMost, PositionsCovered
<1>4. QED
  BY InitTyped, InitCovering, <1>1, <1>2, <1>3, PTL DEF Spec
=============================================================================
