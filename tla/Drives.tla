------------------------------- MODULE Drives --------------------------------
(***************************************************************************)
(* Several drives: how core/scanner.py goes through them in a full scan    *)
(* and in a poll of their journals.  Each has one transaction for all its  *)
(* drives, opened by the first usn_state it saves and held, together with  *)
(* the write lock of the database, while the next drives are read.         *)
(*                                                                         *)
(* Of a drive's files only the position matters up to which its changes    *)
(* are in the list (UsnSync has the files).  A position is the number of   *)
(* journal records before it.                                              *)
(*                                                                         *)
(* Not covered: closing and crashes, the fast start, an exclusion of       *)
(* files, drives that appear while the program runs.                       *)
(***************************************************************************)
EXTENDS Naturals, Sequences

CONSTANTS Order,      \* the drives, in the order of get_ntfs_drives
          Removable,  \* drives that may be taken away
          Scanner,    \* scans that may run at one time
          Missing,    \* the list has no rows of the drive
          MaxUsn,     \* bound: changes on each drive
          MaxFaults,  \* bound: failing reads and lookups, expired waits for
                      \* the lock and journals that discard their records
          MaxSignals  \* bound: signals waiting for the window

Drive == {Order[i] : i \in 1..Len(Order)}

ASSUME DrivesInOrder == Order \in Seq(Drive)
ASSUME MissingIsNoPosition == Missing \notin Nat
ASSUME BoundsNatural ==
  /\ MaxUsn \in Nat /\ MaxFaults \in Nat /\ MaxSignals \in Nat \ {0}

VARIABLES vol,      \* vol[d]: readable, the end and the oldest record of its journal
          usn,      \* usn_state, as committed
          list,     \* list[d]: the changes that the list has, or Missing
          mon,      \* the poll
          scan,     \* scan[s]: a full scan
          gui,      \* the window: signals not handled, waiting for the poll to end
          faults,
          told,     \* changes reported to the index panel or passed over by a
                    \* scan (history, not in the code)
          behind,   \* drives touched by a named hazard (history, not in the code)
          untold    \* drives whose stored position passed changes that a poll
                    \* cut short did not report (history, not in the code)

vars == <<vol, usn, list, mon, scan, gui, faults, told, behind, untold>>

Nothing == [d \in {} |-> 0]
Larger(a, b) == IF a < b THEN b ELSE a
Merged(old, tx) == [d \in Drive |-> IF d \in DOMAIN tx THEN tx[d] ELSE old[d]]
With(tx, d, n) == [x \in DOMAIN tx \cup {d} |-> IF x = d THEN n ELSE tx[x]]

\* at: the drive under way.  tx: positions saved and not committed.  from:
\* where the poll started on each of them.  cut: drives of which it applied
\* and collected only a part (history, not in the code).
Asleep == [pc |-> "sleep", at |-> 1, tx |-> Nothing, from |-> Nothing, upto |-> 0,
           cut |-> {}, stop |-> FALSE]

\* found: what the list will have of each drive.  raced: drives a poll or
\* another scan worked on meanwhile.
NoScan == [pc |-> "off", at |-> 1, tx |-> Nothing,
           found |-> [d \in Drive |-> Missing], raced |-> {}]

\* A first scan has been made and its monitor started; nothing changed yet.
Init ==
  /\ vol = [d \in Drive |-> [on |-> TRUE, end |-> 0, low |-> 0]]
  /\ usn = [d \in Drive |-> 0] /\ list = usn /\ told = usn
  /\ mon = Asleep
  /\ scan = [s \in Scanner |-> NoScan]
  /\ gui = [inbox |-> <<>>, join |-> FALSE]
  /\ faults = 0
  /\ behind = {}
  /\ untold = {}

Fault == faults < MaxFaults /\ faults' = faults + 1
Running(s) == scan[s].pc # "off"
Signal(sig) == gui' = [gui EXCEPT !.inbox = Append(@, sig)]
Signalled(sig) == ~gui.join /\ gui.inbox # <<>> /\ Head(gui.inbox) = sig
ScanLocks == \E s \in Scanner : scan[s].tx # Nothing
OtherScanLocks(s) == \E r \in Scanner \ {s} : scan[r].tx # Nothing
PollLocks == mon.tx # Nothing

-----------------------------------------------------------------------------
(* The volumes *)

Change(d) ==
  /\ vol[d].on /\ vol[d].end < MaxUsn
  /\ vol' = [vol EXCEPT ![d].end = @ + 1]
  /\ UNCHANGED <<usn, list, mon, scan, gui, faults, told, behind, untold>>

Trim(d) ==
  /\ vol[d].low < vol[d].end /\ Fault
  /\ vol' = [vol EXCEPT ![d].low = vol[d].end]
  /\ UNCHANGED <<usn, list, mon, scan, gui, told, behind, untold>>

Remove(d) ==
  /\ d \in Removable /\ vol[d].on
  /\ vol' = [vol EXCEPT ![d].on = FALSE]
  /\ UNCHANGED <<usn, list, mon, scan, gui, faults, told, behind, untold>>

-----------------------------------------------------------------------------
(* USNMonitorThread._poll *)

PollAt == Order[mon.at]
PollEnds == mon.at > Len(Order) \/ mon.stop

PollStart ==
  /\ mon.pc = "sleep" /\ ~mon.stop
  /\ Len(gui.inbox) < MaxSignals
  /\ mon' = [Asleep EXCEPT !.pc = "drive"]
  /\ UNCHANGED <<vol, usn, list, scan, gui, faults, told, behind, untold>>

Expired(d) == ~vol[d].on \/ usn[d] < vol[d].low

\* read_usn_changes.
PollRead ==
  /\ mon.pc = "drive" /\ ~PollEnds
  /\ ~Expired(PollAt)
  /\ mon' = [mon EXCEPT !.pc = "apply", !.upto = vol[PollAt].end,
                        !.from = With(@, PollAt, usn[PollAt])]
  /\ UNCHANGED <<vol, usn, list, scan, gui, faults, told, behind, untold>>

\* Faulty (mutants): what has been saved is kept; the request is forgotten.
MutantGiveUp ==
  /\ usn' = Merged(usn, mon.tx)
  /\ Signal("needs_full_scan")

MutantGiveUpSilently == UNCHANGED <<usn, gui>>

\* A full scan is asked for, and the positions saved so far are taken back.
GiveUp ==
  /\ UNCHANGED usn
  /\ Signal("needs_full_scan")

\* The poll returns at the first drive that cannot be read or has expired; the
\* drives after it are not looked at.
PollGivesUp ==
  /\ mon.pc = "drive" /\ ~PollEnds
  /\ \/ Expired(PollAt) /\ UNCHANGED faults
     \/ Fault
  /\ GiveUp
  /\ mon' = [Asleep EXCEPT !.stop = mon.stop]
  /\ UNCHANGED <<vol, list, scan, told, behind, untold>>

\* The list then has the changes between two positions, if it had those before.
Applied(has, from, upto) ==
  IF has # Missing /\ has >= from THEN Larger(has, upto) ELSE has

RacedBy(d) == [s \in Scanner |-> IF Running(s) THEN [scan[s] EXCEPT !.raced = @ \cup {d}]
                                               ELSE scan[s]]

\* _apply_usn_changes, whole or in part: its loop ends early when the thread
\* has been asked to stop, the read of the journal may have failed half-way,
\* and paths that cannot be looked up are left out.
PollApply ==
  LET d == PollAt
      from == mon.from[d]
  IN  /\ mon.pc = "apply"
      /\ \/ /\ list' = [list EXCEPT ![d] = Applied(@, from, mon.upto)]
            /\ mon' = [mon EXCEPT !.pc = "save"]
            /\ UNCHANGED <<behind, faults>>
         \/ /\ from # mon.upto
            /\ \/ mon.stop /\ UNCHANGED faults
               \/ Fault
            /\ behind' = behind \cup {d}
            /\ mon' = [mon EXCEPT !.pc = "save", !.cut = @ \cup {d}]
            /\ UNCHANGED list
      /\ scan' = IF from = mon.upto THEN scan ELSE RacedBy(d)
      /\ UNCHANGED <<vol, usn, gui, told, untold>>

PollSave ==
  /\ mon.pc = "save" /\ ~ScanLocks
  /\ mon' = [mon EXCEPT !.pc = "drive", !.at = @ + 1, !.tx = With(@, PollAt, mon.upto)]
  /\ UNCHANGED <<vol, usn, list, scan, gui, faults, told, behind, untold>>

\* "database is locked", after thirty seconds: the poll is given up.
PollTimesOut ==
  /\ mon.pc = "save" /\ ScanLocks /\ Fault
  /\ mon' = [Asleep EXCEPT !.stop = mon.stop]
  /\ UNCHANGED <<vol, usn, list, scan, gui, told, behind, untold>>

\* What is reported of drive d when the poll ends: all changes up to its new
\* position, unless the poll was cut short there.
Told(d) ==
  IF d \in DOMAIN mon.tx \ mon.cut /\ mon.from[d] \leq told[d]
    THEN Larger(told[d], mon.tx[d]) ELSE told[d]

\* The commit, also of the positions of drives that were cut short, and
\* paths_updated with the paths that were collected.
PollCommit ==
  /\ mon.pc = "drive" /\ PollEnds
  /\ usn' = Merged(usn, mon.tx)
  /\ told' = [d \in Drive |-> Told(d)]
  /\ untold' = untold \cup mon.cut
  /\ mon' = [Asleep EXCEPT !.stop = mon.stop]
  /\ UNCHANGED <<vol, list, scan, gui, faults, behind>>

-----------------------------------------------------------------------------
(* ScannerThread._run_mft_scan *)

Step(s, sc) == scan' = [scan EXCEPT ![s] = sc]
ScanAt(s) == Order[scan[s].at]
ScanReads(s) == scan[s].pc = "drive" /\ scan[s].at \leq Len(Order)

\* The position is asked for before the files are read.
ScanRead(s) ==
  /\ ScanReads(s) /\ vol[ScanAt(s)].on
  /\ Step(s, [scan[s] EXCEPT !.pc = "save", !.found[ScanAt(s)] = vol[ScanAt(s)].end])
  /\ UNCHANGED <<vol, usn, list, mon, gui, faults, told, behind, untold>>

\* A drive that cannot be read is left out.
ScanSkips(s) ==
  /\ ScanReads(s)
  /\ \/ ~vol[ScanAt(s)].on /\ UNCHANGED faults
     \/ Fault
  /\ Step(s, [scan[s] EXCEPT !.at = @ + 1])
  /\ UNCHANGED <<vol, usn, list, mon, gui, told, behind, untold>>

\* Faulty (mutants): the journal's end when the files have been read; one too far.
MutantScanPosition(s) == vol[ScanAt(s)].end
MutantScanPositionAfter(s) == scan[s].found[ScanAt(s)] + 1

ScanPosition(s) == scan[s].found[ScanAt(s)]

ScanSave(s) ==
  /\ scan[s].pc = "save" /\ ~PollLocks /\ ~OtherScanLocks(s)
  /\ Step(s, [scan[s] EXCEPT !.pc = "drive", !.at = @ + 1,
                             !.tx = With(@, ScanAt(s), ScanPosition(s))])
  /\ UNCHANGED <<vol, usn, list, mon, gui, faults, told, behind, untold>>

\* A scan that has read drive d makes up for what polls did not report of it,
\* unless a poll under way started beyond what it has read.
MadeUp(s, d) ==
  /\ d \in DOMAIN scan[s].tx
  /\ d \in DOMAIN mon.from => mon.from[d] \leq Larger(told[d], scan[s].tx[d])

ScanCommit(s) ==
  LET tx == scan[s].tx IN
  /\ scan[s].pc = "drive" /\ scan[s].at > Len(Order)
  /\ usn' = Merged(usn, tx)
  /\ told' = [d \in Drive |-> IF d \in DOMAIN tx THEN Larger(told[d], tx[d]) ELSE told[d]]
  /\ untold' = {d \in untold : ~MadeUp(s, d)}
  /\ Step(s, [scan[s] EXCEPT !.pc = "populate", !.tx = Nothing])
  /\ UNCHANGED <<vol, list, mon, gui, faults, behind>>

\* The list is replaced, unless no drive could be read.  Two things leave a
\* drive behind: it was left out, or worked on by another thread meanwhile.
ScanPopulate(s) ==
  LET found == scan[s].found
      left  == {d \in Drive : found[d] = Missing}
  IN  /\ scan[s].pc = "populate"
      /\ IF left = Drive THEN UNCHANGED <<list, behind>>
         ELSE list' = found /\ behind' = left \cup scan[s].raced
      /\ Step(s, [scan[s] EXCEPT !.pc = IF left = Drive THEN "done" ELSE "store",
                                 !.found = NoScan.found])
      /\ UNCHANGED <<vol, usn, mon, gui, faults, told, untold>>

\* save_to_db, in a transaction of its own.
ScanStore(s) ==
  /\ scan[s].pc = "store" /\ ~PollLocks /\ ~OtherScanLocks(s)
  /\ Step(s, [scan[s] EXCEPT !.pc = "done"])
  /\ UNCHANGED <<vol, usn, list, mon, gui, faults, told, behind, untold>>

\* error_signal; what was saved and not committed is taken back.
ScanTimesOut(s) ==
  /\ scan[s].pc \in {"save", "store"} /\ (PollLocks \/ OtherScanLocks(s)) /\ Fault
  /\ Step(s, NoScan)
  /\ UNCHANGED <<vol, usn, list, mon, gui, told, behind, untold>>

ScanFinish(s) ==
  /\ scan[s].pc = "done"
  /\ Step(s, NoScan)
  /\ Signal("finished")
  /\ UNCHANGED <<vol, usn, list, mon, faults, told, behind, untold>>

-----------------------------------------------------------------------------
(* The window's slots *)

\* _on_usn_needs_full_scan starts a scan, also next to another one; whatever
\* the two read then counts as raced.  (Scans differ in nothing but their
\* names, so the new one takes a fixed one of those that are free.)
HandleNeeds(s) ==
  /\ Signalled("needs_full_scan") /\ ~Running(s)
  /\ s = CHOOSE r \in Scanner : ~Running(r)
  /\ LET others == {r \in Scanner : Running(r)}
         raced  == IF others = {} THEN {} ELSE Drive
     IN  scan' = [r \in Scanner |->
                    IF r = s THEN [NoScan EXCEPT !.pc = "drive", !.raced = raced]
                    ELSE IF r \in others THEN [scan[r] EXCEPT !.raced = Drive]
                    ELSE scan[r]]
  /\ gui' = [gui EXCEPT !.inbox = Tail(@)]
  /\ UNCHANGED <<vol, usn, list, mon, faults, told, behind, untold>>

\* _start_usn_monitor: the old monitor is stopped and waited for.
HandleFinished ==
  /\ Signalled("finished")
  /\ gui' = [gui EXCEPT !.inbox = Tail(@), !.join = TRUE]
  /\ mon' = [mon EXCEPT !.stop = TRUE]
  /\ UNCHANGED <<vol, usn, list, scan, faults, told, behind, untold>>

JoinDone ==
  /\ gui.join /\ mon.pc = "sleep"
  /\ gui' = [gui EXCEPT !.join = FALSE]
  /\ mon' = Asleep
  /\ UNCHANGED <<vol, usn, list, scan, faults, told, behind, untold>>

-----------------------------------------------------------------------------
VolumeStep == \E d \in Drive : Change(d) \/ Trim(d) \/ Remove(d)
Poll ==
  PollStart \/ PollRead \/ PollGivesUp \/ PollApply \/ PollSave \/ PollTimesOut \/ PollCommit
Scan(s) ==
  \/ ScanRead(s) \/ ScanSkips(s) \/ ScanSave(s) \/ ScanCommit(s)
  \/ ScanPopulate(s) \/ ScanStore(s) \/ ScanTimesOut(s) \/ ScanFinish(s)
Slot == HandleFinished \/ JoinDone \/ \E s \in Scanner : HandleNeeds(s)

Next == VolumeStep \/ Poll \/ Slot \/ \E s \in Scanner : Scan(s)

\* Threads and the window's event loop run; volumes and users need not act.
Spec ==
  /\ Init /\ [][Next]_vars
  /\ WF_vars(Poll) /\ WF_vars(Slot)
  /\ \A s \in Scanner : WF_vars(Scan(s))

-----------------------------------------------------------------------------
Position == 0..MaxUsn
Transaction == UNION {[D -> Position] : D \in SUBSET Drive}

DrivesTypeOK ==
  /\ vol \in [Drive -> [on : BOOLEAN, end : Position, low : Position]]
  /\ usn \in [Drive -> Position] /\ told \in [Drive -> Position]
  /\ list \in [Drive -> Position \cup {Missing}]
  /\ mon \in [pc : {"sleep", "drive", "apply", "save"}, at : 1..Len(Order)+1,
              tx : Transaction, from : Transaction, upto : Position,
              cut : SUBSET Drive, stop : BOOLEAN]
  /\ scan \in [Scanner ->
       [pc : {"off", "drive", "save", "populate", "store", "done"}, at : 1..Len(Order)+1,
        tx : Transaction, found : [Drive -> Position \cup {Missing}], raced : SUBSET Drive]]
  /\ gui \in [inbox : Seq({"needs_full_scan", "finished"}), join : BOOLEAN]
  /\ faults \in 0..MaxFaults
  /\ behind \in SUBSET Drive /\ untold \in SUBSET Drive

\* For each drive: usn_state does not pass a change that the list lacks, when
\* no scan is about to replace the list and no named hazard has touched the
\* drive.  A poll that gives up at another drive, a transaction taken back, a
\* wait that expires and a drive that goes away cost no change.
PositionsCovered ==
  (\A s \in Scanner : scan[s].pc # "populate")
    => \A d \in Drive \ behind : list[d] # Missing /\ usn[d] \leq list[d]

\* For each drive: usn_state does not pass a change that was neither reported
\* to the index panel nor read by a full scan, except on drives (untold) where
\* a poll was stopped between two changes, read half of the journal or could
\* not look up a path: it saves the new position all the same.  A poll that
\* gives up reports nothing of the drives before, and must not move their
\* positions either.
ReportsKeepUp == \A d \in Drive \ untold : usn[d] \leq told[d]

\* Every readable drive that no named hazard touched is in step with the list
\* again and again, also when drives before it in the order cannot be read any
\* more: every poll then gives up before it comes to this one, and the full
\* scans that it asks for leave the dead drives out.
EveryDriveCatchesUp ==
  \A d \in Drive : []<>(~vol[d].on \/ d \in behind \/ list[d] = vol[d].end)
=============================================================================
