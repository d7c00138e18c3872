------------------------------- MODULE UsnSync -------------------------------
(***************************************************************************)
(* How the file list is kept in step with one NTFS volume: the full scan   *)
(* and the fast start (ScannerThread), the polling of the USN journal      *)
(* (USNMonitorThread), the window that starts and stops them (MainWindow)  *)
(* and what the database keeps between runs of the program.                *)
(*                                                                         *)
(* The file list itself is used through what module FileIndex promises     *)
(* (MftCache implements it): a map from file to path, in which Put evicts  *)
(* whatever else has the path.  A USN is the number of records before it.  *)
(***************************************************************************)
EXTENDS Naturals, Sequences, FiniteSets

CONSTANTS
  File,         \* MFT record numbers; one may be reused after a deletion
  Path,
  Excluded,     \* paths the exclusion rules reject
  Scanner,      \* ScannerThread objects that may run at one time
  NoPath, NoUsn, NoScanner,
  Environment,  \* which of EnvironmentEvents may happen
  MaxUsn,       \* bound on the records written to the journal
  MaxJournals,  \* bound on re-creations of the journal
  MaxInbox,     \* bound on signals waiting for the window when one more is started
  MaxFaults     \* bound on failing system calls and locked-database errors

EnvironmentEvents == {"rescan", "close", "timeout", "crash", "trim", "recreate"}

ASSUME ConstantsOK ==
  /\ NoPath \notin Path
  /\ Excluded \subseteq Path
  /\ NoScanner \notin Scanner
  /\ NoUsn \notin [id : Nat, next : Nat]
  /\ Environment \subseteq EnvironmentEvents
  /\ MaxUsn \in Nat /\ MaxJournals \in Nat /\ MaxFaults \in Nat /\ MaxInbox \in Nat

VARIABLES
  disk,     \* external: the path of each file on the volume, or NoPath
  journal,  \* external: [id, recs, lowest], the change journal of the volume
  faults,   \* system calls that failed so far
  db,       \* committed tables: [cache, cacheUsn, usn]
  index,    \* mft_cache: [rows, size]
  gui,      \* MainWindow: [app, join, asking, inbox, handle]
  scan,     \* scan[s]: [pc, mode, stop, base, rows, size, unread]
  mon,      \* USNMonitorThread: [pc, stop, start, upto, dels, upds, todo]
  risk      \* history: [mem, db, savedAt, taint], see Open

vars == <<disk, journal, faults, db, index, gui, scan, mon, risk>>

Rows == [File -> Path \cup {NoPath}]
NoRows == [f \in File |-> NoPath]

\* How many rows the volume's other files contribute: none, fewer than 1000,
\* or 1000 and more.  The window tells these apart (main_window.py 243-250).
Size == {"empty", "few", "many"}

Usn == [id : 0..MaxJournals, next : 0..MaxUsn]

-----------------------------------------------------------------------------
(* The file list, as FileIndex promises it. *)

\* (Mutants are single mistakes that the properties must notice.)
MutantPut(ix, f, p) == [rows |-> [ix.rows EXCEPT ![f] = p], size |-> ix.size]

Put(ix, f, p) ==
  [rows |-> [x \in File |-> IF x = f THEN p
                            ELSE IF ix.rows[x] = p THEN NoPath
                            ELSE ix.rows[x]],
   size |-> IF ix.size = "empty" THEN "few" ELSE ix.size]

MutantDrop(ix, F) == ix

Drop(ix, F) == [ix EXCEPT !.rows = [x \in File |-> IF x \in F THEN NoPath ELSE @[x]]]

\* What a scan lists of a path.
Shown(p) == IF p \in Excluded THEN NoPath ELSE p

-----------------------------------------------------------------------------
(* The journal. *)

NextUsn == Len(journal.recs)

\* read_usn_changes gives up: the journal was re-created, or has discarded
\* records from start on.
MutantExpired(start) == start.id # journal.id

Expired(start) == start.id # journal.id \/ start.next < journal.lowest

\* Records first+1..last, as far as they have not been discarded.
Records(first, last) == {i \in first+1..last : i > journal.lowest}

Touched(first, last) == {journal.recs[i].file : i \in Records(first, last)}

\* Of the events of a file the last one decides.
MutantLastDeletes(f, first, last) ==
  \E i \in Records(first, last) : journal.recs[i] = [file |-> f, del |-> TRUE]

LastDeletes(f, first, last) ==
  \E i \in Records(first, last) :
    /\ journal.recs[i] = [file |-> f, del |-> TRUE]
    /\ \A j \in i+1..last : journal.recs[j].file # f

-----------------------------------------------------------------------------
IdleScan == [pc |-> "idle", mode |-> "mft", stop |-> FALSE, base |-> NoUsn,
             rows |-> NoRows, size |-> "empty", unread |-> {}]
OffMonitor == [pc |-> "off", stop |-> FALSE, start |-> NoUsn, upto |-> 0,
               dels |-> {}, upds |-> {}, todo |-> NoRows]
NewMonitor == [OffMonitor EXCEPT !.pc = "sleep"]
NoWindow == [app |-> "off", join |-> FALSE, asking |-> FALSE, inbox |-> <<>>,
             handle |-> NoScanner]
EmptyIndex == [rows |-> NoRows, size |-> "empty"]

Running(s) == scan[s].pc # "idle"

Fault == faults < MaxFaults /\ faults' = faults + 1

-----------------------------------------------------------------------------
(* The volume: files come, move and go at any time, the program running or *)
(* not, and each change leaves a record.                                   *)

Record(f, del) ==
  /\ NextUsn < MaxUsn
  /\ journal' = [journal EXCEPT !.recs = Append(@, [file |-> f, del |-> del])]
  /\ UNCHANGED <<faults, db, index, gui, scan, mon, risk>>

\* Creation, renaming or moving of f to a path no file has.
PlaceFile(f, p) ==
  /\ \A x \in File : disk[x] # p
  /\ disk' = [disk EXCEPT ![f] = p]
  /\ Record(f, FALSE)

DeleteFile(f) ==
  /\ disk[f] # NoPath
  /\ disk' = [disk EXCEPT ![f] = NoPath]
  /\ Record(f, TRUE)

\* The journal is circular: old records are discarded.
TrimJournal ==
  /\ "trim" \in Environment
  /\ \E n \in journal.lowest+1..NextUsn : journal' = [journal EXCEPT !.lowest = n]
  /\ UNCHANGED <<disk, faults, db, index, gui, scan, mon, risk>>

RecreateJournal ==
  /\ "recreate" \in Environment
  /\ journal.id < MaxJournals
  /\ journal' = [journal EXCEPT !.id = @ + 1, !.lowest = NextUsn]
  /\ UNCHANGED <<disk, faults, db, index, gui, scan, mon, risk>>

-----------------------------------------------------------------------------
(* History: whether the list, or its saved copy, may have missed a change  *)
(* for good.  A full scan clears the mark; these set it:                   *)
(*   no scan has filled the list yet;                                      *)
(*   a poll, or another scan, ran while a scan was under way;              *)
(*   a scan was stopped between two entries, a poll between two changes;   *)
(*   usn_state was set to the start of a scan that was never put in place; *)
(*   usn_state had moved on since the saved list was copied;               *)
(*   a read or a path lookup that failed was taken for its end.            *)

\* A scan that has taken its base, or read the saved rows, and has not yet
\* replaced the list.
Open(s) == scan[s].pc \in {"reading", "populate", "loaded"}
Polling == mon.pc \in {"query", "read", "apply"}

\* The marks when s opens: on s itself and on the scans it overlaps.
Opened(s, mark) ==
  [x \in Scanner |->
     IF x = s THEN mark \/ Polling \/ \E y \in Scanner \ {s} : Open(y)
              ELSE risk.taint[x] \/ Open(x)]

Torn(S) == \E s \in S : scan[s].pc = "populate"
LoadedRisk == risk.db \/ risk.savedAt # db.usn

-----------------------------------------------------------------------------
(* ScannerThread._run_mft_scan *)

Update(s, r) == scan' = [scan EXCEPT ![s] = r]

\* finished_signal, and the thread ends.
Finish(s, signal) ==
  /\ Update(s, IdleScan)
  /\ gui' = [gui EXCEPT !.inbox = Append(@, signal)]

\* enumerate_mft takes NextUsn before it reads the first record.
ScanOpen(s) ==
  /\ scan[s].pc = "start" /\ scan[s].mode = "mft" /\ ~scan[s].stop
  /\ Update(s, [scan[s] EXCEPT !.pc = "reading", !.unread = File,
                               !.base = [id |-> journal.id, next |-> NextUsn]])
  /\ risk' = [risk EXCEPT !.taint = Opened(s, FALSE)]
  /\ UNCHANGED <<disk, journal, faults, db, index, gui, mon>>

\* The records of the MFT are read one after the other.
ScanRead(s, f) ==
  /\ scan[s].pc = "reading" /\ f \in scan[s].unread
  /\ Update(s, [scan[s] EXCEPT !.rows[f] = Shown(disk[f]), !.unread = @ \ {f}])
  /\ UNCHANGED <<disk, journal, faults, db, index, gui, mon, risk>>

\* A stop came before the volume was opened: no entries, no usn_state, but
\* finished_signal all the same.
ScanStopped(s) ==
  /\ scan[s].pc = "start" /\ scan[s].mode = "mft" /\ scan[s].stop
  /\ Finish(s, "scanDone")
  /\ UNCHANGED <<disk, journal, faults, db, index, mon, risk>>

\* The same after the volume could not be opened or read.
ScanUnreadable(s) ==
  /\ scan[s].pc \in {"start", "reading"} /\ scan[s].mode = "mft"
  /\ Fault
  /\ Finish(s, "scanDone")
  /\ UNCHANGED <<disk, journal, db, index, mon, risk>>

\* The usn_state of a scan: the position from before its first record.
MutantScanPosition(s) == [id |-> journal.id, next |-> NextUsn]

ScanPosition(s) == scan[s].base

\* The entries are collected, all of them or, after a stop, those up to some
\* point; usn_state is saved and committed in both cases.
ScanCollect(s) ==
  /\ scan[s].pc = "reading" /\ scan[s].unread = {}
  /\ \E kept \in SUBSET File, size \in Size :
       /\ scan[s].stop \/ (kept = File /\ size = "many")
       /\ size = "empty" => kept = {}
       /\ Update(s, [scan[s] EXCEPT
            !.pc = "populate", !.size = size,
            !.rows = [f \in File |-> IF f \in kept THEN @[f] ELSE NoPath]])
  /\ db' = [db EXCEPT !.usn = ScanPosition(s)]
  /\ risk' = IF scan[s].stop
               THEN [risk EXCEPT !.mem = TRUE, !.taint[s] = TRUE]
               ELSE risk
  /\ UNCHANGED <<disk, journal, faults, index, gui, mon>>

\* mft_cache.populate, unless nothing was collected.
ScanPopulate(s) ==
  /\ scan[s].pc = "populate" /\ scan[s].size # "empty"
  /\ index' = [rows |-> scan[s].rows, size |-> scan[s].size]
  /\ Update(s, [scan[s] EXCEPT !.pc = "snapshot"])
  /\ risk' = [risk EXCEPT !.mem = risk.taint[s]]
  /\ UNCHANGED <<disk, journal, faults, db, gui, mon>>

ScanEmpty(s) ==
  /\ scan[s].pc = "populate" /\ scan[s].size = "empty"
  /\ Finish(s, "scanDone")
  /\ UNCHANGED <<disk, journal, faults, db, index, mon, risk>>

\* save_to_db copies the list under the cache's lock ...
ScanSnapshot(s) ==
  /\ scan[s].pc = "snapshot"
  /\ Update(s, [scan[s] EXCEPT !.pc = "store", !.rows = index.rows,
                               !.size = index.size, !.base = db.usn])
  /\ risk' = [risk EXCEPT !.taint[s] = risk.mem \/ Torn(Scanner \ {s})]
  /\ UNCHANGED <<disk, journal, faults, db, index, gui, mon>>

\* ... and writes the copy to file_cache, which commits.  The file_cache_usn
\* rows it then inserts are never committed: closing the connection, with no
\* commit after them, takes them back.
Stored(rows, size) == [db EXCEPT !.cache = [rows |-> rows, size |-> size]]

ScanStore(s) ==
  /\ scan[s].pc = "store"
  /\ db' = Stored(scan[s].rows, scan[s].size)
  /\ Finish(s, "scanDone")
  /\ risk' = [risk EXCEPT !.db = risk.taint[s], !.savedAt = scan[s].base]
  /\ UNCHANGED <<disk, journal, faults, index, mon>>

\* The database is locked for longer than the busy timeout: error_signal,
\* which starts no monitor, in place of finished_signal.
ScanDbError(s) ==
  /\ \/ scan[s].pc = "reading" /\ scan[s].unread = {}
     \/ scan[s].pc = "store"
  /\ Fault
  /\ Update(s, IdleScan)
  /\ UNCHANGED <<disk, journal, db, index, gui, mon, risk>>

-----------------------------------------------------------------------------
(* ScannerThread._run_cache_only_scan: the fast start *)

\* _apply_usn_changes as a whole on ix, for the records from start on.
Applied(ix, start) ==
  LET files == Touched(start.next, NextUsn)
      dels == {f \in files : LastDeletes(f, start.next, NextUsn)}
      placed == {f \in files \ dels : Shown(disk[f]) # NoPath}
  IN [ix EXCEPT !.rows = [f \in File |->
        CASE f \in placed -> disk[f]
          [] f \in dels -> NoPath
          [] f \notin placed \cup dels ->
               IF @[f] \in {disk[x] : x \in placed} THEN NoPath ELSE @[f]]]

\* _catchup_usn: from the position saved with the list, if there is one.
CaughtUp(ix) ==
  LET from == db.cacheUsn
  IN IF \/ from = NoUsn \/ db.usn = NoUsn
        \/ from.id # db.usn.id \/ from.next >= db.usn.next
        \/ Expired(from)
       THEN ix
       ELSE Applied(ix, from)

\* load_from_db reads the saved rows ...  (Started with 1000 of them or more,
\* the fast start never finds file_cache empty.)
ScanLoadRows(s) ==
  /\ scan[s].pc = "start" /\ scan[s].mode = "cache"
  /\ Update(s, [scan[s] EXCEPT !.pc = "loaded", !.rows = db.cache.rows,
                               !.size = db.cache.size, !.base = db.usn])
  /\ risk' = [risk EXCEPT !.taint = Opened(s, LoadedRisk)]
  /\ UNCHANGED <<disk, journal, faults, db, index, gui, mon>>

\* ... and puts them in place; then remove_excluded and _catchup_usn.
ScanLoad(s) ==
  /\ scan[s].pc = "loaded"
  /\ index' = CaughtUp([rows |-> [f \in File |-> Shown(scan[s].rows[f])],
                        size |-> scan[s].size])
  /\ Finish(s, "cacheDone")
  /\ risk' = [risk EXCEPT !.mem = risk.taint[s] \/ scan[s].base # db.usn \/ Polling]
  /\ UNCHANGED <<disk, journal, faults, db, mon>>

ScannerStep(s) ==
  \/ ScanOpen(s) \/ ScanStopped(s) \/ \E f \in File : ScanRead(s, f)
  \/ ScanCollect(s) \/ ScanPopulate(s) \/ ScanEmpty(s)
  \/ ScanSnapshot(s) \/ ScanStore(s) \/ ScanLoadRows(s) \/ ScanLoad(s)

ScannerFault(s) == ScanUnreadable(s) \/ ScanDbError(s)

-----------------------------------------------------------------------------
(* USNMonitorThread *)

MonitorKeeps == UNCHANGED <<disk, journal, gui, scan>>

MonExit ==
  /\ mon.pc = "sleep" /\ mon.stop
  /\ mon' = OffMonitor
  /\ MonitorKeeps /\ UNCHANGED <<faults, db, index, risk>>

\* The sleep is over: load_usn_state.  Without a state there is nothing to do.
MonLoad ==
  /\ mon.pc = "sleep" /\ ~mon.stop /\ db.usn # NoUsn
  /\ Len(gui.inbox) < MaxInbox
  /\ mon' = [mon EXCEPT !.pc = "query", !.start = db.usn]
  /\ MonitorKeeps /\ UNCHANGED <<faults, db, index, risk>>

\* read_usn_changes first asks the journal for its id, its range and NextUsn,
\* the position it will report in the end ...
MonQuery ==
  /\ mon.pc = "query" /\ ~Expired(mon.start)
  /\ mon' = [mon EXCEPT !.pc = "read", !.upto = NextUsn]
  /\ MonitorKeeps /\ UNCHANGED <<faults, db, index, risk>>

\* ... and then reads on from start to the end, which may lie beyond NextUsn.
ReadUpTo(last) ==
  LET files == Touched(mon.start.next, last)
      dels == {f \in files : LastDeletes(f, mon.start.next, last)}
  IN mon' = [mon EXCEPT !.pc = "apply", !.dels = dels, !.upds = files \ dels]

Tainted(taint) == [s \in Scanner |-> taint[s] \/ Open(s)]

MonRead ==
  /\ mon.pc = "read" /\ ~Expired(mon.start)
  /\ ReadUpTo(NextUsn)
  /\ risk' = [risk EXCEPT !.taint = Tainted(@)]
  /\ MonitorKeeps /\ UNCHANGED <<faults, db, index>>

\* A read that fails with another error ends the loop as the end of the
\* journal does: what was read so far counts as everything up to NextUsn.
MonReadCutShort ==
  /\ mon.pc = "read" /\ ~Expired(mon.start)
  /\ \E last \in mon.start.next..NextUsn - 1 : ReadUpTo(last)
  /\ risk' = [risk EXCEPT !.taint = Tainted(@), !.mem = TRUE]
  /\ Fault
  /\ MonitorKeeps /\ UNCHANGED <<db, index>>

\* Re-created between query and read: the read fails with an error that is not
\* the one of discarded records, so the poll goes on with what it has and the
\* position of the old journal, and the next query tells.  (What was read
\* before the re-creation makes this MonReadCutShort, then the re-creation.)
MonReadRecreated ==
  /\ mon.pc = "read" /\ mon.start.id # journal.id
  /\ mon' = [mon EXCEPT !.pc = "apply", !.dels = {}, !.upds = {}]
  /\ risk' = [risk EXCEPT !.taint = Tainted(@)]
  /\ MonitorKeeps /\ UNCHANGED <<faults, db, index>>

EndPoll == mon' = [NewMonitor EXCEPT !.stop = mon.stop]

\* (None, None) from read_usn_changes: needs_full_scan, and the poll ends.
AskFullScan ==
  /\ mon.pc \in {"query", "read"}
  /\ EndPoll
  /\ gui' = [gui EXCEPT !.inbox = Append(@, "needsFullScan")]
  /\ UNCHANGED <<disk, journal, db, index, scan, risk>>

\* The query says that the journal is another one or has discarded records
\* from start on, or the read meets discarded records.
MonExpired ==
  /\ AskFullScan /\ Expired(mon.start) /\ UNCHANGED faults
  /\ mon.pc = "read" => mon.start.id = journal.id

MonVolumeError == mon.pc = "query" /\ AskFullScan /\ Fault

\* _apply_usn_changes: remove_by_ref for the deleted files, in any order.
MonDelete(f) ==
  /\ mon.pc = "apply" /\ f \in mon.dels
  /\ index' = Drop(index, {f})
  /\ mon' = [mon EXCEPT !.dels = @ \ {f}]
  /\ MonitorKeeps /\ UNCHANGED <<faults, db, risk>>

\* resolve_paths_by_refs: where a changed file is now; one that is gone again
\* has no path.
MonResolve(f) ==
  /\ mon.pc = "apply" /\ mon.dels = {} /\ f \in mon.upds
  /\ mon' = [mon EXCEPT !.upds = @ \ {f}, !.todo[f] = disk[f]]
  /\ MonitorKeeps /\ UNCHANGED <<faults, db, index, risk>>

\* The root directory, or a file that exists, cannot be opened: no path.
MonUnresolved(F) ==
  /\ mon.pc = "apply" /\ mon.dels = {} /\ mon.upds # {}
  /\ F \in {mon.upds} \cup {{f} : f \in mon.upds}
  /\ mon' = [mon EXCEPT !.upds = @ \ F]
  /\ risk' = [risk EXCEPT !.mem = TRUE]
  /\ Fault
  /\ MonitorKeeps /\ UNCHANGED <<db, index>>

Resolved == mon.pc = "apply" /\ mon.dels = {} /\ mon.upds = {}

\* add_or_update; a path under an excluded folder is passed over.
MonUpdate(f) ==
  /\ Resolved /\ mon.todo[f] # NoPath /\ ~mon.stop
  /\ index' = IF mon.todo[f] \in Excluded THEN index ELSE Put(index, f, mon.todo[f])
  /\ mon' = [mon EXCEPT !.todo[f] = NoPath]
  /\ MonitorKeeps /\ UNCHANGED <<faults, db, risk>>

\* stop_flag: the loop over the changed files breaks off ...
MonBreak ==
  /\ Resolved /\ mon.todo # NoRows /\ mon.stop
  /\ mon' = [mon EXCEPT !.todo = NoRows]
  /\ risk' = [risk EXCEPT !.mem = TRUE]
  /\ MonitorKeeps /\ UNCHANGED <<faults, db, index>>

\* The usn_state of a poll: what read_usn_changes asked for before it read.
MutantPollPosition == [id |-> mon.start.id, next |-> NextUsn]

MutantPollPositionPastEnd == [id |-> mon.start.id, next |-> mon.upto + 1]

PollPosition == [id |-> mon.start.id, next |-> mon.upto]

\* ... and usn_state moves to the end of what was read all the same.
MonSave ==
  /\ Resolved /\ mon.todo = NoRows
  /\ db' = [db EXCEPT !.usn = PollPosition]
  /\ EndPoll
  /\ MonitorKeeps /\ UNCHANGED <<faults, index, risk>>

\* The database is locked: the poll's exception is logged, usn_state stays.
MonDbError ==
  /\ Resolved /\ mon.todo = NoRows
  /\ Fault
  /\ EndPoll
  /\ MonitorKeeps /\ UNCHANGED <<db, index, risk>>

MonitorStep ==
  \/ MonExit \/ MonLoad \/ MonQuery \/ MonRead \/ MonReadRecreated \/ MonExpired
  \/ \E f \in File : MonDelete(f) \/ MonResolve(f) \/ MonUpdate(f)
  \/ MonBreak \/ MonSave

MonitorFault ==
  \/ MonReadCutShort \/ MonVolumeError \/ MonDbError
  \/ \E F \in SUBSET File : MonUnresolved(F)

-----------------------------------------------------------------------------
(* MainWindow.  Its handlers run one at a time, on the thread that also     *)
(* blocks in wait(): with join set, nothing else of the window runs.        *)

WindowKeeps == UNCHANGED <<disk, journal>>

\* _start_scan, in an object of its own whatever else is running.
StartScan(s) ==
  /\ ~Running(s)
  /\ scan' = [scan EXCEPT ![s] = [IdleScan EXCEPT !.pc = "start"]]

\* __init__: with 1000 saved rows the fast start, otherwise the saved rows
\* (if any) are put in place and a full scan is started.
AppStart(s) ==
  /\ gui.app = "off"
  /\ \/ /\ db.cache.size = "many"
        /\ scan' = [scan EXCEPT ![s] = [IdleScan EXCEPT !.pc = "start", !.mode = "cache"]]
        /\ gui' = [NoWindow EXCEPT !.app = "on"]
        /\ UNCHANGED index
     \/ /\ db.cache.size # "many"
        /\ StartScan(s)
        /\ gui' = [NoWindow EXCEPT !.app = "on", !.handle = s]
        /\ index' = db.cache
  /\ risk' = [risk EXCEPT !.mem = db.cache.size # "few" \/ LoadedRisk]
  /\ WindowKeeps /\ UNCHANGED <<faults, db, mon>>

Listening == gui.app = "on" /\ ~gui.join
HasSignal(S) == Listening /\ gui.inbox # <<>> /\ Head(gui.inbox) \in S

\* _on_scan_finished, _on_cache_init_done: _start_usn_monitor stops the old
\* monitor, if there is one, and waits for it ...
HandleDone ==
  /\ HasSignal({"scanDone", "cacheDone"})
  /\ gui' = [gui EXCEPT !.inbox = Tail(@), !.join = (mon.pc # "off")]
  /\ mon' = IF mon.pc = "off" THEN NewMonitor ELSE [mon EXCEPT !.stop = TRUE]
  /\ WindowKeeps /\ UNCHANGED <<faults, db, index, scan, risk>>

MutantJoinDone ==
  /\ gui.app = "on" /\ gui.join /\ mon.pc = "off"
  /\ gui' = [gui EXCEPT !.join = FALSE]
  /\ WindowKeeps /\ UNCHANGED <<faults, db, index, scan, mon, risk>>

\* ... before it starts a new one.
JoinDone ==
  /\ gui.app = "on" /\ gui.join /\ mon.pc = "off"
  /\ gui' = [gui EXCEPT !.join = FALSE]
  /\ mon' = NewMonitor
  /\ WindowKeeps /\ UNCHANGED <<faults, db, index, scan, risk>>

\* _on_usn_needs_full_scan: no look at a scan that may be running already.
HandleNeedsFullScan(s) ==
  /\ HasSignal({"needsFullScan"})
  /\ StartScan(s)
  /\ gui' = [gui EXCEPT !.inbox = Tail(@), !.handle = s]
  /\ WindowKeeps /\ UNCHANGED <<faults, db, index, mon, risk>>

\* _on_full_rescan: refused while a scan runs, else a question whose own
\* event loop lets the other handlers run ...
UserAsks ==
  /\ "rescan" \in Environment
  /\ Listening /\ ~gui.asking
  /\ gui.handle # NoScanner => ~Running(gui.handle)
  /\ gui' = [gui EXCEPT !.asking = TRUE]
  /\ WindowKeeps /\ UNCHANGED <<faults, db, index, scan, mon, risk>>

\* ... and the answer.
UserConfirms(s) ==
  /\ Listening /\ gui.asking /\ Len(gui.inbox) < MaxInbox
  /\ StartScan(s)
  /\ gui' = [gui EXCEPT !.asking = FALSE, !.handle = s]
  /\ WindowKeeps /\ UNCHANGED <<faults, db, index, mon, risk>>

\* closeEvent: stop the scans and wait for them, ten seconds at most, ...
UserClose ==
  /\ "close" \in Environment
  /\ Listening /\ ~gui.asking
  /\ gui' = [gui EXCEPT !.app = "closing"]
  /\ scan' = [s \in Scanner |->
       IF Running(s) /\ (s = gui.handle \/ scan[s].mode = "cache")
         THEN [scan[s] EXCEPT !.stop = TRUE] ELSE scan[s]]
  /\ WindowKeeps /\ UNCHANGED <<faults, db, index, mon, risk>>

\* ... then stop the monitor and wait for it, five seconds at most, ...
CloseScanWaited ==
  /\ gui.app = "closing"
  /\ (\A s \in Scanner : ~scan[s].stop) \/ "timeout" \in Environment
  /\ gui' = [gui EXCEPT !.app = "closing2"]
  /\ mon' = [mon EXCEPT !.stop = (mon.pc # "off")]
  /\ WindowKeeps /\ UNCHANGED <<faults, db, index, scan, risk>>

\* ... then save the list, unless it is empty ...
CloseSave ==
  /\ gui.app = "closing2"
  /\ mon.pc = "off" \/ "timeout" \in Environment
  /\ gui' = [gui EXCEPT !.app = "ending"]
  /\ IF index.size = "empty" THEN UNCHANGED <<db, risk>>
     ELSE /\ db' = Stored(index.rows, index.size)
          /\ risk' = [risk EXCEPT !.db = risk.mem \/ Torn(Scanner), !.savedAt = db.usn]
  /\ WindowKeeps /\ UNCHANGED <<faults, index, scan, mon>>

CloseDbError ==
  /\ gui.app = "closing2"
  /\ mon.pc = "off" \/ "timeout" \in Environment
  /\ Fault
  /\ gui' = [gui EXCEPT !.app = "ending"]
  /\ WindowKeeps /\ UNCHANGED <<db, index, scan, mon, risk>>

\* The process ends, and what it had in memory is gone.
Stopped ==
  /\ gui' = NoWindow
  /\ scan' = [s \in Scanner |-> IdleScan]
  /\ mon' = OffMonitor
  /\ index' = EmptyIndex
  /\ risk' = [risk EXCEPT !.mem = FALSE, !.taint = [s \in Scanner |-> FALSE]]
  /\ WindowKeeps /\ UNCHANGED <<faults, db>>

\* ... and the process ends, threads that outlasted their wait included.
ProcessExit == gui.app = "ending" /\ Stopped

Crash == "crash" \in Environment /\ gui.app # "off" /\ Stopped

WindowStep ==
  \/ HandleDone \/ JoinDone \/ \E s \in Scanner : HandleNeedsFullScan(s)
  \/ CloseScanWaited \/ CloseSave \/ ProcessExit

User == UserAsks \/ UserClose \/ \E s \in Scanner : AppStart(s) \/ UserConfirms(s)

Volume ==
  \/ \E f \in File : DeleteFile(f) \/ \E p \in Path : PlaceFile(f, p)
  \/ TrimJournal \/ RecreateJournal

-----------------------------------------------------------------------------
Init ==
  /\ disk \in {d \in Rows : \A f, g \in File : d[f] = d[g] => f = g \/ d[f] = NoPath}
  /\ journal = [id |-> 0, recs |-> <<>>, lowest |-> 0]
  /\ faults = 0
  /\ db = [cache |-> EmptyIndex, cacheUsn |-> NoUsn, usn |-> NoUsn]
  /\ index = EmptyIndex
  /\ gui = NoWindow
  /\ scan = [s \in Scanner |-> IdleScan]
  /\ mon = OffMonitor
  /\ risk = [mem |-> FALSE, db |-> FALSE, savedAt |-> NoUsn,
             taint |-> [s \in Scanner |-> FALSE]]

Next ==
  \/ Volume \/ User \/ WindowStep \/ CloseDbError \/ Crash
  \/ \E s \in Scanner : ScannerStep(s) \/ ScannerFault(s)
  \/ MonitorStep \/ MonitorFault

Spec == Init /\ [][Next]_vars

\* The threads of the program keep running; the user, the volume and the
\* faults owe nothing.
Fairness ==
  /\ \A s \in Scanner : WF_vars(ScannerStep(s))
  /\ WF_vars(MonitorStep)
  /\ WF_vars(WindowStep)

LiveSpec == Spec /\ Fairness
=============================================================================
