----------------------------- MODULE UsnSyncProps ----------------------------
(***************************************************************************)
(* What is claimed of module UsnSync.                                      *)
(***************************************************************************)
EXTENDS UsnSync

Index == [rows : Rows, size : Size]
Position == Usn \cup {NoUsn}
Signal == {"scanDone", "cacheDone", "needsFullScan"}

Journal == [id : 0..MaxJournals, recs : Seq([file : File, del : BOOLEAN]), lowest : Nat]
Database == [cache : Index, cacheUsn : Position, usn : Position]
Window == [app : {"off", "on", "closing", "closing2", "ending"}, join : BOOLEAN,
           asking : BOOLEAN, inbox : Seq(Signal), handle : Scanner \cup {NoScanner}]
ScanState == [pc : {"idle", "start", "reading", "populate", "snapshot", "store", "loaded"},
              mode : {"mft", "cache"}, stop : BOOLEAN, base : Position,
              rows : Rows, size : Size, unread : SUBSET File]
MonitorState == [pc : {"off", "sleep", "query", "read", "apply"}, stop : BOOLEAN,
                 start : Position, upto : 0..MaxUsn, dels : SUBSET File,
                 upds : SUBSET File, todo : Rows]
Risk == [mem : BOOLEAN, db : BOOLEAN, savedAt : Position, taint : [Scanner -> BOOLEAN]]

TypeOK ==
  /\ disk \in Rows
  /\ journal \in Journal /\ journal.lowest \leq NextUsn /\ NextUsn \leq MaxUsn
  /\ faults \in 0..MaxFaults
  /\ db \in Database
  /\ index \in Index
  /\ gui \in Window
  /\ scan \in [Scanner -> ScanState]
  /\ mon \in MonitorState
  /\ risk \in Risk

-----------------------------------------------------------------------------
\* A record of f at or after position next of the journal.
HasRecord(f, next) == \E i \in next+1..NextUsn : journal.recs[i].file = f

\* What the next polls will still do about f: its change is recorded at or
\* after usn_state, or usn_state has expired and a full scan will be asked for.
Pending(f) == db.usn # NoUsn /\ (Expired(db.usn) \/ HasRecord(f, db.usn.next))

\* The row of f is the file's path.  (A file that moved into an excluded
\* folder keeps its old row until its path is taken.)
InStep(rows, f) == rows[f] = disk[f] \/ disk[f] \in Excluded

\* No scan and no poll is under way.
AtRest ==
  /\ gui.app = "on" /\ ~gui.join
  /\ \A s \in Scanner : ~Running(s)
  /\ mon.pc \in {"off", "sleep"}

\* Whenever the threads are at rest, every file on the volume is listed where
\* it is, or the change that moved it is still ahead of usn_state: no change is
\* ever passed over for good.
NothingLost == AtRest => \A f \in File : InStep(index.rows, f) \/ Pending(f)

\* The hazards that module UsnSync names are all there are: without one of
\* them since the last full scan, nothing is lost, whatever scans, polls,
\* crashes, closings and discarded records came in between.
OnlyKnownLosses == ~risk.mem => NothingLost

\* A saved list that no hazard touched can be brought up to date from
\* usn_state, in every state the process may be killed in: a restart that
\* loads it and lets the monitor poll loses nothing.
SavedCopyCovered ==
  ~LoadedRisk /\ db.cache.size # "empty"
    => \A f \in File : InStep(db.cache.rows, f) \/ Pending(f)

\* No position is ahead of the journal: the one the database keeps, the one a
\* poll starts from and the one a scan will save have all been reached, in this
\* or an earlier journal of the volume, and a poll ends no earlier than it
\* started.  A position ahead would pass over the records still to come.
Positions == {db.usn, db.cacheUsn, mon.start} \cup {scan[s].base : s \in Scanner}

Reached(p) == p = NoUsn \/ (p.id \leq journal.id /\ p.next \leq NextUsn)

NeverAhead ==
  /\ \A p \in Positions : Reached(p)
  /\ mon.pc \in {"read", "apply"} => mon.start.next \leq mon.upto /\ mon.upto \leq NextUsn

\* Nor do two files stay listed under one path, although a scan may have read
\* one before and the other after the path changed hands, and although a file
\* that moved into an excluded folder keeps its row until its path is taken.
\* Only two files that are both in excluded folders may: polls pass both over.
ShownOnce ==
  AtRest /\ ~risk.mem => \A f, g \in File :
    f # g /\ index.rows[f] = index.rows[g] /\ index.rows[f] # NoPath
      => Pending(f) \/ Pending(g) \/ {disk[f], disk[g]} \subseteq Excluded

InStepNow == \A f \in File : InStep(index.rows, f)

\* Changes are reflected while the program runs: from any moment on, the
\* program is at some later moment in step with the volume, has been closed,
\* or one of the named hazards happened.
EventuallyInStep ==
  gui.app = "on" ~> (InStepNow \/ risk.mem \/ gui.app # "on")
=============================================================================
