------------------------------ MODULE IndexPanel -----------------------------
(***************************************************************************)
(* The content-index panel of gui/main_window.py on top of the threads of  *)
(* Reindex: registered folders and their badges, the changed files that    *)
(* the journal monitor reports, the index button, and the run that is      *)
(* queued behind another one.                                              *)
(*                                                                         *)
(* The window handles signals one at a time in the order they arrive.  A   *)
(* finished thread's signal has two slots, which run one after the other.  *)
(* The journal monitor and the full scan (module UsnSync) appear as what   *)
(* they do to this panel: a poll reports the files changed since the last  *)
(* position, or fewer when it is stopped or a call fails, and a finished   *)
(* scan moves that position without reporting any.                         *)
(*                                                                         *)
(* Not covered: further windows; files of excluded folders; a folder table *)
(* that cannot be read at the start or right after a command has written   *)
(* it.                                                                     *)
(***************************************************************************)
EXTENDS Reindex, Sequences

CONSTANTS MaxExits,   \* bound: ends of the process
          MaxScans,   \* bound: full scans
          MaxEdits    \* bound: folders added and removed

ASSUME PanelBounds == MaxExits \in Nat /\ MaxScans \in Nat /\ MaxEdits \in Nat

\* Folders form a tree, and earlier sessions registered none inside another.
ASSUME FoldersNest ==
  /\ \A f, g \in Folder : \/ f = g \/ f \in Within[g] \/ g \in Within[f]
                         \/ Under[f] \cap Under[g] = {}
  /\ \A f, g \in Earlier : f = g \/ g \notin Within[f]

VARIABLES win,       \* the fields of MainWindow
          unread,    \* files changed since the position in usn_state
          exits, scans, edits,
          lost       \* what the named hazards have dropped (history, not in the code):
                     \* paths, and folders registered again during their run

panelVars == <<vars, win, unread, exits, scans, edits, lost>>

\* badge: _folder_badges ("none": no such folder).  at: _folder_indexed_at.
\* pending: _pending_reindex_by_folder.  indexing, queued, count: the fields of
\* those names.  button: btn_index is enabled.  inbox: signals not handled yet.
NewWindow ==
  [on |-> TRUE,
   badge |-> [f \in Folder |-> "none"], at |-> [f \in Folder |-> "absent"],
   pending |-> [f \in Folder |-> {}], indexing |-> {}, queued |-> {}, count |-> 0,
   button |-> TRUE, inbox |-> <<>>]

Edit == edits < MaxEdits /\ edits' = edits + 1

\* _load_indexed_folders: badges and times are made anew from the table.
LoadFolders(w, tab) ==
  [w EXCEPT !.at = tab.folders,
            !.badge = [f \in Folder |-> CASE tab.folders[f] = "absent"  -> "none"
                                          [] tab.folders[f] = "new"     -> "pending"
                                          [] tab.folders[f] = "indexed" -> "done"]]

NoWindow == [NewWindow EXCEPT !.on = FALSE, !.button = FALSE]

PanelInit ==
  /\ Init
  /\ win = NoWindow
  /\ unread = {} /\ lost = [paths |-> {}, cut |-> {}]
  /\ exits = 0 /\ scans = 0 /\ edits = 0

Handle(sig) == win.on /\ win.inbox # <<>> /\ Head(win.inbox).sig = sig
Rest == [win EXCEPT !.inbox = Tail(@)]
Signal(sig, S) == win' = [win EXCEPT !.inbox = Append(@, [sig |-> sig, paths |-> S])]
Reported == UNION {win.inbox[i].paths : i \in 1..Len(win.inbox)}
UnderWay == Reported \cup win.queued \cup UNION {Held(thread[t]) : t \in Thread}

-----------------------------------------------------------------------------
(* Files, monitor and scanner *)

\* The last record of a file decides: what was deleted is not reported.
PanelWrite(p, good) ==
  WriteFile(p, good) /\ unread' = unread \cup {p} /\ UNCHANGED <<win, exits, scans, edits, lost>>

PanelDelete(p) ==
  DeleteFile(p) /\ unread' = unread \ {p} /\ UNCHANGED <<win, exits, scans, edits, lost>>

\* USNMonitorThread reports the files changed since its last poll.
Poll ==
  /\ win.on /\ unread # {}
  /\ Signal("changed", unread)
  /\ unread' = {}
  /\ UNCHANGED <<vars, exits, scans, edits, lost>>

\* The slot of a finished scan stops the monitor and waits for it; the poll it
\* ends breaks off between two files.  A journal read that fails half-way, or
\* a file that cannot be opened, drops files of a poll as well.  The files left
\* out are not reported, and usn_state moves past them all the same.
PollCutShort(S) ==
  /\ win.on /\ S \subseteq unread /\ S # unread
  /\ \/ Handle("scanDone") /\ UNCHANGED faults
     \/ Fault
  /\ IF S = {} THEN UNCHANGED win ELSE Signal("changed", S)
  /\ unread' = {}
  /\ lost' = [lost EXCEPT !.paths = @ \cup (unread \ S)]
  /\ UNCHANGED <<disk, clock, db, thread, jobs, hazard, exits, scans, edits>>

\* A full scan saves the journal's present end as usn_state: what no poll has
\* read before that is never reported.
ScanDone ==
  /\ win.on /\ scans < MaxScans
  /\ scans' = scans + 1
  /\ Signal("scanDone", {})
  /\ lost' = [lost EXCEPT !.paths = @ \cup unread]
  /\ unread' = {}
  /\ UNCHANGED <<vars, exits, edits>>

-----------------------------------------------------------------------------
(* Slots *)

\* _on_usn_paths_changed: a changed file waits with each folder around it.
Noted(w, S) ==
  LET pending == [f \in Folder |-> IF w.badge[f] = "none" THEN w.pending[f]
                                   ELSE w.pending[f] \cup (S \cap Under[f])]
  IN  [w EXCEPT !.pending = pending,
                !.badge = [f \in Folder |->
                   IF @[f] # "none" /\ pending[f] # {} THEN "changed" ELSE @[f]]]

OnPathsChanged ==
  /\ Handle("changed")
  /\ win' = Noted(Rest, Head(win.inbox).paths)
  /\ UNCHANGED <<vars, unread, exits, scans, edits, lost>>

\* _on_scan_finished loads the folders again, or leaves the list as it is when
\* the table cannot be read.
OnScanFinished ==
  /\ Handle("scanDone")
  /\ \/ win' = LoadFolders(Rest, db) /\ UNCHANGED faults
     \/ win' = Rest /\ Fault
  /\ UNCHANGED <<disk, clock, db, thread, jobs, hazard, unread, exits, scans, edits, lost>>

\* Faulty (mutants): no lower limit; the count is looked at too early.
MutantThreadDone(w) ==
  [w EXCEPT !.count = @ - 1, !.button = @ \/ w.count - 1 \leq 0]

MutantThreadDoneEarly(w) ==
  [w EXCEPT !.count = IF @ > 0 THEN @ - 1 ELSE 0, !.button = @ \/ w.count = 0]

\* _on_index_thread_done.
ThreadDone(w) ==
  LET count == IF w.count > 0 THEN w.count - 1 ELSE 0 IN
  [w EXCEPT !.count = count, !.button = @ \/ count = 0]

\* Faulty (mutant): the run itself is not counted.
MutantQueueIsNext == win.count < 1 /\ win.queued # {}

\* The run that ends is the last one, and changed files wait behind it.
QueueIsNext == win.count \leq 1 /\ win.queued # {}

\* _on_reindex_finished when changed files wait behind the full run: they are
\* started, and the second slot counts that new run as finished.
StartQueued ==
  /\ Handle("finished") /\ QueueIsNext
  /\ win' = ThreadDone([Rest EXCEPT !.queued = {}, !.count = 1])
  /\ \E t \in Thread : StartPaths(t, win.queued)
  /\ UNCHANGED <<disk, clock, db, faults, hazard, unread, exits, scans, edits, lost>>

\* Faulty (mutant): what was reported during the run counts as indexed.
MutantMarked(w) ==
  [w EXCEPT !.at = [f \in Folder |-> IF f \in w.indexing THEN "indexed" ELSE @[f]],
            !.badge = [f \in Folder |->
               IF f \notin w.indexing \/ @[f] = "none" THEN @[f] ELSE "done"],
            !.pending = [f \in Folder |-> IF f \in w.indexing THEN {} ELSE @[f]],
            !.indexing = {}]

\* The folders of the run are marked as indexed.
Marked(w) ==
  [w EXCEPT !.at = [f \in Folder |-> IF f \in w.indexing THEN "indexed" ELSE @[f]],
            !.badge = [f \in Folder |->
               IF f \notin w.indexing \/ @[f] = "none" THEN @[f]
               ELSE IF w.pending[f] # {} THEN "changed" ELSE "done"],
            !.indexing = {}]

\* _on_reindex_finished otherwise.  An error of the update is logged only.
EndRun ==
  /\ Handle("finished") /\ ~QueueIsNext
  /\ win' = ThreadDone(Marked(Rest))
  /\ \/ db' = UpdateIndexedAt(db, win.indexing) /\ UNCHANGED faults
     \/ Fault /\ UNCHANGED db
  /\ lost' = [paths |-> lost.paths \cup UNION {Under[f] : f \in win.indexing \cap lost.cut},
              cut   |-> {}]
  /\ UNCHANGED <<disk, clock, thread, jobs, hazard, unread, exits, scans, edits>>

-----------------------------------------------------------------------------
(* The user *)

\* A folder that was removed or replaced has lost the rows stored so far;
\* registered again before its run ends, it is marked as indexed without them.
\* (The question whether to replace folders inside f lets the slots run, but
\* none of them registers or removes a folder: what was read before it holds.)
UserAdd(f) ==
  /\ win.on /\ Edit
  /\ AddFolder(f)
  /\ win' = LoadFolders(win, db')
  /\ lost' = [lost EXCEPT !.cut = @ \cup (({f} \cap win.indexing) \ Registered(db))]
  /\ UNCHANGED <<unread, exits, scans>>

\* Faulty (mutant): what waits with the folder stays.
MutantUserRemove(f) ==
  /\ win.on /\ win.badge[f] # "none" /\ Edit
  /\ RemoveFolder(f, win.queued \cup UNION {win.pending[g] : g \in Folder \ {f}})
  /\ win' = LoadFolders(win, db')
  /\ UNCHANGED <<unread, exits, scans, lost>>

\* What waits with the folder is dropped, what waits with one that it has
\* replaced stays.
UserRemove(f) ==
  /\ win.on /\ win.badge[f] # "none" /\ Edit
  /\ RemoveFolder(f, win.queued \cup UNION {win.pending[g] : g \in Folder \ {f}})
  /\ win' = LoadFolders([win EXCEPT !.pending[f] = {}], db')
  /\ UNCHANGED <<unread, exits, scans, lost>>

\* _on_index_clicked: folders never indexed are walked; of the others the
\* changed files are indexed, after that run if there is one.
FullFolders == {f \in Folder : win.at[f] = "new"}
ChangedFolders == {f \in Folder : win.at[f] = "indexed" /\ win.pending[f] # {}}
ChangedPaths == UNION {win.pending[f] : f \in ChangedFolders}
Active == FullFolders \cup ChangedFolders
Runs == IF FullFolders # {} /\ ChangedPaths # {} THEN 2 ELSE 1

ClickIndex ==
  /\ win.on /\ win.button
  /\ Active # {}
  /\ jobs + Runs \leq MaxJobs
  /\ win' = [win EXCEPT
       !.pending  = [f \in Folder |-> IF f \in ChangedFolders THEN {} ELSE @[f]],
       !.badge    = [f \in Folder |-> IF f \in Active /\ @[f] # "none" THEN "indexing" ELSE @[f]],
       !.indexing = Active,
       !.button   = FALSE,
       !.count    = 1,
       !.queued   = IF FullFolders # {} THEN ChangedPaths ELSE {}]
  /\ \E t \in Thread : IF FullFolders # {} THEN StartFolders(t, FullFolders)
                                           ELSE StartPaths(t, ChangedPaths)
  /\ lost' = [lost EXCEPT !.cut = {}]
  /\ UNCHANGED <<disk, clock, db, faults, hazard, unread, exits, scans, edits>>

StartApp ==
  /\ ~win.on
  /\ win' = LoadFolders(NewWindow, db)
  /\ UNCHANGED <<vars, unread, exits, scans, edits, lost>>

\* The process ends: by closing, which waits ten seconds for the threads, or
\* by a crash.  What waits for indexing is kept in memory only.
Exit ==
  /\ win.on /\ exits < MaxExits
  /\ exits' = exits + 1
  /\ win' = NoWindow
  /\ thread' = [t \in Thread |-> IdleThread]
  /\ lost' = [paths |-> lost.paths \cup UnderWay \cup UNION {win.pending[f] : f \in Folder},
              cut   |-> {}]
  /\ UNCHANGED <<disk, clock, db, jobs, faults, hazard, unread, scans, edits>>

-----------------------------------------------------------------------------
Dropped(th) == th.chunk \cup Extracted(th)
StoredNow(t) == IF At(t, "write") THEN Texts(thread[t]) \ thread[t].torn ELSE {}

\* A failed chunk loses its paths; a path stored with its present text is no
\* longer lost.
PanelThread(t) ==
  /\ win.on
  /\ ThreadStep(t)
  /\ lost' = [lost EXCEPT !.paths = IF ChunkFails(t) THEN @ \cup Dropped(thread[t])
                                                     ELSE @ \ StoredNow(t)]
  /\ UNCHANGED <<win, unread, exits, scans, edits>>

PanelFinish(t) ==
  Finish(t) /\ Signal("finished", {}) /\ UNCHANGED <<unread, exits, scans, edits, lost>>

Slot == OnPathsChanged \/ OnScanFinished \/ StartQueued \/ EndRun

PanelNext ==
  \/ \E p \in Path : PanelDelete(p) \/ \E good \in BOOLEAN : PanelWrite(p, good)
  \/ Poll \/ ScanDone \/ Slot
  \/ \E S \in SUBSET Path : PollCutShort(S)
  \/ \E f \in Folder : UserAdd(f) \/ UserRemove(f)
  \/ ClickIndex \/ StartApp \/ Exit
  \/ \E t \in Thread : PanelThread(t) \/ PanelFinish(t)

\* The threads run, and the window handles its signals.  Nothing makes a file
\* change, the user click or the process start or end.
PanelSpec ==
  /\ PanelInit /\ [][PanelNext]_panelVars
  /\ WF_panelVars(Slot)
  /\ \A t \in Thread : WF_panelVars(PanelThread(t) \/ PanelFinish(t))

-----------------------------------------------------------------------------
WindowState ==
  [on : BOOLEAN, badge : [Folder -> {"none", "pending", "done", "changed", "indexing"}],
   at : [Folder -> {"absent", "new", "indexed"}], pending : [Folder -> SUBSET Path],
   indexing : SUBSET Folder, queued : SUBSET Path, count : 0..1, button : BOOLEAN,
   inbox : Seq([sig : {"changed", "scanDone", "finished"}, paths : SUBSET Path])]

PanelTypeOK ==
  /\ win \in WindowState
  /\ unread \in SUBSET Path /\ lost \in [paths : SUBSET Path, cut : SUBSET Folder]
  /\ exits \in 0..MaxExits /\ scans \in 0..MaxScans /\ edits \in 0..MaxEdits

Searched(p) == \E c \in db.contents : c.file = FileId(db, p) /\ c.text = TextOf(p)

\* A file below a registered folder that the window holds to be indexed, whether
\* or not that could be saved, is found by its present text,
\* or something is still going to see to that: it waits with the folder, in the
\* queue, in a signal, with a thread or in the journal.  No order of clicks,
\* reports, runs and folder changes forgets one, apart from the named hazards.
NothingForgotten ==
  win.on => \A f \in Registered(db) : win.at[f] = "indexed" =>
    \A p \in Under[f] \ (lost.paths \cup hazard.stale) :
      disk[p].ver # 0 /\ disk[p].good
        => Searched(p) \/ p \in win.pending[f] \cup UnderWay \cup unread

\* Every run ends, also one whose chunks fail: the button is enabled again.
ButtonComesBack == (win.on /\ ~win.button) ~> (win.button \/ ~win.on)

\* The changed files that wait behind a full run get their turn.
QueueDrains == win.queued # {} ~> win.queued = {}

\* The button is enabled only when all index threads have ended ("both threads
\* must have finished before the run counts as complete").
ButtonMeansIdle == win.on /\ win.button => \A t \in Thread : At(t, "idle")
=============================================================================
