------------------------------- MODULE Reindex -------------------------------
(***************************************************************************)
(* The threads that index file contents (ContentReindexThread and          *)
(* FolderIndexThread of core/scanner.py) on the tables of IndexTables,     *)
(* while files are written and deleted and folders are registered and      *)
(* removed.                                                                *)
(*                                                                         *)
(* A thread takes its paths in chunks.  For a chunk it asks the database   *)
(* for the stored times (check), compares them with the files (stat), has  *)
(* the changed ones read by a pool of workers (extract, in any order, also *)
(* while results are being stored), collects the results and stores them   *)
(* in small batches: it first stats the files again and reads their rows   *)
(* (flush), and then writes in one transaction (write).                    *)
(*                                                                         *)
(* A file's modification time is its version: a number that each write     *)
(* raises.  The text of a version is that number, or NoText when the file  *)
(* yields none (empty, too large, not supported, damaged, locked).         *)
(*                                                                         *)
(* Not covered: writes that keep the old modification time; a list that    *)
(* holds a path twice.                                                     *)
(***************************************************************************)
EXTENDS IndexTables, FiniteSets

CONSTANTS Within,      \* Within[f]: the folders inside folder f
          Earlier,     \* folders that an earlier session indexed when they were empty
          Thread,
          ChunkSize,   \* _BATCH_SIZE: paths checked with one query
          FlushSize,   \* _RESULT_FLUSH_SIZE: results stored in one transaction
          MaxWrites,   \* bound: writes of files
          MaxJobs,     \* bound: threads started
          MaxFaults    \* bound: database errors

ASSUME SizesPositive == ChunkSize \in Nat \ {0} /\ FlushSize \in Nat \ {0}
ASSUME BoundsNatural == MaxWrites \in Nat /\ MaxJobs \in Nat /\ MaxFaults \in Nat
ASSUME UnderPaths == Under \in [Folder -> SUBSET Path]
ASSUME WithinFolders ==
  /\ Within \in [Folder -> SUBSET Folder] /\ Earlier \subseteq Folder
  /\ \A f \in Folder : \A g \in Within[f] : Under[g] \subseteq Under[f]
ASSUME NoRowIsNone == NoRow \notin [mtime : Nat, has : BOOLEAN]

VARIABLES disk,     \* disk[p]: version (0: no such file), does it yield a text
          clock,    \* the last version given
          db,       \* the tables of index.db
          thread,
          jobs,     \* threads started so far
          faults,   \* database errors so far
          hazard    \* what the named hazards have touched (history, not in the code)

vars == <<disk, clock, db, thread, jobs, faults, hazard>>

Version == 0..MaxWrites

\* Faulty (mutant): no text is stored as NULL.
MutantTextOf(p) == IF disk[p].good THEN disk[p].ver ELSE NoRow

TextOf(p) == IF disk[p].good THEN disk[p].ver ELSE NoText
OnDisk == {p \in Path : disk[p].ver # 0}

None == [p \in Path |-> 0]

\* walk: folders still to be walked.  todo: paths of later chunks.  chunk:
\* paths handed to the pool, ready: read by it, buf: collected.  seen: stored
\* time where there is content.  mtime, found, time: what flush has read.
IdleThread ==
  [pc |-> "idle", walk |-> {}, todo |-> {}, chunk |-> {}, ready |-> {}, buf |-> {},
   seen |-> None, text |-> None, mtime |-> None, found |-> None, time |-> None,
   torn |-> {}]

\* The thread goes on with its next chunk, or is done.
NextChunk(th) ==
  [IdleThread EXCEPT !.pc = IF th.todo = {} THEN "done" ELSE "check", !.todo = th.todo]

NoHazard == [stale |-> {}, revived |-> {}]

Init ==
  /\ disk = [p \in Path |-> [ver |-> 0, good |-> FALSE]]
  /\ clock = 0
  /\ db = [EmptyTables EXCEPT !.folders = [f \in Folder |-> IF f \in Earlier THEN "indexed"
                                                                          ELSE @[f]]]
  /\ thread = [t \in Thread |-> IdleThread]
  /\ jobs = 0
  /\ faults = 0
  /\ hazard = NoHazard

At(t, pc) == thread[t].pc = pc
Extracted(th) == th.ready \cup th.buf
Held(th) == th.todo \cup th.chunk \cup Extracted(th) \cup UNION {Under[f] : f \in th.walk}
RegisteredPaths(tab) == UNION {Under[f] : f \in Registered(tab)}
Fault == faults < MaxFaults /\ faults' = faults + 1

-----------------------------------------------------------------------------
(* The file system *)

\* A write reaches a thread that has read the file and not stored it yet: the
\* text it holds is no longer that of the file.
WriteFile(p, good) ==
  /\ clock < MaxWrites
  /\ clock' = clock + 1
  /\ disk' = [disk EXCEPT ![p] = [ver |-> clock + 1, good |-> good]]
  /\ thread' = [t \in Thread |->
       IF p \in Extracted(thread[t]) THEN [thread[t] EXCEPT !.torn = @ \cup {p}]
                                     ELSE thread[t]]
  /\ UNCHANGED <<db, jobs, faults, hazard>>

DeleteFile(p) ==
  /\ disk[p].ver # 0
  /\ disk' = [disk EXCEPT ![p] = [ver |-> 0, good |-> FALSE]]
  /\ UNCHANGED <<clock, db, thread, jobs, faults, hazard>>

-----------------------------------------------------------------------------
(* The window registers and removes folders, and starts threads *)

\* Faulty (mutant): a folder inside a registered one is registered as well.
MutantAddFolder(f) ==
  /\ db' = AddIndexedFolder(db, f)
  /\ UNCHANGED <<disk, clock, thread, jobs, faults, hazard>>

\* A folder inside a registered one is refused; registered ones inside it are
\* replaced by it.
AddFolder(f) ==
  LET inside == Registered(db) \cap Within[f]
      without == [DeleteFiles(db, UNION {Under[g] : g \in inside}) EXCEPT
                    !.folders = [g \in Folder |-> IF g \in inside THEN "absent" ELSE @[g]]]
  IN  /\ ~ \E g \in Registered(db) : f \in Within[g]
      /\ db' = AddIndexedFolder(without, f)
      /\ UNCHANGED <<disk, clock, thread, jobs, faults, hazard>>

\* A thread that works on the folder is not stopped.
RemoveFolder(f, queued) ==
  LET held == Under[f] \cap (queued \cup UNION {Held(thread[t]) : t \in Thread}) IN
  /\ f \in Registered(db)
  /\ db' = RemoveIndexedFolder(db, f)
  /\ hazard' = [hazard EXCEPT !.revived = (@ \ Under[f]) \cup held]
  /\ UNCHANGED <<disk, clock, thread, jobs, faults>>

StartThread(t, th) ==
  /\ At(t, "idle")
  /\ jobs < MaxJobs
  /\ jobs' = jobs + 1
  /\ thread' = [thread EXCEPT ![t] = th]

\* ContentReindexThread on a list of paths.
StartPaths(t, S) == StartThread(t, [IdleThread EXCEPT !.pc = "check", !.todo = S])

\* FolderIndexThread on a list of folders.
StartFolders(t, F) == StartThread(t, [IdleThread EXCEPT !.pc = "walk", !.walk = F])

-----------------------------------------------------------------------------
(* FolderIndexThread.run, ContentReindexThread.run *)

\* os.walk below the folders, and run() on the files found.
Walk(t) ==
  LET found == OnDisk \cap UNION {Under[f] : f \in thread[t].walk} IN
  /\ At(t, "walk")
  /\ thread' = [thread EXCEPT ![t] = NextChunk([IdleThread EXCEPT !.todo = found])]
  /\ UNCHANGED <<disk, clock, db, jobs, faults, hazard>>

\* The next chunk is the next ChunkSize paths, of a list in no special order.
IsChunk(S, todo) ==
  Cardinality(S) = IF Cardinality(todo) < ChunkSize THEN Cardinality(todo) ELSE ChunkSize

Checked(t, seen) ==
  /\ At(t, "check")
  /\ \E S \in SUBSET thread[t].todo :
       /\ IsChunk(S, thread[t].todo)
       /\ thread' = [thread EXCEPT
            ![t].pc = "stat", ![t].todo = @ \ S, ![t].chunk = S,
            ![t].seen = [p \in Path |-> IF p \in S THEN seen[p] ELSE 0]]
  /\ UNCHANGED <<disk, clock, db, jobs, hazard>>

StoredTime ==
  [p \in Path |-> IF p \in Known(db) /\ db.files[p].has THEN db.files[p].mtime ELSE 0]

\* SELECT path, modified, has_content: no row and has_content = 0 are alike.
Check(t) == Checked(t, StoredTime) /\ UNCHANGED faults

\* An error of that query is logged, and every path taken for a new one.
CheckFails(t) == Checked(t, None) /\ Fault

\* New and changed files go to the pool; those that cannot be stat'ed do not.
Stat(t) ==
  LET th    == thread[t]
      needs == {p \in th.chunk \cap OnDisk : th.seen[p] # disk[p].ver}
  IN  /\ At(t, "stat")
      /\ thread' = [thread EXCEPT
           ![t] = IF needs = {} THEN NextChunk(th)
                  ELSE [th EXCEPT !.pc = "extract", !.chunk = needs, !.seen = None]]
      /\ UNCHANGED <<disk, clock, db, jobs, faults, hazard>>

\* A worker of the pool reads a file.
Extract(t, p) ==
  /\ thread[t].pc \in {"extract", "flush", "write"}
  /\ p \in thread[t].chunk
  /\ thread' = [thread EXCEPT ![t].chunk = @ \ {p}, ![t].ready = @ \cup {p},
                              ![t].text[p] = TextOf(p)]
  /\ UNCHANGED <<disk, clock, db, jobs, faults, hazard>>

\* The thread takes a result that as_completed hands it.
Collect(t, p) ==
  LET th   == thread[t]
      buf  == th.buf \cup {p}
      full == Cardinality(buf) >= FlushSize \/ th.chunk \cup (th.ready \ {p}) = {}
  IN  /\ At(t, "extract")
      /\ p \in th.ready
      /\ thread' = [thread EXCEPT ![t].ready = @ \ {p}, ![t].buf = buf,
                                  ![t].pc = IF full THEN "flush" ELSE "extract"]
      /\ UNCHANGED <<disk, clock, db, jobs, faults, hazard>>

\* bulk_upsert_files stats the files and reads the rows they have, before its
\* first write opens the transaction.  (It does so file by file, and each file
\* is looked at once; here all at one moment.)
FlushRead(t) ==
  LET here   == thread[t].buf \cap OnDisk
      stored == here \cap Known(db)
  IN  /\ At(t, "flush")
      /\ thread' = [thread EXCEPT
           ![t].pc    = "write",
           ![t].mtime = [p \in Path |-> IF p \in here THEN disk[p].ver ELSE 0],
           ![t].found = [p \in Path |-> IF p \in stored THEN db.born[p] ELSE 0],
           ![t].time  = [p \in Path |-> IF p \in stored THEN db.files[p].mtime ELSE 0]]
      /\ UNCHANGED <<disk, clock, db, jobs, faults, hazard>>

\* The files of the batch that have a time, and those of them with a text.
Batch(th) == {p \in th.buf : th.mtime[p] # 0}
Texts(th) == {p \in Batch(th) : th.text[p] # NoText}
FilesStored(th) == BulkUpsertFiles(db, Batch(th), th.found, th.time, th.mtime)
IdsOf(th) == PathToId(FilesStored(th), th.found)
Storable(th) == References(FilesStored(th), Texts(th), IdsOf(th))
Stored(th) == BulkUpsertContents(FilesStored(th), Texts(th), IdsOf(th), th.text)

\* The batch leaves the thread.
Flushed(th) ==
  IF th.chunk \cup th.ready = {} THEN NextChunk(th)
  ELSE [th EXCEPT !.pc = "extract", !.buf = {}, !.mtime = None, !.found = None, !.time = None,
                  !.text = [p \in Path |-> IF p \in th.buf THEN 0 ELSE @[p]],
                  !.torn = @ \ th.buf]

HasContent(p) == p \in Known(db) /\ db.files[p].has

\* Two ways to store a time beside a text that is not of that time: the file
\* was written after it was read, or it has no text any more and keeps its row.
Mismatched(th) ==
  (Texts(th) \cap th.torn) \cup {p \in Batch(th) \ Texts(th) : HasContent(p)}

FlushWrite(t) ==
  LET th == thread[t] IN
  /\ At(t, "write")
  /\ Storable(th)
  /\ db' = Stored(th)
  /\ hazard' = [hazard EXCEPT !.stale = (@ \ Texts(th)) \cup Mismatched(th)]
  /\ thread' = [thread EXCEPT ![t] = Flushed(th)]
  /\ UNCHANGED <<disk, clock, jobs, faults>>

\* An error, or a file whose row has gone since it was read, ends the chunk:
\* what is committed stays, the rest is neither stored nor tried again.
ChunkFails(t) ==
  /\ thread[t].pc \in {"extract", "flush", "write"}
  /\ \/ At(t, "write") /\ ~Storable(thread[t]) /\ UNCHANGED faults
     \/ Fault
  /\ thread' = [thread EXCEPT ![t] = NextChunk(thread[t])]
  /\ UNCHANGED <<disk, clock, db, jobs, hazard>>

\* finished_signal.
Finish(t) ==
  /\ At(t, "done")
  /\ thread' = [thread EXCEPT ![t] = IdleThread]
  /\ UNCHANGED <<disk, clock, db, jobs, faults, hazard>>

-----------------------------------------------------------------------------
ThreadStep(t) ==
  \/ Walk(t) \/ Check(t) \/ CheckFails(t) \/ Stat(t)
  \/ \E p \in Path : Extract(t, p) \/ Collect(t, p)
  \/ FlushRead(t) \/ FlushWrite(t) \/ ChunkFails(t)

FileStep == \E p \in Path : DeleteFile(p) \/ \E good \in BOOLEAN : WriteFile(p, good)

\* The window as seen from here: any registered paths or folders, at any time.
WindowStep ==
  \/ \E f \in Folder : AddFolder(f) \/ RemoveFolder(f, {})
  \/ /\ UNCHANGED <<disk, clock, db, faults, hazard>>
     /\ \E t \in Thread :
          \/ \E S \in (SUBSET RegisteredPaths(db)) \ {{}} : StartPaths(t, S)
          \/ \E F \in (SUBSET Registered(db)) \ {{}} : StartFolders(t, F)

Next == FileStep \/ WindowStep \/ \E t \in Thread : ThreadStep(t) \/ Finish(t)

Spec == Init /\ [][Next]_vars

=============================================================================
