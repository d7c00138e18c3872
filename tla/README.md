# A TLA+ model of SeekSeek

SeekSeek is a Windows desktop program that finds files by name and by content.
It reads the Master File Table (MFT) of each NTFS volume into an in-memory list,
keeps that list up to date from the volume's change journal (USN journal), and
keeps a full-text index of chosen folders in SQLite. This directory holds TLA+
modules translated from the Python source under `src/`, the TLC configurations
that check them on small instances, and proofs checked by TLAPS.

## 1. Inventory

| Component | Source | State it keeps | Operations |
|---|---|---|---|
| File list | `core/mft_cache.py` | `_by_ref`, `_by_path`; table `file_cache` | populate, add_or_update, remove_by_ref, remove_excluded, save_to_db, load_from_db, search |
| Scanner threads | `core/scanner.py` `ScannerThread` | stop flag; tables `usn_state`, `file_cache` | full scan, fast start (load the saved list and catch up) |
| USN monitor | `core/scanner.py` `USNMonitorThread`, `_apply_usn_changes` | stop flag; `usn_state` | poll every five seconds, apply, report paths, ask for a full scan |
| Content index threads | `core/scanner.py` `ContentReindexThread`, `FolderIndexThread` | none of their own | choose files by mtime, extract in a pool, write in small batches |
| NTFS reading | `core/mft_scanner.py` | none | enumerate the MFT, rebuild paths, read the journal, look up paths |
| Database | `core/indexer.py` | files, file_contents, two FTS5 tables kept by triggers, indexed_folders, usn_state, file_cache, file_cache_usn | upserts (single and bulk), folder registry, snapshots |
| Search | `core/searcher.py` | none | file names, contents, merge and ranking |
| Extraction | `core/extractor.py` | none | one function per format |
| Window | `gui/main_window.py` | thread handles, pending paths, queue, badges, results, preview cache, `_initializing` | start, rescan, index panel, search, preview, closing |
| Dialogs, settings, entry point, build | `gui/dialogs.py`, `config.py`, `main.py`, `build.py` | the settings file | edit exclusions, elevation, packaging |

How they interact. The window starts threads and gets their results as queued
Qt signals, handled one after the other on the window's thread. The scanner and
the monitor share the file list (a lock per operation) and the database (one
connection and one transaction per use); nothing orders the operations of one
against those of the other. The index threads share the tables of the content
index with the window's folder panel and with searches. Searches run on the
window's thread, over the list without its lock or over the tables.

What is hard, and what must hold in spite of it:

* The list must agree with the volume although files change while a scan reads
  them, while a poll looks their paths up, while the program is closed, and while
  a scan and a poll run side by side. The contract that makes it work is that
  `usn_state` never passes a change that the list does not have. Several places
  break it; section 5 lists them.
* The same for several drives, which share one transaction per poll and scan and
  one write lock, and any of which may fail.
* Restarts: the saved list and `usn_state` are committed at different times.
* Stopping: both threads look at their stop flag in the middle of a job, and
  finish the job as if it were complete.
* The two dictionaries of the list must agree, or the eviction in
  `add_or_update` removes the wrong row or none.
* The content index: `has_content`, `file_contents` and two full-text tables
  must agree; text and modification time are read at different moments; folders
  are removed while they are indexed.
* The index panel: two handlers of one signal, a queue, badges and pending paths.
* The table on the volume lies in pieces; reads fail or are cut; the numbers of
  the records, which everything else is keyed by, are only counted.
* A search reads state that changes under it.

`PROJECT.json` lists each hazard at its line, with the properties that watch it.

## 2. Modules

| Module | What it is |
|---|---|
| `FileIndex` | what the file list promises: a map from file to path with replace, put, drop, save, load |
| `MftCache` | `core/mft_cache.py` as it is written, with both dictionaries |
| `MftCacheProps`, `MftCacheProofs`, `MCMftCache` | its properties with the refinement of `FileIndex`, proofs, instances |
| `UsnSync` | scanner, monitor, window and database around one volume |
| `UsnSyncProps`, `UsnSyncProofs`, `UsnSyncLossProofs`, `MCUsnSync` | its properties; proofs about types and positions, about losses; instances |
| `Drives`, `DrivesProofs`, `MCDrives` | scan and poll over several drives, with their transactions, and properties; proofs; instance |
| `NtfsFormat` | run lists, fixups, attributes and names of a record as functions |
| `Exclusion` | the exclusion rules |
| `MftScan` | `enumerate_mft`: reading the table, the fallback, path resolution |
| `MftScanProps`, `MftScanProofs`, `MCMftScan` | its properties with their reference definitions; proofs; small volumes |
| `ContentStore` | what the content index promises a search |
| `IndexTables` | the tables of the content index and the statements of `core/indexer.py` |
| `Reindex` | the index threads over `IndexTables` |
| `ReindexProps`, `ReindexProofs`, `MCReindex` | properties with the refinement of `ContentStore`; proofs; instances |
| `IndexPanel`, `IndexPanelProofs`, `MCIndexPanel` | the window's index panel over `Reindex`, with properties; proofs; instances |
| `Search` | search, results and preview |
| `SearchProps`, `SearchProofs`, `MCSearch` | properties, proofs, instance |

How they fit together. `UsnSync` and `Search` use the file list through what
`FileIndex` promises: `MftCache` is shown to implement it. `Drives` takes from
`UsnSync` that a poll brings a drive's files from one position to another, and
counts positions only. `MftScan` is what `ScanRead` of `UsnSync` does in one step
per record, on a volume at rest. `IndexPanel` EXTENDS `Reindex` and adds the
window; of scanner and monitor it keeps what they do to the panel (`Poll`,
`PollCutShort`, `ScanDone`). `Search` has the content index as the version whose text each file is
found under, which is what `ContentStore` promises and `Reindex` implements.

### MftCache

A row is its path alone: name, extension and lower-case name are computed from it;
size and time steer nothing. Dictionaries are total functions with a value for "no
entry". `populate`, `add_or_update` and the removals change the list in one
critical section each, so each is one action. `save_to_db` and `load_from_db` are
not atomic, and each is two steps of the thread that calls it: `SaveCopy` (the
entries are copied under the lock) and `SaveWrite` or `SaveFails` (the table is
written after the lock was released); `LoadRead` (the table is read) and
`LoadSwap` (the dictionaries are swapped). Between the two steps the list and the
table may change, and saves and loads of different threads may cross. `FileIndex`
promises no more than that: a caller takes the list of one moment and persists
exactly that (`TakeList`, `Save`, `GiveUpSave`), or takes what is saved and shows
exactly that (`TakeSaved`, `Load`). Two things are kept that are easy to lose:
paths are compared in lower case although rows keep their spelling, and names that
start with `$` are passed over by `populate` and `add_or_update`. `load_from_db`
rebuilds `_by_path` from table rows in no stated order, hence `by_path'` is any of
`IndexOf(rows[t])`. `Forget` is the common part of `remove_by_ref` and
`remove_excluded`: both pop the row, and pop its path whichever file that path
names at the time.

### UsnSync

The state: the volume (`disk`, the path of every file; `journal`), the committed
tables (`db`: the saved list, its journal position, `usn_state`), the list
(`index`), and one record for the window, each scan and the monitor. A USN is
the number of records before it. Actions follow the code between two points at
which another thread can get in:

* a full scan: `ScanOpen` (journal position, taken first), `ScanRead` (each MFT
  record), `ScanCollect` (the entries, with `usn_state` saved and committed),
  `ScanPopulate`, `ScanSnapshot` and `ScanStore` (the two halves of `save_to_db`);
* the fast start: `ScanLoadRows` and `ScanLoad`;
* a poll: `MonLoad` (`usn_state`), `MonQuery` (journal id, range, the position to
  report), `MonRead`, `MonDelete`, `MonResolve` (each path), `MonUpdate`,
  `MonSave`; with `MonBreak` where the stop flag is looked at, and
  `MonReadRecreated` for a journal re-created between the query and the read: the
  poll goes on with no changes and saves the new journal's id with its position;
* the window: one action per slot, with the queue of signals, the question of
  the rescan command (whose event loop lets other slots run) and the wait for
  the old monitor (during which no slot runs);
* `closeEvent` in three steps, each of which may go on before its thread ended
  if `"timeout"` is possible, and `ProcessExit`; `Crash` at any moment;
* failing calls: `ScanUnreadable`, `ScanDbError`, `MonReadCutShort`,
  `MonVolumeError`, `MonUnresolved`, `MonDbError`, `CloseDbError`.

`size` stands for the files that are not modelled one by one: the window starts
the fast way if the saved list has 1000 rows or more, and a stopped scan may have
kept any number. Transactions are modelled by what is committed: SQLite opens a
transaction at the first write, and closing the connection takes back what was
not committed. That is why `Stored` leaves `cacheUsn` alone: `save_to_db` writes
`file_cache_usn` after the only commit and no caller commits again.

`risk` is a history variable. It is set when one of the hazards named above
`Open` happens and cleared by a full scan without any. It is never read by an
action that changes another variable.

### Drives

Positions instead of files: `list[d]` is how far the list has drive `d`'s changes,
`usn[d]` the committed `usn_state`, `tx` the positions saved and not committed.
The write lock is held from the first entry of `tx` to the commit, as SQLite
does; `PollSave`, `ScanSave` and `ScanStore` wait for it, and `PollTimesOut`,
`ScanTimesOut` give up after the thirty seconds. `PollGivesUp` is the early
return, with everything before it taken back. `PollApply` may be cut short: by
the stop flag between two changes, by a read of the journal that fails half-way, by
lookups that fail. The position moves to the end all the same, the list stays where
it is (`behind`), and the rest is not reported: `mon.cut` names the drive until the
commit, `untold` from the commit until a scan makes up for it. `told` (what the index
panel has been told, or a scan has passed over), `untold` and `behind` (drives touched
by a hazard that `UsnSync` names: raced, left out, cut short) are history.

### NtfsFormat and MftScan

`NtfsFormat` has `_parse_data_runs` (one round of its loop is `ReadItem`: lengths and
signed distances of any width, lists cut off anywhere), `_apply_fixup`, and `_parse_mft_record`: an attribute is its type,
whether its header fits (`form`), whether its value does (`inside`) and, for a
name, namespace, name and parent. `MftScan` runs `enumerate_mft` in the steps in
which a call can fail: `ReadHead`, `Seek`, `Read`, `ReadShort`, `ReadFails`,
`UsnBatch`; then `Resolve`, one call of `_get_path` from the loop at a time, with
its cache. `GetPath` is the recursion written out along the chain of parents:
`Top` is where it stops, `Descent` what each call returns. Where a place on the
volume holds no whole record, `RecordAt` is empty. Assumptions say what a volume
is: the pieces of a table follow one another and share no cluster (`VolumeShapes`), and
NTFS stores them as `Encoded` defines, cut off or not (`RunLists`); the layout holds at
least what is valid; a record has a fixup for each sector and one of four name spaces
for each name (`RecordShapes`); and `NoEntry`, the model's `None`, is no path and no
attribute (`NoEntryApart`). TLC evaluates them all.

### IndexTables, Reindex and IndexPanel

Each operator of `IndexTables` is a statement with its triggers and cascade, and
each function of `indexer.py` a composition of them. Ids are AUTOINCREMENT, so
`<<path, n>>`; a row that is deleted and inserted again has another id, and that
is what a thread that has read the old one meets (`References`).

A thread of `Reindex` is a chunk at a time: `Check` (the query), `Stat`,
`Extract` (each file, in the pool), `Collect`, `FlushRead` (stat and
read the rows, before the transaction opens) and `FlushWrite` (the transaction).
A file's modification time is its version. `hazard.stale` names files whose text
and time were taken from different versions, `hazard.revived` files that a thread
held when their folder was removed.

`IndexPanel` adds one action per slot and command of the window, the inbox of
signals, and the loss of pending paths with the process. A poll reports every file
changed since the last position (`Poll`), or only some of them and moves the position
past the rest (`PollCutShort`: the monitor is stopped between two changes, as every
finished scan does, a path cannot be looked up, or the read of the journal fails
half-way). `OnScanFinished` also has the case in which the folder table cannot be read
and the badges stay. The question in `UserAdd` runs an event loop between reading the
folders and writing them, but no slot that it can run registers or removes a folder,
so the command is one action. `lost` (history) names files a failed chunk dropped,
files a scan or a poll cut short passed over unreported, files pending when the
process ended, and folders registered again during their run after they were removed
or replaced. What waits in the window when a folder is removed counts
as held for `hazard.revived` (item 18 of section 5).

### Search

A file is its path as a sequence of names, and a name is a word, because the
folder clause compares paths and the full-text table of names holds the path too.
`Begins` and `Inside` say which word begins or contains which. `FtsQuery`, `Match`,
`FolderClause`, `NameRows`, `TextRows` translate `searcher.py`; `NamesStep` and
`ContentsStep` are the two queries, between which an index thread may commit. The
list search is `ListStep`, one entry at a time, over a dictionary that others
change: entries are appended, become gaps, move by a rename, are packed when the
dictionary is resized, or stay behind in the old dictionary after `populate`.
`Grown` is Python's check. An exception in a slot ends the process (`AskFails`,
`ListRaises`): PyQt6 does so when no hook is set, and `main.py` sets none. For
that reason this run, like those of the index threads, which come to rest when
their bounds are used up, does not check for deadlock.

## 3. Runs

| Run | Shows |
|---|---|
| cache_one_volume | types; the dictionaries are inverse to each other; refinement of `FileIndex` |
| sync_faults | types; nothing is lost without a named hazard; the saved list can be brought up to date; no position is ahead of the journal |
| sync_moves | the same with two files that exchange paths, two of them excluded; no path stays listed twice |
| sync_two_scans | two scans, or a scan and a fast start, at once; the list gets in step again and again |
| sync_crash | violation of `NothingLost` by a crash alone |
| drives | two drives: nothing lost, reports keep up, each drive catches up |
| mft_scan | some 1,130 volumes: numbers, completeness, paths, termination |
| reindex | tables agree, skipped files are current, removed folders stay removed; refinement of `ContentStore` |
| panel | no changed file of an indexed folder is forgotten, also where a folder replaces the one inside it; removed folders stay removed |
| panel_live | every run ends with the button enabled; queued files get their turn; restarts |
| panel_button | violation of `ButtonMeansIdle` |
| search | answers hold what fitted throughout and nothing that never did; previews are as new as the results |

Bounds. All of them are constants used in guards; there are no state constraints.

* `MftCache`: two record numbers, three spellings of two paths and one `$` name, and
  two threads that save and load. The longest interplay in `add_or_update` involves
  the row's old path, its new path and the new path's previous owner, so two rows and
  two paths. Two threads are enough for two saves, or a save and a load, to cross. The
  feeds are few, so that the abstract `Replace` cannot pass for another step.
* `UsnSync`: one file where order in time is the question, two where they compete
  for a path. `MaxUsn` bounds the changes: two are enough for one inside and one
  outside any window between two steps, three for an exchange of paths. Two of the
  four paths of sync_moves are excluded: with one, two files never lie in excluded
  folders at a time, and that case (item 7 of section 5) would not happen.
  `MaxJournals` = 1 (one re-creation), `MaxFaults` = 1, `MaxInbox` = 1 (no poll and
  no confirmed rescan starts while that many signals wait; signals under way may
  still exceed it). Which hazards a run allows is the constant `Environment`.
* `Drives`: two drives, each of which may go away: when it is the second, a poll that
  gives up there has already applied and saved the first; when it is the first, no
  poll comes to the live one behind it any more. Two scans, one change each, one
  failing call: a drive that goes away starts a scan without one, so that the call
  can be a wait for the database that expires under that scan.
* `MftScan`: tables of four to six records in one to three pieces with any cut of the
  run list; every pair of attributes beside a long name, in both orders, and without
  one; every assignment of parents to three records, missing and circular ones
  included; chains of four records, numbered in any order; `MaxDepth` 2 in place of
  256, so that chains of three exceed it. Two failing
  calls, so that one can hit the table and one the fallback.
* `Reindex`, `IndexPanel`: two nested folders with two files and two threads. The
  panel run has two folder changes (one folder is registered at the start, so that
  one can be replaced and removed, or removed and registered again), three runs, one
  scan and one failing call; two files so that a poll can report one and lose the
  other. In panel_live the folders are side by side, with one file. Two writes: one
  between a read and its store, one after it.
* `Search`: two files of different depth, one of which has the other's folder name
  in its path; one new version, two changes during a search (a dictionary needs a
  removal and an addition to keep its size).

Symmetry: files in `sync_moves`, threads in `reindex` and `panel_button`, threads and
files in `panel`; these runs check no liveness.

Fairness. `UsnSync` (`LiveSpec`), `Drives` and `IndexPanel` assume weak fairness of
each thread and of the window's slots: threads are preemptive and hold no lock
for ever, and the event loop handles queued signals in order. The user, files,
volumes, faults and the start and end of the process are not fair. `MftScan` needs
none: `ScanProgresses` says that a step which is not a failure makes progress, so
the scan ends because failures are bounded.

`EventuallyInStep` says that from any moment on, the list agrees with the volume
at that or a later moment, or the program was closed, or a named hazard happened.
It covers the detour through an expired journal: poll, signal, full scan, new
monitor. The number of changes is bounded, so the volume falls silent in the end.

## 4. Properties

* `PathIndexExact`, `KeepsPromise` (`MftCache`). An eviction that misses a row
  needs an update, a rename and a re-creation in the right order.
* `NothingLost`: at rest, each file is listed where it is or its change is still
  ahead of `usn_state`. This is the contract of section 1, and it is false.
* `OnlyKnownLosses`: it holds as long as no hazard of the list above `Open` has
  happened since the last full scan. This is the claim that the list of reasons
  is complete: interleavings that are not on it (a poll that reads beyond the
  position it reports, a poll that loaded its start before a scan replaced the
  list, a crash between `usn_state` and the list, ...) are harmless.
* `SavedCopyCovered`: the same for the saved list, in every state, because the
  process may end in any.
* `NeverAhead`: a position ahead of the journal would pass over records not yet
  written. Positions wander from scans and polls into the database, from there
  into later polls and scans and through crashes.
* `ShownOnce`: when everything is at rest, no path is listed for two files, apart
  from hazards, changes still ahead, and two files that both lie in excluded folders
  now. `add_or_update` evicts a path's former owner, but polls look paths up in an
  order that need not be that of the renames.
* `EventuallyInStep`: see section 3.
* `PositionsCovered`, `ReportsKeepUp`, `EveryDriveCatchesUp` (`Drives`): the contract
  drive by drive. The early return of a poll loses neither a position nor a report,
  because both are taken back together. A poll that is cut short does lose reports:
  `ReportsKeepUp` leaves its drives out (`untold`) until a scan has passed over them.
  `EveryDriveCatchesUp` covers a live drive before a dead one and one behind it, where
  only the scans that each poll asks for bring it up to date.
* `NumbersRight`, `Complete`, `PathsRight`, `ScanProgresses` (`MftScan`): each compares
  the code with a reference definition: the place of a record, the records in use
  with a long name, the path up to the root.
* `TablesAgree`, `SinglesAgree`, `SkippedIsCurrent`, `RemovedStaysRemoved`,
  `ImplementsStore` (`Reindex`): four tables, two threads and a folder removal.
* `NothingForgotten`, `ButtonComesBack`, `QueueDrains`, `ButtonMeansIdle` (`IndexPanel`).
  `NothingForgotten` is about the folders that the window holds to be indexed: whether
  `indexed_at` could be saved does not matter.
* `AnswerRight` (`Search`) is a form of regularity of reads: `must` and `may` collect,
  during the search, which files fitted all the time and at some time, by a
  definition of "fits" that does not mention queries, joins or patterns. `Unanswerable` names the
  four mishaps in which files may be missing; nothing is ever added.
* `PreviewTrue`: the cache of preview texts is keyed by path and forgotten with each
  search, so a text read from a file is at least as new as the results.

## 5. What the model shows about the code

Checked as violations:

1. `save_to_db` commits the list and then writes `file_cache_usn` without a
   commit (sync_crash). The catch-up at the next start (`_catchup_usn`) therefore
   never finds a position and never runs; a crash loses what polls had applied. (If
   a commit were added, the position would still be read after the list was copied,
   so a poll in between would be skipped.)
2. At the end of a full run with changed files queued, one slot starts the queued
   run and the next slot counts it as finished: the button is enabled while a
   thread works (panel_button).

Excused by name in the properties that pass (they fail without the excuse):

3. The monitor runs on during a rescan. `populate` overwrites what it applied,
   while `usn_state` is past it.
4. A scan stopped by closing the window replaces and saves the list with the part
   it has collected.
5. A poll stopped between two changes saves its position all the same
   (`MonBreak`); every finished scan stops the monitor that way. The changes after
   the break are neither in the list nor reported to the index panel, and no later
   poll sees them. A path that cannot be looked up, and a read of the journal that
   fails half-way, lose changes in the same way (`risk`, `behind`, `untold`, `lost`).
6. An expired journal starts one scan per poll; an unreadable drive does so as long
   as it is listed, and drives behind it are brought up to date by those scans
   only. The thread object of the scan that runs is replaced; what Qt does with a
   replaced object that is still running is not modelled beyond `Crash`.
7. A file that is renamed into an excluded folder keeps its row (`scanner.py:571`).
   Two of them may keep the same one: a full scan reads one file at a path, that file
   goes into an excluded folder, a second one takes the path, the scan reads it
   there too, and it goes into an excluded folder as well; the polls pass both over,
   and a search lists the path twice. The attempt to prove `ShownOnce` showed
   this; sync_moves has it.
8. After `error_signal` no monitor is started.
9. Rows are keyed by the record number alone, which is unique on one volume only:
   files of two volumes overwrite each other in the dictionary, and the row that
   loses stays in `_by_path`.
10. A read of the table that fails gives up the rest of the run without counting its
    records (a failing seek does count them): every later number is too small. Runs
    that are no whole number of records do the same. One torn attribute sends the
    whole drive to the fallback, and an error in the fallback ends it as a success.
11. A record whose long name cannot be decoded is dropped although it has a DOS name.
    Chains of more than 256 parents, and circles, get a path that depends on which
    entry was resolved first. So do folders in the upper part of such a chain, which
    are not that deep themselves, and everything in them: the call that gives up at
    the 257th parent returns the root, and what is put together from there on the way
    down is cached for each folder (`Shallow` leaves them out).
12. A file written between its extraction and the second `stat` is stored with its
    old text and its new time, and never read again until it changes; a file that
    yields no text any more keeps its old text (`hazard.stale`).
13. A folder removed while a thread holds its files gets rows back
    (`hazard.revived`); removed and registered again within a run it is marked as
    indexed without its rows; a failed chunk is logged and its folder marked all the
    same (`lost`).
14. A full scan moves `usn_state` past changes that no poll has reported to the index
    panel, a poll cut short past those it has not come to (item 5), and pending paths
    do not survive the process (`lost`).
15. A drive's own path as an indexed folder matches nothing in `_folder_clause` (its
    path ends in a backslash, and the pattern adds another).
16. A query of symbols only empties a search with two boxes; full-text syntax that
    FTS5 refuses ends as no rows.
17. A dictionary that is rebuilt while a search iterates over it may hide entries; one
    that changes its size raises, and nothing catches it.
18. The list of changed files of a folder that is replaced by the one around it is kept
    (only `_remove_indexed_folder` drops a list), and the end of a run sets
    `_folder_indexed_at` for folders that are no longer registered
    (`main_window.py:1239`). Together: when the outer folder is removed as well, the
    next click finds a folder "indexed" with changed files and indexes them, although
    none is registered (excused by `hazard.revived`). The attempt to prove
    `RemovedStaysRemoved` under the window showed this; panel has it.

## 6. Proofs

All theorems hold for every value of the constants that satisfies the module's
ASSUMEs.

`MftCacheProofs`:

* `DictionariesStayInverse`: `DistinctFeeds => (Spec => [](TypeOK /\ PathIndexExact))`;
* `CacheImplementsFileIndex`: `DistinctFeeds => (Spec => KeepsPromise)`;
* `CacheTypeCorrect`: `Spec => []TypeOK`, for feeds of any kind.

`DistinctFeeds` says that no record number and no lower-case path occurs twice in
a feed: one volume without orphaned records. It is necessary (item 9 above) for
the first two. Without it `populate` keeps the last of several entries, and that
there is a last one has to be shown: `MaxOf` gets it from the library's theorem
that a set of numbers has a least member (`WFMin`). The inductive invariant of the first two
is `TypeOK /\ PathIndexExact`; `PathIndexExact` has to speak of the saved table
too (`SavedDistinct`), because `load_from_db` rebuilds the reverse index from it.
It also has to speak of the copies and rows that threads hold inside `save_to_db` and
`load_from_db`, which become the table and the list later, whatever happened
meanwhile. The refinement needs the invariant for one step, `add_or_update`: the code
evicts the one file that `_by_path` names, the abstract step every file with that
path, and only exactness makes them the same. `RemoveExcluded` and `RemoveByRef` map to
`Drop`, `Populate` to `Replace`, and the halves of a save and a load to `TakeList`,
`Save` or `GiveUpSave`, `TakeSaved` and `Load`.

`UsnSyncProofs`, for any number of files, paths, simultaneous scans, changes,
re-created journals and failures:

* `TypeCorrect`: `Spec => []TypeOK`. `TypeOK` alone is not inductive: the end of a
  poll stores its start's journal id, so the start must be a real position while
  a poll is under way (`Started`).
* `PositionsReached`: `Spec => []NeverAhead`. The argument: the positions after a
  step are among those before it, the end of the journal, and the end of the poll
  that is being finished (`Sources`, `StepSources`); all of these are reached; and
  the journal only grows (`JournalGrows`). That the end of a poll is reached
  needs the second half of `NeverAhead`, kept by `RangeKept`.

`UsnSyncLossProofs`, for the same, proves what the list is for:

* `NoChangeLost`: `Spec => []OnlyKnownLosses`;
* `SavedCopyHolds`: `Spec => []SavedCopyCovered`;
* `OnePathOneFile`: `Spec => []ShownOnce`.

That the list of hazards is complete is thus not a matter of two files and three
changes. The inductive invariant of the three is `SyncGood`, the two invariants of
`UsnSyncProofs` and `Rest`. Its notion is that a list *fits* a position (`Fits`): each
file is `Right` in it (excluded, or listed where it is and nobody else there) or
`Ahead` (a record of it follows the position, or the journal does not reach back to
the position, so that the next poll asks for a scan). What the three theorems say of
single files and single states is weaker than that and not inductive: a step that
puts one file right evicts another, so every file's claim has to speak of the other
rows as well. The parts of `Rest`:

* `DiskGood`: each record is followed by, or is, one of its file that says whether the
  file exists. A poll deletes on the strength of the last record alone, and
  otherwise looks the file up later than it read.
* `Resting`, `Based`: when nothing runs nothing is held; where there is a list there is
  a position, and `file_cache_usn` stays empty (item 1 of section 5), so that no
  fast start skips anything on the strength of it.
* `SavedFits`: the saved list fits the position it was made at (`risk.savedAt`). Polls
  move `usn_state` past that one, and then the saved list is not claimed to cover
  anything any more (`LoadedRisk`, item 1 of section 5).
* `ScanGood`, for each scan: what it has read of each file is right unless a record
  follows its start (`ReadFits`), so its result fits its base (`CopyFits`). That this
  is good enough for `usn_state` when it replaces the list needs that the position
  has not moved past the base meanwhile: `Alone` and `Undisturbed` say that a scan
  not marked as raced had no other scan and no poll beside it, or only a poll that
  started before it and ends behind its start.
* `ListFits`: outside a hazard and outside the moment in which a scan has saved its
  position but not yet replaced the list (`Clean`), the list fits `usn_state`; and a
  poll under way knows all it has still to apply (`Fetched`), while what it has
  applied fits its end (`Done`).

The proof has one lemma per step, and below it one for each part that the step can
disturb. `VolumeFits` does the most: whatever becomes of the volume, a list that
fits goes on fitting, since each change is a record ahead of every position.
`SaveRest` turns `Fetched` and `Done` into a list that fits the poll's end when nothing
is left to apply.

`SearchProofs`, for any files, folders, words, relations between words, texts and
queries, and any number of changes during a search:

* `SearchTypeCorrect`: `Spec => []SearchTypeOK`.
* `PreviewsTrue`: `Spec => []PreviewTrue`. `Fresh` is the strengthening: a file
  that is there, and each text kept, is no older than the file was at the last
  search, and no version is newer than the last one written.
* `AnswersRight`: `Spec => AnswerRight`, from the invariant `Answering`. Between the two
  queries (`NamesRead`): what the first one found satisfies the name query for good,
  since names do not change, and contains what must be found. In the loop
  (`Reading`): every file due has been found or is still ahead at a place of the
  list (`Due`). For that the list must not have a file twice (`Once`): an entry that
  was overwritten behind a file that still fits is then not its entry
  (`Overwritten`). `MatchAsked` relates the query that is built to what was asked.

`ReindexProofs`, for any files, folders nested in any way, threads, chunk and batch
sizes, and any number of writes, threads and errors:

* `ReindexTypeCorrect`: `Spec => []TypeOK`.
* `TablesAlwaysAgree`: `Spec => []TablesAgree`. One lemma says what each statement of
  `IndexTables` leaves (`InsertFilesIs` to `DeleteFilesIs`), two more what
  `bulk_upsert_files` and `bulk_upsert_contents` do as a whole (`WroteFiles`,
  `WroteContents`), and none of them assumes that the rows read before are still
  there: where that matters it is the foreign key that stops the batch. `Agree` is
  `TablesAgree` with two additions, `Numbered` and `Placed`: the id of a content row names the path of
  its file, so that two rows never have the same posting and the delete trigger
  removes no other row's.
* `SinglesAlwaysAgree`: `Spec => []SinglesAgree`. The functions for one file find rows
  by other means than the bulk functions (one id of `file_contents`, a row or none,
  where those have all rows of a file and 0), and agree with them because a file has
  one text at most and no id is 0 (`Numbered`, a part of `Agree`).
* `SkippingIsSafe`: `Spec => []SkippedIsCurrent`. The strengthening is about the
  threads (`Current`: what a thread holds of a file is of the file, unless it was
  written meanwhile) and about times (`Dated`: a stored time is that of some write,
  never 0 and never of the future, so a new write never looks like an old one).
* `RemovalHolds`: `Spec => []RemovedStaysRemoved`, with `Tied`: a thread works for
  registered folders, or for files it held when their folder went.
* `ReindexImplementsStore`: `Spec => ImplementsStore`. `AddFolder` and `RemoveFolder` map
  to `Remove`, `FlushWrite` to `Put`; every other step leaves what a search finds.

The inductive invariant of all six is `Good`.

`IndexPanelProofs`, for any files, folders nested in any way, threads, sizes and bounds.
The inductive invariant is `PanelGood`: `Good` of `ReindexProofs` and five parts.

* `PanelTypeCorrect`: `PanelSpec => []PanelTypeOK`.
* `PanelRemovalHolds`, `PanelKeepsTables`: `RemovedStaysRemoved`, `TablesAgree` and
  `SkippedIsCurrent` under the window. `Reindex` lets a window start threads on
  files of registered folders only; the real one starts them on what has waited. So
  what waits must be of registered folders, or named in `hazard.revived` (`Owned`),
  which needs that the panel shows the folders registered and, without a window,
  that nothing goes on (`Shown`, `Off`, in `Listed`).
* `NothingIsForgotten`: `PanelSpec => []NothingForgotten` (apart from what `lost` and
  `hazard.stale` name, the files of polls cut short among them), from `Covered`: of a folder
  that counts as indexed, or will when the run ends (`Tracked`), each file is `Safe`:
  settled, waiting in the window or the journal, or going to be stored by a thread
  (`Coming`). `NothingForgotten` itself is not inductive for two reasons. A folder whose
  run is under way must be accounted for before it is marked, which `Tracked` does.
  And a thread that holds a file does not always store it: it may be about to find it
  unchanged, or hold a text from before a write, which `Coming` leaves out. That what
  is left is stored with the file's present text is `ThreadsRight`; that the queue is
  empty whenever a click overwrites it is the last part of `Listed`; that the removal
  of one folder takes no rows of another one is `Apart`, from `FoldersNest`.

The proof has one lemma per step for what it leaves of the window (`OnPathsChangedIs`
to `StartAppIs`), and one per step for `Safe` (`WriteSafe` to `StoreSafe`).

`DrivesProofs`, for any number of drives, simultaneous scans, changes and failing
calls, the drives in any order:

* `DrivesTypeCorrect`: `Spec => []DrivesTypeOK`, with `Underway`: the drive a poll or
  scan is at is one of the drives, and has been read when it is saved.
* `ReportsAreComplete`: `Spec => []ReportsKeepUp`. `Reported` is the strengthening: on
  drives that are not `untold`, a poll has read only from positions that had been
  reported, and it has saved no drive that it did not read; what it applied in part is
  in `mon.cut`, so that the commit either reports a drive whole or makes it `untold`.
* `ListCoversPositions`: `Spec => []PositionsCovered`, from `Covering`. `AtMost` bounds
  everything that is or may become a drive's stored position: `usn_state`, the poll's
  starts, its uncommitted positions and the end it is about to save. All of it is
  within the journal (`Reached`), which a scan that reads the journal's end therefore
  covers; within what a running scan found, unless someone else worked on the drive
  (`Ahead`); hence within the list after the scan replaces it, and until then within
  the old list (`Covered`). A second scan makes every drive raced for both (`Alone`),
  so that only a lone scan has to be argued about.

`MftScanProofs`, for every set of volumes with `VolumeShapes`, `RecordShapes` and
`RunLists`, any number of failing calls, chunks and batches of any size, and any bound
on the parents followed:

* `ScanTypeCorrect`: `Spec => []ScanTypeOK`. That numbers stay within the table needs
  more than types (`ScanTyped`): the numbers given times the size of a record are at
  most the bytes read, and bytes read and left in the run are at most the valid ones.
* `ScanMovesOn`: `Spec => ScanProgresses`. The fallback asks for the record after the
  last one it got (`BatchIs`), and each round of the loops shortens what is left.
* `NumbersHold`: `Spec => []NumbersRight`, with no hypothesis but its own. The
  inductive invariant `Counted` says that, while no number has slipped, the number of
  the next record times its size is what has been read (`Numbered`), and that the file
  pointer is at that place of the piece under way (`Reading`; before a run, at the beginning of a piece: `Placed`). It rests on two facts.
  A place of the volume is one place of the table, since pieces share no cluster. And
  `StoredIsRead`: what `_parse_data_runs` makes of a stored list is the beginning of
  the layout, with every length and signed distance, whatever the widths (`RunListRead`
  for a volume). It goes by rounds of the loop: after j of them the loop is at the j-th
  item (`StateAt`), one item being read back by `LittleEndian` from the bytes of a
  number's remainders (`Rests`).
* `PathsHold`: `Spec => []PathsRight`, for any set of exclusion rules. Both sides climb
  from an entry: `_get_path` until it meets something cached, a root or the limit, the
  definition until it meets the root. They meet the same entries (`CallsClimb`), and
  the name the code chooses is the one a user sees (`NamedShown`). The invariant
  `Resolving` says that what is cached for a `Shallow` entry is its path, or none where
  a part of it is excluded, and that the path is kept with the entry. It needs
  `Shallow`: by `ShallowUp`, the parents of such an entry are such entries, and by
  `DownRight`, whatever the calls find for one of them, on the way down from whatever
  entry, is right, because no way over it reaches the limit.
* `ListIsComplete`: `Spec => []Complete`. The inductive invariant `Filled` says, of a
  table stored in whole pieces and read without a failing call, what is listed at each
  point: of the records of the table, those before the next number that the definition
  wants, and none of them makes the parser raise; over the journal interface, those it
  has offered, and then there was a reason to ask it (`ByJournal`) or there is nothing
  to list (`Filling`). A read passes exactly the records of the next numbers
  (`RecordsPassed`), a batch is the first of what is offered (`BatchFirst`), the code
  and the definition agree record by record (`ParsedShown`, from `RecordShapes`), and
  where the run list ends all that is valid has been read: a list that is not cut off
  is read whole (`WholeIsRead`), and its pieces hold what is valid (`Capacity`).

The functions of `NtfsFormat` and `MftScan` are recursive over the naturals. What
such a function is was shown without the library's induction theorems, which take an
operator: the set of numbers for which a claim fails has a least member (`Least`, from
`WFMin`), which the claim's step excludes (`NatSet`), and from that
functions by recursion (`Recursion`).

Every safety property that a passing run checks is the statement of a theorem.
Model-checked only: liveness (`ButtonComesBack`, `QueueDrains`, `EventuallyInStep`,
`EveryDriveCatchesUp`), which rests on fairness and is out of the provers' reach.

## 7. Not modelled, and what is left

Not modelled: extraction of text (`core/extractor.py` calls format libraries; a
thread sees a text, none, or an error), widgets, sorting, the find bar, logging,
dialogs, settings, packaging. Of `searcher.py` the order of the rows and
snippets, of the list search wildcards. Files of two volumes in one list (item 9).
Paths have no structure in `UsnSync`: moving a directory moves no files. Exclusion
rules are fixed for a behaviour, and a name that starts with `~$` is judged by the
scan for each directory above it and by polls for the file alone, a difference that
`UsnSync` does not have because it has one rule. A folder table that cannot be read
at the start of the window, or right after a command has written it, leaves the badges
of the panel as they were; `IndexPanel` has this failure only where a scan's end reads
the table.

A second window (`_on_new_window`) runs its own scans; with a filled list it starts
no monitor, and it does not learn of folders registered in the first. One window is
modelled.

Left for later: a second window.
