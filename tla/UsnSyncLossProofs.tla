--------------------------- MODULE UsnSyncLossProofs --------------------------
(***************************************************************************)
(* No change of a file is lost: OnlyKnownLosses, SavedCopyCovered and      *)
(* ShownOnce of UsnSync, for all values of its constants.                  *)
(*                                                                         *)
(* A list fits a position when each file is either listed as it should be  *)
(* or has a record that a poll from this position will read.  The memory's *)
(* list fits usn_state, a copy on its way to the database the position it  *)
(* was made at, and what a scan has read the position it took before.      *)
(***************************************************************************)
EXTENDS UsnSyncProofs

\* The same as Expired, HasRecord and, for usn_state, Pending, of any journal.
Gone(j, pos) == pos.id # j.id \/ pos.next < j.lowest
Later(j, f, n) == \E i \in n+1..Len(j.recs) : j.recs[i].file = f
Ahead(j, f, pos) == Gone(j, pos) \/ Later(j, f, pos.next)

\* f is listed as it should be: in an excluded folder anyhow, and otherwise
\* where it is and nobody else there.
Sole(d, rows, f) == \A g \in File \ {f} : rows[g] = d[f] => d[f] = NoPath
Right(d, rows, f) == d[f] \in Excluded \/ (rows[f] = d[f] /\ Sole(d, rows, f))

Fits(d, j, rows, pos) ==
  pos # NoUsn /\ \A f \in File : Right(d, rows, f) \/ Ahead(j, f, pos)

AtOrBefore(p, q) == p.id < q.id \/ (p.id = q.id /\ p.next \leq q.next)

-----------------------------------------------------------------------------
(* The invariant. *)

\* A file with a record has a last one, and that says whether it exists.
LastRecord(j, i) == \A k \in i+1..Len(j.recs) : j.recs[k].file # j.recs[i].file

Says(d, j, i) == LastRecord(j, i) /\ (j.recs[i].del <=> d[j.recs[i].file] = NoPath)

Recorded(d, j) ==
  \A i \in 1..Len(j.recs) :
    \E k \in i..Len(j.recs) : j.recs[k].file = j.recs[i].file /\ Says(d, j, k)

DiskGood ==
  /\ \A f, g \in File : disk[f] = disk[g] => f = g \/ disk[f] = NoPath
  /\ Recorded(disk, journal)

\* Nothing runs while the program does not, and a poll begins empty-handed.
Resting ==
  /\ gui.app = "off" => mon.pc = "off" /\ \A s \in Scanner : scan[s].pc = "idle"
  /\ mon.pc # "apply" => mon.todo = NoRows

\* Where there is a list, or a poll, there is a position; file_cache_usn stays
\* empty.
Based ==
  /\ db.cacheUsn = NoUsn
  /\ index.size # "empty" => db.usn # NoUsn
  /\ risk.savedAt # NoUsn => db.usn # NoUsn
  /\ mon.pc \in {"query", "read", "apply"} => db.usn # NoUsn
  /\ db.cache.size # "empty" => risk.savedAt # NoUsn
  /\ Reached(risk.savedAt)

SavedFits ==
  risk.savedAt # NoUsn /\ ~risk.db => Fits(disk, journal, db.cache.rows, risk.savedAt)

\* What a scan's record holds in its phases.
Phases(r) ==
  /\ r.pc = "start" => r.rows = NoRows
  /\ r.pc \in {"reading", "populate", "snapshot", "store"} => r.mode = "mft"
  /\ r.pc = "loaded" => r.mode = "cache"
  /\ r.pc \in {"reading", "populate", "store"} => r.base # NoUsn

Founded(s) ==
  /\ scan[s].pc # "idle" /\ scan[s].mode = "cache" => risk.savedAt # NoUsn
  /\ scan[s].pc \in {"populate", "snapshot", "store"} => db.usn # NoUsn
  /\ scan[s].pc = "populate" /\ scan[s].size = "empty" => risk.mem

\* What a scan has read of f, or f has a record after the scan's start.
ReadFits(d, j, r) ==
  \A f \in File :
    \/ d[f] \in Excluded
    \/ (f \in r.unread \/ r.rows[f] = d[f]) /\ Sole(d, r.rows, f)
    \/ Ahead(j, f, r.base)

CopyFits(s) ==
  /\ scan[s].pc = "reading" => ReadFits(disk, journal, scan[s])
  /\ scan[s].pc \in {"populate", "store", "loaded"} /\ ~risk.taint[s]
       => Fits(disk, journal, scan[s].rows, scan[s].base)

\* The end of the poll m.
End(m) == [id |-> m.start.id, next |-> m.upto]

\* No other scan and no poll was under way during an unmarked scan: a poll that
\* has begun meanwhile started at or before the scan, and ends after its start.
Undisturbed(r, m, usn) ==
  /\ usn # NoUsn => AtOrBefore(usn, r.base)
  /\ m.pc # "apply"
  /\ m.pc \in {"query", "read"} => AtOrBefore(m.start, r.base)
  /\ m.pc = "read" => AtOrBefore(r.base, End(m))

Alone(s) ==
  Open(s) /\ ~risk.taint[s] =>
    /\ \A y \in Scanner \ {s} : ~Open(y)
    /\ scan[s].pc # "loaded" => Undisturbed(scan[s], mon, db.usn)
    /\ scan[s].pc = "populate" => db.usn = scan[s].base

ScanGood(s) == Phases(scan[s]) /\ Founded(s) /\ CopyFits(s) /\ Alone(s)

\* A poll under way: what is still to be applied is known to it, and is as it
\* says, unless a record follows that the next poll will read.
Fetched(d, j, m) ==
  \A f \in File :
    /\ f \in m.dels => d[f] = NoPath \/ Ahead(j, f, End(m))
    /\ f \in m.upds => d[f] # NoPath \/ Ahead(j, f, End(m))
    /\ m.todo[f] # NoPath =>
         /\ d[f] = m.todo[f] \/ Ahead(j, f, End(m))
         /\ \A g \in File \ {f} : d[g] = m.todo[f] => Ahead(j, g, End(m))

Done(d, j, rows, m, f) ==
  \/ Right(d, rows, f) \/ Ahead(j, f, End(m))
  \/ f \in m.dels \/ f \in m.upds \/ m.todo[f] # NoPath

PollFits(d, j, rows, m, usn) ==
  /\ m.pc \in {"query", "read"} => Fits(d, j, rows, m.start)
  /\ m.pc \in {"read", "apply"} => AtOrBefore(usn, End(m))
  /\ m.pc = "apply" => Fetched(d, j, m) /\ \A f \in File : Done(d, j, rows, m, f)

\* While a scan has moved usn_state but not yet replaced the list, and after a
\* named hazard, nothing is claimed.
Clean == gui.app # "off" /\ ~risk.mem /\ ~Torn(Scanner)

ListFits ==
  Clean => /\ Fits(disk, journal, index.rows, db.usn)
           /\ PollFits(disk, journal, index.rows, mon, db.usn)

Rest ==
  /\ DiskGood /\ Resting /\ Based /\ SavedFits
  /\ (\A s \in Scanner : ScanGood(s)) /\ ListFits

SyncGood == Inv /\ NeverAhead /\ Rest

-----------------------------------------------------------------------------
(* Positions and records. *)

\* What is ahead of a position is ahead of every earlier one.
LEMMA AheadOfEarlier ==
  ASSUME NEW j \in Journal, NEW f \in File, NEW p \in Usn, NEW q \in Usn,
         AtOrBefore(p, q), q.id \leq j.id, Ahead(j, f, q)
  PROVE  Ahead(j, f, p)
<1>1. /\ p.id \in Nat /\ p.next \in Nat /\ q.id \in Nat /\ q.next \in Nat
      /\ j.id \in Nat /\ j.lowest \in Nat /\ Len(j.recs) \in Nat
  BY ConstantsOK DEF Usn, Journal
<1>2. CASE Gone(j, q)
  BY <1>1, <1>2 DEF Gone, Ahead, AtOrBefore
<1>3. CASE p.id < q.id
  BY <1>1, <1>3 DEF Gone, Ahead
<1>4. CASE p.id = q.id /\ p.next \leq q.next /\ Later(j, f, q.next)
  BY <1>1, <1>4 DEF Later, Ahead
<1>5. QED
  BY <1>2, <1>3, <1>4 DEF Ahead, AtOrBefore

LEMMA FitsEarlier ==
  ASSUME NEW j \in Journal, NEW d, NEW rows, NEW p \in Usn, NEW q \in Usn,
         AtOrBefore(p, q), q.id \leq j.id, Fits(d, j, rows, q)
  PROVE  Fits(d, j, rows, p)
<1>1. p # NoUsn
  BY ConstantsOK DEF Usn
<1>2. QED
  BY <1>1, AheadOfEarlier DEF Fits

\* What one more record makes of the journal.
LEMMA RecordIs ==
  ASSUME Inv, NEW f \in File, NEW del \in BOOLEAN, Record(f, del)
  PROVE  /\ journal' \in Journal /\ journal'.id = journal.id /\ journal'.lowest = journal.lowest
         /\ NextUsn \in Nat /\ NextUsn' = NextUsn + 1
         /\ \A i \in 1..NextUsn : journal'.recs[i] = journal.recs[i]
         /\ journal'.recs[NextUsn'] = [file |-> f, del |-> del]
<1> DEFINE r == [file |-> f, del |-> del]
           q == journal.recs
<1>1. journal' = [journal EXCEPT !.recs = Append(@, r)]
  BY DEF Record
<1>2. journal \in Journal /\ q \in Seq([file : File, del : BOOLEAN])
      /\ r \in [file : File, del : BOOLEAN]
  BY DEF Inv, TypeOK, Journal
<1>3. journal'.recs = Append(q, r) /\ journal'.id = journal.id /\ journal'.lowest = journal.lowest
  BY <1>1, <1>2 DEF Journal
<1>4. /\ Append(q, r) \in Seq([file : File, del : BOOLEAN])
      /\ Len(q) \in Nat /\ Len(Append(q, r)) = Len(q) + 1
      /\ \A i \in 1..Len(q) : Append(q, r)[i] = q[i]
      /\ Append(q, r)[Len(q) + 1] = r
  <2> HIDE DEF r, q
  <2> QED BY <1>2
<1>5. journal' \in Journal
  BY <1>1, <1>2, <1>3, <1>4 DEF Journal
<1>6. QED
  BY <1>3, <1>4, <1>5 DEF NextUsn

\* A step of the volume: a record with the file's new state, or less journal.
LEMMA VolumeIs ==
  ASSUME Inv, Volume
  PROVE  /\ UNCHANGED <<faults, db, index, gui, scan, mon, risk>>
         /\ \/ \E f \in File, p \in Path \cup {NoPath}, del \in BOOLEAN :
                 /\ disk' = [disk EXCEPT ![f] = p] /\ Record(f, del)
                 /\ del <=> p = NoPath
                 /\ p # NoPath => \A x \in File : disk[x] # p
            \/ /\ disk' = disk /\ journal'.recs = journal.recs
               /\ journal.id \leq journal'.id /\ journal.lowest \leq journal'.lowest
<1>1. ASSUME NEW f \in File, DeleteFile(f)
      PROVE  disk' = [disk EXCEPT ![f] = NoPath] /\ Record(f, TRUE)
  BY <1>1 DEF DeleteFile
<1>2. ASSUME NEW f \in File, NEW p \in Path, PlaceFile(f, p)
      PROVE  /\ disk' = [disk EXCEPT ![f] = p] /\ Record(f, FALSE)
             /\ p # NoPath /\ \A x \in File : disk[x] # p
  BY <1>2, ConstantsOK DEF PlaceFile
<1>3. journal \in Journal /\ NextUsn \in Nat /\ journal.lowest \leq NextUsn
      /\ journal.id \in Nat /\ journal.lowest \in Nat
  BY DEF Inv, TypeOK, Journal, NextUsn
<1>4. ASSUME TrimJournal \/ RecreateJournal
      PROVE  /\ disk' = disk /\ journal'.recs = journal.recs
             /\ journal.id \leq journal'.id /\ journal.lowest \leq journal'.lowest
  <2>1. CASE TrimJournal
    <3>1. PICK n \in journal.lowest+1..NextUsn : journal' = [journal EXCEPT !.lowest = n]
      BY <2>1 DEF TrimJournal
    <3>2. journal'.recs = journal.recs /\ journal'.id = journal.id /\ journal'.lowest = n
      BY <1>3, <3>1 DEF Journal
    <3>3. QED
      BY <1>3, <2>1, <3>2 DEF TrimJournal
  <2>2. CASE RecreateJournal
    <3>1. journal' = [journal EXCEPT !.id = @ + 1, !.lowest = NextUsn] /\ disk' = disk
      BY <2>2 DEF RecreateJournal
    <3>2. /\ journal'.recs = journal.recs /\ journal'.id = journal.id + 1
          /\ journal'.lowest = NextUsn
      BY <1>3, <3>1 DEF Journal
    <3>3. QED
      BY <1>3, <3>1, <3>2
  <2>3. QED
    BY <1>4, <2>1, <2>2
<1>5. UNCHANGED <<faults, db, index, gui, scan, mon, risk>>
  BY DEF Volume, DeleteFile, PlaceFile, Record, TrimJournal, RecreateJournal
<1>6. CASE \E f \in File : DeleteFile(f)
  BY <1>1, <1>5, <1>6
<1>7. CASE \E f \in File, p \in Path : PlaceFile(f, p)
  BY <1>2, <1>5, <1>7
<1>8. CASE TrimJournal \/ RecreateJournal
  BY <1>4, <1>5, <1>8
<1>9. QED
  BY <1>6, <1>7, <1>8 DEF Volume

\* What was ahead of a position stays ahead of it, and what changes gets there.
LEMMA VolumeAhead ==
  ASSUME Inv, Volume, NEW f \in File, NEW pos \in Usn, Reached(pos)
  PROVE  /\ Ahead(journal, f, pos) => Ahead(journal', f, pos)
         /\ disk'[f] # disk[f] => Ahead(journal', f, pos)
<1>1. /\ pos.id \in Nat /\ pos.next \in Nat /\ pos.id \leq journal.id /\ pos.next \leq NextUsn
      /\ disk \in Rows /\ journal.id \in Nat /\ NextUsn \in Nat /\ journal.lowest \in Nat
  BY ConstantsOK DEF Usn, Reached, Inv, TypeOK, Journal, NextUsn
<1>2. ASSUME NEW g \in File, NEW p \in Path \cup {NoPath}, NEW del \in BOOLEAN,
             disk' = [disk EXCEPT ![g] = p], Record(g, del)
      PROVE  /\ Ahead(journal, f, pos) => Ahead(journal', f, pos)
             /\ disk'[f] # disk[f] => Ahead(journal', f, pos)
  <2>1. /\ journal'.id = journal.id /\ journal'.lowest = journal.lowest
        /\ NextUsn' = NextUsn + 1
        /\ \A i \in 1..NextUsn : journal'.recs[i] = journal.recs[i]
        /\ journal'.recs[NextUsn + 1].file = g
    <3>1. /\ journal'.id = journal.id /\ journal'.lowest = journal.lowest
          /\ NextUsn' = NextUsn + 1
          /\ \A i \in 1..NextUsn : journal'.recs[i] = journal.recs[i]
          /\ journal'.recs[NextUsn'] = [file |-> g, del |-> del]
      BY <1>2, RecordIs
    <3>2. journal'.recs[NextUsn + 1].file = g
      BY <3>1
    <3>3. QED
      BY <3>1, <3>2
  <2>2. Gone(journal, pos) => Gone(journal', pos)
    BY <2>1 DEF Gone
  <2>3. ASSUME Later(journal, f, pos.next) PROVE Later(journal', f, pos.next)
    <3>1. PICK i \in pos.next+1..NextUsn : journal.recs[i].file = f
      BY <2>3 DEF Later, NextUsn
    <3>2. i \in 1..NextUsn /\ i \in pos.next+1..NextUsn'
      BY <1>1, <2>1
    <3>3. QED
      BY <2>1, <3>1, <3>2 DEF Later, NextUsn
  <2>4. f = g => Later(journal', f, pos.next)
    BY <1>1, <2>1 DEF Later, NextUsn
  <2>5. disk'[f] # disk[f] => f = g
    BY <1>1, <1>2 DEF Rows
  <2>6. QED
    BY <2>2, <2>3, <2>4, <2>5 DEF Ahead
<1>3. ASSUME disk' = disk, journal'.recs = journal.recs,
             journal.id \leq journal'.id, journal.lowest \leq journal'.lowest
      PROVE  Ahead(journal, f, pos) => Ahead(journal', f, pos)
  <2>1. journal' \in Journal
    BY VolumeType DEF Inv, TypeOK
  <2>2. journal'.id \in Nat /\ journal'.lowest \in Nat
    BY <2>1 DEF Journal
  <2>3. Gone(journal, pos) => Gone(journal', pos)
    BY <1>1, <1>3, <2>2 DEF Gone
  <2>4. QED
    BY <1>3, <2>3 DEF Ahead, Later
<1>4. QED
  BY <1>2, <1>3, VolumeIs

\* The positions in use are real ones, and have been reached.
LEMMA RealPositions ==
  ASSUME Inv, NeverAhead
  PROVE  /\ journal \in Journal
         /\ db.usn # NoUsn => db.usn \in Usn /\ Reached(db.usn)
         /\ risk.savedAt # NoUsn => risk.savedAt \in Usn
         /\ \A s \in Scanner : scan[s].base # NoUsn => scan[s].base \in Usn /\ Reached(scan[s].base)
         /\ mon.pc \in {"query", "read", "apply"} => mon.start \in Usn /\ Reached(mon.start)
         /\ mon.pc \in {"read", "apply"} => End(mon) \in Usn /\ Reached(End(mon))
<1>1. db.usn \in Usn \cup {NoUsn} /\ risk.savedAt \in Usn \cup {NoUsn}
      /\ (\A s \in Scanner : scan[s].base \in Usn \cup {NoUsn}) /\ mon.upto \in 0..MaxUsn
      /\ journal \in Journal
  BY DEF Inv, TypeOK, Database, Risk, ScanState, MonitorState, Position
<1>2. mon.pc \in {"query", "read", "apply"} => mon.start \in Usn /\ Reached(mon.start)
  BY DEF Inv, Started, NeverAhead, Positions
<1>3. ASSUME mon.pc \in {"read", "apply"} PROVE End(mon) \in Usn /\ Reached(End(mon))
  <2>1. mon.start # NoUsn /\ mon.start.id \in 0..MaxJournals
    BY <1>2, <1>3, ConstantsOK DEF Usn
  <2>2. mon.upto \leq NextUsn /\ mon.start.id \leq journal.id
    BY <1>2, <1>3, <2>1 DEF NeverAhead, Reached
  <2>3. QED
    BY <1>1, <2>1, <2>2 DEF End, Usn, Reached
<1>4. QED
  BY <1>1, <1>2, <1>3 DEF NeverAhead, Positions

\* A list stays fitting, and a scan's reading and a poll's findings stay good,
\* whatever becomes of the volume.
LEMMA VolumeFits ==
  ASSUME Inv, Volume, NEW pos \in Usn, Reached(pos), NEW rows, Fits(disk, journal, rows, pos)
  PROVE  Fits(disk', journal', rows, pos)
<1>1. ASSUME NEW f \in File PROVE Right(disk', rows, f) \/ Ahead(journal', f, pos)
  <2>1. CASE disk'[f] = disk[f]
    BY <2>1, VolumeAhead DEF Fits, Right, Sole
  <2>2. CASE disk'[f] # disk[f]
    BY <2>2, VolumeAhead
  <2>3. QED
    BY <2>1, <2>2
<1>2. QED
  BY <1>1 DEF Fits

LEMMA VolumeReadFits ==
  ASSUME Inv, Volume, NEW r, r.base \in Usn, Reached(r.base), ReadFits(disk, journal, r)
  PROVE  ReadFits(disk', journal', r)
<1> SUFFICES ASSUME NEW f \in File
             PROVE  \/ disk'[f] \in Excluded
                    \/ (f \in r.unread \/ r.rows[f] = disk'[f]) /\ Sole(disk', r.rows, f)
                    \/ Ahead(journal', f, r.base)
  BY DEF ReadFits
<1>1. CASE disk'[f] = disk[f]
  BY <1>1, VolumeAhead DEF ReadFits, Sole
<1>2. CASE disk'[f] # disk[f]
  BY <1>2, VolumeAhead
<1>3. QED
  BY <1>1, <1>2

LEMMA VolumePollFits ==
  ASSUME Inv, NeverAhead, Volume, NEW rows, NEW usn, PollFits(disk, journal, rows, mon, usn)
  PROVE  PollFits(disk', journal', rows, mon, usn)
<1>1. mon.pc \in {"query", "read"} => Fits(disk', journal', rows, mon.start)
  BY VolumeFits, RealPositions DEF PollFits
<1>2. ASSUME mon.pc = "apply"
      PROVE  Fetched(disk', journal', mon) /\ \A f \in File : Done(disk', journal', rows, mon, f)
  <2>0. PICK e \in Usn : e = End(mon) /\ Reached(e)
    BY <1>2, RealPositions
  <2>1. \A f \in File : /\ Ahead(journal, f, e) => Ahead(journal', f, e)
                        /\ disk'[f] # disk[f] => Ahead(journal', f, e)
    BY <2>0, VolumeAhead
  <2>2. Fetched(disk, journal, mon) /\ \A f \in File : Done(disk, journal, rows, mon, f)
    BY <1>2 DEF PollFits
  <2>3. Fetched(disk', journal', mon)
    <3> HIDE DEF Ahead
    <3>1. ASSUME NEW f \in File
          PROVE  /\ f \in mon.dels => disk'[f] = NoPath \/ Ahead(journal', f, e)
                 /\ f \in mon.upds => disk'[f] # NoPath \/ Ahead(journal', f, e)
      BY <2>0, <2>1, <2>2 DEF Fetched
    <3>2. ASSUME NEW f \in File, mon.todo[f] # NoPath
          PROVE  /\ disk'[f] = mon.todo[f] \/ Ahead(journal', f, e)
                 /\ \A g \in File \ {f} : disk'[g] = mon.todo[f] => Ahead(journal', g, e)
      BY <2>0, <2>1, <2>2, <3>2 DEF Fetched
    <3>3. QED
      BY <2>0, <3>1, <3>2 DEF Fetched
  <2>4. ASSUME NEW f \in File PROVE Done(disk', journal', rows, mon, f)
    <3>1. CASE disk'[f] = disk[f]
      BY <2>0, <2>1, <2>2, <3>1 DEF Done, Right, Sole
    <3>2. CASE disk'[f] # disk[f]
      BY <2>0, <2>1, <3>2 DEF Done
    <3>3. QED
      BY <3>1, <3>2
  <2>5. QED
    BY <2>3, <2>4
<1>3. QED
  BY <1>1, <1>2 DEF PollFits

\* The last record of each file still says whether it exists, and no two files
\* have one path.
LEMMA VolumeDisk ==
  ASSUME Inv, DiskGood, Volume PROVE DiskGood'
<1>1. ASSUME NEW f \in File, NEW p \in Path \cup {NoPath}, NEW del \in BOOLEAN,
             disk' = [disk EXCEPT ![f] = p], Record(f, del), del <=> p = NoPath,
             p # NoPath => \A x \in File : disk[x] # p
      PROVE  DiskGood'
  <2>1. disk \in Rows /\ \A g, h \in File : disk[g] = disk[h] => g = h \/ disk[g] = NoPath
    BY DEF Inv, TypeOK, DiskGood
  <2>2. \A g, h \in File : disk'[g] = disk'[h] => g = h \/ disk'[g] = NoPath
    BY <1>1, <2>1 DEF Rows
  <2>3. /\ NextUsn \in Nat /\ Len(journal'.recs) = NextUsn + 1
        /\ \A i \in 1..NextUsn : journal'.recs[i] = journal.recs[i]
        /\ journal'.recs[NextUsn + 1] = [file |-> f, del |-> del]
    BY <1>1, RecordIs DEF NextUsn
  <2>4. ASSUME NEW i \in 1..NextUsn+1
        PROVE  \E k \in i..NextUsn+1 : /\ journal'.recs[k].file = journal'.recs[i].file
                                       /\ Says(disk', journal', k)
    <3>1. CASE journal'.recs[i].file = f
      <4>1. NextUsn + 1 \in i..NextUsn+1 /\ LastRecord(journal', NextUsn + 1)
        BY <2>3, <2>4 DEF LastRecord
      <4>2. disk'[f] = p
        BY <1>1, <2>1 DEF Rows
      <4>3. Says(disk', journal', NextUsn + 1)
        BY <1>1, <2>3, <4>1, <4>2 DEF Says
      <4>4. QED
        BY <2>3, <3>1, <4>1, <4>3
    <3>2. CASE journal'.recs[i].file # f
      <4>1. i \in 1..NextUsn /\ journal'.recs[i] = journal.recs[i]
        <5>1. i # NextUsn + 1
          BY <2>3, <3>2
        <5>2. i \in 1..NextUsn
          BY <2>3, <2>4, <5>1
        <5>3. QED
          BY <2>3, <5>2
      <4>2. PICK k \in i..NextUsn : /\ journal.recs[k].file = journal.recs[i].file
                                   /\ Says(disk, journal, k)
        BY <4>1 DEF DiskGood, Recorded, NextUsn
      <4>3. k \in 1..NextUsn /\ k \in i..NextUsn+1 /\ journal'.recs[k] = journal.recs[k]
        BY <2>3, <4>1, <4>2
      <4>4. journal.recs[k].file # f
        BY <3>2, <4>1, <4>2
      <4>5. ASSUME NEW x \in k+1..NextUsn+1 PROVE journal'.recs[x].file # journal'.recs[k].file
        <5>1. CASE x = NextUsn + 1
          BY <2>3, <4>3, <4>4, <5>1
        <5>2. CASE x # NextUsn + 1
          <6>1. x \in k+1..NextUsn /\ x \in 1..NextUsn
            BY <2>3, <4>3, <4>5, <5>2
          <6>2. journal.recs[x].file # journal.recs[k].file
            BY <4>2, <6>1 DEF Says, LastRecord, NextUsn
          <6>3. QED
            BY <2>3, <4>3, <6>1, <6>2
        <5>3. QED
          BY <5>1, <5>2
      <4>6. disk'[journal.recs[k].file] = disk[journal.recs[k].file]
        <5>1. journal.recs \in Seq([file : File, del : BOOLEAN])
          BY DEF Inv, TypeOK, Journal
        <5>2. journal.recs[k] \in [file : File, del : BOOLEAN]
          BY <4>3, <5>1, ElementType DEF NextUsn
        <5>3. journal.recs[k].file \in File
          BY <5>2
        <5>4. QED
          BY <1>1, <2>1, <4>4, <5>3 DEF Rows
      <4>7. LastRecord(journal', k)
        BY <2>3, <4>5 DEF LastRecord
      <4>8. Says(disk', journal', k)
        BY <4>2, <4>3, <4>6, <4>7 DEF Says
      <4>9. QED
        BY <4>1, <4>2, <4>3, <4>8
    <3>3. QED
      BY <3>1, <3>2
  <2>5. QED
    BY <2>2, <2>3, <2>4 DEF DiskGood, Recorded
<1>2. ASSUME disk' = disk, journal'.recs = journal.recs PROVE DiskGood'
  BY <1>2 DEF DiskGood, Recorded, Says, LastRecord
<1>3. QED
  BY <1>1, <1>2, VolumeIs

\* A position reached stays reached.
LEMMA ReachedStays ==
  ASSUME Inv, Inv', [Next]_vars, NEW p \in Position, Reached(p)
  PROVE  Reached(p)'
<1>1. journal.id \in Nat /\ journal'.id \in Nat /\ NextUsn \in Nat /\ NextUsn' \in Nat
      /\ journal.id \leq journal'.id /\ NextUsn \leq NextUsn'
  BY JournalGrows DEF Inv, TypeOK, Journal, NextUsn
<1>2. QED
  BY <1>1, ConstantsOK DEF Reached, Position, Usn

LEMMA VolumeRest ==
  ASSUME SyncGood, Inv', Volume
  PROVE  Rest'
<1>1. UNCHANGED <<db, index, gui, scan, mon, risk>> /\ Inv /\ NeverAhead /\ Rest
  BY VolumeIs DEF SyncGood
<1>2. DiskGood' /\ Resting'
  BY <1>1, VolumeDisk DEF Rest, Resting
<1>3. Based'
  <2>1. risk.savedAt \in Position /\ Reached(risk.savedAt) /\ [Next]_vars
    BY <1>1 DEF Inv, TypeOK, Risk, Rest, Based, Next
  <2>2. PICK p \in Position : p = risk.savedAt
    BY <2>1
  <2>3. Reached(p)'
    BY <1>1, <2>1, <2>2, ReachedStays
  <2>4. Reached(risk.savedAt)'
    BY <1>1, <2>2, <2>3 DEF Reached
  <2>5. QED
    BY <1>1, <2>4 DEF Rest, Based
<1>4. SavedFits'
  <2>1. risk.savedAt # NoUsn => risk.savedAt \in Usn /\ Reached(risk.savedAt)
    BY <1>1, RealPositions DEF Rest, Based
  <2>2. QED
    BY <1>1, <2>1, VolumeFits DEF Rest, SavedFits
<1>5. ASSUME NEW s \in Scanner PROVE ScanGood(s)'
  <2>1. Phases(scan[s]) /\ Founded(s) /\ CopyFits(s) /\ Alone(s)
    BY <1>1 DEF Rest, ScanGood
  <2>2. Phases(scan[s])' /\ Founded(s)' /\ Alone(s)'
    BY <1>1, <2>1 DEF Founded, Alone, Open
  <2>3. ASSUME scan[s].pc = "reading" PROVE ReadFits(disk', journal', scan[s])
    <3>1. scan[s].base \in Usn /\ Reached(scan[s].base) /\ ReadFits(disk, journal, scan[s])
      BY <1>1, <2>1, <2>3, RealPositions DEF Phases, CopyFits
    <3>2. QED
      BY <1>1, <3>1, VolumeReadFits
  <2>4. ASSUME scan[s].pc \in {"populate", "store", "loaded"}, ~risk.taint[s]
        PROVE  Fits(disk', journal', scan[s].rows, scan[s].base)
    <3>1. Fits(disk, journal, scan[s].rows, scan[s].base)
      BY <2>1, <2>4 DEF CopyFits
    <3>2. scan[s].base \in Usn /\ Reached(scan[s].base)
      BY <1>1, <3>1, RealPositions DEF Fits
    <3>3. QED
      BY <1>1, <3>1, <3>2, VolumeFits
  <2>5. CopyFits(s)'
    BY <1>1, <2>3, <2>4 DEF CopyFits
  <2>6. QED
    BY <2>2, <2>5 DEF ScanGood
<1>6. ListFits'
  <2>1. Clean' => Clean
    BY <1>1 DEF Clean, Torn
  <2>2. ASSUME Clean
        PROVE  /\ Fits(disk', journal', index.rows, db.usn)
               /\ PollFits(disk', journal', index.rows, mon, db.usn)
    <3>1. Fits(disk, journal, index.rows, db.usn) /\ PollFits(disk, journal, index.rows, mon, db.usn)
      BY <1>1, <2>2 DEF Rest, ListFits
    <3>2. db.usn \in Usn /\ Reached(db.usn)
      BY <1>1, <3>1, RealPositions DEF Fits
    <3>3. QED
      BY <1>1, <3>1, <3>2, VolumeFits, VolumePollFits
  <2>3. QED
    BY <1>1, <2>1, <2>2 DEF ListFits
<1>7. QED
  BY <1>2, <1>3, <1>4, <1>5, <1>6 DEF Rest

-----------------------------------------------------------------------------
(* The volume at rest. *)

LEMMA SameVolume ==
  ASSUME Rest, UNCHANGED <<disk, journal>> PROVE DiskGood'
BY DEF Rest, DiskGood

\* A scan that does not move keeps what it has.
LEMMA OtherScan ==
  ASSUME NEW s \in Scanner, ScanGood(s), UNCHANGED <<disk, journal>>, scan'[s] = scan[s],
         risk'.taint[s] \/ ~risk.taint[s],
         risk.savedAt # NoUsn => risk'.savedAt # NoUsn,
         db.usn # NoUsn => db'.usn # NoUsn,
         risk.mem => risk'.mem \/ ~Open(s),
         Alone(s)'
  PROVE  ScanGood(s)'
<1>1. Phases(scan[s])' /\ Founded(s)'
  BY DEF ScanGood, Founded, Open
<1>2. CopyFits(s)'
  BY DEF ScanGood, CopyFits
<1>3. QED
  BY <1>1, <1>2 DEF ScanGood

\* Nor is it disturbed by scans that do not open and a poll that does not go on.
LEMMA StillAlone ==
  ASSUME NEW s \in Scanner, ScanGood(s), scan'[s] = scan[s],
         risk'.taint[s] \/ ~risk.taint[s],
         \A y \in Scanner \ {s} : Open(y)' => Open(y),
         db'.usn = db.usn, mon' = mon \/ mon'.pc \in {"off", "sleep"}
  PROVE  Alone(s)'
<1>1. CASE Open(s) /\ ~risk.taint[s]
  <2>1. (\A y \in Scanner \ {s} : ~Open(y)) /\ (scan[s].pc = "populate" => db.usn = scan[s].base)
        /\ (scan[s].pc # "loaded" => Undisturbed(scan[s], mon, db.usn))
    BY <1>1 DEF ScanGood, Alone
  <2>2. scan[s].pc # "loaded" => Undisturbed(scan'[s], mon', db'.usn)
    BY <2>1 DEF Undisturbed
  <2>3. \A y \in Scanner \ {s} : ~Open(y)'
    BY <2>1
  <2>4. QED
    BY <2>1, <2>2, <2>3 DEF Alone
<1>2. CASE ~Open(s) \/ risk.taint[s]
  BY <1>2 DEF Alone, Open
<1>3. QED
  BY <1>1, <1>2

\* The scan that moves.
LEMMA UpdateIs ==
  ASSUME Inv, NEW s \in Scanner, NEW r, Update(s, r)
  PROVE  /\ scan'[s] = r /\ \A y \in Scanner \ {s} : scan'[y] = scan[y]
         /\ scan[s] \in ScanState
BY DEF Update, Inv, TypeOK

\* A scan is under way only while the program runs.
LEMMA ScanMeansOn ==
  ASSUME Rest, NEW s \in Scanner, scan[s].pc # "idle" PROVE gui.app # "off"
BY DEF Rest, Resting

\* Steps of one scan that leave the list, the database and the poll alone.
LEMMA QuietScan ==
  ASSUME SyncGood, NEW s \in Scanner, UNCHANGED <<disk, journal, db, index, mon>>,
         gui'.app = gui.app, scan[s].pc # "idle",
         \A y \in Scanner \ {s} : scan'[y] = scan[y],
         risk'.mem = risk.mem, risk'.db = risk.db, risk'.savedAt = risk.savedAt,
         \A y \in Scanner \ {s} : risk'.taint[y] \/ ~risk.taint[y],
         \A y \in Scanner \ {s} : Open(s)' => Open(s) \/ ~Open(y) \/ risk'.taint[y],
         scan[s].pc = "populate" => risk.mem, scan'[s].pc # "populate",
         ScanGood(s)'
  PROVE  Rest'
<1>1. Rest /\ gui.app # "off"
  BY ScanMeansOn DEF SyncGood
<1>2. DiskGood' /\ Resting' /\ Based' /\ SavedFits'
  BY <1>1, SameVolume DEF Rest, Resting, Based, SavedFits, Reached, NextUsn
<1>3. ASSUME NEW y \in Scanner \ {s} PROVE ScanGood(y)'
  <2>1. ScanGood(y)
    BY <1>1 DEF Rest
  <2>2. Alone(y)'
    <3>1. CASE Open(y) /\ ~risk'.taint[y]
      <4>1. \A x \in Scanner \ {y} : Open(x)' => Open(x)
        BY <1>3, <3>1 DEF Open
      <4>2. QED
        BY <1>3, <2>1, <4>1, StillAlone
    <3>2. CASE ~Open(y) \/ risk'.taint[y]
      BY <1>3, <3>2 DEF Alone, Open
    <3>3. QED
      BY <3>1, <3>2
  <2>3. QED
    BY <1>3, <2>1, <2>2, OtherScan
<1>4. ListFits'
  <2>1. Clean' => Clean
    BY DEF Clean, Torn
  <2>2. QED
    BY <1>1, <2>1 DEF Rest, ListFits
<1>5. QED
  BY <1>2, <1>3, <1>4 DEF Rest

-----------------------------------------------------------------------------
(* The scanner. *)

LEMMA IdleIsGood ==
  ASSUME NEW s \in Scanner, scan'[s] = IdleScan PROVE ScanGood(s)'
BY DEF IdleScan, ScanGood, Phases, Founded, CopyFits, Alone, Open

\* A scan that ends without having put anything in place.
LEMMA QuitRest ==
  ASSUME SyncGood, NEW s \in Scanner,
         ScanStopped(s) \/ ScanUnreadable(s) \/ ScanEmpty(s) \/ ScanDbError(s)
  PROVE  Rest'
<1>1. /\ UNCHANGED <<disk, journal, db, index, mon, risk>> /\ Update(s, IdleScan)
      /\ gui' = gui \/ gui' = [gui EXCEPT !.inbox = Append(@, "scanDone")]
      /\ \/ scan[s].pc \in {"start", "reading", "store"}
         \/ (scan[s].pc = "populate" /\ scan[s].size = "empty")
  BY DEF ScanStopped, ScanUnreadable, ScanEmpty, ScanDbError, Finish
<1>2. Inv /\ Rest /\ gui'.app = gui.app
  BY <1>1 DEF SyncGood, Inv, TypeOK, Window
<1>3. scan'[s] = IdleScan /\ \A y \in Scanner \ {s} : scan'[y] = scan[y]
  BY <1>1, <1>2, UpdateIs
<1>4. scan'[s].pc = "idle"
  BY <1>3 DEF IdleScan
<1>5. scan[s].pc = "populate" => risk.mem
  BY <1>1, <1>2 DEF Rest, ScanGood, Founded
<1>6. scan[s].pc # "idle"
  BY <1>1
<1>7. ScanGood(s)' /\ ~Open(s)'
  BY <1>3, <1>4, IdleIsGood DEF Open
<1>8. QED
  BY <1>1, <1>2, <1>3, <1>4, <1>5, <1>6, <1>7, QuietScan

LEMMA OpenedIs ==
  ASSUME NEW s \in Scanner, NEW mark, risk' = [risk EXCEPT !.taint = Opened(s, mark)], Inv
  PROVE  /\ risk'.mem = risk.mem /\ risk'.db = risk.db /\ risk'.savedAt = risk.savedAt
         /\ ~risk'.taint[s] => ~mark /\ ~Polling /\ \A y \in Scanner \ {s} : ~Open(y)
         /\ \A y \in Scanner \ {s} : ~risk'.taint[y] => ~risk.taint[y] /\ ~Open(y)
<1>1. risk \in Risk
  BY DEF Inv, TypeOK
<1>2. risk'.taint = Opened(s, mark) /\ risk'.mem = risk.mem /\ risk'.db = risk.db
      /\ risk'.savedAt = risk.savedAt
  BY <1>1 DEF Risk
<1>3. Opened(s, mark)[s] = (mark \/ Polling \/ \E y \in Scanner \ {s} : Open(y))
      /\ \A y \in Scanner \ {s} : Opened(s, mark)[y] = (risk.taint[y] \/ Open(y))
  BY DEF Opened
<1>4. QED
  BY <1>2, <1>3

LEMMA OpenRest ==
  ASSUME SyncGood, NEW s \in Scanner, ScanOpen(s)
  PROVE  Rest'
<1> DEFINE here == [id |-> journal.id, next |-> NextUsn]
           r == [scan[s] EXCEPT !.pc = "reading", !.unread = File, !.base = here]
<1>1. /\ UNCHANGED <<disk, journal, db, index, gui, mon>> /\ Update(s, r)
      /\ scan[s].pc = "start" /\ scan[s].mode = "mft"
      /\ risk' = [risk EXCEPT !.taint = Opened(s, FALSE)] /\ Inv /\ Rest /\ NeverAhead
  BY DEF ScanOpen, SyncGood
<1>2. /\ scan'[s] = r /\ scan[s] \in ScanState /\ scan[s].rows = NoRows
      /\ \A y \in Scanner \ {s} : scan'[y] = scan[y]
  BY <1>1, UpdateIs DEF Rest, ScanGood, Phases
<1>3. /\ scan'[s].pc = "reading" /\ scan'[s].mode = "mft" /\ scan'[s].unread = File
      /\ scan'[s].base = here /\ scan'[s].rows = NoRows
  BY <1>1, <1>2 DEF ScanState
<1>4. /\ risk'.mem = risk.mem /\ risk'.db = risk.db /\ risk'.savedAt = risk.savedAt
      /\ ~risk'.taint[s] => ~Polling /\ \A y \in Scanner \ {s} : ~Open(y)
      /\ \A y \in Scanner \ {s} : ~risk'.taint[y] => ~risk.taint[y] /\ ~Open(y)
  BY <1>1, OpenedIs
<1>5. here \in Usn
  BY <1>1, PositionType
<1>6. Phases(scan[s])' /\ Founded(s)'
  BY <1>3, <1>5, ConstantsOK DEF Phases, Founded, Usn
<1>7. CopyFits(s)'
  BY <1>3 DEF CopyFits, ReadFits, Sole, NoRows
<1>8. ASSUME ~risk'.taint[s] PROVE Undisturbed(scan'[s], mon', db'.usn)
  <2>1. mon.pc \notin {"query", "read", "apply"}
    BY <1>4, <1>8 DEF Polling
  <2>2. ASSUME db.usn # NoUsn PROVE AtOrBefore(db.usn, here)
    <3>1. db.usn \in Usn /\ Reached(db.usn)
      BY <1>1, <2>2, RealPositions
    <3>2. db.usn.id \in Nat /\ here.id \in Nat
      BY <1>5, <3>1, ConstantsOK DEF Usn
    <3>3. QED
      BY <2>2, <3>1, <3>2 DEF Reached, AtOrBefore
  <2>3. QED
    BY <1>1, <1>3, <2>1, <2>2 DEF Undisturbed
<1>9. Alone(s)'
  BY <1>2, <1>3, <1>4, <1>8 DEF Alone, Open
<1>10. ScanGood(s)'
  BY <1>6, <1>7, <1>9 DEF ScanGood
<1>11. scan'[s].pc # "populate" /\ scan[s].pc # "populate" /\ scan[s].pc # "idle"
       /\ gui'.app = gui.app
  BY <1>1, <1>3
<1>12. \A y \in Scanner \ {s} : /\ risk'.taint[y] \/ ~risk.taint[y]
                                /\ ~Open(y) \/ risk'.taint[y]
  BY <1>4
<1> HIDE DEF here, r
<1>13. QED
  BY <1>1, <1>2, <1>4, <1>10, <1>11, <1>12, QuietScan

LEMMA ReadRest ==
  ASSUME SyncGood, NEW s \in Scanner, NEW f \in File, ScanRead(s, f)
  PROVE  Rest'
<1> DEFINE r == [scan[s] EXCEPT !.rows[f] = Shown(disk[f]), !.unread = @ \ {f}]
<1>1. /\ UNCHANGED <<disk, journal, db, index, gui, mon, risk>> /\ Update(s, r)
      /\ scan[s].pc = "reading" /\ f \in scan[s].unread /\ Inv /\ Rest
  BY DEF ScanRead, SyncGood
<1>2. scan'[s] = r /\ scan[s] \in ScanState /\ \A y \in Scanner \ {s} : scan'[y] = scan[y]
  BY <1>1, UpdateIs
<1>3. /\ scan'[s].pc = "reading" /\ scan'[s].mode = scan[s].mode /\ scan'[s].base = scan[s].base
      /\ scan'[s].unread = scan[s].unread \ {f}
      /\ scan'[s].rows = [scan[s].rows EXCEPT ![f] = Shown(disk[f])]
      /\ scan[s].rows \in Rows
  BY <1>1, <1>2 DEF ScanState
<1>4. Phases(scan[s]) /\ Founded(s) /\ CopyFits(s) /\ Alone(s) /\ DiskGood /\ disk \in Rows
  BY <1>1 DEF Rest, ScanGood, Inv, TypeOK
<1>5. Phases(scan[s])' /\ Founded(s)'
  BY <1>1, <1>3, <1>4 DEF Phases, Founded
<1>6. ReadFits(disk, journal, scan'[s])
  <2> SUFFICES ASSUME NEW g \in File, disk[g] \notin Excluded, ~Ahead(journal, g, scan[s].base)
               PROVE  /\ g \in scan'[s].unread \/ scan'[s].rows[g] = disk[g]
                      /\ Sole(disk, scan'[s].rows, g)
    BY <1>3 DEF ReadFits
  <2>1. (g \in scan[s].unread \/ scan[s].rows[g] = disk[g]) /\ Sole(disk, scan[s].rows, g)
    BY <1>1, <1>4 DEF CopyFits, ReadFits
  <2>2. scan'[s].rows[f] = Shown(disk[f]) /\ \A x \in File \ {f} : scan'[s].rows[x] = scan[s].rows[x]
    BY <1>3 DEF Rows
  <2>3. g \in scan'[s].unread \/ scan'[s].rows[g] = disk[g]
    BY <1>3, <2>1, <2>2 DEF Shown
  <2>4. ASSUME g # f, Shown(disk[f]) = disk[g] PROVE disk[g] = NoPath
    BY <1>4, <2>4 DEF Shown, DiskGood
  <2>5. Sole(disk, scan'[s].rows, g)
    BY <2>1, <2>2, <2>4 DEF Sole
  <2>6. QED
    BY <2>3, <2>5
<1>7. CopyFits(s)'
  BY <1>1, <1>3, <1>6 DEF CopyFits
<1>8. Alone(s)'
  BY <1>1, <1>2, <1>3, <1>4 DEF Alone, Open, Undisturbed
<1>9. ScanGood(s)'
  BY <1>5, <1>7, <1>8 DEF ScanGood
<1>10. Open(s)
  BY <1>1 DEF Open
<1> HIDE DEF r
<1>11. QED
  BY <1>1, <1>2, <1>3, <1>9, <1>10, QuietScan

LEMMA AtItself ==
  ASSUME NEW p \in Usn PROVE AtOrBefore(p, p)
BY ConstantsOK DEF AtOrBefore, Usn

\* What has been read to the end fits where the reading began.
LEMMA ReadToTheEnd ==
  ASSUME NEW d, NEW j, NEW r, ReadFits(d, j, r), r.unread = {}, r.base # NoUsn
  PROVE  Fits(d, j, r.rows, r.base)
BY DEF ReadFits, Fits, Right

LEMMA CollectRest ==
  ASSUME SyncGood, NEW s \in Scanner, ScanCollect(s)
  PROVE  Rest'
<1>1. /\ UNCHANGED <<disk, journal, index, gui, mon>> /\ Inv /\ NeverAhead /\ Rest
      /\ scan[s].pc = "reading" /\ scan[s].unread = {}
      /\ db' = [db EXCEPT !.usn = scan[s].base]
      /\ risk' = IF scan[s].stop
                   THEN [risk EXCEPT !.mem = TRUE, !.taint[s] = TRUE] ELSE risk
  BY DEF ScanCollect, ScanPosition, SyncGood
<1>2. PICK kept \in SUBSET File, size \in Size :
        /\ scan[s].stop \/ (kept = File /\ size = "many")
        /\ Update(s, [scan[s] EXCEPT !.pc = "populate", !.size = size,
             !.rows = [f \in File |-> IF f \in kept THEN @[f] ELSE NoPath]])
  BY DEF ScanCollect
<1>3. /\ scan[s] \in ScanState /\ \A y \in Scanner \ {s} : scan'[y] = scan[y]
      /\ scan'[s] = [scan[s] EXCEPT !.pc = "populate", !.size = size,
           !.rows = [f \in File |-> IF f \in kept THEN @[f] ELSE NoPath]]
  BY <1>1, <1>2, UpdateIs
<1>4. /\ scan'[s].pc = "populate" /\ scan'[s].mode = scan[s].mode
      /\ scan'[s].base = scan[s].base /\ scan'[s].size = size
      /\ scan'[s].rows = [f \in File |-> IF f \in kept THEN scan[s].rows[f] ELSE NoPath]
      /\ scan[s].rows \in Rows
  BY <1>3 DEF ScanState
<1>5. ScanGood(s) /\ scan[s].base # NoUsn /\ scan[s].base \in Usn /\ gui.app # "off"
  BY <1>1, RealPositions, ScanMeansOn DEF Rest, ScanGood, Phases
<1>6. /\ db'.usn = scan[s].base /\ db'.cache = db.cache /\ db'.cacheUsn = db.cacheUsn
  BY <1>1 DEF Inv, TypeOK, Database
<1>7. /\ risk'.savedAt = risk.savedAt /\ risk'.db = risk.db /\ (risk.mem => risk'.mem)
      /\ \A y \in Scanner : risk'.taint[y] \/ ~risk.taint[y]
      /\ scan[s].stop => risk'.mem /\ risk'.taint[s]
  BY <1>1 DEF Inv, TypeOK, Risk
<1>8. DiskGood' /\ Resting' /\ Based' /\ SavedFits'
  BY <1>1, <1>5, <1>6, <1>7, SameVolume
  DEF Rest, Resting, Based, SavedFits, Reached, NextUsn
<1>9. ASSUME NEW y \in Scanner \ {s} PROVE ScanGood(y)'
  <2>1. ScanGood(y)
    BY <1>1 DEF Rest
  <2>2. Open(y) => risk'.taint[y]
    BY <1>1, <1>7, <1>9, <2>1 DEF ScanGood, Alone, Open
  <2>3. Alone(y)'
    BY <1>3, <1>9, <2>2 DEF Alone, Open
  <2>4. QED
    BY <1>1, <1>3, <1>5, <1>6, <1>7, <1>9, <2>1, <2>3, OtherScan
<1>10. ScanGood(s)'
  <2>1. Phases(scan[s])' /\ Founded(s)'
    BY <1>1, <1>2, <1>4, <1>5, <1>6, <1>7 DEF ScanGood, Phases, Founded
  <2>2. ASSUME ~risk'.taint[s] PROVE Fits(disk, journal, scan'[s].rows, scan[s].base)
    <3>1. scan'[s].rows = scan[s].rows
      BY <1>2, <1>4, <1>7, <2>2 DEF Rows
    <3>2. QED
      BY <1>1, <1>5, <3>1, ReadToTheEnd DEF ScanGood, CopyFits
  <2>3. CopyFits(s)'
    BY <1>1, <1>4, <2>2 DEF CopyFits
  <2>4. Alone(s)'
    BY <1>1, <1>3, <1>4, <1>5, <1>6, <1>7, AtItself DEF ScanGood, Alone, Open, Undisturbed
  <2>5. QED
    BY <2>1, <2>3, <2>4 DEF ScanGood
<1>11. ListFits'
  BY <1>4 DEF ListFits, Clean, Torn
<1>12. QED
  BY <1>8, <1>9, <1>10, <1>11 DEF Rest

\* The list of an undisturbed scan fits whatever poll is under way.
LEMMA UndisturbedFits ==
  ASSUME Inv, NeverAhead, NEW r \in ScanState, r.base \in Usn, Reached(r.base),
         Fits(disk, journal, r.rows, r.base), Undisturbed(r, mon, r.base)
  PROVE  PollFits(disk, journal, r.rows, mon, r.base)
<1>1. r.base # NoUsn /\ r.base.id \leq journal.id /\ journal \in Journal
  BY ConstantsOK DEF Usn, Reached, Inv, TypeOK
<1>2. ASSUME mon.pc \in {"query", "read"} PROVE Fits(disk, journal, r.rows, mon.start)
  <2>1. mon.start \in Usn /\ AtOrBefore(mon.start, r.base)
    BY <1>2, RealPositions DEF Undisturbed
  <2>2. QED
    BY <1>1, <2>1, FitsEarlier
<1>3. QED
  BY <1>2 DEF PollFits, Undisturbed

LEMMA PopulateRest ==
  ASSUME SyncGood, NEW s \in Scanner, ScanPopulate(s)
  PROVE  Rest'
<1>1. /\ UNCHANGED <<disk, journal, db, gui, mon>> /\ Inv /\ NeverAhead /\ Rest
      /\ scan[s].pc = "populate" /\ scan[s].size # "empty"
      /\ index' = [rows |-> scan[s].rows, size |-> scan[s].size]
      /\ Update(s, [scan[s] EXCEPT !.pc = "snapshot"])
      /\ risk' = [risk EXCEPT !.mem = risk.taint[s]]
  BY DEF ScanPopulate, SyncGood
<1>2. /\ scan[s] \in ScanState /\ \A y \in Scanner \ {s} : scan'[y] = scan[y]
      /\ scan'[s] = [scan[s] EXCEPT !.pc = "snapshot"]
  BY <1>1, UpdateIs
<1>3. scan'[s].pc = "snapshot" /\ scan'[s].mode = scan[s].mode
  BY <1>2 DEF ScanState
<1>4. ScanGood(s) /\ scan[s].base # NoUsn /\ db.usn # NoUsn /\ Open(s)
      /\ scan[s].base \in Usn /\ Reached(scan[s].base) /\ gui.app # "off"
  BY <1>1, RealPositions, ScanMeansOn DEF Rest, ScanGood, Phases, Founded, Open
<1>5. risk'.mem = risk.taint[s] /\ risk'.db = risk.db /\ risk'.savedAt = risk.savedAt
      /\ risk'.taint = risk.taint
  BY <1>1 DEF Inv, TypeOK, Risk
<1>6. DiskGood' /\ Resting' /\ Based' /\ SavedFits'
  BY <1>1, <1>4, <1>5, SameVolume DEF Rest, Resting, Based, SavedFits, Reached, NextUsn
<1>7. ASSUME NEW y \in Scanner \ {s} PROVE ScanGood(y)'
  <2>1. ScanGood(y)
    BY <1>1 DEF Rest
  <2>2. Open(y) => risk.taint[s]
    BY <1>4, <1>7 DEF ScanGood, Alone
  <2>3. \A x \in Scanner \ {y} : Open(x)' => Open(x)
    BY <1>2, <1>3 DEF Open
  <2>4. Alone(y)'
    BY <1>1, <1>2, <1>5, <1>7, <2>1, <2>3, StillAlone
  <2>5. QED
    BY <1>1, <1>2, <1>5, <1>7, <2>1, <2>2, <2>4, OtherScan
<1>8. ScanGood(s)'
  BY <1>1, <1>3, <1>4 DEF ScanGood, Phases, Founded, CopyFits, Alone, Open
<1>9. ASSUME Clean'
      PROVE  /\ Fits(disk, journal, scan[s].rows, db.usn)
             /\ PollFits(disk, journal, scan[s].rows, mon, db.usn)
  <2>1. ~risk.taint[s]
    BY <1>5, <1>9 DEF Clean
  <2>2. /\ Fits(disk, journal, scan[s].rows, scan[s].base) /\ db.usn = scan[s].base
        /\ Undisturbed(scan[s], mon, db.usn)
    BY <1>1, <1>4, <2>1 DEF ScanGood, CopyFits, Alone
  <2>3. QED
    BY <1>1, <1>2, <1>4, <2>2, UndisturbedFits
<1>10. ListFits'
  BY <1>1, <1>9 DEF ListFits
<1>11. QED
  BY <1>6, <1>7, <1>8, <1>10 DEF Rest

LEMMA SnapshotRest ==
  ASSUME SyncGood, NEW s \in Scanner, ScanSnapshot(s)
  PROVE  Rest'
<1> DEFINE r == [scan[s] EXCEPT !.pc = "store", !.rows = index.rows,
                                !.size = index.size, !.base = db.usn]
<1>1. /\ UNCHANGED <<disk, journal, db, index, gui, mon>> /\ Inv /\ NeverAhead /\ Rest
      /\ scan[s].pc = "snapshot" /\ Update(s, r)
      /\ risk' = [risk EXCEPT !.taint[s] = risk.mem \/ Torn(Scanner \ {s})]
  BY DEF ScanSnapshot, SyncGood
<1>2. /\ scan[s] \in ScanState /\ scan'[s] = r
      /\ \A y \in Scanner \ {s} : scan'[y] = scan[y]
  BY <1>1, UpdateIs
<1>3. /\ scan'[s].pc = "store" /\ scan'[s].mode = scan[s].mode
      /\ scan'[s].rows = index.rows /\ scan'[s].base = db.usn
  BY <1>2 DEF ScanState
<1>4. /\ risk'.mem = risk.mem /\ risk'.db = risk.db /\ risk'.savedAt = risk.savedAt
      /\ risk'.taint[s] = (risk.mem \/ Torn(Scanner \ {s}))
      /\ \A y \in Scanner \ {s} : risk'.taint[y] = risk.taint[y]
  BY <1>1 DEF Inv, TypeOK, Risk
<1>5. ScanGood(s) /\ db.usn # NoUsn /\ gui.app # "off"
  BY <1>1, ScanMeansOn DEF Rest, ScanGood, Founded
<1>6. ASSUME ~risk'.taint[s] PROVE Fits(disk, journal, index.rows, db.usn)
  BY <1>1, <1>4, <1>5, <1>6 DEF Rest, ListFits, Clean, Torn
<1>7. ScanGood(s)'
  BY <1>1, <1>3, <1>5, <1>6 DEF ScanGood, Phases, Founded, CopyFits, Alone, Open
<1>8. ~Open(s)' /\ scan'[s].pc # "populate" /\ scan[s].pc # "populate" /\ scan[s].pc # "idle"
  BY <1>1, <1>3 DEF Open
<1> HIDE DEF r
<1>9. QED
  BY <1>1, <1>2, <1>4, <1>7, <1>8, QuietScan

LEMMA StoreRest ==
  ASSUME SyncGood, NEW s \in Scanner, ScanStore(s)
  PROVE  Rest'
<1>1. /\ UNCHANGED <<disk, journal, index, mon>> /\ Inv /\ NeverAhead /\ Rest
      /\ scan[s].pc = "store" /\ Update(s, IdleScan)
      /\ db' = [db EXCEPT !.cache = [rows |-> scan[s].rows, size |-> scan[s].size]]
      /\ gui' = [gui EXCEPT !.inbox = Append(@, "scanDone")]
      /\ risk' = [risk EXCEPT !.db = risk.taint[s], !.savedAt = scan[s].base]
  BY DEF ScanStore, Finish, Stored, SyncGood
<1>2. scan'[s] = IdleScan /\ \A y \in Scanner \ {s} : scan'[y] = scan[y]
  BY <1>1, UpdateIs
<1>3. /\ db'.usn = db.usn /\ db'.cacheUsn = db.cacheUsn
      /\ db'.cache.rows = scan[s].rows /\ gui'.app = gui.app
  BY <1>1 DEF Inv, TypeOK, Database, Window
<1>4. /\ risk'.mem = risk.mem /\ risk'.db = risk.taint[s]
      /\ risk'.savedAt = scan[s].base /\ risk'.taint = risk.taint
  BY <1>1 DEF Inv, TypeOK, Risk
<1>5. ScanGood(s) /\ scan[s].base # NoUsn /\ Reached(scan[s].base) /\ db.usn # NoUsn
      /\ gui.app # "off"
  BY <1>1, RealPositions, ScanMeansOn DEF Rest, ScanGood, Phases, Founded
<1>6. DiskGood' /\ Resting' /\ Based'
  BY <1>1, <1>3, <1>4, <1>5, SameVolume DEF Rest, Resting, Based, Reached, NextUsn
<1>7. SavedFits'
  BY <1>1, <1>3, <1>4, <1>5 DEF SavedFits, ScanGood, CopyFits
<1>8. ScanGood(s)' /\ ~Open(s)' /\ scan[s].pc # "populate"
  <2>1. ScanGood(s)'
    BY <1>2, IdleIsGood
  <2>2. QED
    BY <1>1, <1>2, <2>1 DEF Open, IdleScan
<1>9. ASSUME NEW y \in Scanner \ {s} PROVE ScanGood(y)'
  <2>1. ScanGood(y)
    BY <1>1 DEF Rest
  <2>2. \A x \in Scanner \ {y} : Open(x)' => Open(x)
    BY <1>2, <1>8 DEF Open
  <2>3. Alone(y)'
    BY <1>1, <1>2, <1>3, <1>4, <1>9, <2>1, <2>2, StillAlone
  <2>4. QED
    BY <1>1, <1>2, <1>3, <1>4, <1>5, <1>9, <2>1, <2>3, OtherScan
<1>10. ListFits'
  <2>1. Clean' => Clean
    BY <1>1, <1>2, <1>3, <1>4 DEF Clean, Torn
  <2>2. QED
    BY <1>1, <1>3, <2>1 DEF Rest, ListFits
<1>11. QED
  BY <1>6, <1>7, <1>8, <1>9, <1>10 DEF Rest

LEMMA LoadRowsRest ==
  ASSUME SyncGood, NEW s \in Scanner, ScanLoadRows(s)
  PROVE  Rest'
<1> DEFINE r == [scan[s] EXCEPT !.pc = "loaded", !.rows = db.cache.rows,
                                !.size = db.cache.size, !.base = db.usn]
<1>1. /\ UNCHANGED <<disk, journal, db, index, gui, mon>> /\ Inv /\ NeverAhead /\ Rest
      /\ scan[s].pc = "start" /\ scan[s].mode = "cache" /\ Update(s, r)
      /\ risk' = [risk EXCEPT !.taint = Opened(s, LoadedRisk)]
  BY DEF ScanLoadRows, SyncGood
<1>2. /\ scan[s] \in ScanState /\ scan'[s] = r
      /\ \A y \in Scanner \ {s} : scan'[y] = scan[y]
  BY <1>1, UpdateIs
<1>3. /\ scan'[s].pc = "loaded" /\ scan'[s].mode = "cache"
      /\ scan'[s].rows = db.cache.rows /\ scan'[s].base = db.usn
  BY <1>1, <1>2 DEF ScanState
<1>4. /\ risk'.mem = risk.mem /\ risk'.db = risk.db /\ risk'.savedAt = risk.savedAt
      /\ ~risk'.taint[s] => ~LoadedRisk /\ \A y \in Scanner \ {s} : ~Open(y)
      /\ \A y \in Scanner \ {s} : ~risk'.taint[y] => ~risk.taint[y] /\ ~Open(y)
  BY <1>1, OpenedIs
<1>5. ScanGood(s) /\ risk.savedAt # NoUsn /\ db.usn # NoUsn /\ SavedFits
  BY <1>1 DEF Rest, ScanGood, Founded, Based
<1>6. ASSUME ~risk'.taint[s] PROVE Fits(disk, journal, db.cache.rows, db.usn)
  BY <1>4, <1>5, <1>6 DEF LoadedRisk, SavedFits
<1>7. ScanGood(s)'
  BY <1>1, <1>2, <1>3, <1>4, <1>5, <1>6 DEF ScanGood, Phases, Founded, CopyFits, Alone, Open
<1>8. scan'[s].pc # "populate" /\ scan[s].pc # "populate" /\ scan[s].pc # "idle"
      /\ gui'.app = gui.app
  BY <1>1, <1>3
<1>9. \A y \in Scanner \ {s} : /\ risk'.taint[y] \/ ~risk.taint[y]
                               /\ ~Open(y) \/ risk'.taint[y]
  BY <1>4
<1> HIDE DEF r
<1>10. QED
  BY <1>1, <1>2, <1>4, <1>7, <1>8, <1>9, QuietScan

\* remove_excluded takes nothing away that should be listed.
LEMMA ShownFits ==
  ASSUME NEW rows, NEW pos, Fits(disk, journal, rows, pos)
  PROVE  Fits(disk, journal, [f \in File |-> Shown(rows[f])], pos)
<1> DEFINE shown == [f \in File |-> Shown(rows[f])]
<1>1. ASSUME NEW f \in File, disk[f] \notin Excluded, rows[f] = disk[f], Sole(disk, rows, f)
      PROVE  shown[f] = disk[f] /\ Sole(disk, shown, f)
  BY <1>1 DEF Shown, Sole
<1>2. ASSUME NEW f \in File, Right(disk, rows, f) PROVE Right(disk, shown, f)
  BY <1>1, <1>2 DEF Right
<1>3. QED
  BY <1>2 DEF Fits

LEMMA LoadRest ==
  ASSUME SyncGood, NEW s \in Scanner, ScanLoad(s)
  PROVE  Rest'
<1> DEFINE shown == [f \in File |-> Shown(scan[s].rows[f])]
<1>1. /\ UNCHANGED <<disk, journal, db, mon>> /\ Inv /\ NeverAhead /\ Rest
      /\ scan[s].pc = "loaded" /\ Update(s, IdleScan)
      /\ index' = CaughtUp([rows |-> shown, size |-> scan[s].size])
      /\ gui' = [gui EXCEPT !.inbox = Append(@, "cacheDone")]
      /\ risk' = [risk EXCEPT !.mem = risk.taint[s] \/ scan[s].base # db.usn \/ Polling]
  BY DEF ScanLoad, Finish, SyncGood
<1>2. scan'[s] = IdleScan /\ \A y \in Scanner \ {s} : scan'[y] = scan[y]
  BY <1>1, UpdateIs
<1>3. gui'.app = gui.app /\ index' = [rows |-> shown, size |-> scan[s].size]
  BY <1>1 DEF Rest, Based, CaughtUp, Inv, TypeOK, Window
<1>4. /\ risk'.mem = (risk.taint[s] \/ scan[s].base # db.usn \/ Polling)
      /\ risk'.db = risk.db /\ risk'.savedAt = risk.savedAt /\ risk'.taint = risk.taint
  BY <1>1 DEF Inv, TypeOK, Risk
<1>5. ScanGood(s) /\ Open(s) /\ db.usn # NoUsn /\ gui.app # "off"
  BY <1>1, ScanMeansOn DEF Rest, ScanGood, Phases, Founded, Based, Open
<1>6. DiskGood' /\ Resting' /\ Based' /\ SavedFits'
  BY <1>1, <1>3, <1>4, <1>5, SameVolume DEF Rest, Resting, Based, SavedFits, Reached, NextUsn
<1>7. ScanGood(s)'
  BY <1>2, IdleIsGood
<1>8. ~Open(s)'
  BY <1>2 DEF Open, IdleScan
<1>9. ASSUME NEW y \in Scanner \ {s} PROVE ScanGood(y)'
  <2>1. ScanGood(y)
    BY <1>1 DEF Rest
  <2>2. Open(y) => risk.taint[s]
    BY <1>5, <1>9 DEF ScanGood, Alone
  <2>3. \A x \in Scanner \ {y} : Open(x)' => Open(x)
    BY <1>2, <1>8 DEF Open
  <2>4. Alone(y)'
    BY <1>1, <1>2, <1>4, <1>9, <2>1, <2>3, StillAlone
  <2>5. QED
    BY <1>1, <1>2, <1>4, <1>9, <2>1, <2>2, <2>4, OtherScan
<1>10. ASSUME Clean'
       PROVE  Fits(disk, journal, shown, db.usn) /\ mon.pc \notin {"query", "read", "apply"}
  <2>1. ~risk.taint[s] /\ scan[s].base = db.usn /\ ~Polling
    BY <1>4, <1>10 DEF Clean
  <2>2. Fits(disk, journal, scan[s].rows, db.usn)
    BY <1>1, <1>5, <2>1 DEF ScanGood, CopyFits
  <2>3. QED
    BY <2>1, <2>2, ShownFits DEF Polling
<1>11. ListFits'
  <2> HIDE DEF shown
  <2> QED BY <1>1, <1>3, <1>10 DEF ListFits, PollFits
<1>12. QED
  BY <1>6, <1>7, <1>9, <1>11 DEF Rest

LEMMA ScannerRest ==
  ASSUME SyncGood, NEW s \in Scanner, ScannerStep(s) \/ ScannerFault(s) PROVE Rest'
BY OpenRest, ReadRest, QuitRest, CollectRest, PopulateRest, SnapshotRest, StoreRest,
   LoadRowsRest, LoadRest DEF ScannerStep, ScannerFault

-----------------------------------------------------------------------------
(* The monitor. *)

LEMMA PollMeansOn ==
  ASSUME Rest, mon.pc # "off" PROVE gui.app # "off"
BY DEF Rest, Resting

\* Steps in which no scan moves.
LEMMA ScansStay ==
  ASSUME SyncGood, UNCHANGED <<disk, journal, scan>>,
         risk.mem => risk'.mem, \A s \in Scanner : risk'.taint[s] \/ ~risk.taint[s],
         risk.savedAt # NoUsn => risk'.savedAt # NoUsn,
         db.usn # NoUsn => db'.usn # NoUsn,
         NEW s \in Scanner, Alone(s)'
  PROVE  ScanGood(s)'
<1>1. ScanGood(s) /\ scan'[s] = scan[s]
  BY DEF SyncGood, Rest
<1>2. QED
  BY <1>1, OtherScan

\* A poll that ends, or is told to stop, disturbs nothing.
LEMMA QuietPoll ==
  ASSUME SyncGood, UNCHANGED <<disk, journal, scan, db, index, risk>>,
         gui.app # "off", gui'.app # "off",
         \/ mon' = mon
         \/ mon'.pc \in {"off", "sleep"} /\ mon'.todo = NoRows
         \/ \E b : mon' = [mon EXCEPT !.stop = b]
  PROVE  Rest'
<1>1. Inv /\ Rest /\ mon \in MonitorState
  BY DEF SyncGood, Inv, TypeOK
<1>2. \/ mon'.pc \in {"off", "sleep"} /\ mon'.todo = NoRows
      \/ /\ mon'.pc = mon.pc /\ mon'.start = mon.start /\ mon'.upto = mon.upto
         /\ mon'.dels = mon.dels /\ mon'.upds = mon.upds /\ mon'.todo = mon.todo
  BY <1>1 DEF MonitorState
<1>3. DiskGood' /\ Resting' /\ Based' /\ SavedFits'
  BY <1>1, <1>2, SameVolume DEF Rest, Resting, Based, SavedFits, Reached, NextUsn
<1>4. ASSUME NEW s \in Scanner PROVE ScanGood(s)'
  <2>1. Alone(s)
    BY <1>1 DEF Rest, ScanGood
  <2>2. Undisturbed(scan[s], mon, db.usn) => Undisturbed(scan[s], mon', db.usn)
    BY <1>2 DEF Undisturbed, End
  <2>3. Alone(s)'
    BY <2>1, <2>2 DEF Alone, Open
  <2>4. QED
    BY <2>3, ScansStay
<1>5. ListFits'
  <2>1. Clean' => Clean
    BY DEF Clean, Torn
  <2>2. PollFits(disk, journal, index.rows, mon, db.usn)
        => PollFits(disk, journal, index.rows, mon', db.usn)
    BY <1>2 DEF PollFits, Fetched, Done, End
  <2>3. QED
    BY <1>1, <2>1, <2>2 DEF Rest, ListFits
<1>6. QED
  BY <1>3, <1>4, <1>5 DEF Rest

LEMMA EndPollIs ==
  ASSUME Inv, EndPoll PROVE mon'.pc = "sleep" /\ mon'.todo = NoRows
BY DEF EndPoll, NewMonitor, OffMonitor

LEMMA PollEndsRest ==
  ASSUME SyncGood, MonExit \/ MonExpired \/ MonVolumeError \/ MonDbError
  PROVE  Rest'
<1>1. UNCHANGED <<disk, journal, scan, db, index, risk>> /\ mon.pc # "off"
      /\ (gui' = gui \/ gui' = [gui EXCEPT !.inbox = Append(@, "needsFullScan")])
      /\ (EndPoll \/ mon' = OffMonitor)
  BY DEF MonExit, MonExpired, MonVolumeError, MonDbError, AskFullScan, MonitorKeeps, Resolved
<1>2. gui'.app = gui.app /\ gui.app # "off"
  BY <1>1, PollMeansOn DEF SyncGood, Inv, TypeOK, Window
<1>3. mon'.pc \in {"off", "sleep"} /\ mon'.todo = NoRows
  BY <1>1, EndPollIs DEF SyncGood, OffMonitor
<1>4. QED
  BY <1>1, <1>2, <1>3, QuietPoll

LEMMA PollStepRest ==
  ASSUME SyncGood, UNCHANGED <<disk, journal, scan, gui>>, mon.pc # "off",
         mon'.pc # "apply" => mon'.todo = NoRows,
         db'.usn # NoUsn, db'.cache = db.cache, db'.cacheUsn = db.cacheUsn,
         risk'.savedAt = risk.savedAt, risk'.db = risk.db, risk.mem => risk'.mem,
         \A s \in Scanner : risk'.taint[s] \/ ~risk.taint[s],
         \A s \in Scanner : Alone(s)',
         ListFits'
  PROVE  Rest'
<1>1. Rest /\ gui.app # "off"
  BY PollMeansOn DEF SyncGood
<1>2. DiskGood' /\ Resting' /\ Based' /\ SavedFits'
  BY <1>1, SameVolume DEF Rest, Resting, Based, SavedFits, Reached, NextUsn
<1>3. ASSUME NEW s \in Scanner PROVE ScanGood(s)'
  BY ScansStay
<1>4. QED
  BY <1>2, <1>3 DEF Rest

LEMMA LoadPollRest ==
  ASSUME SyncGood, MonLoad
  PROVE  Rest'
<1>1. /\ UNCHANGED <<disk, journal, scan, gui, db, index, risk>> /\ Inv /\ Rest
      /\ mon.pc = "sleep" /\ db.usn # NoUsn
      /\ mon' = [mon EXCEPT !.pc = "query", !.start = db.usn]
  BY DEF MonLoad, MonitorKeeps, SyncGood
<1>2. mon'.pc = "query" /\ mon'.start = db.usn /\ mon'.todo = NoRows
  BY <1>1 DEF Rest, Resting, Inv, TypeOK, MonitorState
<1>3. ASSUME NEW s \in Scanner PROVE Alone(s)'
  <2>1. Alone(s)
    BY <1>1 DEF Rest, ScanGood
  <2>2. QED
    BY <1>1, <1>2, <2>1 DEF Alone, Open, Undisturbed
<1>4. ListFits'
  BY <1>1, <1>2 DEF Rest, ListFits, Clean, Torn, PollFits
<1>5. QED
  BY <1>1, <1>2, <1>3, <1>4, PollStepRest

\* A position reached is at or before the end of a poll that begins.
LEMMA BeforeTheEnd ==
  ASSUME Inv, NEW p \in Usn, Reached(p), NEW e \in Usn, e.id = journal.id, e.next = NextUsn
  PROVE  AtOrBefore(p, e)
<1>1. p # NoUsn /\ p.id \in Nat /\ p.next \in Nat /\ journal.id \in Nat /\ NextUsn \in Nat
  BY ConstantsOK DEF Usn, Inv, TypeOK, Journal, NextUsn
<1>2. QED
  BY <1>1 DEF Reached, AtOrBefore

LEMMA QueryRest ==
  ASSUME SyncGood, MonQuery
  PROVE  Rest'
<1>1. /\ UNCHANGED <<disk, journal, scan, gui, db, index, risk>> /\ Inv /\ NeverAhead /\ Rest
      /\ mon.pc = "query" /\ ~Expired(mon.start)
      /\ mon' = [mon EXCEPT !.pc = "read", !.upto = NextUsn]
  BY DEF MonQuery, MonitorKeeps, SyncGood
<1>2. /\ mon'.pc = "read" /\ mon'.start = mon.start /\ mon'.upto = NextUsn
      /\ mon'.todo = NoRows /\ db.usn # NoUsn
  BY <1>1 DEF Rest, Resting, Based, Inv, TypeOK, MonitorState
<1>3. PICK e \in Usn : e = End(mon') /\ e.id = journal.id /\ e.next = NextUsn
  <2>1. [id |-> journal.id, next |-> NextUsn] \in Usn
    BY <1>1, PositionType
  <2>2. End(mon') = [id |-> journal.id, next |-> NextUsn]
    BY <1>1, <1>2 DEF End, Expired
  <2>3. QED
    BY <2>1, <2>2
<1>4. AtOrBefore(db.usn, e)
  <2>1. db.usn \in Usn /\ Reached(db.usn)
    BY <1>1, <1>2, RealPositions
  <2>2. QED
    BY <1>1, <1>3, <2>1, BeforeTheEnd
<1>5. ASSUME NEW s \in Scanner PROVE Alone(s)'
  <2>1. Alone(s) /\ Phases(scan[s])
    BY <1>1 DEF Rest, ScanGood
  <2>2. ASSUME Undisturbed(scan[s], mon, db.usn), scan[s].base # NoUsn
        PROVE  Undisturbed(scan[s], mon', db.usn)
    <3>1. scan[s].base \in Usn /\ Reached(scan[s].base)
      BY <1>1, <2>2, RealPositions
    <3>2. AtOrBefore(scan[s].base, e)
      BY <1>1, <1>3, <3>1, BeforeTheEnd
    <3>3. QED
      BY <1>1, <1>2, <1>3, <2>2, <3>2 DEF Undisturbed
  <2>3. Open(s) /\ scan[s].pc # "loaded" => scan[s].base # NoUsn
    BY <2>1 DEF Open, Phases
  <2>4. QED
    BY <1>1, <2>1, <2>2, <2>3 DEF Alone, Open
<1>6. ListFits'
  <2>1. Clean' => Clean
    BY <1>1 DEF Clean, Torn
  <2>2. Clean => Fits(disk, journal, index.rows, mon.start)
    BY <1>1 DEF Rest, ListFits, PollFits
  <2>3. Clean => PollFits(disk, journal, index.rows, mon', db.usn)
    BY <1>2, <1>3, <1>4, <2>2 DEF PollFits
  <2>4. QED
    BY <1>1, <2>1, <2>3 DEF Rest, ListFits
<1>7. QED
  BY <1>1, <1>2, <1>5, <1>6, PollStepRest

\* Of the files with a record after n, those whose last record is a deletion
\* are gone from the volume, and the others are on it.
LEMMA LastRecordTells ==
  ASSUME Inv, DiskGood, NEW n \in Nat, journal.lowest \leq n, NEW f \in File,
         Later(journal, f, n)
  PROVE  /\ f \in Touched(n, NextUsn)
         /\ LastDeletes(f, n, NextUsn) <=> disk[f] = NoPath
<1>1. /\ NextUsn \in Nat /\ journal.lowest \in Nat
      /\ journal.recs \in Seq([file : File, del : BOOLEAN])
  BY DEF Inv, TypeOK, Journal, NextUsn
<1>2. \A i \in n+1..NextUsn : i \in Records(n, NextUsn) /\ i \in 1..NextUsn
  BY <1>1 DEF Records
<1>3. PICK i \in n+1..NextUsn : journal.recs[i].file = f
  BY DEF Later, NextUsn
<1>4. f \in Touched(n, NextUsn)
  BY <1>2, <1>3 DEF Touched
<1>5. PICK k \in i..NextUsn : journal.recs[k].file = f /\ Says(disk, journal, k)
  BY <1>2, <1>3 DEF DiskGood, Recorded, NextUsn
<1>6. k \in n+1..NextUsn
  BY <1>1, <1>3, <1>5
<1>7. /\ \A x \in k+1..NextUsn : journal.recs[x].file # f
      /\ journal.recs[k].del <=> disk[f] = NoPath
  BY <1>5 DEF Says, LastRecord, NextUsn
<1>8. ASSUME disk[f] = NoPath PROVE LastDeletes(f, n, NextUsn)
  <2>1. journal.recs[k] \in [file : File, del : BOOLEAN]
    BY <1>1, <1>2, <1>6, ElementType DEF NextUsn
  <2>2. journal.recs[k] = [file |-> f, del |-> TRUE]
    BY <1>5, <1>7, <1>8, <2>1
  <2>3. QED
    BY <1>2, <1>6, <1>7, <2>2 DEF LastDeletes
<1>9. ASSUME LastDeletes(f, n, NextUsn) PROVE disk[f] = NoPath
  <2>1. PICK x \in Records(n, NextUsn) : /\ journal.recs[x] = [file |-> f, del |-> TRUE]
                                         /\ \A y \in x+1..NextUsn : journal.recs[y].file # f
    BY <1>9 DEF LastDeletes
  <2>2. x \in Nat /\ k \in Nat /\ x \leq NextUsn /\ k \leq NextUsn
    BY <1>1, <1>6 DEF Records
  <2>3. x = k
    <3>1. ~(k > x)
      BY <1>1, <1>5, <2>1, <2>2
    <3>2. ~(x > k)
      BY <1>1, <1>7, <2>1, <2>2
    <3>3. QED
      BY <2>2, <3>1, <3>2
  <2>4. QED
    BY <1>7, <2>1, <2>3
<1>10. QED
  BY <1>4, <1>8, <1>9

LEMMA TouchedLater ==
  ASSUME Inv, NEW n \in Nat, NEW f \in Touched(n, NextUsn) PROVE f \in File /\ Later(journal, f, n)
<1>1. /\ NextUsn \in Nat /\ journal.recs \in Seq([file : File, del : BOOLEAN])
  BY DEF Inv, TypeOK, Journal, NextUsn
<1>2. PICK i \in n+1..NextUsn : journal.recs[i].file = f
  BY DEF Touched, Records
<1>3. i \in 1..NextUsn
  BY <1>1
<1>4. journal.recs[i] \in [file : File, del : BOOLEAN]
  BY <1>1, <1>3, ElementType DEF NextUsn
<1>5. QED
  BY <1>2, <1>4 DEF Later, NextUsn

\* What a poll finds when it reads to the end of the journal.
LEMMA FoundIsTrue ==
  ASSUME Inv, DiskGood, mon.pc = "read", mon.start \in Usn, ~Expired(mon.start),
         mon.todo = NoRows, ReadUpTo(NextUsn), NEW rows, Fits(disk, journal, rows, mon.start)
  PROVE  Fetched(disk, journal, mon') /\ \A f \in File : Done(disk, journal, rows, mon', f)
<1> DEFINE n == mon.start.next
           files == Touched(n, NextUsn)
           dels == {f \in files : LastDeletes(f, n, NextUsn)}
<1>1. mon' = [mon EXCEPT !.pc = "apply", !.dels = dels, !.upds = files \ dels]
  BY DEF ReadUpTo
<1>2. mon'.dels = dels /\ mon'.upds = files \ dels /\ mon'.todo = NoRows
  BY <1>1 DEF Inv, TypeOK, MonitorState
<1>3. n \in Nat /\ journal.lowest \leq n /\ ~Gone(journal, mon.start)
  BY ConstantsOK DEF Usn, Expired, Gone, Inv, TypeOK, Journal
<1>4. ASSUME NEW f \in files PROVE f \in File /\ (f \in dels <=> disk[f] = NoPath)
  BY <1>3, <1>4, TouchedLater, LastRecordTells
<1>5. ASSUME NEW f \in File, Later(journal, f, n) PROVE f \in files
  BY <1>3, <1>5, LastRecordTells
<1> HIDE DEF dels, files, n
<1>6. Fetched(disk, journal, mon')
  <2>1. ASSUME NEW f \in File
        PROVE  /\ f \in mon'.dels => disk[f] = NoPath
               /\ f \in mon'.upds => disk[f] # NoPath
               /\ mon'.todo[f] = NoPath
    BY <1>2, <1>4 DEF dels, NoRows
  <2>2. QED
    BY <2>1 DEF Fetched
<1>7. ASSUME NEW f \in File PROVE Done(disk, journal, rows, mon', f)
  <2>1. Right(disk, rows, f) \/ Later(journal, f, n)
    BY <1>3 DEF Fits, Ahead, n
  <2>2. f \in files => f \in mon'.dels \/ f \in mon'.upds
    BY <1>2
  <2>3. QED
    BY <1>5, <2>1, <2>2 DEF Done
<1>8. QED
  BY <1>6, <1>7

\* A poll that is about to apply leaves no open scan unmarked.
LEMMA TaintedAlone ==
  ASSUME Inv, scan' = scan, risk'.taint = Tainted(risk.taint), NEW s \in Scanner
  PROVE  Alone(s)' /\ (risk'.taint[s] \/ ~risk.taint[s])
<1>1. risk'.taint[s] = (risk.taint[s] \/ Open(s))
  BY DEF Tainted
<1>2. Open(s)' = Open(s)
  BY DEF Open
<1>3. Alone(s)'
  BY <1>1, <1>2 DEF Alone
<1>4. QED
  BY <1>1, <1>3

LEMMA ReadPollRest ==
  ASSUME SyncGood, MonRead
  PROVE  Rest'
<1>1. /\ UNCHANGED <<disk, journal, scan, gui, db, index>> /\ Inv /\ NeverAhead /\ Rest
      /\ mon.pc = "read" /\ ~Expired(mon.start) /\ ReadUpTo(NextUsn)
      /\ risk' = [risk EXCEPT !.taint = Tainted(@)]
  BY DEF MonRead, MonitorKeeps, SyncGood
<1>2. /\ mon'.pc = "apply" /\ mon'.start = mon.start /\ mon'.upto = mon.upto
      /\ mon.todo = NoRows /\ db.usn # NoUsn /\ mon.start \in Usn
  BY <1>1, RealPositions DEF ReadUpTo, Rest, Resting, Based, Inv, TypeOK, MonitorState
<1>3. /\ risk'.mem = risk.mem /\ risk'.db = risk.db /\ risk'.savedAt = risk.savedAt
      /\ risk'.taint = Tainted(risk.taint)
  BY <1>1 DEF Inv, TypeOK, Risk
<1>4. ASSUME NEW s \in Scanner PROVE Alone(s)' /\ (risk'.taint[s] \/ ~risk.taint[s])
  BY <1>1, <1>3, TaintedAlone
<1>5. ListFits'
  <2>1. Clean' => Clean
    BY <1>1, <1>3 DEF Clean, Torn
  <2>2. Clean => /\ Fits(disk, journal, index.rows, db.usn)
                 /\ Fits(disk, journal, index.rows, mon.start) /\ AtOrBefore(db.usn, End(mon))
    BY <1>1 DEF Rest, ListFits, PollFits
  <2>3. Clean => PollFits(disk, journal, index.rows, mon', db.usn)
    BY <1>1, <1>2, <2>2, FoundIsTrue DEF PollFits, End, Rest
  <2>4. QED
    BY <1>1, <2>1, <2>2, <2>3 DEF ListFits
<1>6. QED
  BY <1>1, <1>2, <1>3, <1>4, <1>5, PollStepRest

\* Of a journal that was re-created, the poll ends ahead of every file.
LEMMA RecreatedRest ==
  ASSUME SyncGood, MonReadRecreated
  PROVE  Rest'
<1>1. /\ UNCHANGED <<disk, journal, scan, gui, db, index>> /\ Inv /\ Rest
      /\ mon.pc = "read" /\ mon.start.id # journal.id
      /\ mon' = [mon EXCEPT !.pc = "apply", !.dels = {}, !.upds = {}]
      /\ risk' = [risk EXCEPT !.taint = Tainted(@)]
  BY DEF MonReadRecreated, MonitorKeeps, SyncGood
<1>2. /\ mon'.pc = "apply" /\ mon'.start = mon.start /\ mon'.upto = mon.upto
      /\ mon'.dels = {} /\ mon'.upds = {} /\ mon'.todo = NoRows
      /\ db.usn # NoUsn
  <2>1. mon \in MonitorState /\ mon.todo = NoRows /\ db.usn # NoUsn
    BY <1>1 DEF Rest, Resting, Based, Inv, TypeOK
  <2>2. QED
    BY <1>1, <2>1 DEF MonitorState
<1>3. /\ risk'.mem = risk.mem /\ risk'.db = risk.db /\ risk'.savedAt = risk.savedAt
      /\ risk'.taint = Tainted(risk.taint)
  BY <1>1 DEF Inv, TypeOK, Risk
<1>4. ASSUME NEW s \in Scanner PROVE Alone(s)' /\ (risk'.taint[s] \/ ~risk.taint[s])
  BY <1>1, <1>3, TaintedAlone
<1>5. ListFits'
  <2>1. Clean' => Clean
    BY <1>1, <1>3 DEF Clean, Torn
  <2>2. Clean => Fits(disk, journal, index.rows, db.usn) /\ AtOrBefore(db.usn, End(mon))
    BY <1>1 DEF Rest, ListFits, PollFits
  <2>3. End(mon') = End(mon) /\ \A f \in File : Ahead(journal, f, End(mon'))
    BY <1>1, <1>2 DEF End, Ahead, Gone
  <2>4. PollFits(disk, journal, index.rows, mon', db.usn) <=> AtOrBefore(db.usn, End(mon))
    BY <1>2, <2>3 DEF PollFits, Fetched, Done
  <2>5. QED
    BY <1>1, <2>1, <2>2, <2>4 DEF ListFits
<1>6. QED
  BY <1>1, <1>2, <1>3, <1>4, <1>5, PollStepRest

\* The steps of a poll after which nothing is claimed of the list.
LEMMA PollHazardRest ==
  ASSUME SyncGood, MonReadCutShort \/ (\E F : MonUnresolved(F)) \/ MonBreak
  PROVE  Rest'
<1>1. /\ UNCHANGED <<disk, journal, scan, gui, db, index>> /\ Inv /\ Rest
      /\ mon.pc \in {"read", "apply"}
  BY DEF MonReadCutShort, MonUnresolved, MonBreak, Resolved, MonitorKeeps, SyncGood
<1>2. mon'.pc = "apply" /\ db.usn # NoUsn
  BY <1>1 DEF MonReadCutShort, ReadUpTo, MonUnresolved, MonBreak, Resolved, Rest, Based,
              Inv, TypeOK, MonitorState
<1>3. risk'.mem = TRUE /\ risk'.db = risk.db /\ risk'.savedAt = risk.savedAt
  BY <1>1 DEF MonReadCutShort, MonUnresolved, MonBreak, Inv, TypeOK, Risk
<1>4. ASSUME NEW s \in Scanner PROVE Alone(s)' /\ (risk'.taint[s] \/ ~risk.taint[s])
  <2>1. CASE MonReadCutShort
    <3>1. risk'.taint = Tainted(risk.taint)
      BY <1>1, <2>1 DEF MonReadCutShort, Inv, TypeOK, Risk
    <3>2. QED
      BY <1>1, <3>1, TaintedAlone
  <2>2. CASE (\E F : MonUnresolved(F)) \/ MonBreak
    <3>1. risk'.taint = risk.taint /\ mon.pc = "apply"
      BY <1>1, <2>2 DEF MonUnresolved, MonBreak, Resolved, Inv, TypeOK, Risk
    <3>2. Alone(s)
      BY <1>1 DEF Rest, ScanGood
    <3>3. QED
      BY <1>1, <3>1, <3>2 DEF Alone, Open, Undisturbed
  <2>3. QED
    BY <2>1, <2>2
<1>5. ListFits'
  BY <1>3 DEF ListFits, Clean
<1>6. QED
  BY <1>1, <1>2, <1>3, <1>4, <1>5, PollStepRest

\* While a poll is applied, every open scan is marked or a fast start.
LEMMA ApplyAlone ==
  ASSUME SyncGood, mon.pc = "apply", scan' = scan, risk' = risk, NEW s \in Scanner
  PROVE  Alone(s)'
<1>1. Alone(s)
  BY DEF SyncGood, Rest, ScanGood
<1>2. QED
  BY <1>1 DEF Alone, Open, Undisturbed

\* In a poll that is being applied, a row is right, or a record follows.
LEMMA ApplyFacts ==
  ASSUME SyncGood, Clean, mon.pc = "apply"
  PROVE  /\ Fetched(disk, journal, mon)
         /\ \A f \in File : Done(disk, journal, index.rows, mon, f)
         /\ \A f \in File : Ahead(journal, f, End(mon)) => Ahead(journal, f, db.usn)
<1>1. /\ PollFits(disk, journal, index.rows, mon, db.usn) /\ Inv /\ NeverAhead /\ db.usn # NoUsn
  BY DEF SyncGood, Rest, ListFits, Based
<1>2. db.usn \in Usn /\ journal \in Journal
  BY <1>1, RealPositions
<1>3. PICK e \in Usn : e = End(mon) /\ Reached(e)
  BY <1>1, RealPositions
<1>4. AtOrBefore(db.usn, e) /\ e.id \leq journal.id
  BY <1>1, <1>3, ConstantsOK DEF PollFits, Reached, Usn
<1>5. \A f \in File : Ahead(journal, f, e) => Ahead(journal, f, db.usn)
  BY <1>2, <1>4, AheadOfEarlier
<1>6. QED
  BY <1>1, <1>3, <1>5 DEF PollFits

\* A change of the list by one found file: no row gets wrong unless a record
\* follows, and what was found stays found or is right from now on.
LEMMA ApplyRest ==
  ASSUME SyncGood, mon.pc = "apply", UNCHANGED <<disk, journal, scan, gui, db, risk>>,
         mon'.pc = "apply", mon'.start = mon.start, mon'.upto = mon.upto,
         Clean =>
           /\ Fetched(disk, journal, mon')
           /\ \A f \in File :
                Right(disk, index.rows, f) => \/ Right(disk, index'.rows, f)
                                             \/ Ahead(journal, f, End(mon))
           /\ \A f \in File :
                f \in mon.dels \/ f \in mon.upds \/ mon.todo[f] # NoPath
                  => Done(disk, journal, index'.rows, mon', f)
  PROVE  Rest'
<1>1. db.usn # NoUsn /\ Rest
  BY DEF SyncGood, Rest, Based
<1>2. \A s \in Scanner : Alone(s)' /\ (risk'.taint[s] \/ ~risk.taint[s])
  BY ApplyAlone
<1>3. ASSUME Clean
      PROVE  /\ Fits(disk, journal, index'.rows, db.usn)
             /\ PollFits(disk, journal, index'.rows, mon', db.usn)
  <2>1. /\ Fits(disk, journal, index.rows, db.usn) /\ AtOrBefore(db.usn, End(mon'))
        /\ End(mon') = End(mon)
    BY <1>1, <1>3 DEF Rest, ListFits, PollFits, End
  <2>2. Fits(disk, journal, index'.rows, db.usn)
    BY <1>3, <2>1, ApplyFacts DEF Fits
  <2>3. \A f \in File : Done(disk, journal, index'.rows, mon', f)
    BY <1>3, <2>1, ApplyFacts DEF Done
  <2>4. QED
    BY <1>3, <2>1, <2>2, <2>3 DEF PollFits
<1>4. ListFits'
  <2>1. Clean' => Clean
    BY DEF Clean, Torn
  <2>2. QED
    BY <1>3, <2>1 DEF ListFits
<1>5. QED
  BY <1>1, <1>2, <1>4, PollStepRest

LEMMA DeleteRest ==
  ASSUME SyncGood, NEW f \in File, MonDelete(f)
  PROVE  Rest'
<1>1. /\ UNCHANGED <<disk, journal, scan, gui, db, risk>> /\ Inv /\ Rest
      /\ mon.pc = "apply" /\ f \in mon.dels
      /\ index' = Drop(index, {f}) /\ mon' = [mon EXCEPT !.dels = @ \ {f}]
  BY DEF MonDelete, MonitorKeeps, SyncGood
<1>2. /\ mon'.pc = mon.pc /\ mon'.start = mon.start /\ mon'.upto = mon.upto
      /\ mon'.dels = mon.dels \ {f} /\ mon'.upds = mon.upds /\ mon'.todo = mon.todo
  BY <1>1 DEF Inv, TypeOK, MonitorState
<1>3. index'.rows[f] = NoPath /\ \A g \in File \ {f} : index'.rows[g] = index.rows[g]
  BY <1>1 DEF Drop, Inv, TypeOK, Index
<1>4. ASSUME Clean
      PROVE  /\ Fetched(disk, journal, mon) /\ (disk[f] = NoPath \/ Ahead(journal, f, End(mon)))
  BY <1>1, <1>4, ApplyFacts DEF Fetched
<1>5. ASSUME Clean PROVE Fetched(disk, journal, mon')
  BY <1>2, <1>4, <1>5 DEF Fetched, End
<1>6. ASSUME NEW g \in File \ {f}, Right(disk, index.rows, g) PROVE Right(disk, index'.rows, g)
  BY <1>3, <1>6 DEF Right, Sole
<1>7. disk[f] = NoPath => Right(disk, index'.rows, f)
  BY <1>3 DEF Right, Sole
<1>8. ASSUME Clean, NEW g \in File, g \in mon.dels \/ g \in mon.upds \/ mon.todo[g] # NoPath
      PROVE  Done(disk, journal, index'.rows, mon', g)
  <2>1. CASE g = f
    BY <1>2, <1>4, <1>7, <1>8, <2>1 DEF Done, End
  <2>2. CASE g # f
    BY <1>2, <1>8, <2>2 DEF Done
  <2>3. QED
    BY <2>1, <2>2
<1>9. ASSUME Clean, NEW g \in File, Right(disk, index.rows, g)
      PROVE  Right(disk, index'.rows, g) \/ Ahead(journal, g, End(mon))
  BY <1>4, <1>6, <1>7, <1>9
<1>10. QED
  BY <1>1, <1>2, <1>5, <1>8, <1>9, ApplyRest

LEMMA ResolveRest ==
  ASSUME SyncGood, NEW f \in File, MonResolve(f)
  PROVE  Rest'
<1>1. /\ UNCHANGED <<disk, journal, scan, gui, db, index, risk>> /\ Inv /\ Rest
      /\ mon.pc = "apply" /\ f \in mon.upds
      /\ mon' = [mon EXCEPT !.upds = @ \ {f}, !.todo[f] = disk[f]]
  BY DEF MonResolve, MonitorKeeps, SyncGood
<1>2. /\ mon'.pc = mon.pc /\ mon'.start = mon.start /\ mon'.upto = mon.upto
      /\ mon'.dels = mon.dels /\ mon'.upds = mon.upds \ {f}
      /\ mon'.todo[f] = disk[f] /\ \A g \in File \ {f} : mon'.todo[g] = mon.todo[g]
  BY <1>1 DEF Inv, TypeOK, MonitorState, Rows
<1>3. ASSUME Clean PROVE Fetched(disk, journal, mon)
  BY <1>1, <1>3, ApplyFacts
<1>4. \A g \in File \ {f} : disk[g] = disk[f] => disk[f] = NoPath
  BY <1>1 DEF Rest, DiskGood
<1>5. ASSUME Clean PROVE Fetched(disk, journal, mon')
  BY <1>2, <1>3, <1>4, <1>5 DEF Fetched, End
<1>6. ASSUME Clean, NEW g \in File, g \in mon.dels \/ g \in mon.upds \/ mon.todo[g] # NoPath
      PROVE  Done(disk, journal, index.rows, mon', g)
  <2>1. CASE g = f
    BY <1>1, <1>2, <1>3, <1>6, <2>1 DEF Done, End, Fetched
  <2>2. CASE g # f
    BY <1>2, <1>6, <2>2 DEF Done
  <2>3. QED
    BY <2>1, <2>2
<1>7. QED
  BY <1>1, <1>2, <1>5, <1>6, ApplyRest

LEMMA UpdateRest ==
  ASSUME SyncGood, NEW f \in File, MonUpdate(f)
  PROVE  Rest'
<1>0. PICK p \in Path : p = mon.todo[f]
  BY DEF MonUpdate, SyncGood, Inv, TypeOK, MonitorState, Rows
<1>1. /\ UNCHANGED <<disk, journal, scan, gui, db, risk>> /\ Inv /\ Rest
      /\ mon.pc = "apply" /\ p # NoPath
      /\ index' = IF p \in Excluded THEN index ELSE Put(index, f, p)
      /\ mon' = [mon EXCEPT !.todo[f] = NoPath]
  BY <1>0, ConstantsOK DEF MonUpdate, Resolved, MonitorKeeps, SyncGood
<1>2. /\ mon'.pc = mon.pc /\ mon'.start = mon.start /\ mon'.upto = mon.upto
      /\ mon'.dels = mon.dels /\ mon'.upds = mon.upds
      /\ mon'.todo[f] = NoPath /\ \A g \in File \ {f} : mon'.todo[g] = mon.todo[g]
  BY <1>1 DEF Inv, TypeOK, MonitorState, Rows
<1>3. p \notin Excluded => \A g \in File : index'.rows[g] =
        IF g = f THEN p ELSE IF index.rows[g] = p THEN NoPath ELSE index.rows[g]
  BY <1>1 DEF Put
<1>4. ASSUME Clean
      PROVE  /\ Fetched(disk, journal, mon)
             /\ disk[f] = p \/ Ahead(journal, f, End(mon))
             /\ \A g \in File \ {f} : disk[g] = p => Ahead(journal, g, End(mon))
  BY <1>0, <1>1, <1>4, ApplyFacts DEF Fetched
<1>5. ASSUME Clean PROVE Fetched(disk, journal, mon')
  BY <1>2, <1>4, <1>5 DEF Fetched, End
<1>6. disk[f] = p => Right(disk, index'.rows, f)
  <2>1. CASE p \in Excluded
    BY <2>1 DEF Right
  <2>2. CASE p \notin Excluded
    BY <1>1, <1>3, <2>2 DEF Right, Sole
  <2>3. QED
    BY <2>1, <2>2
<1>7. ASSUME NEW g \in File \ {f}, Right(disk, index.rows, g), disk[g] # p
      PROVE  Right(disk, index'.rows, g)
  <2>1. CASE p \in Excluded
    BY <1>1, <1>7, <2>1
  <2>2. CASE p \notin Excluded
    BY <1>3, <1>7, <2>2 DEF Right, Sole
  <2>3. QED
    BY <2>1, <2>2
<1>8. ASSUME Clean, NEW g \in File, Right(disk, index.rows, g)
      PROVE  Right(disk, index'.rows, g) \/ Ahead(journal, g, End(mon))
  BY <1>4, <1>6, <1>7, <1>8
<1>9. ASSUME Clean, NEW g \in File, g \in mon.dels \/ g \in mon.upds \/ mon.todo[g] # NoPath
      PROVE  Done(disk, journal, index'.rows, mon', g)
  <2>1. CASE g = f
    BY <1>2, <1>4, <1>6, <1>9, <2>1 DEF Done, End
  <2>2. CASE g # f
    BY <1>2, <1>9, <2>2 DEF Done
  <2>3. QED
    BY <2>1, <2>2
<1>10. QED
  BY <1>1, <1>2, <1>5, <1>8, <1>9, ApplyRest

LEMMA SaveRest ==
  ASSUME SyncGood, MonSave
  PROVE  Rest'
<1>1. /\ UNCHANGED <<disk, journal, scan, gui, index, risk>> /\ Inv /\ NeverAhead /\ Rest
      /\ mon.pc = "apply" /\ mon.dels = {} /\ mon.upds = {} /\ mon.todo = NoRows
      /\ db' = [db EXCEPT !.usn = End(mon)] /\ EndPoll
  BY DEF MonSave, Resolved, MonitorKeeps, PollPosition, End, SyncGood
<1>2. /\ db'.usn = End(mon) /\ db'.cache = db.cache /\ db'.cacheUsn = db.cacheUsn
      /\ mon'.pc = "sleep" /\ mon'.todo = NoRows
  BY <1>1, EndPollIs DEF Inv, TypeOK, Database
<1>3. End(mon) # NoUsn
  BY <1>1, RealPositions, ConstantsOK DEF Usn
<1>4. \A s \in Scanner : Alone(s)' /\ (risk'.taint[s] \/ ~risk.taint[s])
  BY <1>1, ApplyAlone
<1>5. ListFits'
  <2>1. Clean' => Clean
    BY <1>1 DEF Clean, Torn
  <2>2. ASSUME Clean PROVE Fits(disk, journal, index.rows, End(mon))
    <3>1. \A f \in File : Done(disk, journal, index.rows, mon, f)
      BY <1>1, <2>2, ApplyFacts
    <3>2. QED
      BY <1>1, <1>3, <3>1 DEF Fits, Done, NoRows
  <2>3. QED
    BY <1>1, <1>2, <2>1, <2>2 DEF ListFits, PollFits
<1>6. QED
  BY <1>1, <1>2, <1>3, <1>4, <1>5, PollStepRest

LEMMA MonitorRest ==
  ASSUME SyncGood, MonitorStep \/ MonitorFault PROVE Rest'
BY LoadPollRest, QueryRest, ReadPollRest, RecreatedRest, PollEndsRest, PollHazardRest, DeleteRest,
   ResolveRest, UpdateRest, SaveRest DEF MonitorStep, MonitorFault

-----------------------------------------------------------------------------
(* The window. *)

LEMMA AloneStays ==
  ASSUME NEW s \in Scanner, Alone(s), UNCHANGED <<scan, mon>>,
         risk'.taint[s] \/ ~risk.taint[s], db'.usn = db.usn
  PROVE  Alone(s)'
BY DEF Alone, Open

\* Handlers that start and stop monitors, or nothing at all.
LEMMA HandlerRest ==
  ASSUME SyncGood, HandleDone \/ JoinDone \/ UserAsks \/ CloseScanWaited \/ CloseDbError
  PROVE  Rest'
<1>1. /\ UNCHANGED <<disk, journal, scan, db, index, risk>> /\ Rest /\ Inv /\ gui.app # "off"
      /\ mon' = mon \/ mon' = NewMonitor \/ (\E b : mon' = [mon EXCEPT !.stop = b])
  BY DEF HandleDone, JoinDone, UserAsks, CloseScanWaited, CloseDbError, HasSignal, Listening,
         WindowKeeps, SyncGood
<1>2. gui'.app # "off"
  BY DEF HandleDone, JoinDone, UserAsks, CloseScanWaited, CloseDbError, HasSignal, Listening,
         SyncGood, Inv, TypeOK, Window
<1>3. mon' = NewMonitor => mon'.pc = "sleep" /\ mon'.todo = NoRows
  BY DEF NewMonitor, OffMonitor
<1>4. QED
  BY <1>1, <1>2, <1>3, QuietPoll

\* A scan that is started has read nothing yet.
LEMMA StartIsGood ==
  ASSUME NEW s \in Scanner, scan'[s].pc = "start", scan'[s].rows = NoRows,
         scan'[s].mode = "cache" => risk'.savedAt # NoUsn
  PROVE  ScanGood(s)'
BY DEF ScanGood, Phases, Founded, CopyFits, Alone, Open

LEMMA StartRest ==
  ASSUME SyncGood, NEW s \in Scanner, HandleNeedsFullScan(s) \/ UserConfirms(s)
  PROVE  Rest'
<1>1. /\ UNCHANGED <<disk, journal, db, index, mon, risk>> /\ Inv /\ Rest /\ gui.app # "off"
      /\ scan[s].pc = "idle" /\ scan' = [scan EXCEPT ![s] = [IdleScan EXCEPT !.pc = "start"]]
  BY DEF HandleNeedsFullScan, UserConfirms, HasSignal, Listening, StartScan, Running,
         WindowKeeps, SyncGood
<1>2. gui'.app # "off"
  BY DEF HandleNeedsFullScan, UserConfirms, HasSignal, Listening, SyncGood, Inv, TypeOK, Window
<1>3. /\ \A y \in Scanner \ {s} : scan'[y] = scan[y]
      /\ scan'[s].pc = "start" /\ scan'[s].rows = NoRows /\ scan'[s].mode = "mft"
  BY <1>1 DEF Inv, TypeOK, IdleScan
<1>4. ScanGood(s)'
  BY <1>3, StartIsGood
<1>5. ASSUME NEW y \in Scanner \ {s} PROVE ScanGood(y)'
  <2>1. ScanGood(y)
    BY <1>1 DEF Rest
  <2>2. \A x \in Scanner \ {y} : Open(x)' => Open(x)
    BY <1>3 DEF Open
  <2>3. Alone(y)'
    BY <1>1, <1>3, <1>5, <2>1, <2>2, StillAlone
  <2>4. QED
    BY <1>1, <1>3, <1>5, <2>1, <2>3, OtherScan
<1>6. DiskGood' /\ Resting' /\ Based' /\ SavedFits'
  BY <1>1, <1>2, SameVolume DEF Rest, Resting, Based, SavedFits, Reached, NextUsn
<1>7. ListFits'
  <2>1. Clean' => Clean
    BY <1>1, <1>3 DEF Clean, Torn
  <2>2. QED
    BY <1>1, <2>1 DEF Rest, ListFits
<1>8. QED
  BY <1>4, <1>5, <1>6, <1>7 DEF Rest

\* closeEvent marks the scans to be stopped.
LEMMA CloseRest ==
  ASSUME SyncGood, UserClose
  PROVE  Rest'
<1>1. /\ UNCHANGED <<disk, journal, db, index, mon, risk>> /\ Inv /\ Rest /\ gui.app # "off"
  BY DEF UserClose, Listening, WindowKeeps, SyncGood
<1>2. gui'.app = "closing"
  BY DEF UserClose, SyncGood, Inv, TypeOK, Window
<1>3. ASSUME NEW s \in Scanner
      PROVE  /\ scan'[s].pc = scan[s].pc /\ scan'[s].mode = scan[s].mode
             /\ scan'[s].base = scan[s].base /\ scan'[s].rows = scan[s].rows
             /\ scan'[s].size = scan[s].size /\ scan'[s].unread = scan[s].unread
  <2>1. scan'[s] = scan[s] \/ scan'[s] = [scan[s] EXCEPT !.stop = TRUE]
    BY DEF UserClose
  <2>2. scan[s] \in ScanState
    BY <1>1 DEF Inv, TypeOK
  <2>3. QED
    BY <2>1, <2>2 DEF ScanState
<1>4. ASSUME NEW s \in Scanner PROVE ScanGood(s)'
  <2>1. Phases(scan[s]) /\ Founded(s) /\ CopyFits(s) /\ Alone(s)
    BY <1>1 DEF Rest, ScanGood
  <2>2. Phases(scan[s])' /\ Founded(s)'
    BY <1>1, <1>3, <2>1 DEF Phases, Founded
  <2>3. CopyFits(s)'
    BY <1>1, <1>3, <2>1 DEF CopyFits, ReadFits
  <2>4. Alone(s)'
    BY <1>1, <1>3, <2>1 DEF Alone, Open, Undisturbed
  <2>5. QED
    BY <2>2, <2>3, <2>4 DEF ScanGood
<1>5. DiskGood' /\ Resting' /\ Based' /\ SavedFits'
  BY <1>1, <1>2, SameVolume DEF Rest, Resting, Based, SavedFits, Reached, NextUsn
<1>6. ListFits'
  <2>1. Clean' => Clean
    BY <1>1, <1>3 DEF Clean, Torn
  <2>2. QED
    BY <1>1, <2>1 DEF Rest, ListFits
<1>7. QED
  BY <1>4, <1>5, <1>6 DEF Rest

LEMMA CloseSaveRest ==
  ASSUME SyncGood, CloseSave
  PROVE  Rest'
<1>1. UNCHANGED <<disk, journal, index, scan, mon>> /\ Inv /\ NeverAhead /\ Rest
      /\ gui.app = "closing2"
  BY DEF CloseSave, WindowKeeps, SyncGood
<1>2. gui'.app = "ending"
  BY DEF CloseSave, SyncGood, Inv, TypeOK, Window
<1>3. risk'.mem = risk.mem /\ risk'.taint = risk.taint
      /\ db'.usn = db.usn /\ db'.cacheUsn = db.cacheUsn
  BY <1>1 DEF CloseSave, Stored, Inv, TypeOK, Risk, Database
<1>4. \/ db' = db /\ risk' = risk
      \/ /\ index.size # "empty"
         /\ db'.cache.rows = index.rows /\ risk'.savedAt = db.usn
         /\ ~risk'.db => ~risk.mem /\ ~Torn(Scanner)
  <2>1. CASE index.size = "empty"
    BY <2>1 DEF CloseSave
  <2>2. CASE index.size # "empty"
    <3>1. /\ db' = [db EXCEPT !.cache = [rows |-> index.rows, size |-> index.size]]
          /\ risk' = [risk EXCEPT !.db = risk.mem \/ Torn(Scanner), !.savedAt = db.usn]
          /\ db \in Database /\ risk \in Risk
      BY <1>1, <2>2 DEF CloseSave, Stored, Inv, TypeOK
    <3>2. db'.cache.rows = index.rows
      BY <3>1 DEF Database
    <3>3. risk'.savedAt = db.usn
      BY <3>1 DEF Risk
    <3>4. ~risk'.db => ~risk.mem /\ ~Torn(Scanner)
      BY <3>1 DEF Risk
    <3>5. QED
      BY <2>2, <3>2, <3>3, <3>4
  <2>3. QED
    BY <2>1, <2>2
<1>5. Reached(db.usn)
  BY <1>1 DEF NeverAhead, Positions
<1>6. DiskGood' /\ Resting' /\ Based'
  BY <1>1, <1>2, <1>3, <1>4, <1>5, SameVolume DEF Rest, Resting, Based, Reached, NextUsn
<1>7. SavedFits'
  BY <1>1, <1>3, <1>4 DEF Rest, SavedFits, ListFits, Clean
<1>8. ASSUME NEW s \in Scanner PROVE ScanGood(s)'
  <2>1. risk.savedAt # NoUsn => risk'.savedAt # NoUsn
    BY <1>1, <1>4 DEF Rest, Based
  <2>2. Alone(s)'
    BY <1>1, <1>3, AloneStays DEF Rest, ScanGood
  <2>3. QED
    BY <1>1, <1>3, <2>1, <2>2, ScansStay
<1>9. ListFits'
  <2>1. Clean' => Clean
    BY <1>1, <1>3 DEF Clean, Torn
  <2>2. QED
    BY <1>1, <1>3, <2>1 DEF Rest, ListFits
<1>10. QED
  BY <1>6, <1>7, <1>8, <1>9 DEF Rest

\* The program starts with the saved list, or with none.
LEMMA AppStartRest ==
  ASSUME SyncGood, NEW s \in Scanner, AppStart(s)
  PROVE  Rest'
<1>1. /\ UNCHANGED <<disk, journal, db, mon>> /\ Inv /\ Rest /\ gui.app = "off"
      /\ gui' = [NoWindow EXCEPT !.app = "on"] \/ gui' = [NoWindow EXCEPT !.app = "on", !.handle = s]
      /\ risk' = [risk EXCEPT !.mem = db.cache.size # "few" \/ LoadedRisk]
      /\ \/ /\ db.cache.size = "many" /\ index' = index
            /\ scan' = [scan EXCEPT ![s] = [IdleScan EXCEPT !.pc = "start", !.mode = "cache"]]
         \/ /\ db.cache.size # "many" /\ index' = db.cache
            /\ scan' = [scan EXCEPT ![s] = [IdleScan EXCEPT !.pc = "start"]]
  BY DEF AppStart, StartScan, WindowKeeps, SyncGood
<1>2. gui'.app = "on"
  BY <1>1 DEF NoWindow
<1>3. /\ risk'.db = risk.db /\ risk'.savedAt = risk.savedAt
      /\ ~risk'.mem => db.cache.size = "few" /\ ~LoadedRisk
  <2>1. risk \in Risk
    BY <1>1 DEF Inv, TypeOK
  <2>2. risk'.db = risk.db /\ risk'.savedAt = risk.savedAt
    BY <1>1, <2>1 DEF Risk
  <2>3. ~risk'.mem => db.cache.size = "few" /\ ~LoadedRisk
    BY <1>1, <2>1 DEF Risk
  <2>4. QED
    BY <2>2, <2>3
<1>4. mon.pc = "off" /\ mon.todo = NoRows /\ \A y \in Scanner : scan[y].pc = "idle"
  BY <1>1 DEF Rest, Resting
<1>5. /\ scan'[s].pc = "start" /\ scan'[s].rows = NoRows
      /\ scan'[s].mode = "cache" => db.cache.size = "many"
      /\ \A y \in Scanner \ {s} : scan'[y] = scan[y]
  <2>1. PICK new : /\ scan' = [scan EXCEPT ![s] = new]
                   /\ \/ new = [IdleScan EXCEPT !.pc = "start", !.mode = "cache"]
                         /\ db.cache.size = "many"
                      \/ new = [IdleScan EXCEPT !.pc = "start"]
    BY <1>1
  <2>2. /\ new.pc = "start" /\ new.rows = NoRows
        /\ new.mode = "cache" => db.cache.size = "many"
    BY <2>1 DEF IdleScan
  <2>3. DOMAIN scan = Scanner
    BY <1>1 DEF Inv, TypeOK
  <2>4. QED
    BY <2>1, <2>2, <2>3
<1>6. ScanGood(s)'
  <2>1. scan'[s].mode = "cache" => risk'.savedAt # NoUsn
    BY <1>1, <1>3, <1>5 DEF Rest, Based
  <2>2. QED
    BY <1>5, <2>1, StartIsGood
<1>7. ASSUME NEW y \in Scanner \ {s} PROVE ScanGood(y)'
  BY <1>4, <1>5 DEF ScanGood, Phases, Founded, CopyFits, Alone, Open
<1>8. DiskGood' /\ Resting' /\ Based' /\ SavedFits'
  <2>1. DiskGood' /\ Resting'
    BY <1>1, <1>2, <1>4, SameVolume DEF Rest, Resting
  <2>2. SavedFits'
    BY <1>1, <1>3 DEF Rest, SavedFits
  <2>3. index'.size \in {index.size, db.cache.size}
    BY <1>1
  <2>4. Based'
    BY <1>1, <1>3, <1>4, <2>3 DEF Rest, Based, Reached, NextUsn
  <2>5. QED
    BY <2>1, <2>2, <2>4
<1>9. ASSUME Clean' PROVE Fits(disk, journal, index'.rows, db.usn)
  <2>1. db.cache.size = "few" /\ ~risk.db /\ risk.savedAt = db.usn
    BY <1>3, <1>9 DEF Clean, LoadedRisk
  <2>2. index' = db.cache /\ risk.savedAt # NoUsn
    BY <1>1, <2>1 DEF Rest, Based
  <2>3. QED
    BY <1>1, <2>1, <2>2 DEF Rest, SavedFits
<1>10. ListFits'
  BY <1>1, <1>4, <1>9 DEF ListFits, PollFits
<1>11. QED
  BY <1>6, <1>7, <1>8, <1>10 DEF Rest

LEMMA StoppedRest ==
  ASSUME SyncGood, Stopped
  PROVE  Rest'
<1>1. /\ UNCHANGED <<disk, journal, db>> /\ Inv /\ Rest
      /\ gui' = NoWindow /\ scan' = [s \in Scanner |-> IdleScan] /\ mon' = OffMonitor
      /\ index' = EmptyIndex
      /\ risk' = [risk EXCEPT !.mem = FALSE, !.taint = [s \in Scanner |-> FALSE]]
  BY DEF Stopped, WindowKeeps, SyncGood
<1>2. gui'.app = "off" /\ mon'.pc = "off" /\ mon'.todo = NoRows /\ index'.size = "empty"
  BY <1>1 DEF NoWindow, OffMonitor, EmptyIndex
<1>3. risk'.db = risk.db /\ risk'.savedAt = risk.savedAt
  BY <1>1 DEF Inv, TypeOK, Risk
<1>4. ASSUME NEW s \in Scanner PROVE scan'[s].pc = "idle" /\ ScanGood(s)'
  <2>1. scan'[s] = IdleScan
    BY <1>1
  <2>2. ScanGood(s)'
    BY <2>1, IdleIsGood
  <2>3. QED
    BY <2>1, <2>2 DEF IdleScan
<1>5. DiskGood' /\ Resting' /\ Based' /\ SavedFits'
  BY <1>1, <1>2, <1>3, <1>4, SameVolume
  DEF Rest, Resting, Based, SavedFits, Reached, NextUsn
<1>6. ListFits'
  BY <1>2 DEF ListFits, Clean
<1>7. QED
  BY <1>4, <1>5, <1>6 DEF Rest

LEMMA WindowRest ==
  ASSUME SyncGood, WindowStep \/ User \/ CloseDbError \/ Crash PROVE Rest'
BY HandlerRest, StartRest, CloseRest, CloseSaveRest, AppStartRest, StoppedRest
DEF WindowStep, User, ProcessExit, Crash

-----------------------------------------------------------------------------
(* The theorems. *)

LEMMA InitRest == Init => Rest
<1> SUFFICES ASSUME Init PROVE Rest
  OBVIOUS
<1>1. DiskGood
  BY DEF Init, DiskGood, Recorded
<1>2. Resting /\ Based /\ SavedFits
  BY DEF Init, Resting, Based, SavedFits, Reached, NoWindow, OffMonitor, IdleScan, EmptyIndex
<1>3. \A s \in Scanner : ScanGood(s)
  BY DEF Init, IdleScan, ScanGood, Phases, Founded, CopyFits, Alone, Open
<1>4. ListFits
  BY DEF Init, ListFits, Clean, NoWindow
<1>5. QED
  BY <1>1, <1>2, <1>3, <1>4 DEF Rest

LEMMA StepRest == SyncGood /\ Inv' /\ [Next]_vars => Rest'
<1> SUFFICES ASSUME SyncGood, Inv', [Next]_vars PROVE Rest'
  OBVIOUS
<1>1. ASSUME UNCHANGED vars PROVE Rest'
  <2>1. /\ UNCHANGED <<disk, journal, scan, db, index, risk, gui, mon>> /\ Rest
    BY <1>1 DEF vars, SyncGood
  <2>2. DiskGood' /\ Resting' /\ Based' /\ SavedFits' /\ ListFits'
    BY <2>1, SameVolume DEF Rest, Resting, Based, SavedFits, Reached, NextUsn, ListFits, Clean, Torn
  <2>3. ASSUME NEW s \in Scanner PROVE ScanGood(s)'
    BY <2>1, AloneStays, ScansStay DEF Rest, ScanGood
  <2>4. QED
    BY <2>2, <2>3 DEF Rest
<1>2. QED
  BY <1>1, VolumeRest, ScannerRest, MonitorRest, WindowRest DEF Next

LEMMA AlwaysGood == Spec => []SyncGood
<1>1. Init => SyncGood
  BY InitType, InitReached, InitRest DEF SyncGood
<1>2. SyncGood /\ [Next]_vars => SyncGood'
  BY StepType, PositionsKept, StepRest DEF SyncGood
<1>3. QED
  BY <1>1, <1>2, PTL DEF Spec

LEMMA AheadIsPending ==
  ASSUME NEW f \in File, db.usn # NoUsn, Ahead(journal, f, db.usn) PROVE Pending(f)
BY DEF Ahead, Gone, Later, Pending, Expired, HasRecord, NextUsn

\* At rest and with no hazard since the last scan, the list fits usn_state.
LEMMA RestingListFits ==
  ASSUME SyncGood, AtRest, ~risk.mem, NEW f \in File
  PROVE  Right(disk, index.rows, f) \/ Pending(f)
<1>1. Clean
  BY DEF AtRest, Running, Clean, Torn
<1>2. Fits(disk, journal, index.rows, db.usn)
  BY <1>1 DEF SyncGood, Rest, ListFits
<1>3. QED
  BY <1>2, AheadIsPending DEF Fits

\* No interleaving of the full scan, the fast start, the polls, the window's
\* handlers and the volume makes the list miss a change for good, nor does any
\* crash, close, restart, trimmed or re-created journal: whenever the threads
\* rest, a file is listed where it is, or a record of its change is still ahead
\* of usn_state, unless one of the named hazards has happened.
THEOREM NoChangeLost == Spec => []OnlyKnownLosses
<1>1. SyncGood => OnlyKnownLosses
  BY RestingListFits DEF OnlyKnownLosses, NothingLost, Right, InStep
<1>2. QED
  BY AlwaysGood, <1>1, PTL

\* The database never holds a saved list that a restart could not bring up to
\* date from usn_state, at whatever step of whatever thread the process is
\* killed, unless a named hazard touched the copy or polls have moved usn_state
\* past the position it was made at (LoadedRisk).
THEOREM SavedCopyHolds == Spec => []SavedCopyCovered
<1>1. ASSUME SyncGood, ~LoadedRisk, db.cache.size # "empty", NEW f \in File
      PROVE  InStep(db.cache.rows, f) \/ Pending(f)
  <2>1. ~risk.db /\ risk.savedAt = db.usn /\ db.usn # NoUsn
    BY <1>1 DEF LoadedRisk, SyncGood, Rest, Based
  <2>2. Fits(disk, journal, db.cache.rows, db.usn)
    BY <1>1, <2>1 DEF SyncGood, Rest, SavedFits
  <2>3. QED
    BY <2>1, <2>2, AheadIsPending DEF Fits, Right, InStep
<1>2. SyncGood => SavedCopyCovered
  BY <1>1 DEF SavedCopyCovered
<1>3. QED
  BY AlwaysGood, <1>2, PTL

\* No two files stay listed under one path for good, whatever paths changed
\* hands while a scan read the records of the volume one after the other, unless
\* both are in excluded folders, or a named hazard has happened.
THEOREM OnePathOneFile == Spec => []ShownOnce
<1>1. ASSUME SyncGood, AtRest, ~risk.mem, NEW f \in File, NEW g \in File, f # g,
             index.rows[f] = index.rows[g], index.rows[f] # NoPath
      PROVE  Pending(f) \/ Pending(g) \/ {disk[f], disk[g]} \subseteq Excluded
  <2>1. ~Right(disk, index.rows, f) \/ disk[f] \in Excluded
    BY <1>1 DEF Right, Sole
  <2>2. ~Right(disk, index.rows, g) \/ disk[g] \in Excluded
    BY <1>1 DEF Right, Sole
  <2>3. QED
    BY <1>1, <2>1, <2>2, RestingListFits
<1>2. SyncGood => ShownOnce
  BY <1>1 DEF ShownOnce
<1>3. QED
  BY AlwaysGood, <1>2, PTL

=============================================================================
