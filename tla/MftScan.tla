------------------------------- MODULE MftScan -------------------------------
(***************************************************************************)
(* enumerate_mft of core/mft_scanner.py: the master file table is read run *)
(* by run and parsed; if that fails, the files are asked for through the   *)
(* journal interface; then each entry gets its path by following parents.  *)
(*                                                                         *)
(* The volume does not change meanwhile (UsnSync has that).  It is         *)
(*   bpc, rec  bytes of a cluster and of a record, in a small unit         *)
(*   layout    the runs of the table: cluster of the table, cluster of the *)
(*             volume (or Sparse), length                                  *)
(*   bytes     the run list as it is stored in record 0, or Unreadable     *)
(*   valid     MftValidDataLength                                          *)
(*   records   the records of the table, from number 0; those beyond       *)
(*             valid are left over from earlier                            *)
(* Record 0 stands for the root directory, whose parent is itself.         *)
(*                                                                         *)
(* Not covered: a volume or journal that cannot be opened (UsnSync);       *)
(* numbers of more than 32 bits.                                           *)
(***************************************************************************)
EXTENDS NtfsFormat, Exclusion

CONSTANTS Volumes,      \* the volumes considered
          Unreadable,   \* record 0 cannot be parsed
          ChunkBytes,   \* READ_CHUNK, a multiple of every record size
          BatchSize,    \* bound: records the journal interface returns at once
          MaxDepth,     \* 256: parents followed
          MaxFaults     \* bound: failing system calls

ASSUME ScanBounds ==
  /\ ChunkBytes \in Nat \ {0} /\ BatchSize \in Nat \ {0} /\ MaxDepth \in Nat /\ MaxFaults \in Nat

\* The runs of a table follow one another, share no cluster of the volume, and
\* hold all that is valid.
ASSUME VolumeShapes == \A v \in Volumes :
  /\ v.bpc \in Nat \ {0} /\ v.rec \in Nat \ {0} /\ v.valid \in Nat
  /\ v.bytes # Unreadable => v.bytes \in Seq(0..255)
  /\ v.layout \in Seq([vcn : Nat, lcn : Nat \cup {Sparse}, len : Nat])
  /\ \A i \in DOMAIN v.layout :
       v.layout[i].vcn = IF i = 1 THEN 0 ELSE v.layout[i-1].vcn + v.layout[i-1].len
  /\ \A i, j \in DOMAIN v.layout :
       \/ i = j \/ Sparse \in {v.layout[i].lcn, v.layout[j].lcn}
       \/ v.layout[i].lcn + v.layout[i].len \leq v.layout[j].lcn
       \/ v.layout[j].lcn + v.layout[j].len \leq v.layout[i].lcn
  /\ v.valid \leq v.bpc * IF v.layout = <<>> THEN 0
                          ELSE LET last == v.layout[Len(v.layout)] IN last.vcn + last.len
  /\ DOMAIN v.records \subseteq Nat
  /\ \A n \in DOMAIN v.records :
       LET attrs == v.records[n].attrs
       IN  DOMAIN attrs = 1..Len(attrs) /\ \A i \in DOMAIN attrs : attrs[i].parent \in Nat

\* A record has a fixup for each of its sectors, and NTFS has four name spaces.
ASSUME RecordShapes == \A v \in Volumes : \A n \in DOMAIN v.records :
  LET rec == v.records[n]
  IN  /\ rec.sectors \in Seq(BOOLEAN) \ {<<>>} /\ rec.checks = Len(rec.sectors)
      /\ \A i \in DOMAIN rec.attrs :
           rec.attrs[i].type = "name" => rec.attrs[i].ns \in {"win32", "both", "posix", "dos"}

\* NoEntry is neither an attribute, an entry nor a path.
NamesOnDisk ==
  UNION {UNION {{rec.attrs[i].name : i \in DOMAIN rec.attrs} :
                   rec \in {v.records[n] : n \in DOMAIN v.records}} : v \in Volumes}
ASSUME NoEntryApart ==
  /\ NoEntry \notin Seq(NamesOnDisk)
  /\ \A v \in Volumes : \A n \in DOMAIN v.records : \A i \in DOMAIN v.records[n].attrs :
       LET attr == v.records[n].attrs[i]
       IN  NoEntry \notin {attr, [name |-> attr.name, parent |-> attr.parent]}

VARIABLES vol,       \* the volume
          phase,     \* "head", "run", "read", "usn", "resolve", "done"
          reader,    \* the reading of the runs
          entries,   \* entries[n]: the record listed under number n
          cache,     \* path_cache
          paths,     \* full_path, of entries that have one
          faults,
          slipped    \* numbers may be wrong from here on (history, not in the code)

vars == <<vol, phase, reader, entries, cache, paths, faults, slipped>>

Nothing == [n \in {} |-> 0]
Smaller(a, b) == IF a < b THEN a ELSE b
Fault == faults < MaxFaults /\ faults' = faults + 1
NoFault == UNCHANGED faults

\* at: the run under way.  pos: the file pointer.  left: run_left.  num, total:
\* rec_num, total_read.  next: the next record asked for, or path looked for.
NoReader == [runs |-> <<>>, at |-> 1, pos |-> 0, left |-> 0, num |-> 0, total |-> 0, next |-> 0]

Init ==
  /\ vol \in Volumes
  /\ phase = "head" /\ reader = NoReader
  /\ entries = Nothing /\ cache = Nothing /\ paths = Nothing
  /\ faults = 0 /\ slipped = FALSE

-----------------------------------------------------------------------------
(* What is on the volume *)

\* Places in the table, in its order, are kept at these places of the volume.
PlaceInTable(x) ==
  {vol.layout[i].vcn * vol.bpc + (x - vol.layout[i].lcn * vol.bpc) :
     i \in {j \in DOMAIN vol.layout : /\ vol.layout[j].lcn # Sparse
                                     /\ x \geq vol.layout[j].lcn * vol.bpc
                                     /\ x < (vol.layout[j].lcn + vol.layout[j].len) * vol.bpc}}

\* The record that is read at x: nothing but a whole one starts with 'FILE'
\* and has its fixups right.
RecordAt(x) ==
  {n \in DOMAIN vol.records :
     \A k \in 0..vol.rec - 1 : n * vol.rec + k \in PlaceInTable(x + k)}

\* The records in n bytes from x, by their order there; FALSE: none.
ReadRecords(x, n) ==
  [i \in 0..(n \div vol.rec) - 1 |-> RecordAt(x + i * vol.rec)]

-----------------------------------------------------------------------------
(* _get_mft_data_runs, _enumerate_mft_records *)

Fallback ==
  /\ phase' = "usn" /\ entries' = Nothing /\ reader' = NoReader
  /\ UNCHANGED <<vol, cache, paths>>

ReadHead ==
  LET runs == IF vol.bytes = Unreadable THEN <<>> ELSE DataRuns(vol.bytes) IN
  /\ phase = "head" /\ NoFault
  /\ IF runs = <<>> THEN Fallback /\ slipped' = FALSE
     ELSE /\ phase' = "run" /\ reader' = [NoReader EXCEPT !.runs = runs]
          /\ UNCHANGED <<vol, entries, cache, paths, slipped>>

HeadFails == phase = "head" /\ Fault /\ Fallback /\ UNCHANGED slipped

Run == reader.runs[reader.at]
RunsLeft == reader.at \leq Len(reader.runs) /\ reader.total < vol.valid

\* Faulty (mutant): the run is read to its end.
MutantRunBytes == Run.len * vol.bpc

RunBytes == Smaller(Run.len * vol.bpc, vol.valid - reader.total)

Seek ==
  /\ phase = "run" /\ RunsLeft
  /\ phase' = "read"
  /\ reader' = [reader EXCEPT !.left = RunBytes, !.pos = Run.lcn * vol.bpc]
  /\ UNCHANGED <<vol, entries, cache, paths, faults, slipped>>

\* Faulty (mutant): the numbers of the records passed over are given again.
MutantPassedOver(n) == 0

PassedOver(n) == n \div vol.rec

\* A run that cannot be gone to is passed over, with its numbers.
SeekFails ==
  /\ phase = "run" /\ RunsLeft /\ Fault
  /\ reader' = [reader EXCEPT !.at = @ + 1, !.total = @ + RunBytes,
                              !.num = @ + PassedOver(RunBytes)]
  /\ slipped' = (slipped \/ RunBytes % vol.rec # 0)
  /\ UNCHANGED <<vol, phase, entries, cache, paths>>

RunsDone ==
  /\ phase = "run" /\ ~RunsLeft
  /\ phase' = "resolve" /\ reader' = NoReader
  /\ UNCHANGED <<vol, entries, cache, paths, faults, slipped>>

\* n bytes have arrived.
Parsed(n) ==
  LET read  == ReadRecords(reader.pos, n)
      Kept(i) == {r \in read[i] : ParseRecord(vol.records[r]) # NoEntry}
      found == {i \in DOMAIN read : Kept(i) # {}}
      new   == [x \in {reader.num + i : i \in found} |-> CHOOSE r \in Kept(x - reader.num) : TRUE]
      bad   == \E i \in DOMAIN read : \E r \in read[i] :
                  Readable(vol.records[r]) /\ Raises(vol.records[r])
  IN  IF bad THEN Fallback /\ slipped' = FALSE
      ELSE /\ entries' = [x \in DOMAIN entries \cup DOMAIN new |->
                            IF x \in DOMAIN new THEN new[x] ELSE entries[x]]
           /\ LET left == reader.left - n IN
              /\ phase' = IF left > 0 THEN "read" ELSE "run"
              /\ reader' = [reader EXCEPT !.pos = @ + n, !.left = left, !.total = @ + n,
                              !.num = @ + n \div vol.rec, !.at = IF left > 0 THEN @ ELSE @ + 1]
              /\ slipped' = (slipped \/ n % vol.rec # 0)
           /\ UNCHANGED <<vol, cache, paths>>

Wanted == Smaller(reader.left, ChunkBytes)

Read == phase = "read" /\ NoFault /\ Parsed(Wanted)

\* Fewer bytes than asked for.
ReadShort == phase = "read" /\ Fault /\ \E n \in 1..Wanted - 1 : Parsed(n)

\* None, or an error: the rest of the run is given up, its numbers are not
\* passed over, and its bytes are missing from total_read.
ReadFails ==
  /\ phase = "read" /\ Fault
  /\ phase' = "run" /\ reader' = [reader EXCEPT !.at = @ + 1, !.left = 0]
  /\ slipped' = TRUE
  /\ UNCHANGED <<vol, entries, cache, paths>>

-----------------------------------------------------------------------------
(* _enumerate_mft_usn: the interface knows which records are in use and gives  *)
(* each with its number and its long name                                     *)

Offered == {n \in DOMAIN vol.records : n < vol.valid \div vol.rec /\ vol.records[n].used
                                        /\ vol.records[n].base = 0 /\ n \geq reader.next}
Batch == {n \in Offered : Cardinality({k \in Offered : k < n}) < BatchSize}

\* Faulty (mutant): the last record is asked for again.
MutantNextRef == CHOOSE n \in Batch : \A k \in Batch : k \leq n

NextRef == 1 + CHOOSE n \in Batch : \A k \in Batch : k \leq n

UsnBatch ==
  LET listed == {n \in Batch : Named(vol.records[n])} IN
  /\ phase = "usn" /\ Offered # {}
  /\ entries' = [n \in DOMAIN entries \cup listed |-> n]
  /\ reader' = [reader EXCEPT !.next = NextRef]
  /\ UNCHANGED <<vol, phase, cache, paths, faults, slipped>>

\* The end of the files, or any error.
UsnEnds ==
  /\ phase = "usn"
  /\ (Offered = {} /\ NoFault) \/ Fault
  /\ phase' = "resolve" /\ reader' = NoReader
  /\ UNCHANGED <<vol, entries, cache, paths, slipped>>

-----------------------------------------------------------------------------
(* _resolve_paths *)

Field(n) == EntryOf(vol.records[entries[n]])
IsRoot(n) == n \notin DOMAIN entries \/ Field(n).parent = n

\* n and its parents: those _get_path may be called for.
Ancestor(n) ==
  LET up[k \in 0..MaxDepth + 1] ==
        IF k = 0 THEN n ELSE IF IsRoot(up[k-1]) THEN up[k-1] ELSE Field(up[k-1]).parent
  IN  up

\* The path of n below its parent's; NoEntry where one of them is excluded.
Below(parent, n) ==
  IF parent = NoEntry THEN NoEntry
  ELSE LET full == Append(parent, Field(n).name) IN
       IF ShouldExclude(full) THEN NoEntry ELSE full

\* The first parent that is cached, is a root or lies too deep.
Stops(up, k) == k > MaxDepth \/ up[k] \in DOMAIN cache \/ IsRoot(up[k])
Top(up) == CHOOSE k \in 0..MaxDepth + 1 : Stops(up, k) /\ \A j \in 0..k - 1 : ~Stops(up, j)

\* The paths from there down.
Descent(up, top) ==
  LET down[k \in 0..top] ==
        IF k < top THEN Below(down[k+1], up[k])
        ELSE IF k \leq MaxDepth /\ up[k] \in DOMAIN cache THEN cache[up[k]] ELSE <<>>
  IN  down

\* _get_path(n): up and down again.  The root's path is cached, that of a parent
\* too deep is not.  An entry met twice, below itself, keeps what is found last.
GetPath(n) ==
  LET up   == Ancestor(n)
      top  == Top(up)
      down == Descent(up, top)
      Met(x)   == {k \in 0..top : up[k] = x /\ k \leq MaxDepth}
      Given(x) == {k \in Met(x) \ {top} : down[k] # NoEntry}
      Lowest(S) == CHOOSE k \in S : \A j \in S : k \leq j
      met   == {up[k] : k \in {j \in 0..top : j \leq MaxDepth}}
      given == {x \in met : Given(x) # {}}
  IN  /\ cache' = [x \in DOMAIN cache \cup met |->
                     IF x \in met THEN down[Lowest(Met(x))] ELSE cache[x]]
      /\ paths' = [x \in DOMAIN paths \cup given |->
                     IF x \in given THEN down[Lowest(Given(x))] ELSE paths[x]]

Unresolved == {n \in DOMAIN entries : n \geq reader.next}

Resolve ==
  /\ phase = "resolve" /\ Unresolved # {}
  /\ LET n == CHOOSE n \in Unresolved : \A k \in Unresolved : n \leq k IN
     GetPath(n) /\ reader' = [reader EXCEPT !.next = n + 1]
  /\ UNCHANGED <<vol, phase, entries, faults, slipped>>

Done ==
  /\ phase = "resolve" /\ Unresolved = {}
  /\ phase' = "done"
  /\ UNCHANGED <<vol, reader, entries, cache, paths, faults, slipped>>

Ended == phase = "done" /\ UNCHANGED vars

-----------------------------------------------------------------------------
Next ==
  \/ ReadHead \/ HeadFails \/ Seek \/ SeekFails \/ RunsDone
  \/ Read \/ ReadShort \/ ReadFails
  \/ UsnBatch \/ UsnEnds \/ Resolve \/ Done \/ Ended

Spec == Init /\ [][Next]_vars
=============================================================================
