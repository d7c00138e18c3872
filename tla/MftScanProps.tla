---------------------------- MODULE MftScanProps -----------------------------
(***************************************************************************)
(* What is claimed of module MftScan.                                      *)
(***************************************************************************)
EXTENDS MftScan

Number == DOMAIN vol.records

ScanTypeOK ==
  /\ phase \in {"head", "run", "read", "usn", "resolve", "done"}
  /\ reader.at \in 1..Len(reader.runs) + 1 /\ reader.pos \in Int
  /\ reader.total \in 0..vol.valid /\ reader.left \in 0..vol.valid - reader.total
  /\ reader.num \in 0..vol.valid \div vol.rec /\ reader.next \in Nat
  /\ DOMAIN entries \subseteq 0..vol.valid \div vol.rec
  /\ \A n \in DOMAIN entries : entries[n] \in Number
  /\ DOMAIN paths \subseteq DOMAIN entries /\ \A n \in DOMAIN paths : paths[n] # <<>>
  /\ DOMAIN cache \subseteq Nat
  /\ faults \in 0..MaxFaults /\ slipped \in BOOLEAN

-----------------------------------------------------------------------------
\* What NTFS stores of a layout.  What is left of a number after its i lowest bytes:
Rests(n) ==
  LET rest[i \in 0..8] == IF i = 0 THEN n ELSE rest[i-1] \div 256 IN rest

\* A number needs so many bytes that the highest bit of the last is its sign.
Ends(n, k) == Rests(n)[k-1] \in -128..127
Width(n) == CHOOSE k \in 1..8 : Ends(n, k) /\ \A j \in 1..k-1 : ~Ends(n, j)
Bytes(n) == [i \in 1..Width(n) |-> Rests(n)[i-1] % 256]

\* Lengths, and distances from the piece before; a piece without a place has none.
Length(layout, i) == Bytes(layout[i].len)
Distance(layout, i) ==
  LET before == {j \in 1..i-1 : layout[j].lcn # Sparse}
      last   == CHOOSE j \in before : \A k \in before : k \leq j
  IN  IF layout[i].lcn = Sparse THEN <<>>
      ELSE Bytes(layout[i].lcn - IF before = {} THEN 0 ELSE layout[last].lcn)
Item(layout, i) ==
  <<16 * Len(Distance(layout, i)) + Len(Length(layout, i))>>
    \o Length(layout, i) \o Distance(layout, i)
Items(layout) ==
  LET items[i \in 0..Len(layout)] ==
        IF i = 0 THEN <<>> ELSE items[i-1] \o Item(layout, i)
  IN  items
Encoded(layout) == Items(layout)[Len(layout)] \o <<0>>

\* The list of a table without holes is stored so, up to where it is cut off.
ASSUME RunLists == \A v \in Volumes :
  v.bytes # Unreadable /\ (\A i \in DOMAIN v.layout : v.layout[i].lcn # Sparse)
    => /\ \E k \in 0..Len(Encoded(v.layout)) : v.bytes = SubSeq(Encoded(v.layout), 1, k)
       /\ \A i \in DOMAIN v.layout : LET from == IF i = 1 THEN 0 ELSE v.layout[i-1].lcn IN
            /\ \E k \in 1..8 : Ends(v.layout[i].len, k)
            /\ \E k \in 1..8 : Ends(v.layout[i].lcn - from, k)

Dense == \A i \in DOMAIN vol.layout : vol.layout[i].lcn # Sparse
Whole == Dense /\ vol.bytes \in {Unreadable, Encoded(vol.layout)}

\* Children point to their parent by its record number, and the monitor finds
\* rows by it: an entry must be listed under the number of its own record, also
\* after runs that could not be gone to, through cut reads and on the way over
\* the journal interface.  What makes numbers slip is named: a read that fails
\* or ends inside a record, and runs that are no whole number of records.
NumbersRight ==
  Dense /\ ~slipped
    => \A n \in DOMAIN entries : entries[n] = n /\ n < vol.valid \div vol.rec

-----------------------------------------------------------------------------
\* The name a user sees: the first long name, or else the first that is long and
\* short, the first that is neither, and only then a short DOS name.
Spaces == <<"win32", "both", "posix", "dos">>
LongName(rec) ==
  LET Of(k) == {i \in Names(rec) : rec.attrs[i].ns = Spaces[k]}
      kinds == {k \in DOMAIN Spaces : Of(k) # {}}
      kind  == CHOOSE k \in kinds : \A j \in kinds : k \leq j
  IN  IF kinds = {} THEN NoEntry
      ELSE rec.attrs[CHOOSE i \in Of(kind) : \A j \in Of(kind) : i \leq j]

Shown(rec) ==
  rec.used /\ rec.base = 0 /\ LongName(rec) # NoEntry /\ LongName(rec).name # Undecodable
Intact(rec) == rec.file /\ \A i \in DOMAIN rec.sectors : rec.sectors[i]

Valid == {n \in Number : n < vol.valid \div vol.rec}
TableRaises == \E n \in Valid : Readable(vol.records[n]) /\ Raises(vol.records[n])
ByJournal == vol.bytes = Unreadable \/ TableRaises

\* Without a failing call the list is complete: every record in use with a long
\* name, in whatever pieces and order the table lies on the volume, none that is
\* damaged or beyond the valid length, and no mixture of the two ways to read.
Complete ==
  phase \in {"resolve", "done"} /\ Whole /\ faults = 0 /\ ~slipped
    => DOMAIN entries =
         {n \in Valid : Shown(vol.records[n]) /\ (ByJournal \/ Intact(vol.records[n]))}

-----------------------------------------------------------------------------
\* The way from n to the root, where it stays; an entry that is not listed counts
\* as the root.
Listed(n) == LongName(vol.records[entries[n]])
AtRoot(n) == n \notin DOMAIN entries \/ Listed(n).parent = n
Way(n) ==
  LET up[k \in 0..MaxDepth] ==
        IF k = 0 THEN n ELSE IF AtRoot(up[k-1]) THEN up[k-1] ELSE Listed(up[k-1]).parent
  IN  up
Folders(n) == {x \in {Way(n)[k] : k \in 0..MaxDepth} : ~AtRoot(x)}

\* Too many parents, or a circle of them.
TooDeep(n) == ~AtRoot(Way(n)[MaxDepth])
Depth(n) == CHOOSE k \in 0..MaxDepth : AtRoot(Way(n)[k]) /\ \A j \in 0..k - 1 : ~AtRoot(Way(n)[j])
TruePath(n) == [i \in 1..Depth(n) |-> Listed(Way(n)[Depth(n) - i]).name]

\* None of the folders n lies in has an entry that is too deep, at any place.
Shallow(n) ==
  ~TooDeep(n) /\ \A m \in DOMAIN entries : Folders(m) \cap Folders(n) # {} => ~TooDeep(m)

\* In whatever order parents and children come, an entry's path has the names of
\* its parents, and it has none if it or one of them is excluded.  Not so where a
\* chain is too deep, or closed: what is cached on the way down from its middle is
\* wrong for the folders there, and for all that lies in them.
PathsRight ==
  phase = "done"
    => \A n \in DOMAIN entries : Shallow(n) =>
         LET true == TruePath(n)
             seen == true # <<>> /\ \A k \in DOMAIN true : ~ShouldExclude(SubSeq(true, 1, k))
         IN  IF seen THEN n \in DOMAIN paths /\ paths[n] = true ELSE n \notin DOMAIN paths

\* Every step brings the scan nearer to its end, whatever the volume holds:
\* parents that form a circle, run lists that are cut off, calls that fail.
Stage == CASE phase = "head" -> 0 [] phase \in {"run", "read"} -> 1 [] phase = "usn" -> 2
           [] phase = "resolve" -> 3 [] phase = "done" -> 4
Nearer ==
  \/ Stage' > Stage
  \/ Stage' = Stage /\ reader'.at > reader.at
  \/ Stage' = Stage /\ reader'.at = reader.at /\ reader'.next > reader.next
  \/ phase = "run" /\ phase' = "read" /\ reader'.at = reader.at
  \/ phase = "read" /\ phase' = "read" /\ reader'.at = reader.at /\ reader'.left < reader.left
ScanProgresses == [][Nearer]_vars
=============================================================================
