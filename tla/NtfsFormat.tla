----------------------------- MODULE NtfsFormat ------------------------------
(***************************************************************************)
(* How core/mft_scanner.py decodes what NTFS has on disk: the data runs of *)
(* the master file table, the fixups of a record, and its attributes.      *)
(*                                                                         *)
(* A record of the table is                                                *)
(*   file     it starts with 'FILE'                                        *)
(*   checks   fixup_count - 1: sectors with an entry in the fixup array    *)
(*   sectors  for each sector, does it end with the record's signature     *)
(*   used     flag 1; base: the record it extends, or 0                    *)
(*   attrs    its attributes, up to the end of the record                  *)
(* and an attribute is                                                     *)
(*   type     "std", "name", "data", "other", or "end" for the end marker  *)
(*   form     "good"; "cut": its content passes the end of the record;     *)
(*            "broken": its length is wrong; "torn": its header itself     *)
(*            passes the end                                               *)
(*   inside   it is resident; plain: it has no name of its own             *)
(*   ns, name, parent of a file name                                       *)
(*                                                                         *)
(* Not covered: size and modification time of a file.                      *)
(***************************************************************************)
EXTENDS Integers, SequencesExt

CONSTANTS NoEntry,      \* nothing is listed for the record
          Undecodable,  \* a name that is not UTF-16
          Sparse        \* the place of a run that has none

-----------------------------------------------------------------------------
(* _parse_data_runs *)

\* int.from_bytes of n bytes of b from position at: the last byte counts most,
\* and above stands before it, -1 for a negative number.
LittleEndian(b, at, n, above) ==
  LET value[i \in 0..n] == IF i = 0 THEN above ELSE b[at + n - i] + 256 * value[i-1]
  IN  value[n]

Unsigned(b, at, n) == LittleEndian(b, at, n, 0)

\* Faulty (mutant): a run never starts before the one it follows.
MutantSigned(b, at, n) == Unsigned(b, at, n)

Signed(b, at, n) == LittleEndian(b, at, n, IF b[at + n - 1] \geq 128 THEN -1 ELSE 0)

\* The item at pos: bytes of its length, bytes of its distance, where the next is.
Size(b, pos) == b[pos] % 16
Dist(b, pos) == b[pos] \div 16
NextItem(b, pos) == pos + 1 + Size(b, pos) + Dist(b, pos)
ListEnds(b, pos) == pos > Len(b) \/ Size(b, pos) = 0 \/ NextItem(b, pos) > Len(b) + 1

\* One round of the loop: pos, prev_lcn and the runs so far.  Sparse ones are
\* passed over.
ReadItem(b, s) ==
  LET lcn == s.lcn + Signed(b, s.pos + 1 + Size(b, s.pos), Dist(b, s.pos))
      len == Unsigned(b, s.pos + 1, Size(b, s.pos))
  IN  IF ListEnds(b, s.pos) THEN s
      ELSE IF Dist(b, s.pos) = 0 THEN [s EXCEPT !.pos = NextItem(b, s.pos)]
      ELSE [pos |-> NextItem(b, s.pos), lcn |-> lcn,
            runs |-> Append(s.runs, [lcn |-> lcn, len |-> len])]

\* Where the runs are on the volume.  There are fewer items than bytes.
DataRuns(b) ==
  LET loop[i \in 0..Len(b)] ==
        IF i = 0 THEN [pos |-> 1, lcn |-> 0, runs |-> <<>>] ELSE ReadItem(b, loop[i-1])
  IN  loop[Len(b)].runs

-----------------------------------------------------------------------------
(* _apply_fixup, _parse_mft_record *)

\* Each sector must end with the signature, if the fixup array has an entry for it.
FixupOk(rec) ==
  rec.checks \geq 1 /\ \A i \in DOMAIN rec.sectors : i \leq rec.checks => rec.sectors[i]

\* The attributes the loop comes to.
Walked(rec) ==
  LET stops == {i \in DOMAIN rec.attrs : rec.attrs[i].type = "end" \/ rec.attrs[i].form = "broken"}
  IN  {i \in DOMAIN rec.attrs : \A s \in stops : i < s}

\* struct.unpack_from raises at such an attribute.
Raises(rec) ==
  \E i \in Walked(rec) : LET a == rec.attrs[i] IN
    /\ a.form = "torn" /\ a.inside
    /\ a.type \in {"std", "name"} \/ (a.type = "data" /\ a.plain)

\* _NS_PRIORITY
Priority(ns) ==
  CASE ns = "win32" -> 4 [] ns = "both" -> 3 [] ns = "posix" -> 2 [] ns = "dos" -> 1 [] OTHER -> 0

Names(rec) ==
  {i \in Walked(rec) : LET a == rec.attrs[i] IN a.type = "name" /\ a.inside /\ a.form = "good"}

\* Faulty (mutant): the last name is taken.
MutantBest(rec) == CHOOSE i \in Names(rec) : \A j \in Names(rec) : j \leq i

\* The first name of the highest priority.
Best(rec) ==
  CHOOSE i \in Names(rec) : \A j \in Names(rec) :
    LET pi == Priority(rec.attrs[i].ns)
        pj == Priority(rec.attrs[j].ns)
    IN  pi > pj \/ (pi = pj /\ i \leq j)

\* A base record in use, with a name.
Named(rec) ==
  rec.used /\ rec.base = 0 /\ Names(rec) # {} /\ rec.attrs[Best(rec)].name # Undecodable

EntryOf(rec) ==
  [name |-> rec.attrs[Best(rec)].name, parent |-> rec.attrs[Best(rec)].parent]

\* Is a record taken as far as its attributes?
Readable(rec) == rec.file /\ FixupOk(rec) /\ rec.used /\ rec.base = 0

ParseRecord(rec) == IF Readable(rec) /\ Named(rec) THEN EntryOf(rec) ELSE NoEntry
=============================================================================
