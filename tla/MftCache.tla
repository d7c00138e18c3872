------------------------------- MODULE MftCache ------------------------------
(***************************************************************************)
(* core/mft_cache.py: the in-memory list of all files that file-name       *)
(* search runs on.  Two dictionaries hold it, by_ref (reference to row)    *)
(* and by_path (lower-case path to reference), and table file_cache keeps  *)
(* a copy across restarts.  populate, add_or_update and the removals       *)
(* change the dictionaries in one critical section each: one action.       *)
(*                                                                         *)
(* save_to_db and load_from_db are not atomic.  A save copies the entries  *)
(* under the lock and writes the copy after releasing it; a load reads the *)
(* table before it swaps the dictionaries.  Each is two actions of a       *)
(* thread, between which the list, the table and other saves and loads     *)
(* move on.                                                                *)
(*                                                                         *)
(* Of a row only its path is kept: name, extension and name_lower are      *)
(* computed from it, and size, modification time and is_dir steer nothing. *)
(* A dictionary is a total function with NoPath / NoRef for missing keys.  *)
(***************************************************************************)
EXTENDS Naturals, Sequences, FiniteSetsExt

CONSTANTS
  Ref,      \* 48-bit MFT record numbers (no drive letter in them)
  Path,     \* spellings of full paths
  Key,      \* lower-case paths
  Lower,    \* path.lower(), in [Path -> Key]
  Hidden,   \* paths whose name starts with '$'
  Feeds,    \* the lists of MftFileEntry populate may be called with
  Thread,   \* callers of save_to_db and load_from_db: window, scans, fast start
  NoPath,   \* no row; in a feed, the empty full_path of an excluded entry
  NoRef,    \* no by_path entry
  NoCopy    \* the thread is not inside that call

Entry == [ref : Ref, path : Path \cup {NoPath}]
Rows == [Ref -> Path \cup {NoPath}]

ASSUME ConstantsOK ==
  /\ Lower \in [Path -> Key]
  /\ NoPath \notin Path
  /\ NoRef \notin Ref
  /\ Hidden \subseteq Path
  /\ Feeds \subseteq Seq(Entry)
  /\ NoCopy \notin Rows

VARIABLES
  by_ref,      \* _by_ref
  by_path,     \* _by_path
  file_cache,  \* table file_cache (committed)
  snapshot,    \* per thread: save_to_db's local copy of the entries
  rows         \* per thread: what load_from_db has read from the table

dicts == <<by_ref, by_path>>
calls == <<snapshot, rows>>
vars == <<by_ref, by_path, file_cache, snapshot, rows>>

NoRows == [r \in Ref |-> NoPath]

TypeOK ==
  /\ by_ref \in Rows
  /\ by_path \in [Key -> Ref \cup {NoRef}]
  /\ file_cache \in Rows
  /\ snapshot \in [Thread -> Rows \cup {NoCopy}]
  /\ rows \in [Thread -> Rows \cup {NoCopy}]

-----------------------------------------------------------------------------
Init ==
  /\ by_ref = NoRows
  /\ by_path = [k \in Key |-> NoRef]
  /\ file_cache = NoRows
  /\ snapshot = [t \in Thread |-> NoCopy]
  /\ rows = [t \in Thread |-> NoCopy]

\* Positions of the entries populate does not skip.
Shown(s) == {i \in DOMAIN s : s[i].path \notin Hidden \cup {NoPath}}
AtRef(s, r) == {i \in Shown(s) : s[i].ref = r}
AtKey(s, k) == {i \in Shown(s) : Lower[s[i].path] = k}

\* populate: new dictionaries, a later entry overwriting an earlier one with
\* the same key, then both swapped in under the lock.
Populate(s) ==
  /\ by_ref' = [r \in Ref |->
       IF AtRef(s, r) = {} THEN NoPath ELSE s[Max(AtRef(s, r))].path]
  /\ by_path' = [k \in Key |->
       IF AtKey(s, k) = {} THEN NoRef ELSE s[Max(AtKey(s, k))].ref]
  /\ UNCHANGED <<file_cache, calls>>

\* The by_path that add_or_update sees after dropping r's previous path.
WithoutOldPath(r, p) ==
  IF by_ref[r] # NoPath /\ Lower[by_ref[r]] # Lower[p]
    THEN [by_path EXCEPT ![Lower[by_ref[r]]] = NoRef]
    ELSE by_path

\* add_or_update; for a name that starts with '$' it returns at once.
AddOrUpdate(r, p) ==
  LET old_ref == WithoutOldPath(r, p)[Lower[p]]
      evicted == {old_ref} \ {NoRef, r}
  IN /\ p \notin Hidden
     /\ by_ref' = [x \in Ref |-> IF x = r THEN p
                                 ELSE IF x \in evicted THEN NoPath
                                 ELSE by_ref[x]]
     /\ by_path' = [WithoutOldPath(r, p) EXCEPT ![Lower[p]] = r]
     /\ UNCHANGED <<file_cache, calls>>

\* Rows of R leave by_ref, and the by_path entries of their paths go too,
\* whichever file these name.
Forget(R) ==
  LET keys == {Lower[by_ref[r]] : r \in {x \in R : by_ref[x] # NoPath}}
  IN /\ by_ref' = [x \in Ref |-> IF x \in R THEN NoPath ELSE by_ref[x]]
     /\ by_path' = [k \in Key |-> IF k \in keys THEN NoRef ELSE by_path[k]]
     /\ UNCHANGED <<file_cache, calls>>

\* (Mutants are single mistakes that the properties must notice.)
MutantRemoveByRef(r) ==
  /\ by_ref' = [by_ref EXCEPT ![r] = NoPath]
  /\ UNCHANGED <<by_path, file_cache, calls>>

RemoveByRef(r) == Forget({r})

\* remove_excluded(exclude_fn), with excluded the paths exclude_fn rejects.
RemoveExcluded(excluded) == Forget({r \in Ref : by_ref[r] \in excluded})

Idle(t) == snapshot[t] = NoCopy /\ rows[t] = NoCopy

MutantSaveCopy(t) ==
  /\ Idle(t)
  /\ snapshot' = [snapshot EXCEPT ![t] = by_path]
  /\ UNCHANGED <<dicts, file_cache, rows>>

\* save_to_db, first half: the entries are copied under the lock.
SaveCopy(t) ==
  /\ Idle(t)
  /\ snapshot' = [snapshot EXCEPT ![t] = by_ref]
  /\ UNCHANGED <<dicts, file_cache, rows>>

MutantSaveWrite(t) ==
  /\ snapshot[t] # NoCopy
  /\ file_cache' = by_ref
  /\ snapshot' = [snapshot EXCEPT ![t] = NoCopy]
  /\ UNCHANGED <<dicts, rows>>

\* save_to_db, second half: file_cache is emptied and refilled with the copy
\* in one transaction, whatever the list and the table are by now.
SaveWrite(t) ==
  /\ snapshot[t] # NoCopy
  /\ file_cache' = snapshot[t]
  /\ snapshot' = [snapshot EXCEPT ![t] = NoCopy]
  /\ UNCHANGED <<dicts, rows>>

\* by_path as load_from_db builds it: the table's rows come in no stated
\* order, so of rows with one lower-case path any may be the last.
IndexOf(table) ==
  {bp \in [Key -> Ref \cup {NoRef}] : \A k \in Key :
     LET at == {r \in Ref : table[r] # NoPath /\ Lower[table[r]] = k}
     IN IF at = {} THEN bp[k] = NoRef ELSE bp[k] \in at}

\* load_from_db, first half: the table is read; when it is empty the call
\* returns False and has changed nothing.
LoadRead(t) ==
  /\ Idle(t)
  /\ file_cache # NoRows
  /\ rows' = [rows EXCEPT ![t] = file_cache]
  /\ UNCHANGED <<dicts, file_cache, snapshot>>

\* load_from_db, second half: both dictionaries, built from the rows read,
\* are swapped in; what happened to the list since the read is overwritten.
LoadSwap(t) ==
  /\ rows[t] # NoCopy
  /\ by_ref' = rows[t]
  /\ by_path' \in IndexOf(rows[t])
  /\ rows' = [rows EXCEPT ![t] = NoCopy]
  /\ UNCHANGED <<file_cache, snapshot>>

\* The write raises (database locked): the transaction is not committed.
SaveFails(t) ==
  /\ snapshot[t] # NoCopy
  /\ snapshot' = [snapshot EXCEPT ![t] = NoCopy]
  /\ UNCHANGED <<dicts, file_cache, rows>>

\* The process ends and starts again: module globals are empty, and calls
\* that had not written or swapped yet never do.
Restart ==
  /\ by_ref' = NoRows
  /\ by_path' = [k \in Key |-> NoRef]
  /\ snapshot' = [t \in Thread |-> NoCopy]
  /\ rows' = [t \in Thread |-> NoCopy]
  /\ UNCHANGED file_cache

Next ==
  \/ \E s \in Feeds : Populate(s)
  \/ \E r \in Ref, p \in Path : AddOrUpdate(r, p)
  \/ \E r \in Ref : RemoveByRef(r)
  \/ \E excluded \in SUBSET Path : RemoveExcluded(excluded)
  \/ \E t \in Thread :
       SaveCopy(t) \/ SaveWrite(t) \/ SaveFails(t) \/ LoadRead(t) \/ LoadSwap(t)
  \/ Restart

Spec == Init /\ [][Next]_vars
=============================================================================
