---------------------------- MODULE MftCacheProps ----------------------------
(***************************************************************************)
(* What is claimed of module MftCache, and of which feeds.                 *)
(***************************************************************************)
EXTENDS MftCache

\* Feeds in which no record number occurs twice: one NTFS volume, read once.
DistinctRefs ==
  \A s \in Feeds : \A i, j \in Shown(s) : s[i].ref = s[j].ref => i = j

\* Feeds in which, besides, no two entries have one lower-case path.
DistinctFeeds ==
  /\ DistinctRefs
  /\ \A s \in Feeds : \A i, j \in Shown(s) :
       Lower[s[i].path] = Lower[s[j].path] => i = j

\* Row r is listed under lower-case path k.
Under(list, r, k) == list[r] # NoPath /\ Lower[list[r]] = k

\* by_path never names a file that is listed elsewhere or not at all: every
\* hit of the reverse index that add_or_update acts on (mft_cache.py 78-81)
\* is a row with that very path.
PathIndexSound ==
  \A k \in Key, r \in Ref : by_path[k] = r => Under(by_ref, r, k)

\* by_path misses no row: a path that is listed is found through it, so the
\* eviction of a stale owner of a path cannot fail to happen.
PathIndexComplete ==
  \A k \in Key, r \in Ref : Under(by_ref, r, k) => by_path[k] = r

\* No two rows of a list have one lower-case path.
Distinct(list) ==
  \A k \in Key, r, x \in Ref : Under(list, r, k) /\ Under(list, x, k) => r = x

\* So it is in the saved table and in every copy that a save or a load in
\* progress holds.
SavedDistinct ==
  /\ Distinct(file_cache)
  /\ \A t \in Thread : /\ snapshot[t] # NoCopy => Distinct(snapshot[t])
                       /\ rows[t] # NoCopy => Distinct(rows[t])

\* The two dictionaries are inverse to each other, in memory and (what
\* load_from_db rebuilds them from) in the saved table, also when saves and
\* loads of several threads cross.
PathIndexExact == PathIndexSound /\ PathIndexComplete /\ SavedDistinct

\* The promise this implementation is meant to keep.
Promise == INSTANCE FileIndex WITH
  listed <- by_ref, saved <- file_cache, toSave <- snapshot, toShow <- rows

\* MftCache implements FileIndex: in particular add_or_update, which evicts
\* through by_path alone, leaves no other file listed under the new path, and
\* whatever other threads do meanwhile, a save writes the list of one moment
\* and a load shows one saved list, whole.
KeepsPromise == Promise!Spec
=============================================================================
