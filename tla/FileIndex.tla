------------------------------ MODULE FileIndex ------------------------------
(***************************************************************************)
(* What the file list promises its callers, without saying how: a map from *)
(* file reference to the path last reported for it, in which no two files  *)
(* have the same path (paths compare without case), and a copy of that map *)
(* that survives a restart.  What is saved is the list of one moment       *)
(* within the call, whole, and what is loaded is a list saved once, whole. *)
(* core/mft_cache.py implements it with two dictionaries; module MftCache  *)
(* is that implementation.                                                 *)
(***************************************************************************)
CONSTANTS
  Ref,      \* file references
  Path,     \* spellings of paths that can be listed or reported
  Lower,    \* Lower[p] is p in lower case: what two paths are compared by
  Hidden,   \* paths whose file name starts with '$': never listed
  Feeds,    \* the entry sequences a full scan may deliver
  Thread,   \* the callers that save and load
  NoPath,   \* the path of a file that is not listed
  NoCopy    \* the caller holds no list

VARIABLES
  listed,   \* listed[r] is the path shown for r, or NoPath
  saved,    \* the persisted copy of listed
  toSave,   \* toSave[t]: the list caller t is about to persist, or NoCopy
  toShow    \* toShow[t]: the saved list caller t is about to show, or NoCopy

idxVars == <<listed, saved, toSave, toShow>>

NothingListed == [r \in Ref |-> NoPath]

\* The entries of a feed that a scan must list.
Listable(s) == {s[i] : i \in {j \in DOMAIN s : s[j].path \notin Hidden \cup {NoPath}}}

-----------------------------------------------------------------------------
Init ==
  /\ listed = NothingListed
  /\ saved = NothingListed
  /\ toSave = [t \in Thread |-> NoCopy]
  /\ toShow = [t \in Thread |-> NoCopy]

\* A full scan replaces the list by exactly what it enumerated.
Replace(s) ==
  /\ listed' \in [Ref -> Path \cup {NoPath}]
  /\ \A r \in Ref, p \in Path :
        listed'[r] = p <=> [ref |-> r, path |-> p] \in Listable(s)
  /\ UNCHANGED <<saved, toSave, toShow>>

\* r is now at p: whatever else was listed under that path is gone.
Put(r, p) ==
  /\ listed' = [x \in Ref |->
       IF x = r THEN p
       ELSE IF listed[x] # NoPath /\ Lower[listed[x]] = Lower[p] THEN NoPath
       ELSE listed[x]]
  /\ UNCHANGED <<saved, toSave, toShow>>

\* The files in R are no longer listed.
Drop(R) ==
  /\ listed' = [x \in Ref |-> IF x \in R THEN NoPath ELSE listed[x]]
  /\ UNCHANGED <<saved, toSave, toShow>>

\* A caller takes the list as it is now, to persist exactly that.
TakeList(t) ==
  /\ toSave' = [toSave EXCEPT ![t] = listed]
  /\ UNCHANGED <<listed, saved, toShow>>

\* It persists what it took, or gives up; another caller's list is replaced.
Save(t) ==
  /\ toSave[t] # NoCopy
  /\ saved' = toSave[t]
  /\ toSave' = [toSave EXCEPT ![t] = NoCopy]
  /\ UNCHANGED <<listed, toShow>>

GiveUpSave(t) ==
  /\ toSave' = [toSave EXCEPT ![t] = NoCopy]
  /\ UNCHANGED <<listed, saved, toShow>>

\* A caller takes what is saved now, and later shows exactly that.
TakeSaved(t) ==
  /\ saved # NothingListed
  /\ toShow' = [toShow EXCEPT ![t] = saved]
  /\ UNCHANGED <<listed, saved, toSave>>

Load(t) ==
  /\ toShow[t] # NoCopy
  /\ listed' = toShow[t]
  /\ toShow' = [toShow EXCEPT ![t] = NoCopy]
  /\ UNCHANGED <<saved, toSave>>

\* What is saved stays; what callers held is gone.
Restart ==
  /\ listed' = NothingListed
  /\ toSave' = [t \in Thread |-> NoCopy]
  /\ toShow' = [t \in Thread |-> NoCopy]
  /\ UNCHANGED saved

Next ==
  \/ \E s \in Feeds : Replace(s)
  \/ \E r \in Ref, p \in Path \ Hidden : Put(r, p)
  \/ \E R \in SUBSET Ref : Drop(R)
  \/ \E t \in Thread :
       TakeList(t) \/ Save(t) \/ GiveUpSave(t) \/ TakeSaved(t) \/ Load(t)
  \/ Restart

Spec == Init /\ [][Next]_idxVars
=============================================================================
