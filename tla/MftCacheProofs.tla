--------------------------- MODULE MftCacheProofs ----------------------------
(***************************************************************************)
(* Theorems about module MftCache, for any sets of references and paths    *)
(* and any feeds that come from one volume and have distinct paths.        *)
(*                                                                         *)
(* PathIndexExact is inductive together with TypeOK: each operation finds  *)
(* the row to evict, or the reverse entry to drop, through the other       *)
(* dictionary, so neither half of it (Sound, Complete) is inductive alone. *)
(***************************************************************************)
EXTENDS MftCacheProps, TLAPS, WellFoundedInduction

Inv == TypeOK /\ PathIndexExact

USE ConstantsOK

-----------------------------------------------------------------------------
\* Of positions in a list, one is the last: without it Max names nothing, and
\* populate would leave an unknown value.
LEMMA MaxOf ==
  ASSUME NEW n \in Nat, NEW S, S \subseteq 1..n, S # {}
  PROVE  Max(S) \in S
<1> DEFINE below == {n - i : i \in S}
<1>1. below \subseteq Nat /\ below # {}
  <2>1. \A i \in S : n - i \in Nat
    OBVIOUS
  <2>2. PICK i \in S : TRUE
    OBVIOUS
  <2>3. n - i \in below
    BY <2>2
  <2> QED BY <2>1, <2>3, Zenon
<1>2. PICK x \in below : \A y \in below : ~(<<y, x>> \in OpToRel(<, Nat))
  <2> HIDE DEF below
  <2> QED BY <1>1, NatLessThanWellFounded, WFMin
<1>3. \A y \in below : ~(y < x)
  BY <1>1, <1>2 DEF OpToRel
<1>4. PICK m \in S : x = n - m
  OBVIOUS
<1>5. \A i \in S : m >= i
  <2>1. ASSUME NEW i \in S PROVE m >= i
    <3>1. n - i \in below
      OBVIOUS
    <3>2. ~(n - i < n - m)
      BY <1>3, <1>4, <3>1
    <3> QED BY <3>2
  <2> QED BY <2>1
<1> QED BY <1>5 DEF Max

\* Whatever list populate is given, each dictionary gets values of its type.
LEMMA PopulateType ==
  ASSUME NEW s \in Feeds, Populate(s), TypeOK
  PROVE  TypeOK'
<1>1. s \in Seq(Entry)
  OBVIOUS
<1>2. /\ Len(s) \in Nat /\ Shown(s) \subseteq 1..Len(s)
      /\ \A i \in Shown(s) : s[i].ref \in Ref /\ s[i].path \in Path
  <2>1. \A i \in DOMAIN s : s[i] \in Entry
    BY <1>1
  <2> QED BY <1>1, <2>1 DEF Shown, Entry
<1>3. ASSUME NEW r \in Ref PROVE by_ref'[r] \in Path \cup {NoPath}
  <2>1. CASE AtRef(s, r) = {}
    BY <2>1 DEF Populate
  <2>2. CASE AtRef(s, r) # {}
    <3>1. AtRef(s, r) \subseteq Shown(s)
      BY DEF AtRef
    <3>2. Max(AtRef(s, r)) \in AtRef(s, r)
      BY <1>2, <2>2, <3>1, MaxOf
    <3> QED BY <1>2, <2>2, <3>1, <3>2 DEF Populate
  <2> QED BY <2>1, <2>2
<1>4. ASSUME NEW k \in Key PROVE by_path'[k] \in Ref \cup {NoRef}
  <2>1. CASE AtKey(s, k) = {}
    BY <2>1 DEF Populate
  <2>2. CASE AtKey(s, k) # {}
    <3>1. AtKey(s, k) \subseteq Shown(s)
      BY DEF AtKey
    <3>2. Max(AtKey(s, k)) \in AtKey(s, k)
      BY <1>2, <2>2, <3>1, MaxOf
    <3> QED BY <1>2, <2>2, <3>1, <3>2 DEF Populate
  <2> QED BY <2>1, <2>2
<1> QED
  BY <1>3, <1>4 DEF Populate, TypeOK, Rows, calls

LEMMA NextType ==
  ASSUME TypeOK, [Next]_vars
  PROVE  TypeOK'
<1>1. ASSUME NEW s \in Feeds, Populate(s) PROVE TypeOK'
  BY <1>1, PopulateType
<1>2. ASSUME NEW r \in Ref, NEW p \in Path, AddOrUpdate(r, p) PROVE TypeOK'
  <2>1. Lower[p] \in Key
    OBVIOUS
  <2>2. WithoutOldPath(r, p) \in [Key -> Ref \cup {NoRef}]
    BY DEF WithoutOldPath, TypeOK
  <2> QED BY <1>2, <2>1, <2>2 DEF AddOrUpdate, TypeOK, Rows, calls
<1>3. ASSUME NEW R \in SUBSET Ref, Forget(R) PROVE TypeOK'
  BY <1>3 DEF Forget, TypeOK, Rows, calls
<1>4. ASSUME NEW r \in Ref, RemoveByRef(r) PROVE TypeOK'
  BY <1>3, <1>4 DEF RemoveByRef
<1>5. ASSUME NEW X \in SUBSET Path, RemoveExcluded(X) PROVE TypeOK'
  <2>1. {r \in Ref : by_ref[r] \in X} \in SUBSET Ref
    OBVIOUS
  <2> QED BY <1>3, <1>5, <2>1 DEF RemoveExcluded
<1>6. ASSUME NEW t \in Thread, SaveCopy(t) PROVE TypeOK'
  BY <1>6 DEF SaveCopy, TypeOK, dicts
<1>7. ASSUME NEW t \in Thread, SaveWrite(t) PROVE TypeOK'
  BY <1>7 DEF SaveWrite, TypeOK, dicts
<1>8. ASSUME NEW t \in Thread, SaveFails(t) PROVE TypeOK'
  BY <1>8 DEF SaveFails, TypeOK, dicts
<1>9. ASSUME NEW t \in Thread, LoadRead(t) PROVE TypeOK'
  BY <1>9 DEF LoadRead, TypeOK, dicts
<1>10. ASSUME NEW t \in Thread, LoadSwap(t) PROVE TypeOK'
  BY <1>10 DEF LoadSwap, IndexOf, TypeOK
<1>11. CASE Restart
  BY <1>11 DEF Restart, TypeOK, Rows, NoRows
<1>12. CASE UNCHANGED vars
  BY <1>12 DEF vars, TypeOK
<1> QED
  BY <1>1, <1>2, <1>4, <1>5, <1>6, <1>7, <1>8, <1>9, <1>10, <1>11, <1>12 DEF Next

\* Type correctness, for feeds of any kind: also when several volumes repeat
\* record numbers and paths (populate, mft_cache.py 42-62, then keeps the last).
THEOREM CacheTypeCorrect == Spec => []TypeOK
<1>1. Init => TypeOK
  BY DEF Init, TypeOK, Rows, NoRows
<1>2. TypeOK /\ [Next]_vars => TypeOK'
  BY NextType
<1> QED
  BY <1>1, <1>2, PTL DEF Spec

-----------------------------------------------------------------------------
LEMMA MaxOfOne ==
  ASSUME NEW i \in Nat
  PROVE  Max({i}) = i
BY DEF Max

\* In a feed with distinct entries, a shown entry is the one and only for its
\* reference and for its key: nothing is overwritten while populate runs.
LEMMA ShownIsUnique ==
  ASSUME DistinctFeeds, NEW s \in Feeds, NEW i \in Shown(s)
  PROVE  /\ AtRef(s, s[i].ref) = {i}
         /\ AtKey(s, Lower[s[i].path]) = {i}
         /\ Max({i}) = i
         /\ s[i].ref \in Ref /\ s[i].path \in Path
<1>1. s \in Seq(Entry)
  OBVIOUS
<1>2. i \in Nat /\ s[i] \in Entry /\ s[i].path # NoPath
  BY <1>1 DEF Shown
<1>3. AtRef(s, s[i].ref) = {i}
  BY DEF AtRef, DistinctFeeds, DistinctRefs
<1>4. AtKey(s, Lower[s[i].path]) = {i}
  BY DEF AtKey, DistinctFeeds
<1> QED
  BY <1>2, <1>3, <1>4, MaxOfOne DEF Entry

\* What populate leaves under a reference and under a key.
LEMMA PopulateResult ==
  ASSUME DistinctFeeds, NEW s \in Feeds, Populate(s), TypeOK
  PROVE  /\ by_ref' \in Rows
         /\ by_path' \in [Key -> Ref \cup {NoRef}]
         /\ \A r \in Ref, p \in Path :
              by_ref'[r] = p <=> \E i \in Shown(s) : s[i].ref = r /\ s[i].path = p
         /\ \A r \in Ref, k \in Key :
              by_path'[k] = r <=> \E i \in Shown(s) : s[i].ref = r /\ Lower[s[i].path] = k
<1>1. ASSUME NEW r \in Ref
      PROVE  \/ /\ by_ref'[r] = NoPath
                /\ \A i \in Shown(s) : s[i].ref # r
             \/ \E i \in Shown(s) : s[i].ref = r /\ by_ref'[r] = s[i].path
  <2>1. CASE AtRef(s, r) = {}
    BY <2>1 DEF AtRef, Populate
  <2>2. CASE AtRef(s, r) # {}
    <3>1. PICK i \in Shown(s) : s[i].ref = r
      BY <2>2 DEF AtRef
    <3>2. AtRef(s, r) = {i} /\ Max({i}) = i
      BY <3>1, ShownIsUnique
    <3> QED
      BY <3>1, <3>2 DEF Populate
  <2> QED BY <2>1, <2>2
<1>2. ASSUME NEW k \in Key
      PROVE  \/ /\ by_path'[k] = NoRef
                /\ \A i \in Shown(s) : Lower[s[i].path] # k
             \/ \E i \in Shown(s) : Lower[s[i].path] = k /\ by_path'[k] = s[i].ref
  <2>1. CASE AtKey(s, k) = {}
    BY <2>1 DEF AtKey, Populate
  <2>2. CASE AtKey(s, k) # {}
    <3>1. PICK i \in Shown(s) : Lower[s[i].path] = k
      BY <2>2 DEF AtKey
    <3>2. AtKey(s, k) = {i} /\ Max({i}) = i
      BY <3>1, ShownIsUnique
    <3> QED
      BY <3>1, <3>2 DEF Populate
  <2> QED BY <2>1, <2>2
<1>3. \A i \in Shown(s) : s[i].ref \in Ref /\ s[i].path \in Path
  BY ShownIsUnique
<1>4. by_ref' \in Rows
  <2>1. by_ref' = [r \in Ref |-> by_ref'[r]]
    BY DEF Populate
  <2> QED BY <1>1, <1>3, <2>1 DEF Rows
<1>5. by_path' \in [Key -> Ref \cup {NoRef}]
  <2>1. by_path' = [k \in Key |-> by_path'[k]]
    BY DEF Populate
  <2> QED BY <1>2, <1>3, <2>1
<1>6. \A r \in Ref, p \in Path :
        by_ref'[r] = p <=> \E i \in Shown(s) : s[i].ref = r /\ s[i].path = p
  <2> SUFFICES ASSUME NEW r \in Ref, NEW p \in Path
               PROVE  by_ref'[r] = p <=> \E i \in Shown(s) : s[i].ref = r /\ s[i].path = p
    OBVIOUS
  <2>1. \A i, j \in Shown(s) : s[i].ref = s[j].ref => i = j
    BY DEF DistinctFeeds, DistinctRefs
  <2> QED BY <1>1, <2>1
<1>7. \A r \in Ref, k \in Key :
        by_path'[k] = r <=> \E i \in Shown(s) : s[i].ref = r /\ Lower[s[i].path] = k
  <2> SUFFICES ASSUME NEW r \in Ref, NEW k \in Key
               PROVE  by_path'[k] = r <=> \E i \in Shown(s) : s[i].ref = r /\ Lower[s[i].path] = k
    OBVIOUS
  <2>1. \A i, j \in Shown(s) : Lower[s[i].path] = Lower[s[j].path] => i = j
    BY DEF DistinctFeeds
  <2> QED BY <1>2, <2>1
<1> QED BY <1>4, <1>5, <1>6, <1>7

-----------------------------------------------------------------------------
\* add_or_update keeps the two dictionaries inverse to each other.
LEMMA AddOrUpdateExact ==
  ASSUME NEW r \in Ref, NEW p \in Path, Inv, AddOrUpdate(r, p)
  PROVE  Inv'
<1> DEFINE kp == Lower[p]
           W == WithoutOldPath(r, p)
           owner == W[kp]
           gone == {owner} \ {NoRef, r}
<1>1. kp \in Key /\ p # NoPath
  OBVIOUS
<1>2. /\ by_ref \in [Ref -> Path \cup {NoPath}]
      /\ by_path \in [Key -> Ref \cup {NoRef}]
      /\ \A k \in Key, x \in Ref : by_path[k] = x <=> Under(by_ref, x, k)
  BY DEF Inv, TypeOK, Rows, PathIndexExact, PathIndexSound, PathIndexComplete
<1>3. W \in [Key -> Ref \cup {NoRef}]
  BY <1>2 DEF WithoutOldPath
<1>4. \A k \in Key, x \in Ref : W[k] = x <=> Under(by_ref, x, k) /\ (x = r => k = kp)
  BY <1>1, <1>2 DEF WithoutOldPath, Under
<1>5. /\ by_ref' = [x \in Ref |-> IF x = r THEN p
                                  ELSE IF x \in gone THEN NoPath
                                  ELSE by_ref[x]]
      /\ by_path' = [W EXCEPT ![kp] = r]
      /\ UNCHANGED <<file_cache, snapshot, rows>>
  BY DEF AddOrUpdate, calls
<1>6. TypeOK'
  BY <1>1, <1>2, <1>3, <1>5 DEF Inv, TypeOK, Rows
<1>7. \A x \in Ref : x # r => (x \in gone <=> Under(by_ref, x, kp))
  BY <1>1, <1>4
<1>8. \A k \in Key, x \in Ref : by_path'[k] = x <=> Under(by_ref', x, k)
  <2> SUFFICES ASSUME NEW k \in Key, NEW x \in Ref
               PROVE  by_path'[k] = x <=> Under(by_ref', x, k)
    OBVIOUS
  <2>1. CASE x = r
    BY <2>1, <1>1, <1>3, <1>4, <1>5 DEF Under
  <2>2. CASE x # r /\ k = kp
    BY <2>2, <1>1, <1>3, <1>5, <1>7 DEF Under
  <2>3. CASE x # r /\ k # kp
    <3>1. by_path'[k] = W[k]
      BY <2>3, <1>3, <1>5
    <3>2. Under(by_ref', x, k) <=> Under(by_ref, x, k)
      BY <2>3, <1>1, <1>5, <1>7 DEF Under
    <3> QED BY <3>1, <3>2, <2>3, <1>4
  <2> QED BY <2>1, <2>2, <2>3
<1> QED
  BY <1>5, <1>6, <1>8
  DEF Inv, PathIndexExact, PathIndexSound, PathIndexComplete, SavedDistinct, Distinct, Under

\* Forgetting a set of rows keeps them inverse too.
LEMMA ForgetExact ==
  ASSUME NEW R \in SUBSET Ref, Inv, Forget(R)
  PROVE  Inv'
<1> DEFINE keys == {Lower[by_ref[r]] : r \in {x \in R : by_ref[x] # NoPath}}
<1>1. /\ by_ref \in [Ref -> Path \cup {NoPath}]
      /\ by_path \in [Key -> Ref \cup {NoRef}]
      /\ \A k \in Key, x \in Ref : by_path[k] = x <=> Under(by_ref, x, k)
  BY DEF Inv, TypeOK, Rows, PathIndexExact, PathIndexSound, PathIndexComplete
<1>2. /\ by_ref' = [x \in Ref |-> IF x \in R THEN NoPath ELSE by_ref[x]]
      /\ by_path' = [k \in Key |-> IF k \in keys THEN NoRef ELSE by_path[k]]
      /\ UNCHANGED <<file_cache, snapshot, rows>>
  BY DEF Forget, calls
<1>3. TypeOK'
  BY <1>1, <1>2 DEF Inv, TypeOK, Rows
<1>4. \A k \in Key, x \in Ref : by_path'[k] = x <=> Under(by_ref', x, k)
  <2> SUFFICES ASSUME NEW k \in Key, NEW x \in Ref
               PROVE  by_path'[k] = x <=> Under(by_ref', x, k)
    OBVIOUS
  <2>1. k \in keys <=> \E r \in R : Under(by_ref, r, k)
    BY DEF Under
  <2>2. \A r \in Ref : Under(by_ref, r, k) /\ Under(by_ref, x, k) => r = x
    BY <1>1
  <2>3. Under(by_ref', x, k) <=> x \notin R /\ Under(by_ref, x, k)
    BY <1>2 DEF Under
  <2> QED BY <1>1, <1>2, <2>1, <2>2, <2>3
<1> QED
  BY <1>2, <1>3, <1>4
  DEF Inv, PathIndexExact, PathIndexSound, PathIndexComplete, SavedDistinct, Distinct, Under

LEMMA InitExact == Init => Inv
BY DEF Init, Inv, TypeOK, Rows, NoRows, PathIndexExact, PathIndexSound,
       PathIndexComplete, SavedDistinct, Distinct, Under

\* The reverse index that load_from_db builds from a list whose paths are
\* distinct is the inverse of that list, in whatever order rows come.
LEMMA IndexOfDistinct ==
  ASSUME NEW list \in Rows, Distinct(list), NEW bp \in IndexOf(list)
  PROVE  \A k \in Key, r \in Ref : bp[k] = r <=> Under(list, r, k)
<1> SUFFICES ASSUME NEW k \in Key, NEW r \in Ref
             PROVE  bp[k] = r <=> Under(list, r, k)
  OBVIOUS
<1> DEFINE at == {x \in Ref : Under(list, x, k)}
<1>1. IF at = {} THEN bp[k] = NoRef ELSE bp[k] \in at
  BY DEF IndexOf, Under
<1>2. \A x, y \in at : x = y
  BY DEF Distinct
<1> QED BY <1>1, <1>2

\* A step that leaves the dictionaries alone, and holds or writes only lists
\* that were there before, keeps the invariant.
LEMMA CopyExact ==
  ASSUME Inv, UNCHANGED dicts, TypeOK',
         file_cache' = file_cache \/ \E t \in Thread : snapshot[t] # NoCopy
                                                      /\ file_cache' = snapshot[t],
         \A t \in Thread : snapshot'[t] \in {NoCopy, snapshot[t], by_ref},
         \A t \in Thread : rows'[t] \in {NoCopy, rows[t], file_cache}
  PROVE  Inv'
<1>1. Distinct(by_ref)
  BY DEF Inv, PathIndexExact, PathIndexComplete, Distinct
<1>2. Distinct(file_cache) /\ Distinct(file_cache')
  BY DEF Inv, PathIndexExact, SavedDistinct
<1>3. \A t \in Thread : snapshot'[t] # NoCopy => Distinct(snapshot'[t])
  BY <1>1 DEF Inv, PathIndexExact, SavedDistinct
<1>4. \A t \in Thread : rows'[t] # NoCopy => Distinct(rows'[t])
  BY <1>2 DEF Inv, PathIndexExact, SavedDistinct
<1>5. Distinct(file_cache)'
  BY <1>2 DEF Distinct, Under
<1>6. \A t \in Thread : (snapshot[t] # NoCopy => Distinct(snapshot[t]))'
  BY <1>3 DEF Distinct, Under
<1>7. \A t \in Thread : (rows[t] # NoCopy => Distinct(rows[t]))'
  BY <1>4 DEF Distinct, Under
<1>8. SavedDistinct'
  BY <1>5, <1>6, <1>7 DEF SavedDistinct
<1> QED
  BY <1>8 DEF Inv, PathIndexExact, PathIndexSound, PathIndexComplete, Under, dicts

LEMMA NextExact ==
  ASSUME DistinctFeeds, Inv, [Next]_vars
  PROVE  Inv'
<1>1. ASSUME NEW s \in Feeds, Populate(s) PROVE Inv'
  <2>1. TypeOK' /\ UNCHANGED <<file_cache, snapshot, rows>>
    BY <1>1, PopulateResult DEF Inv, TypeOK, Populate, calls
  <2>2. \A r \in Ref, k \in Key :
          Under(by_ref', r, k) <=> \E i \in Shown(s) : s[i].ref = r /\ Lower[s[i].path] = k
    <3> SUFFICES ASSUME NEW r \in Ref, NEW k \in Key
                 PROVE  Under(by_ref', r, k)
                          <=> \E i \in Shown(s) : s[i].ref = r /\ Lower[s[i].path] = k
      OBVIOUS
    <3>1. \A i \in Shown(s) : s[i].path \in Path
      BY ShownIsUnique
    <3>2. by_ref'[r] \in Path \cup {NoPath}
      BY <2>1 DEF TypeOK, Rows
    <3>3. \A p \in Path : by_ref'[r] = p <=> \E i \in Shown(s) : s[i].ref = r /\ s[i].path = p
      BY <1>1, PopulateResult DEF Inv
    <3> QED BY <3>1, <3>2, <3>3 DEF Under
  <2>3. \A r \in Ref, k \in Key : by_path'[k] = r <=> Under(by_ref', r, k)
    BY <1>1, <2>2, PopulateResult DEF Inv
  <2> QED
    BY <2>1, <2>3
    DEF Inv, PathIndexExact, PathIndexSound, PathIndexComplete, SavedDistinct, Distinct, Under
<1>2. ASSUME NEW r \in Ref, NEW p \in Path, AddOrUpdate(r, p) PROVE Inv'
  BY <1>2, AddOrUpdateExact
<1>3. ASSUME NEW r \in Ref, RemoveByRef(r) PROVE Inv'
  BY <1>3, ForgetExact DEF RemoveByRef
<1>4. ASSUME NEW X \in SUBSET Path, RemoveExcluded(X) PROVE Inv'
  <2>1. {r \in Ref : by_ref[r] \in X} \in SUBSET Ref
    OBVIOUS
  <2> QED BY <1>4, <2>1, ForgetExact DEF RemoveExcluded
<1>5. ASSUME NEW t \in Thread, SaveCopy(t) PROVE Inv'
  <2>1. TypeOK'
    BY <1>5, NextType DEF Inv, Next
  <2> QED BY <1>5, <2>1, CopyExact DEF SaveCopy, Inv, TypeOK
<1>6. ASSUME NEW t \in Thread, SaveWrite(t) PROVE Inv'
  <2>1. TypeOK'
    BY <1>6, NextType DEF Inv, Next
  <2> QED BY <1>6, <2>1, CopyExact DEF SaveWrite, Inv, TypeOK
<1>7. ASSUME NEW t \in Thread, SaveFails(t) PROVE Inv'
  <2>1. TypeOK'
    BY <1>7, NextType DEF Inv, Next
  <2> QED BY <1>7, <2>1, CopyExact DEF SaveFails, Inv, TypeOK
<1>8. ASSUME NEW t \in Thread, LoadRead(t) PROVE Inv'
  <2>1. TypeOK'
    BY <1>8, NextType DEF Inv, Next
  <2> QED BY <1>8, <2>1, CopyExact DEF LoadRead, Inv, TypeOK
<1>9. ASSUME NEW t \in Thread, LoadSwap(t) PROVE Inv'
  <2>1. TypeOK'
    BY <1>9, NextType DEF Inv, Next
  <2>2. rows[t] \in Rows /\ Distinct(rows[t])
    BY <1>9 DEF LoadSwap, Inv, TypeOK, PathIndexExact, SavedDistinct
  <2>3. \A k \in Key, r \in Ref : by_path'[k] = r <=> Under(by_ref', r, k)
    BY <1>9, <2>2, IndexOfDistinct DEF LoadSwap
  <2>4. SavedDistinct'
    BY <1>9 DEF LoadSwap, Inv, TypeOK, PathIndexExact, SavedDistinct, Distinct, Under
  <2> QED
    BY <2>1, <2>3, <2>4
    DEF Inv, PathIndexExact, PathIndexSound, PathIndexComplete, Under
<1>10. CASE Restart
  BY <1>10 DEF Restart, Inv, TypeOK, Rows, NoRows, PathIndexExact, PathIndexSound,
               PathIndexComplete, SavedDistinct, Distinct, Under
<1>11. CASE UNCHANGED vars
  BY <1>11 DEF vars, Inv, TypeOK, PathIndexExact, PathIndexSound,
               PathIndexComplete, SavedDistinct, Distinct, Under
<1> QED
  BY <1>1, <1>2, <1>3, <1>4, <1>5, <1>6, <1>7, <1>8, <1>9, <1>10, <1>11 DEF Next

\* With one volume, the two dictionaries are inverse to each other after any
\* sequence of scans, change events, deletions, exclusions, saves, loads and
\* restarts: add_or_update and remove_by_ref (mft_cache.py 65-91) never leave
\* a dangling or a missing reverse entry, and no save or load of any number
\* of threads (151-193) brings one in.
THEOREM DictionariesStayInverse ==
  ASSUME DistinctFeeds
  PROVE  Spec => [](TypeOK /\ PathIndexExact)
<1>1. Init => Inv
  BY InitExact
<1>2. Inv /\ [Next]_vars => Inv'
  BY NextExact
<1> QED
  BY <1>1, <1>2, PTL DEF Spec, Inv

-----------------------------------------------------------------------------
\* Every step of the implementation is a step of the promise or changes
\* neither the list nor its saved copy.
LEMMA StepKeepsPromise ==
  ASSUME DistinctFeeds, Inv, [Next]_vars
  PROVE  [Promise!Next]_(Promise!idxVars)
<1>1. ASSUME NEW s \in Feeds, Populate(s) PROVE Promise!Replace(s)
  <2>1. by_ref' \in Rows /\ UNCHANGED <<file_cache, snapshot, rows>>
    BY <1>1, PopulateResult DEF Inv, Populate, calls
  <2>2. ASSUME NEW r \in Ref, NEW p \in Path
        PROVE  by_ref'[r] = p <=> [ref |-> r, path |-> p] \in Promise!Listable(s)
    <3>1. \A i \in DOMAIN s : s[i] = [ref |-> s[i].ref, path |-> s[i].path]
      <4>1. s \in Seq(Entry)
        OBVIOUS
      <4>2. \A i \in DOMAIN s : s[i] \in Entry
        BY <4>1
      <4> QED BY <4>2 DEF Entry
    <3>2. (\E i \in Shown(s) : s[i].ref = r /\ s[i].path = p)
            <=> [ref |-> r, path |-> p] \in Promise!Listable(s)
      BY <3>1 DEF Promise!Listable, Shown
    <3> QED BY <1>1, <3>2, PopulateResult DEF Inv
  <2> QED BY <2>1, <2>2 DEF Promise!Replace, Rows
<1>2. ASSUME NEW r \in Ref, NEW p \in Path, AddOrUpdate(r, p) PROVE Promise!Put(r, p)
  <2> DEFINE W == WithoutOldPath(r, p)
             gone == {W[Lower[p]]} \ {NoRef, r}
  <2>1. \A k \in Key, x \in Ref : by_path[k] = x <=> Under(by_ref, x, k)
    BY DEF Inv, PathIndexExact, PathIndexSound, PathIndexComplete
  <2>2. \A x \in Ref : x # r => (W[Lower[p]] = x <=> Under(by_ref, x, Lower[p]))
    BY <2>1 DEF WithoutOldPath, Under, Inv, TypeOK, Rows
  <2>3. \A x \in Ref : x # r => (x \in gone <=> Under(by_ref, x, Lower[p]))
    BY <2>2
  <2>4. by_ref' = [x \in Ref |-> IF x = r THEN p
                                 ELSE IF x \in gone THEN NoPath
                                 ELSE by_ref[x]]
    BY <1>2 DEF AddOrUpdate
  <2>5. by_ref' = [x \in Ref |->
          IF x = r THEN p
          ELSE IF by_ref[x] # NoPath /\ Lower[by_ref[x]] = Lower[p] THEN NoPath
          ELSE by_ref[x]]
    BY <2>3, <2>4 DEF Under
  <2> QED BY <1>2, <2>5 DEF Promise!Put, AddOrUpdate, calls
<1>3. ASSUME NEW R \in SUBSET Ref, Forget(R) PROVE Promise!Drop(R)
  BY <1>3 DEF Forget, Promise!Drop, calls
<1>4. ASSUME NEW t \in Thread,
             SaveCopy(t) \/ SaveWrite(t) \/ SaveFails(t)
      PROVE  Promise!Next
  <2>1. SaveCopy(t) => Promise!TakeList(t)
    BY DEF SaveCopy, Promise!TakeList, dicts
  <2>2. SaveWrite(t) => Promise!Save(t)
    BY DEF SaveWrite, Promise!Save, dicts
  <2>3. SaveFails(t) => Promise!GiveUpSave(t)
    BY DEF SaveFails, Promise!GiveUpSave, dicts
  <2> QED BY <1>4, <2>1, <2>2, <2>3 DEF Promise!Next
<1>5. ASSUME NEW t \in Thread, LoadRead(t) \/ LoadSwap(t) PROVE Promise!Next
  <2>1. LoadRead(t) => Promise!TakeSaved(t)
    BY DEF LoadRead, NoRows, Promise!TakeSaved, Promise!NothingListed, dicts
  <2>2. LoadSwap(t) => Promise!Load(t)
    BY DEF LoadSwap, Promise!Load
  <2> QED BY <1>5, <2>1, <2>2 DEF Promise!Next
<1>6. CASE Restart
  BY <1>6 DEF Restart, NoRows, Promise!Next, Promise!Restart, Promise!NothingListed
<1>7. CASE UNCHANGED vars
  BY <1>7 DEF vars, Promise!idxVars
<1>8. ASSUME NEW r \in Ref, RemoveByRef(r) PROVE Promise!Next
  BY <1>3, <1>8 DEF RemoveByRef, Promise!Next
<1>9. ASSUME NEW X \in SUBSET Path, RemoveExcluded(X) PROVE Promise!Next
  <2>1. {r \in Ref : by_ref[r] \in X} \in SUBSET Ref
    OBVIOUS
  <2> QED BY <1>3, <1>9, <2>1 DEF RemoveExcluded, Promise!Next
<1>10. ASSUME NEW r \in Ref, NEW p \in Path, AddOrUpdate(r, p) PROVE Promise!Next
  BY <1>2, <1>10 DEF AddOrUpdate, Promise!Next
<1>11. ASSUME NEW s \in Feeds, Populate(s) PROVE Promise!Next
  BY <1>1, <1>11 DEF Promise!Next
<1> QED
  BY <1>4, <1>5, <1>6, <1>7, <1>8, <1>9, <1>10, <1>11 DEF Next

\* With one volume, mft_cache.py does what module FileIndex promises: above
\* all, add_or_update leaves no other file listed under the path it sets,
\* although it looks for one in by_path only; and a save or load writes or
\* shows one list whole, however those of several threads cross.
THEOREM CacheImplementsFileIndex ==
  ASSUME DistinctFeeds
  PROVE  Spec => KeepsPromise
<1>1. Init => Promise!Init
  BY DEF Init, NoRows, Promise!Init, Promise!NothingListed
<1>2. Init => Inv
  BY InitExact
<1>3. Inv /\ [Next]_vars => Inv'
  BY NextExact
<1>4. Inv /\ [Next]_vars => [Promise!Next]_(Promise!idxVars)
  BY StepKeepsPromise
<1> QED
  BY <1>1, <1>2, <1>3, <1>4, PTL DEF Spec, KeepsPromise, Promise!Spec
=============================================================================
