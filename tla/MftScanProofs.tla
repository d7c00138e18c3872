--------------------------- MODULE MftScanProofs ----------------------------
(***************************************************************************)
(* Proofs about MftScan, for any volumes, chunks, batches and failures:    *)
(* the types, the way to the end, the numbers of the entries, their paths, *)
(* and that none is missing.                                               *)
(***************************************************************************)
EXTENDS MftScanProps, TLAPS, WellFoundedInduction, FiniteSetTheorems

-----------------------------------------------------------------------------
(* Numbers, and functions by recursion over them *)

\* Of numbers, one is the least.
LEMMA Least ==
  ASSUME NEW S, S \subseteq Nat, S # {}
  PROVE  \E x \in S : \A y \in S : x \leq y
<1>1. PICK x \in S : \A y \in S : ~(<<y, x>> \in OpToRel(<, Nat))
  BY NatLessThanWellFounded, WFMin
<1>2. \A y \in S : ~(y < x)
  BY <1>1 DEF OpToRel
<1> QED
  BY <1>2

LEMMA Greatest ==
  ASSUME NEW S, NEW m \in Nat, S \subseteq 0..m, S # {}
  PROVE  \E x \in S : \A y \in S : y \leq x
<1> DEFINE gaps == {m - i : i \in S}
<1>1. gaps \subseteq Nat /\ gaps # {}
  <2>1. \A i \in S : m - i \in Nat
    OBVIOUS
  <2> QED BY <2>1
<1>2. PICK g \in gaps : \A h \in gaps : g \leq h
  <2> HIDE DEF gaps
  <2> QED BY <1>1, Least
<1>3. PICK x \in S : g = m - x
  OBVIOUS
<1>4. \A y \in S : y \leq x
  <2> TAKE y \in S
  <2>1. m - y \in gaps /\ x \in 0..m /\ y \in 0..m
    OBVIOUS
  <2>2. m - x \leq m - y
    BY <1>2, <1>3, <2>1
  <2> QED BY <2>1, <2>2
<1> QED
  BY <1>4

\* Induction, for a set.
LEMMA NatSet ==
  ASSUME NEW S, 0 \in S, \A n \in Nat : n \in S => n + 1 \in S
  PROVE  Nat \subseteq S
<1>1. SUFFICES ASSUME Nat \ S # {} PROVE FALSE
  OBVIOUS
<1>2. PICK x \in Nat \ S : \A y \in Nat \ S : x \leq y
  BY <1>1, Least
<1>3. x - 1 \in Nat
  BY <1>2
<1>4. x - 1 \in S
  BY <1>2, <1>3
<1> QED
  BY <1>2, <1>3, <1>4

\* f starts with a, and each value is a step from the one before; or, from the
\* other end, from the one behind.
GoesUp(f, A, a, n, step) ==
  f \in [0..n -> A] /\ f[0] = a /\ \A i \in 1..n : f[i] = step[i][f[i-1]]
GoesDown(f, A, a, n, step) ==
  f \in [0..n -> A] /\ f[n] = a /\ \A i \in 0..n-1 : f[i] = step[i][f[i+1]]

LEMMA Recursion ==
  ASSUME NEW A, NEW a \in A, NEW n \in Nat, NEW step \in [Nat -> [A -> A]]
  PROVE  \E f : GoesUp(f, A, a, n, step)
<1> DEFINE S == {m \in Nat : \E f : GoesUp(f, A, a, m, step)}
<1>1. 0 \in S
  <2> DEFINE f == [i \in 0..0 |-> a]
  <2>1. GoesUp(f, A, a, 0, step)
    BY DEF GoesUp
  <2> HIDE DEF f
  <2> QED BY <2>1
<1>2. ASSUME NEW m \in Nat, m \in S PROVE m + 1 \in S
  <2>1. PICK f : GoesUp(f, A, a, m, step)
    BY <1>2
  <2>2. f \in [0..m -> A] /\ f[0] = a /\ \A i \in 1..m : f[i] = step[i][f[i-1]]
    BY <2>1 DEF GoesUp
  <2> DEFINE g == [i \in 0..m+1 |-> IF i = m + 1 THEN step[m+1][f[m]] ELSE f[i]]
  <2>3. step[m+1][f[m]] \in A
    <3>1. f[m] \in A /\ step[m+1] \in [A -> A]
      BY <2>2
    <3> QED BY <3>1
  <2>4. g \in [0..m+1 -> A] /\ g[m+1] = step[m+1][f[m]] /\ \A i \in 0..m : g[i] = f[i]
    BY <2>2, <2>3
  <2> HIDE DEF g
  <2>5. g[0] = a
    BY <2>2, <2>4
  <2>6. ASSUME NEW i \in 1..m+1 PROVE g[i] = step[i][g[i-1]]
    <3>1. CASE i = m + 1
      BY <2>4, <3>1
    <3>2. CASE i \in 1..m
      BY <2>2, <2>4, <3>2
    <3> QED BY <3>1, <3>2
  <2>7. GoesUp(g, A, a, m+1, step)
    BY <2>4, <2>5, <2>6 DEF GoesUp
  <2> QED BY <2>7
<1>3. n \in S
  <2> HIDE DEF S
  <2> QED BY <1>1, <1>2, NatSet
<1> QED
  BY <1>3

\* Whatever is defined by the same steps is the same.
FollowsUp(g, A, a, n, step) == g[0] = a /\ \A i \in 1..n : g[i-1] \in A => g[i] = step[i][g[i-1]]
FollowsDown(g, A, a, n, step) == g[n] = a /\ \A i \in 0..n-1 : g[i+1] \in A => g[i] = step[i][g[i+1]]
Same(f, g, n) == \A i \in 0..n : g[i] = f[i]

LEMMA SameUp ==
  ASSUME NEW A, NEW a, NEW n \in Nat, NEW step, NEW f, GoesUp(f, A, a, n, step),
         NEW g, FollowsUp(g, A, a, n, step)
  PROVE  Same(f, g, n)
<1> DEFINE S == {i \in Nat : i \leq n => g[i] = f[i]}
<1>1. f \in [0..n -> A] /\ f[0] = a /\ \A i \in 1..n : f[i] = step[i][f[i-1]]
  BY DEF GoesUp
<1>0. g[0] = a /\ \A i \in 1..n : g[i-1] \in A => g[i] = step[i][g[i-1]]
  BY DEF FollowsUp
<1>2. 0 \in S
  BY <1>0, <1>1
<1>3. ASSUME NEW i \in Nat, i \in S PROVE i + 1 \in S
  <2>1. SUFFICES ASSUME i + 1 \leq n PROVE g[i+1] = f[i+1]
    OBVIOUS
  <2>2. g[i] = f[i] /\ f[i] \in A
    BY <1>1, <1>3, <2>1
  <2>3. i + 1 \in 1..n /\ (i + 1) - 1 = i
    BY <2>1
  <2> QED BY <1>0, <1>1, <2>2, <2>3
<1>4. Nat \subseteq S
  <2> HIDE DEF S
  <2> QED BY <1>2, <1>3, NatSet
<1> QED
  BY <1>4 DEF Same

LEMMA SameDown ==
  ASSUME NEW A, NEW a, NEW n \in Nat, NEW step, NEW f, GoesDown(f, A, a, n, step),
         NEW g, FollowsDown(g, A, a, n, step)
  PROVE  Same(f, g, n)
<1> DEFINE S == {i \in Nat : i \leq n => g[n-i] = f[n-i]}
<1>1. f \in [0..n -> A] /\ f[n] = a /\ \A i \in 0..n-1 : f[i] = step[i][f[i+1]]
  BY DEF GoesDown
<1>0. g[n] = a /\ \A i \in 0..n-1 : g[i+1] \in A => g[i] = step[i][g[i+1]]
  BY DEF FollowsDown
<1>2. 0 \in S
  BY <1>0, <1>1
<1>3. ASSUME NEW i \in Nat, i \in S PROVE i + 1 \in S
  <2>1. SUFFICES ASSUME i + 1 \leq n PROVE g[n-(i+1)] = f[n-(i+1)]
    OBVIOUS
  <2>2. g[n-i] = f[n-i] /\ f[n-i] \in A
    BY <1>1, <1>3, <2>1
  <2>3. n-(i+1) \in 0..n-1 /\ n-(i+1)+1 = n-i
    BY <2>1
  <2> QED BY <1>0, <1>1, <2>2, <2>3
<1>4. Nat \subseteq S
  <2> HIDE DEF S
  <2> QED BY <1>2, <1>3, NatSet
<1>5. ASSUME NEW i \in 0..n PROVE g[i] = f[i]
  <2>1. n - i \in S /\ n - (n - i) = i
    BY <1>4
  <2> QED BY <2>1
<1> QED
  BY <1>5 DEF Same

LEMMA RecursionDown ==
  ASSUME NEW A, NEW a \in A, NEW n \in Nat, NEW step \in [Nat -> [A -> A]]
  PROVE  \E f : GoesDown(f, A, a, n, step)
<1> DEFINE back == [i \in Nat |-> IF i \leq n THEN step[n - i] ELSE step[0]]
<1>1. back \in [Nat -> [A -> A]] /\ \A i \in 0..n : back[i] = step[n - i]
  OBVIOUS
<1> HIDE DEF back
<1>2. PICK g : GoesUp(g, A, a, n, back)
  BY <1>1, Recursion
<1>3. g \in [0..n -> A] /\ g[0] = a /\ \A i \in 1..n : g[i] = back[i][g[i-1]]
  BY <1>2 DEF GoesUp
<1> DEFINE f == [k \in 0..n |-> g[n - k]]
<1>4. f \in [0..n -> A] /\ f[n] = a /\ \A k \in 0..n : f[k] = g[n - k]
  BY <1>3
<1> HIDE DEF f
<1>5. ASSUME NEW k \in 0..n-1 PROVE f[k] = step[k][f[k+1]]
  <2>1. n - k \in 1..n /\ n - (n - k) = k /\ k + 1 \in 0..n /\ n - (k + 1) = n - k - 1
    OBVIOUS
  <2>2. g[n - k] = back[n - k][g[n - k - 1]] /\ back[n - k] = step[k]
    BY <1>1, <1>3, <2>1
  <2> QED BY <1>4, <2>1, <2>2
<1>6. GoesDown(f, A, a, n, step)
  BY <1>4, <1>5 DEF GoesDown
<1> QED
  BY <1>6

-----------------------------------------------------------------------------
(* Numbers in bytes *)

Digits(f, b, at, n, above) ==
  f \in [0..n -> Int] /\ f[0] = above /\ \A i \in 1..n : f[i] = b[at + n - i] + 256 * f[i-1]

LEMMA LittleEndianIs ==
  ASSUME NEW b, NEW at \in Nat, NEW n \in Nat, NEW above \in Int,
         \A i \in at..at + n - 1 : b[i] \in 0..255
  PROVE  \E f : Digits(f, b, at, n, above) /\ LittleEndian(b, at, n, above) = f[n]
<1> DEFINE step == [i \in Nat |-> [x \in Int |-> IF i \in 1..n THEN b[at + n - i] + 256 * x ELSE x]]
           value[i \in 0..n] == IF i = 0 THEN above ELSE b[at + n - i] + 256 * value[i-1]
<1>1. step \in [Nat -> [Int -> Int]]
  <2>1. \A i \in 1..n : at + n - i \in at..at + n - 1 /\ b[at + n - i] \in Int
    OBVIOUS
  <2> QED BY <2>1
<1>2. \A i \in 1..n : \A x \in Int : step[i][x] = b[at + n - i] + 256 * x
  OBVIOUS
<1> HIDE DEF step
<1>3. PICK f : GoesUp(f, Int, above, n, step)
  BY <1>1, Recursion
<1>4. f \in [0..n -> Int] /\ f[0] = above /\ \A i \in 1..n : f[i] = b[at + n - i] + 256 * f[i-1]
  <2>1. f \in [0..n -> Int] /\ f[0] = above /\ \A i \in 1..n : f[i] = step[i][f[i-1]]
    BY <1>3 DEF GoesUp
  <2>2. ASSUME NEW i \in 1..n PROVE f[i] = b[at + n - i] + 256 * f[i-1]
    <3>1. f[i-1] \in Int
      BY <2>1
    <3>2. step[i][f[i-1]] = b[at + n - i] + 256 * f[i-1]
      BY <1>2, <3>1
    <3> QED BY <2>1, <3>2
  <2> QED BY <2>1, <2>2
<1>5. f = [i \in 0..n |-> IF i = 0 THEN above ELSE b[at + n - i] + 256 * f[i-1]]
  <2>1. \A i \in 0..n : i = 0 \/ (i \in 1..n /\ i # 0)
    OBVIOUS
  <2> QED BY <1>4, <2>1, Zenon
<1>6. value = [i \in 0..n |-> IF i = 0 THEN above ELSE b[at + n - i] + 256 * value[i-1]]
  BY <1>5, ZenonT(30)
<1>7. LittleEndian(b, at, n, above) = value[n]
  BY DEF LittleEndian
<1> HIDE DEF value
<1>8. Same(f, value, n)
  <2>1. FollowsUp(value, Int, above, n, step)
    <3>1. value[0] = above /\ \A i \in 1..n : value[i] = b[at + n - i] + 256 * value[i-1]
      BY <1>6
    <3> QED BY <1>2, <3>1 DEF FollowsUp
  <2> QED BY <1>3, <2>1, SameUp
<1>9. value[n] = f[n]
  BY <1>8 DEF Same
<1>10. Digits(f, b, at, n, above)
  BY <1>4 DEF Digits
<1> QED
  BY <1>7, <1>9, <1>10

\* Bytes make a number, and without a sign no negative one.
LEMMA LittleEndianType ==
  ASSUME NEW b, NEW at \in Nat, NEW n \in Nat, NEW above \in Int,
         \A i \in at..at + n - 1 : b[i] \in 0..255
  PROVE  LittleEndian(b, at, n, above) \in Int
         /\ (above = 0 => LittleEndian(b, at, n, above) \in Nat)
<1>1. PICK f : Digits(f, b, at, n, above) /\ LittleEndian(b, at, n, above) = f[n]
  BY LittleEndianIs
<1>2. f \in [0..n -> Int] /\ f[0] = above /\ \A i \in 1..n : f[i] = b[at + n - i] + 256 * f[i-1]
  BY <1>1 DEF Digits
<1>3. ASSUME above = 0 PROVE f[n] \in Nat
  <2> DEFINE S == {i \in Nat : i \leq n => f[i] \in Nat}
  <2>1. 0 \in S
    BY <1>2, <1>3
  <2>2. ASSUME NEW i \in Nat, i \in S PROVE i + 1 \in S
    <3>1. SUFFICES ASSUME i + 1 \leq n PROVE f[i+1] \in Nat
      OBVIOUS
    <3>2. i + 1 \in 1..n /\ i + 1 - 1 = i /\ at + n - (i+1) \in at..at + n - 1
      BY <3>1
    <3>3. f[i+1] = b[at + n - (i+1)] + 256 * f[i]
      BY <1>2, <3>2
    <3>4. b[at + n - (i+1)] \in 0..255
      BY <3>2
    <3>5. f[i] \in Nat
      BY <2>2, <3>1
    <3>6. \A x \in Nat : \A y \in 0..255 : y + 256 * x \in Nat
      OBVIOUS
    <3>7. b[at + n - (i+1)] + 256 * f[i] \in Nat
      BY <3>4, <3>5, <3>6, Zenon
    <3> QED BY <3>3, <3>7, Zenon
  <2>3. n \in S
    <3> HIDE DEF S
    <3> QED BY <2>1, <2>2, NatSet
  <2> QED BY <2>3
<1> QED
  BY <1>1, <1>2, <1>3

-----------------------------------------------------------------------------
(* The loop over a run list *)

PlaceOfRun == [lcn : Int, len : Nat]
LoopState == [pos : Nat \ {0}, lcn : Int, runs : Seq(PlaceOfRun)]
Byte == 0..255

LEMMA BytesAre == ASSUME NEW b \in Seq(Byte) PROVE \A i \in 1..Len(b) : b[i] \in 0..255
<1>1. \A i \in 1..Len(b) : b[i] \in Byte
  OBVIOUS
<1> QED
  BY <1>1 DEF Byte

LEMMA ReadItemType ==
  ASSUME NEW b \in Seq(Byte), NEW s \in LoopState
  PROVE  ReadItem(b, s) \in LoopState
<1>1. CASE ListEnds(b, s.pos)
  BY <1>1 DEF ReadItem
<1>2. CASE ~ListEnds(b, s.pos)
  <2>1. s.pos \in 1..Len(b) /\ b[s.pos] \in 0..255
    <3>1. s.pos \in Nat \ {0} /\ Len(b) \in Nat
      BY DEF LoopState
    <3>2. s.pos \in 1..Len(b)
      BY <1>2, <3>1 DEF ListEnds
    <3> QED BY <3>2, BytesAre
  <2>2. Size(b, s.pos) \in Nat /\ Dist(b, s.pos) \in Nat
    <3>1. \A x \in 0..255 : x % 16 \in Nat /\ x \div 16 \in Nat
      OBVIOUS
    <3> QED BY <2>1, <3>1 DEF Size, Dist
  <2>3. NextItem(b, s.pos) \in Nat \ {0} /\ NextItem(b, s.pos) \leq Len(b) + 1
    <3>1. NextItem(b, s.pos) = s.pos + 1 + Size(b, s.pos) + Dist(b, s.pos)
          /\ ~(NextItem(b, s.pos) > Len(b) + 1)
      BY <1>2 DEF NextItem, ListEnds
    <3>2. s.pos \in Nat \ {0} /\ Len(b) \in Nat
      BY DEF LoopState
    <3> QED BY <2>2, <3>1, <3>2
  <2>4. \A i \in 1..Len(b) : b[i] \in 0..255
    BY BytesAre
  <2>5. Unsigned(b, s.pos + 1, Size(b, s.pos)) \in Nat
    <3>1. \A i \in s.pos + 1..s.pos + 1 + Size(b, s.pos) - 1 : b[i] \in 0..255
      BY <2>1, <2>2, <2>3, <2>4 DEF NextItem
    <3>2. s.pos + 1 \in Nat /\ 0 \in Int
      BY <2>1
    <3> QED BY <2>2, <3>1, <3>2, LittleEndianType DEF Unsigned
  <2>6. Signed(b, s.pos + 1 + Size(b, s.pos), Dist(b, s.pos)) \in Int
    <3>1. \A i \in s.pos + 1 + Size(b, s.pos)..s.pos + 1 + Size(b, s.pos) + Dist(b, s.pos) - 1 : b[i] \in 0..255
      BY <2>1, <2>2, <2>3, <2>4 DEF NextItem
    <3> DEFINE above == IF b[s.pos + 1 + Size(b, s.pos) + Dist(b, s.pos) - 1] \geq 128 THEN -1 ELSE 0
    <3>2. above \in Int /\ s.pos + 1 + Size(b, s.pos) \in Nat
      BY <2>1, <2>2
    <3>3. Signed(b, s.pos + 1 + Size(b, s.pos), Dist(b, s.pos))
            = LittleEndian(b, s.pos + 1 + Size(b, s.pos), Dist(b, s.pos), above)
      BY DEF Signed
    <3> HIDE DEF above
    <3> QED BY <2>2, <3>1, <3>2, <3>3, LittleEndianType
  <2> DEFINE lcn == s.lcn + Signed(b, s.pos + 1 + Size(b, s.pos), Dist(b, s.pos))
             run == [lcn |-> lcn, len |-> Unsigned(b, s.pos + 1, Size(b, s.pos))]
  <2>7. lcn \in Int
    BY <2>6 DEF LoopState
  <2>8. run \in PlaceOfRun
    BY <2>5, <2>7 DEF PlaceOfRun
  <2>9. ReadItem(b, s) = IF Dist(b, s.pos) = 0 THEN [s EXCEPT !.pos = NextItem(b, s.pos)]
                         ELSE [pos |-> NextItem(b, s.pos), lcn |-> lcn, runs |-> Append(s.runs, run)]
    BY <1>2 DEF ReadItem
  <2> HIDE DEF run, lcn
  <2> QED BY <2>3, <2>7, <2>8, <2>9 DEF LoopState
<1> QED
  BY <1>1, <1>2

\* The loop over a run list, as a function.
Loop(f, b) ==
  /\ f \in [0..Len(b) -> LoopState] /\ f[0] = [pos |-> 1, lcn |-> 0, runs |-> <<>>]
  /\ \A i \in 1..Len(b) : f[i] = ReadItem(b, f[i-1])

LEMMA DataRunsAre ==
  ASSUME NEW b \in Seq(Byte)
  PROVE  \E f : Loop(f, b) /\ DataRuns(b) = f[Len(b)].runs
<1> DEFINE first == [pos |-> 1, lcn |-> 0, runs |-> <<>>]
           step == [i \in Nat |-> [s \in LoopState |-> ReadItem(b, s)]]
           loop[i \in 0..Len(b)] == IF i = 0 THEN first ELSE ReadItem(b, loop[i-1])
<1>1. first \in LoopState
  BY DEF LoopState
<1>2. step \in [Nat -> [LoopState -> LoopState]]
  BY ReadItemType
<1>3. \A i \in Nat : \A s \in LoopState : step[i][s] = ReadItem(b, s)
  OBVIOUS
<1> HIDE DEF step, first
<1>4. PICK f : GoesUp(f, LoopState, first, Len(b), step)
  BY <1>1, <1>2, Recursion
<1>5. f \in [0..Len(b) -> LoopState] /\ f[0] = first /\ \A i \in 1..Len(b) : f[i] = ReadItem(b, f[i-1])
  BY <1>3, <1>4 DEF GoesUp
<1>6. f = [i \in 0..Len(b) |-> IF i = 0 THEN first ELSE ReadItem(b, f[i-1])]
  BY <1>5
<1>7. loop = [i \in 0..Len(b) |-> IF i = 0 THEN first ELSE ReadItem(b, loop[i-1])]
  BY <1>6
<1>8. DataRuns(b) = loop[Len(b)].runs
  BY DEF DataRuns, first
<1> HIDE DEF loop
<1>9. Same(f, loop, Len(b))
  <2>1. FollowsUp(loop, LoopState, first, Len(b), step)
    BY <1>3, <1>7 DEF FollowsUp
  <2> QED BY <1>4, <2>1, SameUp
<1>10. loop[Len(b)] = f[Len(b)]
  BY <1>9 DEF Same
<1>11. Loop(f, b)
  BY <1>5 DEF Loop, first
<1> QED
  BY <1>8, <1>10, <1>11

LEMMA DataRunsType == ASSUME NEW b \in Seq(Byte) PROVE DataRuns(b) \in Seq(PlaceOfRun)
<1>1. PICK f : Loop(f, b) /\ DataRuns(b) = f[Len(b)].runs
  BY DataRunsAre
<1>2. f[Len(b)] \in LoopState
  BY <1>1 DEF Loop
<1> QED
  BY <1>1, <1>2 DEF LoopState
-----------------------------------------------------------------------------
(* Whole records in so many bytes *)

LEMMA DivType ==
  ASSUME NEW n \in Nat, NEW c \in Nat \ {0}
  PROVE  n \div c \in Nat /\ (n \div c) * c \leq n /\ (n % c = 0 => n = (n \div c) * c)
<1>1. n % c = 0 => n = c * (n \div c)
  OBVIOUS
<1>2. n \div c \in Nat /\ (n \div c) * c \leq n
  OBVIOUS
<1>3. c * (n \div c) = (n \div c) * c
  BY <1>2
<1> QED
  BY <1>1, <1>2, <1>3

LEMMA DivAtLeast ==
  ASSUME NEW n \in Nat, NEW c \in Nat \ {0}, NEW a \in Nat, a * c \leq n
  PROVE  a \leq n \div c
OBVIOUS

LEMMA DivAdds ==
  ASSUME NEW n \in Nat, NEW c \in Nat \ {0}, NEW a \in Nat, NEW x \in Nat, a * c \leq x
  PROVE  (a + n \div c) * c \leq x + n
<1>1. (n \div c) * c \leq n /\ n \div c \in Nat
  BY DivType
<1>2. (a + n \div c) * c = a * c + (n \div c) * c
  BY <1>1
<1> QED
  BY <1>1, <1>2

-----------------------------------------------------------------------------
(* What a volume is *)

LEMMA VolumeIs ==
  ASSUME NEW v \in Volumes
  PROVE  /\ v.bpc \in Nat \ {0} /\ v.rec \in Nat \ {0} /\ v.valid \in Nat
         /\ v.bytes # Unreadable => v.bytes \in Seq(Byte)
         /\ DOMAIN v.records \subseteq Nat
         /\ \A n \in DOMAIN v.records : \A i \in DOMAIN v.records[n].attrs :
              i \in Nat /\ v.records[n].attrs[i].parent \in Nat
<1>1. \A n \in DOMAIN v.records : \A i \in DOMAIN v.records[n].attrs :
        i \in Nat /\ v.records[n].attrs[i].parent \in Nat
  <2> TAKE n \in DOMAIN v.records
  <2> DEFINE attrs == v.records[n].attrs
  <2>1. DOMAIN attrs = 1..Len(attrs) /\ \A i \in DOMAIN attrs : attrs[i].parent \in Nat
    BY VolumeShapes
  <2> QED BY <2>1
<1> QED
  BY <1>1, VolumeShapes DEF Byte

\* The priorities of name spaces, and that one of several names is the best.
LEMMA PriorityType == \A ns : Priority(ns) \in 0..4
BY DEF Priority

LEMMA BestIs ==
  ASSUME NEW rec, Names(rec) # {}, \A i \in DOMAIN rec.attrs : i \in Nat
  PROVE  /\ Best(rec) \in Names(rec)
         /\ \A j \in Names(rec) :
              LET pb == Priority(rec.attrs[Best(rec)].ns)
                  pj == Priority(rec.attrs[j].ns)
              IN  pb > pj \/ (pb = pj /\ Best(rec) \leq j)
<1> DEFINE P(i) == Priority(rec.attrs[i].ns)
<1>1. Names(rec) \subseteq Nat /\ \A i \in Names(rec) : P(i) \in 0..4
  BY PriorityType DEF Names, Walked
<1> HIDE DEF P
<1> DEFINE gaps == {4 - P(i) : i \in Names(rec)}
<1>2. gaps \subseteq Nat /\ gaps # {}
  BY <1>1
<1>3. PICK g \in gaps : \A h \in gaps : g \leq h
  <2> HIDE DEF gaps
  <2> QED BY <1>2, Least
<1> DEFINE top == {i \in Names(rec) : 4 - P(i) = g}
<1>4. top \subseteq Nat /\ top # {}
  BY <1>1, <1>3
<1>5. PICK b \in top : \A j \in top : b \leq j
  <2> HIDE DEF top
  <2> QED BY <1>4, Least
<1>6. \A j \in Names(rec) : P(b) > P(j) \/ (P(b) = P(j) /\ b \leq j)
  <2> TAKE j \in Names(rec)
  <2>1. g \leq 4 - P(j) /\ P(b) = 4 - g /\ P(j) \in 0..4
    BY <1>1, <1>3, <1>5
  <2>2. P(b) = P(j) => j \in top
    BY <2>1, <1>5
  <2> QED BY <1>1, <1>3, <1>5, <2>1, <2>2
<1>7. \E i \in Names(rec) : \A j \in Names(rec) : P(i) > P(j) \/ (P(i) = P(j) /\ i \leq j)
  BY <1>5, <1>6
<1> USE DEF P
<1> QED
  BY <1>7 DEF Best
-----------------------------------------------------------------------------
(* _get_path *)

\* What is listed has a number, a name and a parent.
Listing ==
  /\ vol \in Volumes /\ DOMAIN entries \subseteq Nat
  /\ \A n \in DOMAIN entries : entries[n] \in Number /\ Named(vol.records[entries[n]])

NamesListed == {EntryOf(vol.records[r]).name : r \in Number}
PathOrNone == Seq(NamesListed) \cup {NoEntry}

CacheType == DOMAIN cache \subseteq Nat /\ \A x \in DOMAIN cache : cache[x] \in PathOrNone

LEMMA FieldType ==
  ASSUME Listing, NEW n \in DOMAIN entries
  PROVE  Field(n).name \in NamesListed /\ Field(n).parent \in Nat
<1> DEFINE rec == vol.records[entries[n]]
<1>1. entries[n] \in Number /\ Names(rec) # {} /\ \A i \in DOMAIN rec.attrs : i \in Nat
  BY VolumeIs DEF Listing, Named, Number
<1>2. Best(rec) \in Names(rec)
  BY <1>1, BestIs
<1>3. Best(rec) \in DOMAIN rec.attrs
  BY <1>2 DEF Names, Walked
<1>4. rec.attrs[Best(rec)].parent \in Nat
  BY <1>1, <1>3, VolumeIs DEF Listing, Number
<1> QED
  BY <1>1, <1>4 DEF Field, EntryOf, NamesListed

Parents(up, n) ==
  /\ up \in [0..MaxDepth+1 -> Nat] /\ up[0] = n
  /\ \A k \in 1..MaxDepth+1 : up[k] = IF IsRoot(up[k-1]) THEN up[k-1] ELSE Field(up[k-1]).parent

LEMMA AncestorIs ==
  ASSUME Listing, NEW n \in Nat
  PROVE  Parents(Ancestor(n), n)
<1> DEFINE Next1(x) == IF IsRoot(x) THEN x ELSE Field(x).parent
           step == [k \in Nat |-> [x \in Nat |-> Next1(x)]]
           m == MaxDepth + 1
           up[k \in 0..m] == IF k = 0 THEN n ELSE Next1(up[k-1])
<1>1. m \in Nat
  BY ScanBounds
<1>2. \A x \in Nat : Next1(x) \in Nat
  BY FieldType DEF IsRoot
<1> HIDE DEF Next1
<1>3. step \in [Nat -> [Nat -> Nat]] /\ \A k \in Nat : \A x \in Nat : step[k][x] = Next1(x)
  BY <1>2
<1> HIDE DEF step
<1>4. PICK f : GoesUp(f, Nat, n, m, step)
  BY <1>1, <1>3, Recursion
<1>5. f \in [0..m -> Nat] /\ f[0] = n /\ \A k \in 1..m : f[k] = Next1(f[k-1])
  <2>1. f \in [0..m -> Nat] /\ f[0] = n /\ \A k \in 1..m : f[k] = step[k][f[k-1]]
    BY <1>4 DEF GoesUp
  <2>2. ASSUME NEW k \in 1..m PROVE f[k] = Next1(f[k-1])
    <3>1. k \in Nat /\ f[k-1] \in Nat
      BY <1>1, <2>1
    <3> QED BY <1>3, <2>1, <3>1
  <2> QED BY <2>1, <2>2
<1>6. f = [k \in 0..m |-> IF k = 0 THEN n ELSE Next1(f[k-1])]
  BY <1>1, <1>5
<1>7. up = [k \in 0..m |-> IF k = 0 THEN n ELSE Next1(up[k-1])]
  BY <1>6
<1>8. Ancestor(n) = up
  BY DEF Ancestor, Next1
<1> HIDE DEF up
<1>9. Same(f, up, m)
  <2>1. FollowsUp(up, Nat, n, m, step)
    <3>1. up[0] = n /\ \A k \in 1..m : up[k] = Next1(up[k-1])
      BY <1>1, <1>7
    <3>2. ASSUME NEW k \in 1..m, up[k-1] \in Nat PROVE up[k] = step[k][up[k-1]]
      <4>1. k \in Nat
        BY <1>1
      <4> QED BY <1>3, <3>1, <3>2, <4>1
    <3> HIDE DEF m
    <3> QED BY <3>1, <3>2 DEF FollowsUp
  <2> QED BY <1>1, <1>4, <2>1, SameUp
<1>10. up = f
  BY <1>5, <1>7, <1>9 DEF Same
<1> QED
  BY <1>5, <1>8, <1>10 DEF Parents, Next1

LEMMA TopIs ==
  ASSUME NEW up
  PROVE  Top(up) \in 0..MaxDepth+1 /\ Stops(up, Top(up)) /\ \A j \in 0..Top(up)-1 : ~Stops(up, j)
<1> DEFINE S == {k \in 0..MaxDepth+1 : Stops(up, k)}
<1>1. MaxDepth + 1 \in S
  BY ScanBounds DEF Stops
<1>2. PICK k \in S : \A j \in S : k \leq j
  <2>1. S \subseteq Nat /\ S # {}
    BY <1>1, ScanBounds
  <2> HIDE DEF S
  <2> QED BY <2>1, Least
<1>3. k \in 0..MaxDepth+1 /\ Stops(up, k) /\ \A j \in 0..k-1 : ~Stops(up, j)
  BY <1>2, ScanBounds
<1> HIDE DEF S
<1> QED
  BY <1>3 DEF Top

\* What is known where the calls turn back.
AtTop(up, top) == IF top \leq MaxDepth /\ up[top] \in DOMAIN cache THEN cache[up[top]] ELSE <<>>

Turned(down, up, top) ==
  /\ down \in [0..top -> PathOrNone] /\ down[top] = AtTop(up, top)
  /\ \A k \in 0..top-1 : down[k] = Below(down[k+1], up[k])

LEMMA BelowType ==
  ASSUME Listing, NEW p \in PathOrNone, NEW x \in DOMAIN entries
  PROVE  (Below(p, x) \in PathOrNone /\ Below(p, x) # <<>>) \/ Below(p, x) = NoEntry
<1>1. CASE p = NoEntry
  BY <1>1 DEF Below, PathOrNone
<1>2. CASE p # NoEntry
  <2>1. p \in Seq(NamesListed) /\ Field(x).name \in NamesListed
    BY <1>2, FieldType DEF PathOrNone
  <2>2. Append(p, Field(x).name) \in Seq(NamesListed) /\ Append(p, Field(x).name) # <<>>
    BY <2>1
  <2> QED BY <1>2, <2>2 DEF Below, PathOrNone
<1> QED
  BY <1>1, <1>2

LEMMA DescentIs ==
  ASSUME Listing, CacheType, NEW up, NEW top \in Nat,
         \A k \in 0..top-1 : up[k] \in DOMAIN entries
  PROVE  Turned(Descent(up, top), up, top)
<1> DEFINE Next1(k, p) == IF k \in 0..top-1 THEN Below(p, up[k]) ELSE p
           step == [k \in Nat |-> [p \in PathOrNone |-> Next1(k, p)]]
           a == AtTop(up, top)
           down[k \in 0..top] == IF k < top THEN Below(down[k+1], up[k]) ELSE a
<1>1. a \in PathOrNone
  BY DEF AtTop, CacheType, PathOrNone
<1>2. \A k \in Nat : \A p \in PathOrNone : Next1(k, p) \in PathOrNone
  BY BelowType DEF PathOrNone
<1> HIDE DEF Next1
<1>3. step \in [Nat -> [PathOrNone -> PathOrNone]]
      /\ \A k \in Nat : \A p \in PathOrNone : step[k][p] = Next1(k, p)
  BY <1>2
<1>4. \A k \in 0..top-1 : \A p : Next1(k, p) = Below(p, up[k])
  BY DEF Next1
<1>5. Descent(up, top) = down
  BY DEF Descent, AtTop
<1> HIDE DEF step, a
<1>6. PICK f : GoesDown(f, PathOrNone, a, top, step)
  BY <1>1, <1>3, RecursionDown
<1>7. f \in [0..top -> PathOrNone] /\ f[top] = a /\ \A k \in 0..top-1 : f[k] = Below(f[k+1], up[k])
  <2>1. f \in [0..top -> PathOrNone] /\ f[top] = a /\ \A k \in 0..top-1 : f[k] = step[k][f[k+1]]
    BY <1>6 DEF GoesDown
  <2>2. ASSUME NEW k \in 0..top-1 PROVE f[k] = Below(f[k+1], up[k])
    <3>1. k \in Nat /\ f[k+1] \in PathOrNone
      BY <2>1
    <3> QED BY <1>3, <1>4, <2>1, <3>1
  <2> QED BY <2>1, <2>2
<1>8. f = [k \in 0..top |-> IF k < top THEN Below(f[k+1], up[k]) ELSE a]
  BY <1>7
<1>9. down = [k \in 0..top |-> IF k < top THEN Below(down[k+1], up[k]) ELSE a]
  BY <1>8
<1> HIDE DEF down
<1>10. Same(f, down, top)
  <2>1. FollowsDown(down, PathOrNone, a, top, step)
    <3>1. down[top] = a /\ \A k \in 0..top-1 : down[k] = Below(down[k+1], up[k])
      BY <1>9
    <3> QED BY <1>3, <1>4, <3>1 DEF FollowsDown
  <2> QED BY <1>6, <2>1, SameDown
<1>11. down = f
  BY <1>7, <1>9, <1>10 DEF Same
<1> QED
  BY <1>5, <1>7, <1>11 DEF Turned, a

\* Calls for n: the parents, where they turn back, what is found on the way down.
Calls(up, top, down, n) ==
  /\ Parents(up, n) /\ top \in 0..MaxDepth+1 /\ Turned(down, up, top)
  /\ Stops(up, top) /\ \A k \in 0..top-1 : ~Stops(up, k)

\* Which entries are met above n, and what the last call for each of them leaves.
Left(up, top, down) ==
  /\ DOMAIN cache' = DOMAIN cache \cup {up[k] : k \in {j \in 0..top : j \leq MaxDepth}}
  /\ \A x \in DOMAIN cache' :
       \/ x \in DOMAIN cache /\ cache'[x] = cache[x] /\ \A k \in 0..top : k \leq MaxDepth => up[k] # x
       \/ \E k \in 0..top : k \leq MaxDepth /\ up[k] = x /\ cache'[x] = down[k]
  /\ DOMAIN paths' = DOMAIN paths \cup {up[k] : k \in {j \in 0..top-1 : down[j] # NoEntry}}
  /\ \A x \in DOMAIN paths' :
       \/ /\ x \in DOMAIN paths /\ paths'[x] = paths[x]
          /\ \A k \in 0..top-1 : up[k] = x => down[k] = NoEntry
       \/ \E k \in 0..top-1 : up[k] = x /\ down[k] # NoEntry /\ paths'[x] = down[k]

LEMMA GetPathIs ==
  ASSUME Listing, CacheType, NEW n \in DOMAIN entries, GetPath(n)
  PROVE  \E up, top, down : Calls(up, top, down, n) /\ Left(up, top, down)
<1> DEFINE up   == Ancestor(n)
           top  == Top(up)
           down == Descent(up, top)
           Met(x)   == {k \in 0..top : up[k] = x /\ k \leq MaxDepth}
           Given(x) == {k \in Met(x) \ {top} : down[k] # NoEntry}
           Lowest(S) == CHOOSE k \in S : \A j \in S : k \leq j
           met   == {up[k] : k \in {j \in 0..top : j \leq MaxDepth}}
           given == {x \in met : Given(x) # {}}
<1>1. Parents(up, n)
  BY AncestorIs DEF Listing
<1>2. top \in 0..MaxDepth+1 /\ Stops(up, top) /\ \A j \in 0..top-1 : ~Stops(up, j)
  BY TopIs
<1>3. /\ cache' = [x \in DOMAIN cache \cup met |-> IF x \in met THEN down[Lowest(Met(x))] ELSE cache[x]]
      /\ paths' = [x \in DOMAIN paths \cup given |->
                     IF x \in given THEN down[Lowest(Given(x))] ELSE paths[x]]
  BY DEF GetPath
<1> HIDE DEF up, top, down
<1>4. Turned(down, up, top)
  <2>1. top \in Nat
    BY <1>2, ScanBounds
  <2>2. \A k \in 0..top-1 : up[k] \in DOMAIN entries
    BY <1>2 DEF Stops, IsRoot
  <2> QED BY <2>1, <2>2, DescentIs DEF down
<1>5. \A S : S \subseteq Nat /\ S # {} => Lowest(S) \in S
  BY Least
<1> HIDE DEF Lowest
<1>6. top \in Nat /\ MaxDepth \in Nat /\ top \leq MaxDepth + 1
  BY <1>2, ScanBounds
<1>7. ASSUME NEW x \in met PROVE Lowest(Met(x)) \in 0..top /\ Lowest(Met(x)) \leq MaxDepth /\ up[Lowest(Met(x))] = x
  <2>1. Met(x) \subseteq Nat /\ Met(x) # {}
    BY <1>6
  <2>2. Lowest(Met(x)) \in Met(x)
    <3> HIDE DEF Met
    <3> QED BY <1>5, <2>1
  <2> QED BY <2>2
<1>8. ASSUME NEW x \in given
      PROVE /\ Lowest(Given(x)) \in 0..top-1 /\ up[Lowest(Given(x))] = x
            /\ down[Lowest(Given(x))] # NoEntry
  <2>1. Given(x) \subseteq Nat /\ Given(x) # {}
    BY <1>6
  <2>2. Lowest(Given(x)) \in Given(x)
    <3> HIDE DEF Given
    <3> QED BY <1>5, <2>1
  <2> QED BY <1>6, <2>2
<1>9. given = {up[k] : k \in {j \in 0..top-1 : down[j] # NoEntry}}
  <2>1. ASSUME NEW x \in given PROVE \E k \in 0..top-1 : down[k] # NoEntry /\ x = up[k]
    BY <1>8
  <2>2. ASSUME NEW k \in 0..top-1, down[k] # NoEntry PROVE up[k] \in given
    <3>1. k \in Met(up[k]) /\ k # top
      BY <1>6
    <3> QED BY <1>6, <2>2, <3>1
  <2> HIDE DEF given
  <2> QED BY <2>1, <2>2
<1>10. ASSUME NEW x \in DOMAIN cache'
       PROVE  \/ x \in DOMAIN cache /\ cache'[x] = cache[x] /\ \A k \in 0..top : k \leq MaxDepth => up[k] # x
              \/ \E k \in 0..top : k \leq MaxDepth /\ up[k] = x /\ cache'[x] = down[k]
  <2>1. CASE x \in met
    <3>1. cache'[x] = down[Lowest(Met(x))]
      BY <1>3, <2>1
    <3> HIDE DEF Met
    <3> QED BY <1>7, <2>1, <3>1
  <2>2. CASE x \notin met
    BY <1>3, <2>2
  <2> QED BY <2>1, <2>2
<1>11. ASSUME NEW x \in DOMAIN paths'
       PROVE  \/ /\ x \in DOMAIN paths /\ paths'[x] = paths[x]
                 /\ \A k \in 0..top-1 : up[k] = x => down[k] = NoEntry
              \/ \E k \in 0..top-1 : up[k] = x /\ down[k] # NoEntry /\ paths'[x] = down[k]
  <2>1. CASE x \in given
    <3>1. paths'[x] = down[Lowest(Given(x))]
      BY <1>3, <2>1
    <3> HIDE DEF Given
    <3> QED BY <1>8, <2>1, <3>1
  <2>2. CASE x \notin given
    <3>1. x \in DOMAIN paths /\ paths'[x] = paths[x]
      <4> HIDE DEF given
      <4> QED BY <1>3, <2>2
    <3>2. \A k \in 0..top-1 : up[k] = x => down[k] = NoEntry
      <4> HIDE DEF given
      <4> QED BY <1>9, <2>2
    <3> QED BY <3>1, <3>2
  <2> QED BY <2>1, <2>2
<1>12. DOMAIN cache' = DOMAIN cache \cup met /\ DOMAIN paths' = DOMAIN paths \cup given
  <2> HIDE DEF met, given
  <2> QED BY <1>3
<1>13. Calls(up, top, down, n)
  BY <1>1, <1>2, <1>4 DEF Calls
<1>14. Left(up, top, down)
  BY <1>9, <1>10, <1>11, <1>12 DEF Left
<1> QED
  BY <1>13, <1>14

\* What GetPath leaves is of its type.
LEMMA GetPathType ==
  ASSUME Listing, CacheType, NEW n \in DOMAIN entries, GetPath(n),
         DOMAIN paths \subseteq DOMAIN entries, \A x \in DOMAIN paths : paths[x] # <<>>
  PROVE  /\ DOMAIN cache' \subseteq Nat /\ \A x \in DOMAIN cache' : cache'[x] \in PathOrNone
         /\ DOMAIN paths' \subseteq DOMAIN entries /\ \A x \in DOMAIN paths' : paths'[x] # <<>>
<1>1. PICK up, top, down : Calls(up, top, down, n) /\ Left(up, top, down)
  BY GetPathIs
<1>2. /\ up \in [0..MaxDepth+1 -> Nat] /\ top \in 0..MaxDepth+1 /\ MaxDepth \in Nat
      /\ down \in [0..top -> PathOrNone]
      /\ \A k \in 0..top-1 : up[k] \in DOMAIN entries /\ down[k] = Below(down[k+1], up[k])
  BY <1>1, ScanBounds DEF Calls, Parents, Turned, Stops, IsRoot
<1>3. DOMAIN cache' \subseteq Nat
  BY <1>1, <1>2 DEF Left, CacheType
<1>4. ASSUME NEW x \in DOMAIN cache' PROVE cache'[x] \in PathOrNone
  BY <1>1, <1>2 DEF Left, CacheType
<1>5. DOMAIN paths' \subseteq DOMAIN entries
  BY <1>1, <1>2 DEF Left
<1>6. ASSUME NEW x \in DOMAIN paths' PROVE paths'[x] # <<>>
  <2>1. ASSUME NEW k \in 0..top-1, down[k] # NoEntry PROVE down[k] # <<>>
    <3>1. down[k+1] \in PathOrNone /\ up[k] \in DOMAIN entries /\ down[k] = Below(down[k+1], up[k])
      BY <1>2
    <3> QED BY <2>1, <3>1, BelowType
  <2> QED BY <1>1, <2>1 DEF Left
<1> QED
  BY <1>3, <1>4, <1>5, <1>6

-----------------------------------------------------------------------------
(* Types *)

ReaderType ==
  [runs : Seq(PlaceOfRun), at : Nat, pos : Int, left : Nat, num : Nat, total : Nat, next : Nat]

Fits(r) ==
  /\ r \in ReaderType /\ r.at \in 1..Len(r.runs) + 1
  /\ r.num * vol.rec \leq r.total /\ r.total + r.left \leq vol.valid

\* ScanTypeOK with what it needs: records read are whole ones, so that their
\* numbers stay below what has been read; each entry has a record with a name.
ScanTyped ==
  /\ vol \in Volumes /\ phase \in {"head", "run", "read", "usn", "resolve", "done"}
  /\ Fits(reader) /\ (phase = "read" => reader.at \leq Len(reader.runs))
  /\ (phase # "read" => reader.left = 0)
  /\ \A n \in DOMAIN entries :
       /\ n \in 0..vol.valid \div vol.rec
       /\ entries[n] \in Number /\ Named(vol.records[entries[n]])
  /\ CacheType
  /\ DOMAIN paths \subseteq DOMAIN entries /\ \A n \in DOMAIN paths : paths[n] # <<>>
  /\ (phase \notin {"resolve", "done"} => cache = Nothing /\ paths = Nothing)
  /\ (phase = "usn" => \A n \in DOMAIN entries : entries[n] = n)
  /\ faults \in 0..MaxFaults /\ slipped \in BOOLEAN

LEMMA TimesType == ASSUME NEW x \in Nat, NEW y \in Nat PROVE x * y \in Nat
OBVIOUS

LEMMA TypedParts ==
  ASSUME ScanTyped
  PROVE  /\ vol.bpc \in Nat \ {0} /\ vol.rec \in Nat \ {0} /\ vol.valid \in Nat
         /\ vol.valid \div vol.rec \in Nat
         /\ reader.runs \in Seq(PlaceOfRun) /\ reader.at \in Nat \ {0} /\ reader.pos \in Int
         /\ reader.left \in Nat /\ reader.num \in Nat /\ reader.total \in Nat /\ reader.next \in Nat
         /\ reader.at \leq Len(reader.runs) + 1 /\ Len(reader.runs) \in Nat
         /\ reader.num * vol.rec \leq reader.total /\ reader.total + reader.left \leq vol.valid
<1>1. vol.bpc \in Nat \ {0} /\ vol.rec \in Nat \ {0} /\ vol.valid \in Nat
  BY VolumeIs DEF ScanTyped
<1>2. vol.valid \div vol.rec \in Nat
  BY <1>1, DivType
<1>3. Fits(reader)
  BY DEF ScanTyped
<1>4. /\ reader.runs \in Seq(PlaceOfRun) /\ reader.pos \in Int
      /\ reader.left \in Nat /\ reader.num \in Nat /\ reader.total \in Nat /\ reader.next \in Nat
  BY <1>3 DEF Fits, ReaderType
<1>5. Len(reader.runs) \in Nat
  BY <1>4
<1>6. /\ reader.at \in 1..Len(reader.runs) + 1
      /\ reader.num * vol.rec \leq reader.total /\ reader.total + reader.left \leq vol.valid
  BY <1>3 DEF Fits
<1>7. reader.at \in Nat \ {0} /\ reader.at \leq Len(reader.runs) + 1
  BY <1>5, <1>6
<1> QED
  BY <1>1, <1>2, <1>4, <1>5, <1>6, <1>7

LEMMA ScanTypedOK == ScanTyped => ScanTypeOK
<1> SUFFICES ASSUME ScanTyped PROVE ScanTypeOK
  OBVIOUS
<1>1. reader.num \leq vol.valid \div vol.rec
  <2> DEFINE q == reader.num * vol.rec
  <2>2. reader.num \in Nat /\ vol.rec \in Nat /\ reader.left \in Nat /\ reader.total \in Nat
        /\ vol.valid \in Nat
    BY TypedParts
  <2>3. q \in Nat
    BY <2>2, TimesType
  <2>4. q \leq reader.total /\ reader.total + reader.left \leq vol.valid
    BY TypedParts
  <2> HIDE DEF q
  <2>5. q \leq vol.valid
    BY <2>2, <2>3, <2>4
  <2>1. reader.num * vol.rec \leq vol.valid
    BY <2>5 DEF q
  <2> QED BY <2>1, TypedParts, DivAtLeast
<1>2. reader.total \in 0..vol.valid /\ reader.left \in 0..vol.valid - reader.total
  <2>1. /\ vol.valid \in Nat /\ reader.total \in Nat /\ reader.left \in Nat
        /\ reader.total + reader.left \leq vol.valid
    BY TypedParts
  <2> QED BY <2>1
<1>3. reader.at \in 1..Len(reader.runs) + 1 /\ reader.num \in 0..vol.valid \div vol.rec
  BY <1>1, TypedParts
<1>4. reader.pos \in Int /\ reader.next \in Nat
  BY TypedParts
<1>5. /\ DOMAIN entries \subseteq 0..vol.valid \div vol.rec
      /\ \A n \in DOMAIN entries : entries[n] \in Number
  BY DEF ScanTyped
<1>6. /\ phase \in {"head", "run", "read", "usn", "resolve", "done"}
      /\ DOMAIN paths \subseteq DOMAIN entries /\ \A n \in DOMAIN paths : paths[n] # <<>>
      /\ DOMAIN cache \subseteq Nat /\ faults \in 0..MaxFaults /\ slipped \in BOOLEAN
  BY DEF ScanTyped, CacheType
<1> QED
  BY <1>2, <1>3, <1>4, <1>5, <1>6 DEF ScanTypeOK

LEMMA ListingOf == ASSUME ScanTyped PROVE Listing
BY TypedParts DEF ScanTyped, Listing

LEMMA NothingIs == DOMAIN Nothing = {}
BY DEF Nothing

\* The reader at its start, with any run list, and at its end.
LEMMA NoReaderFits ==
  ASSUME vol \in Volumes, NEW runs \in Seq(PlaceOfRun)
  PROVE  Fits([NoReader EXCEPT !.runs = runs]) /\ Fits(NoReader)
<1>1. vol.rec \in Nat /\ vol.valid \in Nat
  BY VolumeIs
<1>2. 0 * vol.rec = 0
  BY <1>1
<1> QED
  BY <1>1, <1>2 DEF NoReader, Fits, ReaderType

LEMMA InitTyped == Init => ScanTyped
<1> SUFFICES ASSUME Init PROVE ScanTyped
  OBVIOUS
<1>1. vol \in Volumes /\ reader = NoReader /\ phase = "head"
  BY DEF Init
<1>2. <<>> \in Seq(PlaceOfRun)
  OBVIOUS
<1>3. Fits(reader) /\ reader.left = 0
  BY <1>1, <1>2, NoReaderFits DEF NoReader
<1>4. /\ \A n \in DOMAIN entries : n \in 0..vol.valid \div vol.rec
           /\ entries[n] \in Number /\ Named(vol.records[entries[n]])
      /\ CacheType /\ DOMAIN paths \subseteq DOMAIN entries /\ \A n \in DOMAIN paths : paths[n] # <<>>
  BY NothingIs DEF Init, CacheType
<1>5. faults \in 0..MaxFaults
  BY ScanBounds DEF Init
<1>6. slipped \in BOOLEAN /\ cache = Nothing /\ paths = Nothing
  BY DEF Init
<1> QED
  BY <1>1, <1>3, <1>4, <1>5, <1>6 DEF ScanTyped

LEMMA FaultType == ASSUME ScanTyped, Fault \/ NoFault PROVE faults' \in 0..MaxFaults
BY ScanBounds DEF ScanTyped, Fault, NoFault

LEMMA FallbackTyped ==
  ASSUME ScanTyped, phase \notin {"resolve", "done"}, Fallback, slipped' \in BOOLEAN, Fault \/ NoFault
  PROVE  ScanTyped'
<1>1. /\ phase' = "usn" /\ reader' = NoReader /\ vol' = vol /\ entries' = Nothing
      /\ cache' = Nothing /\ paths' = Nothing
  BY DEF Fallback, ScanTyped
<1>2. Fits(reader)'
  <2>1. <<>> \in Seq(PlaceOfRun) /\ vol \in Volumes
    BY DEF ScanTyped
  <2>2. Fits(NoReader)
    BY <2>1, NoReaderFits
  <2> QED BY <1>1, <2>2 DEF Fits
<1>3. CacheType' /\ DOMAIN entries' = {} /\ DOMAIN paths' = {} /\ reader'.left = 0
  BY <1>1, NothingIs DEF CacheType, NoReader
<1> QED
  BY <1>1, <1>2, <1>3, FaultType DEF ScanTyped, Number

\* Steps that change the reader only.
LEMMA ReaderTyped ==
  ASSUME ScanTyped, UNCHANGED <<vol, entries, cache, paths>>, Fault \/ NoFault,
         Fits(reader'), phase' \in {"run", "read", "resolve", "done"},
         phase' = "read" => reader'.at \leq Len(reader'.runs),
         phase' # "read" => reader'.left = 0,
         phase' \in {"resolve", "done"} \/ phase \notin {"resolve", "done"},
         slipped' \in BOOLEAN
  PROVE  ScanTyped'
<1>1. Fits(reader)'
  BY DEF Fits
<1>2. CacheType'
  <2>1. CacheType
    BY DEF ScanTyped
  <2> QED BY <2>1 DEF CacheType, PathOrNone, NamesListed, Number
<1> QED
  BY <1>1, <1>2, FaultType DEF ScanTyped, Number

LEMMA SmallerType ==
  ASSUME NEW x \in Nat, NEW y \in Nat
  PROVE  Smaller(x, y) \in Nat /\ Smaller(x, y) \leq x /\ Smaller(x, y) \leq y
         /\ Smaller(x, y) \in {x, y}
BY DEF Smaller

LEMMA RunBytesType ==
  ASSUME ScanTyped, RunsLeft
  PROVE  /\ Run.lcn \in Int /\ Run.len \in Nat /\ reader.at \leq Len(reader.runs)
         /\ RunBytes \in Nat /\ RunBytes \leq Run.len * vol.bpc /\ reader.total + RunBytes \leq vol.valid
         /\ RunBytes \in {Run.len * vol.bpc, vol.valid - reader.total}
<1>1. reader.at \in 1..Len(reader.runs) /\ reader.total < vol.valid
  BY TypedParts DEF RunsLeft
<1>2. Run \in PlaceOfRun
  BY <1>1, TypedParts DEF Run
<1>3. Run.lcn \in Int /\ Run.len \in Nat
  BY <1>2 DEF PlaceOfRun
<1>10. vol.bpc \in Nat
  BY TypedParts
<1>4. Run.len * vol.bpc \in Nat
  BY <1>3, <1>10, TimesType
<1>8. vol.valid \in Nat /\ reader.total \in Nat
  BY TypedParts
<1>5. vol.valid - reader.total \in Nat
  BY <1>1, <1>8
<1>6. /\ RunBytes \in Nat /\ RunBytes \leq Run.len * vol.bpc
      /\ RunBytes \leq vol.valid - reader.total
      /\ RunBytes \in {Run.len * vol.bpc, vol.valid - reader.total}
  BY <1>4, <1>5, SmallerType DEF RunBytes
<1>7. reader.total + RunBytes \leq vol.valid
  BY <1>6, <1>8
<1>9. reader.at \leq Len(reader.runs)
  <2>1. reader.at \in Nat /\ Len(reader.runs) \in Nat
    BY TypedParts
  <2> QED BY <1>1, <2>1
<1> QED
  BY <1>3, <1>6, <1>7, <1>9

\* What is known of a read of n bytes: which records it lists, under which numbers.
LEMMA ReadIs ==
  ASSUME ScanTyped, phase = "read", NEW n \in Nat, n \leq reader.left,
         NEW i \in DOMAIN ReadRecords(reader.pos, n), NEW r \in ReadRecords(reader.pos, n)[i],
         ParseRecord(vol.records[r]) # NoEntry
  PROVE  /\ i \in 0..(n \div vol.rec) - 1 /\ n \div vol.rec \in Nat
         /\ r \in RecordAt(reader.pos + i * vol.rec)
         /\ r \in Number /\ Named(vol.records[r])
         /\ reader.num + i \in Nat /\ reader.num + i < vol.valid \div vol.rec
<1>1. n \div vol.rec \in Nat
  BY TypedParts, DivType
<1>2. i \in 0..(n \div vol.rec) - 1 /\ r \in RecordAt(reader.pos + i * vol.rec)
  BY DEF ReadRecords
<1>3. r \in Number /\ Named(vol.records[r])
  BY <1>2 DEF RecordAt, Number, ParseRecord
<1>4. reader.num + n \div vol.rec \leq vol.valid \div vol.rec
  <2>1. (reader.num + n \div vol.rec) * vol.rec \leq reader.total + n
    BY TypedParts, DivAdds
  <2>2. reader.num + n \div vol.rec \in Nat /\ reader.total + n \leq vol.valid
    <3> DEFINE k == n \div vol.rec
    <3>1. k \in Nat
      BY <1>1
    <3> HIDE DEF k
    <3>2. /\ reader.num \in Nat /\ reader.total \in Nat /\ reader.left \in Nat /\ vol.valid \in Nat
          /\ reader.total + reader.left \leq vol.valid
      BY TypedParts
    <3>3. reader.num + k \in Nat /\ reader.total + n \leq vol.valid
      BY <3>1, <3>2
    <3> QED BY <3>3 DEF k
  <2>3. (reader.num + n \div vol.rec) * vol.rec \leq vol.valid
    <3> DEFINE k == reader.num + n \div vol.rec
               q == k * vol.rec
    <3>1. k \in Nat /\ vol.rec \in Nat /\ reader.total \in Nat /\ vol.valid \in Nat
      BY <2>2, TypedParts
    <3> HIDE DEF k
    <3>2. q \in Nat
      BY <3>1, TimesType
    <3>3. q \leq reader.total + n /\ reader.total + n \leq vol.valid
      BY <2>1, <2>2 DEF k
    <3> HIDE DEF q
    <3>4. q \leq vol.valid
      BY <3>1, <3>2, <3>3
    <3> QED BY <3>4 DEF q, k
  <2> QED BY <2>2, <2>3, TypedParts, DivAtLeast
<1>5. reader.num + i \in Nat /\ reader.num + i < vol.valid \div vol.rec
  <2> DEFINE k == n \div vol.rec
             m == vol.valid \div vol.rec
  <2>1. k \in Nat /\ m \in Nat /\ i \in 0..k - 1 /\ reader.num + k \leq m /\ reader.num \in Nat
    BY <1>1, <1>2, <1>4, TypedParts
  <2> HIDE DEF k, m
  <2>2. reader.num + i \in Nat /\ reader.num + i < m
    BY <2>1
  <2> QED BY <2>2 DEF m
<1> QED
  BY <1>1, <1>2, <1>3, <1>5

\* Either the table is given up, or what it lists is added.
LEMMA ParsedIs ==
  ASSUME ScanTyped, phase = "read", NEW n \in Nat, n \leq reader.left, Parsed(n)
  PROVE  \/ Fallback /\ slipped' = FALSE
         \/ /\ UNCHANGED <<vol, cache, paths>>
            /\ \A x \in DOMAIN entries' :
                 \/ x \in DOMAIN entries /\ entries'[x] = entries[x]
                 \/ \E i \in DOMAIN ReadRecords(reader.pos, n) :
                      /\ x = reader.num + i /\ entries'[x] \in ReadRecords(reader.pos, n)[i]
                      /\ ParseRecord(vol.records[entries'[x]]) # NoEntry
            /\ phase' = (IF reader.left - n > 0 THEN "read" ELSE "run")
            /\ reader' = [reader EXCEPT !.pos = @ + n, !.left = reader.left - n, !.total = @ + n,
                            !.num = @ + n \div vol.rec, !.at = IF reader.left - n > 0 THEN @ ELSE @ + 1]
            /\ slipped' = (slipped \/ n % vol.rec # 0)
<1> DEFINE read  == ReadRecords(reader.pos, n)
           Kept(i) == {r \in read[i] : ParseRecord(vol.records[r]) # NoEntry}
           found == {i \in DOMAIN read : Kept(i) # {}}
           new   == [x \in {reader.num + i : i \in found} |-> CHOOSE r \in Kept(x - reader.num) : TRUE]
           bad   == \E i \in DOMAIN read : \E r \in read[i] :
                      Readable(vol.records[r]) /\ Raises(vol.records[r])
<1>1. CASE bad
  BY <1>1 DEF Parsed
<1>2. CASE ~bad
  <2>1. /\ entries' = [x \in DOMAIN entries \cup DOMAIN new |->
                         IF x \in DOMAIN new THEN new[x] ELSE entries[x]]
        /\ UNCHANGED <<vol, cache, paths>>
        /\ phase' = (IF reader.left - n > 0 THEN "read" ELSE "run")
        /\ reader' = [reader EXCEPT !.pos = @ + n, !.left = reader.left - n, !.total = @ + n,
                        !.num = @ + n \div vol.rec, !.at = IF reader.left - n > 0 THEN @ ELSE @ + 1]
        /\ slipped' = (slipped \/ n % vol.rec # 0)
    BY <1>2 DEF Parsed
  <2>2. ASSUME NEW y \in DOMAIN new
        PROVE \E i \in DOMAIN read :
                /\ y = reader.num + i /\ new[y] \in read[i]
                /\ ParseRecord(vol.records[new[y]]) # NoEntry
    <3>1. PICK i \in found : y = reader.num + i
      OBVIOUS
    <3>2. n \div vol.rec \in Nat /\ i \in 0..(n \div vol.rec) - 1 /\ reader.num \in Nat
      BY TypedParts, DivType DEF ReadRecords
    <3>3. y - reader.num = i
      BY <3>1, <3>2
    <3>4. Kept(i) # {} /\ i \in DOMAIN read
      OBVIOUS
    <3>5. new[y] \in Kept(y - reader.num)
      <4>1. new[y] = CHOOSE r \in Kept(y - reader.num) : TRUE
        OBVIOUS
      <4>2. Kept(y - reader.num) # {}
        BY <3>3, <3>4
      <4> HIDE DEF new, Kept
      <4> QED BY <4>1, <4>2
    <3>6. new[y] \in Kept(i)
      <4> HIDE DEF new
      <4> QED BY <3>3, <3>5
    <3> HIDE DEF new
    <3> QED BY <3>1, <3>4, <3>6
  <2>3. ASSUME NEW x \in DOMAIN entries'
        PROVE \/ x \in DOMAIN entries /\ entries'[x] = entries[x]
              \/ \E i \in DOMAIN read :
                   /\ x = reader.num + i /\ entries'[x] \in read[i]
                   /\ ParseRecord(vol.records[entries'[x]]) # NoEntry
    <3> HIDE DEF new, read
    <3> QED BY <2>1, <2>2
  <2> QED BY <2>1, <2>3
<1> QED
  BY <1>1, <1>2

LEMMA ParsedTyped ==
  ASSUME ScanTyped, phase = "read", NEW n \in Nat, n \leq reader.left, Parsed(n), Fault \/ NoFault
  PROVE  ScanTyped'
<1>1. CASE Fallback /\ slipped' = FALSE
  BY <1>1, FallbackTyped
<1>2. CASE ~(Fallback /\ slipped' = FALSE)
  <2>1. /\ UNCHANGED <<vol, cache, paths>>
        /\ \A x \in DOMAIN entries' :
             \/ x \in DOMAIN entries /\ entries'[x] = entries[x]
             \/ \E i \in DOMAIN ReadRecords(reader.pos, n) :
                  /\ x = reader.num + i /\ entries'[x] \in ReadRecords(reader.pos, n)[i]
                  /\ ParseRecord(vol.records[entries'[x]]) # NoEntry
        /\ phase' = (IF reader.left - n > 0 THEN "read" ELSE "run")
        /\ reader' = [reader EXCEPT !.pos = @ + n, !.left = reader.left - n, !.total = @ + n,
                        !.num = @ + n \div vol.rec, !.at = IF reader.left - n > 0 THEN @ ELSE @ + 1]
        /\ slipped' = (slipped \/ n % vol.rec # 0)
    BY <1>2, ParsedIs
  <2>2. Fits(reader') /\ (phase' = "read" => reader'.at \leq Len(reader'.runs))
        /\ (phase' # "read" => reader'.left = 0)
    <3> DEFINE k == n \div vol.rec
    <3>1. (reader.num + k) * vol.rec \leq reader.total + n
      BY TypedParts, DivAdds
    <3>9. k \in Nat
      BY TypedParts, DivType
    <3> HIDE DEF k
    <3>2. /\ reader.at \in Nat \ {0} /\ reader.pos \in Int /\ reader.left \in Nat /\ reader.num \in Nat
          /\ reader.total \in Nat /\ vol.valid \in Nat /\ reader.total + reader.left \leq vol.valid
          /\ reader.at \leq Len(reader.runs) /\ Len(reader.runs) \in Nat /\ reader \in ReaderType
      BY TypedParts DEF ScanTyped, Fits
    <3>3. reader' = [reader EXCEPT !.pos = @ + n, !.left = reader.left - n, !.total = @ + n,
                        !.num = @ + k, !.at = IF reader.left - n > 0 THEN @ ELSE @ + 1]
      BY <2>1 DEF k
    <3> DEFINE a == IF reader.left - n > 0 THEN reader.at ELSE reader.at + 1
               p == reader.pos + n
               l == reader.left - n
               t == reader.total + n
               m == reader.num + k
    <3>10. p \in Int /\ l \in Nat /\ t \in Nat /\ m \in Nat /\ a \in Nat
      <4>3. reader.pos \in Int /\ reader.at \in Nat /\ reader.left \in Nat /\ reader.num \in Nat
            /\ reader.total \in Nat /\ n \in Nat /\ n \leq reader.left
        BY <3>2
      <4>1. p \in Int /\ t \in Nat /\ a \in Nat /\ l \in Nat
        BY <4>3
      <4>2. m \in Nat
        BY <3>9, <4>3
      <4> QED BY <4>1, <4>2
    <3>11. reader' = [reader EXCEPT !.pos = p, !.left = l, !.total = t, !.num = m, !.at = a]
      BY <3>3
    <3> HIDE DEF a, p, l, t, m
    <3>4. reader' \in ReaderType
      <4>1. reader \in ReaderType
        BY <3>2
      <4> QED BY <4>1, <3>10, <3>11 DEF ReaderType
    <3>12. reader'.runs = reader.runs /\ reader'.total = t /\ reader'.left = l /\ reader'.num = m
           /\ reader'.at = a
      <4>1. reader \in ReaderType
        BY <3>2
      <4> QED BY <4>1, <3>11 DEF ReaderType
    <3>5. /\ reader'.runs = reader.runs /\ reader'.total = reader.total + n
          /\ reader'.left = reader.left - n /\ reader'.num = reader.num + k
          /\ reader'.at = (IF reader.left - n > 0 THEN reader.at ELSE reader.at + 1)
      BY <3>12 DEF a, l, t, m
    <3>6. reader'.at \in 1..Len(reader'.runs) + 1 /\ reader'.total + reader'.left \leq vol.valid
      <4> DEFINE c == reader.at
                 r == Len(reader.runs)
                 u == reader.total
                 v == reader.left
      <4>3. c \in Nat \ {0} /\ r \in Nat /\ c \leq r /\ u \in Nat /\ v \in Nat /\ n \in Nat
        BY <3>2
      <4>4. /\ Len(reader'.runs) = r /\ reader'.at \in {c, c + 1}
            /\ reader'.total = u + n /\ reader'.left = v - n
        BY <3>5
      <4> HIDE DEF c, r, u, v
      <4>1. reader'.at \in 1..Len(reader'.runs) + 1
        BY <4>3, <4>4
      <4>5. reader'.total + reader'.left = u + v
        BY <4>3, <4>4
      <4>2. reader'.total + reader'.left = reader.total + reader.left
        BY <4>5 DEF u, v
      <4> QED BY <3>2, <4>1, <4>2
    <3>7. /\ phase' = "read" => reader'.at \leq Len(reader'.runs)
          /\ phase' # "read" => reader'.left = 0
      BY <2>1, <3>2, <3>5
    <3>8. reader'.num * vol.rec \leq reader'.total
      BY <3>1, <3>5
    <3> QED BY <3>4, <3>6, <3>7, <3>8 DEF Fits
  <2>3. ASSUME NEW x \in DOMAIN entries'
        PROVE  /\ x \in 0..vol.valid \div vol.rec
               /\ entries'[x] \in Number /\ Named(vol.records[entries'[x]])
    <3>1. CASE x \in DOMAIN entries /\ entries'[x] = entries[x]
      BY <3>1 DEF ScanTyped
    <3>2. ASSUME NEW i \in DOMAIN ReadRecords(reader.pos, n),
                 x = reader.num + i, entries'[x] \in ReadRecords(reader.pos, n)[i],
                 ParseRecord(vol.records[entries'[x]]) # NoEntry
          PROVE  /\ x \in 0..vol.valid \div vol.rec
                 /\ entries'[x] \in Number /\ Named(vol.records[entries'[x]])
      <4> DEFINE m == vol.valid \div vol.rec
      <4>1. reader.num + i \in Nat /\ reader.num + i < m
            /\ entries'[x] \in Number /\ Named(vol.records[entries'[x]])
        BY <3>2, ReadIs
      <4>2. m \in Nat
        BY TypedParts
      <4> HIDE DEF m
      <4>3. x \in 0..m
        BY <3>2, <4>1, <4>2
      <4> QED BY <4>1, <4>3 DEF m
    <3> QED BY <2>1, <3>1, <3>2
  <2>4. slipped' \in BOOLEAN /\ phase' \in {"read", "run"}
    BY <2>1 DEF ScanTyped
  <2>5. vol' = vol /\ cache' = cache /\ paths' = paths /\ cache = Nothing /\ paths = Nothing
    BY <2>1 DEF ScanTyped
  <2>6. CacheType' /\ DOMAIN paths' = {}
    BY <2>5, NothingIs DEF CacheType
  <2>7. Fits(reader)' /\ Number' = Number
    BY <2>2, <2>5 DEF Fits, Number
  <2> QED BY <2>2, <2>3, <2>4, <2>5, <2>6, <2>7, FaultType DEF ScanTyped
<1> QED
  BY <1>1, <1>2

LEMMA WantedType ==
  ASSUME ScanTyped PROVE Wanted \in Nat /\ Wanted \leq reader.left
<1>1. reader.left \in Nat /\ ChunkBytes \in Nat
  BY TypedParts, ScanBounds
<1> QED
  BY <1>1, SmallerType DEF Wanted

-----------------------------------------------------------------------------
(* Every step keeps the types *)

LEMMA ReadHeadTyped == ASSUME ScanTyped, ReadHead PROVE ScanTyped'
<1> DEFINE runs == IF vol.bytes = Unreadable THEN <<>> ELSE DataRuns(vol.bytes)
<1>1. runs \in Seq(PlaceOfRun)
  <2>1. CASE vol.bytes = Unreadable
    BY <2>1
  <2>2. CASE vol.bytes # Unreadable
    <3>1. vol.bytes \in Seq(Byte)
      BY <2>2, VolumeIs DEF ScanTyped
    <3> QED BY <2>2, <3>1, DataRunsType
  <2> QED BY <2>1, <2>2
<1>2. phase = "head" /\ NoFault
  BY DEF ReadHead
<1>3. \/ Fallback /\ slipped' = FALSE
      \/ /\ phase' = "run" /\ reader' = [NoReader EXCEPT !.runs = runs]
         /\ UNCHANGED <<vol, entries, cache, paths, slipped>>
  BY DEF ReadHead
<1> HIDE DEF runs
<1>4. CASE Fallback /\ slipped' = FALSE
  BY <1>2, <1>4, FallbackTyped
<1>5. CASE /\ phase' = "run" /\ reader' = [NoReader EXCEPT !.runs = runs]
           /\ UNCHANGED <<vol, entries, cache, paths, slipped>>
  <2>1. vol \in Volumes /\ slipped \in BOOLEAN
    BY DEF ScanTyped
  <2>2. Fits(reader')
    BY <1>1, <1>5, <2>1, NoReaderFits
  <2>3. reader'.left = 0
    BY <1>5 DEF NoReader
  <2> QED BY <1>2, <1>5, <2>1, <2>2, <2>3, ReaderTyped
<1> QED
  BY <1>3, <1>4, <1>5

LEMMA HeadFailsTyped == ASSUME ScanTyped, HeadFails PROVE ScanTyped'
BY FallbackTyped DEF HeadFails, ScanTyped

LEMMA SeekTyped == ASSUME ScanTyped, Seek PROVE ScanTyped'
<1>1. /\ phase' = "read" /\ phase = "run" /\ RunsLeft
      /\ reader' = [reader EXCEPT !.left = RunBytes, !.pos = Run.lcn * vol.bpc]
      /\ UNCHANGED <<vol, entries, cache, paths, faults, slipped>>
  BY DEF Seek
<1> DEFINE p == Run.lcn * vol.bpc
<1>2. p \in Int
  <2>1. Run.lcn \in Int
    BY <1>1, RunBytesType
  <2>2. vol.bpc \in Nat
    BY TypedParts
  <2> QED BY <2>1, <2>2
<1>3. RunBytes \in Nat /\ reader.at \leq Len(reader.runs) /\ reader.total + RunBytes \leq vol.valid
  BY <1>1, RunBytesType
<1>4. reader \in ReaderType /\ Fits(reader) /\ slipped \in BOOLEAN
  BY DEF ScanTyped, Fits
<1> HIDE DEF p
<1>5. reader' \in ReaderType /\ reader' = [reader EXCEPT !.left = RunBytes, !.pos = p]
  BY <1>1, <1>2, <1>3, <1>4 DEF ReaderType, p
<1>6. /\ reader'.at = reader.at /\ reader'.runs = reader.runs /\ reader'.num = reader.num
      /\ reader'.total = reader.total /\ reader'.left = RunBytes
  BY <1>4, <1>5 DEF ReaderType
<1>7. Fits(reader')
  BY <1>3, <1>4, <1>5, <1>6 DEF Fits
<1> QED
  BY <1>1, <1>3, <1>4, <1>6, <1>7, ReaderTyped DEF NoFault

LEMMA SeekFailsTyped == ASSUME ScanTyped, SeekFails PROVE ScanTyped'
<1>1. /\ phase = "run" /\ phase' = "run" /\ RunsLeft /\ Fault
      /\ reader' = [reader EXCEPT !.at = @ + 1, !.total = @ + RunBytes,
                                  !.num = @ + RunBytes \div vol.rec]
      /\ UNCHANGED <<vol, entries, cache, paths>> /\ slipped' = (slipped \/ RunBytes % vol.rec # 0)
  BY DEF SeekFails, PassedOver
<1>2. RunBytes \in Nat /\ reader.at \leq Len(reader.runs) /\ reader.total + RunBytes \leq vol.valid
  BY <1>1, RunBytesType
<1> DEFINE a == reader.at + 1
           t == reader.total + RunBytes
           k == RunBytes \div vol.rec
           m == reader.num + k
<1>3. m * vol.rec \leq t
  BY <1>2, TypedParts, DivAdds
<1>4. k \in Nat
  BY <1>2, TypedParts, DivType
<1> HIDE DEF k
<1>5. /\ reader.at \in Nat \ {0} /\ reader.num \in Nat /\ reader.total \in Nat /\ reader.left = 0
      /\ Len(reader.runs) \in Nat /\ reader \in ReaderType /\ slipped \in BOOLEAN /\ vol.valid \in Nat
  BY <1>1, TypedParts DEF ScanTyped, Fits
<1>6. a \in 1..Len(reader.runs) + 1 /\ a \in Nat /\ t \in Nat /\ m \in Nat /\ t + 0 \leq vol.valid
  <2>1. a \in 1..Len(reader.runs) + 1 /\ a \in Nat
    BY <1>2, <1>5
  <2>2. t \in Nat /\ t + 0 \leq vol.valid
    BY <1>2, <1>5
  <2>3. m \in Nat
    BY <1>4, <1>5
  <2> QED BY <2>1, <2>2, <2>3
<1>7. reader' = [reader EXCEPT !.at = a, !.total = t, !.num = m]
  BY <1>1 DEF k
<1> HIDE DEF a, t, m
<1>8. reader' \in ReaderType
  BY <1>5, <1>6, <1>7 DEF ReaderType
<1>9. /\ reader'.at = a /\ reader'.runs = reader.runs /\ reader'.num = m /\ reader'.total = t
      /\ reader'.left = 0
  BY <1>5, <1>7 DEF ReaderType
<1>10. Fits(reader')
  BY <1>3, <1>6, <1>8, <1>9 DEF Fits
<1> QED
  BY <1>1, <1>5, <1>9, <1>10, ReaderTyped

LEMMA RunsDoneTyped == ASSUME ScanTyped, RunsDone PROVE ScanTyped'
<1>1. /\ phase = "run" /\ phase' = "resolve" /\ reader' = NoReader
      /\ UNCHANGED <<vol, entries, cache, paths, faults, slipped>>
  BY DEF RunsDone
<1>2. vol \in Volumes /\ <<>> \in Seq(PlaceOfRun) /\ slipped \in BOOLEAN
  BY DEF ScanTyped
<1>3. Fits(reader') /\ reader'.left = 0
  BY <1>1, <1>2, NoReaderFits DEF NoReader
<1> QED
  BY <1>1, <1>2, <1>3, ReaderTyped DEF NoFault

LEMMA ReadTyped == ASSUME ScanTyped, Read PROVE ScanTyped'
BY WantedType, ParsedTyped DEF Read

LEMMA ReadShortTyped == ASSUME ScanTyped, ReadShort PROVE ScanTyped'
<1>1. PICK n \in 1..Wanted-1 : Parsed(n)
  BY DEF ReadShort
<1>2. n \in Nat /\ n \leq reader.left
  BY WantedType, TypedParts
<1> QED
  BY <1>1, <1>2, ParsedTyped DEF ReadShort

LEMMA ReadFailsTyped == ASSUME ScanTyped, ReadFails PROVE ScanTyped'
<1>1. /\ phase = "read" /\ phase' = "run" /\ reader' = [reader EXCEPT !.at = @ + 1, !.left = 0]
      /\ UNCHANGED <<vol, entries, cache, paths>> /\ slipped' = TRUE /\ Fault
  BY DEF ReadFails
<1> DEFINE a == reader.at + 1
<1>2. /\ reader.total \in Nat /\ reader.left \in Nat /\ vol.valid \in Nat
      /\ reader.total + reader.left \leq vol.valid /\ reader \in ReaderType
      /\ reader.num * vol.rec \leq reader.total
  BY TypedParts DEF ScanTyped, Fits
<1>3. a \in 1..Len(reader.runs) + 1 /\ a \in Nat
  <2>1. reader.at \in Nat \ {0} /\ reader.at \leq Len(reader.runs) /\ Len(reader.runs) \in Nat
    BY <1>1, TypedParts DEF ScanTyped
  <2> QED BY <2>1
<1>4. reader.total + 0 \leq vol.valid
  BY <1>2
<1>5. reader' = [reader EXCEPT !.at = a, !.left = 0]
  BY <1>1
<1> HIDE DEF a
<1>6. reader' \in ReaderType
  BY <1>2, <1>3, <1>5 DEF ReaderType
<1>7. /\ reader'.at = a /\ reader'.left = 0 /\ reader'.runs = reader.runs
      /\ reader'.num = reader.num /\ reader'.total = reader.total
  BY <1>2, <1>5 DEF ReaderType
<1>8. Fits(reader')
  BY <1>2, <1>3, <1>4, <1>6, <1>7 DEF Fits
<1> QED
  BY <1>1, <1>7, <1>8, ReaderTyped

\* The journal interface asks for the record after the last one it has given.
LEMMA BatchIs ==
  ASSUME ScanTyped, Offered # {}
  PROVE  /\ Batch \subseteq Offered /\ Offered \subseteq 0..vol.valid \div vol.rec
         /\ NextRef \in Nat /\ NextRef > reader.next
<1> DEFINE m == vol.valid \div vol.rec
<1>1. m \in Nat /\ reader.next \in Nat /\ DOMAIN vol.records \subseteq Nat
  BY TypedParts, VolumeIs DEF ScanTyped
<1>2. \A n \in Offered : n \in DOMAIN vol.records /\ n < m /\ n \geq reader.next
  BY DEF Offered
<1> HIDE DEF m
<1>3. Offered \subseteq 0..m /\ Offered \subseteq Nat
  BY <1>1, <1>2
<1>4. PICK x \in Offered : \A y \in Offered : x \leq y
  BY <1>3, Least
<1>5. {k \in Offered : k < x} = {}
  <2>1. \A k \in Offered : k \in Nat /\ x \in Nat /\ x \leq k
    BY <1>3, <1>4
  <2>2. \A k \in Offered : ~(k < x)
    BY <2>1
  <2> QED BY <2>2
<1>6. x \in Batch
  <2>1. Cardinality({k \in Offered : k < x}) = 0
    BY <1>5, FS_EmptySet
  <2>2. 0 < BatchSize
    BY ScanBounds
  <2>3. Cardinality({k \in Offered : k < x}) < BatchSize
    BY <2>1, <2>2
  <2> QED BY <2>3 DEF Batch
<1>7. Batch \subseteq Offered
  BY DEF Batch
<1>8. \E y \in Batch : \A k \in Batch : k \leq y
  <2>1. Batch \subseteq 0..m /\ Batch # {}
    BY <1>3, <1>6, <1>7
  <2> QED BY <1>1, <2>1, Greatest
<1> DEFINE last == CHOOSE y \in Batch : \A k \in Batch : k \leq y
<1>9. last \in Batch
  BY <1>8
<1>10. NextRef = 1 + last
  BY DEF NextRef
<1> HIDE DEF last
<1>11. last \in Nat /\ last \geq reader.next
  BY <1>2, <1>3, <1>7, <1>9
<1>12. NextRef \in Nat /\ NextRef > reader.next
  BY <1>1, <1>10, <1>11
<1> QED
  BY <1>3, <1>7, <1>12 DEF m

LEMMA UsnBatchTyped == ASSUME ScanTyped, UsnBatch PROVE ScanTyped'
<1>1. /\ phase = "usn" /\ Offered # {} /\ reader' = [reader EXCEPT !.next = NextRef]
      /\ entries' = [n \in DOMAIN entries \cup {x \in Batch : Named(vol.records[x])} |-> n]
      /\ UNCHANGED <<vol, phase, cache, paths, faults, slipped>>
  BY DEF UsnBatch
<1>2. Batch \subseteq Offered /\ Offered \subseteq 0..vol.valid \div vol.rec /\ NextRef \in Nat
  BY <1>1, BatchIs
<1>3. reader \in ReaderType /\ Fits(reader) /\ reader.left = 0
  BY <1>1 DEF ScanTyped, Fits
<1>4. reader' \in ReaderType
  BY <1>1, <1>2, <1>3 DEF ReaderType
<1>5. /\ reader'.at = reader.at /\ reader'.left = 0 /\ reader'.runs = reader.runs
      /\ reader'.num = reader.num /\ reader'.total = reader.total
  BY <1>1, <1>3 DEF ReaderType
<1>6. vol' = vol
  BY <1>1
<1>7. Fits(reader)' /\ reader'.left = 0
  BY <1>3, <1>4, <1>5, <1>6 DEF Fits
<1>8. ASSUME NEW n \in DOMAIN entries'
      PROVE  /\ n \in 0..vol.valid \div vol.rec /\ entries'[n] = n
             /\ n \in Number /\ Named(vol.records[n])
  <2>1. CASE n \in DOMAIN entries
    <3>1. entries[n] = n
      BY <1>1, <2>1 DEF ScanTyped
    <3>2. n \in 0..vol.valid \div vol.rec /\ entries[n] \in Number /\ Named(vol.records[entries[n]])
      BY <2>1 DEF ScanTyped
    <3> QED BY <1>1, <3>1, <3>2
  <2>2. CASE n \notin DOMAIN entries
    BY <1>1, <1>2, <2>2 DEF Offered, Number
  <2> QED BY <2>1, <2>2
<1>9. cache' = Nothing /\ paths' = Nothing /\ slipped' \in BOOLEAN /\ phase' = "usn"
  BY <1>1 DEF ScanTyped
<1>10. CacheType' /\ DOMAIN paths' = {}
  BY <1>9, NothingIs DEF CacheType
<1>11. faults' \in 0..MaxFaults
  BY <1>1, FaultType DEF NoFault
<1>12. vol' \in Volumes
  BY <1>6 DEF ScanTyped
<1>13. Number' = Number
  BY <1>6 DEF Number
<1> QED
  BY <1>6, <1>7, <1>8, <1>9, <1>10, <1>11, <1>12, <1>13 DEF ScanTyped

LEMMA UsnEndsTyped == ASSUME ScanTyped, UsnEnds PROVE ScanTyped'
<1>1. /\ phase = "usn" /\ phase' = "resolve" /\ reader' = NoReader
      /\ UNCHANGED <<vol, entries, cache, paths, slipped>>
      /\ Fault \/ NoFault
  BY DEF UsnEnds
<1>2. vol \in Volumes /\ <<>> \in Seq(PlaceOfRun) /\ slipped \in BOOLEAN
  BY DEF ScanTyped
<1>3. Fits(reader') /\ reader'.left = 0
  BY <1>1, <1>2, NoReaderFits DEF NoReader
<1> QED
  BY <1>1, <1>2, <1>3, ReaderTyped

\* The entry that is looked at next.
LEMMA FirstUnresolved ==
  ASSUME ScanTyped, Resolve
  PROVE  \E n \in DOMAIN entries : /\ n \in Nat /\ n \geq reader.next /\ GetPath(n)
                                   /\ reader' = [reader EXCEPT !.next = n + 1]
                                   /\ \A k \in DOMAIN entries : k < n => k < reader.next
<1> DEFINE n == CHOOSE n \in Unresolved : \A k \in Unresolved : n \leq k
<1>1. Unresolved # {} /\ GetPath(n) /\ reader' = [reader EXCEPT !.next = n + 1]
  BY DEF Resolve
<1>2. Unresolved \subseteq DOMAIN entries /\ \A x \in Unresolved : x \geq reader.next
  BY DEF Unresolved
<1>3. DOMAIN entries \subseteq Nat
  BY ListingOf DEF Listing
<1>4. \E x \in Unresolved : \A k \in Unresolved : x \leq k
  BY <1>1, <1>2, <1>3, Least
<1>5. n \in Unresolved /\ \A k \in Unresolved : n \leq k
  BY <1>4
<1> HIDE DEF n
<1>6. ASSUME NEW k \in DOMAIN entries, k < n PROVE k < reader.next
  <2>1. k \in Nat /\ n \in Nat /\ reader.next \in Nat /\ k \notin Unresolved
    BY <1>2, <1>3, <1>5, <1>6, TypedParts
  <2> QED BY <2>1 DEF Unresolved
<1> QED
  BY <1>1, <1>2, <1>3, <1>5, <1>6

LEMMA ResolveTyped == ASSUME ScanTyped, Resolve PROVE ScanTyped'
<1>1. PICK n \in DOMAIN entries : /\ n \in Nat /\ n \geq reader.next /\ GetPath(n)
                                  /\ reader' = [reader EXCEPT !.next = n + 1]
  BY FirstUnresolved
<1>2. phase = "resolve" /\ UNCHANGED <<vol, phase, entries, faults, slipped>>
  BY DEF Resolve
<1>3. Listing /\ CacheType /\ DOMAIN paths \subseteq DOMAIN entries
      /\ \A x \in DOMAIN paths : paths[x] # <<>>
  BY ListingOf DEF ScanTyped
<1>4. /\ DOMAIN cache' \subseteq Nat /\ \A x \in DOMAIN cache' : cache'[x] \in PathOrNone
      /\ DOMAIN paths' \subseteq DOMAIN entries /\ \A x \in DOMAIN paths' : paths'[x] # <<>>
  BY <1>1, <1>3, GetPathType
<1>5. vol' = vol /\ Number' = Number /\ PathOrNone' = PathOrNone
  BY <1>2 DEF Number, PathOrNone, NamesListed
<1>6. CacheType'
  BY <1>4, <1>5 DEF CacheType
<1>7. reader \in ReaderType /\ Fits(reader) /\ reader.left = 0 /\ n + 1 \in Nat
  BY <1>1, <1>2 DEF ScanTyped, Fits
<1>8. reader' \in ReaderType
  BY <1>1, <1>7 DEF ReaderType
<1>9. /\ reader'.at = reader.at /\ reader'.left = 0 /\ reader'.runs = reader.runs
      /\ reader'.num = reader.num /\ reader'.total = reader.total
  BY <1>1, <1>7 DEF ReaderType
<1>10. Fits(reader)' /\ reader'.left = 0
  BY <1>5, <1>7, <1>8, <1>9 DEF Fits
<1> QED
  BY <1>2, <1>4, <1>5, <1>6, <1>10, FaultType DEF ScanTyped, NoFault

LEMMA DoneTyped == ASSUME ScanTyped, Done PROVE ScanTyped'
<1>1. /\ phase = "resolve" /\ phase' = "done"
      /\ UNCHANGED <<vol, reader, entries, cache, paths, faults, slipped>>
  BY DEF Done
<1>2. Fits(reader') /\ reader'.left = 0 /\ slipped \in BOOLEAN
  BY <1>1 DEF ScanTyped
<1> QED
  BY <1>1, <1>2, ReaderTyped DEF NoFault

LEMMA SameTyped == ASSUME ScanTyped, UNCHANGED vars PROVE ScanTyped'
BY DEF vars, ScanTyped, Fits, CacheType, PathOrNone, NamesListed, Number

LEMMA NextTyped == ASSUME ScanTyped, [Next]_vars PROVE ScanTyped'
BY ReadHeadTyped, HeadFailsTyped, SeekTyped, SeekFailsTyped, RunsDoneTyped, ReadTyped,
   ReadShortTyped, ReadFailsTyped, UsnBatchTyped, UsnEndsTyped, ResolveTyped, DoneTyped,
   SameTyped DEF Next, Ended

LEMMA AlwaysTyped == Spec => []ScanTyped
BY InitTyped, NextTyped, PTL DEF Spec

\* Whatever the table of a volume holds, the reader stays within the valid part of
\* it, the numbers it gives stay within the records there, every listed entry has
\* a record behind it, and no entry is given an empty path.
THEOREM ScanTypeCorrect == Spec => []ScanTypeOK
BY AlwaysTyped, ScanTypedOK, PTL

-----------------------------------------------------------------------------
(* Every step brings the scan nearer to its end *)

LEMMA Stages ==
  /\ phase = "head" => Stage = 0
  /\ phase \in {"run", "read"} => Stage = 1
  /\ phase = "usn" => Stage = 2
  /\ phase = "resolve" => Stage = 3
  /\ phase = "done" => Stage = 4
BY DEF Stage

LEMMA StagesNext ==
  /\ phase' \in {"run", "read"} => Stage' = 1
  /\ phase' = "usn" => Stage' = 2
  /\ phase' = "resolve" => Stage' = 3
  /\ phase' = "done" => Stage' = 4
BY DEF Stage

LEMMA FallbackNears ==
  ASSUME phase \in {"head", "run", "read"}, Fallback PROVE Nearer
<1>1. phase' = "usn"
  BY DEF Fallback
<1> QED
  BY <1>1, Stages, StagesNext DEF Nearer

\* A read either comes to the end of its run or leaves less of it: it asks for at
\* least one byte as long as one is left.
LEMMA ParsedNears ==
  ASSUME ScanTyped, phase = "read", NEW n \in Nat, n \leq reader.left, Parsed(n),
         n = 0 => reader.left = 0
  PROVE  Nearer
<1>1. CASE Fallback
  BY <1>1, FallbackNears
<1>2. CASE ~Fallback
  <2>1. /\ phase' = (IF reader.left - n > 0 THEN "read" ELSE "run")
        /\ reader' = [reader EXCEPT !.pos = @ + n, !.left = reader.left - n, !.total = @ + n,
                        !.num = @ + n \div vol.rec, !.at = IF reader.left - n > 0 THEN @ ELSE @ + 1]
    BY <1>2, ParsedIs
  <2>2. reader \in ReaderType /\ reader.at \in Nat /\ reader.left \in Nat
    BY TypedParts DEF ScanTyped, Fits
  <2>3. /\ reader'.left = reader.left - n
        /\ reader'.at = (IF reader.left - n > 0 THEN reader.at ELSE reader.at + 1)
    BY <2>1, <2>2 DEF ReaderType
  <2>4. Stage = 1 /\ Stage' = 1
    BY <2>1, Stages, StagesNext
  <2>5. CASE reader.left - n > 0
    <3>1. phase' = "read" /\ reader'.at = reader.at /\ reader'.left = reader.left - n
      BY <2>1, <2>3, <2>5
    <3>2. reader.left - n < reader.left
      BY <2>2, <2>5
    <3> QED BY <3>1, <3>2 DEF Nearer
  <2>6. CASE ~(reader.left - n > 0)
    <3>1. reader'.at > reader.at
      BY <2>2, <2>3, <2>6
    <3> QED BY <2>4, <3>1 DEF Nearer
  <2> QED BY <2>5, <2>6
<1> QED
  BY <1>1, <1>2

LEMMA NextNears == ASSUME ScanTyped, Next PROVE Nearer \/ UNCHANGED vars
<1>1. /\ reader \in ReaderType /\ reader.at \in Nat /\ reader.next \in Nat /\ reader.left \in Nat
      /\ ChunkBytes \in Nat \ {0}
  BY TypedParts, ScanBounds DEF ScanTyped, Fits
<1>2. CASE ReadHead
  BY <1>2, FallbackNears, Stages, StagesNext DEF ReadHead, Nearer
<1>3. CASE HeadFails
  BY <1>3, FallbackNears DEF HeadFails
<1>4. CASE Seek
  <2>1. reader'.at = reader.at /\ phase = "run" /\ phase' = "read"
    BY <1>1, <1>4 DEF Seek, ReaderType
  <2> QED BY <2>1 DEF Nearer
<1>5. CASE SeekFails
  <2>1. reader'.at = reader.at + 1 /\ phase = "run" /\ phase' = "run"
    BY <1>1, <1>5 DEF SeekFails, ReaderType
  <2> QED BY <1>1, <2>1, Stages, StagesNext DEF Nearer
<1>6. CASE RunsDone
  BY <1>6, Stages, StagesNext DEF RunsDone, Nearer
<1>7. CASE Read
  <2>1. Wanted = 0 => reader.left = 0
    BY <1>1 DEF Wanted, Smaller
  <2> QED BY <1>7, <2>1, WantedType, ParsedNears DEF Read
<1>8. CASE ReadShort
  <2>1. PICK n \in 1..Wanted-1 : Parsed(n)
    BY <1>8 DEF ReadShort
  <2>2. n \in Nat /\ n \leq reader.left /\ n # 0
    BY <1>1, WantedType
  <2> QED BY <1>8, <2>1, <2>2, ParsedNears DEF ReadShort
<1>9. CASE ReadFails
  <2>1. reader'.at = reader.at + 1 /\ phase = "read" /\ phase' = "run"
    BY <1>1, <1>9 DEF ReadFails, ReaderType
  <2> QED BY <1>1, <2>1, Stages, StagesNext DEF Nearer
<1>10. CASE UsnBatch
  <2>1. reader'.at = reader.at /\ reader'.next = NextRef /\ phase = "usn" /\ phase' = "usn"
    BY <1>1, <1>10 DEF UsnBatch, ReaderType
  <2>2. NextRef > reader.next
    BY <1>10, BatchIs DEF UsnBatch
  <2> QED BY <2>1, <2>2, Stages, StagesNext DEF Nearer
<1>11. CASE UsnEnds
  BY <1>11, Stages, StagesNext DEF UsnEnds, Nearer
<1>12. CASE Resolve
  <2>1. PICK n \in DOMAIN entries : /\ n \in Nat /\ n \geq reader.next
                                    /\ reader' = [reader EXCEPT !.next = n + 1]
    BY <1>12, FirstUnresolved
  <2>2. reader'.at = reader.at /\ reader'.next = n + 1
    BY <1>1, <2>1 DEF ReaderType
  <2>3. reader'.next > reader.next
    BY <1>1, <2>1, <2>2
  <2>4. phase = "resolve" /\ phase' = "resolve"
    BY <1>12 DEF Resolve
  <2> QED BY <2>2, <2>3, <2>4, Stages, StagesNext DEF Nearer
<1>13. CASE Done
  BY <1>13, Stages, StagesNext DEF Done, Nearer
<1>14. CASE Ended
  BY <1>14 DEF Ended
<1> QED
  BY <1>2, <1>3, <1>4, <1>5, <1>6, <1>7, <1>8, <1>9, <1>10, <1>11, <1>12, <1>13, <1>14 DEF Next

\* Whatever is on the volume and whichever calls fail: no step of the scan leaves
\* it where it was or takes it back, so it neither reads the same bytes again nor
\* follows a circle of parents for ever.
THEOREM ScanMovesOn == Spec => ScanProgresses
<1>1. ScanTyped /\ [Next]_vars => [Nearer]_vars
  BY NextNears
<1> QED
  BY <1>1, AlwaysTyped, PTL DEF Spec, ScanProgresses

-----------------------------------------------------------------------------
(* What is stored of a layout is read back *)

\* A run list, or as much of it as there is, says where the pieces of the table are.
FrontOf(runs, layout) ==
  /\ Len(runs) \leq Len(layout)
  /\ \A i \in 1..Len(runs) : runs[i].lcn = layout[i].lcn /\ runs[i].len = layout[i].len

Storable(n) == n \in Int /\ \E k \in 1..8 : Ends(n, k)

LEMMA RestsAre ==
  ASSUME NEW n \in Int
  PROVE  /\ Rests(n) \in [0..8 -> Int] /\ Rests(n)[0] = n
         /\ \A i \in 1..8 : Rests(n)[i] = Rests(n)[i-1] \div 256
<1> DEFINE step == [i \in Nat |-> [x \in Int |-> x \div 256]]
           rest[i \in 0..8] == IF i = 0 THEN n ELSE rest[i-1] \div 256
<1>1. step \in [Nat -> [Int -> Int]] /\ \A i \in Nat : \A x \in Int : step[i][x] = x \div 256
  <2>1. \A x \in Int : x \div 256 \in Int
    OBVIOUS
  <2> QED BY <2>1
<1>2. rest = Rests(n)
  BY DEF Rests
<1> HIDE DEF step
<1>3. PICK f : GoesUp(f, Int, n, 8, step)
  BY <1>1, Recursion
<1>4. f \in [0..8 -> Int] /\ f[0] = n /\ \A i \in 1..8 : f[i] = f[i-1] \div 256
  <2>1. f \in [0..8 -> Int] /\ f[0] = n /\ \A i \in 1..8 : f[i] = step[i][f[i-1]]
    BY <1>3 DEF GoesUp
  <2>2. ASSUME NEW i \in 1..8 PROVE f[i] = f[i-1] \div 256
    <3>2. i \in Nat /\ i - 1 \in 0..8
      OBVIOUS
    <3>1. f[i-1] \in Int
      BY <2>1, <3>2, Zenon
    <3>3. step[i][f[i-1]] = f[i-1] \div 256
      BY <1>1, <3>1, <3>2
    <3> QED BY <2>1, <3>3, Zenon
  <2> QED BY <2>1, <2>2, Zenon
<1>5. f = [i \in 0..8 |-> IF i = 0 THEN n ELSE f[i-1] \div 256]
  <2>1. \A i \in 0..8 : i = 0 \/ (i \in 1..8 /\ i # 0)
    OBVIOUS
  <2> QED BY <1>4, <2>1, Zenon
<1>6. rest = [i \in 0..8 |-> IF i = 0 THEN n ELSE rest[i-1] \div 256]
  BY <1>5, ZenonT(30)
<1> HIDE DEF rest
<1>7. Same(f, rest, 8)
  <2>1. FollowsUp(rest, Int, n, 8, step)
    <3>1. rest[0] = n /\ \A i \in 1..8 : rest[i] = rest[i-1] \div 256
      <4>1. 0 \in 0..8 /\ \A i \in 1..8 : i \in 0..8 /\ i # 0
        OBVIOUS
      <4> QED BY <1>6, <4>1, Zenon
    <3>2. \A i \in 1..8 : i \in Nat /\ \A x \in Int : step[i][x] = x \div 256
      BY <1>1
    <3> QED BY <3>1, <3>2 DEF FollowsUp
  <2> QED BY <1>3, <2>1, SameUp
<1>8. rest = f
  BY <1>4, <1>6, <1>7 DEF Same
<1> QED
  BY <1>2, <1>4, <1>8

LEMMA WidthIs ==
  ASSUME NEW n, Storable(n) PROVE Width(n) \in 1..8 /\ Ends(n, Width(n))
<1> DEFINE S == {k \in 1..8 : Ends(n, k)}
<1>1. PICK k \in S : \A j \in S : k \leq j
  <2>1. S \subseteq Nat /\ S # {}
    BY DEF Storable
  <2> HIDE DEF S
  <2> QED BY <2>1, Least
<1>2. k \in 1..8 /\ Ends(n, k) /\ \A j \in 1..k-1 : ~Ends(n, j)
  BY <1>1
<1> HIDE DEF S
<1> QED
  BY <1>2 DEF Width

LEMMA BytesType == ASSUME NEW n, Storable(n) PROVE Bytes(n) \in Seq(Byte) /\ Len(Bytes(n)) = Width(n)
<1>1. Width(n) \in 1..8 /\ n \in Int
  BY WidthIs DEF Storable
<1>2. \A i \in 1..Width(n) : Rests(n)[i-1] % 256 \in Byte
  <2> TAKE i \in 1..Width(n)
  <2>1. Rests(n) \in [0..8 -> Int] /\ i - 1 \in 0..8
    BY <1>1, RestsAre
  <2>2. Rests(n)[i-1] \in Int
    BY <2>1
  <2> QED BY <2>2 DEF Byte
<1>3. Bytes(n) \in [1..Width(n) -> Byte]
  BY <1>2 DEF Bytes
<1> QED
  BY <1>1, <1>3

\* The bytes of n are in b from position at.
Holds(b, at, n) == \A i \in 1..Width(n) : b[at + i - 1] = Bytes(n)[i]

LEMMA DivMod == ASSUME NEW x \in Int PROVE (x % 256) + 256 * (x \div 256) = x
OBVIOUS

LEMMA BytesRead ==
  ASSUME NEW n, Storable(n), NEW b, NEW at \in Nat, Holds(b, at, n),
         NEW above, above = Rests(n)[Width(n)]
  PROVE  LittleEndian(b, at, Width(n), above) = n
<1> DEFINE w == Width(n)
           r == Rests(n)
<1>1. w \in 1..8 /\ n \in Int
  BY WidthIs DEF Storable
<1>2. r \in [0..8 -> Int] /\ r[0] = n /\ \A i \in 1..8 : r[i] = r[i-1] \div 256
  BY <1>1, RestsAre
<1>3. \A i \in 1..w : b[at + i - 1] = r[i-1] % 256
  BY DEF Holds, Bytes
<1> HIDE DEF w, r
<1>4. ASSUME NEW i \in at..at + w - 1 PROVE b[i] \in 0..255
  <2>1. i - at + 1 \in 1..w /\ at + (i - at + 1) - 1 = i /\ i - at + 1 - 1 \in 0..8
    BY <1>1
  <2>2. b[i] = r[i - at + 1 - 1] % 256 /\ r[i - at + 1 - 1] \in Int
    BY <1>2, <1>3, <2>1
  <2> QED BY <2>2
<1>5. above \in Int /\ w \in Nat
  BY <1>1, <1>2 DEF r, w
<1>6. PICK f : Digits(f, b, at, w, above) /\ LittleEndian(b, at, w, above) = f[w]
  BY <1>4, <1>5, LittleEndianIs
<1>7. f \in [0..w -> Int] /\ f[0] = above /\ \A i \in 1..w : f[i] = b[at + w - i] + 256 * f[i-1]
  BY <1>6 DEF Digits
<1> DEFINE S == {i \in Nat : i \leq w => f[i] = r[w-i]}
<1>8. 0 \in S
  BY <1>1, <1>7 DEF r, w
<1>9. ASSUME NEW i \in Nat, i \in S PROVE i + 1 \in S
  <2>1. SUFFICES ASSUME i + 1 \leq w PROVE f[i+1] = r[w-(i+1)]
    OBVIOUS
  <2> DEFINE k == w - (i + 1)
  <2>2. k \in 0..7 /\ k + 1 = w - i /\ k + 1 \in 1..w /\ at + (k + 1) - 1 = at + w - (i+1)
    BY <1>1, <2>1
  <2>3. f[i+1] = b[at + w - (i+1)] + 256 * f[i]
    BY <1>7, <2>1
  <2>4. f[i] = r[k+1]
    <3>1. i \leq w
      BY <1>5, <2>1
    <3>2. f[i] = r[w-i]
      BY <1>9, <3>1
    <3> QED BY <2>2, <3>2
  <2> HIDE DEF k
  <2>5. b[at + w - (i+1)] = r[k] % 256
    <3>1. b[at + (k+1) - 1] = r[k+1-1] % 256 /\ k + 1 - 1 = k
      BY <1>3, <2>2
    <3> QED BY <2>2, <3>1
  <2>6. r[k+1] = r[k] \div 256 /\ r[k] \in Int
    <3>1. k + 1 \in 1..8 /\ k + 1 - 1 = k /\ k \in 0..8
      BY <2>2
    <3> QED BY <1>2, <3>1
  <2>7. f[i+1] = r[k]
    <3>1. f[i+1] = (r[k] % 256) + 256 * (r[k] \div 256)
      BY <2>3, <2>4, <2>5, <2>6
    <3> QED BY <2>6, <3>1, DivMod
  <2> QED BY <2>7 DEF k
<1>10. w \in S
  <2> HIDE DEF S
  <2> QED BY <1>5, <1>8, <1>9, NatSet
<1>11. f[w] = r[0]
  BY <1>1, <1>10
<1> QED
  BY <1>2, <1>6, <1>11 DEF w

LEMMA UnsignedRead ==
  ASSUME NEW n \in Nat, Storable(n), NEW b, NEW at \in Nat, Holds(b, at, n)
  PROVE  Unsigned(b, at, Width(n)) = n
<1> DEFINE r == Rests(n)
           S == {i \in Nat : i \leq 8 => r[i] \in Nat}
<1>1. r \in [0..8 -> Int] /\ r[0] = n /\ \A i \in 1..8 : r[i] = r[i-1] \div 256
  BY RestsAre
<1>2. Width(n) \in 1..8 /\ r[Width(n) - 1] \in -128..127
  BY WidthIs DEF Ends
<1> HIDE DEF r
<1>3. 0 \in S
  BY <1>1
<1>4. ASSUME NEW i \in Nat, i \in S PROVE i + 1 \in S
  <2>1. SUFFICES ASSUME i + 1 \leq 8 PROVE r[i+1] \in Nat
    OBVIOUS
  <2>2. r[i] \in Nat /\ i + 1 \in 1..8 /\ i + 1 - 1 = i
    BY <1>4, <2>1
  <2>3. r[i+1] = r[i] \div 256
    BY <1>1, <2>2
  <2> QED BY <2>2, <2>3
<1>5. \A i \in 0..8 : r[i] \in Nat
  <2>1. Nat \subseteq S
    <3> HIDE DEF S
    <3> QED BY <1>3, <1>4, NatSet
  <2> QED BY <2>1
<1>6. r[Width(n)] = 0
  <2>1. Width(n) - 1 \in 0..8 /\ r[Width(n)] = r[Width(n) - 1] \div 256
    BY <1>1, <1>2
  <2>2. r[Width(n) - 1] \in 0..127
    BY <1>2, <1>5, <2>1
  <2> QED BY <2>1, <2>2
<1> QED
  BY <1>6, BytesRead DEF Unsigned, r

LEMMA SignedRead ==
  ASSUME NEW n, Storable(n), NEW b, NEW at \in Nat, Holds(b, at, n)
  PROVE  Signed(b, at, Width(n)) = n
<1> DEFINE r == Rests(n)
           w == Width(n)
<1>1. r \in [0..8 -> Int] /\ \A i \in 1..8 : r[i] = r[i-1] \div 256
  BY RestsAre DEF Storable
<1>2. w \in 1..8 /\ r[w-1] \in -128..127
  BY WidthIs DEF Ends
<1>3. b[at + w - 1] = r[w-1] % 256
  BY <1>2 DEF Holds, Bytes
<1>4. r[w] = r[w-1] \div 256
  BY <1>1, <1>2
<1> HIDE DEF r, w
<1>5. r[w] = IF b[at + w - 1] \geq 128 THEN -1 ELSE 0
  <2>1. CASE r[w-1] \in 0..127
    BY <1>3, <1>4, <2>1
  <2>2. CASE r[w-1] \in -128..-1
    BY <1>3, <1>4, <2>2
  <2> QED BY <1>2, <2>1, <2>2
<1> QED
  BY <1>5, BytesRead DEF Signed, r, w

-----------------------------------------------------------------------------
(* The stored list of a layout *)

\* A layout without holes, each number of which can be stored.
Place(layout, i) == IF i = 0 THEN 0 ELSE layout[i].lcn
Clear(layout) ==
  /\ DOMAIN layout = 1..Len(layout) /\ Len(layout) \in Nat
  /\ \A i \in 1..Len(layout) :
       /\ layout[i].lcn \in Int /\ layout[i].lcn # Sparse /\ layout[i].len \in Nat
       /\ Storable(layout[i].len) /\ Storable(layout[i].lcn - Place(layout, i-1))

LEMMA PlaceType ==
  ASSUME NEW layout, Clear(layout), NEW i \in 0..Len(layout) PROVE Place(layout, i) \in Int
BY DEF Clear, Place

LEMMA DistanceIs ==
  ASSUME NEW layout, Clear(layout), NEW i \in 1..Len(layout)
  PROVE  Distance(layout, i) = Bytes(layout[i].lcn - Place(layout, i-1))
<1> DEFINE before == {j \in 1..i-1 : layout[j].lcn # Sparse}
           last   == CHOOSE j \in before : \A k \in before : k \leq j
<1>1. before = 1..i-1 /\ layout[i].lcn # Sparse /\ i \in Nat
  BY DEF Clear
<1>2. Distance(layout, i) = Bytes(layout[i].lcn - IF before = {} THEN 0 ELSE layout[last].lcn)
  BY <1>1 DEF Distance
<1>3. CASE i = 1
  BY <1>1, <1>2, <1>3 DEF Place
<1>4. CASE i # 1
  <2>1. i - 1 \in before /\ \A k \in before : k \leq i - 1
    BY <1>1, <1>4
  <2>2. last \in before /\ \A k \in before : k \leq last
    <3> HIDE DEF before
    <3> QED BY <2>1
  <2>3. last = i - 1
    <3> HIDE DEF last
    <3> QED BY <1>1, <2>1, <2>2
  <2>4. before # {} /\ i - 1 # 0
    BY <1>1, <1>4, <2>1
  <2> HIDE DEF before, last
  <2> QED BY <1>2, <2>3, <2>4 DEF Place
<1> QED
  BY <1>3, <1>4

JoinOf(z, x, y) ==
  /\ Len(z) = Len(x) + Len(y)
  /\ \A k \in 1..Len(x) : z[k] = x[k]
  /\ \A k \in 1..Len(y) : z[Len(x) + k] = y[k]

LEMMA JoinIs ==
  ASSUME NEW T, NEW x \in Seq(T), NEW y \in Seq(T) PROVE x \o y \in Seq(T) /\ JoinOf(x \o y, x, y)
<1>1. x \o y \in Seq(T) /\ Len(x \o y) = Len(x) + Len(y) /\ Len(x) \in Nat /\ Len(y) \in Nat
  OBVIOUS
<1>2. \A k \in 1..Len(x) : (x \o y)[k] = x[k]
  OBVIOUS
<1>3. \A k \in 1..Len(y) : (x \o y)[Len(x) + k] = y[k]
  OBVIOUS
<1> QED
  BY <1>1, <1>2, <1>3 DEF JoinOf

\* An item: its header, its length and its distance.
ItemParts(item, s, d, n, m) ==
  /\ s \in 1..8 /\ d \in 1..8 /\ Len(item) = 1 + s + d /\ item[1] = 16 * d + s
  /\ \A i \in 1..s : item[1 + i] = Bytes(n)[i]
  /\ \A i \in 1..d : item[1 + s + i] = Bytes(m)[i]

LEMMA ItemIs ==
  ASSUME NEW layout, Clear(layout), NEW i \in 1..Len(layout)
  PROVE  LET n == layout[i].len
             m == layout[i].lcn - Place(layout, i-1)
         IN  Item(layout, i) \in Seq(Byte) /\ ItemParts(Item(layout, i), Width(n), Width(m), n, m)
<1> DEFINE n == layout[i].len
           m == layout[i].lcn - Place(layout, i-1)
           x == Bytes(n)
           y == Bytes(m)
           s == Width(n)
           d == Width(m)
<1>1. Storable(n) /\ Storable(m)
  BY DEF Clear
<1>2. Item(layout, i) = <<16 * Len(y) + Len(x)>> \o x \o y
  BY DistanceIs DEF Item, Length
<1> HIDE DEF n, m
<1>3. x \in Seq(Byte) /\ Len(x) = s /\ y \in Seq(Byte) /\ Len(y) = d /\ s \in 1..8 /\ d \in 1..8
  BY <1>1, BytesType, WidthIs
<1> HIDE DEF x, y, s, d
<1>4. 16 * d + s \in Byte
  BY <1>3 DEF Byte
<1> DEFINE h == <<16 * d + s>>
<1>5. h \in Seq(Byte) /\ Len(h) = 1 /\ h[1] = 16 * d + s
  BY <1>4
<1> HIDE DEF h
<1>6. /\ h \o x \in Seq(Byte) /\ Len(h \o x) = 1 + s
      /\ (h \o x)[1] = h[1] /\ \A k \in 1..s : (h \o x)[1 + k] = x[k]
  <2>1. h \o x \in Seq(Byte) /\ JoinOf(h \o x, h, x)
    BY <1>3, <1>5, JoinIs
  <2> QED BY <1>3, <1>5, <2>1 DEF JoinOf
<1> DEFINE hx == h \o x
<1> HIDE DEF hx
<1>7. /\ hx \o y \in Seq(Byte) /\ Len(hx \o y) = 1 + s + d
      /\ (hx \o y)[1] = hx[1] /\ (\A k \in 1..s : (hx \o y)[1 + k] = hx[1 + k])
      /\ \A k \in 1..d : (hx \o y)[1 + s + k] = y[k]
  <2>1. hx \in Seq(Byte) /\ Len(hx) = 1 + s
    BY <1>6 DEF hx
  <2>2. hx \o y \in Seq(Byte) /\ JoinOf(hx \o y, hx, y)
    BY <1>3, <2>1, JoinIs
  <2>3. (hx \o y)[1] = hx[1] /\ \A k \in 1..s : (hx \o y)[1 + k] = hx[1 + k]
    <3>1. 1 \in 1..Len(hx) /\ \A k \in 1..s : 1 + k \in 1..Len(hx)
      BY <1>3, <2>1
    <3> QED BY <2>2, <3>1 DEF JoinOf
  <2> QED BY <1>3, <2>1, <2>2, <2>3 DEF JoinOf
<1>8. Item(layout, i) = hx \o y
  BY <1>2, <1>3 DEF h, hx
<1>9. ItemParts(Item(layout, i), s, d, n, m)
  BY <1>3, <1>5, <1>6, <1>7, <1>8 DEF ItemParts, hx, x, y
<1> QED
  BY <1>7, <1>8, <1>9 DEF n, m, s, d

\* The items one after another.
Joined(f, layout) ==
  /\ f \in [0..Len(layout) -> Seq(Byte)] /\ f[0] = <<>>
  /\ \A i \in 1..Len(layout) : f[i] = f[i-1] \o Item(layout, i)

LEMMA ItemsAre == ASSUME NEW layout, Clear(layout) PROVE Joined(Items(layout), layout)
<1> DEFINE L == Len(layout)
           A == Seq(Byte)
           step == [i \in Nat |-> [x \in A |-> IF i \in 1..L THEN x \o Item(layout, i) ELSE x]]
           items[i \in 0..L] == IF i = 0 THEN <<>> ELSE items[i-1] \o Item(layout, i)
<1>1. L \in Nat
  BY DEF Clear
<1>2. \A i \in 1..L : Item(layout, i) \in A
  BY ItemIs
<1>3. items = Items(layout)
  BY DEF Items
<1> HIDE DEF L
<1>4. step \in [Nat -> [A -> A]] /\ \A i \in 1..L : \A x \in A : step[i][x] = x \o Item(layout, i)
  <2>1. ASSUME NEW i \in Nat, NEW x \in A
        PROVE  (IF i \in 1..L THEN x \o Item(layout, i) ELSE x) \in A
    BY <1>2
  <2> HIDE DEF A
  <2> QED BY <1>1, <2>1
<1>5. <<>> \in A
  OBVIOUS
<1> HIDE DEF step, A
<1>6. PICK f : GoesUp(f, A, <<>>, L, step)
  BY <1>1, <1>4, <1>5, Recursion
<1>7. f \in [0..L -> A] /\ f[0] = <<>> /\ \A i \in 1..L : f[i] = f[i-1] \o Item(layout, i)
  <2>1. f \in [0..L -> A] /\ f[0] = <<>> /\ \A i \in 1..L : f[i] = step[i][f[i-1]]
    BY <1>6 DEF GoesUp
  <2>2. ASSUME NEW i \in 1..L PROVE f[i] = f[i-1] \o Item(layout, i)
    <3>1. f[i-1] \in A
      BY <1>1, <2>1
    <3> QED BY <1>4, <2>1, <3>1
  <2> QED BY <2>1, <2>2
<1>8. f = [i \in 0..L |-> IF i = 0 THEN <<>> ELSE f[i-1] \o Item(layout, i)]
  <2>1. \A i \in 0..L : i = 0 \/ (i \in 1..L /\ i # 0)
    BY <1>1
  <2> QED BY <1>7, <2>1, Zenon
<1>9. items = [i \in 0..L |-> IF i = 0 THEN <<>> ELSE items[i-1] \o Item(layout, i)]
  BY <1>8
<1> HIDE DEF items
<1>10. Same(f, items, L)
  <2>1. FollowsUp(items, A, <<>>, L, step)
    <3>0. 0 \in 0..L /\ \A i \in 1..L : i \in 0..L /\ i # 0
      BY <1>1
    <3>1. items[0] = <<>> /\ \A i \in 1..L : items[i] = items[i-1] \o Item(layout, i)
      BY <1>9, <3>0, Zenon
    <3> QED BY <1>4, <3>1 DEF FollowsUp
  <2> QED BY <1>1, <1>6, <2>1, SameUp
<1>11. items = f
  BY <1>7, <1>9, <1>10 DEF Same
<1> QED
  BY <1>3, <1>7, <1>11 DEF Joined, L, A

\* x is at the beginning of z.
BeginsAs(x, z) == Len(x) \leq Len(z) /\ \A k \in 1..Len(x) : z[k] = x[k]

LEMMA BeginsJoin ==
  ASSUME NEW x \in Seq(Byte), NEW y \in Seq(Byte), NEW z \in Seq(Byte), BeginsAs(z, x)
  PROVE  BeginsAs(z, x \o y)
<1>1. JoinOf(x \o y, x, y) /\ Len(x) \in Nat /\ Len(y) \in Nat /\ Len(z) \in Nat
  BY JoinIs
<1> QED
  BY <1>1 DEF BeginsAs, JoinOf

LEMMA ItemsFront ==
  ASSUME NEW layout, Clear(layout), NEW i \in 0..Len(layout)
  PROVE  BeginsAs(Items(layout)[i], Items(layout)[Len(layout)])
<1> DEFINE f == Items(layout)
           L == Len(layout)
           S == {m \in Nat : i + m \leq L => BeginsAs(f[i], f[i+m])}
<1>1. L \in Nat /\ Joined(f, layout)
  BY ItemsAre DEF Clear
<1>2. f \in [0..L -> Seq(Byte)] /\ \A j \in 1..L : f[j] = f[j-1] \o Item(layout, j)
  BY <1>1 DEF Joined
<1>3. \A j \in 1..L : Item(layout, j) \in Seq(Byte)
  BY ItemIs
<1> HIDE DEF f, L
<1>4. 0 \in S
  <2>1. i + 0 = i
    BY <1>1
  <2>2. f[i] \in Seq(Byte)
    BY <1>2 DEF L
  <2>3. Len(f[i]) \in Nat
    BY <2>2
  <2> QED BY <2>1, <2>3 DEF BeginsAs
<1>5. ASSUME NEW m \in Nat, m \in S PROVE m + 1 \in S
  <2>1. SUFFICES ASSUME i + (m + 1) \leq L PROVE BeginsAs(f[i], f[i+(m+1)])
    OBVIOUS
  <2> DEFINE j == i + (m + 1)
  <2>2. j \in 1..L /\ j - 1 = i + m /\ j - 1 \in 0..L /\ i \in 0..L /\ i + m \leq L
    BY <1>1, <2>1 DEF L
  <2>3. BeginsAs(f[i], f[i+m])
    BY <1>5, <2>2
  <2> HIDE DEF j
  <2>4. f[j] = f[j-1] \o Item(layout, j) /\ f[j-1] \in Seq(Byte) /\ f[i] \in Seq(Byte)
    BY <1>2, <2>2
  <2>5. BeginsAs(f[i], f[j-1])
    BY <2>2, <2>3
  <2>6. BeginsAs(f[i], f[j-1] \o Item(layout, j))
    BY <1>3, <2>2, <2>4, <2>5, BeginsJoin
  <2> QED BY <2>4, <2>6 DEF j
<1>6. Nat \subseteq S
  <2> HIDE DEF S
  <2> QED BY <1>4, <1>5, NatSet
<1>7. L - i \in Nat /\ i + (L - i) = L
  BY <1>1 DEF L
<1>8. L - i \in S
  BY <1>6, <1>7
<1>9. BeginsAs(f[i], f[i + (L - i)])
  <2>1. i + (L - i) \leq L
    BY <1>1, <1>7
  <2> QED BY <1>8, <2>1
<1> QED
  BY <1>7, <1>9 DEF f, L

\* Where the items behind the first i begin.
At(layout, i) == Len(Items(layout)[i]) + 1

LEMMA EncodedIs ==
  ASSUME NEW layout, Clear(layout)
  PROVE  /\ Encoded(layout) \in Seq(Byte) /\ At(layout, 0) = 1
         /\ Len(Encoded(layout)) = At(layout, Len(layout))
         /\ Encoded(layout)[At(layout, Len(layout))] = 0
         /\ \A i \in 0..Len(layout) : At(layout, i) \in Nat \ {0}
         /\ \A i \in 1..Len(layout) :
              /\ At(layout, i) = At(layout, i-1) + Len(Item(layout, i))
              /\ \A x \in 1..Len(Item(layout, i)) :
                   Encoded(layout)[At(layout, i-1) + x - 1] = Item(layout, i)[x]
<1> DEFINE f == Items(layout)
           L == Len(layout)
           e == Encoded(layout)
           z == <<0>>
<1>1. L \in Nat /\ Joined(f, layout)
  BY ItemsAre DEF Clear
<1>2. f \in [0..L -> Seq(Byte)] /\ f[0] = <<>> /\ \A j \in 1..L : f[j] = f[j-1] \o Item(layout, j)
  BY <1>1 DEF Joined
<1>3. \A j \in 1..L : Item(layout, j) \in Seq(Byte)
  BY ItemIs
<1>4. \A i \in 0..L : BeginsAs(f[i], f[L])
  BY ItemsFront
<1>5. e = f[L] \o z
  BY DEF Encoded
<1>6. z \in Seq(Byte) /\ Len(z) = 1 /\ z[1] = 0
  BY DEF Byte
<1> HIDE DEF f, L, e, z
<1>7. f[L] \in Seq(Byte) /\ \A i \in 0..L : f[i] \in Seq(Byte)
  BY <1>1, <1>2
<1>8. e \in Seq(Byte) /\ JoinOf(e, f[L], z)
  BY <1>5, <1>6, <1>7, JoinIs
<1>9. \A i \in 0..L : Len(f[i]) \in Nat
  BY <1>7
<1>10. Len(e) = Len(f[L]) + 1 /\ e[Len(f[L]) + 1] = 0
  BY <1>6, <1>8 DEF JoinOf
<1>11. ASSUME NEW i \in 1..L
       PROVE  /\ Len(f[i]) + 1 = Len(f[i-1]) + 1 + Len(Item(layout, i))
              /\ \A x \in 1..Len(Item(layout, i)) : e[Len(f[i-1]) + 1 + x - 1] = Item(layout, i)[x]
  <2>1. /\ f[i] = f[i-1] \o Item(layout, i) /\ f[i-1] \in Seq(Byte) /\ Item(layout, i) \in Seq(Byte)
        /\ i \in 0..L /\ i - 1 \in 0..L
    <3>1. i \in 0..L /\ i - 1 \in 0..L
      BY <1>1
    <3> QED BY <1>2, <1>3, <1>7, <3>1
  <2>2. JoinOf(f[i], f[i-1], Item(layout, i))
    BY <2>1, JoinIs
  <2>3. Len(f[i-1]) \in Nat /\ Len(f[i]) \in Nat /\ Len(Item(layout, i)) \in Nat
    BY <1>9, <2>1
  <2>4. BeginsAs(f[i], f[L])
    BY <1>4, <2>1
  <2>5. ASSUME NEW x \in 1..Len(Item(layout, i)) PROVE e[Len(f[i-1]) + 1 + x - 1] = Item(layout, i)[x]
    <3> DEFINE y == Len(f[i-1]) + x
    <3>1. y = Len(f[i-1]) + 1 + x - 1 /\ y \in 1..Len(f[i])
      BY <2>2, <2>3 DEF JoinOf
    <3>2. f[i][y] = Item(layout, i)[x]
      BY <2>2 DEF JoinOf
    <3> HIDE DEF y
    <3>3. f[L][y] = f[i][y] /\ y \in 1..Len(f[L])
      <4>1. 0 \leq L /\ L \in 0..L
        BY <1>1
      <4>2. Len(f[L]) \in Nat
        BY <1>9, <4>1
      <4>3. f[L][y] = f[i][y] /\ Len(f[i]) \leq Len(f[L])
        BY <2>4, <3>1 DEF BeginsAs
      <4>4. Len(f[i]) \in Nat /\ y \in 1..Len(f[i])
        BY <2>3, <3>1
      <4>5. y \in 1..Len(f[L])
        BY <4>2, <4>3, <4>4
      <4> QED BY <4>3, <4>5
    <3>4. e[y] = f[L][y]
      BY <1>8, <3>3 DEF JoinOf
    <3> QED BY <3>1, <3>2, <3>3, <3>4
  <2> QED BY <2>2, <2>3, <2>5 DEF JoinOf
<1>12. Len(f[0]) = 0
  BY <1>2
<1> QED
  BY <1>8, <1>9, <1>10, <1>11, <1>12 DEF At, f, L, e

\* After j items of the layout.
StateAt(s, j, layout) ==
  /\ s \in LoopState /\ s.pos = At(layout, j) /\ s.lcn = Place(layout, j)
  /\ Len(s.runs) = j /\ FrontOf(s.runs, layout)

LEMMA FrontGrows ==
  ASSUME NEW layout, Clear(layout), NEW j \in 0..Len(layout) - 1,
         NEW runs \in Seq(PlaceOfRun), Len(runs) = j, FrontOf(runs, layout)
  PROVE  LET more == Append(runs, [lcn |-> layout[j+1].lcn, len |-> layout[j+1].len])
         IN  more \in Seq(PlaceOfRun) /\ Len(more) = j + 1 /\ FrontOf(more, layout)
<1> DEFINE run == [lcn |-> layout[j+1].lcn, len |-> layout[j+1].len]
<1>1. Len(layout) \in Nat /\ j \in Nat /\ j + 1 \in 1..Len(layout)
  BY DEF Clear
<1>2. run \in PlaceOfRun /\ run.lcn = layout[j+1].lcn /\ run.len = layout[j+1].len
  BY <1>1 DEF Clear, PlaceOfRun
<1> HIDE DEF run
<1>3. /\ Append(runs, run) \in Seq(PlaceOfRun) /\ Len(Append(runs, run)) = j + 1
      /\ Append(runs, run)[j+1] = run /\ \A i \in 1..j : Append(runs, run)[i] = runs[i]
  BY <1>1, <1>2
<1>4. FrontOf(Append(runs, run), layout)
  <2>1. ASSUME NEW i \in 1..j+1
        PROVE  Append(runs, run)[i].lcn = layout[i].lcn /\ Append(runs, run)[i].len = layout[i].len
    <3>1. CASE i = j + 1
      BY <1>2, <1>3, <3>1
    <3>2. CASE i \in 1..j
      BY <1>3, <3>2 DEF FrontOf
    <3> QED BY <1>1, <3>1, <3>2
  <2> QED BY <1>1, <1>3, <2>1 DEF FrontOf
<1> QED
  BY <1>3, <1>4 DEF run

LEMMA ReadStored ==
  ASSUME NEW layout, Clear(layout), NEW b \in Seq(Byte), BeginsAs(b, Encoded(layout)),
         NEW j \in 0..Len(layout), NEW s, StateAt(s, j, layout)
  PROVE  \/ ListEnds(b, s.pos) /\ ReadItem(b, s) = s
         \/ j + 1 \in 1..Len(layout) /\ StateAt(ReadItem(b, s), j + 1, layout)
<1>1. CASE ListEnds(b, s.pos)
  BY <1>1 DEF ReadItem
<1>2. CASE ~ListEnds(b, s.pos)
  <2> DEFINE p == s.pos
             e == Encoded(layout)
             L == Len(layout)
             i == j + 1
  <2>1. p = At(layout, j) /\ p \in Nat \ {0} /\ Len(b) \in Nat /\ L \in Nat /\ j \in Nat
    BY DEF StateAt, LoopState, Clear
  <2>2. \A x \in 1..Len(b) : b[x] = e[x]
    BY DEF BeginsAs
  <2>3. p \in 1..Len(b) /\ Size(b, p) # 0 /\ NextItem(b, p) \leq Len(b) + 1
    <3>1. /\ ~(p > Len(b)) /\ Size(b, p) # 0 /\ ~(NextItem(b, p) > Len(b) + 1)
      BY <1>2 DEF ListEnds
    <3>2. p \in 1..Len(b) /\ b[p] \in 0..255
      <4>1. p \in 1..Len(b)
        BY <2>1, <3>1
      <4> QED BY <4>1, BytesAre
    <3>3. NextItem(b, p) \in Int
      <4>1. \A x \in 0..255 : x % 16 \in Nat /\ x \div 16 \in Nat
        OBVIOUS
      <4>2. Size(b, p) \in Nat /\ Dist(b, p) \in Nat
        BY <3>2, <4>1 DEF Size, Dist
      <4> QED BY <2>1, <4>2 DEF NextItem
    <3> QED BY <2>1, <3>1, <3>2, <3>3
  <2>4. i \in 1..L
    <3>1. ASSUME j = L PROVE FALSE
      <4>1. b[p] = 0
        BY <2>1, <2>2, <2>3, <3>1, EncodedIs
      <4> QED BY <2>3, <4>1 DEF Size
    <3> QED BY <2>1, <3>1
  <2> DEFINE item == Item(layout, i)
             n == layout[i].len
             m == layout[i].lcn - Place(layout, i-1)
             w == Width(n)
             d == Width(m)
  <2>5. ItemParts(item, w, d, n, m)
    BY <2>4, ItemIs
  <2>6. i - 1 = j
    BY <2>1
  <2>7. At(layout, i) = p + Len(item) /\ \A x \in 1..Len(item) : e[p + x - 1] = item[x]
    BY <2>1, <2>4, <2>6, EncodedIs
  <2>8. Storable(n) /\ Storable(m) /\ n \in Nat /\ layout[i].lcn \in Int
    BY <2>4 DEF Clear
  <2>9. At(layout, i) \in Nat \ {0}
    <3>1. i \in 0..L
      BY <2>1, <2>4
    <3> QED BY <3>1, EncodedIs
  <2> HIDE DEF item, n, m, w, d, e, L, i, p
  <2>10. /\ w \in 1..8 /\ d \in 1..8 /\ Len(item) = 1 + w + d /\ item[1] = 16 * d + w
         /\ \A x \in 1..w : item[1 + x] = Bytes(n)[x]
         /\ \A x \in 1..d : item[1 + w + x] = Bytes(m)[x]
    BY <2>5 DEF ItemParts
  <2>11. b[p] = 16 * d + w
    <3>1. e[p + 1 - 1] = item[1] /\ p + 1 - 1 = p
      BY <2>1, <2>7, <2>10
    <3> QED BY <2>2, <2>3, <2>10, <3>1
  <2>30. w \in 1..8 /\ d \in 1..8 /\ Len(item) = 1 + w + d
    BY <2>10
  <2>12. Size(b, p) = w /\ Dist(b, p) = d
    <3>1. \A x, y \in 1..8 : (16 * y + x) % 16 = x /\ (16 * y + x) \div 16 = y
      OBVIOUS
    <3> QED BY <2>11, <2>30, <3>1, Zenon DEF Size, Dist
  <2>13. NextItem(b, p) = At(layout, i)
    BY <2>1, <2>7, <2>10, <2>12 DEF NextItem
  <2>14. ASSUME NEW x \in 1..1+w+d PROVE b[p + x - 1] = item[x]
    <3>1. p + x - 1 \in 1..Len(b)
      <4>1. p + 1 + w + d \leq Len(b) + 1
        BY <2>3, <2>12 DEF NextItem
      <4>2. p \in 1..Len(b) /\ Len(b) \in Nat /\ w \in 1..8 /\ d \in 1..8
        BY <2>3, <2>30
      <4> HIDE DEF w, d
      <4> QED BY <4>1, <4>2
    <3> QED BY <2>2, <2>7, <2>10, <3>1
  <2>15. Holds(b, p + 1, n)
    <3>1. ASSUME NEW x \in 1..w PROVE b[p + 1 + x - 1] = Bytes(n)[x]
      <4>1. 1 + x \in 1..1+w+d /\ p + (1 + x) - 1 = p + 1 + x - 1
        BY <2>1, <2>30
      <4> QED BY <2>10, <2>14, <4>1
    <3> QED BY <3>1 DEF Holds, w
  <2>16. Holds(b, p + 1 + w, m)
    <3>1. ASSUME NEW x \in 1..d PROVE b[p + 1 + w + x - 1] = Bytes(m)[x]
      <4>1. 1 + w + x \in 1..1+w+d /\ p + (1 + w + x) - 1 = p + 1 + w + x - 1
        BY <2>1, <2>30
      <4> QED BY <2>10, <2>14, <4>1
    <3> QED BY <3>1 DEF Holds, d
  <2>17. Unsigned(b, p + 1, Size(b, p)) = n
    BY <2>1, <2>8, <2>12, <2>15, UnsignedRead DEF w
  <2>18. Signed(b, p + 1 + Size(b, p), Dist(b, p)) = m
    <3>1. p + 1 + w \in Nat
      BY <2>1, <2>10
    <3>2. Signed(b, p + 1 + w, d) = m
      BY <2>8, <2>16, <3>1, SignedRead DEF d
    <3> QED BY <2>12, <3>2
  <2>19. s.lcn + m = layout[i].lcn
    <3>1. s.lcn = Place(layout, j) /\ Place(layout, j) \in Int
      BY PlaceType DEF StateAt
    <3> QED BY <2>6, <2>8, <3>1 DEF m
  <2>20. ReadItem(b, s) = [pos |-> At(layout, i), lcn |-> layout[i].lcn,
                           runs |-> Append(s.runs, [lcn |-> layout[i].lcn, len |-> layout[i].len])]
    <3>1. Dist(b, s.pos) # 0
      BY <2>10, <2>12 DEF p
    <3>2. ReadItem(b, s) =
            [pos |-> NextItem(b, p), lcn |-> s.lcn + Signed(b, p + 1 + Size(b, p), Dist(b, p)),
             runs |-> Append(s.runs, [lcn |-> s.lcn + Signed(b, p + 1 + Size(b, p), Dist(b, p)),
                                      len |-> Unsigned(b, p + 1, Size(b, p))])]
      BY <1>2, <3>1 DEF ReadItem, p
    <3> QED BY <2>13, <2>17, <2>18, <2>19, <3>2, Zenon DEF n
  <2> DEFINE more == Append(s.runs, [lcn |-> layout[i].lcn, len |-> layout[i].len])
  <2>21. more \in Seq(PlaceOfRun) /\ Len(more) = i /\ FrontOf(more, layout)
    <3>1. s.runs \in Seq(PlaceOfRun) /\ Len(s.runs) = j /\ FrontOf(s.runs, layout)
      BY DEF StateAt, LoopState
    <3>2. j \in 0..Len(layout) - 1
      BY <2>1, <2>4 DEF L, i
    <3> QED BY <3>1, <3>2, FrontGrows DEF i
  <2> HIDE DEF more
  <2>22. ReadItem(b, s) = [pos |-> At(layout, i), lcn |-> layout[i].lcn, runs |-> more]
    BY <2>20 DEF more
  <2>23. Place(layout, i) = layout[i].lcn
    BY <2>4 DEF Place
  <2>24. StateAt(ReadItem(b, s), i, layout)
    BY <2>8, <2>9, <2>21, <2>22, <2>23 DEF StateAt, LoopState
  <2> QED BY <2>4, <2>24 DEF L, i
<1> QED
  BY <1>1, <1>2

LEMMA StoredIsRead ==
  ASSUME NEW layout, Clear(layout), NEW b \in Seq(Byte), BeginsAs(b, Encoded(layout))
  PROVE  FrontOf(DataRuns(b), layout)
<1>1. PICK f : Loop(f, b) /\ DataRuns(b) = f[Len(b)].runs
  BY DataRunsAre
<1>2. /\ f[0] = [pos |-> 1, lcn |-> 0, runs |-> <<>>] /\ f[0] \in LoopState /\ Len(b) \in Nat
      /\ \A i \in 1..Len(b) : f[i] = ReadItem(b, f[i-1])
  <2>1. Len(b) \in Nat /\ 0 \in 0..Len(b)
    OBVIOUS
  <2>2. f[0] \in LoopState
    BY <1>1, <2>1, Zenon DEF Loop
  <2> QED BY <1>1, <2>1, <2>2, Zenon DEF Loop
<1> DEFINE S == {i \in Nat : i \leq Len(b) => \E j \in 0..Len(layout) : StateAt(f[i], j, layout)}
<1>3. 0 \in S
  <2>1. At(layout, 0) = 1 /\ Place(layout, 0) = 0 /\ 0 \in 0..Len(layout)
    BY EncodedIs DEF Place, Clear
  <2>2. StateAt(f[0], 0, layout)
    BY <1>2, <2>1 DEF StateAt, FrontOf
  <2> QED BY <2>1, <2>2
<1>4. ASSUME NEW i \in Nat, i \in S PROVE i + 1 \in S
  <2>1. SUFFICES ASSUME i + 1 \leq Len(b)
                 PROVE \E j \in 0..Len(layout) : StateAt(f[i+1], j, layout)
    OBVIOUS
  <2>2. i \leq Len(b)
    BY <1>2, <2>1
  <2>3. PICK j \in 0..Len(layout) : StateAt(f[i], j, layout)
    BY <1>4, <2>2
  <2>4. i + 1 \in 1..Len(b) /\ (i + 1) - 1 = i
    <3> HIDE DEF S
    <3>1. Len(b) \in Nat /\ i \in Nat /\ i + 1 \leq Len(b)
      BY <1>2, <2>1
    <3> QED BY <3>1
  <2>5. f[i+1] = ReadItem(b, f[i])
    BY <1>2, <2>4
  <2>6. \A k \in 1..Len(layout) : k \in 0..Len(layout)
    BY DEF Clear
  <2> QED BY <2>3, <2>5, <2>6, ReadStored
<1>5. Len(b) \in S
  <2> HIDE DEF S
  <2> QED BY <1>2, <1>3, <1>4, NatSet
<1>6. \E j \in 0..Len(layout) : StateAt(f[Len(b)], j, layout)
  BY <1>2, <1>5
<1> QED
  BY <1>1, <1>6 DEF StateAt

LEMMA LayoutIs ==
  ASSUME NEW v \in Volumes, v.bytes # Unreadable, \A i \in DOMAIN v.layout : v.layout[i].lcn # Sparse
  PROVE  Clear(v.layout) /\ \E k \in 0..Len(Encoded(v.layout)) : v.bytes = SubSeq(Encoded(v.layout), 1, k)
<1> DEFINE l == v.layout
           e == Encoded(l)
           Piece == [vcn : Nat, lcn : Nat \cup {Sparse}, len : Nat]
<1>1. /\ \E k \in 0..Len(e) : v.bytes = SubSeq(e, 1, k)
      /\ \A i \in DOMAIN l : LET from == IF i = 1 THEN 0 ELSE l[i-1].lcn IN
           /\ \E k \in 1..8 : Ends(l[i].len, k)
           /\ \E k \in 1..8 : Ends(l[i].lcn - from, k)
  BY RunLists
<1>2. l \in Seq(Piece) /\ \A i \in DOMAIN l : l[i].lcn # Sparse
  BY VolumeShapes
<1> HIDE DEF l
<1>3. DOMAIN l = 1..Len(l) /\ Len(l) \in Nat /\ \A i \in 1..Len(l) : l[i] \in Piece
  <2> HIDE DEF Piece
  <2> QED BY <1>2
<1>4. \A i \in 1..Len(l) : l[i].lcn \in Nat /\ l[i].len \in Nat /\ l[i].lcn # Sparse
  BY <1>2, <1>3
<1>5. ASSUME NEW i \in 1..Len(l)
      PROVE  Storable(l[i].len) /\ Storable(l[i].lcn - Place(l, i-1))
  <2> DEFINE from == IF i = 1 THEN 0 ELSE l[i-1].lcn
  <2>1. from = Place(l, i-1) /\ from \in Int
    BY <1>3, <1>4 DEF Place
  <2>2. (\E k \in 1..8 : Ends(l[i].len, k)) /\ \E k \in 1..8 : Ends(l[i].lcn - from, k)
    BY <1>1, <1>3
  <2> HIDE DEF from
  <2>3. l[i].len \in Int /\ l[i].lcn - from \in Int
    BY <1>4, <2>1
  <2> QED BY <2>1, <2>2, <2>3 DEF Storable
<1> QED
  BY <1>1, <1>3, <1>4, <1>5 DEF Clear, l

\* So whatever is left of a run list gives runs that are where the table is.
LEMMA RunListRead ==
  ASSUME NEW v \in Volumes, v.bytes # Unreadable, \A i \in DOMAIN v.layout : v.layout[i].lcn # Sparse
  PROVE  FrontOf(DataRuns(v.bytes), v.layout)
<1> DEFINE l == v.layout
           e == Encoded(l)
<1>1. Clear(l)
  BY LayoutIs
<1>2. e \in Seq(Byte)
  BY <1>1, EncodedIs
<1>3. PICK k \in 0..Len(e) : v.bytes = SubSeq(e, 1, k)
  BY LayoutIs
<1> HIDE DEF e, l
<1>4. v.bytes \in Seq(Byte) /\ Len(v.bytes) = k /\ \A x \in 1..k : v.bytes[x] = e[x]
  BY <1>2, <1>3
<1>5. BeginsAs(v.bytes, e)
  <2>1. Len(e) \in Nat
    BY <1>2
  <2> QED BY <1>4, <2>1 DEF BeginsAs
<1> QED
  BY <1>1, <1>4, <1>5, StoredIsRead DEF e, l

\* Nothing in a whole list ends it before its last item.
LEMMA AtGrows ==
  ASSUME NEW layout, Clear(layout), NEW i \in 0..Len(layout)
  PROVE  At(layout, i) \geq i + 1 /\ At(layout, i) \leq At(layout, Len(layout))
<1> DEFINE L == Len(layout)
           S == {k \in Nat : k \leq L => At(layout, k) \geq k + 1}
<1>1. L \in Nat /\ L \in 0..L /\ \A k \in 0..L : At(layout, k) \in Nat
  <2>1. L \in Nat
    BY DEF Clear
  <2>2. \A k \in 0..L : At(layout, k) \in Nat \ {0}
    BY EncodedIs
  <2> QED BY <2>1, <2>2
<1>2. 0 \in S
  <2>1. At(layout, 0) = 1
    BY EncodedIs
  <2> QED BY <2>1
<1>3. ASSUME NEW k \in Nat, k \in S PROVE k + 1 \in S
  <2>1. SUFFICES ASSUME k + 1 \leq L PROVE At(layout, k + 1) \geq (k + 1) + 1
    OBVIOUS
  <2>2. k + 1 \in 1..L /\ (k + 1) - 1 = k /\ k \in 0..L
    BY <1>1, <2>1
  <2>3. At(layout, k + 1) = At(layout, k) + Len(Item(layout, k + 1))
    BY <2>2, EncodedIs
  <2>4. Len(Item(layout, k + 1)) \in Nat /\ Len(Item(layout, k + 1)) \geq 1
    <3> DEFINE n == layout[k+1].len
               m == layout[k+1].lcn - Place(layout, k)
    <3>1. ItemParts(Item(layout, k + 1), Width(n), Width(m), n, m)
      BY <2>2, ItemIs
    <3>2. Width(n) \in Nat /\ Width(m) \in Nat /\ Len(Item(layout, k + 1)) = 1 + Width(n) + Width(m)
      BY <3>1 DEF ItemParts
    <3> HIDE DEF n, m
    <3> QED BY <3>2
  <2>5. At(layout, k) \geq k + 1 /\ At(layout, k) \in Nat
    BY <1>1, <1>3, <2>2
  <2> QED BY <2>3, <2>4, <2>5
<1>4. i \in S
  <2> HIDE DEF S
  <2>1. Nat \subseteq S
    BY <1>2, <1>3, NatSet
  <2> QED BY <1>1, <2>1
<1>5. At(layout, i) \leq At(layout, L)
  <2>1. BeginsAs(Items(layout)[i], Items(layout)[L])
    BY ItemsFront
  <2>2. Len(Items(layout)[i]) + 1 \in Nat /\ Len(Items(layout)[L]) + 1 \in Nat
        /\ Len(Items(layout)[i]) \leq Len(Items(layout)[L])
    BY <1>1, <2>1 DEF At, BeginsAs
  <2>3. Len(Items(layout)[i]) \in Nat /\ Len(Items(layout)[L]) \in Nat
    <3>1. Items(layout) \in [0..L -> Seq(Byte)]
      BY ItemsAre DEF Joined
    <3>2. Items(layout)[i] \in Seq(Byte) /\ Items(layout)[L] \in Seq(Byte)
      BY <1>1, <3>1
    <3> QED BY <3>2
  <2> QED BY <2>2, <2>3 DEF At
<1> QED
  BY <1>1, <1>4, <1>5

LEMMA WholeGoesOn ==
  ASSUME NEW layout, Clear(layout), NEW j \in 0..Len(layout) - 1, NEW p, p = At(layout, j)
  PROVE  ~ListEnds(Encoded(layout), p)
<1> DEFINE e == Encoded(layout)
           i == j + 1
           L == Len(layout)
           item == Item(layout, i)
           n == layout[i].len
           m == layout[i].lcn - Place(layout, i-1)
           w == Width(n)
           d == Width(m)
<1>1. L \in Nat /\ i \in 1..L /\ i \in 0..L /\ i - 1 = j /\ j \in 0..L
  BY DEF Clear
<1>2. At(layout, i) = p + Len(item) /\ \A x \in 1..Len(item) : e[p + x - 1] = item[x]
  BY <1>1, EncodedIs
<1>3. ItemParts(item, w, d, n, m)
  BY <1>1, ItemIs
<1>4. p \in Nat /\ Len(e) \in Nat /\ At(layout, i) \leq Len(e)
  BY <1>1, AtGrows, EncodedIs
<1> HIDE DEF e, i, L, item, n, m, w, d
<1>5. w \in 1..8 /\ d \in 1..8 /\ Len(item) = 1 + w + d /\ item[1] = 16 * d + w
  BY <1>3 DEF ItemParts
<1>6. e[p] = 16 * d + w
  <2>1. 1 \in 1..Len(item) /\ p + 1 - 1 = p
    BY <1>4, <1>5
  <2> QED BY <1>2, <1>5, <2>1
<1>7. Size(e, p) = w /\ Dist(e, p) = d
  <2>1. \A x, y \in 1..8 : (16 * y + x) % 16 = x /\ (16 * y + x) \div 16 = y
    OBVIOUS
  <2> QED BY <1>5, <1>6, <2>1, Zenon DEF Size, Dist
<1>8. NextItem(e, p) = p + 1 + w + d
  BY <1>7 DEF NextItem
<1>9. ~(p > Len(e)) /\ w # 0 /\ ~(p + 1 + w + d > Len(e) + 1)
  <2>1. \A x, z \in Nat : \A y, u \in 1..8 :
          x + (1 + y + u) \leq z => ~(x > z) /\ y # 0 /\ ~(x + 1 + y + u > z + 1)
    OBVIOUS
  <2>2. p + (1 + w + d) \leq Len(e)
    BY <1>2, <1>4, <1>5
  <2> QED BY <1>4, <1>5, <2>1, <2>2
<1> QED
  BY <1>7, <1>8, <1>9 DEF ListEnds, e

\* A list that is not cut off gives every run.
LEMMA WholeIsRead ==
  ASSUME NEW layout, Clear(layout)
  PROVE  Len(DataRuns(Encoded(layout))) = Len(layout)
<1> DEFINE b == Encoded(layout)
           L == Len(layout)
<1>1. b \in Seq(Byte) /\ BeginsAs(b, b) /\ Len(b) \in Nat /\ L \in Nat
  BY EncodedIs DEF Clear, BeginsAs
<1>2. PICK f : Loop(f, b) /\ DataRuns(b) = f[Len(b)].runs
  BY <1>1, DataRunsAre
<1>3. /\ f[0] = [pos |-> 1, lcn |-> 0, runs |-> <<>>] /\ f[0] \in LoopState
      /\ \A i \in 1..Len(b) : f[i] = ReadItem(b, f[i-1])
  <2>1. 0 \in 0..Len(b)
    BY <1>1
  <2>2. f[0] \in LoopState
    BY <1>2, <2>1, Zenon DEF Loop
  <2> QED BY <1>2, <2>2, Zenon DEF Loop
<1> HIDE DEF b
<1> DEFINE S == {i \in Nat : i \leq Len(b) =>
                   \E j \in 0..L : StateAt(f[i], j, layout) /\ (j = L \/ j \geq i)}
<1>4. 0 \in S
  <2>1. At(layout, 0) = 1 /\ Place(layout, 0) = 0 /\ 0 \in 0..L
    BY <1>1, EncodedIs DEF Place
  <2>2. StateAt(f[0], 0, layout)
    BY <1>3, <2>1 DEF StateAt, FrontOf
  <2> QED BY <2>1, <2>2
<1>5. ASSUME NEW i \in Nat, i \in S PROVE i + 1 \in S
  <2>1. SUFFICES ASSUME i + 1 \leq Len(b)
                 PROVE  \E j \in 0..L : StateAt(f[i+1], j, layout) /\ (j = L \/ j \geq i + 1)
    OBVIOUS
  <2>2. i + 1 \in 1..Len(b) /\ (i + 1) - 1 = i /\ i \leq Len(b)
    BY <1>1, <2>1
  <2>3. PICK j \in 0..L : StateAt(f[i], j, layout) /\ (j = L \/ j \geq i)
    BY <1>5, <2>2
  <2>4. f[i+1] = ReadItem(b, f[i])
    BY <1>3, <2>2
  <2>5. \/ ListEnds(b, f[i].pos) /\ ReadItem(b, f[i]) = f[i]
        \/ j + 1 \in 1..L /\ StateAt(ReadItem(b, f[i]), j + 1, layout)
    BY <1>1, <2>3, ReadStored DEF b
  <2>6. CASE j = L
    <3>1. ReadItem(b, f[i]) = f[i]
      BY <1>1, <2>5, <2>6
    <3> QED BY <2>3, <2>4, <2>6, <3>1
  <2>7. CASE j # L
    <3>1. ~ListEnds(b, f[i].pos)
      <4>1. j \in 0..L - 1 /\ f[i].pos = At(layout, j)
        BY <1>1, <2>3, <2>7 DEF StateAt
      <4> QED BY <4>1, WholeGoesOn DEF b
    <3>2. j + 1 \in 0..L /\ j + 1 \geq i + 1
      BY <1>1, <2>3, <2>5, <2>7, <3>1
    <3> QED BY <2>4, <2>5, <3>1, <3>2
  <2> QED BY <2>6, <2>7
<1>6. Len(b) \in S
  <2> HIDE DEF S
  <2> QED BY <1>1, <1>4, <1>5, NatSet
<1>7. PICK j \in 0..L : StateAt(f[Len(b)], j, layout) /\ (j = L \/ j \geq Len(b))
  BY <1>1, <1>6
<1>8. Len(b) \geq L + 1
  <2>1. L \in 0..L
    BY <1>1
  <2> QED BY <2>1, AtGrows, EncodedIs DEF b
<1>9. j = L
  BY <1>1, <1>7, <1>8
<1> QED
  BY <1>2, <1>7, <1>9 DEF StateAt, b

-----------------------------------------------------------------------------
(* Numbers *)

\* Piece i of the table, in bytes: its place in the table and on the volume.
From(i)  == vol.layout[i].vcn * vol.bpc
Start(i) == vol.layout[i].lcn * vol.bpc
Stop(i)  == (vol.layout[i].lcn + vol.layout[i].len) * vol.bpc

\* Pieces follow one another in the table, and share nothing on the volume.
Laid(i) ==
  /\ From(i) \in Nat /\ Start(i) \in Nat /\ Stop(i) \in Nat /\ Start(i) \leq Stop(i)
  /\ vol.layout[i].len * vol.bpc = Stop(i) - Start(i)
  /\ i = 1 => From(i) = 0
  /\ i + 1 \in DOMAIN vol.layout => From(i + 1) = From(i) + (Stop(i) - Start(i))
  /\ \A j \in DOMAIN vol.layout : i = j \/ Stop(i) \leq Start(j) \/ Stop(j) \leq Start(i)

LEMMA TimesKeeps ==
  ASSUME NEW a \in Nat, NEW b \in Nat, NEW c \in Nat, a \leq b PROVE a * c \leq b * c
<1>1. PICK d \in Nat : b = a + d
  <2>1. b - a \in Nat /\ b = a + (b - a)
    OBVIOUS
  <2> QED BY <2>1
<1>2. b * c = a * c + d * c /\ a * c \in Nat /\ d * c \in Nat /\ b * c \in Nat
  BY <1>1
<1> QED
  BY <1>2

LEMMA Shape ==
  ASSUME vol \in Volumes, Dense, NEW i \in DOMAIN vol.layout
  PROVE  /\ i \in Nat \ {0} /\ vol.bpc \in Nat
         /\ vol.layout[i].vcn \in Nat /\ vol.layout[i].lcn \in Nat /\ vol.layout[i].len \in Nat
         /\ vol.layout[i].vcn = IF i = 1 THEN 0 ELSE vol.layout[i-1].vcn + vol.layout[i-1].len
         /\ \A j \in DOMAIN vol.layout :
              \/ i = j
              \/ vol.layout[i].lcn + vol.layout[i].len \leq vol.layout[j].lcn
              \/ vol.layout[j].lcn + vol.layout[j].len \leq vol.layout[i].lcn
<1> DEFINE Piece == [vcn : Nat, lcn : Nat \cup {Sparse}, len : Nat]
<1>1. vol.layout \in Seq(Piece)
  BY VolumeShapes
<1>2. vol.layout[i] \in Piece /\ i \in Nat \ {0} /\ \A j \in DOMAIN vol.layout : vol.layout[j] \in Piece
  <2> HIDE DEF Piece
  <2> QED BY <1>1
<1>3. vol.layout[i].lcn # Sparse /\ \A j \in DOMAIN vol.layout : vol.layout[j].lcn # Sparse
  BY DEF Dense
<1> QED
  BY <1>2, <1>3, VolumeShapes

LEMMA LaidOut ==
  ASSUME vol \in Volumes, Dense, NEW i \in DOMAIN vol.layout
  PROVE  Laid(i)
<1>1. ASSUME NEW j \in DOMAIN vol.layout
      PROVE  /\ From(j) \in Nat /\ Start(j) \in Nat /\ Stop(j) \in Nat /\ Start(j) \leq Stop(j)
             /\ vol.layout[j].len * vol.bpc = Stop(j) - Start(j)
  <2>1. /\ vol.layout[j].vcn \in Nat /\ vol.layout[j].lcn \in Nat /\ vol.layout[j].len \in Nat
        /\ vol.bpc \in Nat
    BY Shape
  <2>2. \A a, b, c \in Nat : a * c \in Nat /\ b * c \in Nat /\ (a + b) * c = a * c + b * c
    OBVIOUS
  <2>3. /\ From(j) \in Nat /\ Start(j) \in Nat /\ vol.layout[j].len * vol.bpc \in Nat
        /\ Stop(j) = Start(j) + vol.layout[j].len * vol.bpc
    BY <2>1, <2>2 DEF From, Start, Stop
  <2> QED BY <2>3
<1>2. i = 1 => From(i) = 0
  BY Shape DEF From
<1>3. ASSUME i + 1 \in DOMAIN vol.layout
      PROVE  From(i + 1) = From(i) + (Stop(i) - Start(i))
  <2>1. i \in Nat \ {0} /\ i + 1 # 1 /\ (i + 1) - 1 = i
    BY Shape
  <2>2. vol.layout[i+1].vcn = vol.layout[i].vcn + vol.layout[i].len
    BY <1>3, <2>1, Shape
  <2>3. vol.layout[i].vcn \in Nat /\ vol.layout[i].len \in Nat /\ vol.bpc \in Nat
    BY Shape
  <2>4. \A a, b, c \in Nat : (a + b) * c = a * c + b * c
    OBVIOUS
  <2>5. From(i + 1) = From(i) + vol.layout[i].len * vol.bpc
    BY <2>2, <2>3, <2>4 DEF From
  <2> QED BY <1>1, <2>5
<1>4. ASSUME NEW j \in DOMAIN vol.layout, i # j
      PROVE  Stop(i) \leq Start(j) \/ Stop(j) \leq Start(i)
  <2>1. \/ vol.layout[i].lcn + vol.layout[i].len \leq vol.layout[j].lcn
        \/ vol.layout[j].lcn + vol.layout[j].len \leq vol.layout[i].lcn
    BY <1>4, Shape
  <2>2. /\ vol.layout[i].lcn \in Nat /\ vol.layout[i].lcn + vol.layout[i].len \in Nat
        /\ vol.layout[j].lcn \in Nat /\ vol.layout[j].lcn + vol.layout[j].len \in Nat
        /\ vol.bpc \in Nat
    BY Shape
  <2> QED BY <2>1, <2>2, TimesKeeps DEF Start, Stop
<1> QED
  BY <1>1, <1>2, <1>3, <1>4 DEF Laid

LEMMA TimesAdds ==
  ASSUME NEW a \in Nat, NEW b \in Nat, NEW c \in Nat PROVE (a + b) * c = a * c + b * c
OBVIOUS

LEMMA TimesSame ==
  ASSUME NEW a \in Nat, NEW b \in Nat, NEW c \in Nat \ {0}, a * c = b * c PROVE a = b
<1>1. ASSUME NEW x \in Nat, NEW y \in Nat, x < y PROVE x * c # y * c
  <2>1. (x + 1) * c \leq y * c
    BY <1>1, TimesKeeps
  <2>2. (x + 1) * c = x * c + c /\ x * c \in Nat /\ y * c \in Nat
    OBVIOUS
  <2> QED BY <2>1, <2>2
<1>2. a < b \/ b < a \/ a = b
  OBVIOUS
<1> QED
  BY <1>1, <1>2

\* Up to where the pieces before piece i hold the table.
Before(i) == IF i = 1 THEN 0 ELSE From(i - 1) + (Stop(i - 1) - Start(i - 1))

LEMMA BeforeIs ==
  ASSUME vol \in Volumes, Dense, NEW i \in DOMAIN vol.layout
  PROVE  Before(i) = From(i) /\ Before(i + 1) = From(i) + (Stop(i) - Start(i))
<1>1. i \in Nat \ {0} /\ Laid(i) /\ DOMAIN vol.layout = 1..Len(vol.layout)
  <2>1. vol.layout \in Seq([vcn : Nat, lcn : Nat \cup {Sparse}, len : Nat])
    BY VolumeShapes
  <2>2. DOMAIN vol.layout = 1..Len(vol.layout)
    BY <2>1
  <2> QED BY <2>2, Shape, LaidOut
<1>2. i + 1 # 1 /\ (i + 1) - 1 = i
  BY <1>1
<1>3. CASE i = 1
  BY <1>1, <1>2, <1>3 DEF Before, Laid
<1>4. CASE i # 1
  <2>1. i - 1 \in DOMAIN vol.layout /\ (i - 1) + 1 = i
    BY <1>1, <1>4
  <2>2. Laid(i - 1)
    BY <2>1, LaidOut
  <2> QED BY <1>2, <1>4, <2>1, <2>2 DEF Before, Laid
<1> QED
  BY <1>3, <1>4

\* Where a read of the run goes on: as far into the table as into the piece, up to
\* the end of the piece or of what is valid.
Reading(r) ==
  /\ r.at \in DOMAIN vol.layout
  /\ r.pos \geq Start(r.at) /\ r.total = From(r.at) + (r.pos - Start(r.at))
  /\ r.pos + r.left \leq Stop(r.at)
  /\ r.total + r.left \in {Before(r.at + 1), vol.valid}

\* The reader is where the table goes on.  Only a read that fails takes it elsewhere.
Placed ==
  /\ phase \in {"run", "read"} => FrontOf(reader.runs, vol.layout)
  /\ phase = "run" => reader.total \in {Before(reader.at), vol.valid}
  /\ phase = "read" => Reading(reader)

Numbered ==
  /\ reader.num * vol.rec = reader.total
  /\ \A n \in DOMAIN entries : entries[n] = n /\ n < vol.valid \div vol.rec
  /\ Placed

\* Only runs that are whole records and reads that do not fail keep the count.
Counted == Dense /\ ~slipped => Numbered

\* The bytes read are those of the piece: the record found is the one kept there.
LEMMA RecordPlace ==
  ASSUME ScanTyped, Dense, Reading(reader), NEW n \in Nat, n \leq reader.left,
         NEW i \in 0..(n \div vol.rec) - 1
  PROVE  /\ i \in Nat /\ i * vol.rec \in Nat /\ i * vol.rec + vol.rec \leq n
         /\ \A r \in RecordAt(reader.pos + i * vol.rec) :
              r \in Number /\ r * vol.rec = reader.total + i * vol.rec
         /\ \A r \in Number :
              r * vol.rec = reader.total + i * vol.rec => r \in RecordAt(reader.pos + i * vol.rec)
<1> DEFINE x == reader.pos + i * vol.rec
           at == reader.at
<1>1. /\ vol.rec \in Nat \ {0} /\ reader.total \in Nat /\ reader.left \in Nat
      /\ reader.pos \in Int /\ DOMAIN vol.records \subseteq Nat
  BY TypedParts, VolumeIs DEF ScanTyped
<1>2. i \in Nat /\ i * vol.rec \in Nat /\ i * vol.rec + vol.rec \leq n
  <2>1. n \div vol.rec \in Nat /\ (n \div vol.rec) * vol.rec \leq n
    BY <1>1, DivType
  <2> DEFINE k == n \div vol.rec
  <2>2. k \in Nat /\ k * vol.rec \leq n /\ i \in Nat /\ i + 1 \leq k
    BY <2>1
  <2> HIDE DEF k
  <2>3. (i + 1) * vol.rec \leq k * vol.rec
    BY <1>1, <2>2, TimesKeeps
  <2>4. (i + 1) * vol.rec = i * vol.rec + vol.rec /\ i * vol.rec \in Nat /\ k * vol.rec \in Nat
    BY <1>1, <2>2
  <2> QED BY <1>1, <2>2, <2>3, <2>4
<1>3. vol \in Volumes /\ at \in DOMAIN vol.layout /\ Laid(at)
  BY LaidOut DEF ScanTyped, Reading
<1> DEFINE y == i * vol.rec
<1>4. y \in Nat /\ y + vol.rec \leq n /\ x = reader.pos + y
  BY <1>2
<1> HIDE DEF y, x
<1>5. /\ x \geq Start(at) /\ x + vol.rec \leq Stop(at) /\ x \in Int
      /\ Start(at) \in Nat /\ Stop(at) \in Nat /\ From(at) \in Nat
      /\ reader.total + y = From(at) + (x - Start(at))
  BY <1>1, <1>3, <1>4 DEF Reading, Laid
<1>6. ASSUME NEW r \in RecordAt(x) PROVE r \in Number /\ r * vol.rec = reader.total + y
  <2>1. r \in DOMAIN vol.records /\ r * vol.rec + 0 \in PlaceInTable(x + 0)
    <3>1. 0 \in 0..vol.rec - 1
      BY <1>1
    <3> QED BY <3>1 DEF RecordAt
  <2>2. r \in Nat /\ r * vol.rec \in Nat
    BY <1>1, <2>1
  <2>3. r * vol.rec \in PlaceInTable(x)
    BY <1>5, <2>1, <2>2
  <2>4. PICK j \in DOMAIN vol.layout :
          x \geq Start(j) /\ x < Stop(j) /\ r * vol.rec = From(j) + (x - Start(j))
    BY <2>3 DEF PlaceInTable, From, Start, Stop
  <2>5. Laid(j)
    BY <1>3, LaidOut
  <2>6. j = at
    BY <1>1, <1>3, <1>5, <2>4, <2>5 DEF Laid
  <2> QED BY <1>5, <2>1, <2>4, <2>6 DEF Number
<1>7. ASSUME NEW r \in Number, r * vol.rec = reader.total + y PROVE r \in RecordAt(x)
  <2>1. ASSUME NEW k \in 0..vol.rec - 1 PROVE r * vol.rec + k \in PlaceInTable(x + k)
    <3>1. k \in Nat /\ k < vol.rec
      BY <1>1
    <3>2. x + k \geq Start(at) /\ x + k < Stop(at)
      BY <1>1, <1>5, <3>1
    <3>3. r * vol.rec + k = From(at) + ((x + k) - Start(at))
      BY <1>1, <1>4, <1>5, <1>7, <3>1
    <3>4. vol.layout[at].lcn # Sparse
      BY <1>3 DEF Dense
    <3> QED BY <1>3, <3>2, <3>3, <3>4 DEF PlaceInTable, From, Start, Stop
  <2> QED BY <2>1 DEF RecordAt, Number
<1> QED
  BY <1>2, <1>6, <1>7 DEF x, y

\* So its number is the one counted to.
LEMMA RecordIs ==
  ASSUME ScanTyped, Dense, Reading(reader), reader.num * vol.rec = reader.total,
         NEW n \in Nat, n \leq reader.left, NEW i \in 0..(n \div vol.rec) - 1
  PROVE  /\ reader.num + i \in Nat
         /\ \A r : r \in RecordAt(reader.pos + i * vol.rec) <=> r \in Number /\ r = reader.num + i
<1>1. vol.rec \in Nat \ {0} /\ reader.num \in Nat /\ Number \subseteq Nat /\ i \in Nat
  BY TypedParts, VolumeIs, RecordPlace DEF ScanTyped, Number
<1>2. (reader.num + i) * vol.rec = reader.total + i * vol.rec
  BY <1>1, TimesAdds
<1>3. reader.num + i \in Nat
  BY <1>1
<1> DEFINE m == reader.num + i
<1> HIDE DEF m
<1>4. ASSUME NEW r \in Number, r * vol.rec = m * vol.rec PROVE r = m
  BY <1>1, <1>3, <1>4, TimesSame DEF m
<1> QED
  BY <1>2, <1>3, <1>4, RecordPlace DEF m

\* The run under way is the piece.
LEMMA RunIsPiece ==
  ASSUME ScanTyped, Dense, FrontOf(reader.runs, vol.layout), reader.at \leq Len(reader.runs)
  PROVE  /\ reader.at \in DOMAIN vol.layout /\ Laid(reader.at)
         /\ Run.lcn * vol.bpc = Start(reader.at)
         /\ Run.len * vol.bpc = Stop(reader.at) - Start(reader.at)
<1>1. vol \in Volumes /\ reader.at \in 1..Len(reader.runs) /\ Len(reader.runs) \in Nat
  BY TypedParts DEF ScanTyped
<1>2. reader.at \in DOMAIN vol.layout
  <2>1. vol.layout \in Seq([vcn : Nat, lcn : Nat \cup {Sparse}, len : Nat])
    BY <1>1, VolumeShapes
  <2>2. DOMAIN vol.layout = 1..Len(vol.layout) /\ Len(vol.layout) \in Nat
    BY <2>1
  <2> QED BY <1>1, <2>2 DEF FrontOf
<1>3. Run.lcn = vol.layout[reader.at].lcn /\ Run.len = vol.layout[reader.at].len
  BY <1>1 DEF FrontOf, Run
<1>4. Laid(reader.at)
  BY <1>1, <1>2, LaidOut
<1> QED
  BY <1>2, <1>3, <1>4 DEF Laid, Start

\* Dense and the shape of the volume are the same after a step.
LEMMA VolumeSame ==
  ASSUME vol' = vol
  PROVE  /\ Dense' = Dense
         /\ \A i : /\ From(i)' = From(i) /\ Start(i)' = Start(i) /\ Stop(i)' = Stop(i)
                   /\ Before(i)' = Before(i)
BY DEF Dense, From, Start, Stop, Before

LEMMA ReadHeadPlaced == ASSUME ScanTyped, Dense, ReadHead PROVE Placed'
<1> DEFINE runs == IF vol.bytes = Unreadable THEN <<>> ELSE DataRuns(vol.bytes)
<1>1. CASE runs = <<>>
  BY <1>1 DEF ReadHead, Fallback, Placed
<1>2. CASE runs # <<>>
  <2>1. /\ phase' = "run" /\ reader' = [NoReader EXCEPT !.runs = runs] /\ vol' = vol
    BY <1>2 DEF ReadHead
  <2>2. FrontOf(runs, vol.layout)
    BY <1>2, RunListRead DEF Dense, ScanTyped
  <2> HIDE DEF runs
  <2>3. reader'.total = 0 /\ reader'.at = 1 /\ reader'.runs = runs
    BY <2>1 DEF NoReader
  <2> QED BY <2>1, <2>2, <2>3 DEF Placed, Before
<1> QED
  BY <1>1, <1>2

LEMMA SeekPlaced == ASSUME ScanTyped, Dense, Placed, Seek PROVE Placed'
<1>1. /\ phase' = "read" /\ phase = "run" /\ RunsLeft
      /\ reader' = [reader EXCEPT !.left = RunBytes, !.pos = Run.lcn * vol.bpc]
      /\ UNCHANGED <<vol, entries, cache, paths, faults, slipped>>
  BY DEF Seek
<1>2. FrontOf(reader.runs, vol.layout) /\ reader.at \leq Len(reader.runs)
  BY <1>1 DEF Placed, RunsLeft
<1>3. /\ reader.at \in DOMAIN vol.layout /\ Laid(reader.at) /\ Run.lcn * vol.bpc = Start(reader.at)
      /\ Run.len * vol.bpc = Stop(reader.at) - Start(reader.at)
  BY <1>2, RunIsPiece
<1>4. reader \in ReaderType /\ reader.total \in Nat /\ vol.valid \in Nat /\ vol \in Volumes
  BY TypedParts DEF ScanTyped, Fits
<1>5. /\ reader.total = From(reader.at)
      /\ Before(reader.at + 1) = From(reader.at) + (Stop(reader.at) - Start(reader.at))
  <2>1. reader.total \in {From(reader.at), vol.valid} /\ reader.total < vol.valid
    BY <1>1, <1>3, <1>4, BeforeIs DEF Placed, RunsLeft
  <2>2. reader.total # vol.valid
    BY <1>4, <2>1
  <2> QED BY <1>3, <1>4, <2>1, <2>2, BeforeIs
<1>6. /\ reader'.pos = Start(reader.at) /\ reader'.left = RunBytes /\ reader'.at = reader.at
      /\ reader'.total = reader.total /\ reader'.runs = reader.runs
  BY <1>1, <1>3, <1>4 DEF ReaderType
<1>7. /\ RunBytes \in Nat /\ RunBytes \leq Run.len * vol.bpc
      /\ RunBytes \in {Run.len * vol.bpc, vol.valid - reader.total}
  BY <1>1, RunBytesType
<1> DEFINE a == reader.at
<1>8. /\ RunBytes \leq Stop(a) - Start(a)
      /\ RunBytes \in {Stop(a) - Start(a), vol.valid - reader.total}
  BY <1>3, <1>7
<1>9. From(a) \in Nat /\ Start(a) \in Nat /\ Stop(a) \in Nat
  BY <1>3 DEF Laid
<1>10. Start(a) + RunBytes \leq Stop(a)
       /\ reader.total + RunBytes \in {Before(a + 1), vol.valid}
       /\ reader.total = From(a) + (Start(a) - Start(a))
  BY <1>4, <1>5, <1>7, <1>8, <1>9
<1>11. Reading(reader')
  BY <1>3, <1>6, <1>9, <1>10 DEF Reading
<1>12. Reading(reader)'
  BY <1>1, <1>11 DEF Reading, From, Start, Stop, Before
<1> QED
  BY <1>1, <1>2, <1>6, <1>12 DEF Placed

LEMMA SeekFailsPlaced == ASSUME ScanTyped, Dense, Placed, SeekFails PROVE Placed'
<1>1. /\ phase = "run" /\ phase' = "run" /\ RunsLeft
      /\ reader' = [reader EXCEPT !.at = @ + 1, !.total = @ + RunBytes,
                                  !.num = @ + RunBytes \div vol.rec]
      /\ vol' = vol
  BY DEF SeekFails, PassedOver
<1>2. FrontOf(reader.runs, vol.layout) /\ reader.at \leq Len(reader.runs)
  BY <1>1 DEF Placed, RunsLeft
<1>3. /\ reader.at \in DOMAIN vol.layout /\ Laid(reader.at)
      /\ Run.len * vol.bpc = Stop(reader.at) - Start(reader.at)
  BY <1>2, RunIsPiece
<1>4. reader \in ReaderType /\ reader.total \in Nat /\ vol.valid \in Nat /\ vol \in Volumes
  BY TypedParts DEF ScanTyped, Fits
<1>5. /\ reader.total = From(reader.at)
      /\ Before(reader.at + 1) = From(reader.at) + (Stop(reader.at) - Start(reader.at))
  <2>1. reader.total \in {From(reader.at), vol.valid} /\ reader.total < vol.valid
    BY <1>1, <1>3, <1>4, BeforeIs DEF Placed, RunsLeft
  <2>2. reader.total # vol.valid
    BY <1>4, <2>1
  <2> QED BY <1>3, <1>4, <2>1, <2>2, BeforeIs
<1>6. /\ RunBytes \in Nat
      /\ RunBytes \in {Stop(reader.at) - Start(reader.at), vol.valid - reader.total}
  BY <1>1, <1>3, RunBytesType
<1>7. reader.total + RunBytes \in {Before(reader.at + 1), vol.valid}
  BY <1>3, <1>4, <1>5, <1>6 DEF Laid
<1>8. /\ reader'.at = reader.at + 1 /\ reader'.runs = reader.runs
      /\ reader'.total = reader.total + RunBytes
  BY <1>1, <1>4 DEF ReaderType
<1>9. Before(reader.at)' = Before(reader.at + 1)
  BY <1>1, <1>8, VolumeSame DEF Before, From, Start, Stop
<1> QED
  BY <1>1, <1>2, <1>7, <1>8, <1>9 DEF Placed

LEMMA ParsedPlaced ==
  ASSUME ScanTyped, Dense, Placed, phase = "read", NEW n \in Nat, n \leq reader.left, Parsed(n)
  PROVE  Placed'
<1>1. CASE Fallback
  BY <1>1 DEF Fallback, Placed
<1>2. CASE ~Fallback
  <2>1. /\ vol' = vol
        /\ phase' = (IF reader.left - n > 0 THEN "read" ELSE "run")
        /\ reader' = [reader EXCEPT !.pos = @ + n, !.left = reader.left - n, !.total = @ + n,
                        !.num = @ + n \div vol.rec, !.at = IF reader.left - n > 0 THEN @ ELSE @ + 1]
    BY <1>2, ParsedIs
  <2>2. FrontOf(reader.runs, vol.layout) /\ Reading(reader)
    BY DEF Placed
  <2>3. /\ reader \in ReaderType /\ reader.total \in Nat /\ reader.left \in Nat /\ reader.pos \in Int
        /\ vol \in Volumes
    BY TypedParts DEF ScanTyped, Fits
  <2> DEFINE a == IF reader.left - n > 0 THEN reader.at ELSE reader.at + 1
             p == reader.pos + n
             l == reader.left - n
             t == reader.total + n
  <2>4. /\ reader'.at = a /\ reader'.pos = p /\ reader'.left = l /\ reader'.total = t
        /\ reader'.runs = reader.runs
    BY <2>1, <2>3 DEF ReaderType
  <2>5. /\ l \in Nat /\ (l = 0 => a = reader.at + 1) /\ (l # 0 => a = reader.at)
        /\ phase' = IF l = 0 THEN "run" ELSE "read"
    BY <2>1, <2>3
  <2>6. reader.at \in DOMAIN vol.layout /\ Laid(reader.at)
    BY <2>2, <2>3, LaidOut DEF Reading
  <2> DEFINE f == From(reader.at)
             s == Start(reader.at)
             e == Stop(reader.at)
             b == Before(reader.at + 1)
  <2>7. f \in Nat /\ s \in Nat /\ e \in Nat
    BY <2>6 DEF Laid
  <2>8. /\ reader.pos \geq s /\ reader.total = f + (reader.pos - s) /\ reader.pos + reader.left \leq e
        /\ reader.total + reader.left \in {b, vol.valid}
    BY <2>2 DEF Reading
  <2> HIDE DEF f, s, e, b
  <2>9. p \geq s /\ t = f + (p - s) /\ p + l \leq e /\ t + l \in {b, vol.valid} /\ t \in Nat
    <3>1. t + l = reader.total + reader.left /\ p + l = reader.pos + reader.left
      BY <2>3
    <3>2. p \geq s /\ t = f + (p - s) /\ t \in Nat
      BY <2>3, <2>7, <2>8
    <3> HIDE DEF p, l, t
    <3> QED BY <2>8, <3>1, <3>2
  <2> HIDE DEF a, p, l, t
  <2>10. CASE l # 0
    <3>1. reader'.at = reader.at /\ vol'.valid = vol.valid
      BY <2>1, <2>4, <2>5, <2>10
    <3>2. /\ From(reader.at)' = f /\ Start(reader.at)' = s /\ Stop(reader.at)' = e
          /\ Before(reader.at + 1)' = b /\ reader'.at \in DOMAIN vol'.layout
      BY <2>1, <2>6, <3>1 DEF From, Start, Stop, Before, f, s, e, b
    <3>3. Reading(reader)'
      BY <2>4, <2>9, <3>1, <3>2 DEF Reading
    <3> QED BY <2>1, <2>2, <2>4, <2>5, <2>10, <3>3 DEF Placed
  <2>11. CASE l = 0
    <3>1. Before(reader.at)' = b
      BY <2>1, <2>4, <2>5, <2>11 DEF From, Start, Stop, Before, b
    <3>2. t \in {b, vol.valid}
      BY <2>9, <2>11
    <3> QED BY <2>1, <2>2, <2>4, <2>5, <2>11, <3>1, <3>2 DEF Placed
  <2> QED BY <2>10, <2>11
<1> QED
  BY <1>1, <1>2

LEMMA SamePlaced == ASSUME Placed, UNCHANGED vars PROVE Placed'
<1>1. Reading(reader)' = Reading(reader) /\ Before(reader.at)' = Before(reader.at)
  BY DEF vars, Reading, Before, From, Start, Stop
<1> QED
  BY <1>1 DEF vars, Placed

LEMMA StartCounted ==
  ASSUME vol \in Volumes, entries = Nothing, reader.num = 0, reader.total = 0,
         phase \notin {"run", "read"}
  PROVE  Numbered
<1>1. vol.rec \in Nat
  BY VolumeIs
<1>2. reader.num * vol.rec = reader.total
  BY <1>1
<1> QED
  BY <1>2, NothingIs DEF Numbered, Placed

LEMMA InitCounted == Init => Counted
<1> SUFFICES ASSUME Init PROVE Numbered
  BY DEF Counted
<1>1. vol \in Volumes /\ entries = Nothing /\ phase = "head" /\ reader = NoReader
  BY DEF Init
<1> QED
  BY <1>1, StartCounted DEF NoReader

LEMMA FallbackCounted ==
  ASSUME ScanTyped, Fallback PROVE Numbered'
<1>1. vol' = vol /\ entries' = Nothing /\ phase' = "usn" /\ reader' = NoReader /\ vol \in Volumes
  BY DEF Fallback, ScanTyped
<1>2. reader'.num = 0 /\ reader'.total = 0 /\ vol.rec \in Nat
  BY <1>1, VolumeIs DEF NoReader
<1>3. reader'.num * vol'.rec = reader'.total
  BY <1>1, <1>2
<1>4. DOMAIN entries' = {}
  BY <1>1, NothingIs
<1> QED
  BY <1>1, <1>3, <1>4 DEF Numbered, Placed

LEMMA ReadHeadCounted ==
  ASSUME ScanTyped, Counted, ReadHead PROVE Counted'
<1>1. CASE Fallback
  BY <1>1, FallbackCounted DEF Counted
<1>2. CASE ~Fallback
  <2>1. /\ vol' = vol /\ entries' = entries /\ slipped' = slipped
        /\ reader'.num = 0 /\ reader'.total = 0
    BY <1>2 DEF ReadHead, NoReader
  <2> SUFFICES ASSUME Dense', ~slipped' PROVE Numbered'
    BY DEF Counted
  <2>2. Dense /\ Numbered /\ vol.rec \in Nat
    BY <2>1, VolumeSame, TypedParts DEF Counted
  <2>3. reader'.num * vol'.rec = reader'.total
    BY <2>1, <2>2
  <2> QED BY <2>1, <2>2, <2>3, ReadHeadPlaced DEF Numbered
<1> QED
  BY <1>1, <1>2

LEMMA SeekCounted == ASSUME ScanTyped, Counted, Seek PROVE Counted'
<1>1. reader \in ReaderType /\ vol' = vol /\ entries' = entries /\ slipped' = slipped
  BY DEF Seek, ScanTyped, Fits
<1>2. reader'.num = reader.num /\ reader'.total = reader.total
  BY <1>1 DEF Seek, ReaderType
<1> QED
  BY <1>1, <1>2, VolumeSame, SeekPlaced DEF Counted, Numbered

LEMMA SeekFailsCounted == ASSUME ScanTyped, Counted, SeekFails PROVE Counted'
<1>1. /\ RunsLeft /\ vol' = vol /\ entries' = entries
      /\ reader' = [reader EXCEPT !.at = @ + 1, !.total = @ + RunBytes,
                                  !.num = @ + RunBytes \div vol.rec]
      /\ slipped' = (slipped \/ RunBytes % vol.rec # 0)
  BY DEF SeekFails, PassedOver
<1> SUFFICES ASSUME Dense', ~slipped' PROVE Numbered'
  BY DEF Counted
<1>2. Dense /\ Numbered /\ RunBytes % vol.rec = 0
  BY <1>1, VolumeSame DEF Counted
<1>3. /\ reader \in ReaderType /\ reader.total \in Nat /\ reader.num \in Nat
      /\ vol.rec \in Nat \ {0} /\ RunBytes \in Nat
  BY <1>1, TypedParts, RunBytesType DEF ScanTyped, Fits
<1> DEFINE k == RunBytes \div vol.rec
<1>4. k \in Nat /\ RunBytes = k * vol.rec
  BY <1>2, <1>3, DivType
<1>5. reader'.num = reader.num + k /\ reader'.total = reader.total + RunBytes
  BY <1>1, <1>3 DEF ReaderType
<1> HIDE DEF k
<1>6. (reader.num + k) * vol.rec = reader.num * vol.rec + k * vol.rec
  BY <1>3, <1>4, TimesAdds
<1>7. reader'.num * vol'.rec = reader'.total
  BY <1>1, <1>2, <1>4, <1>5, <1>6 DEF Numbered
<1> QED
  BY <1>1, <1>2, <1>7, SeekFailsPlaced DEF Numbered

LEMMA ParsedCounted ==
  ASSUME ScanTyped, Counted, phase = "read", NEW n \in Nat, n \leq reader.left, Parsed(n)
  PROVE  Counted'
<1>1. CASE Fallback
  BY <1>1, FallbackCounted DEF Counted
<1>2. CASE ~Fallback
  <2> SUFFICES ASSUME Dense', ~slipped' PROVE Numbered'
    BY DEF Counted
  <2>1. /\ vol' = vol
        /\ \A x \in DOMAIN entries' :
             \/ x \in DOMAIN entries /\ entries'[x] = entries[x]
             \/ \E i \in DOMAIN ReadRecords(reader.pos, n) :
                  /\ x = reader.num + i /\ entries'[x] \in ReadRecords(reader.pos, n)[i]
                  /\ ParseRecord(vol.records[entries'[x]]) # NoEntry
        /\ reader' = [reader EXCEPT !.pos = @ + n, !.left = reader.left - n, !.total = @ + n,
                        !.num = @ + n \div vol.rec, !.at = IF reader.left - n > 0 THEN @ ELSE @ + 1]
        /\ slipped' = (slipped \/ n % vol.rec # 0)
    BY <1>2, ParsedIs
  <2>2. Dense /\ Numbered /\ n % vol.rec = 0
    BY <2>1, VolumeSame DEF Counted
  <2>3. Reading(reader) /\ reader.num * vol.rec = reader.total
    BY <2>2 DEF Numbered, Placed
  <2>4. /\ reader \in ReaderType /\ reader.total \in Nat /\ reader.num \in Nat
        /\ vol.rec \in Nat \ {0}
    BY TypedParts DEF ScanTyped, Fits
  <2>5. ASSUME NEW x \in DOMAIN entries'
        PROVE  entries'[x] = x /\ x < vol.valid \div vol.rec
    <3>1. CASE x \in DOMAIN entries /\ entries'[x] = entries[x]
      BY <2>2, <3>1 DEF Numbered
    <3>2. ASSUME NEW i \in DOMAIN ReadRecords(reader.pos, n),
                 x = reader.num + i, entries'[x] \in ReadRecords(reader.pos, n)[i],
                 ParseRecord(vol.records[entries'[x]]) # NoEntry
          PROVE  entries'[x] = x /\ x < vol.valid \div vol.rec
      <4>1. /\ i \in 0..(n \div vol.rec) - 1 /\ entries'[x] \in RecordAt(reader.pos + i * vol.rec)
            /\ reader.num + i < vol.valid \div vol.rec
        BY <3>2, ReadIs
      <4>2. entries'[x] = reader.num + i
        BY <2>2, <2>3, <4>1, RecordIs
      <4> QED BY <3>2, <4>1, <4>2
    <3> QED BY <2>1, <3>1, <3>2
  <2> DEFINE k == n \div vol.rec
  <2>6. k \in Nat /\ n = k * vol.rec
    BY <2>2, <2>4, DivType
  <2>7. reader'.num = reader.num + k /\ reader'.total = reader.total + n
    BY <2>1, <2>4 DEF ReaderType
  <2> HIDE DEF k
  <2>8. (reader.num + k) * vol.rec = reader.num * vol.rec + k * vol.rec
    BY <2>4, <2>6, TimesAdds
  <2>9. reader'.num * vol'.rec = reader'.total
    BY <2>1, <2>3, <2>6, <2>7, <2>8
  <2> QED BY <2>1, <2>2, <2>5, <2>9, ParsedPlaced DEF Numbered
<1> QED
  BY <1>1, <1>2

LEMMA UsnBatchCounted == ASSUME ScanTyped, Counted, UsnBatch PROVE Counted'
<1>1. /\ phase = "usn" /\ Offered # {} /\ reader' = [reader EXCEPT !.next = NextRef]
      /\ entries' = [n \in DOMAIN entries \cup {x \in Batch : Named(vol.records[x])} |-> n]
      /\ UNCHANGED <<vol, phase, cache, paths, faults, slipped>>
  BY DEF UsnBatch
<1> SUFFICES ASSUME Dense', ~slipped' PROVE Numbered'
  BY DEF Counted
<1>2. Dense /\ Numbered /\ reader \in ReaderType
  BY <1>1, VolumeSame DEF Counted, ScanTyped, Fits
<1>3. reader'.num = reader.num /\ reader'.total = reader.total
  BY <1>1, <1>2 DEF ReaderType
<1>4. ASSUME NEW n \in DOMAIN entries' PROVE entries'[n] = n /\ n < vol.valid \div vol.rec
  <2>1. CASE n \in DOMAIN entries
    BY <1>1, <1>2, <2>1 DEF Numbered
  <2>2. CASE n \notin DOMAIN entries
    BY <1>1, <2>2 DEF Batch, Offered
  <2> QED BY <2>1, <2>2
<1> QED
  BY <1>1, <1>2, <1>3, <1>4 DEF Numbered, Placed

LEMMA ToResolveCounted ==
  ASSUME ScanTyped, Counted, reader' = NoReader, UNCHANGED <<vol, entries, slipped>>,
         phase' = "resolve"
  PROVE  Counted'
<1> SUFFICES ASSUME Dense', ~slipped' PROVE Numbered'
  BY DEF Counted
<1>1. Dense /\ Numbered /\ vol.rec \in Nat
  BY VolumeSame, TypedParts DEF Counted
<1>2. reader'.num * vol'.rec = reader'.total
  BY <1>1 DEF NoReader
<1> QED
  BY <1>1, <1>2 DEF Numbered, Placed

LEMMA NextCounted == ASSUME ScanTyped, Counted, [Next]_vars PROVE Counted'
<1>1. CASE ReadHead
  BY <1>1, ReadHeadCounted
<1>2. CASE HeadFails
  BY <1>2, FallbackCounted DEF HeadFails, Counted
<1>3. CASE Seek
  BY <1>3, SeekCounted
<1>4. CASE SeekFails
  BY <1>4, SeekFailsCounted
<1>5. CASE RunsDone
  BY <1>5, ToResolveCounted DEF RunsDone
<1>6. CASE Read
  BY <1>6, WantedType, ParsedCounted DEF Read
<1>7. CASE ReadShort
  <2>1. PICK n \in 1..Wanted-1 : Parsed(n)
    BY <1>7 DEF ReadShort
  <2>2. n \in Nat /\ n \leq reader.left
    BY WantedType, TypedParts
  <2> QED BY <1>7, <2>1, <2>2, ParsedCounted DEF ReadShort
<1>8. CASE ReadFails
  BY <1>8 DEF ReadFails, Counted
<1>9. CASE UsnBatch
  BY <1>9, UsnBatchCounted
<1>10. CASE UsnEnds
  BY <1>10, ToResolveCounted DEF UsnEnds
<1>11. CASE Resolve
  <2>1. reader \in ReaderType
    BY DEF ScanTyped, Fits
  <2>2. PICK n \in DOMAIN entries : reader' = [reader EXCEPT !.next = n + 1]
    BY <1>11, FirstUnresolved
  <2>3. reader'.num = reader.num /\ reader'.total = reader.total
    BY <2>1, <2>2 DEF ReaderType
  <2> QED BY <1>11, <2>3, VolumeSame DEF Resolve, Counted, Numbered, Placed
<1>12. CASE Done
  BY <1>12, VolumeSame DEF Done, Counted, Numbered, Placed
<1>13. CASE Ended \/ UNCHANGED vars
  <2>1. UNCHANGED vars
    BY <1>13 DEF Ended
  <2>2. Dense /\ Placed => Placed'
    BY <2>1, SamePlaced
  <2> QED BY <2>1, <2>2, VolumeSame DEF vars, Counted, Numbered
<1> QED
  BY <1>1, <1>2, <1>3, <1>4, <1>5, <1>6, <1>7, <1>8, <1>9, <1>10, <1>11, <1>12, <1>13 DEF Next

LEMMA CountedRight == Counted => NumbersRight
BY DEF Counted, Numbered, NumbersRight

\* In whatever pieces, order and clusters the table lies on the volume, of whatever
\* size its records, however runs are left out and reads come back short: until a
\* read fails or ends inside a record, or a run does, every entry is listed under
\* the number of its own record.
THEOREM NumbersHold == Spec => []NumbersRight
<1>1. Init => Counted
  BY InitCounted
<1>2. ScanTyped /\ Counted /\ [Next]_vars => Counted'
  BY NextCounted
<1> QED
  BY <1>1, <1>2, AlwaysTyped, CountedRight, PTL DEF Spec

-----------------------------------------------------------------------------
(* The name of a record *)

LEMMA SpacesAre ==
  /\ DOMAIN Spaces = 1..4
  /\ \A k \in 1..4 : Spaces[k] \in {"win32", "both", "posix", "dos"} /\ Priority(Spaces[k]) = 5 - k
  /\ \A ns \in {"win32", "both", "posix", "dos"} : \E k \in 1..4 : Spaces[k] = ns
<1>1. DOMAIN Spaces = 1..4
  BY DEF Spaces
<1>2. /\ Spaces[1] = "win32" /\ Spaces[2] = "both" /\ Spaces[3] = "posix" /\ Spaces[4] = "dos"
  BY DEF Spaces
<1>3. /\ Priority("win32") = 4 /\ Priority("both") = 3 /\ Priority("posix") = 2 /\ Priority("dos") = 1
  BY DEF Priority
<1>4. \A k \in 1..4 : k = 1 \/ k = 2 \/ k = 3 \/ k = 4
  OBVIOUS
<1>5. \A k \in 1..4 : Spaces[k] \in {"win32", "both", "posix", "dos"} /\ Priority(Spaces[k]) = 5 - k
  BY <1>2, <1>3, <1>4
<1>6. 1 \in 1..4 /\ 2 \in 1..4 /\ 3 \in 1..4 /\ 4 \in 1..4
  OBVIOUS
<1> QED
  BY <1>1, <1>2, <1>5, <1>6

\* The best name, by the priorities of the code, is the long name a user sees.
LEMMA LongIsBest ==
  ASSUME NEW rec, Names(rec) # {}, \A i \in DOMAIN rec.attrs : i \in Nat,
         \A i \in DOMAIN rec.attrs :
           rec.attrs[i].type = "name" => rec.attrs[i].ns \in {"win32", "both", "posix", "dos"}
  PROVE  LongName(rec) = rec.attrs[Best(rec)]
<1> DEFINE Of(k) == {i \in Names(rec) : rec.attrs[i].ns = Spaces[k]}
           kinds == {k \in DOMAIN Spaces : Of(k) # {}}
           kind  == CHOOSE k \in kinds : \A j \in kinds : k \leq j
           b     == Best(rec)
           P(i)  == Priority(rec.attrs[i].ns)
<1>1. /\ b \in Names(rec)
      /\ \A j \in Names(rec) : P(b) > P(j) \/ (P(b) = P(j) /\ b \leq j)
  BY BestIs
<1>2. Names(rec) \subseteq Nat
  BY DEF Names, Walked
<1>3. \A i \in Names(rec) : rec.attrs[i].ns \in {"win32", "both", "posix", "dos"}
  BY DEF Names, Walked
<1>4. \A k \in 1..4 : \A i \in Of(k) : P(i) = 5 - k /\ i \in Names(rec)
  BY SpacesAre
<1>5. PICK k \in 1..4 : Spaces[k] = rec.attrs[b].ns
  BY <1>1, <1>3, SpacesAre
<1>6. b \in Of(k) /\ P(b) = 5 - k
  BY <1>1, <1>4, <1>5
<1>7. k \in kinds /\ kinds \subseteq 1..4
  BY <1>6, SpacesAre
<1>8. ASSUME NEW j \in kinds PROVE k \leq j
  <2>1. PICK i \in Of(j) : TRUE
    OBVIOUS
  <2>2. P(i) = 5 - j /\ i \in Names(rec) /\ j \in 1..4
    BY <1>4, <1>7, <2>1
  <2>3. P(b) > P(i) \/ P(b) = P(i)
    BY <1>1, <2>2
  <2> HIDE DEF P, kinds, Of
  <2> QED BY <1>6, <2>2, <2>3
<1>9. LongName(rec) = rec.attrs[CHOOSE i \in Of(kind) : \A j \in Of(kind) : i \leq j]
  <2>1. kinds # {}
    BY <1>7
  <2> QED BY <2>1 DEF LongName
<1>10. kind = k
  <2> HIDE DEF kinds
  <2>1. kind \in kinds /\ \A j \in kinds : kind \leq j
    BY <1>7, <1>8
  <2> HIDE DEF kind
  <2> QED BY <1>7, <1>8, <2>1
<1>11. \A j \in Of(k) : b \leq j
  <2> TAKE j \in Of(k)
  <2>1. P(j) = 5 - k /\ j \in Names(rec)
    BY <1>4
  <2>2. P(b) > P(j) \/ b \leq j
    BY <1>1, <2>1
  <2> HIDE DEF P, Of
  <2> QED BY <1>6, <2>1, <2>2
<1>12. Of(k) \subseteq Nat
  BY <1>2
<1>13. (CHOOSE i \in Of(k) : \A j \in Of(k) : i \leq j) = b
  <2> DEFINE c == CHOOSE i \in Of(k) : \A j \in Of(k) : i \leq j
  <2> HIDE DEF Of
  <2>1. c \in Of(k) /\ \A j \in Of(k) : c \leq j
    BY <1>6, <1>11
  <2> HIDE DEF c
  <2>2. c = b
    BY <1>6, <1>11, <1>12, <2>1
  <2> QED BY <2>2 DEF c
<1> HIDE DEF kind, Of
<1> QED
  BY <1>9, <1>10, <1>13

\* The records that are taken are those that are to be shown.
LEMMA NamedShown ==
  ASSUME NEW v \in Volumes, NEW n \in DOMAIN v.records
  PROVE  /\ Named(v.records[n]) <=> Shown(v.records[n])
         /\ Named(v.records[n]) =>
              /\ EntryOf(v.records[n]) # NoEntry /\ EntryOf(v.records[n]).name \in NamesOnDisk
              /\ EntryOf(v.records[n]).name = LongName(v.records[n]).name
              /\ EntryOf(v.records[n]).parent = LongName(v.records[n]).parent
<1> DEFINE rec == v.records[n]
           b == Best(rec)
<1>1. \A i \in DOMAIN rec.attrs : i \in Nat
  BY VolumeIs
<1>2. \A i \in DOMAIN rec.attrs :
        rec.attrs[i].type = "name" => rec.attrs[i].ns \in {"win32", "both", "posix", "dos"}
  BY RecordShapes
<1>3. \A i \in DOMAIN rec.attrs :
        /\ rec.attrs[i] # NoEntry /\ [name |-> rec.attrs[i].name, parent |-> rec.attrs[i].parent] # NoEntry
        /\ rec.attrs[i].name \in NamesOnDisk
  <2>1. \A i \in DOMAIN rec.attrs : 
          rec.attrs[i] # NoEntry /\ [name |-> rec.attrs[i].name, parent |-> rec.attrs[i].parent] # NoEntry
    BY NoEntryApart
  <2>2. \A i \in DOMAIN rec.attrs : rec.attrs[i].name \in NamesOnDisk
    BY DEF NamesOnDisk
  <2> QED BY <2>1, <2>2
<1>4. CASE Names(rec) = {}
  <2>1. LongName(rec) = NoEntry
    BY <1>4 DEF LongName
  <2> QED BY <1>4, <2>1 DEF Named, Shown
<1>5. CASE Names(rec) # {}
  <2>1. LongName(rec) = rec.attrs[b]
    BY <1>1, <1>2, <1>5, LongIsBest
  <2>2. b \in DOMAIN rec.attrs
    BY <1>1, <1>5, BestIs DEF Names, Walked
  <2>3. EntryOf(rec) = [name |-> rec.attrs[b].name, parent |-> rec.attrs[b].parent]
    BY DEF EntryOf
  <2>4. LongName(rec) # NoEntry /\ EntryOf(rec) # NoEntry /\ EntryOf(rec).name \in NamesOnDisk
    BY <1>3, <2>1, <2>2, <2>3
  <2> QED BY <1>5, <2>1, <2>3, <2>4 DEF Named, Shown
<1> QED
  BY <1>4, <1>5

-----------------------------------------------------------------------------
(* The way to the root *)

\* One folder up.
Up(x) == IF AtRoot(x) THEN x ELSE Listed(x).parent

LEMMA ListingIs ==
  ASSUME Listing, NEW n \in DOMAIN entries
  PROVE  /\ Field(n).name = Listed(n).name /\ Field(n).parent = Listed(n).parent
         /\ Listed(n).name \in NamesOnDisk /\ Listed(n).parent \in Nat /\ n \in Nat
<1>1. /\ vol \in Volumes /\ entries[n] \in DOMAIN vol.records /\ Named(vol.records[entries[n]])
      /\ n \in Nat
  BY DEF Listing, Number
<1>2. /\ EntryOf(vol.records[entries[n]]).name \in NamesOnDisk
      /\ EntryOf(vol.records[entries[n]]).name = LongName(vol.records[entries[n]]).name
      /\ EntryOf(vol.records[entries[n]]).parent = LongName(vol.records[entries[n]]).parent
  BY <1>1, NamedShown
<1>3. Field(n).parent \in Nat
  BY FieldType
<1> QED
  BY <1>1, <1>2, <1>3 DEF Field, Listed

LEMMA RootIs == ASSUME Listing, NEW x PROVE IsRoot(x) <=> AtRoot(x)
BY ListingIs DEF IsRoot, AtRoot

LEMMA UpType == ASSUME Listing, NEW x \in Nat PROVE Up(x) \in Nat
BY ListingIs DEF Up, AtRoot

\* w climbs from n.
Climbs(w, n) ==
  w \in [0..MaxDepth -> Nat] /\ w[0] = n /\ \A k \in 1..MaxDepth : w[k] = Up(w[k-1])

LEMMA WayIs ==
  ASSUME Listing, NEW n \in Nat
  PROVE  Climbs(Way(n), n)
<1> DEFINE step == [k \in Nat |-> [x \in Nat |-> Up(x)]]
           m == MaxDepth
           up[k \in 0..m] == IF k = 0 THEN n ELSE Up(up[k-1])
<1>1. m \in Nat
  BY ScanBounds
<1>2. step \in [Nat -> [Nat -> Nat]] /\ \A k \in Nat : \A x \in Nat : step[k][x] = Up(x)
  BY UpType
<1> HIDE DEF step
<1>3. PICK f : GoesUp(f, Nat, n, m, step)
  BY <1>1, <1>2, Recursion
<1>4. f \in [0..m -> Nat] /\ f[0] = n /\ \A k \in 1..m : f[k] = Up(f[k-1])
  <2>1. f \in [0..m -> Nat] /\ f[0] = n /\ \A k \in 1..m : f[k] = step[k][f[k-1]]
    BY <1>3 DEF GoesUp
  <2>2. ASSUME NEW k \in 1..m PROVE f[k] = Up(f[k-1])
    <3>1. k \in Nat /\ f[k-1] \in Nat
      BY <1>1, <2>1
    <3> QED BY <1>2, <2>1, <3>1
  <2> QED BY <2>1, <2>2
<1>5. f = [k \in 0..m |-> IF k = 0 THEN n ELSE Up(f[k-1])]
  <2>1. \A k \in 0..m : k = 0 \/ (k \in 1..m /\ k # 0)
    BY <1>1
  <2> QED BY <1>4, <2>1, Zenon
<1>6. up = [k \in 0..m |-> IF k = 0 THEN n ELSE Up(up[k-1])]
  BY <1>5
<1>7. Way(n) = up
  BY DEF Way, Up
<1> HIDE DEF up
<1>8. Same(f, up, m)
  <2>1. FollowsUp(up, Nat, n, m, step)
    <3>1. up[0] = n /\ \A k \in 1..m : up[k] = Up(up[k-1])
      <4>1. 0 \in 0..m /\ \A k \in 1..m : k \in 0..m /\ k # 0
        BY <1>1
      <4> QED BY <1>6, <4>1, Zenon
    <3>2. ASSUME NEW k \in 1..m, up[k-1] \in Nat PROVE up[k] = step[k][up[k-1]]
      <4>1. k \in Nat
        BY <1>1
      <4> QED BY <1>2, <3>1, <3>2, <4>1
    <3> HIDE DEF m
    <3> QED BY <3>1, <3>2 DEF FollowsUp
  <2> QED BY <1>1, <1>3, <2>1, SameUp
<1>9. up = f
  BY <1>4, <1>6, <1>8 DEF Same
<1> QED
  BY <1>4, <1>7, <1>9 DEF Climbs

\* The calls of _get_path for n go that way.
LEMMA CallsClimb ==
  ASSUME Listing, NEW n \in Nat, NEW up, Parents(up, n), NEW k \in 0..MaxDepth
  PROVE  up[k] = Way(n)[k] /\ up[k] \in Nat /\ up[k+1] = Up(up[k])
<1>1. MaxDepth \in Nat /\ Climbs(Way(n), n)
  BY ScanBounds, WayIs
<1>2. /\ up \in [0..MaxDepth+1 -> Nat] /\ up[0] = n
      /\ \A j \in 1..MaxDepth+1 : up[j] = IF IsRoot(up[j-1]) THEN up[j-1] ELSE Field(up[j-1]).parent
  BY DEF Parents
<1>3. ASSUME NEW x PROVE (IF IsRoot(x) THEN x ELSE Field(x).parent) = Up(x)
  <2>1. CASE AtRoot(x)
    BY <2>1, RootIs DEF Up
  <2>2. CASE ~AtRoot(x)
    <3>1. x \in DOMAIN entries
      BY <2>2 DEF AtRoot
    <3> QED BY <2>2, <3>1, RootIs, ListingIs DEF Up
  <2> QED BY <2>1, <2>2
<1>4. \A j \in 1..MaxDepth+1 : up[j] = Up(up[j-1])
  BY <1>2, <1>3
<1> DEFINE S == {j \in Nat : j \leq MaxDepth => up[j] = Way(n)[j]}
<1>5. 0 \in S
  BY <1>1, <1>2 DEF Climbs
<1>6. ASSUME NEW j \in Nat, j \in S PROVE j + 1 \in S
  <2>1. SUFFICES ASSUME j + 1 \leq MaxDepth PROVE up[j+1] = Way(n)[j+1]
    OBVIOUS
  <2>2. j + 1 \in 1..MaxDepth /\ j + 1 \in 1..MaxDepth+1 /\ (j + 1) - 1 = j /\ j \leq MaxDepth
    BY <1>1, <2>1
  <2>3. up[j] = Way(n)[j]
    BY <1>6, <2>2
  <2>4. up[j+1] = Up(up[j]) /\ Way(n)[j+1] = Up(Way(n)[j])
    BY <1>1, <1>4, <2>2 DEF Climbs
  <2> QED BY <2>3, <2>4
<1>7. k \in S
  <2> HIDE DEF S
  <2> QED BY <1>5, <1>6, NatSet
<1>8. k + 1 \in 1..MaxDepth+1 /\ (k + 1) - 1 = k /\ k \in 0..MaxDepth+1
  BY <1>1
<1> QED
  BY <1>1, <1>2, <1>4, <1>7, <1>8

\* Who starts one folder higher is one folder ahead.
LEMMA WayAhead ==
  ASSUME Listing, NEW n \in Nat, NEW k \in 0..MaxDepth-1
  PROVE  Way(Up(n))[k] = Way(n)[k+1]
<1>1. MaxDepth \in Nat /\ Climbs(Way(n), n) /\ Climbs(Way(Up(n)), Up(n))
  BY ScanBounds, WayIs, UpType
<1> DEFINE S == {j \in Nat : j + 1 \leq MaxDepth => Way(Up(n))[j] = Way(n)[j+1]}
<1>2. 0 \in S
  <2>1. SUFFICES ASSUME 0 + 1 \leq MaxDepth PROVE Way(Up(n))[0] = Way(n)[0+1]
    OBVIOUS
  <2>2. 1 \in 1..MaxDepth /\ 1 - 1 = 0 /\ 0 + 1 = 1
    BY <1>1, <2>1
  <2> QED BY <1>1, <2>2 DEF Climbs
<1>3. ASSUME NEW j \in Nat, j \in S PROVE j + 1 \in S
  <2>1. SUFFICES ASSUME (j + 1) + 1 \leq MaxDepth PROVE Way(Up(n))[j+1] = Way(n)[(j+1)+1]
    OBVIOUS
  <2>2. /\ j + 1 \in 1..MaxDepth /\ (j + 1) + 1 \in 1..MaxDepth /\ (j + 1) - 1 = j
        /\ ((j + 1) + 1) - 1 = j + 1 /\ j + 1 \leq MaxDepth
    BY <1>1, <2>1
  <2>3. Way(Up(n))[j] = Way(n)[j+1]
    BY <1>3, <2>2
  <2>4. Way(Up(n))[j+1] = Up(Way(Up(n))[j]) /\ Way(n)[(j+1)+1] = Up(Way(n)[j+1])
    BY <1>1, <2>2 DEF Climbs
  <2> QED BY <2>3, <2>4
<1>4. k \in Nat /\ k + 1 \leq MaxDepth
  BY <1>1
<1>5. k \in S
  <2> HIDE DEF S
  <2> QED BY <1>2, <1>3, <1>4, NatSet
<1> QED
  BY <1>4, <1>5

\* Who has come to the root stays there.
LEMMA StaysAtRoot ==
  ASSUME Listing, NEW n \in Nat, NEW d \in 0..MaxDepth, AtRoot(Way(n)[d]), NEW k \in d..MaxDepth
  PROVE  Way(n)[k] = Way(n)[d]
<1>1. MaxDepth \in Nat /\ Climbs(Way(n), n) /\ d \in Nat
  BY ScanBounds, WayIs
<1> DEFINE S == {i \in Nat : d + i \leq MaxDepth => Way(n)[d+i] = Way(n)[d]}
<1>2. 0 \in S
  BY <1>1
<1>3. ASSUME NEW i \in Nat, i \in S PROVE i + 1 \in S
  <2>1. SUFFICES ASSUME d + (i + 1) \leq MaxDepth PROVE Way(n)[d+(i+1)] = Way(n)[d]
    OBVIOUS
  <2>2. d + (i + 1) \in 1..MaxDepth /\ (d + (i + 1)) - 1 = d + i /\ d + i \leq MaxDepth
    BY <1>1, <2>1
  <2>3. Way(n)[d+i] = Way(n)[d]
    BY <1>3, <2>2
  <2>4. Way(n)[d+(i+1)] = Up(Way(n)[d+i])
    BY <1>1, <2>2 DEF Climbs
  <2> QED BY <2>3, <2>4 DEF Up
<1>4. k - d \in S
  <2>1. k - d \in Nat
    BY <1>1
  <2> HIDE DEF S
  <2> QED BY <1>2, <1>3, <2>1, NatSet
<1>5. d + (k - d) = k /\ k \leq MaxDepth
  BY <1>1
<1> QED
  BY <1>4, <1>5

LEMMA DepthIs ==
  ASSUME Listing, NEW n \in Nat, ~TooDeep(n)
  PROVE  /\ Depth(n) \in 0..MaxDepth /\ AtRoot(Way(n)[Depth(n)])
         /\ \A j \in 0..Depth(n)-1 : ~AtRoot(Way(n)[j])
<1> DEFINE S == {k \in 0..MaxDepth : AtRoot(Way(n)[k])}
<1>1. MaxDepth \in Nat
  BY ScanBounds
<1>2. MaxDepth \in S
  BY <1>1 DEF TooDeep
<1>3. PICK k \in S : \A j \in S : k \leq j
  <2>1. S \subseteq Nat /\ S # {}
    BY <1>2
  <2> HIDE DEF S
  <2> QED BY <2>1, Least
<1>4. k \in 0..MaxDepth /\ AtRoot(Way(n)[k]) /\ \A j \in 0..k-1 : ~AtRoot(Way(n)[j])
  BY <1>1, <1>3
<1> HIDE DEF S
<1> QED
  BY <1>4 DEF Depth

LEMMA DepthOnly ==
  ASSUME Listing, NEW n \in Nat, ~TooDeep(n), NEW d \in 0..MaxDepth, AtRoot(Way(n)[d]),
         \A j \in 0..d-1 : ~AtRoot(Way(n)[j])
  PROVE  Depth(n) = d
<1>1. /\ Depth(n) \in 0..MaxDepth /\ AtRoot(Way(n)[Depth(n)])
      /\ \A j \in 0..Depth(n)-1 : ~AtRoot(Way(n)[j])
  BY DepthIs
<1>2. MaxDepth \in Nat
  BY ScanBounds
<1>3. ~(Depth(n) < d) /\ ~(d < Depth(n))
  BY <1>1, <1>2
<1> QED
  BY <1>1, <1>2, <1>3

LEMMA TruePathType ==
  ASSUME Listing, NEW n \in Nat, ~TooDeep(n)
  PROVE  TruePath(n) \in Seq(NamesOnDisk) /\ Len(TruePath(n)) = Depth(n) /\ TruePath(n) # NoEntry
<1>1. Depth(n) \in Nat /\ \A j \in 0..Depth(n)-1 : ~AtRoot(Way(n)[j])
  BY DepthIs, ScanBounds
<1>2. ASSUME NEW i \in 1..Depth(n) PROVE Listed(Way(n)[Depth(n) - i]).name \in NamesOnDisk
  <2>1. Depth(n) - i \in 0..Depth(n)-1
    BY <1>1
  <2>2. Way(n)[Depth(n) - i] \in DOMAIN entries
    BY <1>1, <2>1 DEF AtRoot
  <2> QED BY <2>2, ListingIs
<1>3. TruePath(n) \in Seq(NamesOnDisk) /\ Len(TruePath(n)) = Depth(n)
  BY <1>1, <1>2 DEF TruePath
<1> QED
  BY <1>3, NoEntryApart

\* From an entry, the way goes over its folder, where one that is not too deep is
\* neither; and its path is that of the folder with its name.
LEMMA FolderIs ==
  ASSUME Listing, NEW n \in Nat, ~AtRoot(n), ~TooDeep(n)
  PROVE  /\ ~TooDeep(Up(n)) /\ Folders(Up(n)) \subseteq Folders(n)
         /\ TruePath(n) = Append(TruePath(Up(n)), Listed(n).name)
<1> DEFINE p == Up(n)
           w == Way(n)
           v == Way(p)
           m == MaxDepth
<1>1. m \in Nat /\ Climbs(w, n) /\ p \in Nat /\ Climbs(v, p) /\ AtRoot(w[m])
  BY ScanBounds, WayIs, UpType DEF TooDeep
<1>2. m \in Nat \ {0}
  BY <1>1 DEF Climbs
<1>3. \A k \in 0..m-1 : v[k] = w[k+1]
  BY WayAhead
<1>4. AtRoot(v[m-1]) /\ v[m] = v[m-1]
  <2>1. m - 1 \in 0..m-1 /\ (m - 1) + 1 = m /\ m - 1 \in 0..m /\ m \in (m-1)..m
    BY <1>2
  <2>2. AtRoot(v[m-1])
    BY <1>1, <1>3, <2>1
  <2> QED BY <1>1, <2>1, <2>2, StaysAtRoot
<1>5. ~TooDeep(p)
  BY <1>4 DEF TooDeep
<1>6. ASSUME NEW k \in 0..m, ~AtRoot(v[k]) PROVE \E j \in 0..m : v[k] = w[j]
  <2>1. k # m
    BY <1>4, <1>6
  <2>2. k \in 0..m-1 /\ k + 1 \in 0..m
    BY <1>2, <2>1
  <2> QED BY <1>3, <2>2
<1>7. Folders(p) \subseteq Folders(n)
  BY <1>6 DEF Folders
<1> DEFINE d == Depth(p)
<1>8. d \in 0..m /\ AtRoot(v[d]) /\ \A j \in 0..d-1 : ~AtRoot(v[j])
  BY <1>1, <1>5, DepthIs
<1> HIDE DEF d, v, w, p
<1>9. d \leq m - 1
  <2>1. m - 1 \in 0..d-1 \/ d \leq m - 1
    BY <1>2, <1>8
  <2> QED BY <1>4, <1>8, <2>1
<1>10. d \in 0..m-1 /\ d + 1 \in 0..m /\ d \in Nat
  BY <1>2, <1>8, <1>9
<1>11. ASSUME NEW j \in 0..d PROVE ~AtRoot(w[j])
  <2>1. CASE j = 0
    BY <1>1, <2>1 DEF Climbs
  <2>2. CASE j # 0
    <3>1. j - 1 \in 0..d-1 /\ j - 1 \in 0..m-1 /\ (j - 1) + 1 = j
      BY <1>2, <1>10, <2>2
    <3> QED BY <1>3, <1>8, <3>1
  <2> QED BY <2>1, <2>2
<1>12. Depth(n) = d + 1
  <2>1. AtRoot(w[d+1])
    BY <1>3, <1>8, <1>10
  <2>2. 0..(d+1)-1 = 0..d
    BY <1>10
  <2> QED BY <1>10, <1>11, <2>1, <2>2, DepthOnly DEF w
<1>13. TruePath(p) = [i \in 1..d |-> Listed(v[d - i]).name] /\ TruePath(p) \in Seq(NamesOnDisk)
  BY <1>1, <1>5, TruePathType DEF TruePath, d, v
<1>14. \A i \in 1..d+1 : TruePath(n)[i] = Listed(w[(d + 1) - i]).name
  <2> DEFINE Says(e) == \A i \in 1..e : TruePath(n)[i] = Listed(w[e - i]).name
  <2>1. Says(Depth(n))
    BY DEF TruePath, w
  <2>2. Says(d + 1)
    <3> HIDE DEF Says
    <3> QED BY <1>12, <2>1
  <2> QED BY <2>2
<1>15. \A i \in 1..d : TruePath(n)[i] = TruePath(p)[i]
  <2> TAKE i \in 1..d
  <2>1. d - i \in 0..m-1 /\ (d - i) + 1 = (d + 1) - i /\ i \in 1..d+1
    BY <1>2, <1>10
  <2> QED BY <1>3, <1>13, <1>14, <2>1
<1>16. TruePath(n)[d+1] = Listed(n).name
  <2>1. d + 1 \in 1..d+1 /\ (d + 1) - (d + 1) = 0
    BY <1>10
  <2> QED BY <1>1, <1>14, <2>1 DEF Climbs
<1>17. TruePath(n) = Append(TruePath(p), Listed(n).name)
  <2> DEFINE x == Listed(n).name
  <2>1. x \in NamesOnDisk
    BY ListingIs DEF AtRoot
  <2>2. TruePath(n) \in Seq(NamesOnDisk) /\ Len(TruePath(n)) = d + 1 /\ Len(TruePath(p)) = d
    BY <1>1, <1>5, <1>12, TruePathType DEF d
  <2> HIDE DEF x
  <2>3. /\ Append(TruePath(p), x) \in Seq(NamesOnDisk) /\ Len(Append(TruePath(p), x)) = d + 1
        /\ Append(TruePath(p), x)[d+1] = x
        /\ \A i \in 1..d : Append(TruePath(p), x)[i] = TruePath(p)[i]
    BY <1>10, <1>13, <2>1, <2>2
  <2>4. \A i \in 1..d+1 : i = d + 1 \/ i \in 1..d
    BY <1>10
  <2>5. \A i \in 1..d+1 : TruePath(n)[i] = Append(TruePath(p), x)[i]
    BY <1>15, <1>16, <2>3, <2>4 DEF x
  <2> QED BY <2>2, <2>3, <2>5 DEF x
<1> QED
  BY <1>5, <1>7, <1>17 DEF p

LEMMA ShallowUp ==
  ASSUME Listing, NEW n \in Nat, ~AtRoot(n), Shallow(n) PROVE Shallow(Up(n))
BY FolderIs DEF Shallow

-----------------------------------------------------------------------------
(* The paths that are cached *)

\* No part of a path, from the top, is excluded.
Seen(p) == \A k \in DOMAIN p : ~ShouldExclude(SubSeq(p, 1, k))

\* What _get_path has to return.
RightPath(n) == IF Seen(TruePath(n)) THEN TruePath(n) ELSE NoEntry

LEMMA SeenGrows ==
  ASSUME NEW T, NEW p \in Seq(T), NEW x \in T
  PROVE  Seen(Append(p, x)) <=> Seen(p) /\ ~ShouldExclude(Append(p, x))
<1> DEFINE q == Append(p, x)
           l == Len(p)
<1>1. q \in Seq(T) /\ l \in Nat /\ Len(q) = l + 1 /\ DOMAIN q = 1..l+1 /\ DOMAIN p = 1..l
  OBVIOUS
<1>2. \A i \in 1..l : q[i] = p[i]
  OBVIOUS
<1> HIDE DEF q
<1>3. SubSeq(q, 1, l + 1) = q
  <2>1. SubSeq(q, 1, l + 1) \in Seq(T) /\ Len(SubSeq(q, 1, l + 1)) = l + 1
        /\ \A i \in 1..l+1 : SubSeq(q, 1, l + 1)[i] = q[i]
    BY <1>1
  <2> QED BY <1>1, <2>1
<1>4. ASSUME NEW k \in 1..l PROVE SubSeq(q, 1, k) = SubSeq(p, 1, k)
  <2>1. k \in Nat /\ k \leq l + 1 /\ k \leq l
    BY <1>1
  <2>2. /\ SubSeq(q, 1, k) \in Seq(T) /\ Len(SubSeq(q, 1, k)) = k
        /\ \A i \in 1..k : SubSeq(q, 1, k)[i] = q[i]
    BY <1>1, <2>1
  <2>3. /\ SubSeq(p, 1, k) \in Seq(T) /\ Len(SubSeq(p, 1, k)) = k
        /\ \A i \in 1..k : SubSeq(p, 1, k)[i] = p[i]
    BY <1>1, <2>1
  <2>4. \A i \in 1..k : i \in 1..l
    BY <1>1
  <2>5. \A i \in 1..k : SubSeq(q, 1, k)[i] = SubSeq(p, 1, k)[i]
    BY <1>2, <2>2, <2>3, <2>4
  <2> QED BY <2>2, <2>3, <2>5
<1>5. \A k \in 1..l+1 : k = l + 1 \/ k \in 1..l
  BY <1>1
<1>6. l + 1 \in 1..l+1 /\ \A k \in 1..l : k \in 1..l+1
  BY <1>1
<1> HIDE DEF l
<1>7. Seen(q) <=> (\A k \in 1..l : ~ShouldExclude(SubSeq(p, 1, k))) /\ ~ShouldExclude(q)
  BY <1>1, <1>3, <1>4, <1>5, <1>6 DEF Seen
<1>8. Seen(p) <=> \A k \in 1..l : ~ShouldExclude(SubSeq(p, 1, k))
  BY <1>1 DEF Seen
<1> QED
  BY <1>7, <1>8 DEF q

\* From the folder's path, _get_path goes on to that of the entry.
LEMMA RightBelow ==
  ASSUME Listing, NEW n \in Nat, ~AtRoot(n), ~TooDeep(n)
  PROVE  Below(RightPath(Up(n)), n) = RightPath(n)
<1> DEFINE t == TruePath(Up(n))
           x == Listed(n).name
<1>1. ~TooDeep(Up(n)) /\ TruePath(n) = Append(t, x) /\ Up(n) \in Nat
  BY FolderIs, UpType
<1>2. t \in Seq(NamesOnDisk) /\ t # NoEntry
  BY <1>1, TruePathType
<1>3. Field(n).name = x /\ x \in NamesOnDisk
  BY ListingIs DEF AtRoot
<1>4. RightPath(Up(n)) = IF Seen(t) THEN t ELSE NoEntry
  BY DEF RightPath
<1>5. RightPath(n) = IF Seen(Append(t, x)) THEN Append(t, x) ELSE NoEntry
  BY <1>1 DEF RightPath
<1> HIDE DEF t, x
<1>6. Seen(Append(t, x)) <=> Seen(t) /\ ~ShouldExclude(Append(t, x))
  BY <1>2, <1>3, SeenGrows
<1>7. CASE Seen(t)
  BY <1>2, <1>3, <1>4, <1>5, <1>6, <1>7 DEF Below
<1>8. CASE ~Seen(t)
  BY <1>4, <1>5, <1>6, <1>8 DEF Below
<1> QED
  BY <1>7, <1>8

LEMMA RootPath ==
  ASSUME Listing, NEW n \in Nat, AtRoot(n)
  PROVE  ~TooDeep(n) /\ TruePath(n) = <<>> /\ RightPath(n) = <<>>
<1>1. MaxDepth \in Nat /\ Climbs(Way(n), n) /\ 0 \in 0..MaxDepth /\ MaxDepth \in 0..MaxDepth
  BY ScanBounds, WayIs
<1>2. AtRoot(Way(n)[0])
  BY <1>1 DEF Climbs
<1>3. Way(n)[MaxDepth] = Way(n)[0]
  BY <1>1, <1>2, StaysAtRoot
<1>4. ~TooDeep(n)
  BY <1>2, <1>3 DEF TooDeep
<1>5. Depth(n) = 0
  BY <1>1, <1>2, <1>4, DepthOnly
<1>6. TruePath(n) \in Seq(NamesOnDisk) /\ Len(TruePath(n)) = 0
  BY <1>4, <1>5, TruePathType
<1>7. TruePath(n) = <<>>
  BY <1>6
<1>8. Seen(<<>>)
  BY DEF Seen
<1> QED
  BY <1>4, <1>7, <1>8 DEF RightPath

CacheRight == \A x \in DOMAIN cache : Shallow(x) => cache[x] = RightPath(x)

\* Whatever is found for a shallow entry on the way down is its path: nothing on the
\* way from it to where the calls turn back is too deep.
LEMMA DownRight ==
  ASSUME Listing, CacheRight, NEW n \in DOMAIN entries, NEW up, NEW top, NEW down,
         Calls(up, top, down, n), NEW k \in 0..top, k \leq MaxDepth, Shallow(up[k])
  PROVE  down[k] = RightPath(up[k])
<1> DEFINE m == MaxDepth
<1>1. /\ m \in Nat /\ n \in Nat /\ Parents(up, n) /\ top \in 0..m+1 /\ Turned(down, up, top)
      /\ Stops(up, top) /\ \A j \in 0..top-1 : ~Stops(up, j)
  BY ScanBounds DEF Calls, Listing
<1>2. \A j \in 0..m : up[j] = Way(n)[j] /\ up[j] \in Nat /\ up[j+1] = Up(up[j])
  BY <1>1, CallsClimb
<1>3. \A j \in 0..top-1 : ~AtRoot(up[j]) /\ down[j] = Below(down[j+1], up[j]) /\ j \in 0..m
  <2> TAKE j \in 0..top-1
  <2>1. ~IsRoot(up[j]) /\ j \in 0..m
    BY <1>1 DEF Stops
  <2> QED BY <1>1, <2>1, RootIs DEF Turned
<1>4. ASSUME top \leq m, Shallow(up[top]) PROVE down[top] = RightPath(up[top])
  <2>1. top \in 0..m /\ up[top] \in Nat
    BY <1>1, <1>2, <1>4
  <2>2. down[top] = IF up[top] \in DOMAIN cache THEN cache[up[top]] ELSE <<>>
    BY <1>1, <1>4 DEF Turned, AtTop
  <2>3. CASE up[top] \in DOMAIN cache
    BY <1>4, <2>2, <2>3 DEF CacheRight
  <2>4. CASE up[top] \notin DOMAIN cache
    <3>1. ~(top > MaxDepth)
      BY <1>1, <1>4
    <3>2. IsRoot(up[top])
      BY <1>1, <2>4, <3>1 DEF Stops
    <3> QED BY <2>1, <2>2, <2>4, <3>2, RootIs, RootPath
  <2> QED BY <2>3, <2>4
<1>5. CASE k = top
  BY <1>4, <1>5
<1>6. CASE k # top
  <2>1. k \in 0..top-1 /\ k \in 0..m /\ k \in Nat /\ top \in Nat
    BY <1>1, <1>6
  <2>2. ~AtRoot(up[k]) /\ up[k] \in Nat
    BY <1>2, <1>3, <2>1
  <2>3. up[k] \in Folders(n) /\ up[k] \in Folders(up[k])
    <3>1. up[k] = Way(n)[k]
      BY <1>2, <2>1
    <3>2. Way(up[k])[0] = up[k] /\ 0 \in 0..m
      <4>1. Climbs(Way(up[k]), up[k])
        BY <2>2, WayIs
      <4> QED BY <1>1, <4>1 DEF Climbs
    <3> QED BY <2>1, <2>2, <3>1, <3>2 DEF Folders
  <2>4. ~TooDeep(n)
    <3>1. Folders(n) \cap Folders(up[k]) # {}
      BY <2>3
    <3> QED BY <3>1 DEF Shallow
  <2>5. top \leq m
    <3>1. ASSUME top = m + 1 PROVE FALSE
      <4>1. m \in 0..top-1 /\ m \in 0..m
        BY <1>1, <3>1
      <4>2. ~AtRoot(Way(n)[m])
        BY <1>2, <1>3, <4>1
      <4> QED BY <2>4, <4>2 DEF TooDeep
    <3> QED BY <1>1, <3>1
  <2> DEFINE U == {i \in Nat : k + i \leq top => Shallow(up[k+i])}
  <2>6. 0 \in U
    BY <2>1
  <2>7. ASSUME NEW i \in Nat, i \in U PROVE i + 1 \in U
    <3>1. SUFFICES ASSUME k + (i + 1) \leq top PROVE Shallow(up[k+(i+1)])
      OBVIOUS
    <3>2. k + i \in 0..top-1 /\ k + i \leq top /\ (k + i) + 1 = k + (i + 1) /\ k + i \in 0..m
      BY <1>1, <2>1, <3>1
    <3>3. Shallow(up[k+i])
      BY <2>7, <3>2
    <3>4. ~AtRoot(up[k+i]) /\ up[k+i] \in Nat /\ up[(k+i)+1] = Up(up[k+i])
      BY <1>2, <1>3, <3>2
    <3>5. Shallow(Up(up[k+i]))
      BY <3>3, <3>4, ShallowUp
    <3> QED BY <3>2, <3>4, <3>5
  <2>8. Nat \subseteq U
    <3> HIDE DEF U
    <3> QED BY <2>6, <2>7, NatSet
  <2>9. ASSUME NEW j \in k..top PROVE Shallow(up[j])
    <3>1. j - k \in Nat /\ k + (j - k) = j /\ j \leq top
      BY <2>1
    <3>2. j - k \in U
      BY <2>8, <3>1
    <3> QED BY <3>1, <3>2
  <2> DEFINE D == {i \in Nat : top - i \geq k => down[top-i] = RightPath(up[top-i])}
  <2>10. 0 \in D
    <3>1. top - 0 = top /\ top \in k..top
      BY <2>1
    <3> QED BY <1>4, <2>5, <2>9, <3>1
  <2>11. ASSUME NEW i \in Nat, i \in D PROVE i + 1 \in D
    <3> DEFINE j == top - (i + 1)
    <3>1. SUFFICES ASSUME j \geq k PROVE down[j] = RightPath(up[j])
      OBVIOUS
    <3>2. j \in 0..top-1 /\ j \in k..top /\ j + 1 = top - i /\ top - i \geq k /\ j \in 0..m
      BY <1>1, <2>1, <2>5, <3>1
    <3> HIDE DEF j
    <3>3. down[j+1] = RightPath(up[j+1])
      BY <2>11, <3>2
    <3>4. ~AtRoot(up[j]) /\ up[j] \in Nat /\ up[j+1] = Up(up[j]) /\ down[j] = Below(down[j+1], up[j])
      BY <1>2, <1>3, <3>2
    <3>5. ~TooDeep(up[j])
      BY <2>9, <3>2 DEF Shallow
    <3> QED BY <3>3, <3>4, <3>5, RightBelow
  <2>12. top - k \in D
    <3>1. top - k \in Nat
      BY <2>1
    <3> HIDE DEF D
    <3> QED BY <2>10, <2>11, <3>1, NatSet
  <2>13. top - (top - k) = k /\ k \geq k
    BY <2>1
  <2> QED BY <2>12, <2>13
<1> QED
  BY <1>5, <1>6

\* While the list stays as it is, so do its paths.
LEMMA PathsSame ==
  ASSUME UNCHANGED <<vol, entries>>
  PROVE  \A x : /\ AtRoot(x)' = AtRoot(x) /\ Shallow(x)' = Shallow(x)
                /\ RightPath(x)' = RightPath(x)
<1>1. \A x : Listed(x)' = Listed(x)
  BY DEF Listed
<1>2. \A x : AtRoot(x)' = AtRoot(x)
  BY <1>1 DEF AtRoot
<1>3. \A x : Way(x)' = Way(x)
  BY <1>1, <1>2 DEF Way
<1>4. \A x : TooDeep(x)' = TooDeep(x)
  BY <1>2, <1>3 DEF TooDeep
<1>5. \A x : Folders(x)' = Folders(x)
  BY <1>2, <1>3 DEF Folders
<1>6. \A x : Depth(x)' = Depth(x)
  BY <1>2, <1>3 DEF Depth
<1>7. \A x : TruePath(x)' = TruePath(x)
  BY <1>1, <1>3, <1>6 DEF TruePath
<1>8. \A x : Shallow(x)' = Shallow(x)
  BY <1>4, <1>5 DEF Shallow
<1>9. \A x : RightPath(x)' = RightPath(x)
  BY <1>7 DEF RightPath, Seen
<1> QED
  BY <1>2, <1>8, <1>9

-----------------------------------------------------------------------------
(* The paths that are found *)

\* x, which is cached, has the path it has to have, or none.
PathIsRight(x) ==
  IF RightPath(x) = NoEntry THEN x \notin DOMAIN paths
  ELSE x \in DOMAIN paths /\ paths[x] = RightPath(x)

\* While the paths are looked for, from the lowest number up: what is cached or
\* has a path is right, and what was looked for is cached.
Resolving ==
  /\ CacheRight
  /\ \A x \in DOMAIN cache : Shallow(x) /\ ~AtRoot(x) => PathIsRight(x)
  /\ \A x \in DOMAIN paths : ~AtRoot(x) /\ x \in DOMAIN cache
  /\ \A n \in DOMAIN entries : n < reader.next => n \in DOMAIN cache

Found ==
  /\ phase \in {"resolve", "done"} => Resolving
  /\ phase = "done" => \A n \in DOMAIN entries : n < reader.next

\* A call of _get_path keeps what was right and adds what is right.
LEMMA GetPathRight ==
  ASSUME Listing, CacheType, Resolving, NEW n \in DOMAIN entries, GetPath(n),
         UNCHANGED <<vol, entries>>
  PROVE  /\ CacheRight' /\ DOMAIN cache \subseteq DOMAIN cache' /\ n \in DOMAIN cache'
         /\ \A x \in DOMAIN cache' : Shallow(x)' /\ ~AtRoot(x)' => PathIsRight(x)'
         /\ \A x \in DOMAIN paths' : ~AtRoot(x)' /\ x \in DOMAIN cache'
<1>1. PICK up, top, down : Calls(up, top, down, n) /\ Left(up, top, down)
  BY GetPathIs
<1>2. /\ MaxDepth \in Nat /\ n \in Nat /\ up[0] = n /\ top \in 0..MaxDepth+1
      /\ Stops(up, top) /\ \A j \in 0..top-1 : ~Stops(up, j)
  BY <1>1, ScanBounds DEF Calls, Parents, Listing
<1>3. \A x : Shallow(x)' = Shallow(x) /\ AtRoot(x)' = AtRoot(x) /\ RightPath(x)' = RightPath(x)
  BY PathsSame
<1>4. \A k \in 0..top : k \leq MaxDepth /\ Shallow(up[k]) => down[k] = RightPath(up[k])
  BY <1>1, DownRight DEF Resolving
<1>5. ASSUME NEW k \in 0..top-1
      PROVE  k \in 0..top /\ k \leq MaxDepth /\ ~AtRoot(up[k]) /\ up[k] \notin DOMAIN cache
  BY <1>2, RootIs DEF Stops
<1>6. \A k \in 0..top : k \leq MaxDepth => up[k] \in DOMAIN cache'
  BY <1>1 DEF Left
<1>7. DOMAIN cache \subseteq DOMAIN cache' /\ n \in DOMAIN cache'
  <2>1. 0 \in 0..top /\ 0 \leq MaxDepth
    BY <1>2
  <2> QED BY <1>1, <1>2, <1>6, <2>1 DEF Left
<1>8. ASSUME NEW x \in DOMAIN cache', Shallow(x) PROVE cache'[x] = RightPath(x)
  <2>1. CASE x \in DOMAIN cache /\ cache'[x] = cache[x]
    BY <1>8, <2>1 DEF Resolving, CacheRight
  <2>2. CASE \E k \in 0..top : k \leq MaxDepth /\ up[k] = x /\ cache'[x] = down[k]
    BY <1>4, <1>8, <2>2
  <2> QED BY <1>1, <2>1, <2>2 DEF Left
<1>9. CacheRight'
  BY <1>3, <1>8 DEF CacheRight
<1>10. ASSUME NEW x \in DOMAIN paths' PROVE ~AtRoot(x) /\ x \in DOMAIN cache'
  <2>1. CASE x \in DOMAIN paths
    BY <1>7, <2>1 DEF Resolving
  <2>2. CASE \E k \in 0..top-1 : up[k] = x
    BY <1>5, <1>6, <2>2
  <2> QED BY <1>1, <2>1, <2>2 DEF Left
<1>11. ASSUME NEW x \in DOMAIN paths', Shallow(x)
       PROVE  paths'[x] = RightPath(x) /\ RightPath(x) # NoEntry
  <2>1. CASE x \in DOMAIN paths /\ paths'[x] = paths[x]
    <3>1. PathIsRight(x)
      BY <1>11, <2>1 DEF Resolving
    <3> QED BY <2>1, <3>1 DEF PathIsRight
  <2>2. CASE \E k \in 0..top-1 : up[k] = x /\ down[k] # NoEntry /\ paths'[x] = down[k]
    BY <1>4, <1>5, <1>11, <2>2
  <2> QED BY <1>1, <2>1, <2>2 DEF Left
<1>12. ASSUME NEW x \in DOMAIN cache', Shallow(x), ~AtRoot(x), x \notin DOMAIN paths'
       PROVE  RightPath(x) = NoEntry
  <2>1. x \notin DOMAIN paths /\ \A k \in 0..top-1 : up[k] = x => down[k] = NoEntry
    BY <1>1, <1>12 DEF Left
  <2>2. CASE x \in DOMAIN cache
    BY <1>12, <2>1, <2>2 DEF Resolving, PathIsRight
  <2>3. CASE x \notin DOMAIN cache
    <3>1. PICK k \in 0..top : k \leq MaxDepth /\ up[k] = x
      BY <1>1, <2>3 DEF Left
    <3>2. k # top
      <4>1. ASSUME k = top PROVE FALSE
        BY <1>2, <1>12, <2>3, <3>1, <4>1, RootIs DEF Stops
      <4> QED BY <4>1
    <3>3. k \in 0..top-1
      BY <1>2, <3>2
    <3> QED BY <1>4, <1>5, <1>12, <2>1, <3>1, <3>3
  <2> QED BY <2>2, <2>3
<1>13. ASSUME NEW x \in DOMAIN cache', Shallow(x)', ~AtRoot(x)' PROVE PathIsRight(x)'
  <2>1. Shallow(x) /\ ~AtRoot(x) /\ RightPath(x)' = RightPath(x)
    BY <1>3, <1>13
  <2>2. CASE x \in DOMAIN paths'
    BY <1>11, <2>1, <2>2 DEF PathIsRight
  <2>3. CASE x \notin DOMAIN paths'
    BY <1>12, <2>1, <2>3 DEF PathIsRight
  <2> QED BY <2>2, <2>3
<1> QED
  BY <1>3, <1>7, <1>9, <1>10, <1>13

LEMMA ResolveFound == ASSUME ScanTyped, Found, Resolve PROVE Found'
<1>1. PICK n \in DOMAIN entries : /\ n \in Nat /\ n \geq reader.next /\ GetPath(n)
                                  /\ reader' = [reader EXCEPT !.next = n + 1]
                                  /\ \A k \in DOMAIN entries : k < n => k < reader.next
  BY FirstUnresolved
<1>2. phase = "resolve" /\ UNCHANGED <<vol, phase, entries>>
  BY DEF Resolve
<1>3. Listing /\ CacheType /\ Resolving
  BY <1>2, ListingOf DEF ScanTyped, Found
<1>4. /\ CacheRight' /\ DOMAIN cache \subseteq DOMAIN cache' /\ n \in DOMAIN cache'
      /\ \A x \in DOMAIN cache' : Shallow(x)' /\ ~AtRoot(x)' => PathIsRight(x)'
      /\ \A x \in DOMAIN paths' : ~AtRoot(x)' /\ x \in DOMAIN cache'
  BY <1>1, <1>2, <1>3, GetPathRight
<1>5. ASSUME NEW k \in DOMAIN entries, k < reader'.next PROVE k \in DOMAIN cache'
  <2>1. reader \in ReaderType /\ k \in Nat
    BY <1>3 DEF ScanTyped, Fits, Listing
  <2>2. reader'.next = n + 1
    BY <1>1, <2>1 DEF ReaderType
  <2>3. k = n \/ k < n
    BY <1>1, <1>5, <2>1, <2>2
  <2> QED BY <1>1, <1>3, <1>4, <2>3 DEF Resolving
<1>6. Resolving'
  BY <1>2, <1>4, <1>5 DEF Resolving
<1> QED
  BY <1>2, <1>6 DEF Found

\* Before that, there is neither a cache nor a path.
LEMMA ToResolveFound ==
  ASSUME ScanTyped, phase \in {"run", "usn"}, phase' = "resolve", reader' = NoReader,
         UNCHANGED <<entries, cache, paths>>
  PROVE  Found'
<1>1. cache' = Nothing /\ paths' = Nothing /\ reader'.next = 0
  BY DEF ScanTyped, NoReader
<1>2. \A n \in DOMAIN entries' : n \in Nat /\ ~(n < reader'.next)
  <2>1. \A n \in DOMAIN entries : n \in Nat
    BY ListingOf DEF Listing
  <2> QED BY <1>1, <2>1
<1> QED
  BY <1>1, <1>2, NothingIs DEF Found, Resolving, CacheRight

LEMMA SameFound ==
  ASSUME UNCHANGED <<vol, entries, cache, paths, reader>>, Resolving PROVE Resolving'
<1>1. \A x : Shallow(x)' = Shallow(x) /\ AtRoot(x)' = AtRoot(x) /\ RightPath(x)' = RightPath(x)
  BY PathsSame
<1>2. CacheRight'
  BY <1>1 DEF Resolving, CacheRight
<1>3. \A x \in DOMAIN cache' : Shallow(x)' /\ ~AtRoot(x)' => PathIsRight(x)'
  BY <1>1 DEF Resolving, PathIsRight
<1> QED
  BY <1>1, <1>2, <1>3 DEF Resolving

LEMMA ParsedPhase ==
  ASSUME NEW n, Parsed(n) PROVE phase' \notin {"resolve", "done"}
<1>1. phase' \in {"usn", "read", "run"}
  BY DEF Parsed, Fallback
<1> QED
  BY <1>1

LEMMA NextFound == ASSUME ScanTyped, Found, [Next]_vars PROVE Found'
<1>1. CASE ReadHead \/ HeadFails \/ Seek \/ SeekFails \/ Read \/ ReadShort \/ ReadFails \/ UsnBatch
  <2>1. phase' \notin {"resolve", "done"}
    BY <1>1, ParsedPhase DEF ReadHead, HeadFails, Fallback, Seek, SeekFails, Read, ReadShort,
                             ReadFails, UsnBatch
  <2> QED BY <2>1 DEF Found
<1>2. CASE RunsDone \/ UsnEnds
  BY <1>2, ToResolveFound DEF RunsDone, UsnEnds
<1>3. CASE Resolve
  BY <1>3, ResolveFound
<1>4. CASE Done
  <2>1. /\ phase = "resolve" /\ phase' = "done" /\ Unresolved = {}
        /\ UNCHANGED <<vol, reader, entries, cache, paths>>
    BY <1>4 DEF Done
  <2>2. Resolving'
    BY <2>1, SameFound DEF Found
  <2>3. \A n \in DOMAIN entries : n \in Nat /\ reader.next \in Nat /\ ~(n \geq reader.next)
    BY <2>1, TypedParts, ListingOf DEF Unresolved, Listing
  <2> QED BY <2>1, <2>2, <2>3 DEF Found
<1>5. CASE Ended \/ UNCHANGED vars
  BY <1>5, SameFound DEF Ended, vars, Found
<1> QED
  BY <1>1, <1>2, <1>3, <1>4, <1>5 DEF Next

LEMMA FoundRight == ScanTyped /\ Found => PathsRight
<1> SUFFICES ASSUME ScanTyped, Found, phase = "done", NEW n \in DOMAIN entries, Shallow(n)
             PROVE  LET true == TruePath(n)
                        seen == /\ true # <<>>
                                /\ \A k \in DOMAIN true : ~ShouldExclude(SubSeq(true, 1, k))
                    IN  IF seen THEN n \in DOMAIN paths /\ paths[n] = true
                        ELSE n \notin DOMAIN paths
  BY DEF PathsRight
<1>1. Listing /\ n \in Nat /\ Resolving /\ n \in DOMAIN cache
  BY ListingOf DEF Found, Resolving, Listing
<1>2. CASE AtRoot(n)
  <2>1. TruePath(n) = <<>> /\ n \notin DOMAIN paths
    BY <1>1, <1>2, RootPath DEF Resolving
  <2> QED BY <2>1
<1>3. CASE ~AtRoot(n)
  <2>1. ~TooDeep(n)
    BY DEF Shallow
  <2>2. TruePath(n) # NoEntry
    BY <1>1, <2>1, TruePathType
  <2>3. TruePath(n) # <<>>
    <3>1. /\ TruePath(n) = Append(TruePath(Up(n)), Listed(n).name)
          /\ ~TooDeep(Up(n)) /\ Up(n) \in Nat
      BY <1>1, <1>3, <2>1, FolderIs, UpType
    <3>2. TruePath(Up(n)) \in Seq(NamesOnDisk) /\ Listed(n).name \in NamesOnDisk
      BY <1>1, <3>1, TruePathType, ListingIs
    <3> HIDE DEF Listing
    <3>3. Append(TruePath(Up(n)), Listed(n).name) # <<>>
      BY <3>2
    <3> QED BY <3>1, <3>3
  <2>4. PathIsRight(n)
    BY <1>1, <1>3 DEF Resolving
  <2> QED BY <2>2, <2>3, <2>4 DEF PathIsRight, RightPath, Seen
<1> QED
  BY <1>2, <1>3

\* In whatever order parents and children come in the table, and whatever was
\* cached for others: an entry none of whose folders lies on a chain that is too
\* deep has, in the end, the names of its parents for a path, or no path if it or
\* one of them is excluded.
THEOREM PathsHold == Spec => []PathsRight
<1>1. Init => Found
  BY DEF Init, Found
<1>2. Spec => []Found
  BY <1>1, NextFound, AlwaysTyped, PTL DEF Spec
<1> QED
  BY <1>2, AlwaysTyped, FoundRight, PTL

-----------------------------------------------------------------------------
(* All that is there is listed *)

\* Without a failing call, the list has what it should have of the records passed:
\* those of the table before the next number, or those the interface has offered.
Filling ==
  /\ phase = "head" => entries = Nothing /\ ~slipped
  /\ phase \in {"run", "read"} =>
       /\ vol.bytes # Unreadable /\ Len(reader.runs) = Len(vol.layout)
       /\ ~slipped =>
            /\ DOMAIN entries =
                 {n \in Valid : n < reader.num /\ ParseRecord(vol.records[n]) # NoEntry}
            /\ \A n \in Valid :
                 n < reader.num => ~(Readable(vol.records[n]) /\ Raises(vol.records[n]))
  /\ phase = "usn" =>
       /\ ByJournal \/ Valid = {}
       /\ DOMAIN entries = {n \in Valid : n < reader.next /\ Named(vol.records[n])}
  /\ phase \in {"resolve", "done"} /\ ~slipped =>
       DOMAIN entries =
         {n \in Valid : Shown(vol.records[n]) /\ (ByJournal \/ Intact(vol.records[n]))}

Filled == Whole /\ faults = 0 => Placed /\ Filling

\* The code and the definition agree on the records that have an entry.
LEMMA ParsedShown ==
  ASSUME NEW v \in Volumes, NEW n \in DOMAIN v.records
  PROVE  ParseRecord(v.records[n]) # NoEntry <=> Shown(v.records[n]) /\ Intact(v.records[n])
<1> DEFINE rec == v.records[n]
<1>1. /\ Named(rec) <=> Shown(rec)
      /\ Named(rec) => EntryOf(rec) # NoEntry
  BY NamedShown
<1>2. rec.sectors \in Seq(BOOLEAN) \ {<<>>} /\ rec.checks = Len(rec.sectors)
  BY RecordShapes
<1> HIDE DEF rec
<1>3. rec.checks \geq 1 /\ DOMAIN rec.sectors = 1..rec.checks /\ rec.checks \in Nat
  BY <1>2
<1>4. FixupOk(rec) <=> \A i \in DOMAIN rec.sectors : rec.sectors[i]
  BY <1>3 DEF FixupOk
<1>5. Readable(rec) /\ Named(rec) <=> Shown(rec) /\ Intact(rec)
  BY <1>1, <1>4 DEF Readable, Intact, Named
<1> QED
  BY <1>1, <1>5 DEF ParseRecord, rec

\* The pieces hold all that is valid.
LEMMA Capacity ==
  ASSUME vol \in Volumes, Dense
  PROVE  vol.valid \leq Before(Len(vol.layout) + 1) /\ Len(vol.layout) \in Nat
<1> DEFINE L == Len(vol.layout)
<1>1. /\ vol.layout \in Seq([vcn : Nat, lcn : Nat \cup {Sparse}, len : Nat])
      /\ vol.valid \leq vol.bpc * IF vol.layout = <<>> THEN 0
                                  ELSE LET last == vol.layout[L] IN last.vcn + last.len
      /\ vol.bpc \in Nat
  BY VolumeShapes
<1>2. L \in Nat /\ DOMAIN vol.layout = 1..L /\ (vol.layout = <<>> <=> L = 0)
  BY <1>1
<1>3. CASE L = 0
  <2>1. vol.bpc * 0 = 0
    BY <1>1
  <2> QED BY <1>1, <1>2, <1>3, <2>1 DEF Before
<1>4. CASE L # 0
  <2> DEFINE a == vol.layout[L].vcn
             b == vol.layout[L].len
  <2>1. L \in DOMAIN vol.layout
    BY <1>2, <1>4
  <2>2. Before(L + 1) = From(L) + (Stop(L) - Start(L)) /\ Laid(L)
    BY <2>1, BeforeIs, LaidOut
  <2>3. Before(L + 1) = a * vol.bpc + b * vol.bpc
    BY <2>2 DEF Laid, From
  <2>4. vol.valid \leq vol.bpc * (a + b) /\ a \in Nat /\ b \in Nat
    BY <1>1, <1>2, <1>4, <2>1, Shape
  <2> HIDE DEF a, b
  <2>5. vol.bpc * (a + b) = a * vol.bpc + b * vol.bpc
    BY <1>1, <2>4
  <2> QED BY <1>2, <2>3, <2>4, <2>5
<1> QED
  BY <1>2, <1>3, <1>4

LEMMA ValidSame ==
  ASSUME vol' = vol
  PROVE  /\ Valid' = Valid /\ ByJournal' = ByJournal /\ Whole' = Whole
BY DEF Valid, Number, ByJournal, TableRaises, Whole, Dense

LEMMA NextPlaced ==
  ASSUME ScanTyped, Dense, Placed, [Next]_vars, ~ReadFails PROVE Placed'
<1>1. CASE ReadHead
  BY <1>1, ReadHeadPlaced
<1>2. CASE Seek
  BY <1>2, SeekPlaced
<1>3. CASE SeekFails
  BY <1>3, SeekFailsPlaced
<1>4. CASE Read
  BY <1>4, WantedType, ParsedPlaced DEF Read
<1>5. CASE ReadShort
  <2>1. PICK n \in 1..Wanted-1 : Parsed(n)
    BY <1>5 DEF ReadShort
  <2>2. n \in Nat /\ n \leq reader.left
    BY WantedType, TypedParts
  <2> QED BY <1>5, <2>1, <2>2, ParsedPlaced DEF ReadShort
<1>6. CASE HeadFails \/ RunsDone \/ UsnBatch \/ UsnEnds \/ Resolve \/ Done
  BY <1>6 DEF HeadFails, Fallback, RunsDone, UsnBatch, UsnEnds, Resolve, Done, Placed
<1>7. CASE Ended \/ UNCHANGED vars
  BY <1>7, SamePlaced DEF Ended
<1> QED
  BY <1>1, <1>2, <1>3, <1>4, <1>5, <1>6, <1>7 DEF Next

LEMMA ReadHeadFills == ASSUME ScanTyped, Whole, Filling, ReadHead PROVE Filling'
<1> DEFINE runs == IF vol.bytes = Unreadable THEN <<>> ELSE DataRuns(vol.bytes)
<1>1. /\ phase = "head" /\ vol' = vol /\ vol \in Volumes /\ entries = Nothing /\ ~slipped
      /\ vol.valid \in Nat /\ vol.rec \in Nat \ {0} /\ Number \subseteq Nat
  BY TypedParts, VolumeIs DEF ReadHead, Fallback, ScanTyped, Filling, Number
<1>2. vol.bytes # Unreadable => Len(runs) = Len(vol.layout)
  <2>1. ASSUME vol.bytes # Unreadable PROVE Len(DataRuns(vol.bytes)) = Len(vol.layout)
    <3>1. vol.bytes = Encoded(vol.layout) /\ Clear(vol.layout)
      BY <1>1, <2>1, LayoutIs DEF Whole, Dense
    <3> QED BY <3>1, WholeIsRead
  <2> QED BY <2>1
<1>3. CASE runs = <<>>
  <2>1. phase' = "usn" /\ entries' = Nothing /\ reader'.next = 0
    BY <1>3 DEF ReadHead, Fallback, NoReader
  <2>2. ByJournal \/ Valid = {}
    <3>1. ASSUME vol.bytes # Unreadable PROVE Valid = {}
      <4>1. Len(vol.layout) = 0
        BY <1>2, <1>3, <3>1
      <4>2. vol.valid \leq 0
        BY <1>1, <4>1, Capacity DEF Before, Whole
      <4>3. vol.valid = 0
        BY <1>1, <4>2
      <4>4. vol.valid \div vol.rec = 0
        BY <1>1, <4>3
      <4>5. \A n \in Number : ~(n < 0)
        BY <1>1
      <4> QED BY <4>4, <4>5, Zenon DEF Valid
    <3> QED BY <3>1 DEF ByJournal
  <2>3. \A n \in Valid : ~(n < reader'.next)
    BY <1>1, <2>1 DEF Valid
  <2>4. DOMAIN entries' = {}
    BY <2>1, NothingIs
  <2> QED BY <1>1, <2>1, <2>2, <2>3, <2>4, ValidSame DEF Filling
<1>4. CASE runs # <<>>
  <2>1. /\ phase' = "run" /\ reader' = [NoReader EXCEPT !.runs = runs] /\ entries' = entries
    BY <1>4 DEF ReadHead
  <2>2. vol.bytes # Unreadable
    BY <1>4
  <2> HIDE DEF runs
  <2>3. reader'.num = 0 /\ reader'.runs = runs
    BY <2>1 DEF NoReader
  <2>4. \A n \in Valid : ~(n < reader'.num)
    BY <1>1, <2>3 DEF Valid
  <2>5. DOMAIN entries' = {}
    BY <1>1, <2>1, NothingIs
  <2> QED BY <1>1, <1>2, <2>1, <2>2, <2>3, <2>4, <2>5, ValidSame DEF Filling
<1> QED
  BY <1>3, <1>4

\* What a read adds, or why it gives the table up.
LEMMA ParsedLists ==
  ASSUME NEW n, Parsed(n)
  PROVE  LET read == ReadRecords(reader.pos, n) IN
         \/ /\ Fallback /\ slipped' = FALSE
            /\ \E i \in DOMAIN read : \E r \in read[i] :
                 Readable(vol.records[r]) /\ Raises(vol.records[r])
         \/ /\ DOMAIN entries' = DOMAIN entries \cup
                 {reader.num + i : i \in {j \in DOMAIN read :
                    \E r \in read[j] : ParseRecord(vol.records[r]) # NoEntry}}
            /\ \A i \in DOMAIN read : \A r \in read[i] :
                 ~(Readable(vol.records[r]) /\ Raises(vol.records[r]))
            /\ phase' \in {"read", "run"}
<1> DEFINE read  == ReadRecords(reader.pos, n)
           Kept(i) == {r \in read[i] : ParseRecord(vol.records[r]) # NoEntry}
           found == {i \in DOMAIN read : Kept(i) # {}}
           new   == [x \in {reader.num + i : i \in found} |-> CHOOSE r \in Kept(x - reader.num) : TRUE]
           bad   == \E i \in DOMAIN read : \E r \in read[i] :
                      Readable(vol.records[r]) /\ Raises(vol.records[r])
<1>1. CASE bad
  BY <1>1 DEF Parsed
<1>2. CASE ~bad
  <2>1. /\ entries' = [x \in DOMAIN entries \cup DOMAIN new |->
                         IF x \in DOMAIN new THEN new[x] ELSE entries[x]]
        /\ phase' \in {"read", "run"}
    BY <1>2 DEF Parsed
  <2>2. DOMAIN entries' = DOMAIN entries \cup DOMAIN new
    <3> HIDE DEF new
    <3> QED BY <2>1
  <2>3. DOMAIN new = {reader.num + i : i \in found}
    OBVIOUS
  <2>4. found = {j \in DOMAIN read : \E r \in read[j] : ParseRecord(vol.records[r]) # NoEntry}
    OBVIOUS
  <2> HIDE DEF new, found, read
  <2> QED BY <1>2, <2>1, <2>2, <2>3, <2>4 DEF read
<1> QED
  BY <1>1, <1>2

\* The records read lie in the valid part.
LEMMA RecordsThere ==
  ASSUME ScanTyped, Dense, Reading(reader), NEW n \in Nat, n \leq reader.left,
         NEW i \in 0..(n \div vol.rec) - 1, NEW r \in Nat,
         r * vol.rec = reader.total + i * vol.rec
  PROVE  r < vol.valid \div vol.rec
<1>1. /\ vol.rec \in Nat \ {0} /\ vol.valid \in Nat /\ reader.total \in Nat /\ reader.left \in Nat
      /\ reader.total + reader.left \leq vol.valid
  BY TypedParts
<1> DEFINE y == i * vol.rec
           z == r * vol.rec
<1>2. y \in Nat /\ y + vol.rec \leq n
  BY RecordPlace
<1>3. z \in Nat /\ (r + 1) * vol.rec = z + vol.rec /\ z = reader.total + y
  BY <1>1
<1> HIDE DEF y, z
<1>4. (r + 1) * vol.rec \leq vol.valid
  BY <1>1, <1>2, <1>3
<1>5. r + 1 \in Nat
  OBVIOUS
<1>6. r + 1 \leq vol.valid \div vol.rec
  BY <1>1, <1>4, <1>5, DivAtLeast
<1>7. vol.valid \div vol.rec \in Nat
  BY TypedParts
<1> QED
  BY <1>6, <1>7

\* A read passes the next records, and no others.
LEMMA RecordsPassed ==
  ASSUME ScanTyped, Dense, Reading(reader), reader.num * vol.rec = reader.total,
         NEW n \in Nat, n \leq reader.left, NEW k \in Nat, k = n \div vol.rec
  PROVE  /\ \A i \in 0..k-1 : \A r \in ReadRecords(reader.pos, n)[i] :
              r = reader.num + i /\ r \in Valid
         /\ \A r \in Valid :
              r < reader.num + k <=>
                \/ r < reader.num
                \/ \E i \in 0..k-1 : r = reader.num + i /\ r \in ReadRecords(reader.pos, n)[i]
<1>1. /\ reader.num \in Nat /\ Number \subseteq Nat /\ vol.rec \in Nat
      /\ DOMAIN ReadRecords(reader.pos, n) = 0..k-1
      /\ \A i \in 0..k-1 : ReadRecords(reader.pos, n)[i] = RecordAt(reader.pos + i * vol.rec)
  BY TypedParts, VolumeIs DEF ScanTyped, Number, ReadRecords
<1>2. \A i \in 0..k-1 : \A r : r \in RecordAt(reader.pos + i * vol.rec) <=> r \in Number /\ r = reader.num + i
  BY RecordIs
<1>3. ASSUME NEW i \in 0..k-1, NEW r \in ReadRecords(reader.pos, n)[i]
      PROVE  r = reader.num + i /\ r \in Valid
  <2>1. r \in RecordAt(reader.pos + i * vol.rec) /\ r \in Number /\ r = reader.num + i
    BY <1>1, <1>2
  <2>2. r * vol.rec = reader.total + i * vol.rec
    BY <2>1, RecordPlace
  <2>3. r < vol.valid \div vol.rec
    BY <1>1, <2>1, <2>2, RecordsThere
  <2> QED BY <2>1, <2>3 DEF Valid
<1>4. ASSUME NEW r \in Valid
      PROVE  r < reader.num + k <=>
               \/ r < reader.num
               \/ \E i \in 0..k-1 : r = reader.num + i /\ r \in ReadRecords(reader.pos, n)[i]
  <2>1. r \in Number /\ r \in Nat
    BY <1>1 DEF Valid
  <2>2. ASSUME r < reader.num + k, ~(r < reader.num)
        PROVE  \E i \in 0..k-1 : r = reader.num + i /\ r \in ReadRecords(reader.pos, n)[i]
    <3>1. r - reader.num \in 0..k-1 /\ r = reader.num + (r - reader.num)
      BY <1>1, <2>1, <2>2
    <3> QED BY <1>1, <1>2, <2>1, <3>1
  <2>3. \A i \in 0..k-1 : reader.num + i < reader.num + k
    BY <1>1
  <2>4. r < reader.num => r < reader.num + k
    BY <1>1, <2>1
  <2> QED BY <2>2, <2>3, <2>4
<1> QED
  BY <1>3, <1>4

LEMMA ParsedFills ==
  ASSUME ScanTyped, Dense, Placed, Counted, Filling, phase = "read",
         NEW n \in Nat, n \leq reader.left, Parsed(n)
  PROVE  Filling'
<1> DEFINE read == ReadRecords(reader.pos, n)
           k == n \div vol.rec
<1>1. /\ vol \in Volumes /\ reader \in ReaderType /\ reader.num \in Nat /\ reader.total \in Nat
      /\ vol.rec \in Nat \ {0} /\ Number \subseteq Nat /\ k \in Nat /\ Reading(reader)
      /\ DOMAIN read = 0..k-1
  BY TypedParts, VolumeIs, DivType DEF ScanTyped, Fits, Number, Placed, ReadRecords
<1>2. CASE /\ Fallback /\ slipped' = FALSE
           /\ \E i \in DOMAIN read : \E r \in read[i] :
                Readable(vol.records[r]) /\ Raises(vol.records[r])
  <2>1. phase' = "usn" /\ entries' = Nothing /\ reader'.next = 0 /\ vol' = vol
    BY <1>2 DEF Fallback, NoReader
  <2>2. PICK i \in 0..k-1 : \E r \in read[i] : Readable(vol.records[r]) /\ Raises(vol.records[r])
    BY <1>1, <1>2
  <2>3. PICK r \in RecordAt(reader.pos + i * vol.rec) : Readable(vol.records[r]) /\ Raises(vol.records[r])
    BY <2>2 DEF ReadRecords
  <2>4. r \in Number /\ r < vol.valid \div vol.rec
    <3>1. r \in Number /\ r * vol.rec = reader.total + i * vol.rec
      BY <1>1, <2>3, RecordPlace
    <3> QED BY <1>1, <3>1, RecordsThere
  <2>5. ByJournal
    BY <2>3, <2>4 DEF ByJournal, TableRaises, Valid
  <2>6. \A x \in Valid : ~(x < reader'.next)
    BY <1>1, <2>1 DEF Valid
  <2>7. DOMAIN entries' = {}
    BY <2>1, NothingIs
  <2> QED BY <2>1, <2>5, <2>6, <2>7, ValidSame DEF Filling
<1>3. CASE /\ DOMAIN entries' = DOMAIN entries \cup
                {reader.num + i : i \in {j \in DOMAIN read :
                   \E r \in read[j] : ParseRecord(vol.records[r]) # NoEntry}}
           /\ \A i \in DOMAIN read : \A r \in read[i] :
                ~(Readable(vol.records[r]) /\ Raises(vol.records[r]))
           /\ phase' \in {"read", "run"}
  <2>1. /\ vol' = vol
        /\ reader' = [reader EXCEPT !.pos = @ + n, !.left = reader.left - n, !.total = @ + n,
                        !.num = @ + k, !.at = IF reader.left - n > 0 THEN @ ELSE @ + 1]
        /\ slipped' = (slipped \/ n % vol.rec # 0)
    BY <1>3, ParsedIs DEF Fallback
  <2>2. reader'.num = reader.num + k /\ reader'.runs = reader.runs
    BY <1>1, <2>1 DEF ReaderType
  <2>3. vol.bytes # Unreadable /\ Len(reader.runs) = Len(vol.layout)
    BY DEF Filling
  <2>4. ASSUME ~slipped'
        PROVE  /\ DOMAIN entries' =
                    {x \in Valid : x < reader.num + k /\ ParseRecord(vol.records[x]) # NoEntry}
               /\ \A x \in Valid :
                    x < reader.num + k => ~(Readable(vol.records[x]) /\ Raises(vol.records[x]))
    <3>1. /\ ~slipped /\ reader.num * vol.rec = reader.total
          /\ DOMAIN entries = {x \in Valid : x < reader.num /\ ParseRecord(vol.records[x]) # NoEntry}
          /\ \A x \in Valid :
               x < reader.num => ~(Readable(vol.records[x]) /\ Raises(vol.records[x]))
      BY <2>1, <2>4 DEF Counted, Numbered, Filling
    <3>2. /\ \A i \in 0..k-1 : \A r \in read[i] : r = reader.num + i /\ r \in Valid
          /\ \A r \in Valid :
               r < reader.num + k <=>
                 r < reader.num \/ \E i \in 0..k-1 : r = reader.num + i /\ r \in read[i]
      BY <1>1, <3>1, RecordsPassed
    <3> HIDE DEF read, k
    <3>3. ASSUME NEW x \in DOMAIN entries'
          PROVE  x \in Valid /\ x < reader.num + k /\ ParseRecord(vol.records[x]) # NoEntry
      <4>1. CASE x \in DOMAIN entries
        BY <3>1, <3>2, <4>1
      <4>2. CASE x \notin DOMAIN entries
        <5>1. PICK i \in 0..k-1 : x = reader.num + i /\ \E r \in read[i] : ParseRecord(vol.records[r]) # NoEntry
          BY <1>1, <1>3, <4>2
        <5>2. PICK r \in read[i] : ParseRecord(vol.records[r]) # NoEntry
          BY <5>1
        <5>3. r = x /\ x \in Valid
          BY <3>2, <5>1, <5>2
        <5> QED BY <3>2, <5>1, <5>2, <5>3
      <4> QED BY <4>1, <4>2
    <3>4. ASSUME NEW x \in Valid, x < reader.num + k, ParseRecord(vol.records[x]) # NoEntry
          PROVE  x \in DOMAIN entries'
      <4>1. CASE x < reader.num
        BY <1>3, <3>1, <3>4, <4>1
      <4>2. CASE \E i \in 0..k-1 : x = reader.num + i /\ x \in read[i]
        BY <1>1, <1>3, <3>4, <4>2
      <4> QED BY <3>2, <3>4, <4>1, <4>2
    <3>5. ASSUME NEW x \in Valid, x < reader.num + k
          PROVE  ~(Readable(vol.records[x]) /\ Raises(vol.records[x]))
      BY <1>1, <1>3, <3>1, <3>2, <3>5
    <3> QED BY <3>3, <3>4, <3>5
  <2> HIDE DEF k
  <2> QED BY <1>3, <2>1, <2>2, <2>3, <2>4, ValidSame DEF Filling
<1> QED
  BY <1>2, <1>3, ParsedLists

\* Where the last piece ends, all that is valid has been read.
LEMMA RunsDoneFills ==
  ASSUME ScanTyped, Whole, Placed, Counted, Filling, RunsDone PROVE Filling'
<1>1. /\ phase = "run" /\ phase' = "resolve" /\ UNCHANGED <<vol, entries, slipped>>
      /\ ~(reader.at \leq Len(reader.runs) /\ reader.total < vol.valid)
      /\ vol \in Volumes /\ Dense
  BY DEF RunsDone, RunsLeft, ScanTyped, Whole
<1>2. /\ vol.rec \in Nat \ {0} /\ vol.valid \in Nat /\ reader.total \in Nat /\ reader.num \in Nat
      /\ reader.at \in Nat /\ reader.at \leq Len(reader.runs) + 1 /\ Len(reader.runs) \in Nat
      /\ reader.total \leq vol.valid /\ vol.valid \div vol.rec \in Nat
  <2>1. reader.left \in Nat /\ reader.total + reader.left \leq vol.valid
    BY TypedParts
  <2> QED BY <2>1, TypedParts
<1>3. reader.total = vol.valid
  <2>1. CASE reader.at \leq Len(reader.runs)
    BY <1>1, <1>2, <2>1
  <2>2. CASE ~(reader.at \leq Len(reader.runs))
    <3>1. reader.at = Len(vol.layout) + 1
      BY <1>1, <1>2, <2>2 DEF Filling
    <3>2. reader.total \in {Before(Len(vol.layout) + 1), vol.valid}
      BY <1>1, <3>1 DEF Placed
    <3>3. vol.valid \leq Before(Len(vol.layout) + 1)
      BY <1>1, Capacity
    <3> QED BY <1>2, <3>2, <3>3
  <2> QED BY <2>1, <2>2
<1>4. SUFFICES ASSUME ~slipped
      PROVE  DOMAIN entries =
               {n \in Valid : Shown(vol.records[n]) /\ (ByJournal \/ Intact(vol.records[n]))}
  BY <1>1, ValidSame DEF Filling
<1>5. vol.valid \div vol.rec \leq reader.num
  <2> DEFINE q == vol.valid \div vol.rec
             c == vol.rec
             m == reader.num
  <2>1. q * c \leq vol.valid /\ vol.valid = m * c
    BY <1>1, <1>2, <1>3, <1>4, DivType DEF Counted, Numbered
  <2>2. q \in Nat /\ c \in Nat \ {0} /\ m \in Nat
    BY <1>2
  <2> HIDE DEF q, c, m
  <2>3. m * c \in Nat /\ q * c \in Nat /\ (m + 1) * c = m * c + c
    BY <2>2
  <2>4. ASSUME m + 1 \leq q PROVE FALSE
    <3>1. (m + 1) * c \leq q * c
      BY <2>2, <2>4, TimesKeeps
    <3> QED BY <1>2, <2>1, <2>2, <2>3, <3>1
  <2>5. q \leq m
    BY <2>2, <2>4
  <2> QED BY <2>5 DEF q, m
<1>6. \A n \in Valid : n \in DOMAIN vol.records /\ n < reader.num
  <2>1. \A n \in Valid : n \in DOMAIN vol.records /\ n \in Nat /\ n < vol.valid \div vol.rec
    BY <1>1, VolumeIs DEF Valid, Number
  <2> QED BY <1>2, <1>5, <2>1
<1>7. /\ vol.bytes # Unreadable
      /\ DOMAIN entries = {n \in Valid : n < reader.num /\ ParseRecord(vol.records[n]) # NoEntry}
      /\ \A n \in Valid : n < reader.num => ~(Readable(vol.records[n]) /\ Raises(vol.records[n]))
  BY <1>1, <1>4 DEF Filling
<1>8. ~ByJournal
  BY <1>6, <1>7 DEF ByJournal, TableRaises
<1>9. \A n \in Valid : ParseRecord(vol.records[n]) # NoEntry
                        <=> Shown(vol.records[n]) /\ Intact(vol.records[n])
  BY <1>1, <1>6, ParsedShown
<1> QED
  BY <1>6, <1>7, <1>8, <1>9

\* What the interface returns at once are the first it has to offer.
LEMMA BatchFirst ==
  ASSUME ScanTyped, Offered # {}
  PROVE  \A n \in Offered : n < NextRef <=> n \in Batch
<1> DEFINE m == vol.valid \div vol.rec
<1>1. /\ m \in Nat /\ Batch \subseteq Offered /\ Offered \subseteq 0..m
      /\ NextRef \in Nat /\ NextRef > reader.next
  BY TypedParts, BatchIs
<1> DEFINE last == CHOOSE y \in Batch : \A k \in Batch : k \leq y
<1>2. Batch # {}
  <2>1. PICK x \in Offered : \A y \in Offered : x \leq y
    <3>1. Offered \subseteq Nat
      BY <1>1
    <3> QED BY <3>1, Least
  <2>2. \A k \in Offered : ~(k < x)
    <3>1. \A k \in Offered : k \in Nat /\ x \in Nat /\ x \leq k
      BY <1>1, <2>1
    <3> QED BY <3>1
  <2>3. {k \in Offered : k < x} = {}
    BY <2>2
  <2>4. Cardinality({k \in Offered : k < x}) < BatchSize
    <3>1. Cardinality({k \in Offered : k < x}) = 0
      BY <2>3, FS_EmptySet
    <3> QED BY <3>1, ScanBounds
  <2> QED BY <2>1, <2>4 DEF Batch
<1>3. last \in Batch /\ \A k \in Batch : k \leq last
  <2>1. \E y \in Batch : \A k \in Batch : k \leq y
    <3>1. Batch \subseteq 0..m
      BY <1>1
    <3> QED BY <1>1, <1>2, <3>1, Greatest
  <2> QED BY <2>1
<1>4. NextRef = 1 + last
  BY DEF NextRef
<1> HIDE DEF last, m
<1>5. last \in Nat /\ last \in Offered /\ Cardinality({k \in Offered : k < last}) < BatchSize
  <2>1. last \in Offered /\ Cardinality({k \in Offered : k < last}) < BatchSize
    BY <1>3 DEF Batch
  <2> QED BY <1>1, <2>1
<1>6. ASSUME NEW n \in Offered, n < NextRef PROVE n \in Batch
  <2> DEFINE few  == {k \in Offered : k < n}
             more == {k \in Offered : k < last}
  <2>1. n \in Nat /\ n \leq last
    BY <1>1, <1>4, <1>5, <1>6
  <2>2. few \subseteq more
    <3>1. \A k \in Offered : k \in Nat
      BY <1>1
    <3>2. \A k \in Offered : k < n => k < last
      BY <1>5, <2>1, <3>1
    <3> QED BY <3>2
  <2>3. IsFiniteSet(more)
    <3>1. IsFiniteSet(0..m)
      BY <1>1, FS_Interval
    <3>2. more \subseteq 0..m
      BY <1>1
    <3> QED BY <3>1, <3>2, FS_Subset
  <2>4. Cardinality(few) \leq Cardinality(more) /\ IsFiniteSet(few)
    BY <2>2, <2>3, FS_Subset
  <2>5. Cardinality(few) \in Nat /\ Cardinality(more) \in Nat
    BY <2>3, <2>4, FS_CardinalityType
  <2>6. Cardinality(more) < BatchSize
    BY <1>5
  <2> HIDE DEF few, more
  <2>7. Cardinality(few) < BatchSize
    BY <2>4, <2>5, <2>6, ScanBounds
  <2> QED BY <2>7 DEF Batch, few
<1>7. ASSUME NEW n \in Batch PROVE n < NextRef
  <2>1. n \in Nat /\ n \leq last
    BY <1>1, <1>3
  <2> QED BY <1>4, <1>5, <2>1
<1> QED
  BY <1>6, <1>7

LEMMA UsnBatchFills == ASSUME ScanTyped, Filling, UsnBatch PROVE Filling'
<1>1. /\ phase = "usn" /\ phase' = "usn" /\ vol' = vol /\ Offered # {} /\ vol \in Volumes
      /\ DOMAIN entries' = DOMAIN entries \cup {n \in Batch : Named(vol.records[n])}
      /\ reader' = [reader EXCEPT !.next = NextRef] /\ reader \in ReaderType
  BY DEF UsnBatch, ScanTyped, Fits
<1>2. reader'.next = NextRef
  BY <1>1 DEF ReaderType
<1>3. /\ Batch \subseteq Offered /\ NextRef \in Nat /\ NextRef > reader.next
      /\ reader.next \in Nat /\ Number \subseteq Nat
  BY <1>1, BatchIs, TypedParts, VolumeIs DEF Number
<1>4. ByJournal \/ Valid = {}
  BY <1>1 DEF Filling
<1>5. DOMAIN entries = {n \in Valid : n < reader.next /\ Named(vol.records[n])}
  BY <1>1 DEF Filling
<1>6. ASSUME NEW n \in Valid, Named(vol.records[n])
      PROVE  n < NextRef <=> n < reader.next \/ n \in Batch
  <2>1. n \in Nat /\ n \in DOMAIN vol.records /\ n < vol.valid \div vol.rec
    BY <1>3 DEF Valid, Number
  <2>2. CASE n < reader.next
    BY <1>3, <2>1, <2>2
  <2>3. CASE ~(n < reader.next)
    <3>1. n \geq reader.next
      BY <1>3, <2>1, <2>3
    <3>2. n \in Offered
      BY <1>6, <2>1, <3>1 DEF Offered, Named
    <3> QED BY <1>1, <2>3, <3>2, BatchFirst
  <2> QED BY <2>2, <2>3
<1>7. Batch \subseteq Valid
  BY <1>3 DEF Offered, Valid, Number
<1>8. DOMAIN entries' = {n \in Valid : n < NextRef /\ Named(vol.records[n])}
  BY <1>1, <1>5, <1>6, <1>7
<1> QED
  BY <1>1, <1>2, <1>4, <1>8, ValidSame DEF Filling

LEMMA UsnEndsFills ==
  ASSUME ScanTyped, Filling, UsnEnds, Offered = {} PROVE Filling'
<1>1. phase = "usn" /\ phase' = "resolve" /\ UNCHANGED <<vol, entries, slipped>> /\ vol \in Volumes
  BY DEF UsnEnds, ScanTyped
<1>2. ByJournal \/ Valid = {}
  BY <1>1 DEF Filling
<1>3. DOMAIN entries = {n \in Valid : n < reader.next /\ Named(vol.records[n])}
  BY <1>1 DEF Filling
<1>4. reader.next \in Nat /\ Number \subseteq Nat
  BY <1>1, TypedParts, VolumeIs DEF Number
<1>5. ASSUME NEW n \in Valid
      PROVE  n < reader.next /\ Named(vol.records[n]) <=> Shown(vol.records[n])
  <2>1. n \in Nat /\ n \in DOMAIN vol.records /\ n < vol.valid \div vol.rec
    BY <1>4 DEF Valid, Number
  <2>2. Named(vol.records[n]) <=> Shown(vol.records[n])
    BY <1>1, <2>1, NamedShown
  <2>3. ASSUME Named(vol.records[n]) PROVE n < reader.next
    <3>1. n \notin Offered
      OBVIOUS
    <3>2. ~(n \geq reader.next)
      BY <2>1, <2>3, <3>1 DEF Offered, Named
    <3> QED BY <1>4, <2>1, <3>2
  <2> QED BY <2>2, <2>3
<1> QED
  BY <1>1, <1>2, <1>3, <1>5, ValidSame DEF Filling

LEMMA OthersFill ==
  ASSUME ScanTyped, Filling, Seek \/ Resolve \/ Done \/ UNCHANGED vars PROVE Filling'
<1>1. CASE Seek
  <2>1. reader \in ReaderType
    BY DEF ScanTyped, Fits
  <2>2. /\ phase = "run" /\ phase' = "read" /\ UNCHANGED <<vol, entries, slipped>>
        /\ reader' = [reader EXCEPT !.left = RunBytes, !.pos = Run.lcn * vol.bpc]
    BY <1>1 DEF Seek
  <2>3. reader'.num = reader.num /\ reader'.runs = reader.runs
    BY <2>1, <2>2 DEF ReaderType
  <2> QED BY <2>2, <2>3, ValidSame DEF Filling
<1>2. CASE Resolve \/ Done
  <2>1. /\ phase = "resolve" /\ phase' \in {"resolve", "done"}
        /\ UNCHANGED <<vol, entries, slipped>>
    BY <1>2 DEF Resolve, Done
  <2> QED BY <2>1, ValidSame DEF Filling
<1>3. CASE UNCHANGED vars
  BY <1>3, ValidSame DEF Filling, vars
<1> QED
  BY <1>1, <1>2, <1>3

LEMMA NextFilled == ASSUME ScanTyped, Counted, Filled, [Next]_vars PROVE Filled'
<1> SUFFICES ASSUME Whole', faults' = 0 PROVE Placed' /\ Filling'
  BY DEF Filled
<1>1. ~Fault /\ faults = 0
  <2>1. faults \in Nat
    BY ScanBounds DEF ScanTyped
  <2>2. ~Fault
    BY <2>1 DEF Fault
  <2>3. UNCHANGED faults
    BY <2>2 DEF Next, ReadHead, HeadFails, Seek, SeekFails, RunsDone, Read, ReadShort, ReadFails,
                UsnBatch, UsnEnds, Resolve, Done, Ended, vars, NoFault
  <2> QED BY <2>2, <2>3
<1>2. vol' = vol
  <2>1. CASE Read
    BY <2>1 DEF Read, Parsed, Fallback
  <2> QED BY <1>1, <2>1 DEF Next, ReadHead, HeadFails, Seek, SeekFails, RunsDone, ReadShort, ReadFails,
             UsnBatch, UsnEnds, Resolve, Done, Ended, vars, Fallback
<1>3. Whole /\ Dense /\ Placed /\ Filling
  BY <1>1, <1>2, ValidSame DEF Filled, Whole
<1>4. Placed'
  BY <1>1, <1>3, NextPlaced DEF ReadFails
<1>5. CASE ReadHead
  BY <1>3, <1>4, <1>5, ReadHeadFills
<1>6. CASE Read
  <2>1. phase = "read" /\ Parsed(Wanted) /\ Wanted \in Nat /\ Wanted \leq reader.left
    BY <1>6, WantedType DEF Read
  <2> QED BY <1>3, <1>4, <2>1, ParsedFills
<1>7. CASE RunsDone
  BY <1>3, <1>4, <1>7, RunsDoneFills
<1>8. CASE UsnBatch
  BY <1>3, <1>4, <1>8, UsnBatchFills
<1>9. CASE UsnEnds
  <2>1. Offered = {}
    BY <1>1, <1>9 DEF UsnEnds
  <2> QED BY <1>3, <1>4, <1>9, <2>1, UsnEndsFills
<1>10. CASE Seek \/ Resolve \/ Done \/ Ended \/ UNCHANGED vars
  BY <1>3, <1>4, <1>10, OthersFill DEF Ended
<1> QED
  BY <1>1, <1>5, <1>6, <1>7, <1>8, <1>9, <1>10 DEF Next, HeadFails, SeekFails, ReadShort, ReadFails

LEMMA InitFilled == Init => Filled
BY DEF Init, Filled, Placed, Filling

\* Without a failing call every record in use with a long name is listed, from the
\* table in whatever pieces it lies, or through the journal interface, none that is
\* damaged or beyond the valid length, and the two ways are not mixed: on every volume.
THEOREM ListIsComplete == Spec => []Complete
<1>1. Filled => Complete
  BY DEF Filled, Filling, Complete
<1>2. Init => Counted /\ Filled
  BY InitCounted, InitFilled
<1>3. ScanTyped /\ Counted /\ Filled /\ [Next]_vars => (Counted /\ Filled)'
  BY NextCounted, NextFilled
<1> QED
  BY <1>1, <1>2, <1>3, AlwaysTyped, PTL DEF Spec

=============================================================================
