--------------------------- MODULE InductionFacts ---------------------------
(***************************************************************************)
(* Induction over numbers and over sequences, without an operator as a     *)
(* parameter: the property is the set of the values that have it, and a    *)
(* least counterexample is impossible.                                     *)
(***************************************************************************)
EXTENDS Loops, FiniteSetTheorems, SequenceTheorems, TLAPS

\* A set of naturals has a least element.
LEMMA LeastNat ==
  ASSUME NEW T, T \subseteq Nat, T # {}
  PROVE  \E x \in T : \A y \in T : x <= y
  <1>1. PICK t \in T : TRUE
    OBVIOUS
  <1> DEFINE Seg(x) == 0..(x - 1)
  <1> DEFINE S == 0..t
  <1> DEFINE U == {Seg(x) : x \in {y \in T : y <= t}}
  <1>2. IsFiniteSet(S)
    BY <1>1, FS_Interval
  <1>3. IsWellFoundedOn(StrictSubsetOrdering(S), FiniteSubsetsOf(S))
    BY FS_StrictSubsetOrderingWellFounded
  <1>4. U \subseteq FiniteSubsetsOf(S)
    BY <1>1, <1>2, FS_Subset DEF FiniteSubsetsOf
  <1>5. U # {}
    BY <1>1
  <1> HIDE DEF U
  <1>6. PICK u \in U : \A w \in U : ~(<<w, u>> \in StrictSubsetOrdering(S))
    BY <1>3, <1>4, <1>5, WFMin
  <1>7. PICK x \in T : x <= t /\ u = Seg(x)
    BY <1>6 DEF U
  <1>8. ASSUME NEW y \in T, y < x PROVE FALSE
    <2>1. y <= t /\ Seg(y) \in U
      BY <1>1, <1>7, <1>8 DEF U
    <2>2. Seg(y) \subseteq Seg(x) /\ y \in Seg(x) /\ y \notin Seg(y)
      BY <1>7, <1>8
    <2>3. <<Seg(y), u>> \in StrictSubsetOrdering(S)
      BY <2>1, <2>2, <1>7, <1>1 DEF StrictSubsetOrdering
    <2>4. QED
      BY <2>1, <2>3, <1>6
  <1>9. QED
    BY <1>7, <1>8

\* What the empty sequence has, and Append preserves, every sequence has.
LEMMA SeqByAppend ==
  ASSUME NEW S, NEW T, <<>> \in T,
         \A s \in Seq(S) : \A e \in S : s \in T => Append(s, e) \in T
  PROVE  \A s \in Seq(S) : s \in T
  <1> DEFINE bad == {n \in Nat : \E s \in Seq(S) : Len(s) = n /\ s \notin T}
  <1> SUFFICES ASSUME NEW q \in Seq(S), q \notin T PROVE FALSE
    OBVIOUS
  <1>1. Len(q) \in bad
    BY LenProperties
  <1>2. PICK m \in bad : \A y \in bad : m <= y
    BY <1>1, LeastNat
  <1>3. PICK s \in Seq(S) : Len(s) = m /\ s \notin T
    BY <1>2
  <1>4. m # 0
    BY <1>3, EmptySeq
  <1> DEFINE front == SubSeq(s, 1, m - 1)
  <1>5. m \in Nat /\ m - 1 \in Nat /\ s[m] \in S
    BY <1>2, <1>3, <1>4, ElementOfSeq
  <1>6. /\ front \in Seq(S) /\ Len(front) = m - 1
        /\ \A i \in 1..(m - 1) : front[i] = s[i]
    <2>1. \A i \in 1..(m - 1) : s[i] \in S
      BY <1>3, <1>5, ElementOfSeq
    <2>2. QED
      BY <2>1, <1>5, SubSeqProperties
  <1>7. front \in T
    <2>1. m - 1 \notin bad
      <3> HIDE DEF bad
      <3>1. QED
        BY <1>2, <1>5
    <2>2. \A w \in Seq(S) : Len(w) = m - 1 => w \in T
      BY <2>1, <1>5
    <2>3. QED
      BY <2>2, <1>6
  <1> HIDE DEF front
  <1>8. Append(front, s[m]) \in T
    BY <1>5, <1>6, <1>7
  <1>9. Append(front, s[m]) = s
    <2>1. PICK t : t = Append(front, s[m])
      OBVIOUS
    <2>2. t \in Seq(S) /\ Len(t) = m /\ \A i \in 1..(m - 1) : t[i] = front[i]
      BY <2>1, <1>5, <1>6
    <2>3. t[m] = s[m]
      BY <2>1, <1>5, <1>6
    <2>4. ASSUME NEW i \in 1..m PROVE t[i] = s[i]
      <3>1. i = m \/ i \in 1..(m - 1)
        BY <1>5
      <3>2. QED
        BY <3>1, <2>2, <2>3, <1>6
    <2>5. QED
      <3>1. Len(t) = Len(s)
        BY <2>2, <1>3
      <3>2. \A i \in 1..Len(t) : t[i] = s[i]
        BY <2>2, <2>4
      <3>3. t = s
        BY <3>1, <3>2, <2>2, <1>3, SeqEqual
      <3>4. QED
        BY <3>3, <2>1
  <1>10. QED
    BY <1>3, <1>8, <1>9

-----------------------------------------------------------------------------
(***************************************************************************)
(* Loops and sums of module Loops.                                         *)
(***************************************************************************)

\* What holds of the first index, and of every index after one it holds of.
LEMMA IndexByStep ==
  ASSUME NEW b \in Nat, NEW n \in Nat, NEW T, b \in T,
         \A i \in (b + 1)..n : i - 1 \in T => i \in T
  PROVE  \A i \in b..n : i \in T
  <1> DEFINE bad == {i \in b..n : i \notin T}
  <1> SUFFICES ASSUME bad # {} PROVE FALSE
    OBVIOUS
  <1>1. PICK m \in bad : \A y \in bad : m <= y
    <2>1. bad \subseteq Nat
      OBVIOUS
    <2>2. QED
      BY <2>1, LeastNat
  <1>2. m \in (b + 1)..n /\ m - 1 \in b..n /\ m - 1 \notin bad
    BY <1>1
  <1>3. QED
    BY <1>1, <1>2

\* The same from zero.
LEMMA NatByStep ==
  ASSUME NEW n \in Nat, NEW T, 0 \in T, \A i \in 1..n : i - 1 \in T => i \in T
  PROVE  n \in T
  <1>1. \A i \in (0 + 1)..n : i - 1 \in T => i \in T
    OBVIOUS
  <1>2. \A i \in 0..n : i \in T
    BY <1>1, IndexByStep
  <1>3. QED
    BY <1>2

\* A table of values in St, each computed from the one before.
HasTable(St, b, n, start, F) ==
  \E f \in [b..n -> St] : \A i \in b..n : f[i] = IF i = b THEN start ELSE F[i][f[i - 1]]

\* It exists.
LEMMA TableExists ==
  ASSUME NEW St, NEW b \in Nat, NEW n \in Nat, NEW start \in St,
         NEW F \in [Nat -> [St -> St]]
  PROVE  HasTable(St, b, n, start, F)
  <1> DEFINE Tab(m, f) == /\ f \in [b..m -> St]
                          /\ \A i \in b..m :
                               f[i] = IF i = b THEN start ELSE F[i][f[i - 1]]
  <1> DEFINE T == {m \in Nat : \E f : Tab(m, f)}
  <1> DEFINE f0 == [i \in b..b |-> start]
  <1>1. b \in T
    <2>1. Tab(b, f0)
      OBVIOUS
    <2>2. QED
      BY <2>1
  <1>2. ASSUME NEW m \in (b + 1)..n, m - 1 \in T PROVE m \in T
    <2>1. PICK f : Tab(m - 1, f)
      BY <1>2
    <2> DEFINE g == [i \in b..m |-> IF i = m THEN F[m][f[m - 1]] ELSE f[i]]
    <2>2. m \in Nat /\ m - 1 \in b..(m - 1) /\ b < m
      OBVIOUS
    <2>3. F[m][f[m - 1]] \in St
      BY <2>1, <2>2
    <2>4. g \in [b..m -> St]
      BY <2>1, <2>2, <2>3
    <2>5. ASSUME NEW i \in b..m PROVE g[i] = IF i = b THEN start ELSE F[i][g[i - 1]]
      <3>1. CASE i = m
        BY <3>1, <2>2
      <3>2. CASE i # m
        <4>1. i \in b..(m - 1) /\ (i # b => i - 1 \in b..m /\ i - 1 # m)
          BY <3>2, <2>2
        <4>2. QED
          BY <4>1, <3>2, <2>1
      <3>3. QED
        BY <3>1, <3>2
    <2> HIDE DEF g
    <2>6. Tab(m, g)
      BY <2>4, <2>5
    <2>7. QED
      BY <2>2, <2>6
  <1>3. \A m \in b..n : m \in T
    <2> HIDE DEF T
    <2>1. QED
      BY <1>1, <1>2, IndexByStep
  <1>4. CASE b <= n
    <2>1. PICK f : Tab(n, f)
      BY <1>3, <1>4
    <2>2. QED
      BY <2>1 DEF HasTable
  <1>5. CASE ~(b <= n)
    <2>1. b..n = {}
      BY <1>5
    <2> DEFINE e == [i \in b..n |-> start]
    <2>2. e \in [b..n -> St]
      OBVIOUS
    <2>3. QED
      BY <2>1, <2>2 DEF HasTable
  <1>6. QED
    BY <1>4, <1>5

\* A sum grows by one summand.
LEMMA SumStep ==
  ASSUME NEW s, NEW n \in Nat, \A i \in 1..n : s[i] \in Int
  PROVE  /\ SumTo(s, 0) = 0
         /\ SumTo(s, n) \in Int
         /\ n > 0 => SumTo(s, n) = SumTo(s, n - 1) + s[n]
  <1> DEFINE Tab(m, f) == f = [i \in 0..m |-> IF i = 0 THEN 0 ELSE f[i - 1] + s[i]]
  <1>1. ASSUME NEW m \in 0..n PROVE \E f \in [0..m -> Int] : Tab(m, f)
    <2> DEFINE F == [i \in Nat |-> [x \in Int |-> IF i \in 1..m THEN x + s[i] ELSE 0]]
    <2>1. F \in [Nat -> [Int -> Int]]
      <3>1. ASSUME NEW i \in Nat, NEW x \in Int PROVE (IF i \in 1..m THEN x + s[i] ELSE 0) \in Int
        OBVIOUS
      <3>2. QED
        BY <3>1
    <2>2. \A i \in 1..m : \A x \in Int : F[i][x] = x + s[i]
      OBVIOUS
    <2> HIDE DEF F
    <2>3. PICK f \in [0..m -> Int] :
            \A i \in 0..m : f[i] = IF i = 0 THEN 0 ELSE F[i][f[i - 1]]
      <3>1. HasTable(Int, 0, m, 0, F)
        BY <2>1, TableExists
      <3>2. QED
        BY <3>1 DEF HasTable
    <2>4. Tab(m, f)
      <3>1. ASSUME NEW i \in 0..m PROVE f[i] = IF i = 0 THEN 0 ELSE f[i - 1] + s[i]
        <4>1. i # 0 => i \in 1..m /\ f[i - 1] \in Int
          OBVIOUS
        <4>2. QED
          BY <4>1, <2>2, <2>3
      <3>2. QED
        BY <3>1, <2>3
    <2>5. QED
      BY <2>4
  <1> DEFINE tab(m) == CHOOSE f : Tab(m, f)
  <1>2. ASSUME NEW m \in 0..n PROVE SumTo(s, m) = tab(m)[m] /\ Tab(m, tab(m))
    BY <1>1, <1>2 DEF SumTo
  <1>3. ASSUME NEW m \in 0..n PROVE \A i \in 0..m : tab(m)[i] = IF i = 0 THEN 0 ELSE tab(m)[i - 1] + s[i]
    <2>1. PICK g : g = tab(m)
      OBVIOUS
    <2>2. Tab(m, g)
      BY <1>2, <2>1
    <2>3. \A i \in 0..m : g[i] = IF i = 0 THEN 0 ELSE g[i - 1] + s[i]
      BY <2>2
    <2>4. QED
      BY <2>1, <2>3
  <1> HIDE DEF tab
  <1>4. ASSUME NEW m \in 0..n, NEW k \in 0..n, m <= k PROVE tab(m)[m] = tab(k)[m] /\ tab(k)[m] \in Int
    <2> DEFINE T == {i \in Nat : tab(m)[i] = tab(k)[i] /\ tab(k)[i] \in Int}
    <2>1. 0 \in T
      BY <1>3
    <2>2. ASSUME NEW i \in 1..m, i - 1 \in T PROVE i \in T
      <3>1. i \in Nat /\ i \in 0..m /\ i \in 0..k /\ i # 0 /\ s[i] \in Int
        BY <1>4, <2>2
      <3>2. QED
        BY <3>1, <1>3, <2>2
    <2> HIDE DEF T
    <2>3. m \in T
      BY <2>1, <2>2, NatByStep
    <2>4. QED
      BY <2>3 DEF T
  <1>5. SumTo(s, 0) = 0
    BY <1>2, <1>3
  <1>6. SumTo(s, n) \in Int
    BY <1>2, <1>4
  <1>7. ASSUME n > 0 PROVE SumTo(s, n) = SumTo(s, n - 1) + s[n]
    <2>1. n - 1 \in 0..n /\ n \in 0..n
      BY <1>7
    <2>2. tab(n)[n] = tab(n)[n - 1] + s[n] /\ tab(n - 1)[n - 1] = tab(n)[n - 1]
      BY <2>1, <1>3, <1>4, <1>7
    <2>3. QED
      BY <2>1, <2>2, <1>2
  <1>8. QED
    BY <1>5, <1>6, <1>7

\* A sum depends on its summands only, and on each of them by itself.
LEMMA SumChange ==
  ASSUME NEW s, NEW t, NEW n \in Nat, NEW k \in 1..n,
         \A i \in 1..n : s[i] \in Int /\ t[i] \in Int,
         \A i \in 1..n : i # k => s[i] = t[i]
  PROVE  SumTo(t, n) = SumTo(s, n) - s[k] + t[k]
  <1> DEFINE T == {m \in Nat : SumTo(t, m) = SumTo(s, m) + (IF k <= m THEN t[k] - s[k] ELSE 0)}
  <1>1. ASSUME NEW m \in 0..n
        PROVE  /\ SumTo(s, 0) = 0 /\ SumTo(t, 0) = 0
               /\ SumTo(s, m) \in Int /\ SumTo(t, m) \in Int
               /\ m > 0 => SumTo(s, m) = SumTo(s, m - 1) + s[m]
               /\ m > 0 => SumTo(t, m) = SumTo(t, m - 1) + t[m]
    <2>1. m \in Nat /\ \A i \in 1..m : s[i] \in Int /\ t[i] \in Int
      OBVIOUS
    <2>2. QED
      BY <2>1, SumStep
  <1>2. 0 \in T
    BY <1>1
  <1>3. ASSUME NEW m \in 1..n, m - 1 \in T PROVE m \in T
    <2>1. m \in 0..n /\ m - 1 \in 0..n /\ m > 0 /\ m \in Nat /\ s[m] \in Int /\ t[m] \in Int
      OBVIOUS
    <2>2. SumTo(t, m - 1) = SumTo(s, m - 1) + (IF k <= m - 1 THEN t[k] - s[k] ELSE 0)
      BY <1>3
    <2>3. SumTo(s, m) = SumTo(s, m - 1) + s[m] /\ SumTo(t, m) = SumTo(t, m - 1) + t[m]
          /\ SumTo(s, m - 1) \in Int /\ SumTo(t, m - 1) \in Int
      BY <2>1, <1>1
    <2>4. SumTo(t, m) = SumTo(s, m) + (IF k <= m THEN t[k] - s[k] ELSE 0)
      <3>1. CASE k = m
        BY <3>1, <2>1, <2>2, <2>3
      <3>2. CASE k # m
        BY <3>2, <2>1, <2>2, <2>3
      <3>3. QED
        BY <3>1, <3>2
    <2>5. QED
      BY <2>1, <2>4
  <1> HIDE DEF T
  <1>4. n \in T
    BY <1>2, <1>3, NatByStep
  <1>5. SumTo(s, n) \in Int /\ s[k] \in Int /\ t[k] \in Int
    BY <1>1
  <1>6. QED
    BY <1>4, <1>5 DEF T

\* Greater summands, greater sum.
LEMMA SumMonotone ==
  ASSUME NEW s, NEW t, NEW n \in Nat,
         \A i \in 1..n : s[i] \in Int /\ t[i] \in Int,
         \A i \in 1..n : s[i] <= t[i]
  PROVE  SumTo(s, n) <= SumTo(t, n)
  <1> DEFINE T == {m \in Nat : SumTo(s, m) <= SumTo(t, m)}
  <1>1. ASSUME NEW m \in 0..n
        PROVE  /\ SumTo(s, 0) = 0 /\ SumTo(t, 0) = 0
               /\ SumTo(s, m) \in Int /\ SumTo(t, m) \in Int
               /\ m > 0 => SumTo(s, m) = SumTo(s, m - 1) + s[m]
               /\ m > 0 => SumTo(t, m) = SumTo(t, m - 1) + t[m]
    <2>1. m \in Nat /\ \A i \in 1..m : s[i] \in Int /\ t[i] \in Int
      OBVIOUS
    <2>2. QED
      BY <2>1, SumStep
  <1>2. 0 \in T
    BY <1>1
  <1>3. ASSUME NEW m \in 1..n, m - 1 \in T PROVE m \in T
    <2>1. m \in 0..n /\ m - 1 \in 0..n /\ m > 0 /\ m \in Nat /\ s[m] \in Int /\ t[m] \in Int
          /\ s[m] <= t[m]
      OBVIOUS
    <2>2. SumTo(s, m - 1) <= SumTo(t, m - 1)
      BY <1>3
    <2>3. SumTo(s, m) = SumTo(s, m - 1) + s[m] /\ SumTo(t, m) = SumTo(t, m - 1) + t[m]
          /\ SumTo(s, m - 1) \in Int /\ SumTo(t, m - 1) \in Int
      BY <2>1, <1>1
    <2>4. SumTo(s, m) <= SumTo(t, m)
      BY <2>1, <2>2, <2>3
    <2>5. QED
      BY <2>1, <2>4
  <1> HIDE DEF T
  <1>4. n \in T
    BY <1>2, <1>3, NatByStep
  <1>5. QED
    BY <1>4 DEF T

\* Equal summands, equal sum.
LEMMA SumSame ==
  ASSUME NEW s, NEW t, NEW n \in Nat,
         \A i \in 1..n : s[i] \in Int /\ s[i] = t[i]
  PROVE  SumTo(s, n) = SumTo(t, n)
  <1>1. SumTo(s, n) \in Int /\ SumTo(t, n) \in Int
    BY SumStep
  <1>2. SumTo(s, n) <= SumTo(t, n) /\ SumTo(t, n) <= SumTo(s, n)
    BY SumMonotone
  <1>3. QED
    BY <1>1, <1>2

\* A sum of zeroes.
LEMMA SumZeros ==
  ASSUME NEW s, NEW n \in Nat, \A i \in 1..n : s[i] = 0
  PROVE  SumTo(s, n) = 0
  <1> DEFINE T == {m \in Nat : SumTo(s, m) = 0}
  <1>1. ASSUME NEW m \in 0..n
        PROVE  SumTo(s, 0) = 0 /\ (m > 0 => SumTo(s, m) = SumTo(s, m - 1) + s[m])
    <2>1. m \in Nat /\ \A i \in 1..m : s[i] \in Int
      OBVIOUS
    <2>2. QED
      BY <2>1, SumStep
  <1>2. 0 \in T
    BY <1>1
  <1>3. ASSUME NEW m \in 1..n, m - 1 \in T PROVE m \in T
    BY <1>3, <1>1
  <1> HIDE DEF T
  <1>4. n \in T
    BY <1>2, <1>3, NatByStep
  <1>5. QED
    BY <1>4 DEF T

\* No summand of a sum of naturals exceeds it.
LEMMA SumOfNats ==
  ASSUME NEW s, NEW n \in Nat, \A i \in 1..n : s[i] \in Nat
  PROVE  SumTo(s, n) \in Nat /\ \A k \in 1..n : s[k] <= SumTo(s, n)
  <1> DEFINE none == [i \in 1..n |-> 0]
  <1>1. \A i \in 1..n : none[i] = 0
    OBVIOUS
  <1> HIDE DEF none
  <1>2. SumTo(none, n) = 0
    BY <1>1, SumZeros
  <1>3. SumTo(s, n) \in Int
    <2>1. \A i \in 1..n : s[i] \in Int
      OBVIOUS
    <2>2. QED
      BY <2>1, SumStep
  <1>4. SumTo(none, n) <= SumTo(s, n)
    <2>1. \A i \in 1..n : none[i] \in Int /\ s[i] \in Int /\ none[i] <= s[i]
      BY <1>1
    <2>2. QED
      BY <2>1, SumMonotone
  <1>5. ASSUME NEW k \in 1..n PROVE s[k] <= SumTo(s, n)
    <2> DEFINE t == [i \in 1..n |-> IF i = k THEN s[k] ELSE 0]
    <2>1. \A i \in 1..n : t[i] \in Int /\ none[i] \in Int /\ s[i] \in Int /\ t[i] <= s[i]
                          /\ (i # k => none[i] = t[i])
      BY <1>1
    <2>2. t[k] = s[k] /\ none[k] = 0
      BY <1>1
    <2> HIDE DEF t
    <2>3. SumTo(t, n) = SumTo(none, n) - none[k] + t[k]
      BY <2>1, SumChange
    <2>4. SumTo(t, n) <= SumTo(s, n)
      BY <2>1, SumMonotone
    <2>5. QED
      BY <2>2, <2>3, <2>4, <1>2, <1>3
  <1>6. QED
    BY <1>2, <1>3, <1>4, <1>5

\* The sum of a prefix and of what follows it.
LEMMA SumSplit ==
  ASSUME NEW s, NEW t, NEW m \in Nat, NEW n \in Nat,
         \A i \in 1..(m + n) : s[i] \in Int,
         \A i \in 1..n : t[i] = s[m + i]
  PROVE  SumTo(s, m + n) = SumTo(s, m) + SumTo(t, n)
  <1> DEFINE T == {k \in Nat : SumTo(s, m + k) = SumTo(s, m) + SumTo(t, k)}
  <1>1. ASSUME NEW k \in 0..n
        PROVE  /\ SumTo(t, 0) = 0 /\ SumTo(s, m) \in Int
               /\ SumTo(s, m + k) \in Int /\ SumTo(t, k) \in Int
               /\ k > 0 => SumTo(s, m + k) = SumTo(s, (m + k) - 1) + s[m + k]
               /\ k > 0 => SumTo(t, k) = SumTo(t, k - 1) + t[k]
    <2>1. k \in Nat /\ m + k \in Nat /\ \A i \in 1..k : t[i] \in Int
      OBVIOUS
    <2>2. \A i \in 1..(m + k) : s[i] \in Int
      OBVIOUS
    <2>3. \A i \in 1..m : s[i] \in Int
      OBVIOUS
    <2>4. SumTo(t, 0) = 0 /\ SumTo(t, k) \in Int /\ (k > 0 => SumTo(t, k) = SumTo(t, k - 1) + t[k])
      BY <2>1, SumStep
    <2>5. SumTo(s, m) \in Int
      BY <2>3, SumStep
    <2>6. PICK l \in Nat : l = m + k
      BY <2>1
    <2>7. SumTo(s, l) \in Int /\ (l > 0 => SumTo(s, l) = SumTo(s, l - 1) + s[l])
      BY <2>2, <2>6, SumStep
    <2>8. QED
      BY <2>4, <2>5, <2>6, <2>7
  <1>2. 0 \in T
    BY <1>1
  <1>3. ASSUME NEW k \in 1..n, k - 1 \in T PROVE k \in T
    <2>1. k \in 0..n /\ k - 1 \in 0..n /\ k > 0 /\ k \in Nat /\ t[k] = s[m + k] /\ t[k] \in Int
      OBVIOUS
    <2>2. SumTo(s, m + (k - 1)) = SumTo(s, m) + SumTo(t, k - 1)
      BY <1>3
    <2>3. m + (k - 1) = (m + k) - 1
      BY <2>1
    <2>4. QED
      BY <2>1, <2>2, <2>3, <1>1
  <1> HIDE DEF T
  <1>4. n \in T
    BY <1>2, <1>3, NatByStep
  <1>5. QED
    BY <1>4 DEF T

\* A sum from its last term to its first.
LEMMA SumReversed ==
  ASSUME NEW s, NEW t, NEW n \in Nat,
         \A i \in 1..n : s[i] \in Int,
         \A i \in 1..n : t[i] = s[n + 1 - i]
  PROVE  SumTo(t, n) = SumTo(s, n)
  <1> DEFINE T == {m \in Nat : SumTo(t, m) + SumTo(s, n - m) = SumTo(s, n)}
  <1>1. SumTo(s, 0) = 0 /\ SumTo(t, 0) = 0 /\ SumTo(s, n) \in Int
    <2>1. \A i \in 1..n : t[i] \in Int
      OBVIOUS
    <2>2. QED
      BY <2>1, SumStep
  <1>2. ASSUME NEW m \in 1..n
        PROVE  /\ SumTo(t, m) = SumTo(t, m - 1) + t[m] /\ SumTo(t, m - 1) \in Int
               /\ SumTo(s, m) = SumTo(s, m - 1) + s[m] /\ SumTo(s, m - 1) \in Int
    <2>1. m \in Nat /\ m > 0 /\ m - 1 \in Nat
      OBVIOUS
    <2>2. \A i \in 1..m : s[i] \in Int /\ t[i] \in Int
      OBVIOUS
    <2>3. \A i \in 1..(m - 1) : s[i] \in Int /\ t[i] \in Int
      OBVIOUS
    <2>4. QED
      BY <2>1, <2>2, <2>3, SumStep
  <1>3. 0 \in T
    BY <1>1
  <1>4. ASSUME NEW m \in 1..n, m - 1 \in T PROVE m \in T
    <2>1. PICK k \in 1..n : k = n + 1 - m
      OBVIOUS
    <2>2. k = n - (m - 1) /\ k - 1 = n - m /\ t[m] = s[k] /\ s[k] \in Int
      BY <2>1
    <2>3. SumTo(t, m - 1) + SumTo(s, k) = SumTo(s, n)
      BY <1>4, <2>2
    <2>4. SumTo(s, k) = SumTo(s, k - 1) + s[k] /\ SumTo(s, k - 1) \in Int
      BY <1>2
    <2>5. SumTo(t, m) = SumTo(t, m - 1) + t[m] /\ SumTo(t, m - 1) \in Int
      BY <1>2
    <2>6. SumTo(t, m) + SumTo(s, n - m) = SumTo(s, n)
      BY <1>1, <2>2, <2>3, <2>4, <2>5
    <2>7. QED
      BY <2>6
  <1> HIDE DEF T
  <1>5. n \in T
    BY <1>3, <1>4, NatByStep
  <1>6. SumTo(t, n) + SumTo(s, n - n) = SumTo(s, n) /\ n - n = 0
    BY <1>5 DEF T
  <1>7. SumTo(t, n) \in Int
    <2>1. \A i \in 1..n : t[i] \in Int
      OBVIOUS
    <2>2. QED
      BY <2>1, SumStep
  <1>8. QED
    BY <1>1, <1>6, <1>7

\* An invariant of the rounds of a loop; J[i] holds after i of them.
LEMMA LoopInvariant ==
  ASSUME NEW n \in Nat, NEW f, NEW J, f[0] \in J[0],
         \A i \in 1..n : f[i - 1] \in J[i - 1] => f[i] \in J[i]
  PROVE  f[n] \in J[n]
  <1> DEFINE T == {i \in Nat : f[i] \in J[i]}
  <1>1. 0 \in T
    OBVIOUS
  <1>2. ASSUME NEW i \in 1..n, i - 1 \in T PROVE i \in T
    BY <1>2
  <1> HIDE DEF T
  <1>3. n \in T
    BY <1>1, <1>2, NatByStep
  <1>4. QED
    BY <1>3 DEF T

=============================================================================
