----------------------------- MODULE IndexProofs -----------------------------
(***************************************************************************)
(* The data path of the index for every value of its constants: flushes,   *)
(* merges and restarts neither lose nor invent a record.                   *)
(***************************************************************************)
EXTENDS Index, InductionFacts, FiniteSetTheorems, FunctionTheorems, SequenceTheorems, TLAPS

-----------------------------------------------------------------------------
(***************************************************************************)
(* The entries of a sequence that are in P, less those that are in Q:      *)
(* Balance, Tombstones and Len are such numbers.                           *)
(***************************************************************************)
Hits(s, P) == Cardinality({i \in DOMAIN s : s[i] \in P})

Net(s, P, Q) == Hits(s, P) - Hits(s, Q)

Sign(e, P, Q) == (IF e \in P THEN 1 ELSE 0) - (IF e \in Q THEN 1 ELSE 0)

\* The positions of a sequence are finitely many.
LEMMA HitsFinite ==
  ASSUME NEW S, NEW s \in Seq(S), NEW P
  PROVE  IsFiniteSet({i \in DOMAIN s : s[i] \in P}) /\ Hits(s, P) \in Nat
  <1>1. DOMAIN s = 1..Len(s) /\ Len(s) \in Nat
    BY LenProperties
  <1>2. IsFiniteSet(DOMAIN s)
    BY <1>1, FS_Interval
  <1>3. IsFiniteSet({i \in DOMAIN s : s[i] \in P})
    BY <1>2, FS_Subset
  <1>4. QED
    BY <1>3, FS_CardinalityType DEF Hits

\* A net is an integer.
LEMMA NetInt ==
  ASSUME NEW S, NEW s \in Seq(S), NEW P, NEW Q
  PROVE  Net(s, P, Q) \in Int
  <1>1. Hits(s, P) \in Nat /\ Hits(s, Q) \in Nat
    BY HitsFinite
  <1>2. QED
    BY <1>1 DEF Net

\* The sign of an entry is an integer.
LEMMA SignInt ==
  ASSUME NEW e, NEW P, NEW Q
  PROVE  Sign(e, P, Q) \in Int
  <1>1. (IF e \in P THEN 1 ELSE 0) \in Int /\ (IF e \in Q THEN 1 ELSE 0) \in Int
    OBVIOUS
  <1>2. QED
    BY <1>1 DEF Sign

\* Nothing is stored in an empty sequence.
LEMMA NetEmpty ==
  ASSUME NEW P, NEW Q
  PROVE  Net(<<>>, P, Q) = 0
  <1>1. ASSUME NEW R PROVE Hits(<<>>, R) = 0
    <2>1. {i \in DOMAIN <<>> : <<>>[i] \in R} = {}
      OBVIOUS
    <2>2. QED
      BY <2>1, FS_EmptySet DEF Hits
  <1>2. QED
    BY <1>1 DEF Net

\* One more entry.
LEMMA HitsAppend ==
  ASSUME NEW S, NEW s \in Seq(S), NEW e \in S, NEW P
  PROVE  Hits(Append(s, e), P) = Hits(s, P) + (IF e \in P THEN 1 ELSE 0)
  <1> DEFINE t == Append(s, e)
  <1> DEFINE n == Len(s) + 1
  <1> DEFINE A == {i \in DOMAIN s : s[i] \in P}
  <1> DEFINE B == {i \in DOMAIN t : t[i] \in P}
  <1>1. /\ Len(s) \in Nat /\ n \in Nat /\ DOMAIN s = 1..Len(s) /\ DOMAIN t = 1..n
        /\ t[n] = e /\ \A i \in 1..Len(s) : t[i] = s[i]
    BY AppendProperties, LenProperties
  <1>2. IsFiniteSet(A) /\ Cardinality(A) \in Nat
    BY HitsFinite, FS_CardinalityType
  <1>3. n \notin A /\ Hits(t, P) = Cardinality(B) /\ Hits(s, P) = Cardinality(A)
    BY <1>1 DEF Hits
  <1>4. CASE e \in P
    <2>1. B = A \cup {n}
      BY <1>1, <1>4
    <2>2. PICK C : C = A
      OBVIOUS
    <2>3. PICK m : m = n
      OBVIOUS
    <2>4. IsFiniteSet(C) /\ m \notin C
      BY <1>2, <1>3, <2>2, <2>3
    <2>5. Cardinality(C \cup {m}) = Cardinality(C) + 1
      BY ONLY <2>4, FS_AddElement
    <2>6. QED
      BY <1>3, <1>4, <2>1, <2>2, <2>3, <2>5
  <1>5. CASE e \notin P
    <2>1. B = A
      BY <1>1, <1>5
    <2>2. QED
      <3>1. Cardinality(B) = Cardinality(A)
        BY <2>1
      <3>2. QED
        <4>1. Cardinality(A) = Cardinality(A) + 0
          BY <1>2
        <4>2. QED
          BY <4>1, <3>1, <1>3, <1>5
  <1>6. QED
    BY <1>4, <1>5

\* An entry that is appended adds its sign.
LEMMA NetAppend ==
  ASSUME NEW S, NEW s \in Seq(S), NEW e \in S, NEW P, NEW Q
  PROVE  Net(Append(s, e), P, Q) = Net(s, P, Q) + Sign(e, P, Q)
  <1>1. Hits(Append(s, e), P) = Hits(s, P) + (IF e \in P THEN 1 ELSE 0)
    BY HitsAppend
  <1>2. Hits(Append(s, e), Q) = Hits(s, Q) + (IF e \in Q THEN 1 ELSE 0)
    BY HitsAppend
  <1>3. Hits(s, P) \in Nat /\ Hits(s, Q) \in Nat
    BY HitsFinite
  <1>4. QED
    BY <1>1, <1>2, <1>3 DEF Net, Sign

\* The nets of two sequences add up.
LEMMA NetConcat ==
  ASSUME NEW S, NEW s \in Seq(S), NEW t \in Seq(S), NEW P, NEW Q
  PROVE  Net(s \o t, P, Q) = Net(s, P, Q) + Net(t, P, Q)
  <1> DEFINE T == {u \in Seq(S) : Net(s \o u, P, Q) = Net(s, P, Q) + Net(u, P, Q)}
  <1>1. <<>> \in T
    BY NetEmpty, NetInt, ConcatEmptySeq, EmptySeq
  <1>2. ASSUME NEW u \in Seq(S), NEW e \in S, u \in T PROVE Append(u, e) \in T
    <2>1. s \o Append(u, e) = Append(s \o u, e) /\ s \o u \in Seq(S) /\ Append(u, e) \in Seq(S)
      <3>1. Append(u, e) = u \o <<e>> /\ <<e>> \in Seq(S)
        BY AppendIsConcat
      <3>2. s \o u \in Seq(S)
        BY ConcatProperties
      <3>3. Append(s \o u, e) = (s \o u) \o <<e>>
        BY <3>2, AppendIsConcat
      <3>4. QED
        BY <3>1, <3>2, <3>3, ConcatAssociative, AppendProperties
    <2>2. Net(Append(s \o u, e), P, Q) = Net(s \o u, P, Q) + Sign(e, P, Q)
      <3>1. PICK v \in Seq(S) : v = s \o u
        BY <2>1
      <3>2. Net(Append(v, e), P, Q) = Net(v, P, Q) + Sign(e, P, Q)
        BY NetAppend
      <3>3. QED
        BY <3>1, <3>2
    <2>3. Net(Append(u, e), P, Q) = Net(u, P, Q) + Sign(e, P, Q)
      BY NetAppend
    <2>4. Net(s, P, Q) \in Int /\ Net(u, P, Q) \in Int /\ Sign(e, P, Q) \in Int
      BY NetInt, SignInt
    <2>5. Net(s \o u, P, Q) = Net(s, P, Q) + Net(u, P, Q)
      BY <1>2
    <2> HIDE DEF T
    <2>6. Net(s \o Append(u, e), P, Q) = Net(s, P, Q) + Net(Append(u, e), P, Q)
      BY <2>1, <2>2, <2>3, <2>4, <2>5
    <2>7. QED
      BY <2>1, <2>6 DEF T
  <1> HIDE DEF T
  <1>3. t \in T
    BY <1>1, <1>2, SeqByAppend
  <1>4. QED
    BY <1>3 DEF T

\* The first entry and the others.
LEMMA NetTail ==
  ASSUME NEW S, NEW s \in Seq(S), s # <<>>, NEW P, NEW Q
  PROVE  /\ s[1] \in S /\ Tail(s) \in Seq(S) /\ Len(Tail(s)) = Len(s) - 1
         /\ Net(s, P, Q) = Sign(s[1], P, Q) + Net(Tail(s), P, Q)
  <1>1. s[1] \in S /\ Tail(s) \in Seq(S) /\ Len(Tail(s)) = Len(s) - 1
    BY HeadTailProperties, EmptySeq, ElementOfSeq, LenProperties
  <1>2. PICK none : none \in Seq(S) /\ none = <<>>
    BY EmptySeq
  <1>3. PICK one : one \in Seq(S) /\ one = Append(none, s[1])
    BY <1>1, <1>2, AppendProperties
  <1>4. PICK rest : rest \in Seq(S) /\ rest = Tail(s)
    BY <1>1
  <1>5. none \in Seq(S) /\ one \in Seq(S) /\ rest \in Seq(S)
    BY <1>2, <1>3, <1>4
  <1>6. Net(one, P, Q) = 0 + Sign(s[1], P, Q)
    <2>1. Net(Append(none, s[1]), P, Q) = Net(none, P, Q) + Sign(s[1], P, Q)
      BY <1>1, <1>5, NetAppend
    <2>2. Net(none, P, Q) = 0
      BY <1>2, NetEmpty
    <2>3. QED
      BY <2>1, <2>2, <1>3
  <1>7. Net(s, P, Q) = Net(one, P, Q) + Net(rest, P, Q)
    <2>1. s = one \o rest
      BY <1>1, <1>2, <1>3, <1>4
    <2>2. Net(one \o rest, P, Q) = Net(one, P, Q) + Net(rest, P, Q)
      BY <1>5, NetConcat
    <2>3. QED
      BY <2>1, <2>2
  <1>8. 0 + Sign(s[1], P, Q) = Sign(s[1], P, Q)
    BY SignInt
  <1>9. QED
    BY <1>1, <1>4, <1>6, <1>7, <1>8

\* The order does not matter.
LEMMA NetPermuted ==
  ASSUME NEW S, NEW s \in Seq(S), NEW p \in Bijection(DOMAIN s, DOMAIN s), NEW P, NEW Q
  PROVE  Net([i \in DOMAIN s |-> s[p[i]]], P, Q) = Net(s, P, Q)
  <1> DEFINE t == [i \in DOMAIN s |-> s[p[i]]]
  <1>1. ASSUME NEW R PROVE Hits(t, R) = Hits(s, R)
    <2> DEFINE A == {i \in DOMAIN t : t[i] \in R}
    <2> DEFINE B == {i \in DOMAIN s : s[i] \in R}
    <2> DEFINE q == [i \in A |-> p[i]]
    <2>1. /\ p \in [DOMAIN s -> DOMAIN s]
          /\ \A i, j \in DOMAIN s : p[i] = p[j] => i = j
          /\ \A j \in DOMAIN s : \E i \in DOMAIN s : p[i] = j
      BY DEF Bijection, Injection, Surjection, IsInjective
    <2>2. q \in [A -> B] /\ (\A i, j \in A : q[i] = q[j] => i = j) /\ \A j \in B : \E i \in A : q[i] = j
      BY <2>1
    <2>3. ExistsBijection(A, B)
      <3>1. q \in Bijection(A, B)
        BY <2>2 DEF Bijection, Injection, Surjection, IsInjective
      <3>2. QED
        BY <3>1, Zenon DEF ExistsBijection
    <2>4. IsFiniteSet(B)
      BY HitsFinite
    <2>5. ExistsBijection(B, A)
      BY <2>3, Fun_ExistsBijSymmetric
    <2>6. Cardinality(A) = Cardinality(B)
      BY <2>4, <2>5, FS_Bijection
    <2>7. QED
      BY <2>6 DEF Hits
  <1>2. QED
    BY <1>1 DEF Net

\* FlattenSeq by its steps: the values of the function that it is defined with.
LEMMA FlattenSteps ==
  ASSUME NEW S, NEW ss \in Seq(Seq(S)), Len(ss) # 0
  PROVE  \E f : /\ FlattenSeq(ss) = f[Len(ss)]
               /\ \A i \in 1..Len(ss) : f[i] = IF i = 1 THEN ss[i] ELSE f[i - 1] \o ss[i]
  <1> DEFINE n == Len(ss)
  <1>1. n \in Nat /\ n # 0 /\ DOMAIN ss = 1..n /\ \A i \in 1..n : ss[i] \in Seq(S)
    BY LenProperties, ElementOfSeq
  <1> DEFINE Tab(f) == f = [i \in 1..n |-> IF i = 1 THEN ss[i] ELSE f[i - 1] \o ss[i]]
  <1> DEFINE F == [i \in Nat |-> [x \in Seq(S) |-> IF i \in 1..n THEN x \o ss[i] ELSE x]]
  <1>2. F \in [Nat -> [Seq(S) -> Seq(S)]] /\ \A i \in 1..n : \A x \in Seq(S) : F[i][x] = x \o ss[i]
    <2>1. PICK U : U = Seq(S)
      OBVIOUS
    <2>2. PICK G : G = [i \in Nat |-> [x \in U |-> IF i \in 1..n THEN x \o ss[i] ELSE x]]
      OBVIOUS
    <2>3. ASSUME NEW i \in Nat, NEW x \in U PROVE (IF i \in 1..n THEN x \o ss[i] ELSE x) \in U
      <3>1. ASSUME i \in 1..n PROVE x \o ss[i] \in U
        <4>1. PICK t \in Seq(S) : t = ss[i]
          BY <1>1, <3>1
        <4>2. QED
          BY <2>1, <4>1, ConcatProperties
      <3>2. QED
        BY <3>1
    <2>4. G \in [Nat -> [U -> U]]
      BY ONLY <2>2, <2>3
    <2>5. ASSUME NEW i \in 1..n, NEW x \in U PROVE G[i][x] = x \o ss[i]
      <3>1. i \in Nat
        BY <1>1
      <3>2. G[i] = [y \in U |-> IF i \in 1..n THEN y \o ss[i] ELSE y]
        BY ONLY <2>2, <3>1, Zenon
      <3>3. QED
        BY ONLY <3>2, i \in 1..n, x \in U, Zenon
    <2>6. QED
      BY ONLY <2>1, <2>2, <2>4, <2>5, ZenonT(60) DEF F
  <1> HIDE DEF F
  <1>3. HasTable(Seq(S), 1, n, ss[1], F)
    <2>1. PICK U : U = Seq(S)
      OBVIOUS
    <2>2. PICK b \in Nat : b = 1
      BY ONLY TRUE
    <2>3. PICK m \in Nat : m = n
      BY <1>1
    <2>4. PICK start \in U : start = ss[1]
      BY <1>1, <2>1
    <2>5. F \in [Nat -> [U -> U]]
      BY <1>2, <2>1
    <2>6. HasTable(U, b, m, start, F)
      BY ONLY <2>5, TableExists, b \in Nat, m \in Nat, start \in U
    <2>7. QED
      BY <2>1, <2>2, <2>3, <2>4, <2>6
  <1>4. PICK g \in [1..n -> Seq(S)] :
          \A i \in 1..n : g[i] = IF i = 1 THEN ss[1] ELSE F[i][g[i - 1]]
    BY <1>3 DEF HasTable
  <1>5. Tab(g)
    <2>1. ASSUME NEW i \in 1..n PROVE g[i] = IF i = 1 THEN ss[i] ELSE g[i - 1] \o ss[i]
      <3>1. CASE i = 1
        BY <3>1, <1>4
      <3>2. CASE i # 1
        <4>1. i - 1 \in 1..n /\ g[i - 1] \in Seq(S) /\ g[i] = F[i][g[i - 1]]
          <5>1. i - 1 \in 1..n
            BY <3>2, <1>1
          <5> HIDE DEF n
          <5>2. QED
            BY <5>1, <3>2, <1>4
        <4>2. PICK x \in Seq(S) : x = g[i - 1]
          BY <4>1
        <4>3. F[i][x] = x \o ss[i]
          BY ONLY <1>2, i \in 1..n, x \in Seq(S), ZenonT(60)
        <4>4. QED
          BY <3>2, <4>1, <4>2, <4>3
      <3>3. QED
        BY <3>1, <3>2
    <2>2. QED
      BY <2>1, <1>4
  <1> DEFINE f == CHOOSE h : Tab(h)
  <1>6. FlattenSeq(ss) = f[n] /\ Tab(f)
    BY <1>1, <1>5 DEF FlattenSeq
  <1>7. \A i \in 1..n : f[i] = IF i = 1 THEN ss[i] ELSE f[i - 1] \o ss[i]
    <2>1. PICK h : h = f
      OBVIOUS
    <2>2. Tab(h)
      BY <2>1, <1>6
    <2>3. \A i \in 1..n : h[i] = IF i = 1 THEN ss[i] ELSE h[i - 1] \o ss[i]
      BY <2>2
    <2> HIDE DEF f
    <2>4. QED
      BY <2>1, <2>3
  <1> HIDE DEF f
  <1>8. QED
    BY <1>6, <1>7

\* The entries of all sequences of a sequence.
LEMMA NetFlatten ==
  ASSUME NEW S, NEW ss \in Seq(Seq(S)), NEW P, NEW Q
  PROVE  /\ FlattenSeq(ss) \in Seq(S)
         /\ Net(FlattenSeq(ss), P, Q) = SumTo([i \in DOMAIN ss |-> Net(ss[i], P, Q)], Len(ss))
  <1> DEFINE n == Len(ss)
  <1> DEFINE w == [i \in DOMAIN ss |-> Net(ss[i], P, Q)]
  <1>1. n \in Nat /\ DOMAIN ss = 1..n /\ \A i \in 1..n : ss[i] \in Seq(S)
    BY LenProperties, ElementOfSeq
  <1>2. \A i \in 1..n : w[i] = Net(ss[i], P, Q) /\ w[i] \in Int
    BY <1>1, NetInt
  <1>3. CASE n = 0
    <2>1. FlattenSeq(ss) = <<>>
      BY <1>3, <1>1, EmptySeq DEF FlattenSeq
    <2> HIDE DEF w
    <2>2. SumTo(w, 0) = 0
      BY <1>2, <1>3, SumStep
    <2>3. QED
      BY <2>1, <2>2, <1>3, NetEmpty, EmptySeq DEF w
  <1>4. CASE n # 0
    <2>1. PICK f : /\ FlattenSeq(ss) = f[n]
                   /\ \A i \in 1..n : f[i] = IF i = 1 THEN ss[i] ELSE f[i - 1] \o ss[i]
      BY <1>4, FlattenSteps
    <2> DEFINE T == {i \in Nat : i \in 1..n => f[i] \in Seq(S) /\ Net(f[i], P, Q) = SumTo(w, i)}
    <2>2. ASSUME NEW i \in 1..n
          PROVE  SumTo(w, 0) = 0 /\ SumTo(w, i) = SumTo(w, i - 1) + w[i]
      <3>1. i \in Nat /\ i > 0 /\ \A k \in 1..i : w[k] \in Int
        BY <1>1, <1>2
      <3> HIDE DEF w
      <3>2. QED
        BY <3>1, SumStep
    <2> HIDE DEF w
    <2>3. 0 \in T
      OBVIOUS
    <2>4. ASSUME NEW i \in 1..n, i - 1 \in T PROVE i \in T
      <3>1. CASE i = 1
        <4>1. f[i] = ss[i] /\ ss[i] \in Seq(S) /\ w[i] = Net(ss[i], P, Q) /\ w[i] \in Int
          BY <3>1, <2>1, <1>1, <1>2
        <4>2. SumTo(w, 0) = 0 /\ SumTo(w, i) = SumTo(w, i - 1) + w[i]
          BY <2>2
        <4>3. i - 1 = 0 /\ i \in Nat
          BY <3>1
        <4>4. SumTo(w, i) = w[i]
          BY <4>1, <4>2, <4>3
        <4>5. QED
          BY <4>1, <4>3, <4>4
      <3>2. CASE i # 1
        <4>1. /\ i - 1 \in 1..n /\ f[i - 1] \in Seq(S) /\ ss[i] \in Seq(S) /\ i \in Nat
              /\ Net(f[i - 1], P, Q) = SumTo(w, i - 1)
              /\ f[i] = f[i - 1] \o ss[i]
          <5>1. i - 1 \in 1..n /\ i \in Nat
            BY <3>2, <1>1
          <5> HIDE DEF n
          <5>2. f[i - 1] \in Seq(S) /\ Net(f[i - 1], P, Q) = SumTo(w, i - 1)
            BY <5>1, <2>4
          <5>3. ss[i] \in Seq(S) /\ f[i] = f[i - 1] \o ss[i]
            BY <3>2, <2>1, <1>1
          <5>4. QED
            BY <5>1, <5>2, <5>3
        <4>2. PICK x : x = f[i - 1]
          OBVIOUS
        <4>3. PICK y : y = ss[i]
          OBVIOUS
        <4>4. x \in Seq(S) /\ y \in Seq(S)
          BY <4>1, <4>2, <4>3
        <4>5. x \o y \in Seq(S) /\ Net(x \o y, P, Q) = Net(x, P, Q) + Net(y, P, Q)
          BY <4>4, NetConcat, ConcatProperties
        <4>6. f[i] \in Seq(S) /\ Net(f[i], P, Q) = SumTo(w, i)
          <5>1. f[i] = x \o y /\ Net(x, P, Q) = SumTo(w, i - 1) /\ Net(y, P, Q) = w[i]
            BY <4>1, <4>2, <4>3, <1>2
          <5>2. SumTo(w, i) = SumTo(w, i - 1) + w[i]
            BY <2>2
          <5>3. QED
            BY <5>1, <5>2, <4>5
        <4>7. QED
          BY <4>1, <4>6
      <3>3. QED
        BY <3>1, <3>2
    <2> HIDE DEF T
    <2>5. n \in T
      BY <1>1, <2>3, <2>4, NatByStep
    <2>6. QED
      <3>1. n \in 1..n
        BY <1>1, <1>4
      <3>2. f[n] \in Seq(S) /\ Net(f[n], P, Q) = SumTo(w, n)
        BY <3>1, <2>5 DEF T
      <3>3. QED
        BY <3>2, <2>1 DEF w
  <1>5. QED
    BY <1>3, <1>4

\* Among finitely many indices there is a least one of a total preorder.
LEMMA LeastIndex ==
  ASSUME NEW n \in Nat, NEW A \in SUBSET (1..n), A # {}, NEW R,
         \A i, j \in A : i # j => <<i, j>> \in R \/ <<j, i>> \in R,
         \A i, j, k \in A : <<i, j>> \in R /\ <<j, k>> \in R => <<i, k>> \in R
  PROVE  \E i \in A : \A j \in A \ {i} : <<i, j>> \in R
  <1> DEFINE Least(m, i) == i \in A /\ \A j \in A : j <= m /\ j # i => <<i, j>> \in R
  <1> DEFINE T == {m \in Nat : (\E j \in A : j <= m) => \E i \in A : i <= m /\ Least(m, i)}
  <1>1. 0 \in T
    OBVIOUS
  <1>2. ASSUME NEW m \in 1..n, m - 1 \in T PROVE m \in T
    <2>1. SUFFICES ASSUME \E j \in A : j <= m PROVE \E i \in A : i <= m /\ Least(m, i)
      OBVIOUS
    <2>2. CASE m \notin A
      <3>1. \A j \in A : j <= m => j <= m - 1
        BY <2>2
      <3>2. PICK i \in A : i <= m - 1 /\ Least(m - 1, i)
        BY <3>1, <2>1, <1>2
      <3>3. Least(m, i) /\ i <= m
        BY <3>1, <3>2
      <3>4. QED
        BY <3>3
    <2>3. CASE m \in A /\ ~\E j \in A : j <= m - 1
      <3>1. Least(m, m)
        BY <2>3
      <3>2. QED
        BY <3>1, <2>3
    <2>4. CASE m \in A /\ \E j \in A : j <= m - 1
      <3>1. PICK i \in A : i <= m - 1 /\ Least(m - 1, i)
        BY <2>4, <1>2
      <3>2. i # m
        BY <3>1
      <3>3. CASE <<i, m>> \in R
        <4>1. Least(m, i)
          BY <3>1, <3>3
        <4>2. QED
          BY <4>1, <3>1
      <3>4. CASE <<m, i>> \in R
        <4>1. Least(m, m)
          <5>1. ASSUME NEW j \in A, j <= m, j # m PROVE <<m, j>> \in R
            <6>1. j <= m - 1
              BY <5>1
            <6>2. j = i \/ <<i, j>> \in R
              BY <6>1, <3>1
            <6>3. QED
              BY <6>2, <3>4, <2>4
          <5>2. QED
            BY <5>1, <2>4
        <4>2. QED
          BY <4>1, <2>4
      <3>5. QED
        BY <3>2, <3>3, <3>4, <2>4
    <2>5. QED
      BY <2>2, <2>3, <2>4
  <1> HIDE DEF T
  <1>3. n \in T
    BY <1>1, <1>2, NatByStep
  <1>4. PICK i \in A : Least(n, i)
    BY <1>3 DEF T
  <1>5. QED
    BY <1>4

-----------------------------------------------------------------------------
(***************************************************************************)
(* Cursors.                                                                *)
(***************************************************************************)
AnyWrapped == [rec : Nat \X Nat, tomb : BOOLEAN, del : BOOLEAN, stamp : Nat]

\* The cursors of n arrays.
Cursors(S, n) == [1..n -> Seq(S)]

\* The net of everything that n cursors still have.
Total(c, n, P, Q) == SumTo([i \in 1..n |-> Net(c[i], P, Q)], n)

\* The length is the net of all entries.
LEMMA LenIsNet ==
  ASSUME NEW S, NEW s \in Seq(S)
  PROVE  Net(s, S, {}) = Len(s)
  <1>1. DOMAIN s = 1..Len(s) /\ Len(s) \in Nat /\ \A i \in 1..Len(s) : s[i] \in S
    BY LenProperties, ElementOfSeq
  <1>2. {i \in DOMAIN s : s[i] \in S} = 1..Len(s) /\ {i \in DOMAIN s : s[i] \in {}} = {}
    BY <1>1
  <1>3. Cardinality(1..Len(s)) = Len(s)
    <2>1. PICK n \in Nat : n = Len(s)
      BY <1>1
    <2>2. Cardinality(1..n) = n
      <3>1. 1 \in Int /\ n \in Int /\ n - 1 + 1 = n /\ (1 > n => n = 0)
        OBVIOUS
      <3>2. Cardinality(1..n) = IF 1 > n THEN 0 ELSE n - 1 + 1
        BY <3>1, FS_Interval
      <3>3. QED
        BY <3>1, <3>2
    <2>3. QED
      BY ONLY <2>1, <2>2, Zenon
  <1>4. Hits(s, S) = Len(s) /\ Hits(s, {}) = 0
    BY <1>2, <1>3, FS_EmptySet DEF Hits
  <1>5. QED
    BY <1>1, <1>4 DEF Net

\* The total of cursors is an integer.
LEMMA TotalInt ==
  ASSUME NEW S, NEW n \in Nat, NEW c \in Cursors(S, n), NEW P, NEW Q
  PROVE  Total(c, n, P, Q) \in Int
  <1> DEFINE w == [i \in 1..n |-> Net(c[i], P, Q)]
  <1>1. ASSUME NEW i \in 1..n PROVE w[i] \in Int
    <2>1. c[i] \in Seq(S)
      BY DEF Cursors
    <2>2. QED
      BY <2>1, NetInt
  <1> HIDE DEF w
  <1>2. SumTo(w, n) \in Int
    BY <1>1, SumStep
  <1>3. QED
    BY <1>2 DEF w, Total

\* What is left is never negative, and is nothing only when every cursor is at its end.
LEMMA TotalLeft ==
  ASSUME NEW S, NEW n \in Nat, NEW c \in Cursors(S, n)
  PROVE  /\ Total(c, n, S, {}) \in Nat
         /\ Total(c, n, S, {}) = SumTo([i \in 1..n |-> Len(c[i])], n)
         /\ Total(c, n, S, {}) = 0 => \A i \in 1..n : c[i] = <<>>
  <1> DEFINE w == [i \in 1..n |-> Net(c[i], S, {})]
  <1> DEFINE l == [i \in 1..n |-> Len(c[i])]
  <1>1. \A i \in 1..n : w[i] = Len(c[i]) /\ l[i] = w[i] /\ w[i] \in Nat
    <2>1. \A i \in 1..n : c[i] \in Seq(S)
      BY DEF Cursors
    <2>2. QED
      BY <2>1, LenIsNet, LenProperties
  <1>2. Total(c, n, S, {}) = SumTo(w, n)
    BY DEF Total
  <1> HIDE DEF w
  <1>3. SumTo(w, n) \in Nat /\ \A k \in 1..n : w[k] <= SumTo(w, n)
    BY <1>1, SumOfNats
  <1>4. SumTo(w, n) = SumTo(l, n)
    <2>1. \A i \in 1..n : w[i] \in Int /\ w[i] = l[i]
      BY <1>1
    <2> HIDE DEF l
    <2>2. QED
      BY <2>1, SumSame
  <1>5. ASSUME SumTo(w, n) = 0, NEW i \in 1..n PROVE c[i] = <<>>
    <2>1. Len(c[i]) = 0
      BY <1>1, <1>3, <1>5
    <2>2. c[i] \in Seq(S)
      BY DEF Cursors
    <2>3. QED
      BY <2>1, <2>2, EmptySeq
  <1>6. QED
    BY <1>2, <1>3, <1>4, <1>5

\* Cursors at their ends hold nothing.
LEMMA TotalAtEnd ==
  ASSUME NEW n \in Nat, NEW c, \A i \in 1..n : c[i] = <<>>, NEW P, NEW Q
  PROVE  Total(c, n, P, Q) = 0
  <1> DEFINE w == [i \in 1..n |-> Net(c[i], P, Q)]
  <1>1. \A i \in 1..n : w[i] = 0
    BY NetEmpty
  <1> HIDE DEF w
  <1>2. SumTo(w, n) = 0
    BY <1>1, SumZeros
  <1>3. QED
    BY <1>2 DEF w, Total

\* A cursor that is advanced gives up its first entry.
LEMMA AdvanceNet ==
  ASSUME NEW S, NEW n \in Nat, NEW c \in Cursors(S, n), NEW i \in 1..n, c[i] # <<>>,
         NEW P, NEW Q
  PROVE  /\ c[i][1] \in S
         /\ Advance(c, i) \in Cursors(S, n)
         /\ Total(Advance(c, i), n, P, Q) = Total(c, n, P, Q) - Sign(c[i][1], P, Q)
  <1> DEFINE a == Advance(c, i)
  <1> DEFINE v == [k \in 1..n |-> Net(c[k], P, Q)]
  <1> DEFINE w == [k \in 1..n |-> Net(a[k], P, Q)]
  <1>1. PICK x : x = c[i]
    OBVIOUS
  <1>2. x \in Seq(S) /\ x # <<>>
    BY <1>1 DEF Cursors
  <1>3. /\ x[1] \in S /\ Tail(x) \in Seq(S)
        /\ Net(x, P, Q) = Sign(x[1], P, Q) + Net(Tail(x), P, Q)
    BY <1>2, NetTail
  <1>4. a = [k \in 1..n |-> IF k = i THEN Tail(c[k]) ELSE c[k]]
    BY DEF Advance, Cursors
  <1>5. a \in Cursors(S, n)
    BY <1>1, <1>3, <1>4 DEF Cursors
  <1>6. a[i] = Tail(x) /\ \A k \in 1..n : k # i => a[k] = c[k]
    BY <1>1, <1>4
  <1> HIDE DEF a
  <1>7. /\ \A k \in 1..n : v[k] \in Int /\ w[k] \in Int
        /\ \A k \in 1..n : k # i => v[k] = w[k]
    <2>1. \A k \in 1..n : c[k] \in Seq(S) /\ a[k] \in Seq(S)
      BY <1>5 DEF Cursors
    <2>2. QED
      BY <2>1, <1>6, NetInt
  <1>8. v[i] = Net(x, P, Q) /\ w[i] = Net(Tail(x), P, Q)
    BY <1>1, <1>6
  <1>9. Total(c, n, P, Q) = SumTo(v, n) /\ Total(a, n, P, Q) = SumTo(w, n)
    BY DEF Total
  <1> HIDE DEF v, w
  <1>10. SumTo(w, n) = SumTo(v, n) - v[i] + w[i] /\ SumTo(v, n) \in Int
    BY ONLY <1>7, SumChange, SumStep, n \in Nat, i \in 1..n
  <1>11. Sign(x[1], P, Q) \in Int /\ Net(Tail(x), P, Q) \in Int
    BY <1>3, SignInt, NetInt
  <1>12. Total(a, n, P, Q) = Total(c, n, P, Q) - Sign(x[1], P, Q)
    BY <1>3, <1>8, <1>9, <1>10, <1>11
  <1>13. QED
    BY <1>1, <1>3, <1>5, <1>12 DEF a

-----------------------------------------------------------------------------
(***************************************************************************)
(* external_merge_sort.                                                    *)
(***************************************************************************)
MergeStates(S, n) == [c : Cursors(S, n), out : Seq(S), cancelled : Nat]

\* What is written, what left in pairs, and what the cursors still have.
Kept(st, n, P, Q, d) == Net(st.out, P, Q) + d * st.cancelled + Total(st.c, n, P, Q)

\* A record and its tombstone together count d.
PairsCount(S, P, Q, d) ==
  \A a, b \in S : Annihilate(a, b) => Sign(a, P, Q) + Sign(b, P, Q) = d

\* The heap has a top as long as a cursor has a record.
LEMMA TopsExist ==
  ASSUME NEW S \in SUBSET AnyWrapped, NEW n \in Nat, NEW c \in Cursors(S, n)
  PROVE  /\ \A i \in Tops(c) : i \in 1..n /\ c[i] # <<>>
         /\ Tops(c) = {} => \A i \in 1..n : c[i] = <<>>
  <1> DEFINE A == {i \in 1..n : c[i] # <<>>}
  <1> DEFINE R == {p \in (1..n) \X (1..n) : ~ByRecord(c[p[2]][1], c[p[1]][1])}
  <1>1. Active(c) = A
    BY DEF Active, Cursors
  <1>2. \A i \in Tops(c) : i \in 1..n /\ c[i] # <<>>
    BY <1>1 DEF Tops
  <1>3. ASSUME A # {} PROVE Tops(c) # {}
    <2>1. ASSUME NEW i \in A PROVE c[i][1] \in AnyWrapped /\ c[i][1].rec \in Nat \X Nat
      <3>1. c[i] \in Seq(S) /\ c[i] # <<>>
        BY DEF Cursors
      <3>2. c[i][1] \in S
        BY <3>1, NetTail
      <3>3. QED
        BY <3>2 DEF AnyWrapped
    <2> DEFINE r == [i \in A |-> c[i][1].rec]
    <2>2. r \in [A -> Nat \X Nat]
      BY <2>1
    <2>3. \A i, j \in A : <<i, j>> \in R <=> ~RecLess(r[j], r[i])
      BY DEF ByRecord
    <2> HIDE DEF r, R
    <2>4. \A i, j \in A : <<i, j>> \in R \/ <<j, i>> \in R
      <3>1. ASSUME NEW x \in Nat \X Nat, NEW y \in Nat \X Nat PROVE ~RecLess(x, y) \/ ~RecLess(y, x)
        BY DEF RecLess
      <3>2. QED
        BY <3>1, <2>2, <2>3
    <2>5. \A i, j, k \in A : <<i, j>> \in R /\ <<j, k>> \in R => <<i, k>> \in R
      <3>1. ASSUME NEW x \in Nat \X Nat, NEW y \in Nat \X Nat, NEW z \in Nat \X Nat,
                   ~RecLess(y, x), ~RecLess(z, y)
            PROVE  ~RecLess(z, x)
        BY <3>1 DEF RecLess
      <3>2. QED
        BY <3>1, <2>2, <2>3
    <2>6. PICK i \in A : \A j \in A \ {i} : <<i, j>> \in R
      <3>1. A \in SUBSET (1..n)
        OBVIOUS
      <3> HIDE DEF A
      <3>2. QED
        BY <3>1, <1>3, <2>4, <2>5, LeastIndex
    <2>7. ASSUME NEW j \in A PROVE ~ByRecord(c[j][1], c[i][1])
      <3>1. <<i, j>> \in R
        BY <2>4, <2>6
      <3>2. QED
        BY <3>1 DEF R
    <2>8. i \in Tops(c)
      BY <1>1, <2>7 DEF Tops
    <2>9. QED
      BY <2>8
  <1>4. QED
    BY <1>2, <1>3

\* A round of the loop.
LEMMA HeapRoundKeeps ==
  ASSUME NEW S \in SUBSET AnyWrapped, NEW n \in Nat, NEW st \in MergeStates(S, n),
         NEW x \in HeapRound(st), NEW P, NEW Q, NEW d \in Int, PairsCount(S, P, Q, d)
  PROVE  /\ x \in MergeStates(S, n)
         /\ Kept(x, n, P, Q, d) = Kept(st, n, P, Q, d)
         /\ \/ Total(x.c, n, S, {}) = 0
            \/ Total(x.c, n, S, {}) < Total(st.c, n, S, {})
  <1>1. st.c \in Cursors(S, n) /\ st.out \in Seq(S) /\ st.cancelled \in Nat
    BY DEF MergeStates
  <1>2. CASE Tops(st.c) = {}
    <2>1. x = st
      BY <1>2 DEF HeapRound
    <2>2. \A i \in 1..n : st.c[i] = <<>>
      BY <1>1, <1>2, TopsExist
    <2>3. Total(st.c, n, S, {}) = 0
      BY <2>2, TotalAtEnd
    <2>4. QED
      BY <2>1, <2>3
  <1>3. CASE Tops(st.c) # {}
    <2>1. PICK i \in Tops(st.c) : x \in PopMin(st, i)
      BY <1>3 DEF HeapRound
    <2>2. i \in 1..n /\ st.c[i] # <<>>
      BY <1>1, TopsExist
    <2>3. PICK c : c = st.c
      OBVIOUS
    <2>4. PICK rest : rest = Advance(c, i)
      OBVIOUS
    <2>5. PICK min : min = c[i][1]
      OBVIOUS
    <2>6. c \in Cursors(S, n) /\ c[i] # <<>>
      BY <1>1, <2>2, <2>3
    <2>7. /\ min \in S /\ rest \in Cursors(S, n)
          /\ \A U, V : Total(rest, n, U, V) = Total(c, n, U, V) - Sign(min, U, V)
      <3>1. ASSUME NEW U, NEW V
            PROVE  /\ c[i][1] \in S /\ Advance(c, i) \in Cursors(S, n)
                   /\ Total(Advance(c, i), n, U, V) = Total(c, n, U, V) - Sign(c[i][1], U, V)
        BY <2>2, <2>6, AdvanceNet
      <3>2. c[i][1] \in S /\ Advance(c, i) \in Cursors(S, n)
        BY <3>1
      <3>3. QED
        BY <2>4, <2>5, <3>1, <3>2
    <2> DEFINE emit == [st EXCEPT !.c = rest, !.out = Append(@, min)]
    <2> DEFINE cancel(j) == [st EXCEPT !.c = Advance(rest, j), !.cancelled = @ + 1]
    <2>8. x = emit \/ \E j \in Tops(rest) : Annihilate(min, rest[j][1]) /\ x = cancel(j)
      BY <2>1, <2>3, <2>4, <2>5 DEF PopMin
    <2>9. /\ Sign(min, S, {}) = 1 /\ Sign(min, P, Q) \in Int
          /\ Total(c, n, S, {}) \in Nat /\ Total(c, n, P, Q) \in Int
      <3>1. Sign(min, S, {}) = 1
        BY <2>7 DEF Sign
      <3>2. QED
        BY <3>1, <2>6, TotalLeft, TotalInt, SignInt
    <2>10. Net(st.out, P, Q) \in Int /\ st.cancelled \in Nat /\ d * st.cancelled \in Int
      BY <1>1, NetInt
    <2>11. CASE x = emit
      <3>1. x.c = rest /\ x.out = Append(st.out, min) /\ x.cancelled = st.cancelled
            /\ x \in MergeStates(S, n)
        <4>1. Append(st.out, min) \in Seq(S)
          BY <1>1, <2>7, AppendProperties
        <4>2. QED
          BY <4>1, <2>7, <2>11 DEF MergeStates
      <3>2. Net(x.out, P, Q) = Net(st.out, P, Q) + Sign(min, P, Q)
        BY <1>1, <2>7, <3>1, NetAppend
      <3>3. Kept(x, n, P, Q, d) = Kept(st, n, P, Q, d)
        BY <2>3, <2>7, <2>9, <2>10, <3>1, <3>2 DEF Kept
      <3>4. Total(x.c, n, S, {}) < Total(st.c, n, S, {})
        BY <2>3, <2>7, <2>9, <3>1
      <3>5. QED
        BY <3>1, <3>3, <3>4
    <2>12. ASSUME NEW j \in Tops(rest), Annihilate(min, rest[j][1]), x = cancel(j)
           PROVE  /\ x \in MergeStates(S, n)
                  /\ Kept(x, n, P, Q, d) = Kept(st, n, P, Q, d)
                  /\ Total(x.c, n, S, {}) < Total(st.c, n, S, {})
      <3>1. j \in 1..n /\ rest[j] # <<>> /\ rest \in Cursors(S, n)
        BY <2>7, TopsExist
      <3>2. PICK last : last = Advance(rest, j)
        OBVIOUS
      <3>3. PICK next : next = rest[j][1]
        OBVIOUS
      <3>4. /\ next \in S /\ last \in Cursors(S, n)
            /\ \A U, V : Total(last, n, U, V) = Total(rest, n, U, V) - Sign(next, U, V)
        <4>1. ASSUME NEW U, NEW V
              PROVE  /\ rest[j][1] \in S /\ Advance(rest, j) \in Cursors(S, n)
                     /\ Total(Advance(rest, j), n, U, V) = Total(rest, n, U, V) - Sign(rest[j][1], U, V)
          BY <3>1, AdvanceNet
        <4>2. rest[j][1] \in S /\ Advance(rest, j) \in Cursors(S, n)
          BY <4>1
        <4>3. QED
          BY <3>2, <3>3, <4>1, <4>2
      <3>5. Sign(min, P, Q) + Sign(next, P, Q) = d
        BY <2>7, <2>12, <3>3, <3>4 DEF PairsCount
      <3>6. x.c = last /\ x.out = st.out /\ x.cancelled = st.cancelled + 1
            /\ x \in MergeStates(S, n)
        <4>1. st.cancelled + 1 \in Nat
          BY <1>1
        <4>2. QED
          BY <4>1, <2>12, <3>2, <3>4 DEF MergeStates
      <3>7. Sign(next, S, {}) = 1 /\ Sign(next, P, Q) \in Int
        BY <3>4, SignInt DEF Sign
      <3>8. d * (st.cancelled + 1) = d * st.cancelled + d
        BY <1>1
      <3>9. Kept(x, n, P, Q, d) = Kept(st, n, P, Q, d)
        <4>1. Total(last, n, P, Q) = Total(c, n, P, Q) - Sign(min, P, Q) - Sign(next, P, Q)
          BY <2>7, <3>4
        <4>2. QED
          BY <2>3, <2>9, <2>10, <3>5, <3>6, <3>7, <3>8, <4>1 DEF Kept
      <3>10. Total(x.c, n, S, {}) < Total(st.c, n, S, {})
        <4>1. Total(last, n, S, {}) = Total(c, n, S, {}) - 1 - 1
          BY <2>7, <2>9, <3>4, <3>7
        <4>2. QED
          BY <2>3, <2>9, <3>6, <4>1
      <3>11. QED
        BY <3>6, <3>9, <3>10
    <2>13. QED
      BY <2>8, <2>11, <2>12
  <1>4. QED
    BY <1>2, <1>3

\* It keeps the types.
LEMMA HeapRoundState ==
  ASSUME NEW S \in SUBSET AnyWrapped, NEW n \in Nat, NEW st \in MergeStates(S, n),
         NEW x \in HeapRound(st)
  PROVE  x \in MergeStates(S, n)
  <1>1. \A a \in S : Sign(a, S, {}) = 1
    BY DEF Sign
  <1>2. PICK d \in Int : d = 2
    OBVIOUS
  <1>3. PairsCount(S, S, {}, d)
    BY <1>1, <1>2 DEF PairsCount
  <1>4. QED
    BY <1>3, HeapRoundKeeps

\* The runs of a merge: sorted, with as many records as they say.
MergeInput(S, n, runs) ==
  /\ DOMAIN runs = 1..n
  /\ MergeStart(runs).c \in Cursors(S, n)
  /\ \A i \in 1..n : runs[i].n = Len(MergeStart(runs).c[i]) /\ Sorted(MergeStart(runs).c[i])

\* What a merge has written, with d for every pair it has cancelled.
Written(st, P, Q, d) == Net(st.out, P, Q) + d * st.cancelled

\* What the loop computes, by its rounds.
LoopStates(S, n, runs, count, f) ==
  /\ count \in Nat /\ count = Total(MergeStart(runs).c, n, S, {})
  /\ MergeLoop(runs) = f[count]
  /\ f[0] = {MergeStart(runs)}
  /\ \A i \in 1..count : f[i] = UNION {HeapRound(s) : s \in f[i - 1]}

\* As many rounds as there are records.
LEMMA MergeLoopStates ==
  ASSUME NEW S \in SUBSET AnyWrapped, NEW n \in Nat, NEW runs, MergeInput(S, n, runs)
  PROVE  MergeStart(runs) \in MergeStates(S, n) /\ \E count, f : LoopStates(S, n, runs, count, f)
  <1> USE DEF MergeInput
  <1> DEFINE start == MergeStart(runs)
  <1> DEFINE ns == [i \in DOMAIN runs |-> runs[i].n]
  <1> DEFINE N == SumSeq(ns)
  <1> DEFINE St == SUBSET MergeStates(S, n)
  <1> DEFINE round(X) == UNION {HeapRound(s) : s \in X}
  <1>1. start.c \in Cursors(S, n) /\ start \in MergeStates(S, n)
    BY EmptySeq DEF MergeStart, MergeStates
  <1>2. N = Total(start.c, n, S, {}) /\ N \in Nat
    <2> DEFINE ls == [i \in 1..n |-> Len(start.c[i])]
    <2>1. Len(ns) = n /\ ns = ls
      OBVIOUS
    <2>2. N = SumTo(ls, n)
      BY <2>1 DEF SumSeq
    <2>3. Total(start.c, n, S, {}) = SumTo(ls, n) /\ Total(start.c, n, S, {}) \in Nat
      BY <1>1, TotalLeft
    <2>4. QED
      BY <2>2, <2>3
  <1>3. PICK N1 : N1 = N
    OBVIOUS
  <1>4. MergeLoop(runs) =
          (CHOOSE g : g = [i \in 0..N1 |-> IF i = 0 THEN {start} ELSE round(g[i - 1])])[N1]
    BY <1>3 DEF MergeLoop, Iterate
  <1> HIDE DEF start, N
  <1> DEFINE Tab(g) == g = [i \in 0..N1 |-> IF i = 0 THEN {start} ELSE round(g[i - 1])]
  <1>5. ASSUME NEW s \in MergeStates(S, n), NEW x \in HeapRound(s)
        PROVE  x \in MergeStates(S, n)
    BY HeapRoundState
  <1>6. \E g : Tab(g)
    <2> DEFINE F == [i \in Nat |-> [X \in St |-> round(X)]]
    <2>1. F \in [Nat -> [St -> St]] /\ \A i \in Nat : \A X \in St : F[i][X] = round(X)
      BY <1>5
    <2>2. {start} \in St /\ N1 \in Nat
      BY <1>1, <1>2, <1>3
    <2> HIDE DEF F, St
    <2>3. HasTable(St, 0, N1, {start}, F)
      BY <2>1, <2>2, TableExists
    <2>4. PICK g \in [0..N1 -> St] :
            \A i \in 0..N1 : g[i] = IF i = 0 THEN {start} ELSE F[i][g[i - 1]]
      BY <2>3 DEF HasTable
    <2>5. ASSUME NEW i \in 0..N1 PROVE g[i] = IF i = 0 THEN {start} ELSE round(g[i - 1])
      <3>1. CASE i = 0
        BY <3>1, <2>4
      <3>2. CASE i # 0
        <4>1. i - 1 \in 0..N1 /\ i \in Nat
          BY <3>2, <2>2
        <4>2. PICK X \in St : X = g[i - 1]
          BY <4>1
        <4>3. F[i][X] = round(X)
          BY <4>1, <2>1
        <4>4. QED
          BY <3>2, <2>4, <4>2, <4>3
      <3>3. QED
        BY <3>1, <3>2
    <2>6. Tab(g)
      BY <2>4, <2>5
    <2>7. QED
      BY <2>6
  <1>7. PICK f : Tab(f) /\ MergeLoop(runs) = f[N1]
    BY <1>4, <1>6
  <1>8. \A i \in 0..N1 : f[i] = IF i = 0 THEN {start} ELSE round(f[i - 1])
    BY <1>7
  <1>9. N1 \in Nat
    BY <1>2, <1>3
  <1> HIDE DEF round
  <1>10. f[0] = {start}
    BY <1>8, <1>9
  <1>11. \A i \in 1..N1 : f[i] = round(f[i - 1])
    BY <1>8, <1>9
  <1>12. LoopStates(S, n, runs, N1, f)
    BY <1>2, <1>3, <1>7, <1>9, <1>10, <1>11 DEF LoopStates, start, round
  <1>13. QED
    BY <1>1, <1>12 DEF start

\* The whole loop: nothing is lost but the pairs that are counted.
LEMMA MergeLoopKeeps ==
  ASSUME NEW S \in SUBSET AnyWrapped, NEW n \in Nat, NEW runs, MergeInput(S, n, runs),
         NEW st \in MergeLoop(runs),
         NEW P, NEW Q, NEW d \in Int, PairsCount(S, P, Q, d)
  PROVE  /\ st.out \in Seq(S) /\ st.cancelled \in Nat
         /\ Written(st, P, Q, d) = Total(MergeStart(runs).c, n, P, Q)
  <1> USE DEF MergeInput, Written
  <1> DEFINE start == MergeStart(runs)
  <1> DEFINE St == SUBSET MergeStates(S, n)
  <1>1. /\ start.c \in Cursors(S, n) /\ start.out = <<>> /\ start.cancelled = 0
        /\ start \in MergeStates(S, n)
    BY MergeLoopStates DEF MergeStart
  <1>2. PICK N1, f : LoopStates(S, n, runs, N1, f)
    BY MergeLoopStates
  <1>3. N1 \in Nat /\ N1 = Total(start.c, n, S, {}) /\ MergeLoop(runs) = f[N1] /\ f[0] = {start}
        /\ \A i \in 1..N1 : f[i] = UNION {HeapRound(s) : s \in f[i - 1]}
    BY <1>2 DEF LoopStates
  <1>4. Kept(start, n, P, Q, d) = Total(start.c, n, P, Q)
    BY <1>1, NetEmpty, TotalInt DEF Kept
  <1>5. ASSUME NEW s \in MergeStates(S, n), NEW x \in HeapRound(s)
        PROVE  /\ x \in MergeStates(S, n)
               /\ Kept(x, n, P, Q, d) = Kept(s, n, P, Q, d)
               /\ \/ Total(x.c, n, S, {}) = 0
                  \/ Total(x.c, n, S, {}) < Total(s.c, n, S, {})
    BY HeapRoundKeeps
  <1> HIDE DEF start
  <1> DEFINE Fine(i, s) == /\ s \in MergeStates(S, n)
                           /\ Kept(s, n, P, Q, d) = Kept(start, n, P, Q, d)
                           /\ Total(s.c, n, S, {}) = 0 \/ Total(s.c, n, S, {}) <= N1 - i
  <1> DEFINE J == [i \in 0..N1 |-> {X \in St : \A s \in X : Fine(i, s)}]
  <1>6. f[0] \in J[0]
    <2>1. f[0] = {start} /\ 0 \in 0..N1 /\ N1 - 0 = N1
      <3>1. N1 \in Nat
        BY <1>3
      <3>2. 0 \in 0..N1 /\ N1 - 0 = N1
        BY <3>1
      <3>3. QED
        BY <3>2, <1>3
    <2>2. Fine(0, start)
      BY <1>1, <1>3, <2>1
    <2>3. QED
      BY <2>1, <2>2
  <1>7. ASSUME NEW i \in 1..N1, f[i - 1] \in J[i - 1] PROVE f[i] \in J[i]
    <2>1. i \in 0..N1 /\ i - 1 \in 0..N1 /\ i # 0
      BY <1>3
    <2>2. f[i] = UNION {HeapRound(s) : s \in f[i - 1]}
      BY <1>3
    <2>3. ASSUME NEW x \in f[i] PROVE Fine(i, x)
      <3>1. PICK s \in f[i - 1] : x \in HeapRound(s)
        BY <2>2
      <3>2. Fine(i - 1, s)
        BY <3>1, <2>1, <1>7
      <3>3. /\ x \in MergeStates(S, n) /\ s \in MergeStates(S, n)
            /\ Kept(x, n, P, Q, d) = Kept(s, n, P, Q, d)
            /\ \/ Total(x.c, n, S, {}) = 0
               \/ Total(x.c, n, S, {}) < Total(s.c, n, S, {})
        BY <3>1, <3>2, <1>5
      <3>4. Total(x.c, n, S, {}) \in Nat /\ Total(s.c, n, S, {}) \in Nat
        <4>1. x.c \in Cursors(S, n) /\ s.c \in Cursors(S, n)
          BY <3>3 DEF MergeStates
        <4>2. QED
          BY <4>1, TotalLeft
      <3>5. QED
        BY <3>2, <3>3, <3>4, <2>1, <1>3
    <2> HIDE DEF Fine
    <2>4. f[i] \in St
      BY <2>3 DEF Fine
    <2>5. QED
      BY <2>1, <2>3, <2>4
  <1>8. f[N1] \in J[N1]
    <2>1. N1 \in Nat
      BY <1>3
    <2> HIDE DEF J
    <2>2. QED
      BY <2>1, <1>6, <1>7, LoopInvariant
  <1>9. Fine(N1, st)
    BY <1>3, <1>8
  <1>10. /\ st.c \in Cursors(S, n) /\ st.out \in Seq(S) /\ st.cancelled \in Nat
    BY <1>9 DEF MergeStates
  <1>11. Total(st.c, n, S, {}) = 0
    <2>1. Total(st.c, n, S, {}) \in Nat /\ N1 \in Nat
      BY <1>3, <1>10, TotalLeft
    <2>2. QED
      BY <2>1, <1>9
  <1>12. Total(st.c, n, P, Q) = 0
    <2>1. \A i \in 1..n : st.c[i] = <<>>
      BY ONLY <1>10, <1>11, TotalLeft, n \in Nat
    <2>2. QED
      BY <2>1, TotalAtEnd
  <1>13. Net(st.out, P, Q) \in Int /\ d * st.cancelled \in Int
    BY <1>10, NetInt
  <1>14. QED
    BY <1>4, <1>9, <1>10, <1>12, <1>13 DEF Kept, start

\* Records are compared by a total order of their keys and values.
LEMMA RecordOrder ==
  /\ \A a \in AnyWrapped : ~ByRecord(a, a)
  /\ \A a, b, c \in AnyWrapped : ~ByRecord(b, a) /\ ~ByRecord(c, b) => ~ByRecord(c, a)
  <1>1. ASSUME NEW x \in Nat \X Nat PROVE ~RecLess(x, x)
    BY DEF RecLess
  <1>2. ASSUME NEW x \in Nat \X Nat, NEW y \in Nat \X Nat, NEW z \in Nat \X Nat,
               ~RecLess(y, x), ~RecLess(z, y)
        PROVE  ~RecLess(z, x)
    BY <1>2 DEF RecLess
  <1>3. \A a \in AnyWrapped : a.rec \in Nat \X Nat
    BY DEF AnyWrapped
  <1>4. QED
    BY <1>1, <1>2, <1>3 DEF ByRecord

\* An entry that is not smaller than those of a sorted sequence goes behind them.
LEMMA SortedAppend ==
  ASSUME NEW S, NEW s \in Seq(S), NEW e \in S, Sorted(s), \A k \in DOMAIN s : ~ByRecord(e, s[k])
  PROVE  Sorted(Append(s, e))
  <1>1. PICK n \in Nat : n = Len(s)
    BY LenProperties
  <1>2. DOMAIN s = 1..n
    BY <1>1, LenProperties
  <1>3. PICK t \in Seq(S) : t = Append(s, e)
    BY AppendProperties
  <1>4. DOMAIN t = 1..(n + 1) /\ t[n + 1] = e /\ \A i \in 1..n : t[i] = s[i]
    BY <1>1, <1>3, AppendProperties, LenProperties
  <1>5. ASSUME NEW i \in DOMAIN t, NEW j \in DOMAIN t, i < j PROVE ~ByRecord(t[j], t[i])
    <2>1. i \in 1..n /\ t[i] = s[i]
      BY <1>4, <1>5
    <2>2. CASE j = n + 1
      BY <1>2, <1>4, <2>1, <2>2
    <2>3. CASE j # n + 1
      <3>1. j \in 1..n /\ t[j] = s[j]
        BY <1>4, <2>3
      <3>2. QED
        BY <1>2, <1>5, <2>1, <3>1 DEF Sorted
    <2>4. QED
      BY <2>2, <2>3
  <1>6. QED
    BY <1>3, <1>5 DEF Sorted

\* The first entry of a sorted sequence is the smallest, and the others are sorted.
LEMMA SortedTail ==
  ASSUME NEW S \in SUBSET AnyWrapped, NEW s \in Seq(S), s # <<>>, Sorted(s)
  PROVE  /\ Sorted(Tail(s))
         /\ \A k \in DOMAIN s : s[k] \in S /\ ~ByRecord(s[k], s[1])
         /\ \A k \in DOMAIN Tail(s) : \E m \in DOMAIN s : Tail(s)[k] = s[m]
  <1>1. PICK n \in Nat : n = Len(s) /\ n > 0
    BY LenProperties, EmptySeq
  <1>2. DOMAIN s = 1..n /\ \A k \in 1..n : s[k] \in S
    BY <1>1, LenProperties, ElementOfSeq
  <1>3. PICK t : t = Tail(s)
    OBVIOUS
  <1>4. t \in Seq(S) /\ Len(t) = n - 1 /\ \A i \in 1..(n - 1) : t[i] = s[i + 1]
    BY <1>1, <1>3, HeadTailProperties
  <1>5. DOMAIN t = 1..(n - 1)
    BY <1>4, LenProperties
  <1>6. Sorted(t)
    <2>1. ASSUME NEW i \in DOMAIN t, NEW j \in DOMAIN t, i < j PROVE ~ByRecord(t[j], t[i])
      <3>1. i + 1 \in DOMAIN s /\ j + 1 \in DOMAIN s /\ i + 1 < j + 1
        BY <1>1, <1>2, <1>5, <2>1
      <3>2. ~ByRecord(s[j + 1], s[i + 1])
        BY <3>1 DEF Sorted
      <3>3. QED
        BY <1>4, <1>5, <3>2
    <2>2. QED
      BY <2>1 DEF Sorted
  <1>7. ASSUME NEW k \in 1..n PROVE ~ByRecord(s[k], s[1])
    <2>1. CASE k = 1
      BY <1>2, <2>1, RecordOrder
    <2>2. CASE k # 1
      <3>1. 1 \in DOMAIN s /\ k \in DOMAIN s /\ 1 < k
        BY <1>1, <1>2, <2>2
      <3>2. QED
        BY <3>1 DEF Sorted
    <2>3. QED
      BY <2>1, <2>2
  <1>8. ASSUME NEW k \in DOMAIN t PROVE \E m \in DOMAIN s : t[k] = s[m]
    <2>1. k + 1 \in DOMAIN s /\ t[k] = s[k + 1]
      BY <1>1, <1>2, <1>4, <1>5
    <2>2. QED
      BY <2>1
  <1>9. QED
    BY <1>2, <1>3, <1>6, <1>7, <1>8

\* What is written is sorted, what is left of every run too, and what is left is not
\* smaller than what is written.
Ordered(st, n) ==
  /\ Sorted(st.out)
  /\ \A i \in 1..n : Sorted(st.c[i])
  /\ \A i \in 1..n : \A m \in DOMAIN st.c[i] : \A k \in DOMAIN st.out :
       ~ByRecord(st.c[i][m], st.out[k])

\* What is left after a cursor was advanced was left before.
LEMMA AdvanceSorted ==
  ASSUME NEW S \in SUBSET AnyWrapped, NEW n \in Nat, NEW c \in Cursors(S, n),
         NEW i \in 1..n, c[i] # <<>>, \A k \in 1..n : Sorted(c[k])
  PROVE  /\ Advance(c, i) \in Cursors(S, n)
         /\ \A k \in 1..n : Sorted(Advance(c, i)[k])
         /\ \A k \in 1..n : \A m \in DOMAIN Advance(c, i)[k] :
              \E j \in DOMAIN c[k] : Advance(c, i)[k][m] = c[k][j]
  <1>1. PICK a : a = Advance(c, i)
    OBVIOUS
  <1>2. a \in Cursors(S, n)
    BY <1>1, AdvanceNet
  <1>3. a[i] = Tail(c[i]) /\ \A k \in 1..n : k # i => a[k] = c[k]
    BY <1>1 DEF Advance, Cursors
  <1>4. PICK s : s = c[i]
    OBVIOUS
  <1>5. s \in Seq(S) /\ s # <<>> /\ Sorted(s)
    BY <1>4 DEF Cursors
  <1>6. Sorted(Tail(s)) /\ \A k \in DOMAIN Tail(s) : \E m \in DOMAIN s : Tail(s)[k] = s[m]
    BY <1>5, SortedTail
  <1>7. ASSUME NEW k \in 1..n
        PROVE  Sorted(a[k]) /\ \A m \in DOMAIN a[k] : \E j \in DOMAIN c[k] : a[k][m] = c[k][j]
    <2>1. CASE k = i
      <3>1. PICK t : t = Tail(s)
        OBVIOUS
      <3>2. a[k] = t /\ c[k] = s
        BY <1>3, <1>4, <2>1, <3>1
      <3>3. Sorted(t) /\ \A m \in DOMAIN t : \E j \in DOMAIN s : t[m] = s[j]
        BY <1>6, <3>1
      <3>4. QED
        BY ONLY <3>2, <3>3
    <2>2. CASE k # i
      BY <1>3, <2>2
    <2>3. QED
      BY <2>1, <2>2
  <1>8. QED
    BY <1>1, <1>2, <1>7

\* A cursor that is advanced leaves everything in order.
LEMMA DropOrdered ==
  ASSUME NEW S \in SUBSET AnyWrapped, NEW n \in Nat, NEW st, st.c \in Cursors(S, n),
         Ordered(st, n), NEW i \in 1..n, st.c[i] # <<>>,
         NEW x, x.c = Advance(st.c, i), x.out = st.out
  PROVE  x.c \in Cursors(S, n) /\ Ordered(x, n)
  <1>1. PICK c \in Cursors(S, n) : c = st.c
    OBVIOUS
  <1>2. PICK out : out = st.out
    OBVIOUS
  <1>3. PICK rest : rest = Advance(c, i)
    OBVIOUS
  <1>4. /\ Sorted(out) /\ \A k \in 1..n : Sorted(c[k])
        /\ \A k \in 1..n : \A m \in DOMAIN c[k] : \A q \in DOMAIN out : ~ByRecord(c[k][m], out[q])
    BY <1>1, <1>2 DEF Ordered
  <1>5. /\ rest \in Cursors(S, n) /\ \A k \in 1..n : Sorted(rest[k])
        /\ \A k \in 1..n : \A m \in DOMAIN rest[k] : \E j \in DOMAIN c[k] : rest[k][m] = c[k][j]
    <2>1. \A k \in 1..n : Sorted(c[k])
      BY <1>4
    <2>2. c[i] # <<>>
      BY <1>1
    <2>3. /\ Advance(c, i) \in Cursors(S, n) /\ \A k \in 1..n : Sorted(Advance(c, i)[k])
          /\ \A k \in 1..n : \A m \in DOMAIN Advance(c, i)[k] :
               \E j \in DOMAIN c[k] : Advance(c, i)[k][m] = c[k][j]
      BY ONLY <2>1, <2>2, AdvanceSorted, S \in SUBSET AnyWrapped, n \in Nat, c \in Cursors(S, n), i \in 1..n
    <2>4. QED
      BY ONLY <1>3, <2>3, Zenon
  <1>6. \A k \in 1..n : \A m \in DOMAIN rest[k] : \A q \in DOMAIN out : ~ByRecord(rest[k][m], out[q])
    BY <1>4, <1>5
  <1>7. x.c = rest /\ x.out = out
    BY <1>1, <1>2, <1>3
  <1>8. QED
    BY <1>4, <1>5, <1>6, <1>7 DEF Ordered

\* So does writing a record that none of the cursors is below.
LEMMA EmitOrdered ==
  ASSUME NEW S \in SUBSET AnyWrapped, NEW n \in Nat, NEW st, st.c \in Cursors(S, n),
         st.out \in Seq(S), Ordered(st, n), NEW i \in 1..n, st.c[i] # <<>>,
         \A k \in 1..n : st.c[k] # <<>> => ~ByRecord(st.c[k][1], st.c[i][1]),
         NEW x, x.c = Advance(st.c, i), x.out = Append(st.out, st.c[i][1])
  PROVE  Ordered(x, n)
  <1>1. PICK c \in Cursors(S, n) : c = st.c
    OBVIOUS
  <1>2. PICK out \in Seq(S) : out = st.out
    OBVIOUS
  <1>3. PICK y : y = [c |-> Advance(st.c, i), out |-> st.out]
    OBVIOUS
  <1>4. PICK rest : rest = y.c
    OBVIOUS
  <1>5. y.c = Advance(st.c, i) /\ y.out = st.out
    BY <1>3
  <1>6. y.c \in Cursors(S, n) /\ Ordered(y, n)
    BY <1>5, DropOrdered
  <1>7. PICK min : min = c[i][1]
    OBVIOUS
  <1>8. /\ Sorted(out) /\ \A k \in 1..n : Sorted(c[k])
        /\ \A k \in 1..n : \A m \in DOMAIN c[k] : \A q \in DOMAIN out : ~ByRecord(c[k][m], out[q])
    BY <1>1, <1>2 DEF Ordered
  <1>9. /\ \A k \in 1..n : Sorted(rest[k])
        /\ \A k \in 1..n : \A m \in DOMAIN rest[k] : \A q \in DOMAIN out : ~ByRecord(rest[k][m], out[q])
    BY <1>2, <1>4, <1>5, <1>6 DEF Ordered
  <1>10. PICK s \in Seq(S) : s = c[i] /\ s # <<>> /\ Sorted(s)
    BY <1>1, <1>8 DEF Cursors
  <1>11. min \in S /\ 1 \in DOMAIN s /\ min = s[1]
    BY <1>7, <1>10, LenProperties, EmptySeq, ElementOfSeq
  <1>12. \A q \in DOMAIN out : ~ByRecord(min, out[q])
    BY <1>8, <1>10, <1>11
  <1>13. Sorted(Append(out, min))
    BY <1>8, <1>11, <1>12, SortedAppend
  <1>14. ASSUME NEW k \in 1..n, NEW m \in DOMAIN c[k] PROVE ~ByRecord(c[k][m], min)
    <2>1. PICK t \in Seq(S) : t = c[k] /\ Sorted(t)
      BY <1>8 DEF Cursors
    <2>2. t # <<>>
      BY <1>14, <2>1
    <2>3. t[m] \in S /\ t[1] \in S /\ ~ByRecord(t[m], t[1])
      <3>1. 1 \in DOMAIN t
        BY <2>2, LenProperties, EmptySeq
      <3>2. QED
        BY <1>14, <2>1, <2>2, <3>1, SortedTail
    <2>4. ~ByRecord(t[1], min)
      BY <1>1, <1>7, <2>1, <2>2
    <2>5. QED
      BY <1>11, <2>1, <2>3, <2>4, RecordOrder
  <1>15. \A k \in 1..n : \A m \in DOMAIN rest[k] : \E j \in DOMAIN c[k] : rest[k][m] = c[k][j]
    <2>1. \A k \in 1..n : Sorted(c[k])
      BY <1>8
    <2>2. c[i] # <<>> /\ rest = Advance(c, i)
      BY <1>1, <1>4, <1>5
    <2>3. \A k \in 1..n : \A m \in DOMAIN Advance(c, i)[k] :
            \E j \in DOMAIN c[k] : Advance(c, i)[k][m] = c[k][j]
      BY ONLY <2>1, <2>2, AdvanceSorted, S \in SUBSET AnyWrapped, n \in Nat, c \in Cursors(S, n), i \in 1..n
    <2>4. QED
      BY ONLY <2>2, <2>3, Zenon
  <1>16. ASSUME NEW k \in 1..n, NEW m \in DOMAIN rest[k], NEW q \in DOMAIN Append(out, min)
         PROVE  ~ByRecord(rest[k][m], Append(out, min)[q])
    <2>1. PICK l \in Nat : l = Len(out)
      BY LenProperties
    <2>2. PICK t \in Seq(S) : t = Append(out, min)
      BY <1>11, AppendProperties
    <2>3. DOMAIN out = 1..l /\ DOMAIN t = 1..(l + 1) /\ t[l + 1] = min
          /\ \A p \in 1..l : t[p] = out[p]
      BY <1>11, <2>1, <2>2, AppendProperties, LenProperties
    <2>4. CASE q = l + 1
      <3>1. PICK j \in DOMAIN c[k] : rest[k][m] = c[k][j]
        BY <1>15
      <3>2. ~ByRecord(c[k][j], min)
        BY <1>14
      <3>3. QED
        BY <2>2, <2>3, <2>4, <3>1, <3>2
    <2>5. CASE q # l + 1
      <3>1. q \in DOMAIN out /\ t[q] = out[q]
        BY <2>1, <2>2, <2>3, <2>5
      <3>2. QED
        BY <1>9, <2>2, <3>1
    <2>6. QED
      BY <2>4, <2>5
  <1>17. x.c = rest /\ x.out = Append(out, min)
    BY <1>1, <1>2, <1>4, <1>5, <1>7
  <1>18. QED
    BY <1>9, <1>13, <1>16, <1>17 DEF Ordered

\* A round of the loop.
LEMMA HeapRoundSorts ==
  ASSUME NEW S \in SUBSET AnyWrapped, NEW n \in Nat, NEW st \in MergeStates(S, n),
         NEW x \in HeapRound(st), Ordered(st, n)
  PROVE  Ordered(x, n)
  <1>1. st.c \in Cursors(S, n) /\ st.out \in Seq(S)
    BY DEF MergeStates
  <1>2. CASE Tops(st.c) = {}
    BY <1>2 DEF HeapRound
  <1>3. CASE Tops(st.c) # {}
    <2>1. PICK i \in Tops(st.c) : x \in PopMin(st, i)
      BY <1>3 DEF HeapRound
    <2>2. i \in 1..n /\ st.c[i] # <<>>
      BY <1>1, <2>1, TopsExist
    <2>3. PICK rest : rest = Advance(st.c, i)
      OBVIOUS
    <2>4. PICK min : min = st.c[i][1]
      OBVIOUS
    <2> DEFINE emit == [st EXCEPT !.c = rest, !.out = Append(@, min)]
    <2> DEFINE cancel(j) == [st EXCEPT !.c = Advance(rest, j), !.cancelled = @ + 1]
    <2>5. x = emit \/ \E j \in Tops(rest) : x = cancel(j)
      BY <2>1, <2>3, <2>4 DEF PopMin
    <2>6. CASE x = emit
      <3>1. x.c = Advance(st.c, i) /\ x.out = Append(st.out, st.c[i][1])
        BY <2>3, <2>4, <2>6 DEF MergeStates
      <3>2. ASSUME NEW k \in 1..n, st.c[k] # <<>> PROVE ~ByRecord(st.c[k][1], st.c[i][1])
        <4>1. k \in Active(st.c)
          BY <1>1, <3>2 DEF Active, Cursors
        <4>2. QED
          BY <2>1, <4>1 DEF Tops
      <3>3. QED
        BY <1>1, <2>2, <3>1, <3>2, EmitOrdered
    <2>7. ASSUME NEW j \in Tops(rest), x = cancel(j) PROVE Ordered(x, n)
      <3>1. PICK y : y = [c |-> Advance(st.c, i), out |-> st.out]
        OBVIOUS
      <3>2. y.c = Advance(st.c, i) /\ y.out = st.out
        BY <3>1
      <3>3. y.c \in Cursors(S, n) /\ Ordered(y, n)
        BY <1>1, <2>2, <3>2, DropOrdered
      <3>4. y.c = rest
        BY <2>3, <3>2
      <3>5. j \in 1..n /\ y.c[j] # <<>>
        BY <2>7, <3>3, <3>4, TopsExist
      <3>6. x.c = Advance(y.c, j) /\ x.out = y.out
        BY <2>7, <3>2, <3>4 DEF MergeStates
      <3>7. QED
        BY <3>3, <3>5, <3>6, DropOrdered
    <2>8. QED
      BY <2>5, <2>6, <2>7
  <1>4. QED
    BY <1>2, <1>3

\* The whole loop writes the records in order.
LEMMA MergeLoopSorts ==
  ASSUME NEW S \in SUBSET AnyWrapped, NEW n \in Nat, NEW runs, MergeInput(S, n, runs),
         NEW st \in MergeLoop(runs)
  PROVE  Sorted(st.out)
  <1>1. PICK start \in MergeStates(S, n) : start = MergeStart(runs)
    BY MergeLoopStates
  <1>2. PICK count, f : LoopStates(S, n, runs, count, f)
    BY MergeLoopStates
  <1>3. count \in Nat /\ MergeLoop(runs) = f[count] /\ f[0] = {start}
        /\ \A i \in 1..count : f[i] = UNION {HeapRound(s) : s \in f[i - 1]}
    BY <1>1, <1>2 DEF LoopStates
  <1>4. Ordered(start, n)
    <2>1. start.out = <<>>
      BY <1>1 DEF MergeStart
    <2>2. QED
      BY <1>1, <2>1 DEF Ordered, Sorted, MergeInput
  <1> DEFINE T == {i \in Nat : i \in 0..count =>
                     \A s \in f[i] : s \in MergeStates(S, n) /\ Ordered(s, n)}
  <1>5. 0 \in T
    BY <1>3, <1>4
  <1>6. ASSUME NEW i \in 1..count, i - 1 \in T PROVE i \in T
    <2>1. i \in Nat /\ i - 1 \in 0..count
      BY <1>3
    <2>2. \A s \in f[i - 1] : s \in MergeStates(S, n) /\ Ordered(s, n)
      BY <1>6, <2>1
    <2>3. ASSUME NEW x \in f[i] PROVE x \in MergeStates(S, n) /\ Ordered(x, n)
      <3>1. PICK s \in f[i - 1] : x \in HeapRound(s)
        BY <1>3
      <3>2. s \in MergeStates(S, n) /\ Ordered(s, n)
        BY <2>2
      <3>3. QED
        BY <3>1, <3>2, HeapRoundState, HeapRoundSorts
    <2>4. QED
      BY <2>1, <2>3
  <1> HIDE DEF T
  <1>7. count \in T
    BY <1>3, <1>5, <1>6, NatByStep
  <1>8. Ordered(st, n)
    BY <1>3, <1>7 DEF T
  <1>9. QED
    BY <1>8 DEF Ordered

-----------------------------------------------------------------------------
(***************************************************************************)
(* The merge of in-memory arrays, none of whose records is tagged.         *)
(***************************************************************************)
LEMMA HeaderNat ==
  ASSUME NEW w \in AnyWrapped
  PROVE  Header(w) \in Nat
  <1>1. w.stamp \in Nat
    BY DEF AnyWrapped
  <1>2. QED
    BY <1>1 DEF Header

\* The queue has a first record as long as a cursor has one.
LEMMA PeekFirst ==
  ASSUME NEW S \in SUBSET AnyWrapped, NEW n \in Nat, NEW c \in Cursors(S, n),
         NEW A \in SUBSET (1..n), A # {}, \A i \in A : c[i] # <<>>
  PROVE  Peek(c, A) \in A /\ \A j \in A \ {Peek(c, A)} : Before(c, Peek(c, A), j)
  <1> DEFINE R == {p \in (1..n) \X (1..n) : Before(c, p[1], p[2])}
  <1> DEFINE r == [i \in A |-> c[i][1].rec]
  <1> DEFINE h == [i \in A |-> Header(c[i][1])]
  <1>1. ASSUME NEW i \in A PROVE c[i][1] \in AnyWrapped
    <2>1. c[i] \in Seq(S) /\ c[i] # <<>>
      BY DEF Cursors
    <2>2. c[i][1] \in S
      BY <2>1, NetTail
    <2>3. QED
      BY <2>2
  <1>2. r \in [A -> Nat \X Nat] /\ h \in [A -> Nat]
    <2>1. ASSUME NEW i \in A PROVE c[i][1].rec \in Nat \X Nat /\ Header(c[i][1]) \in Nat
      BY <1>1, HeaderNat DEF AnyWrapped
    <2>2. QED
      BY <2>1
  <1> DEFINE less(i, j) == RecLess(r[i], r[j]) \/ (r[i] = r[j] /\ h[i] < h[j])
  <1>3. \A i, j \in A : <<i, j>> \in R <=> less(i, j) \/ (~less(j, i) /\ i < j)
    BY DEF Before, WrappedLess
  <1> HIDE DEF r, h, R
  <1>4. \A i \in A : r[i] \in Nat \X Nat /\ h[i] \in Nat /\ i \in Int
    BY <1>2
  <1>5. \A i, j \in A : i # j => <<i, j>> \in R \/ <<j, i>> \in R
    BY <1>3, <1>4
  <1>6. \A i, j, k \in A : <<i, j>> \in R /\ <<j, k>> \in R => <<i, k>> \in R
    <2>1. ASSUME NEW i \in A, NEW j \in A, NEW k \in A,
                 less(i, j) \/ (~less(j, i) /\ i < j), less(j, k) \/ (~less(k, j) /\ j < k)
          PROVE  less(i, k) \/ (~less(k, i) /\ i < k)
      <3> DEFINE lex(a1, a2, a3, b1, b2, b3) ==
                   a1 < b1 \/ (a1 = b1 /\ a2 < b2) \/ (a1 = b1 /\ a2 = b2 /\ a3 < b3)
      <3>1. \A u, v \in A : less(u, v) <=> lex(r[u][1], r[u][2], h[u], r[v][1], r[v][2], h[v])
        <4>1. ASSUME NEW u \in A, NEW v \in A
              PROVE  r[u] = r[v] <=> r[u][1] = r[v][1] /\ r[u][2] = r[v][2]
          <5>1. \A a, b \in Nat \X Nat : a = b <=> a[1] = b[1] /\ a[2] = b[2]
            BY ONLY TRUE
          <5>2. PICK a \in Nat \X Nat : a = r[u]
            BY <1>4
          <5>3. PICK b \in Nat \X Nat : b = r[v]
            BY <1>4
          <5>4. a = b <=> a[1] = b[1] /\ a[2] = b[2]
            BY ONLY <5>1, a \in Nat \X Nat, b \in Nat \X Nat
          <5>5. QED
            BY <5>2, <5>3, <5>4
        <4>2. QED
          BY <4>1, <1>4 DEF RecLess
      <3>2. \A u \in A : r[u][1] \in Nat /\ r[u][2] \in Nat /\ h[u] \in Nat
        BY <1>4
      <3>3. /\ lex(r[i][1], r[i][2], h[i], r[j][1], r[j][2], h[j])
               \/ (~lex(r[j][1], r[j][2], h[j], r[i][1], r[i][2], h[i]) /\ i < j)
            /\ lex(r[j][1], r[j][2], h[j], r[k][1], r[k][2], h[k])
               \/ (~lex(r[k][1], r[k][2], h[k], r[j][1], r[j][2], h[j]) /\ j < k)
        <4> HIDE DEF lex, less
        <4>1. QED
          BY <2>1, <3>1
      <3>4. \/ lex(r[i][1], r[i][2], h[i], r[k][1], r[k][2], h[k])
            \/ ~lex(r[k][1], r[k][2], h[k], r[i][1], r[i][2], h[i]) /\ i < k
        <4>1. i \in Int /\ j \in Int /\ k \in Int
          BY <1>4
        <4>2. PICK a1 \in Nat, a2 \in Nat, a3 \in Nat : a1 = r[i][1] /\ a2 = r[i][2] /\ a3 = h[i]
          BY <3>2
        <4>3. PICK b1 \in Nat, b2 \in Nat, b3 \in Nat : b1 = r[j][1] /\ b2 = r[j][2] /\ b3 = h[j]
          BY <3>2
        <4>4. PICK d1 \in Nat, d2 \in Nat, d3 \in Nat : d1 = r[k][1] /\ d2 = r[k][2] /\ d3 = h[k]
          BY <3>2
        <4>5. /\ lex(a1, a2, a3, b1, b2, b3) \/ (~lex(b1, b2, b3, a1, a2, a3) /\ i < j)
              /\ lex(b1, b2, b3, d1, d2, d3) \/ (~lex(d1, d2, d3, b1, b2, b3) /\ j < k)
          BY <3>3, <4>2, <4>3, <4>4
        <4>6. lex(a1, a2, a3, d1, d2, d3) \/ (~lex(d1, d2, d3, a1, a2, a3) /\ i < k)
          BY <4>1, <4>5
        <4>7. QED
          BY <4>2, <4>4, <4>6
      <3> HIDE DEF lex, less
      <3>5. QED
        BY <3>1, <3>4
    <2> HIDE DEF less
    <2>2. QED
      BY <2>1, <1>3
  <1>7. \E i \in A : \A j \in A \ {i} : <<i, j>> \in R
    BY <1>5, <1>6, LeastIndex
  <1>8. \E i \in A : \A j \in A \ {i} : Before(c, i, j)
    BY <1>7 DEF R
  <1>9. QED
    BY <1>8 DEF Peek

\* It is not above any other record in the queue.
LEMMA PeekLeast ==
  ASSUME NEW S \in SUBSET AnyWrapped, NEW n \in Nat, NEW c \in Cursors(S, n),
         NEW A \in SUBSET (1..n), A # {}, \A i \in A : c[i] # <<>>
  PROVE  \A j \in A : ~ByRecord(c[j][1], c[Peek(c, A)][1])
  <1>1. PICK i : i = Peek(c, A)
    OBVIOUS
  <1>2. i \in A /\ \A j \in A \ {i} : Before(c, i, j)
    BY <1>1, PeekFirst
  <1>3. ASSUME NEW j \in A PROVE c[j][1] \in AnyWrapped
    <2>1. c[j] \in Seq(S) /\ c[j] # <<>>
      BY DEF Cursors
    <2>2. c[j][1] \in S
      BY <2>1, NetTail
    <2>3. QED
      BY <2>2
  <1>4. ASSUME NEW j \in A PROVE ~ByRecord(c[j][1], c[i][1])
    <2>1. PICK u \in AnyWrapped : u = c[i][1]
      BY <1>2, <1>3
    <2>2. PICK v \in AnyWrapped : v = c[j][1]
      BY <1>3
    <2>3. u.rec \in Nat \X Nat /\ v.rec \in Nat \X Nat
      BY DEF AnyWrapped
    <2>4. CASE j = i
      BY <2>1, <2>2, <2>4, RecordOrder
    <2>5. CASE j # i
      <3>1. WrappedLess(u, v) \/ ~WrappedLess(v, u)
        BY <1>2, <2>1, <2>2, <2>5 DEF Before
      <3>2. RecLess(u.rec, v.rec) \/ u.rec = v.rec \/ ~RecLess(v.rec, u.rec)
        BY <3>1 DEF WrappedLess
      <3>3. ~RecLess(v.rec, u.rec)
        BY <2>3, <3>2 DEF RecLess
      <3>4. QED
        BY <2>1, <2>2, <3>3 DEF ByRecord
    <2>6. QED
      BY <2>4, <2>5
  <1>5. QED
    BY <1>1, <1>4

\* The states of the merge.
ArrayStates(S, n) == [c : Cursors(S, n), out : Seq(S)]

ArrayRound(st) == MergeRound(st, "del")

\* A round of the loop.
LEMMA MergeRoundKeeps ==
  ASSUME NEW S \in SUBSET AnyWrapped, \A w \in S : ~w.del,
         NEW n \in Nat, NEW st \in ArrayStates(S, n),
         NEW x, x = ArrayRound(st),
         NEW P, NEW Q, PairsCount(S, P, Q, 0)
  PROVE  /\ x \in ArrayStates(S, n)
         /\ Net(x.out, P, Q) + Total(x.c, n, P, Q) = Net(st.out, P, Q) + Total(st.c, n, P, Q)
         /\ Len(x.out) + Total(x.c, n, S, {}) <= Len(st.out) + Total(st.c, n, S, {})
         /\ \/ Total(x.c, n, S, {}) = 0
            \/ Total(x.c, n, S, {}) < Total(st.c, n, S, {})
  <1>1. PICK c : c = st.c
    OBVIOUS
  <1>2. c \in Cursors(S, n) /\ st.out \in Seq(S) /\ Len(st.out) \in Nat
    BY <1>1, LenProperties DEF ArrayStates
  <1>3. PICK i : i = Peek(c, Active(c))
    OBVIOUS
  <1>4. PICK others : others = Active(c) \ {i}
    OBVIOUS
  <1>5. PICK j : j = Peek(c, others)
    OBVIOUS
  <1>6. Active(c) = {k \in 1..n : c[k] # <<>>}
    BY <1>2 DEF Active, Cursors
  <1>7. Total(c, n, S, {}) \in Nat /\ Total(c, n, P, Q) \in Int /\ Net(st.out, P, Q) \in Int
    BY <1>2, TotalLeft, TotalInt, NetInt
  <1>8. CASE Active(c) = {}
    <2>1. x = st
      BY <1>1, <1>8 DEF ArrayRound, MergeRound
    <2>2. \A k \in 1..n : c[k] = <<>>
      BY <1>6, <1>8
    <2>3. Total(c, n, S, {}) = 0
      BY <2>2, TotalAtEnd
    <2>4. QED
      BY <2>1, <2>3, <1>1, <1>2
  <1>9. CASE Active(c) # {}
    <2>1. i \in 1..n /\ c[i] # <<>>
      <3>1. i \in Active(c)
        <4>1. Active(c) \in SUBSET (1..n) /\ \A k \in Active(c) : c[k] # <<>>
          BY <1>6
        <4>2. QED
          BY <4>1, <1>2, <1>3, <1>9, PeekFirst
      <3>2. QED
        BY <3>1, <1>6
    <2>2. PICK rest : rest = Advance(c, i)
      OBVIOUS
    <2>3. PICK a : a = c[i][1]
      OBVIOUS
    <2>4. /\ a \in S /\ rest \in Cursors(S, n)
          /\ \A U, V : Total(rest, n, U, V) = Total(c, n, U, V) - Sign(a, U, V)
      <3>1. ASSUME NEW U, NEW V
            PROVE  /\ c[i][1] \in S /\ Advance(c, i) \in Cursors(S, n)
                   /\ Total(Advance(c, i), n, U, V) = Total(c, n, U, V) - Sign(c[i][1], U, V)
        BY <1>2, <2>1, AdvanceNet
      <3>2. c[i][1] \in S /\ Advance(c, i) \in Cursors(S, n)
        BY <3>1
      <3>3. QED
        BY <2>2, <2>3, <3>1, <3>2
    <2>5. Sign(a, S, {}) = 1 /\ Sign(a, P, Q) \in Int
      BY <2>4, SignInt DEF Sign
    <2>6. CASE others # {} /\ Cancels(a, c[j][1])
      <3>1. j \in 1..n /\ j # i /\ c[j] # <<>>
        <4>1. j \in others
          <5>1. others \in SUBSET (1..n) /\ \A k \in others : c[k] # <<>>
            BY <1>4, <1>6
          <5>2. QED
            BY <5>1, <1>2, <1>5, <2>6, PeekFirst
        <4>2. QED
          BY <4>1, <1>4, <1>6
      <3>2. rest[j] = c[j]
        BY <1>2, <2>2, <3>1 DEF Advance, Cursors
      <3>3. PICK last : last = Advance(rest, j)
        OBVIOUS
      <3>4. PICK b : b = rest[j][1]
        OBVIOUS
      <3>5. /\ b \in S /\ last \in Cursors(S, n)
            /\ \A U, V : Total(last, n, U, V) = Total(rest, n, U, V) - Sign(b, U, V)
        <4>1. ASSUME NEW U, NEW V
              PROVE  /\ rest[j][1] \in S /\ Advance(rest, j) \in Cursors(S, n)
                     /\ Total(Advance(rest, j), n, U, V) = Total(rest, n, U, V) - Sign(rest[j][1], U, V)
          BY <2>4, <3>1, <3>2, AdvanceNet
        <4>2. rest[j][1] \in S /\ Advance(rest, j) \in Cursors(S, n)
          BY <4>1
        <4>3. QED
          BY <3>3, <3>4, <4>1, <4>2
      <3>6. Sign(a, P, Q) + Sign(b, P, Q) = 0
        <4>1. Annihilate(a, b)
          BY <2>4, <2>6, <3>2, <3>4, <3>5 DEF Cancels, Annihilate, AnyWrapped
        <4>2. QED
          BY <4>1, <2>4, <3>5 DEF PairsCount
      <3>7. x = [st EXCEPT !.c = last]
        BY <1>1, <1>3, <1>4, <1>5, <1>9, <2>2, <2>3, <2>6, <3>3 DEF ArrayRound, MergeRound
      <3>8. x.c = last /\ x.out = st.out /\ x \in ArrayStates(S, n)
        BY <3>5, <3>7 DEF ArrayStates
      <3>9. Total(last, n, P, Q) = Total(c, n, P, Q) - Sign(a, P, Q) - Sign(b, P, Q)
            /\ Sign(b, P, Q) \in Int
        BY <2>4, <3>5, SignInt
      <3>10. Total(last, n, S, {}) = Total(c, n, S, {}) - 1 - 1
        <4>1. Sign(b, S, {}) = 1
          BY <3>5 DEF Sign
        <4>2. QED
          BY <4>1, <2>4, <2>5, <3>5
      <3>11. Total(last, n, P, Q) = Total(c, n, P, Q)
        BY <1>7, <2>5, <3>6, <3>9
      <3>12. Total(last, n, S, {}) <= Total(c, n, S, {}) /\ Total(last, n, S, {}) < Total(c, n, S, {})
             /\ Len(st.out) + Total(last, n, S, {}) <= Len(st.out) + Total(c, n, S, {})
        BY <1>2, <1>7, <3>10
      <3>13. QED
        BY <1>1, <3>8, <3>11, <3>12
    <2>7. CASE ~(others # {} /\ Cancels(a, c[j][1]))
      <3>1. x = [c |-> rest, out |-> Append(st.out, a)]
        <4>1. ~a.del
          BY <2>4
        <4>2. QED
          BY <4>1, <1>1, <1>3, <1>4, <1>5, <1>9, <2>2, <2>3, <2>7 DEF ArrayRound, MergeRound
      <3>2. Append(st.out, a) \in Seq(S) /\ Len(Append(st.out, a)) = Len(st.out) + 1
        BY <1>2, <2>4, AppendProperties
      <3>3. x.c = rest /\ x.out = Append(st.out, a) /\ x \in ArrayStates(S, n)
        BY <2>4, <3>1, <3>2 DEF ArrayStates
      <3>4. Net(x.out, P, Q) = Net(st.out, P, Q) + Sign(a, P, Q)
        BY <1>2, <2>4, <3>3, NetAppend
      <3>5. Total(rest, n, P, Q) = Total(c, n, P, Q) - Sign(a, P, Q)
            /\ Total(rest, n, S, {}) = Total(c, n, S, {}) - 1
        BY <2>4, <2>5
      <3>6. QED
        BY <1>1, <1>2, <1>7, <2>5, <3>2, <3>3, <3>4, <3>5
    <2>8. QED
      BY <2>6, <2>7
  <1>10. QED
    BY <1>8, <1>9

\* A round writes in order.
LEMMA MergeRoundSorts ==
  ASSUME NEW S \in SUBSET AnyWrapped, \A w \in S : ~w.del,
         NEW n \in Nat, NEW st \in ArrayStates(S, n), Ordered(st, n),
         NEW x, x = ArrayRound(st)
  PROVE  Ordered(x, n)
  <1>1. PICK c : c = st.c
    OBVIOUS
  <1>2. c \in Cursors(S, n) /\ st.out \in Seq(S)
    BY <1>1 DEF ArrayStates
  <1>3. PICK i : i = Peek(c, Active(c))
    OBVIOUS
  <1>4. PICK others : others = Active(c) \ {i}
    OBVIOUS
  <1>5. PICK j : j = Peek(c, others)
    OBVIOUS
  <1>6. Active(c) = {k \in 1..n : c[k] # <<>>}
    BY <1>2 DEF Active, Cursors
  <1>7. CASE Active(c) = {}
    BY <1>1, <1>7 DEF ArrayRound, MergeRound
  <1>8. CASE Active(c) # {}
    <2>1. Active(c) \in SUBSET (1..n) /\ \A k \in Active(c) : c[k] # <<>>
      BY <1>6
    <2>2. i \in Active(c) /\ \A k \in Active(c) : ~ByRecord(c[k][1], c[i][1])
      BY <1>2, <1>3, <1>8, <2>1, PeekFirst, PeekLeast
    <2>3. i \in 1..n /\ c[i] # <<>>
      BY <1>6, <2>2
    <2>4. PICK y : y = [c |-> Advance(c, i), out |-> st.out]
      OBVIOUS
    <2>5. y.c = Advance(st.c, i) /\ y.out = st.out
      BY <1>1, <2>4
    <2>6. y.c \in Cursors(S, n) /\ Ordered(y, n)
      BY <1>1, <1>2, <2>3, <2>5, DropOrdered
    <2>7. CASE others # {} /\ Cancels(c[i][1], c[j][1])
      <3>1. j \in others
        <4>1. others \in SUBSET (1..n) /\ \A k \in others : c[k] # <<>>
          BY <1>4, <1>6
        <4>2. QED
          BY <4>1, <1>2, <1>5, <2>7, PeekFirst
      <3>2. j \in 1..n /\ j # i /\ c[j] # <<>>
        BY <3>1, <1>4, <1>6
      <3>3. y.c[j] # <<>>
        BY <1>1, <1>2, <2>5, <3>2 DEF Advance, Cursors
      <3>4. x = [st EXCEPT !.c = Advance(Advance(c, i), j)]
        BY <1>1, <1>3, <1>4, <1>5, <1>8, <2>7 DEF ArrayRound, MergeRound
      <3>5. x.c = Advance(y.c, j) /\ x.out = y.out
        BY <1>1, <2>5, <3>4 DEF ArrayStates
      <3>6. QED
        BY <2>6, <3>2, <3>3, <3>5, DropOrdered
    <2>8. CASE ~(others # {} /\ Cancels(c[i][1], c[j][1]))
      <3>1. c[i][1] \in S
        <4>1. c[i] \in Seq(S)
          BY <1>2, <2>3 DEF Cursors
        <4>2. QED
          BY <2>3, <4>1, NetTail
      <3>2. ~c[i][1].del
        BY <3>1
      <3>3. x = [c |-> Advance(c, i), out |-> Append(st.out, c[i][1])]
        BY <1>1, <1>3, <1>4, <1>5, <1>8, <2>8, <3>2 DEF ArrayRound, MergeRound
      <3>4. x.c = Advance(st.c, i) /\ x.out = Append(st.out, st.c[i][1])
        BY <1>1, <3>3
      <3>5. \A k \in 1..n : st.c[k] # <<>> => ~ByRecord(st.c[k][1], st.c[i][1])
        BY <1>1, <1>6, <2>2
      <3>6. QED
        BY <1>1, <1>2, <2>3, <3>4, <3>5, EmitOrdered
    <2>9. QED
      BY <2>7, <2>8
  <1>9. QED
    BY <1>7, <1>8

\* The whole merge: only pairs that cancel each other are left out, and
\* sorted arrays give a sorted one.
LEMMA ArrayMergeKeeps ==
  ASSUME NEW S \in SUBSET AnyWrapped, \A w \in S : ~w.del,
         NEW n \in Nat, NEW cs \in Cursors(S, n),
         NEW P, NEW Q, PairsCount(S, P, Q, 0)
  PROVE  /\ SortedArrayMerge(cs) \in Seq(S)
         /\ Net(SortedArrayMerge(cs), P, Q) = Total(cs, n, P, Q)
         /\ Len(SortedArrayMerge(cs)) <= Total(cs, n, S, {})
         /\ (\A k \in 1..n : Sorted(cs[k])) => Sorted(SortedArrayMerge(cs))
  <1> DEFINE start == [c |-> cs, out |-> <<>>]
  <1> DEFINE ns == [i \in DOMAIN cs |-> Len(cs[i])]
  <1> DEFINE N == SumSeq(ns)
  <1> DEFINE St == ArrayStates(S, n)
  <1> DEFINE round(s) == ArrayRound(s)
  <1>1. start \in St /\ start.c = cs /\ start.out = <<>>
    BY EmptySeq DEF ArrayStates
  <1>2. N = Total(cs, n, S, {}) /\ N \in Nat
    <2> DEFINE ls == [i \in 1..n |-> Len(cs[i])]
    <2>1. Len(ns) = n /\ ns = ls
      BY DEF Cursors
    <2>2. N = SumTo(ls, n)
      BY <2>1 DEF SumSeq
    <2>3. Total(cs, n, S, {}) = SumTo(ls, n) /\ Total(cs, n, S, {}) \in Nat
      BY TotalLeft
    <2>4. QED
      BY <2>2, <2>3
  <1>3. PICK N1 : N1 = N
    OBVIOUS
  <1> DEFINE Tab(g) == g = [i \in 0..N1 |-> IF i = 0 THEN start ELSE round(g[i - 1])]
  <1>4. SortedArrayMerge(cs) = (CHOOSE g : Tab(g))[N1].out
    BY <1>3 DEF SortedArrayMerge, Merged, Iterate, ArrayRound
  <1> DEFINE W(s) == Net(s.out, P, Q) + Total(s.c, n, P, Q)
  <1> DEFINE L(s) == Len(s.out) + Total(s.c, n, S, {})
  <1> DEFINE Up(s) == (\A k \in 1..n : Sorted(cs[k])) => Ordered(s, n)
  <1>5. ASSUME NEW s \in St
        PROVE  /\ round(s) \in St /\ W(round(s)) = W(s) /\ L(round(s)) <= L(s)
               /\ Up(s) => Up(round(s))
               /\ \/ Total(round(s).c, n, S, {}) = 0
                  \/ Total(round(s).c, n, S, {}) < Total(s.c, n, S, {})
    <2>1. PICK x : x = ArrayRound(s)
      OBVIOUS
    <2> HIDE DEF St
    <2>2. s \in ArrayStates(S, n)
      BY DEF St
    <2>3. /\ x \in ArrayStates(S, n) /\ W(x) = W(s) /\ L(x) <= L(s)
          /\ \/ Total(x.c, n, S, {}) = 0
             \/ Total(x.c, n, S, {}) < Total(s.c, n, S, {})
      BY <2>1, <2>2, MergeRoundKeeps
    <2>4. Up(s) => Up(x)
      BY <2>1, <2>2, MergeRoundSorts
    <2> HIDE DEF Up
    <2>5. QED
      BY <2>1, <2>3, <2>4 DEF St
  <1>6. N1 \in Nat
    BY <1>2, <1>3
  <1>7. Up(start)
    BY <1>1 DEF Ordered, Sorted
  <1> HIDE DEF start, N, round, Up
  <1>8. \E g : Tab(g)
    <2> DEFINE F == [i \in Nat |-> [s \in St |-> round(s)]]
    <2>1. F \in [Nat -> [St -> St]] /\ \A i \in Nat : \A s \in St : F[i][s] = round(s)
      BY <1>5
    <2> HIDE DEF F, St
    <2>2. HasTable(St, 0, N1, start, F)
      BY <2>1, <1>1, <1>6, TableExists
    <2>3. PICK g \in [0..N1 -> St] :
            \A i \in 0..N1 : g[i] = IF i = 0 THEN start ELSE F[i][g[i - 1]]
      BY <2>2 DEF HasTable
    <2>4. ASSUME NEW i \in 0..N1 PROVE g[i] = IF i = 0 THEN start ELSE round(g[i - 1])
      <3>1. CASE i = 0
        BY <3>1, <2>3
      <3>2. CASE i # 0
        <4>1. i - 1 \in 0..N1 /\ i \in Nat
          BY <3>2, <1>6
        <4>2. PICK s \in St : s = g[i - 1]
          BY <4>1
        <4>3. F[i][s] = round(s)
          BY <4>1, <2>1
        <4>4. QED
          BY <3>2, <2>3, <4>2, <4>3
      <3>3. QED
        BY <3>1, <3>2
    <2>5. Tab(g)
      BY <2>3, <2>4
    <2>6. QED
      BY <2>5
  <1>9. PICK f : Tab(f) /\ SortedArrayMerge(cs) = f[N1].out
    BY <1>4, <1>8
  <1>10. \A i \in 0..N1 : f[i] = IF i = 0 THEN start ELSE round(f[i - 1])
    BY <1>9
  <1> DEFINE Fine(i, s) == /\ W(s) = W(start) /\ L(s) <= L(start) /\ Up(s)
                           /\ Total(s.c, n, S, {}) = 0 \/ Total(s.c, n, S, {}) <= N1 - i
  <1> DEFINE J == [i \in 0..N1 |-> {s \in St : Fine(i, s)}]
  <1>11. ASSUME NEW s \in St
         PROVE  /\ Total(s.c, n, S, {}) \in Nat /\ Len(s.out) \in Nat /\ L(s) \in Nat
                /\ s.c \in Cursors(S, n) /\ s.out \in Seq(S)
    <2>1. s.c \in Cursors(S, n) /\ s.out \in Seq(S)
      BY DEF ArrayStates
    <2>2. Total(s.c, n, S, {}) \in Nat /\ Len(s.out) \in Nat
      BY <2>1, TotalLeft, LenProperties
    <2>3. QED
      BY <2>1, <2>2
  <1>12. f[0] \in J[0]
    <2>1. 0 \in 0..N1 /\ N1 - 0 = N1
      BY <1>6
    <2>2. f[0] = start
      BY <2>1, <1>10
    <2>3. L(start) <= L(start)
      BY <1>1, <1>11
    <2>4. Total(start.c, n, S, {}) <= N1 - 0
      BY <1>1, <1>2, <1>3, <2>1
    <2>5. Fine(0, start)
      BY <1>7, <2>3, <2>4
    <2> HIDE DEF Fine
    <2>6. QED
      BY <1>1, <2>1, <2>2, <2>5
  <1>13. ASSUME NEW i \in 1..N1, f[i - 1] \in J[i - 1] PROVE f[i] \in J[i]
    <2>1. i \in 0..N1 /\ i - 1 \in 0..N1 /\ i # 0
      BY <1>6
    <2>2. PICK s : s = f[i - 1]
      OBVIOUS
    <2>3. s \in St /\ Fine(i - 1, s)
      BY <2>1, <2>2, <1>13
    <2>4. PICK x : x = round(s)
      OBVIOUS
    <2>5. f[i] = x
      BY <2>1, <2>2, <2>4, <1>10
    <2>6. /\ x \in St /\ W(x) = W(s) /\ L(x) <= L(s) /\ (Up(s) => Up(x))
          /\ \/ Total(x.c, n, S, {}) = 0
             \/ Total(x.c, n, S, {}) < Total(s.c, n, S, {})
      BY <2>3, <2>4, <1>5
    <2>7. W(x) = W(start) /\ L(x) <= L(start)
      <3>1. L(x) \in Nat /\ L(s) \in Nat /\ L(start) \in Nat
        BY <2>3, <2>6, <1>1, <1>11
      <3> HIDE DEF L, W
      <3>2. QED
        BY <3>1, <2>3, <2>6
    <2>8. Total(x.c, n, S, {}) = 0 \/ Total(x.c, n, S, {}) <= N1 - i
      <3>1. Total(x.c, n, S, {}) \in Nat /\ Total(s.c, n, S, {}) \in Nat
        BY <2>3, <2>6, <1>11
      <3>2. QED
        BY <3>1, <2>1, <2>3, <2>6, <1>6
    <2>9. Fine(i, x)
      BY <2>3, <2>6, <2>7, <2>8
    <2> HIDE DEF Fine
    <2>10. QED
      BY <2>1, <2>5, <2>6, <2>9
  <1>14. f[N1] \in J[N1]
    <2> HIDE DEF J
    <2>1. QED
      BY <1>6, <1>12, <1>13, LoopInvariant
  <1>15. PICK s : s = f[N1]
    OBVIOUS
  <1>16. s \in St /\ Fine(N1, s)
    <2>1. N1 \in 0..N1
      BY <1>6
    <2> HIDE DEF Fine
    <2>2. QED
      BY <2>1, <1>14, <1>15
  <1>17. Total(s.c, n, S, {}) = 0
    BY <1>6, <1>11, <1>16
  <1>18. Total(s.c, n, P, Q) = 0
    <2>1. \A i \in 1..n : s.c[i] = <<>>
      BY <1>11, <1>16, <1>17, TotalLeft
    <2>2. QED
      BY <2>1, TotalAtEnd
  <1>19. W(start) = Total(cs, n, P, Q) /\ L(start) = Total(cs, n, S, {})
    BY <1>1, <1>2, NetEmpty, TotalInt, EmptySeq
  <1>20. Net(s.out, P, Q) \in Int /\ Len(s.out) \in Nat
    BY <1>11, <1>16, NetInt
  <1>21. Net(s.out, P, Q) = Total(cs, n, P, Q) /\ Len(s.out) <= Total(cs, n, S, {})
    BY <1>16, <1>17, <1>18, <1>19, <1>20
  <1>22. (\A k \in 1..n : Sorted(cs[k])) => Sorted(s.out)
    BY <1>16 DEF Up, Ordered
  <1>23. QED
    BY <1>9, <1>11, <1>15, <1>16, <1>21, <1>22

-----------------------------------------------------------------------------
(***************************************************************************)
(* The array of a buffer view.                                             *)
(***************************************************************************)
Prefix(s, k) == SubSeq(s, 1, k)

\* Prefixes are sequences; the longest one is the whole sequence.
LEMMA PrefixSeq ==
  ASSUME NEW S, NEW s \in Seq(S)
  PROVE  /\ Prefix(s, 0) = <<>>
         /\ Prefix(s, Len(s)) = s
         /\ \A k \in 0..Len(s) : /\ Prefix(s, k) \in Seq(S) /\ Len(Prefix(s, k)) = k
                                 /\ \A i \in 1..k : Prefix(s, k)[i] = s[i]
  <1>1. Len(s) \in Nat /\ \A k \in 1..Len(s) : s[k] \in S
    BY LenProperties, ElementOfSeq
  <1>2. Prefix(s, 0) = <<>>
    BY <1>1 DEF Prefix
  <1>3. Prefix(s, Len(s)) = s
    BY <1>1 DEF Prefix
  <1>4. ASSUME NEW k \in 0..Len(s)
        PROVE  /\ Prefix(s, k) \in Seq(S) /\ Len(Prefix(s, k)) = k
               /\ \A i \in 1..k : Prefix(s, k)[i] = s[i]
    <2>1. k \in Nat /\ k <= Len(s) /\ \A i \in 1..k : s[i] \in S
      BY <1>1
    <2>2. QED
      BY <2>1, <1>1 DEF Prefix
  <1>5. QED
    BY <1>2, <1>3, <1>4

\* A prefix that is longer by one entry.
LEMMA PrefixStep ==
  ASSUME NEW S, NEW s \in Seq(S), NEW k \in 1..Len(s), NEW P, NEW Q
  PROVE  /\ Net(Prefix(s, k), P, Q) = Net(Prefix(s, k - 1), P, Q) + Sign(s[k], P, Q)
         /\ Net(Prefix(s, k - 1), P, Q) \in Int
  <1>1. Len(s) \in Nat /\ k \in 0..Len(s) /\ k - 1 \in 0..Len(s) /\ s[k] \in S
    BY LenProperties, ElementOfSeq
  <1>2. PICK u : u = Prefix(s, k - 1)
    OBVIOUS
  <1>3. PICK t : t = Prefix(s, k)
    OBVIOUS
  <1>4. /\ u \in Seq(S) /\ Len(u) = k - 1 /\ \A i \in 1..(k - 1) : u[i] = s[i]
        /\ t \in Seq(S) /\ Len(t) = k /\ \A i \in 1..k : t[i] = s[i]
    BY <1>1, <1>2, <1>3, PrefixSeq
  <1>5. t = Append(u, s[k])
    <2>1. PICK v : v = Append(u, s[k])
      OBVIOUS
    <2>2. /\ v \in Seq(S) /\ Len(v) = k /\ v[k] = s[k] /\ \A i \in 1..(k - 1) : v[i] = u[i]
      BY <1>1, <1>4, <2>1, AppendProperties
    <2>3. \A i \in 1..k : v[i] = t[i]
      <3>1. \A i \in 1..k : i = k \/ i \in 1..(k - 1)
        BY <1>1
      <3>2. QED
        BY <3>1, <2>2, <1>4
    <2>4. v = t
      BY <2>2, <2>3, <1>4, SeqEqual
    <2>5. QED
      BY <2>1, <2>4
  <1>6. Net(Append(u, s[k]), P, Q) = Net(u, P, Q) + Sign(s[k], P, Q)
    BY <1>1, <1>4, NetAppend
  <1>7. Net(u, P, Q) \in Int
    BY <1>4, NetInt
  <1>8. QED
    BY <1>2, <1>3, <1>5, <1>6, <1>7

\* The header of a record is cleared: this is not to change what it counts.
StampFree(S, P, Q) ==
  \A w \in S : [w EXCEPT !.stamp = 0] \in S /\ Sign([w EXCEPT !.stamp = 0], P, Q) = Sign(w, P, Q)

\* What was copied is sorted and not above what is to come.
Rising(s, st) ==
  /\ Sorted(st.out)
  /\ \A q \in st.base..Len(s) : \A k \in DOMAIN st.out : ~ByRecord(s[q], st.out[k])

\* A round copies in order.
LEMMA FilterRoundSorts ==
  ASSUME NEW S \in SUBSET AnyWrapped, \A w \in S : ~w.del /\ [w EXCEPT !.stamp = 0] \in S,
         NEW s \in Seq(S), NEW n \in Nat, n = Len(s), Sorted(s),
         NEW st, st.base \in 1..(n + 1), st.out \in Seq(S), Rising(s, st)
  PROVE  Rising(s, FilterRound(s, st))
  <1>1. PICK b \in 1..(n + 1) : b = st.base
    OBVIOUS
  <1>2. PICK out \in Seq(S) : out = st.out
    OBVIOUS
  <1>3. Sorted(out) /\ \A q \in b..n : \A k \in DOMAIN out : ~ByRecord(s[q], out[k])
    BY <1>1, <1>2 DEF Rising
  <1>4. CASE b > n
    BY <1>1, <1>4 DEF FilterRound
  <1>5. CASE b < n /\ Cancels(s[b], s[b + 1])
    <2>1. ~(b > n)
      BY <1>5
    <2>2. FilterRound(s, st) = [st EXCEPT !.base = @ + 2]
      BY <1>1, <1>5, <2>1 DEF FilterRound
    <2>3. PICK x : x = FilterRound(s, st)
      OBVIOUS
    <2>4. \A q \in (b + 2)..n : q \in b..n
      OBVIOUS
    <2>5. (x.base = b + 2 /\ x.out = out) \/ x = st
      BY <1>1, <1>2, <2>2, <2>3
    <2>6. QED
      BY <1>3, <2>3, <2>4, <2>5 DEF Rising
  <1>6. CASE ~(b > n) /\ ~(b < n /\ Cancels(s[b], s[b + 1]))
    <2>1. b \in 1..n
      BY <1>6
    <2>2. PICK w : w = [s[b] EXCEPT !.stamp = 0]
      OBVIOUS
    <2>3. s[b] \in S /\ w \in S /\ ~s[b].del
      BY <2>1, <2>2, ElementOfSeq
    <2>4. w.rec = s[b].rec
      BY <2>2, <2>3 DEF AnyWrapped
    <2>5. FilterRound(s, st) = [base |-> b + 1, out |-> Append(out, w)]
      BY <1>1, <1>2, <1>6, <2>2, <2>3 DEF FilterRound
    <2>6. \A k \in DOMAIN out : ~ByRecord(w, out[k])
      <3>1. b \in b..n
        BY <2>1
      <3>2. QED
        BY <1>3, <2>4, <3>1 DEF ByRecord
    <2>7. Sorted(Append(out, w))
      BY <1>3, <2>3, <2>6, SortedAppend
    <2>8. ASSUME NEW q \in (b + 1)..n, NEW k \in DOMAIN Append(out, w)
          PROVE  ~ByRecord(s[q], Append(out, w)[k])
      <3>1. PICK l \in Nat : l = Len(out)
        BY LenProperties
      <3>2. PICK t \in Seq(S) : t = Append(out, w)
        BY <2>3, AppendProperties
      <3>3. DOMAIN out = 1..l /\ DOMAIN t = 1..(l + 1) /\ t[l + 1] = w
            /\ \A p \in 1..l : t[p] = out[p]
        BY <2>3, <3>1, <3>2, AppendProperties, LenProperties
      <3>4. CASE k = l + 1
        <4>1. DOMAIN s = 1..n
          BY LenProperties
        <4>2. b \in DOMAIN s /\ q \in DOMAIN s /\ b < q
          BY <2>1, <4>1
        <4>3. ~ByRecord(s[q], s[b])
          BY <4>2 DEF Sorted
        <4>4. QED
          BY <2>4, <3>2, <3>3, <3>4, <4>3 DEF ByRecord
      <3>5. CASE k # l + 1
        <4>1. k \in DOMAIN out /\ t[k] = out[k] /\ q \in b..n
          BY <3>2, <3>3, <3>5
        <4>2. QED
          BY <1>3, <3>2, <4>1
      <3>6. QED
        BY <3>4, <3>5
    <2>9. PICK x : x = FilterRound(s, st)
      OBVIOUS
    <2>10. x.base = b + 1 /\ x.out = Append(out, w)
      BY <2>5, <2>9
    <2>11. Rising(s, x)
      BY <2>7, <2>8, <2>10 DEF Rising
    <2>12. QED
      BY <2>9, <2>11
  <1>7. QED
    BY <1>4, <1>5, <1>6

\* The loop over the sorted copy.
LEMMA FilterKeeps ==
  ASSUME NEW S \in SUBSET AnyWrapped, \A w \in S : ~w.del, NEW s \in Seq(S),
         NEW P, NEW Q, PairsCount(S, P, Q, 0), StampFree(S, P, Q)
  PROVE  /\ FilterSorted(s) \in Seq(S)
         /\ Net(FilterSorted(s), P, Q) = Net(s, P, Q)
         /\ Len(FilterSorted(s)) <= Len(s)
         /\ Sorted(s) => Sorted(FilterSorted(s))
  <1> DEFINE n == Len(s)
  <1> DEFINE start == [base |-> 1, out |-> <<>>]
  <1> DEFINE St == [base : 1..(n + 1), out : Seq(S)]
  <1> DEFINE round(st) == FilterRound(s, st)
  <1> DEFINE Fine(st) == /\ Net(st.out, P, Q) = Net(Prefix(s, st.base - 1), P, Q)
                         /\ Len(st.out) <= st.base - 1
  <1> DEFINE Up(st) == Sorted(s) => Rising(s, st)
  <1>1. n \in Nat /\ \A k \in 1..n : s[k] \in S
    BY LenProperties, ElementOfSeq
  <1>2. start \in St /\ Fine(start)
    <2>1. start \in St
      BY <1>1, EmptySeq
    <2>2. start.out = <<>> /\ start.base - 1 = 0
      OBVIOUS
    <2>3. Net(start.out, P, Q) = 0 /\ Len(start.out) = 0
      BY <2>2, NetEmpty, EmptySeq
    <2>4. QED
      BY <2>1, <2>2, <2>3, PrefixSeq, NetEmpty
  <1> DEFINE Tab(g) == g = [i \in 0..n |-> IF i = 0 THEN start ELSE round(g[i - 1])]
  <1>3. FilterSorted(s) = (CHOOSE g : Tab(g))[n].out
    BY DEF FilterSorted, Iterate
  <1>4. ASSUME NEW k \in 1..n
        PROVE  /\ Net(Prefix(s, k), P, Q) = Net(Prefix(s, k - 1), P, Q) + Sign(s[k], P, Q)
               /\ Net(Prefix(s, k - 1), P, Q) \in Int
    BY PrefixStep
  <1>5. ASSUME NEW st \in St
        PROVE  /\ round(st) \in St
               /\ Fine(st) => Fine(round(st))
               /\ round(st).base > n \/ round(st).base > st.base
    <2>1. st.base \in 1..(n + 1) /\ st.out \in Seq(S) /\ Len(st.out) \in Nat
      BY LenProperties
    <2>2. PICK b : b = st.base
      OBVIOUS
    <2>3. b \in 1..(n + 1) /\ b \in Nat
      BY <2>1, <2>2, <1>1
    <2>4. CASE b > n
      <3>1. round(st) = st
        BY <2>2, <2>4 DEF FilterRound
      <3>2. QED
        BY <3>1, <2>2, <2>4
    <2>5. CASE b < n /\ Cancels(s[b], s[b + 1])
      <3>1. ~(b > n)
        BY <2>3, <2>5, <1>1
      <3>2. round(st) = [st EXCEPT !.base = @ + 2]
        BY <2>2, <2>5, <3>1 DEF FilterRound
      <3>3. round(st).base = b + 2 /\ round(st).out = st.out /\ round(st) \in St
        <4>1. b + 2 \in 1..(n + 1)
          BY <2>3, <2>5, <1>1
        <4> HIDE DEF n, round
        <4>2. QED
          BY <4>1, <2>2, <3>2
      <3>4. b \in 1..n /\ b + 1 \in 1..n /\ (b + 1) - 1 = b /\ (b + 2) - 1 = b + 1 /\ b - 1 \in 0..n
        BY <2>3, <2>5, <1>1
      <3>5. Sign(s[b], P, Q) + Sign(s[b + 1], P, Q) = 0
        <4>1. s[b] \in S /\ s[b + 1] \in S
          BY <3>4, <1>1
        <4>2. Annihilate(s[b], s[b + 1])
          BY <2>5, <4>1 DEF Cancels, Annihilate, AnyWrapped
        <4>3. QED
          BY <4>1, <4>2 DEF PairsCount
      <3>6. /\ Net(Prefix(s, b), P, Q) = Net(Prefix(s, b - 1), P, Q) + Sign(s[b], P, Q)
            /\ Net(Prefix(s, b + 1), P, Q) = Net(Prefix(s, b), P, Q) + Sign(s[b + 1], P, Q)
            /\ Net(Prefix(s, b - 1), P, Q) \in Int
        <4>1. Net(Prefix(s, b), P, Q) = Net(Prefix(s, b - 1), P, Q) + Sign(s[b], P, Q)
          BY <3>4, <1>4
        <4>2. PICK k \in 1..n : k = b + 1
          BY <3>4
        <4>3. Net(Prefix(s, k), P, Q) = Net(Prefix(s, k - 1), P, Q) + Sign(s[k], P, Q)
          BY <1>4
        <4>4. Net(Prefix(s, b - 1), P, Q) \in Int
          BY <3>4, <1>4
        <4>5. k - 1 = b
          BY <3>4, <4>2
        <4>6. QED
          BY <4>1, <4>2, <4>3, <4>4, <4>5
      <3>7. Net(Prefix(s, b + 1), P, Q) = Net(Prefix(s, b - 1), P, Q)
        <4>1. Sign(s[b], P, Q) \in Int /\ Sign(s[b + 1], P, Q) \in Int
          BY SignInt
        <4>2. QED
          BY <4>1, <3>5, <3>6
      <3>8. ASSUME Fine(st) PROVE Fine(round(st))
        <4>1. Net(st.out, P, Q) = Net(Prefix(s, b + 1), P, Q) /\ Len(st.out) <= b + 1
          BY <2>1, <2>2, <2>3, <3>7, <3>8
        <4>2. QED
          BY <3>3, <3>4, <4>1
      <3>9. QED
        BY <2>2, <2>3, <3>3, <3>8
    <2>6. CASE ~(b > n) /\ ~(b < n /\ Cancels(s[b], s[b + 1]))
      <3>1. b \in 1..n /\ b - 1 \in 0..n /\ (b + 1) - 1 = b /\ b + 1 \in 1..(n + 1)
        BY <2>3, <2>6, <1>1
      <3>2. PICK w : w = [s[b] EXCEPT !.stamp = 0]
        OBVIOUS
      <3>3. s[b] \in S /\ w \in S /\ Sign(w, P, Q) = Sign(s[b], P, Q) /\ ~s[b].del
        BY <3>1, <3>2, <1>1 DEF StampFree
      <3>4. round(st) = [base |-> b + 1, out |-> Append(st.out, w)]
        BY <2>2, <2>6, <3>2, <3>3 DEF FilterRound
      <3>5. Append(st.out, w) \in Seq(S) /\ Len(Append(st.out, w)) = Len(st.out) + 1
        BY <2>1, <3>3, AppendProperties
      <3>6. round(st).base = b + 1 /\ round(st).out = Append(st.out, w) /\ round(st) \in St
        BY <3>1, <3>4, <3>5
      <3>7. Net(Append(st.out, w), P, Q) = Net(st.out, P, Q) + Sign(w, P, Q)
        BY <2>1, <3>3, NetAppend
      <3>8. Net(Prefix(s, b), P, Q) = Net(Prefix(s, b - 1), P, Q) + Sign(s[b], P, Q)
        BY <3>1, <1>4
      <3>9. ASSUME Fine(st) PROVE Fine(round(st))
        <4>1. Net(Append(st.out, w), P, Q) = Net(Prefix(s, b), P, Q)
          BY <2>2, <3>3, <3>7, <3>8, <3>9
        <4>2. Len(Append(st.out, w)) <= b
          BY <2>1, <2>2, <2>3, <3>5, <3>9
        <4>3. QED
          BY <3>1, <3>6, <4>1, <4>2
      <3>10. QED
        BY <2>2, <2>3, <3>6, <3>9
    <2>7. QED
      BY <2>4, <2>5, <2>6
  <1>6. ASSUME NEW st \in St, Up(st) PROVE Up(round(st))
    <2>1. st.base \in 1..(n + 1) /\ st.out \in Seq(S)
      OBVIOUS
    <2>2. \A w \in S : ~w.del /\ [w EXCEPT !.stamp = 0] \in S
      BY DEF StampFree
    <2>3. QED
      BY <1>1, <1>6, <2>1, <2>2, FilterRoundSorts
  <1>7. Up(start)
    BY DEF Rising, Sorted
  <1> HIDE DEF start, round, Up
  <1>8. \E g : Tab(g)
    <2> DEFINE F == [i \in Nat |-> [x \in St |-> round(x)]]
    <2>1. F \in [Nat -> [St -> St]] /\ \A i \in Nat : \A x \in St : F[i][x] = round(x)
      BY <1>5
    <2> HIDE DEF F, St
    <2>2. HasTable(St, 0, n, start, F)
      BY <2>1, <1>1, <1>2, TableExists
    <2>3. PICK g \in [0..n -> St] :
            \A i \in 0..n : g[i] = IF i = 0 THEN start ELSE F[i][g[i - 1]]
      BY <2>2 DEF HasTable
    <2>4. ASSUME NEW i \in 0..n PROVE g[i] = IF i = 0 THEN start ELSE round(g[i - 1])
      <3>1. CASE i = 0
        BY <3>1, <2>3
      <3>2. CASE i # 0
        <4>1. i - 1 \in 0..n /\ i \in Nat
          BY <3>2, <1>1
        <4>2. PICK x \in St : x = g[i - 1]
          BY <4>1
        <4>3. F[i][x] = round(x)
          BY <4>1, <2>1
        <4> HIDE DEF n
        <4>4. QED
          BY <3>2, <2>3, <4>2, <4>3
      <3>3. QED
        BY <3>1, <3>2
    <2>5. Tab(g)
      BY <2>3, <2>4
    <2>6. QED
      BY <2>5
  <1>9. PICK f : Tab(f) /\ FilterSorted(s) = f[n].out
    BY <1>3, <1>8
  <1>10. \A i \in 0..n : f[i] = IF i = 0 THEN start ELSE round(f[i - 1])
    BY <1>9
  <1> DEFINE J == [i \in 0..n |-> {x \in St : Fine(x) /\ Up(x) /\ (x.base > n \/ x.base > i)}]
  <1>11. f[0] \in J[0]
    <2>1. 0 \in 0..n
      BY <1>1
    <2>2. f[0] = start
      BY <2>1, <1>10
    <2>3. start.base > 0
      BY DEF start
    <2> HIDE DEF Fine
    <2>4. QED
      BY <1>2, <1>7, <2>1, <2>2, <2>3
  <1>12. ASSUME NEW i \in 1..n, f[i - 1] \in J[i - 1] PROVE f[i] \in J[i]
    <2>1. i \in 0..n /\ i - 1 \in 0..n /\ i # 0
      BY <1>1
    <2>2. PICK x : x = f[i - 1]
      OBVIOUS
    <2> HIDE DEF Fine
    <2>3. x \in St /\ Fine(x) /\ Up(x) /\ (x.base > n \/ x.base > i - 1)
      BY <2>1, <2>2, <1>12
    <2>4. PICK y : y = round(x)
      OBVIOUS
    <2>5. f[i] = y
      BY <2>1, <2>2, <2>4, <1>10
    <2>6. y \in St /\ Fine(y) /\ Up(y) /\ (y.base > n \/ y.base > x.base)
      BY <2>3, <2>4, <1>5, <1>6
    <2>7. y.base > n \/ y.base > i
      <3>1. x.base \in Nat /\ y.base \in Nat /\ x.base <= n + 1
        BY <2>3, <2>6, <1>1
      <3>2. QED
        BY <3>1, <2>1, <2>3, <2>6, <1>1
    <2>8. QED
      BY <2>1, <2>5, <2>6, <2>7
  <1>13. f[n] \in J[n]
    <2> HIDE DEF J
    <2>1. QED
      BY <1>1, <1>11, <1>12, LoopInvariant
  <1>14. PICK x : x = f[n]
    OBVIOUS
  <1>15. x \in St /\ Fine(x) /\ Up(x) /\ x.base > n
    <2>1. n \in 0..n
      BY <1>1
    <2> HIDE DEF Fine
    <2>2. QED
      BY <2>1, <1>13, <1>14
  <1>16. x.base - 1 = n
    BY <1>1, <1>15
  <1>17. Net(x.out, P, Q) = Net(s, P, Q) /\ Len(x.out) <= Len(s) /\ x.out \in Seq(S)
    <2>1. Prefix(s, n) = s
      BY PrefixSeq
    <2>2. QED
      BY <2>1, <1>15, <1>16
  <1>18. Sorted(s) => Sorted(x.out)
    BY <1>15 DEF Up, Rising
  <1>19. QED
    BY <1>9, <1>14, <1>17, <1>18

\* Sorting keeps the net, the length and the entries.
LEMMA SortKeeps ==
  ASSUME NEW S, NEW s \in Seq(S), NEW p \in Bijection(DOMAIN s, DOMAIN s), NEW P, NEW Q,
         NEW t, t = [i \in DOMAIN s |-> s[p[i]]]
  PROVE  t \in Seq(S) /\ Len(t) = Len(s) /\ Net(t, P, Q) = Net(s, P, Q)
  <1>1. DOMAIN s = 1..Len(s) /\ Len(s) \in Nat /\ \A i \in 1..Len(s) : s[i] \in S
    BY LenProperties, ElementOfSeq
  <1>2. p \in [DOMAIN s -> DOMAIN s]
    BY DEF Bijection, Injection
  <1>3. t \in Seq(S) /\ Len(t) = Len(s)
    BY <1>1, <1>2
  <1>4. QED
    BY <1>3, NetPermuted

\* Every array that a view may become.
LEMMA ViewArrayKeeps ==
  ASSUME NEW S \in SUBSET AnyWrapped, \A w \in S : ~w.del, NEW view \in Seq(S),
         NEW P, NEW Q, PairsCount(S, P, Q, 0), StampFree(S, P, Q),
         NEW a \in SortedArrayFromBufferview(view)
  PROVE  a \in Seq(S) /\ Net(a, P, Q) = Net(view, P, Q) /\ Len(a) <= Len(view) /\ Sorted(a)
  <1>1. PICK p \in Bijection(DOMAIN view, DOMAIN view) :
          /\ a = FilterSorted([i \in DOMAIN view |-> view[p[i]]])
          /\ \A i, j \in DOMAIN view : i < j => ~WrappedLess(view[p[j]], view[p[i]])
    <2>1. PICK t \in Sorts(view, WrappedLess) : a = FilterSorted(t)
      BY DEF SortedArrayFromBufferview
    <2>2. PICK p \in Bijection(DOMAIN view, DOMAIN view) : t = [i \in DOMAIN view |-> view[p[i]]]
      BY <2>1 DEF Sorts
    <2>3. \A i, j \in DOMAIN view : i < j => ~WrappedLess(t[j], t[i])
      BY <2>1 DEF Sorts
    <2>4. \A i, j \in DOMAIN view : i < j => ~WrappedLess(view[p[j]], view[p[i]])
      BY <2>2, <2>3
    <2>5. QED
      BY <2>1, <2>2, <2>4
  <1>2. PICK t : t = [i \in DOMAIN view |-> view[p[i]]]
    OBVIOUS
  <1>3. t \in Seq(S) /\ Len(t) = Len(view) /\ Net(t, P, Q) = Net(view, P, Q)
    BY <1>2, SortKeeps
  <1>4. FilterSorted(t) \in Seq(S) /\ Net(FilterSorted(t), P, Q) = Net(t, P, Q)
        /\ Len(FilterSorted(t)) <= Len(t) /\ (Sorted(t) => Sorted(FilterSorted(t)))
    BY <1>3, FilterKeeps
  <1>5. Sorted(t)
    <2>1. ASSUME NEW i \in DOMAIN t, NEW j \in DOMAIN t, i < j PROVE ~ByRecord(t[j], t[i])
      <3>1. ~WrappedLess(t[j], t[i])
        BY <1>1, <1>2, <2>1
      <3>2. QED
        BY <3>1 DEF WrappedLess, ByRecord
    <2>2. QED
      BY <2>1 DEF Sorted
  <1>6. QED
    BY <1>1, <1>2, <1>3, <1>4, <1>5

-----------------------------------------------------------------------------
(***************************************************************************)
(* Pages.                                                                  *)
(***************************************************************************)

\* Quotient and remainder, and the only ones there are.
LEMMA DivMod ==
  ASSUME NEW k \in Int, NEW d \in Int, d > 0
  PROVE  /\ k \div d \in Int /\ k % d \in Int /\ 0 <= k % d /\ k % d < d
         /\ k = d * (k \div d) + (k % d)
  <1>1. k \div d \in Int /\ k % d \in Int /\ 0 <= k % d /\ k % d < d
    OBVIOUS
  <1>2. k = d * (k \div d) + (k % d)
    OBVIOUS
  <1>3. QED
    BY <1>1, <1>2

\* Multiples of d are at least d apart.
LEMMA Multiples ==
  ASSUME NEW d \in Int, d > 0, NEW q \in Int, NEW u \in Int, q < u
  PROVE  d * q \in Int /\ d * u \in Int /\ d * q + d <= d * u
  <1>1. PICK e \in Int : u = q + 1 + e /\ e >= 0
    <2>1. u - q - 1 \in Int /\ u = q + 1 + (u - q - 1) /\ u - q - 1 >= 0
      OBVIOUS
    <2>2. QED
      BY <2>1
  <1>2. d * e \in Int /\ d * e >= 0
    BY <1>1
  <1>3. d * (q + 1 + e) = d * q + d + d * e
    BY <1>1
  <1>4. QED
    BY <1>1, <1>2, <1>3

\* Quotient and remainder are determined by their equation.
LEMMA DivUnique ==
  ASSUME NEW k \in Int, NEW d \in Int, d > 0, NEW q \in Int, NEW r \in Int,
         k = d * q + r, 0 <= r, r < d
  PROVE  k \div d = q /\ k % d = r
  <1>1. PICK u \in Int : u = k \div d
    BY DivMod
  <1>2. PICK m \in Int : m = k % d
    BY DivMod
  <1>3. k = d * u + m /\ 0 <= m /\ m < d
    BY <1>1, <1>2, DivMod
  <1>4. CASE q < u
    <2>1. d * q \in Int /\ d * u \in Int /\ d * q + d <= d * u
      BY <1>4, Multiples
    <2>2. QED
      BY <2>1, <1>3
  <1>5. CASE u < q
    <2>1. d * q \in Int /\ d * u \in Int /\ d * u + d <= d * q
      BY <1>5, Multiples
    <2>2. QED
      BY <2>1, <1>3
  <1>6. CASE u = q
    BY <1>1, <1>2, <1>3, <1>6
  <1>7. QED
    BY <1>4, <1>5, <1>6

\* Pages for n records: enough of them, and none too many.
LEMMA CeilDivPages ==
  ASSUME NEW n \in Nat, NEW d \in Int, d > 0
  PROVE  /\ CeilDiv(n, d) \in Nat
         /\ \A p \in 1..CeilDiv(n, d) : (p - 1) * d \in Nat /\ (p - 1) * d < n
         /\ \A k \in 0..(n - 1) : k \div d \in Nat /\ k \div d + 1 \in 1..CeilDiv(n, d)
         /\ n <= CeilDiv(n, d) * d
  <1>1. PICK c \in Int : c = CeilDiv(n, d)
    BY DivMod DEF CeilDiv
  <1>2. PICK m \in Int : n + d - 1 = d * c + m /\ 0 <= m /\ m < d
    BY <1>1, DivMod DEF CeilDiv
  <1>3. d * c \in Int /\ c * d = d * c
    OBVIOUS
  <1>4. c >= 0
    <2>1. SUFFICES ASSUME c < 0 PROVE FALSE
      OBVIOUS
    <2>2. d * c + d <= d * 0
      BY <2>1, Multiples
    <2>3. QED
      BY <2>2, <1>2, <1>3
  <1>5. ASSUME NEW p \in 1..c PROVE (p - 1) * d \in Nat /\ (p - 1) * d < n
    <2>1. PICK e \in Nat : e = p - 1
      OBVIOUS
    <2>2. e < c /\ e \in Int
      BY <2>1
    <2>3. d * e \in Int /\ d * e + d <= d * c
      BY <2>2, Multiples
    <2>4. d * e >= 0 /\ (p - 1) * d = d * e
      BY <2>1
    <2>5. QED
      BY <2>3, <2>4, <1>2, <1>3
  <1>6. ASSUME NEW k \in 0..(n - 1) PROVE k \div d \in Nat /\ k \div d + 1 \in 1..c
    <2>1. PICK q \in Int : q = k \div d
      BY DivMod
    <2>2. PICK r \in Int : k = d * q + r /\ 0 <= r /\ r < d
      BY <2>1, DivMod
    <2>3. q >= 0
      <3>1. SUFFICES ASSUME q < 0 PROVE FALSE
        OBVIOUS
      <3>2. d * q \in Int /\ d * q + d <= d * 0
        BY <3>1, Multiples
      <3>3. QED
        BY <3>2, <2>2
    <2>4. q < c
      <3>1. SUFFICES ASSUME ~(q < c) PROVE FALSE
        OBVIOUS
      <3>2. CASE c < q
        <4>1. d * q \in Int /\ d * c + d <= d * q
          BY <3>2, Multiples
        <4>2. QED
          BY <4>1, <2>2, <1>2, <1>3
      <3>3. CASE c = q
        BY <3>3, <2>2, <1>2, <1>3
      <3>4. QED
        BY <3>1, <3>2, <3>3
    <2>5. QED
      BY <2>1, <2>3, <2>4
  <1>7. n <= c * d
    BY <1>2, <1>3
  <1>8. QED
    BY <1>1, <1>4, <1>5, <1>6, <1>7

\* Nodes have slots.
LEMMA FanoutInt ==
  LeafFanout \in Nat /\ LeafFanout > 0 /\ InternalFanout \in Nat /\ InternalFanout > 1
  BY FanoutAssumption

\* The records of data pages are found again, whatever pages come behind them.
LEMMA RecordsOfPages ==
  ASSUME NEW S, NEW s \in Seq(S), NEW file,
         \A p \in 1..Len(DataPages(s)) : file[p] = DataPages(s)[p]
  PROVE  RunRecords(Run(file, Len(s))) = s
  <1> DEFINE n == Len(s)
  <1> DEFINE pages == 1..CeilDiv(n, LeafFanout)
  <1>1. n \in Nat /\ DOMAIN s = 1..n
    BY LenProperties
  <1>2. LeafFanout \in Int /\ LeafFanout > 0
    BY FanoutInt
  <1>3. CeilDiv(n, LeafFanout) \in Nat
    BY <1>1, <1>2, CeilDivPages
  <1>4. Len(DataPages(s)) = CeilDiv(n, LeafFanout)
    BY <1>3 DEF DataPages
  <1>5. ASSUME NEW k \in 1..n PROVE RecordAt(file, k - 1) = s[k]
    <2>1. PICK j \in 0..(n - 1) : j = k - 1
      BY <1>1
    <2>2. PICK q : q = j \div LeafFanout
      OBVIOUS
    <2>3. PICK r : r = j % LeafFanout
      OBVIOUS
    <2>4. q \in Nat /\ q + 1 \in pages
      BY <2>2, <1>1, <1>2, CeilDivPages
    <2>5. r \in Int /\ 0 <= r /\ r < LeafFanout /\ j = LeafFanout * q + r
      BY <2>1, <2>2, <2>3, <1>1, <1>2, DivMod
    <2>6. r + 1 \in 1..LeafFanout /\ ((q + 1) - 1) * LeafFanout + (r + 1) = k
      <3>1. ((q + 1) - 1) * LeafFanout = LeafFanout * q
        BY <2>4, <1>2
      <3>2. QED
        BY <3>1, <2>1, <2>4, <2>5, <1>1, <1>2
    <2>7. RecordAt(file, j) = file[q + 1][r + 1]
      BY <2>2, <2>3 DEF RecordAt
    <2>8. file[q + 1] = DataPages(s)[q + 1]
      BY <2>4, <1>4
    <2>9. DataPages(s)[q + 1][r + 1] = s[((q + 1) - 1) * LeafFanout + (r + 1)]
      <3>1. ((q + 1) - 1) * LeafFanout + (r + 1) <= n
        BY <2>6, <1>1
      <3>2. QED
        BY <3>1, <2>4, <2>6 DEF DataPages
    <2>10. QED
      BY <2>1, <2>6, <2>7, <2>8, <2>9
  <1>6. RunRecords(Run(file, n)) = [k \in 1..n |-> RecordAt(file, k - 1)]
    BY DEF RunRecords, Run
  <1>7. s = [k \in 1..n |-> s[k]]
    BY <1>1
  <1>8. QED
    BY <1>5, <1>6, <1>7

-----------------------------------------------------------------------------
(***************************************************************************)
(* Internal nodes with keys in K, and what the loop over their levels has  *)
(* written behind the data pages.                                          *)
(***************************************************************************)
Entry(K) == [key : K, child : Nat]

Nodes(K) == {f \in [1..InternalFanout -> Entry(K)] : f[1].child # 0}

Files(pages, K) ==
  {[file |-> pages \o z[1], first |-> z[2]] : z \in Seq(Nodes(K)) \X (Nat \ {0})}

PageKeys(pages, K) == 0 \in K /\ \A c \in 1..Len(pages) : \A m \in Int : Key(pages[c][m].rec) \in K

\* The pages of a sequence that is put together from two.
LEMMA PagesOfFile ==
  ASSUME NEW U, NEW V, NEW pages \in Seq(U), NEW x \in Seq(V), NEW file, file = pages \o x
  PROVE  /\ Len(pages) \in Nat /\ Len(x) \in Nat /\ Len(file) = Len(pages) + Len(x)
         /\ \A c \in 1..Len(pages) : file[c] = pages[c]
         /\ \A c \in (Len(pages) + 1)..Len(file) : file[c] \in V
  <1>1. PICK W : W = U \cup V
    OBVIOUS
  <1>2. pages \in Seq(W) /\ x \in Seq(W)
    BY <1>1, SeqMonotonic
  <1>3. PICK l \in Nat : l = Len(pages)
    BY LenProperties
  <1>4. PICK k \in Nat : k = Len(x)
    BY LenProperties
  <1>5. Len(file) = l + k /\ \A c \in 1..(l + k) : file[c] = IF c <= l THEN pages[c] ELSE x[c - l]
    BY <1>2, <1>3, <1>4, ConcatProperties
  <1>6. ASSUME NEW c \in (l + 1)..(l + k) PROVE file[c] \in V
    <2>1. c - l \in 1..k /\ c \in 1..(l + k) /\ ~(c <= l)
      OBVIOUS
    <2>2. x[c - l] \in V
      BY <2>1, <1>4, ElementOfSeq
    <2>3. QED
      BY <2>1, <2>2, <1>5
  <1>7. ASSUME NEW c \in 1..l PROVE file[c] = pages[c]
    <2>1. c \in 1..(l + k) /\ c <= l
      OBVIOUS
    <2>2. QED
      BY <2>1, <1>5
  <1>8. QED
    BY <1>3, <1>4, <1>5, <1>6, <1>7

\* Nodes behind data pages are a file.
LEMMA FileOf ==
  ASSUME NEW pages, NEW K, NEW x \in Seq(Nodes(K)), NEW i \in Nat \ {0}
  PROVE  [file |-> pages \o x, first |-> i] \in Files(pages, K)
  <1>1. PICK z \in Seq(Nodes(K)) \X (Nat \ {0}) : z = <<x, i>>
    OBVIOUS
  <1>2. [file |-> pages \o z[1], first |-> z[2]] \in Files(pages, K)
    BY DEF Files
  <1>3. QED
    BY <1>1, <1>2

\* The number of children of a node names one of its entries.
LEMMA UsedEntry ==
  ASSUME NEW K, NEW f \in Nodes(K)
  PROVE  f[Cardinality({k \in 1..InternalFanout : f[k].child # 0})].key \in K
  <1> DEFINE used == {k \in 1..InternalFanout : f[k].child # 0}
  <1>1. InternalFanout \in Nat /\ InternalFanout > 1
    BY FanoutInt
  <1>2. f \in [1..InternalFanout -> Entry(K)] /\ f[1].child # 0
    BY DEF Nodes
  <1>3. used \subseteq 1..InternalFanout /\ 1 \in used
    BY <1>1, <1>2
  <1>4. IsFiniteSet(1..InternalFanout) /\ Cardinality(1..InternalFanout) = InternalFanout
    <2>1. 1 \in Int /\ InternalFanout \in Int /\ ~(1 > InternalFanout)
      BY <1>1
    <2>2. /\ IsFiniteSet(1..InternalFanout)
          /\ Cardinality(1..InternalFanout) =
               IF 1 > InternalFanout THEN 0 ELSE InternalFanout - 1 + 1
      BY <2>1, FS_Interval
    <2>3. QED
      BY <2>1, <2>2
  <1> HIDE DEF used
  <1>5. IsFiniteSet(used) /\ Cardinality(used) <= InternalFanout
    BY <1>3, <1>4, FS_Subset
  <1>6. Cardinality(used) \in Nat /\ Cardinality(used) # 0
    BY <1>3, <1>5, FS_CardinalityType, FS_EmptySet
  <1>7. Cardinality(used) \in 1..InternalFanout
    BY <1>1, <1>5, <1>6
  <1>8. f[Cardinality(used)] \in Entry(K)
    BY <1>2, <1>7
  <1>9. f[Cardinality(used)].key \in K
    BY <1>8 DEF Entry
  <1>10. QED
    BY <1>9 DEF used

\* The last key of a page is a key of a data page or of a node.
LEMMA LastKeyIn ==
  ASSUME NEW U, NEW pages \in Seq(U), NEW n \in Nat, Len(pages) = CeilDiv(n, LeafFanout),
         NEW K, PageKeys(pages, K), NEW x \in Seq(Nodes(K)), NEW file, file = pages \o x,
         NEW c \in 1..Len(file)
  PROVE  LastKey(file, c, n) \in K
  <1>1. PICK l \in Nat : l = Len(pages)
    BY LenProperties
  <1>2. CASE c <= l
    <2>1. PICK m : m = Min({LeafFanout, n - (c - 1) * LeafFanout})
      OBVIOUS
    <2>2. m \in Int
      <3>1. LeafFanout \in Int /\ c \in Int
        BY FanoutInt
      <3>2. PICK b : b = (c - 1) * LeafFanout
        OBVIOUS
      <3>3. b \in Int
        BY <3>1, <3>2
      <3>4. PICK a : a = n - b
        OBVIOUS
      <3>5. a \in Int
        BY <3>3, <3>4
      <3>6. \E z \in {LeafFanout, a} : \A y \in {LeafFanout, a} : z <= y
        BY <3>1, <3>5
      <3>7. Min({LeafFanout, a}) \in {LeafFanout, a}
        BY <3>6 DEF Min
      <3>8. m = Min({LeafFanout, a})
        BY <2>1, <3>2, <3>4
      <3>9. QED
        BY <3>1, <3>5, <3>7, <3>8
    <2>3. c \in 1..Len(pages)
      BY <1>1, <1>2
    <2>4. file[c] = pages[c]
      BY <2>3, PagesOfFile
    <2>5. Key(pages[c][m].rec) \in K
      BY <2>2, <2>3 DEF PageKeys
    <2>6. LastKey(file, c, n) = Key(file[c][m].rec)
      BY <1>1, <1>2, <2>1 DEF LastKey
    <2>7. QED
      BY <2>4, <2>5, <2>6
  <1>3. CASE ~(c <= l)
    <2>1. Len(file) \in Nat
      BY PagesOfFile
    <2>2. c \in (Len(pages) + 1)..Len(file)
      BY <1>1, <1>3, <2>1
    <2>3. PICK f : f = file[c]
      OBVIOUS
    <2>4. f \in Nodes(K)
      BY <2>2, <2>3, PagesOfFile
    <2>5. f[Cardinality({k \in 1..InternalFanout : f[k].child # 0})].key \in K
      BY <2>4, UsedEntry
    <2>6. LastKey(file, c, n) = f[Cardinality({k \in 1..InternalFanout : f[k].child # 0})].key
      BY <1>1, <1>3, <2>3 DEF LastKey
    <2>7. QED
      BY <2>5, <2>6
  <1>4. QED
    BY <1>2, <1>3

\* A level is a sequence of nodes.
LEMMA LevelRound ==
  ASSUME NEW U, NEW pages \in Seq(U), NEW n \in Nat, Len(pages) = CeilDiv(n, LeafFanout),
         NEW K, PageKeys(pages, K), NEW st \in Files(pages, K)
  PROVE  AddInternalLevel(st, n) \in Files(pages, K)
  <1>1. PICK x \in Seq(Nodes(K)), i \in Nat \ {0} : st = [file |-> pages \o x, first |-> i]
    BY DEF Files
  <1>2. PICK file : file = pages \o x
    OBVIOUS
  <1>3. PICK last \in Nat : last = Len(file)
    BY <1>2, PagesOfFile
  <1>4. InternalFanout \in Nat /\ InternalFanout > 1
    BY FanoutInt
  <1>5. CASE i >= last
    <2>1. st.first = i /\ st.file = file
      BY <1>1, <1>2
    <2>2. AddInternalLevel(st, n) = st
      BY <2>1, <1>3, <1>5 DEF AddInternalLevel
    <2>3. QED
      BY <2>2
  <1>6. CASE ~(i >= last)
    <2> DEFINE node(m) == [k \in 1..InternalFanout |->
                             LET c == i + (m - 1) * InternalFanout + k - 1
                             IN IF c <= last THEN [key |-> LastKey(file, c, n), child |-> c]
                                             ELSE NoChild]
    <2> DEFINE count == CeilDiv(last - i + 1, InternalFanout)
    <2> DEFINE new == [m \in 1..count |-> node(m)]
    <2>1. AddInternalLevel(st, n) = [file |-> file \o new, first |-> last + 1]
      <3>1. st.first = i /\ st.file = file
        BY <1>1, <1>2
      <3>2. QED
        BY <3>1, <1>3, <1>6 DEF AddInternalLevel
    <2>2. count \in Nat /\ \A m \in 1..count : (m - 1) * InternalFanout \in Nat
                                            /\ (m - 1) * InternalFanout < last - i + 1
      <3>1. PICK w \in Nat : w = last - i + 1
        BY <1>6
      <3>2. InternalFanout \in Int /\ InternalFanout > 0
        BY <1>4
      <3>3. count = CeilDiv(w, InternalFanout)
        BY <3>1
      <3> HIDE DEF count
      <3>4. count \in Nat /\ \A m \in 1..count : (m - 1) * InternalFanout \in Nat
                                              /\ (m - 1) * InternalFanout < w
        BY <3>2, <3>3, CeilDivPages
      <3>5. QED
        BY <3>1, <3>4
    <2> HIDE DEF count
    <2>3. ASSUME NEW m \in 1..count PROVE node(m) \in Nodes(K)
      <3>1. PICK b \in Nat : b = (m - 1) * InternalFanout
        BY <2>2
      <3>2. b < last - i + 1
        BY <2>2, <3>1
      <3>3. ASSUME NEW k \in 1..InternalFanout PROVE node(m)[k] \in Entry(K)
        <4>1. PICK c \in Nat : c = i + b + k - 1
          BY <1>4
        <4>2. node(m)[k] = IF c <= last THEN [key |-> LastKey(file, c, n), child |-> c]
                                        ELSE NoChild
          BY <3>1, <4>1
        <4> HIDE DEF node
        <4>3. CASE c <= last
          <5>1. c \in 1..Len(file)
            BY <1>3, <1>4, <4>1, <4>3
          <5>2. PICK z : z = LastKey(file, c, n)
            OBVIOUS
          <5>3. z \in K
            BY <5>1, <5>2, <1>2, LastKeyIn
          <5>4. node(m)[k] = [key |-> z, child |-> c]
            BY <4>2, <4>3, <5>2
          <5>5. [key |-> z, child |-> c] \in Entry(K)
            BY <5>3 DEF Entry
          <5>6. QED
            BY <5>4, <5>5
        <4>4. CASE ~(c <= last)
          <5>1. 0 \in K
            BY DEF PageKeys
          <5>2. NoChild \in Entry(K)
            BY <5>1 DEF NoChild, Entry
          <5>3. QED
            BY <4>2, <4>4, <5>2
        <4>5. QED
          BY <4>3, <4>4
      <3>4. node(m)[1].child # 0
        <4>1. 1 \in 1..InternalFanout
          BY <1>4
        <4>2. PICK c \in Nat : c = i + b + 1 - 1
          OBVIOUS
        <4>3. c <= last /\ c # 0
          BY <3>2, <4>2, <1>6
        <4>4. node(m)[1] = IF c <= last THEN [key |-> LastKey(file, c, n), child |-> c]
                                        ELSE NoChild
          BY <3>1, <4>1, <4>2
        <4>5. QED
          BY <4>3, <4>4
      <3>5. node(m) \in [1..InternalFanout -> Entry(K)]
        BY <3>3
      <3>6. QED
        BY <3>4, <3>5 DEF Nodes
    <2>4. new \in Seq(Nodes(K))
      <3>1. PICK N : N = Nodes(K)
        OBVIOUS
      <3>2. count \in Nat /\ \A m \in 1..count : node(m) \in N
        BY <2>2, <2>3, <3>1
      <3> HIDE DEF node
      <3>3. new \in [1..count -> N]
        BY <3>2
      <3>4. QED
        BY <3>1, <3>2, <3>3, SeqDef
    <2> HIDE DEF new
    <2>5. file \o new = pages \o (x \o new) /\ x \o new \in Seq(Nodes(K))
      <3>1. PICK W : W = U \cup Nodes(K)
        OBVIOUS
      <3>2. pages \in Seq(W) /\ x \in Seq(W) /\ new \in Seq(W)
        BY <2>4, <3>1, SeqMonotonic
      <3>3. (pages \o x) \o new = pages \o (x \o new)
        BY ONLY <3>2, ConcatAssociative
      <3>4. QED
        BY <3>3, <2>4, <1>2, ConcatProperties
    <2>6. PICK y \in Seq(Nodes(K)) : y = x \o new
      BY <2>5
    <2>7. PICK j \in Nat \ {0} : j = last + 1
      OBVIOUS
    <2>8. AddInternalLevel(st, n) = [file |-> pages \o y, first |-> j]
      BY <2>1, <2>5, <2>6, <2>7
    <2>9. QED
      BY <2>8, FileOf
  <1>7. QED
    BY <1>5, <1>6

\* The files of the rounds of build_internal_levels, which begin with the data pages.
LevelFiles(pages, n, l, K, f) ==
  /\ f[0] = [file |-> pages, first |-> 1]
  /\ \A i \in 1..l : f[i] = AddInternalLevel(f[i - 1], n)
  /\ \A i \in 0..l : f[i] \in Files(pages, K)

\* The loop adds nodes to the data pages.
LEMMA LevelsLoop ==
  ASSUME NEW U, NEW pages \in Seq(U), NEW n \in Nat, Len(pages) = CeilDiv(n, LeafFanout)
  PROVE  \E K, f : /\ LevelFiles(pages, n, Len(pages), K, f)
                   /\ AddInternalLevels(pages, n) = f[Len(pages)].file
  <1>1. PICK l \in Nat : l = Len(pages)
    BY LenProperties
  <1>2. PICK K : PageKeys(pages, K)
    <2>1. PICK K : K = {Key(pages[z[1]][z[2]].rec) : z \in (1..Len(pages)) \X Int} \cup {0}
      OBVIOUS
    <2>2. ASSUME NEW c \in 1..Len(pages), NEW m \in Int PROVE Key(pages[c][m].rec) \in K
      <3>1. PICK z \in (1..Len(pages)) \X Int : z = <<c, m>>
        OBVIOUS
      <3>2. Key(pages[z[1]][z[2]].rec) \in K
        BY <2>1
      <3>3. QED
        BY <3>1, <3>2
    <2>3. PageKeys(pages, K)
      BY <2>1, <2>2 DEF PageKeys
    <2>4. QED
      BY <2>3
  <1>3. PICK St : St = Files(pages, K)
    OBVIOUS
  <1>4. PICK start : start = [file |-> pages, first |-> 1]
    OBVIOUS
  <1>5. start \in St
    <2>1. PICK x \in Seq(Nodes(K)) : x = <<>>
      BY EmptySeq
    <2>2. pages \o x = pages
      BY <2>1, ConcatEmptySeq
    <2>3. PICK i \in Nat \ {0} : i = 1
      OBVIOUS
    <2>4. start = [file |-> pages \o x, first |-> i]
      BY <1>4, <2>2, <2>3
    <2>5. QED
      BY <1>3, <2>4, FileOf
  <1>6. ASSUME NEW st \in St PROVE AddInternalLevel(st, n) \in St
    <2>1. st \in Files(pages, K)
      BY <1>3
    <2>2. AddInternalLevel(st, n) \in Files(pages, K)
      BY <1>2, <2>1, LevelRound
    <2>3. QED
      BY <1>3, <2>2
  <1> DEFINE Tab(g) == g = [i \in 0..l |-> IF i = 0 THEN start ELSE AddInternalLevel(g[i - 1], n)]
  <1>7. AddInternalLevels(pages, n) = (CHOOSE g : Tab(g))[l].file
    BY <1>1, <1>4 DEF AddInternalLevels, Iterate
  <1>8. PICK g \in [0..l -> St] : Tab(g)
    <2> DEFINE F == [i \in Nat |-> [x \in St |-> AddInternalLevel(x, n)]]
    <2>1. F \in [Nat -> [St -> St]] /\ \A i \in Nat : \A x \in St : F[i][x] = AddInternalLevel(x, n)
      BY <1>6
    <2> HIDE DEF F
    <2>2. HasTable(St, 0, l, start, F)
      BY <2>1, <1>5, TableExists
    <2>3. PICK g \in [0..l -> St] :
            \A i \in 0..l : g[i] = IF i = 0 THEN start ELSE F[i][g[i - 1]]
      BY <2>2 DEF HasTable
    <2>4. ASSUME NEW i \in 0..l PROVE g[i] = IF i = 0 THEN start ELSE AddInternalLevel(g[i - 1], n)
      <3>1. CASE i = 0
        BY <3>1, <2>3
      <3>2. CASE i # 0
        <4>1. i - 1 \in 0..l /\ i \in Nat
          BY <3>2
        <4>2. PICK x \in St : x = g[i - 1]
          BY <4>1
        <4>3. F[i][x] = AddInternalLevel(x, n)
          BY <4>1, <2>1
        <4>4. QED
          BY <3>2, <2>3, <4>2, <4>3
      <3>3. QED
        BY <3>1, <3>2
    <2>5. Tab(g)
      BY <2>4
    <2>6. QED
      BY <2>5
  <1>9. PICK f : Tab(f) /\ AddInternalLevels(pages, n) = f[l].file
    BY <1>7, <1>8
  <1>10. \A i \in 0..l : f[i] = IF i = 0 THEN start ELSE AddInternalLevel(f[i - 1], n)
    BY <1>9
  <1>11. \A i \in 0..l : f[i] \in St
    <2> DEFINE T == {i \in Nat : f[i] \in St}
    <2>1. 0 \in 0..l
      OBVIOUS
    <2>2. 0 \in T
      BY <2>1, <1>5, <1>10
    <2>3. ASSUME NEW i \in (0 + 1)..l, i - 1 \in T PROVE i \in T
      <3>1. i \in 0..l /\ i # 0 /\ i \in Nat
        OBVIOUS
      <3>2. QED
        BY <3>1, <2>3, <1>6, <1>10
    <2> HIDE DEF T
    <2>4. \A i \in 0..l : i \in T
      BY <2>2, <2>3, IndexByStep
    <2>5. QED
      BY <2>4 DEF T
  <1>12. f[0] = start /\ \A i \in 1..l : f[i] = AddInternalLevel(f[i - 1], n)
    <2>1. 0 \in 0..l /\ \A i \in 1..l : i \in 0..l /\ i # 0
      OBVIOUS
    <2>2. QED
      BY <1>10, <2>1
  <1>13. LevelFiles(pages, n, Len(pages), K, f)
    BY <1>1, <1>3, <1>4, <1>11, <1>12 DEF LevelFiles
  <1>14. QED
    BY <1>1, <1>9, <1>13

\* The internal nodes come behind the data pages.
LEMMA LevelsBehindPages ==
  ASSUME NEW U, NEW pages \in Seq(U), NEW n \in Nat, Len(pages) = CeilDiv(n, LeafFanout)
  PROVE  \A p \in 1..Len(pages) : AddInternalLevels(pages, n)[p] = pages[p]
  <1>1. PICK l \in Nat : l = Len(pages)
    BY LenProperties
  <1>2. PICK K, f : LevelFiles(pages, n, l, K, f) /\ AddInternalLevels(pages, n) = f[l].file
    BY <1>1, LevelsLoop
  <1>3. l \in 0..l
    OBVIOUS
  <1>4. f[l] \in Files(pages, K)
    BY <1>2, <1>3 DEF LevelFiles
  <1>5. PICK z \in Seq(Nodes(K)) \X (Nat \ {0}) : f[l] = [file |-> pages \o z[1], first |-> z[2]]
    BY <1>4 DEF Files
  <1>6. z[1] \in Seq(Nodes(K)) /\ f[l].file = pages \o z[1]
    BY <1>5
  <1>7. QED
    BY <1>2, <1>6, PagesOfFile

-----------------------------------------------------------------------------
(***************************************************************************)
(* The search tree of a file.  Its nodes come behind d data pages; node p  *)
(* has the pages from a to a + m - 1 as its children.                      *)
(***************************************************************************)
Node(file, n, p, a, m) ==
  /\ m \in 1..InternalFanout /\ a \in Nat \ {0} /\ a + m <= p
  /\ \A k \in 1..m : file[p][k] = [key |-> LastKey(file, a + k - 1, n), child |-> a + k - 1]
  /\ \A k \in (m + 1)..InternalFanout : file[p][k] = NoChild

\* The entries of the children.
LEMMA NodeEntry ==
  ASSUME NEW file, NEW n, NEW p, NEW a, NEW m, Node(file, n, p, a, m), NEW k \in 1..m
  PROVE  file[p][k].key = LastKey(file, a + k - 1, n) /\ file[p][k].child = a + k - 1
  <1>1. PICK z : z = LastKey(file, a + k - 1, n)
    OBVIOUS
  <1>2. PICK e : e = file[p][k]
    OBVIOUS
  <1>3. PICK c : c = a + k - 1
    OBVIOUS
  <1>4. file[p][k] = [key |-> LastKey(file, a + k - 1, n), child |-> a + k - 1]
    BY DEF Node
  <1>5. e = [key |-> z, child |-> c]
    BY <1>1, <1>2, <1>3, <1>4
  <1>6. e.key = z /\ e.child = c
    BY <1>5
  <1>7. QED
    BY <1>1, <1>2, <1>3, <1>6

\* B has pages at the beginning of their level, E pages at the end of theirs.
Tree(file, last, d, n, A, M, B, E) ==
  /\ \A p \in (d + 1)..last : Node(file, n, p, A[p], M[p])
  /\ \A p \in (d + 1)..(last - 1) : A[p + 1] = A[p] + M[p]
  /\ \A p \in (d + 1)..last : (p \in B => A[p] \in B) /\ (p \in E => A[p] + M[p] - 1 \in E)
  /\ \A p \in 1..d : (p \in B => p = 1) /\ (p \in E => p = d)
  /\ last > d => d + 1 \in B

\* The children of a node are its first entries.
LEMMA NodeUsed ==
  ASSUME NEW file, NEW n, NEW p \in Nat, NEW a, NEW m, Node(file, n, p, a, m)
  PROVE  /\ {k \in 1..InternalFanout : file[p][k].child # 0} = 1..m
         /\ Cardinality({k \in 1..InternalFanout : file[p][k].child # 0}) = m
  <1>1. InternalFanout \in Nat /\ m \in Nat /\ 1 <= m /\ m <= InternalFanout /\ a \in Nat /\ a # 0
    BY FanoutInt DEF Node
  <1>2. \A k \in 1..m : file[p][k].child = a + k - 1
    BY NodeEntry
  <1>3. \A k \in (m + 1)..InternalFanout : file[p][k].child = 0
    BY DEF Node, NoChild
  <1>4. {k \in 1..InternalFanout : file[p][k].child # 0} = 1..m
    <2>1. ASSUME NEW k \in 1..InternalFanout PROVE file[p][k].child # 0 <=> k \in 1..m
      <3>1. CASE k \in 1..m
        BY <1>1, <1>2, <3>1
      <3>2. CASE k \in (m + 1)..InternalFanout
        BY <1>1, <1>3, <3>2
      <3>3. QED
        BY <1>1, <3>1, <3>2
    <2>2. 1..m \subseteq 1..InternalFanout
      BY <1>1
    <2>3. QED
      BY <2>1, <2>2
  <1>5. Cardinality(1..m) = m
    <2>1. 1 \in Int /\ m \in Int /\ ~(1 > m) /\ m - 1 + 1 = m
      BY <1>1
    <2>2. Cardinality(1..m) = IF 1 > m THEN 0 ELSE m - 1 + 1
      BY <2>1, FS_Interval
    <2>3. QED
      BY <2>1, <2>2
  <1>6. QED
    BY <1>4, <1>5

\* The last key of a node is that of its last child.
LEMMA NodeLastKey ==
  ASSUME NEW file, NEW n, NEW p \in Nat, NEW a, NEW m, Node(file, n, p, a, m),
         ~(p <= CeilDiv(n, LeafFanout))
  PROVE  LastKey(file, p, n) = LastKey(file, a + m - 1, n)
  <1>1. PICK used : used = {k \in 1..InternalFanout : file[p][k].child # 0}
    OBVIOUS
  <1>2. Cardinality(used) = m
    BY <1>1, NodeUsed
  <1>3. LastKey(file, p, n) = file[p][Cardinality(used)].key
    BY <1>1 DEF LastKey
  <1>4. m \in 1..m
    BY DEF Node
  <1>5. file[p][m] = [key |-> LastKey(file, a + m - 1, n), child |-> a + m - 1]
    BY <1>4 DEF Node
  <1>6. QED
    BY <1>2, <1>3, <1>5

\* The page a search is right to be on: what is before it on its level is smaller, and
\* it ends its level or reaches the key.
Right(file, n, B, E, key, p) ==
  /\ p \in B \/ ~(key <= LastKey(file, p - 1, n))
  /\ p \in E \/ key <= LastKey(file, p, n)

\* The child that a search enters.
NextPage(file, key, p) ==
  LET used == {k \in 1..InternalFanout : file[p][k].child # 0}
      hits == {k \in used : key <= file[p][k].key}
  IN file[p][IF hits = {} THEN Cardinality(used) ELSE Min(hits)].child

\* From a node a search goes on to a page that it is right to be on.
LEMMA NextPageRight ==
  ASSUME NEW file, NEW last \in Nat, NEW n, NEW d \in Nat, d = CeilDiv(n, LeafFanout),
         NEW A, NEW M, NEW B, NEW E, Tree(file, last, d, n, A, M, B, E),
         NEW key, NEW p \in (d + 1)..last, Right(file, n, B, E, key, p)
  PROVE  /\ NextPage(file, key, p) \in 1..(p - 1)
         /\ Right(file, n, B, E, key, NextPage(file, key, p))
  <1>1. PICK a : a = A[p]
    OBVIOUS
  <1>2. PICK m : m = M[p]
    OBVIOUS
  <1>3. p \in Nat /\ ~(p <= d) /\ Node(file, n, p, a, m)
    BY <1>1, <1>2 DEF Tree
  <1>4. m \in Nat /\ 1 <= m /\ m <= InternalFanout /\ InternalFanout \in Nat
        /\ a \in Nat /\ 1 <= a /\ a + m <= p
    BY <1>3, FanoutInt DEF Node
  <1>5. \A k \in 1..m : /\ file[p][k].key = LastKey(file, a + k - 1, n)
                        /\ file[p][k].child = a + k - 1
    BY <1>3, NodeEntry
  <1>6. PICK hits : hits = {k \in 1..m : key <= file[p][k].key}
    OBVIOUS
  <1>7. NextPage(file, key, p) = file[p][IF hits = {} THEN m ELSE Min(hits)].child
    BY <1>3, <1>6, NodeUsed DEF NextPage
  <1>8. LastKey(file, p, n) = LastKey(file, a + m - 1, n)
    BY <1>3, NodeLastKey
  <1>9. p \in B => a \in B
    BY <1>1 DEF Tree
  <1>10. p \in E => a + m - 1 \in E
    BY <1>1, <1>2 DEF Tree
  <1>11. p \in B \/ ~(key <= LastKey(file, a - 1, n))
    <2>1. CASE p \in B
      BY <2>1
    <2>2. CASE p \notin B
      <3>1. ~(key <= LastKey(file, p - 1, n))
        BY <2>2 DEF Right
      <3>2. p # d + 1
        <4>1. last > d
          BY <1>3
        <4>2. QED
          BY <2>2, <4>1 DEF Tree
      <3>3. PICK q \in (d + 1)..(last - 1) : q = p - 1
        BY <3>2
      <3>4. Node(file, n, q, A[q], M[q]) /\ A[q + 1] = A[q] + M[q] /\ q \in Nat
            /\ ~(q <= d) /\ q + 1 = p
        BY <3>3 DEF Tree
      <3>5. LastKey(file, q, n) = LastKey(file, A[q] + M[q] - 1, n)
        BY <3>4, NodeLastKey
      <3>6. a - 1 = A[q] + M[q] - 1
        <4>1. PICK z : z = A[q] + M[q]
          OBVIOUS
        <4>2. a = z
          BY <1>1, <3>4, <4>1
        <4>3. A[q] \in Int /\ M[q] \in Int
          BY <3>4 DEF Node
        <4>4. QED
          BY <4>1, <4>2, <4>3
      <3>7. ~(key <= LastKey(file, q, n))
        BY <3>1, <3>3
      <3>8. QED
        BY <3>5, <3>6, <3>7
    <2>3. QED
      BY <2>1, <2>2
  <1>12. CASE hits = {}
    <2>1. PICK c : c = a + m - 1
      OBVIOUS
    <2>2. NextPage(file, key, p) = c
      BY <1>4, <1>5, <1>7, <1>12, <2>1
    <2>3. ~(key <= LastKey(file, c, n))
      BY <1>4, <1>5, <1>6, <1>12, <2>1
    <2>4. c \in E
      BY <1>8, <1>10, <2>1, <2>3 DEF Right
    <2>5. c \in B \/ ~(key <= LastKey(file, c - 1, n))
      <3>1. CASE m = 1
        <4>1. c = a
          BY <1>4, <2>1, <3>1
        <4>2. QED
          BY <4>1, <1>9, <1>11
      <3>2. CASE m # 1
        <4>1. PICK k \in 1..m : k = m - 1
          BY <1>4, <3>2
        <4>2. ~(key <= LastKey(file, a + k - 1, n))
          BY <1>5, <1>6, <1>12
        <4>3. c - 1 = a + k - 1
          BY <1>4, <2>1, <4>1
        <4>4. QED
          BY <4>2, <4>3
      <3>3. QED
        BY <3>1, <3>2
    <2>6. c \in 1..(p - 1)
      BY <1>4, <2>1
    <2>7. QED
      BY <2>2, <2>4, <2>5, <2>6 DEF Right
  <1>13. CASE hits # {}
    <2>1. PICK k : k = Min(hits)
      OBVIOUS
    <2>2. k \in hits /\ \A j \in hits : k <= j
      <3>1. hits \subseteq Nat
        BY <1>4, <1>6
      <3>2. \E x \in hits : \A y \in hits : x <= y
        BY <1>13, <3>1, LeastNat
      <3>3. QED
        BY <2>1, <3>2 DEF Min
    <2>3. k \in 1..m /\ key <= LastKey(file, a + k - 1, n)
      BY <1>5, <1>6, <2>2
    <2>4. PICK c : c = a + k - 1
      OBVIOUS
    <2>5. NextPage(file, key, p) = c
      BY <1>5, <1>7, <1>13, <2>1, <2>3, <2>4
    <2>6. c \in B \/ ~(key <= LastKey(file, c - 1, n))
      <3>1. CASE k = 1
        <4>1. c = a
          BY <1>4, <2>4, <3>1
        <4>2. QED
          BY <4>1, <1>9, <1>11
      <3>2. CASE k # 1
        <4>1. PICK j \in 1..m : j = k - 1
          BY <1>4, <2>3, <3>2
        <4>2. j \notin hits
          BY <2>2, <2>3, <4>1
        <4>3. ~(key <= LastKey(file, a + j - 1, n))
          BY <1>5, <1>6, <4>2
        <4>4. c - 1 = a + j - 1
          BY <1>4, <2>3, <2>4, <4>1
        <4>5. QED
          BY <4>3, <4>4
      <3>3. QED
        BY <3>1, <3>2
    <2>7. c \in 1..(p - 1)
      BY <1>4, <2>3, <2>4
    <2>8. QED
      BY <2>3, <2>4, <2>5, <2>6, <2>7 DEF Right
  <1>14. QED
    BY <1>12, <1>13

\* A search ends on a data page that it is right to be on.
LEMMA DescendRight ==
  ASSUME NEW s, NEW last \in Nat, last = Len(s.file), s.root_page = last,
         NEW d \in 1..last, d = CeilDiv(s.reccnt, LeafFanout), s.last_data_page = d,
         NEW A, NEW M, NEW B, NEW E, Tree(s.file, last, d, s.reccnt, A, M, B, E),
         last \in B, last \in E, NEW key
  PROVE  /\ Descend(s, key) \in 1..d
         /\ Right(s.file, s.reccnt, B, E, key, Descend(s, key))
  <1> DEFINE next(page) == IF IsLeaf(s, page) THEN page ELSE NextPage(s.file, key, page)
  <1> DEFINE Tab(g) == g = [i \in 0..last |-> IF i = 0 THEN last ELSE next(g[i - 1])]
  <1> DEFINE St == {p \in 1..last : Right(s.file, s.reccnt, B, E, key, p)}
  <1>1. ASSUME NEW p \in St
        PROVE  /\ next(p) \in St
               /\ p \in 1..d => next(p) = p
               /\ p \notin 1..d => next(p) < p
    <2>1. p \in Nat /\ p \in 1..last /\ Right(s.file, s.reccnt, B, E, key, p)
      OBVIOUS
    <2>2. CASE p \in 1..d
      <3>1. next(p) = p
        BY <2>2 DEF IsLeaf
      <3>2. QED
        BY <2>2, <3>1
    <2>3. CASE p \notin 1..d
      <3>1. p \in (d + 1)..last
        BY <2>1, <2>3
      <3>2. PICK q : q = NextPage(s.file, key, p)
        OBVIOUS
      <3>3. next(p) = q
        BY <2>3, <3>2 DEF IsLeaf
      <3>4. q \in 1..(p - 1) /\ Right(s.file, s.reccnt, B, E, key, q)
        BY <2>1, <3>1, <3>2, NextPageRight
      <3>5. QED
        BY <2>1, <2>3, <3>3, <3>4
    <2>4. QED
      BY <2>2, <2>3
  <1>2. last \in St
    BY DEF Right
  <1>3. Descend(s, key) = (CHOOSE g : Tab(g))[last]
    BY DEF Descend, Iterate, NextPage
  <1> HIDE DEF next
  <1>4. PICK g \in [0..last -> St] : Tab(g)
    <2> DEFINE F == [i \in Nat |-> [x \in St |-> next(x)]]
    <2>1. F \in [Nat -> [St -> St]] /\ \A i \in Nat : \A x \in St : F[i][x] = next(x)
      BY <1>1
    <2> HIDE DEF F, St
    <2>2. HasTable(St, 0, last, last, F)
      BY <2>1, <1>2, TableExists
    <2>3. PICK g \in [0..last -> St] :
            \A i \in 0..last : g[i] = IF i = 0 THEN last ELSE F[i][g[i - 1]]
      BY <2>2 DEF HasTable
    <2>4. ASSUME NEW i \in 0..last PROVE g[i] = IF i = 0 THEN last ELSE next(g[i - 1])
      <3>1. CASE i = 0
        BY <3>1, <2>3
      <3>2. CASE i # 0
        <4>1. i - 1 \in 0..last /\ i \in Nat
          BY <3>2
        <4>2. PICK x \in St : x = g[i - 1]
          BY <4>1
        <4>3. F[i][x] = next(x)
          BY <4>1, <2>1
        <4>4. QED
          BY <3>2, <2>3, <4>2, <4>3
      <3>3. QED
        BY <3>1, <3>2
    <2>5. Tab(g)
      BY <2>4
    <2>6. QED
      BY <2>5
  <1>5. PICK f : Tab(f) /\ Descend(s, key) = f[last]
    BY <1>3, <1>4
  <1>6. \A i \in 0..last : f[i] = IF i = 0 THEN last ELSE next(f[i - 1])
    BY <1>5
  <1> DEFINE T == {i \in Nat : f[i] \in St /\ (f[i] \in 1..d \/ f[i] <= last - i)}
  <1>7. 0 \in T
    <2>1. f[0] = last
      BY <1>6
    <2> HIDE DEF St
    <2>2. QED
      BY <2>1, <1>2
  <1>8. ASSUME NEW i \in 1..last, i - 1 \in T PROVE i \in T
    <2>1. PICK x : x = f[i - 1]
      OBVIOUS
    <2>2. x \in St /\ (x \in 1..d \/ x <= last - (i - 1))
      BY <1>8, <2>1
    <2>3. x \in Nat
      BY <2>2
    <2>4. f[i] = next(x)
      BY <1>6, <2>1
    <2>5. next(x) \in St
      BY <1>1, <2>2
    <2>6. next(x) \in Nat
      BY <2>5
    <2> HIDE DEF St
    <2>7. CASE x \in 1..d
      <3>1. next(x) = x
        BY <1>1, <2>2, <2>7
      <3>2. QED
        BY <2>4, <2>5, <2>7, <3>1
    <2>8. CASE x \notin 1..d
      <3>1. next(x) < x /\ x <= last - (i - 1)
        BY <1>1, <2>2, <2>8
      <3>2. next(x) <= last - i
        BY <2>3, <2>6, <3>1
      <3>3. QED
        BY <2>4, <2>5, <3>2
    <2>9. QED
      BY <2>7, <2>8
  <1> HIDE DEF T
  <1>9. last \in T
    BY <1>7, <1>8, NatByStep
  <1>10. f[last] \in St /\ f[last] \in 1..d
    <2>1. f[last] \in St /\ (f[last] \in 1..d \/ f[last] <= last - last)
      BY <1>9 DEF T
    <2>2. f[last] \in Nat /\ f[last] >= 1
      BY <2>1
    <2>3. QED
      BY <2>1, <2>2
  <1>11. QED
    BY <1>5, <1>10

\* Page c as an entry of a node above it.
ChildEntry(file, last, n, c) ==
  IF c <= last THEN [key |-> LastKey(file, c, n), child |-> c] ELSE NoChild

\* A level of count nodes above pages i to last.
LevelAdded(file, last, n, i, count, next) ==
  /\ count = CeilDiv(last - i + 1, InternalFanout) /\ Len(next) = last + count
  /\ \A c \in 1..last : next[c] = file[c]
  /\ \A m \in 1..count : \A k \in 1..InternalFanout :
       next[last + m][k] = ChildEntry(file, last, n, i + (m - 1) * InternalFanout + k - 1)

\* What a round of build_internal_levels writes.
LEMMA LevelShape ==
  ASSUME NEW W, NEW file \in Seq(W), NEW i \in Nat, NEW n, NEW last \in Nat, last = Len(file),
         NEW st, st = [file |-> file, first |-> i], i < last
  PROVE  \E count, next :
           /\ AddInternalLevel(st, n) = [file |-> next, first |-> last + 1]
           /\ LevelAdded(file, last, n, i, count, next)
  <1> DEFINE node(m) == [k \in 1..InternalFanout |->
                           LET c == i + (m - 1) * InternalFanout + k - 1
                           IN IF c <= last THEN [key |-> LastKey(file, c, n), child |-> c]
                                           ELSE NoChild]
  <1> DEFINE count == CeilDiv(last - i + 1, InternalFanout)
  <1> DEFINE new == [m \in 1..count |-> node(m)]
  <1>1. AddInternalLevel(st, n) = [file |-> file \o new, first |-> last + 1]
    <2>1. st.first = i /\ st.file = file /\ ~(i >= last)
      OBVIOUS
    <2>2. QED
      BY <2>1 DEF AddInternalLevel
  <1>2. count \in Nat
    <2>1. PICK w \in Nat : w = last - i + 1
      OBVIOUS
    <2>2. count = CeilDiv(w, InternalFanout)
      BY <2>1
    <2> HIDE DEF count
    <2>3. QED
      BY <2>2, FanoutInt, CeilDivPages
  <1> HIDE DEF count
  <1>3. PICK V : V = {node(m) : m \in 1..count}
    OBVIOUS
  <1>4. ASSUME NEW m \in 1..count, NEW k \in 1..InternalFanout
        PROVE  node(m)[k] = ChildEntry(file, last, n, i + (m - 1) * InternalFanout + k - 1)
    BY DEF ChildEntry
  <1> HIDE DEF node
  <1>5. new \in [1..count -> V]
    BY <1>3
  <1>6. \A m \in 1..count : new[m] = node(m)
    OBVIOUS
  <1>7. new \in Seq(V)
    BY <1>2, <1>5, SeqDef
  <1>8. Len(new) = count
    BY <1>2, <1>5, <1>7, LenProperties
  <1> HIDE DEF new
  <1>9. PICK X : X = W \cup V
    OBVIOUS
  <1>10. file \in Seq(X) /\ new \in Seq(X)
    BY <1>7, <1>9, SeqMonotonic
  <1>11. PICK next : next = file \o new
    OBVIOUS
  <1>12. Len(next) = last + count
         /\ \A c \in 1..(last + count) : next[c] = IF c <= last THEN file[c] ELSE new[c - last]
    BY <1>8, <1>10, <1>11, ConcatProperties
  <1>13. \A c \in 1..last : next[c] = file[c]
    BY <1>2, <1>12
  <1>14. ASSUME NEW m \in 1..count PROVE next[last + m] = node(m)
    <2>1. last + m \in 1..(last + count) /\ ~(last + m <= last) /\ (last + m) - last = m
      BY <1>2
    <2>2. QED
      BY <1>6, <1>12, <2>1
  <1>15. \A m \in 1..count : \A k \in 1..InternalFanout :
           next[last + m][k] = ChildEntry(file, last, n, i + (m - 1) * InternalFanout + k - 1)
    BY <1>4, <1>14
  <1>16. AddInternalLevel(st, n) = [file |-> next, first |-> last + 1]
         /\ count = CeilDiv(last - i + 1, InternalFanout)
    BY <1>1, <1>11 DEF count
  <1>17. PICK r \in Nat : r = count
    BY <1>2
  <1>18. AddInternalLevel(st, n) = [file |-> next, first |-> last + 1]
    BY <1>16
  <1>19. LevelAdded(file, last, n, i, r, next)
    BY <1>12, <1>13, <1>15, <1>16, <1>17 DEF LevelAdded
  <1>20. QED
    BY <1>18, <1>19

\* The levels that were added so far: the top one goes from page i to the last page, and
\* with every round it is shorter until it has one page.
Grown(file, d, n, i, rounds) ==
  \E A, M, B, E :
    /\ Tree(file, Len(file), d, n, A, M, B, E)
    /\ B \subseteq 1..Len(file) /\ E \subseteq 1..Len(file)
    /\ i \in B /\ Len(file) \in E
    /\ IF Len(file) = d THEN i = 1 ELSE A[Len(file)] + M[Len(file)] = i
    /\ i = Len(file) \/ Len(file) - i <= d - 1 - rounds

\* The children of the nodes of a new level: those of node m begin behind the b pages
\* that the nodes before it have, and the last node may have fewer.
LEMMA ChildCounts ==
  ASSUME NEW w \in Nat, w > 1, NEW count, count = CeilDiv(w, InternalFanout)
  PROVE  /\ count \in Nat /\ count > 0 /\ count < w
         /\ \A m \in 1..count :
              /\ (m - 1) * InternalFanout \in Nat /\ (m - 1) * InternalFanout < w
              /\ m < count => (m + 1 - 1) * InternalFanout = (m - 1) * InternalFanout + InternalFanout
              /\ m < count => (m - 1) * InternalFanout + InternalFanout < w
              /\ m = count => w <= (m - 1) * InternalFanout + InternalFanout
         /\ (1 - 1) * InternalFanout = 0
  <1>1. PICK F \in Nat : F = InternalFanout /\ F > 1 /\ F > 0 /\ F \in Int
    BY FanoutInt
  <1>2. count = CeilDiv(w, F)
    BY <1>1
  <1>3. count \in Nat /\ (\A m \in 1..count : (m - 1) * F \in Nat /\ (m - 1) * F < w) /\ w <= count * F
    BY <1>1, <1>2, CeilDivPages
  <1>4. ASSUME NEW m \in 1..count PROVE (m + 1 - 1) * F = (m - 1) * F + F /\ m * F = (m - 1) * F + F
    BY <1>1, <1>3
  <1>5. count > 0
    <2>1. CASE count = 0
      BY <1>1, <1>3, <2>1
    <2>2. QED
      BY <1>3, <2>1
  <1>6. ASSUME NEW m \in 1..count, m < count PROVE (m - 1) * F + F < w
    <2>1. PICK k \in 1..count : k = m + 1
      BY <1>3, <1>6
    <2>2. (k - 1) * F < w /\ k - 1 = m + 1 - 1
      BY <1>3, <2>1
    <2>3. QED
      BY <1>4, <2>2
  <1>7. count < w
    <2>1. SUFFICES ASSUME ~(count < w) PROVE FALSE
      OBVIOUS
    <2>2. PICK k \in Int : k = count - 1
      BY <1>3
    <2>3. k * F < w /\ k * F \in Nat
      BY <1>3, <1>5, <2>2
    <2>4. k * F >= 2 * k
      <3>1. k >= 0
        BY <1>5, <1>3, <2>2
      <3>2. PICK e \in Nat : F = 2 + e
        <4>1. F - 2 \in Nat /\ F = 2 + (F - 2)
          BY <1>1
        <4>2. QED
          BY <4>1
      <3>3. k * F = 2 * k + k * e /\ k * e >= 0
        BY <3>1, <3>2
      <3>4. QED
        BY <3>1, <3>3
    <2>5. QED
      BY <1>3, <2>1, <2>2, <2>3, <2>4
  <1>8. (1 - 1) * F = 0
    BY <1>1
  <1>9. QED
    BY <1>1, <1>3, <1>4, <1>5, <1>6, <1>7, <1>8

\* The last key of a page is read from that page.
LEMMA SamePage ==
  ASSUME NEW file, NEW next, NEW n, NEW c, next[c] = file[c]
  PROVE  LastKey(next, c, n) = LastKey(file, c, n)
  BY DEF LastKey

\* Pages that are added behind a node do not change it.
LEMMA NodeKept ==
  ASSUME NEW file, NEW next, NEW n, NEW last \in Nat, \A c \in 1..last : next[c] = file[c],
         NEW p \in 1..last, NEW a, NEW m, Node(file, n, p, a, m)
  PROVE  Node(next, n, p, a, m)
  <1>1. m \in 1..InternalFanout /\ a \in Nat \ {0} /\ a + m <= p /\ m \in Nat
    BY FanoutInt DEF Node
  <1>2. next[p] = file[p]
    OBVIOUS
  <1>3. ASSUME NEW k \in 1..m
        PROVE  next[p][k] = [key |-> LastKey(next, a + k - 1, n), child |-> a + k - 1]
    <2>1. a + k - 1 \in 1..last
      BY <1>1
    <2>2. PICK c \in 1..last : c = a + k - 1
      BY <2>1
    <2>3. LastKey(next, c, n) = LastKey(file, c, n)
      BY SamePage
    <2>4. file[p][k] = [key |-> LastKey(file, a + k - 1, n), child |-> a + k - 1]
      BY DEF Node
    <2>5. file[p][k] = [key |-> LastKey(file, c, n), child |-> c]
      BY <2>2, <2>4
    <2>6. next[p][k] = [key |-> LastKey(next, c, n), child |-> c]
      BY <1>2, <2>3, <2>5
    <2>7. QED
      BY <2>2, <2>6
  <1>4. \A k \in (m + 1)..InternalFanout : next[p][k] = NoChild
    BY <1>2 DEF Node
  <1>5. QED
    BY <1>1, <1>3, <1>4 DEF Node

\* A node of a new level above pages i to last.
LEMMA NewNode ==
  ASSUME NEW file, NEW next, NEW n, NEW last \in Nat, \A c \in 1..last : next[c] = file[c],
         NEW i \in 1..last, NEW b \in Nat, i + b <= last, NEW p \in Nat, last < p,
         \A k \in 1..InternalFanout : next[p][k] = ChildEntry(file, last, n, i + b + k - 1),
         NEW m \in 1..InternalFanout, i + b + m - 1 <= last,
         m = InternalFanout \/ i + b + m - 1 = last
  PROVE  Node(next, n, p, i + b, m)
  <1>1. InternalFanout \in Nat /\ m \in Nat /\ i \in Nat
    BY FanoutInt
  <1>2. ASSUME NEW k \in 1..m
        PROVE  next[p][k] = [key |-> LastKey(next, i + b + k - 1, n), child |-> i + b + k - 1]
    <2>1. PICK c \in 1..last : c = i + b + k - 1
      BY <1>1
    <2>2. k \in 1..InternalFanout
      BY <1>1
    <2>3. next[p][k] = ChildEntry(file, last, n, c)
      BY <2>1, <2>2
    <2>4. LastKey(next, c, n) = LastKey(file, c, n) /\ c <= last
      BY SamePage
    <2>5. next[p][k] = [key |-> LastKey(next, c, n), child |-> c]
      BY <2>3, <2>4 DEF ChildEntry
    <2>6. QED
      BY <2>1, <2>5
  <1>3. ASSUME NEW k \in (m + 1)..InternalFanout PROVE next[p][k] = NoChild
    <2>1. k \in 1..InternalFanout /\ i + b + m - 1 = last
      BY <1>1
    <2>2. PICK c \in Nat : c = i + b + k - 1
      BY <1>1
    <2>3. ~(c <= last)
      BY <1>1, <2>1, <2>2
    <2>4. next[p][k] = ChildEntry(file, last, n, c)
      BY <2>1, <2>2
    <2>5. QED
      BY <2>3, <2>4 DEF ChildEntry
  <1>4. i + b \in Nat \ {0} /\ i + b + m <= p
    BY <1>1
  <1>5. QED
    BY <1>2, <1>3, <1>4 DEF Node

\* Another level makes a taller tree with a shorter top.
LEMMA TreeGrows ==
  ASSUME NEW file, NEW next, NEW last \in Nat, last = Len(file), NEW n, NEW d \in 1..last,
         d = CeilDiv(n, LeafFanout), NEW i \in Nat, NEW r \in Nat,
         Grown(file, d, n, i, r), i < last,
         NEW count, LevelAdded(file, last, n, i, count, next)
  PROVE  Grown(next, d, n, last + 1, r + 1) /\ Len(next) \in Nat /\ d <= Len(next)
  <1>1. PICK A, M, B, E :
          /\ Tree(file, last, d, n, A, M, B, E)
          /\ B \subseteq 1..last /\ E \subseteq 1..last
          /\ i \in B /\ last \in E
          /\ IF last = d THEN i = 1 ELSE A[last] + M[last] = i
          /\ i = last \/ last - i <= d - 1 - r
    BY DEF Grown
  <1>2. i \in 1..last
    BY <1>1
  <1>3. PICK w \in Nat : w = last - i + 1 /\ w > 1
    <2>1. last - i + 1 \in Nat /\ last - i + 1 > 1
      BY <1>2
    <2>2. QED
      BY <2>1
  <1>4. PICK F \in Nat : F = InternalFanout /\ F > 1
    BY FanoutInt
  <1>5. count = CeilDiv(w, InternalFanout)
    BY <1>3 DEF LevelAdded
  <1>6. count \in Nat /\ count > 0 /\ count < w
    BY <1>3, <1>5, ChildCounts
  <1>7. \A m \in 1..count :
              /\ (m - 1) * InternalFanout \in Nat /\ (m - 1) * InternalFanout < w
              /\ m < count => (m + 1 - 1) * InternalFanout = (m - 1) * InternalFanout + InternalFanout
              /\ m < count => (m - 1) * InternalFanout + InternalFanout < w
              /\ m = count => w <= (m - 1) * InternalFanout + InternalFanout
    BY <1>3, <1>5, ChildCounts
  <1>8. (1 - 1) * InternalFanout = 0
    BY <1>3, <1>5, ChildCounts
  <1>9. PICK b : b = [m \in 1..count |-> (m - 1) * InternalFanout]
    OBVIOUS
  <1>10. \A m \in 1..count : b[m] = (m - 1) * InternalFanout
    BY <1>9
  <1>11. ASSUME NEW m \in 1..count
         PROVE  /\ b[m] \in Nat /\ b[m] < w
                /\ m < count => b[m + 1] = b[m] + F
                /\ m < count => b[m] + F < w
                /\ m = count => w <= b[m] + F
    <2>1. PICK z : z = (m - 1) * InternalFanout
      OBVIOUS
    <2>2. b[m] = z
      BY <1>10, <2>1
    <2>3. /\ z \in Nat /\ z < w
          /\ m < count => (m + 1 - 1) * InternalFanout = z + F
          /\ m < count => z + F < w
          /\ m = count => w <= z + F
      BY <1>4, <1>7, <2>1
    <2>4. m < count => b[m + 1] = (m + 1 - 1) * InternalFanout
      <3>1. m < count => m + 1 \in 1..count
        BY <1>6
      <3>2. QED
        BY <1>10, <3>1
    <2>5. QED
      BY <2>2, <2>3, <2>4
  <1>12. b[1] = 0
    BY <1>6, <1>8, <1>10
  <1>13. PICK top \in Nat : top = last + count /\ top = Len(next) /\ last < top
    BY <1>6 DEF LevelAdded
  <1>14. \A c \in 1..last : next[c] = file[c]
    BY DEF LevelAdded
  <1> DEFINE A1 == [p \in 1..top |-> IF p <= last THEN A[p] ELSE i + b[p - last]]
  <1> DEFINE M1 == [p \in 1..top |-> IF p <= last THEN M[p]
                                      ELSE IF p < top THEN F ELSE w - b[p - last]]
  <1> DEFINE B1 == B \cup {last + 1}
  <1> DEFINE E1 == E \cup {top}
  <1>15. ASSUME NEW p \in (last + 1)..top
         PROVE  \E m \in 1..count : /\ p = last + m /\ p - last = m
                                     /\ A1[p] = i + b[m]
                                     /\ M1[p] = IF m < count THEN F ELSE w - b[m]
    <2>1. PICK m \in 1..count : p = last + m
      <3>1. p - last \in 1..count /\ p = last + (p - last)
        BY <1>13, <1>6
      <3>2. QED
        BY <3>1
    <2>2. p - last = m /\ ~(p <= last) /\ p \in 1..top /\ (p < top <=> m < count)
      BY <1>6, <1>13, <2>1
    <2>3. QED
      BY <2>1, <2>2
  <1>16. ASSUME NEW p \in (d + 1)..last
         PROVE  A1[p] = A[p] /\ M1[p] = M[p] /\ p \in 1..last
    BY <1>13
  <1>17. A1[last + 1] = i
    <2>1. last + 1 \in 1..top /\ ~(last + 1 <= last) /\ (last + 1) - last = 1 /\ last + 1 \in (last + 1)..top
      BY <1>13
    <2>2. A1[last + 1] = i + b[1]
      BY <2>1
    <2>3. QED
      BY <1>12, <2>2
  <1>18. A1[top] + M1[top] = last + 1 /\ A1[top] \in Int /\ M1[top] \in Int
    <2>1. top \in (last + 1)..top
      BY <1>13
    <2>2. PICK m \in 1..count : /\ top = last + m /\ A1[top] = i + b[m]
                                /\ M1[top] = IF m < count THEN F ELSE w - b[m]
      BY <1>15, <2>1
    <2>3. m = count
      BY <1>6, <1>13, <2>2
    <2> HIDE DEF A1, M1
    <2>4. PICK z \in Nat : z = b[m]
      BY <1>11
    <2>5. A1[top] = i + z /\ M1[top] = w - z
      BY <1>6, <2>2, <2>3, <2>4
    <2>6. QED
      BY <1>3, <2>5
  <1> HIDE DEF A1, M1
  <1>19. ASSUME NEW p \in (d + 1)..top PROVE Node(next, n, p, A1[p], M1[p])
    <2>1. CASE p <= last
      <3>1. p \in (d + 1)..last
        BY <2>1, <1>13
      <3>2. Node(file, n, p, A[p], M[p])
        BY <1>1, <3>1 DEF Tree
      <3>3. p \in 1..last
        BY <3>1
      <3>4. Node(next, n, p, A[p], M[p])
        BY <1>14, <3>2, <3>3, NodeKept
      <3>5. QED
        BY <1>16, <3>1, <3>4
    <2>2. CASE ~(p <= last)
      <3>1. p \in (last + 1)..top /\ p \in Nat /\ last < p
        BY <2>2, <1>13
      <3>2. PICK m \in 1..count : /\ p = last + m /\ A1[p] = i + b[m]
                                  /\ M1[p] = IF m < count THEN F ELSE w - b[m]
        BY <1>15, <3>1
      <3>3. PICK z \in Nat : z = b[m]
        BY <1>11
      <3>4. z < w /\ (m < count => z + F < w) /\ (m = count => w <= z + F)
        BY <1>11, <3>3
      <3>5. PICK e : e = M1[p]
        OBVIOUS
      <3>6. e \in 1..F /\ i + z + e - 1 <= last /\ (e = F \/ i + z + e - 1 = last)
        <4>1. CASE m < count
          BY <1>3, <1>4, <3>2, <3>4, <3>5, <4>1
        <4>2. CASE m = count
          <5>1. e = w - z
            BY <1>6, <3>2, <3>3, <3>5, <4>2
          <5>2. QED
            BY <1>3, <1>4, <3>4, <4>2, <5>1
        <4>3. QED
          BY <1>6, <4>1, <4>2
      <3>7. \A k \in 1..InternalFanout : next[p][k] = ChildEntry(file, last, n, i + z + k - 1)
        <4>1. z = (m - 1) * InternalFanout
          BY <1>10, <3>3
        <4>2. \A k \in 1..InternalFanout :
                next[last + m][k] = ChildEntry(file, last, n, i + (m - 1) * InternalFanout + k - 1)
          BY DEF LevelAdded
        <4>3. QED
          BY <3>2, <4>1, <4>2
      <3>8. i + z <= last /\ e \in 1..InternalFanout /\ (e = InternalFanout \/ i + z + e - 1 = last)
        BY <1>3, <1>4, <3>4, <3>6
      <3>9. Node(next, n, p, i + z, e)
        BY <1>2, <1>14, <3>1, <3>6, <3>7, <3>8, NewNode
      <3>10. A1[p] = i + z
        BY <3>2, <3>3
      <3>11. QED
        BY <3>5, <3>9, <3>10
    <2>3. QED
      BY <2>1, <2>2
  <1>20. ASSUME NEW p \in (d + 1)..(top - 1) PROVE A1[p + 1] = A1[p] + M1[p]
    <2>1. CASE p < last
      <3>1. p \in (d + 1)..(last - 1) /\ p \in (d + 1)..last /\ p + 1 \in (d + 1)..last
        BY <2>1
      <3>2. A[p + 1] = A[p] + M[p]
        BY <1>1, <3>1 DEF Tree
      <3>3. A1[p + 1] = A[p + 1] /\ A1[p] = A[p] /\ M1[p] = M[p]
        BY <1>16, <3>1
      <3>4. QED
        BY <3>2, <3>3
    <2>2. CASE p = last
      <3>1. p \in (d + 1)..last /\ last # d
        BY <2>2
      <3>2. A1[p] = A[p] /\ M1[p] = M[p]
        BY <1>16, <3>1
      <3>3. A[last] + M[last] = i
        BY <1>1, <3>1
      <3>4. QED
        BY <1>17, <2>2, <3>2, <3>3
    <2>3. CASE last < p
      <3>1. p \in (last + 1)..top /\ p + 1 \in (last + 1)..top
        BY <1>13, <2>3
      <3>2. PICK m \in 1..count : /\ p = last + m /\ A1[p] = i + b[m]
                                  /\ M1[p] = IF m < count THEN F ELSE w - b[m]
        BY <1>15, <3>1
      <3>3. PICK k \in 1..count : p + 1 = last + k /\ A1[p + 1] = i + b[k]
        BY <1>15, <3>1
      <3>4. k = m + 1 /\ m < count
        BY <1>6, <3>2, <3>3
      <3>5. PICK z \in Nat : z = b[m]
        BY <1>11
      <3>6. b[k] = z + F
        BY <1>11, <3>4, <3>5
      <3>7. A1[p] = i + z /\ M1[p] = F
        BY <3>2, <3>4, <3>5
      <3>8. A1[p + 1] = i + (z + F)
        BY <3>3, <3>6
      <3>9. QED
        BY <1>4, <3>7, <3>8
    <2>4. QED
      BY <2>1, <2>2, <2>3
  <1>21. ASSUME NEW p \in (d + 1)..top
         PROVE  (p \in B1 => A1[p] \in B1) /\ (p \in E1 => A1[p] + M1[p] - 1 \in E1)
    <2>1. CASE p <= last
      <3>1. p \in (d + 1)..last /\ p # last + 1 /\ p # top
        BY <1>13, <2>1
      <3>2. (p \in B => A[p] \in B) /\ (p \in E => A[p] + M[p] - 1 \in E)
        BY <1>1, <3>1 DEF Tree
      <3>3. A1[p] = A[p] /\ M1[p] = M[p]
        BY <1>16, <3>1
      <3>4. QED
        BY <3>1, <3>2, <3>3
    <2>2. CASE ~(p <= last)
      <3>1. p \notin B /\ p \notin E
        BY <1>1, <2>2
      <3>2. p \in B1 => A1[p] \in B1
        BY <1>1, <1>17, <3>1
      <3>3. A1[top] + M1[top] - 1 = last
        BY <1>18
      <3>4. p \in E1 => A1[p] + M1[p] - 1 \in E1
        BY <1>1, <3>1, <3>3
      <3>5. QED
        BY <3>2, <3>4
    <2>3. QED
      BY <2>1, <2>2
  <1>22. \A p \in 1..d : (p \in B1 => p = 1) /\ (p \in E1 => p = d)
    <2>1. \A p \in 1..d : (p \in B => p = 1) /\ (p \in E => p = d) /\ p # last + 1 /\ p # top
      BY <1>1, <1>13 DEF Tree
    <2>2. QED
      BY <2>1
  <1>23. d + 1 \in B1
    <2>1. CASE last = d
      BY <2>1
    <2>2. CASE last # d
      <3>1. d + 1 \in B
        BY <1>1, <2>2 DEF Tree
      <3>2. QED
        BY <3>1
    <2>3. QED
      BY <2>1, <2>2
  <1>24. B1 \subseteq 1..top /\ E1 \subseteq 1..top /\ last + 1 \in B1 /\ top \in E1
    <2>1. 1..last \subseteq 1..top /\ last + 1 \in 1..top /\ top \in 1..top
      BY <1>13
    <2>2. QED
      BY <1>1, <2>1
  <1> HIDE DEF B1, E1
  <1>25. Tree(next, top, d, n, A1, M1, B1, E1)
    BY <1>19, <1>20, <1>21, <1>22, <1>23 DEF Tree
  <1>26. last + 1 = top \/ top - (last + 1) <= d - 1 - (r + 1)
    BY <1>1, <1>3, <1>6, <1>13, SMTT(40)
  <1>27. top # d
    BY <1>13
  <1>28. Grown(next, d, n, last + 1, r + 1)
    <2>1. /\ Tree(next, Len(next), d, n, A1, M1, B1, E1)
          /\ B1 \subseteq 1..Len(next) /\ E1 \subseteq 1..Len(next)
          /\ last + 1 \in B1 /\ Len(next) \in E1
          /\ IF Len(next) = d THEN last + 1 = 1 ELSE A1[Len(next)] + M1[Len(next)] = last + 1
          /\ last + 1 = Len(next) \/ Len(next) - (last + 1) <= d - 1 - (r + 1)
      BY <1>13, <1>18, <1>24, <1>25, <1>26, <1>27
    <2>2. QED
      BY ONLY <2>1 DEF Grown
  <1>29. QED
    BY <1>13, <1>28

\* Data pages alone are a tree without nodes.
LEMMA DataPagesGrown ==
  ASSUME NEW pages, NEW n, NEW d \in Nat, d # 0, d = Len(pages)
  PROVE  Grown(pages, d, n, 1, 0)
  <1>1. PICK B : B = {1}
    OBVIOUS
  <1>2. PICK E : E = {d}
    OBVIOUS
  <1>3. PICK A : A = [p \in Nat |-> p]
    OBVIOUS
  <1>4. Tree(pages, d, d, n, A, A, B, E)
    <2>1. (d + 1)..d = {} /\ (d + 1)..(d - 1) = {} /\ ~(d > d)
      OBVIOUS
    <2>2. QED
      BY <1>1, <1>2, <2>1 DEF Tree
  <1>5. B \subseteq 1..d /\ E \subseteq 1..d /\ 1 \in B /\ d \in E
    BY <1>1, <1>2
  <1>6. d - 1 <= d - 1 - 0
    OBVIOUS
  <1>7. QED
    BY <1>4, <1>5, <1>6 DEF Grown

\* build_internal_levels adds levels until there is one page on top.
LEMMA TreeBuilt ==
  ASSUME NEW U, NEW pages \in Seq(U), NEW n \in Nat, Len(pages) = CeilDiv(n, LeafFanout),
         NEW d \in Nat, d = Len(pages), d # 0,
         NEW file, file = AddInternalLevels(pages, n)
  PROVE  /\ Len(file) \in Nat /\ d <= Len(file)
         /\ \E A, M, B, E : /\ Tree(file, Len(file), d, n, A, M, B, E)
                            /\ Len(file) \in B /\ Len(file) \in E
  <1>1. PICK K, f : LevelFiles(pages, n, d, K, f) /\ file = f[d].file
    BY LevelsLoop
  <1>2. d = CeilDiv(n, LeafFanout)
    OBVIOUS
  <1>3. ASSUME NEW r \in 0..d
        PROVE  \E W : /\ f[r].file \in Seq(W) /\ f[r].first \in Nat
                      /\ f[r] = [file |-> f[r].file, first |-> f[r].first]
    <2>1. f[r] \in Files(pages, K)
      BY <1>1 DEF LevelFiles
    <2>2. PICK z \in Seq(Nodes(K)) \X (Nat \ {0}) : f[r] = [file |-> pages \o z[1], first |-> z[2]]
      BY <2>1 DEF Files
    <2>3. PICK x \in Seq(Nodes(K)) : x = z[1]
      BY <2>2
    <2>4. PICK i \in Nat : i = z[2]
      BY <2>2
    <2>5. PICK g : g = pages \o x
      OBVIOUS
    <2>6. f[r] = [file |-> g, first |-> i]
      BY <2>2, <2>3, <2>4, <2>5
    <2>7. PICK W : W = U \cup Nodes(K)
      OBVIOUS
    <2>8. pages \in Seq(W) /\ x \in Seq(W)
      BY <2>7, SeqMonotonic
    <2>9. g \in Seq(W)
      BY <2>5, <2>8, ConcatProperties
    <2>10. f[r].file = g /\ f[r].first = i
      BY <2>6
    <2>11. QED
      BY <2>6, <2>9, <2>10
  <1> DEFINE T == {r \in Nat : /\ Grown(f[r].file, d, n, f[r].first, r)
                               /\ Len(f[r].file) \in Nat /\ d <= Len(f[r].file)}
  <1>4. 0 \in T
    <2>1. f[0].file = pages /\ f[0].first = 1
      BY <1>1 DEF LevelFiles
    <2>2. Grown(pages, d, n, 1, 0)
      BY DataPagesGrown
    <2>3. QED
      BY <2>1, <2>2
  <1>5. ASSUME NEW r \in 1..d, r - 1 \in T PROVE r \in T
    <2>1. PICK q \in Nat : q = r - 1 /\ q \in 0..d /\ r = q + 1
      <3>1. r - 1 \in Nat /\ r - 1 \in 0..d /\ r = (r - 1) + 1
        OBVIOUS
      <3>2. QED
        BY <3>1
    <2>2. PICK g : g = f[q].file
      OBVIOUS
    <2>3. PICK i \in Nat : i = f[q].first
      BY <1>3, <2>1
    <2>4. PICK last \in Nat : last = Len(g) /\ d <= last
      BY <1>5, <2>1, <2>2
    <2>5. Grown(g, d, n, i, q)
      BY <1>5, <2>1, <2>2, <2>3
    <2>6. PICK W : g \in Seq(W)
      BY <1>3, <2>1, <2>2
    <2>7. PICK st : st = f[q]
      OBVIOUS
    <2>8. st = [file |-> g, first |-> i]
      BY <1>3, <2>1, <2>2, <2>3, <2>7
    <2>9. f[r] = AddInternalLevel(st, n)
      BY <1>1, <2>1, <2>7 DEF LevelFiles
    <2>10. r \in Nat
      OBVIOUS
    <2>11. CASE i < last
      <3>1. PICK count, next : /\ AddInternalLevel(st, n) = [file |-> next, first |-> last + 1]
                               /\ LevelAdded(g, last, n, i, count, next)
        BY <2>4, <2>6, <2>8, <2>11, LevelShape
      <3>2. Grown(next, d, n, last + 1, q + 1) /\ Len(next) \in Nat /\ d <= Len(next)
        BY <1>2, <2>4, <2>5, <2>11, <3>1, TreeGrows, SMTT(40)
      <3>3. f[r].file = next /\ f[r].first = last + 1
        BY <2>9, <3>1
      <3>4. QED
        BY <2>1, <2>10, <3>2, <3>3
    <2>12. CASE ~(i < last)
      <3>1. st.first = i /\ st.file = g /\ i >= last
        BY <2>8, <2>12
      <3>2. f[r] = st
        BY <2>4, <2>9, <3>1 DEF AddInternalLevel
      <3>3. i = last
        <4>1. i \in 1..Len(g)
          BY <2>5 DEF Grown
        <4>2. QED
          BY <2>4, <2>12, <4>1
      <3>4. Grown(g, d, n, i, r)
        BY <2>4, <2>5, <3>3 DEF Grown
      <3>5. QED
        BY <2>4, <2>10, <3>1, <3>2, <3>4
    <2>13. QED
      BY <2>11, <2>12
  <1> HIDE DEF T
  <1>6. d \in T
    BY <1>4, <1>5, NatByStep
  <1>7. PICK i : i = f[d].first
    OBVIOUS
  <1>8. Grown(file, d, n, i, d) /\ Len(file) \in Nat /\ d <= Len(file)
    BY <1>1, <1>6, <1>7 DEF T
  <1>9. PICK A, M, B, E :
          /\ Tree(file, Len(file), d, n, A, M, B, E)
          /\ B \subseteq 1..Len(file)
          /\ i \in B /\ Len(file) \in E
          /\ i = Len(file) \/ Len(file) - i <= d - 1 - d
    BY <1>8 DEF Grown
  <1>10. i = Len(file)
    <2>1. i \in 1..Len(file)
      BY <1>9
    <2>2. QED
      BY <1>8, <1>9, <2>1
  <1>11. Tree(file, Len(file), d, n, A, M, B, E) /\ Len(file) \in B /\ Len(file) \in E
    BY <1>9, <1>10
  <1>12. QED
    BY <1>8, <1>11

-----------------------------------------------------------------------------
(***************************************************************************)
(* The search tree of an in-memory array.  L has the position of the first *)
(* record below each node; the nodes up to lo have leaves as children.     *)
(***************************************************************************)
Begin(nodes, lo, L, p, k) == IF p <= lo THEN nodes[p][k].child ELSE L[nodes[p][k].child]

\* The first child of a node begins where the node does, and the key before any other
\* child is that of the record before its first one.
Guide(nodes, s, lo, L, p) ==
  /\ L[p] \in 1..Len(s) /\ Begin(nodes, lo, L, p, 1) = L[p] /\ nodes[p][1].child # 0
  /\ \A k \in 1..InternalFanout :
       p > lo /\ nodes[p][k].child # 0 => nodes[p][k].child \in 1..(p - 1)
  /\ \A k \in 1..(InternalFanout - 1) : nodes[p][k + 1].child # 0 =>
       /\ Begin(nodes, lo, L, p, k + 1) \in 2..Len(s)
       /\ nodes[p][k].key = Key(s[Begin(nodes, lo, L, p, k + 1) - 1].rec)

\* The top level goes from node i to the last one.  The last key of a node is that of the
\* record before the next node's, except for the last node.
Grows(nodes, s, lo, i, rounds) ==
  \E L : /\ \A p \in 1..Len(nodes) : Guide(nodes, s, lo, L, p)
         /\ \A p \in i..(Len(nodes) - 1) :
              /\ L[p + 1] \in 2..Len(s)
              /\ nodes[p][InternalFanout].key = Key(s[L[p + 1] - 1].rec)
         /\ i \in 1..Len(nodes) /\ L[i] = 1
         /\ i = Len(nodes) \/ Len(nodes) - i <= lo - 1 - rounds

\* Leaf j (from 0) as an entry of its node.
LeafEntry(s, j) ==
  LET base == j * LeafFanout + 1
      last == Min({base + LeafFanout - 1, Len(s)})
  IN IF base <= Len(s) THEN [key |-> Key(s[last].rec), child |-> base] ELSE NoChild

\* A leaf that is followed by another is full.
LEMMA LeafEntryKey ==
  ASSUME NEW s, NEW n \in Nat, n = Len(s), NEW j \in Nat
  PROVE  /\ LeafEntry(s, j).child # 0 => LeafEntry(s, j).child \in 1..n
         /\ j * LeafFanout < n => LeafEntry(s, j).child = j * LeafFanout + 1
         /\ LeafEntry(s, j + 1).child # 0 =>
              /\ LeafEntry(s, j + 1).child \in 2..n
              /\ LeafEntry(s, j).key = Key(s[LeafEntry(s, j + 1).child - 1].rec)
  <1>1. PICK F \in Nat : F = LeafFanout /\ F > 0
    BY FanoutInt
  <1>2. PICK b \in Nat : b = j * LeafFanout + 1 /\ b >= 1
    BY <1>1
  <1>3. (j + 1) * LeafFanout + 1 = b + F
    BY <1>1, <1>2
  <1>4. PICK e : e = LeafEntry(s, j)
    OBVIOUS
  <1>5. PICK g : g = LeafEntry(s, j + 1)
    OBVIOUS
  <1>6. e = IF b <= n THEN [key |-> Key(s[Min({b + F - 1, n})].rec), child |-> b] ELSE NoChild
    BY <1>1, <1>2, <1>4 DEF LeafEntry
  <1>7. PICK y : g = IF b + F <= n THEN [key |-> y, child |-> b + F] ELSE NoChild
    <2>1. g = IF b + F <= n THEN [key |-> Key(s[Min({b + F + LeafFanout - 1, n})].rec), child |-> b + F]
              ELSE NoChild
      BY <1>3, <1>5 DEF LeafEntry
    <2>2. QED
      BY <2>1
  <1>8. e.child # 0 => e.child \in 1..n
    BY <1>2, <1>6 DEF NoChild
  <1>9. j * LeafFanout < n => e.child = b
    <2>1. j * LeafFanout < n => b <= n
      BY <1>1, <1>2
    <2>2. QED
      BY <1>6, <2>1
  <1>10. ASSUME g.child # 0 PROVE g.child \in 2..n /\ e.key = Key(s[g.child - 1].rec)
    <2>1. b + F <= n
      BY <1>7, <1>10 DEF NoChild
    <2>2. g.child = b + F
      BY <1>7, <2>1
    <2>3. b <= n /\ g.child \in 2..n /\ g.child - 1 = b + F - 1
      BY <1>1, <1>2, <2>1, <2>2
    <2>4. Min({b + F - 1, n}) = b + F - 1
      <3>1. b + F - 1 <= n /\ b + F - 1 \in Int
        BY <1>1, <1>2, <2>1
      <3>2. PICK m \in Int : m = b + F - 1
        BY <3>1
      <3>3. m <= n
        BY <3>1, <3>2
      <3>4. \A x \in {m, n} : (\A z \in {m, n} : x <= z) => x = m
        BY <3>3
      <3>5. m \in {m, n} /\ \A z \in {m, n} : m <= z
        BY <3>3
      <3>6. Min({m, n}) = m
        BY <3>4, <3>5 DEF Min
      <3>7. QED
        BY <3>2, <3>6
    <2>5. e = [key |-> Key(s[b + F - 1].rec), child |-> b]
      BY <1>6, <2>3, <2>4
    <2>6. e.key = Key(s[b + F - 1].rec)
      BY <2>5
    <2>7. QED
      BY <2>3, <2>6
  <1>11. QED
    BY <1>2, <1>4, <1>5, <1>8, <1>9, <1>10

\* The lowest level.
LEMMA LowestGrows ==
  ASSUME NEW S, NEW s \in Seq(S), s # <<>>
  PROVE  /\ Len(LowestNodes(s)) \in Nat /\ \E W : LowestNodes(s) \in Seq(W)
         /\ Grows(LowestNodes(s), s, Len(LowestNodes(s)), 1, 0)
  <1>1. PICK n \in Nat : n = Len(s) /\ n > 0
    BY LenProperties, EmptySeq
  <1>2. PICK F \in Nat : F = InternalFanout /\ F > 1 /\ F \in Int
    BY FanoutInt
  <1>3. PICK d \in Nat : d = CeilDiv(n, LeafFanout) /\ \A p \in 1..d : (p - 1) * LeafFanout < n
    <2>1. PICK g \in Int : g = LeafFanout /\ g > 0
      BY FanoutInt
    <2>2. CeilDiv(n, g) \in Nat /\ \A p \in 1..CeilDiv(n, g) : (p - 1) * g < n
      BY <2>1, CeilDivPages
    <2>3. QED
      BY <2>1, <2>2
  <1>4. d > 0
    <2>1. n <= d * LeafFanout
      BY <1>1, <1>3, FanoutInt, CeilDivPages
    <2>2. CASE d = 0
      BY <1>1, <2>1, <2>2, FanoutInt
    <2>3. QED
      BY <2>2
  <1>5. PICK lo \in Nat : lo = CeilDiv(d, F) /\ \A m \in 1..lo : (m - 1) * F \in Nat /\ (m - 1) * F < d
    <2>1. F \in Int /\ F > 0
      BY <1>2
    <2>2. CeilDiv(d, F) \in Nat /\ \A m \in 1..CeilDiv(d, F) : (m - 1) * F \in Nat /\ (m - 1) * F < d
      BY <2>1, CeilDivPages
    <2>3. QED
      BY <2>2
  <1>6. lo > 0
    <2>1. d <= lo * F
      BY <1>2, <1>5, CeilDivPages
    <2>2. CASE lo = 0
      BY <1>2, <1>4, <2>1, <2>2
    <2>3. QED
      BY <2>2
  <1>7. PICK nodes : nodes = LowestNodes(s)
    OBVIOUS
  <1> DEFINE node(m) == [k \in 1..F |-> LeafEntry(s, (m - 1) * F + k - 1)]
  <1>8. nodes = [m \in 1..lo |-> node(m)]
    BY <1>1, <1>2, <1>3, <1>5, <1>7 DEF LowestNodes, LeafEntry
  <1>9. PICK W : W = {node(m) : m \in 1..lo}
    OBVIOUS
  <1>10. \A m \in 1..lo : \A k \in 1..F : node(m)[k] = LeafEntry(s, (m - 1) * F + k - 1)
    OBVIOUS
  <1> HIDE DEF node
  <1>11. nodes \in [1..lo -> W] /\ \A m \in 1..lo : nodes[m] = node(m)
    BY <1>8, <1>9
  <1>12. nodes \in Seq(W) /\ Len(nodes) = lo
    <2>1. nodes \in Seq(W)
      BY <1>11, SeqDef
    <2>2. QED
      BY <1>11, <2>1, LenProperties
  <1>13. PICK b : b = [m \in 1..lo |-> (m - 1) * F]
    OBVIOUS
  <1>14. \A m \in 1..lo : b[m] \in Nat /\ b[m] < d /\ (m < lo => b[m + 1] = b[m] + F)
    <2>1. ASSUME NEW m \in 1..lo PROVE b[m] \in Nat /\ b[m] < d /\ (m < lo => b[m + 1] = b[m] + F)
      <3>1. b[m] = (m - 1) * F /\ (m - 1) * F \in Nat /\ (m - 1) * F < d
        BY <1>5, <1>13
      <3>2. m < lo => b[m + 1] = (m + 1 - 1) * F
        <4>1. m < lo => m + 1 \in 1..lo
          OBVIOUS
        <4>2. QED
          BY <1>13, <4>1
      <3>3. (m + 1 - 1) * F = (m - 1) * F + F
        BY <1>2
      <3>4. QED
        BY <3>1, <3>2, <3>3
    <2>2. QED
      BY <2>1
  <1>15. \A m \in 1..lo : \A k \in 1..F : nodes[m][k] = LeafEntry(s, b[m] + k - 1)
    BY <1>10, <1>11, <1>13
  <1> DEFINE L == [m \in 1..lo |-> b[m] * LeafFanout + 1]
  <1>16. \A m \in 1..lo : L[m] = b[m] * LeafFanout + 1
    OBVIOUS
  <1> HIDE DEF L
  <1>17. ASSUME NEW m \in 1..lo
         PROVE  nodes[m][1].child = L[m] /\ L[m] \in 1..n /\ L[m] = LeafEntry(s, b[m]).child
    <2>1. PICK j \in Nat : j = b[m] /\ j < d
      BY <1>14
    <2>2. j * LeafFanout < n
      <3>1. PICK p \in 1..d : p = j + 1
        BY <2>1
      <3>2. p - 1 = j
        BY <3>1
      <3>3. QED
        BY <1>3, <3>2
    <2>3. LeafEntry(s, j).child = j * LeafFanout + 1
      BY <1>1, <2>2, LeafEntryKey
    <2>4. 1 \in 1..F /\ j + 1 - 1 = j
      BY <1>2
    <2>5. nodes[m][1] = LeafEntry(s, j)
      BY <1>15, <2>1, <2>4
    <2>6. L[m] = j * LeafFanout + 1
      BY <1>16, <2>1
    <2>7. L[m] \in 1..n
      <3>1. j * LeafFanout \in Nat
        BY FanoutInt
      <3>2. QED
        BY <2>2, <2>6, <3>1
    <2>8. QED
      BY <2>1, <2>3, <2>5, <2>6, <2>7
  <1>18. ASSUME NEW m \in 1..lo PROVE Guide(nodes, s, lo, L, m)
    <2>1. \A k \in 1..F : Begin(nodes, lo, L, m, k) = nodes[m][k].child
      BY DEF Begin
    <2>2. ASSUME NEW k \in 1..(F - 1), nodes[m][k + 1].child # 0
          PROVE  /\ nodes[m][k + 1].child \in 2..n
                 /\ nodes[m][k].key = Key(s[nodes[m][k + 1].child - 1].rec)
      <3>1. PICK j \in Nat : j = b[m] + k - 1
        BY <1>14
      <3>2. k \in 1..F /\ k + 1 \in 1..F /\ b[m] + (k + 1) - 1 = j + 1
        BY <1>2, <1>14, <3>1
      <3>3. nodes[m][k] = LeafEntry(s, j) /\ nodes[m][k + 1] = LeafEntry(s, j + 1)
        BY <1>15, <3>1, <3>2
      <3>4. LeafEntry(s, j + 1).child # 0
        BY <2>2, <3>3
      <3>5. /\ LeafEntry(s, j + 1).child \in 2..n
            /\ LeafEntry(s, j).key = Key(s[LeafEntry(s, j + 1).child - 1].rec)
        BY <1>1, <3>4, LeafEntryKey
      <3>6. QED
        BY <3>3, <3>5
    <2>3. ~(m > lo) /\ 1 \in 1..F /\ \A k \in 1..(F - 1) : k + 1 \in 1..F
      BY <1>2
    <2>4. L[m] \in 1..Len(s) /\ Begin(nodes, lo, L, m, 1) = L[m] /\ nodes[m][1].child # 0
      BY <1>1, <1>17, <2>1, <2>3
    <2>5. \A k \in 1..(F - 1) : nodes[m][k + 1].child # 0 =>
             /\ Begin(nodes, lo, L, m, k + 1) \in 2..Len(s)
             /\ nodes[m][k].key = Key(s[Begin(nodes, lo, L, m, k + 1) - 1].rec)
      BY <1>1, <2>1, <2>2, <2>3
    <2>6. QED
      BY <1>2, <2>3, <2>4, <2>5 DEF Guide
  <1>19. ASSUME NEW p \in 1..(lo - 1)
         PROVE  L[p + 1] \in 2..n /\ nodes[p][F].key = Key(s[L[p + 1] - 1].rec)
    <2>1. p \in 1..lo /\ p + 1 \in 1..lo /\ p < lo
      OBVIOUS
    <2>2. PICK j \in Nat : j = b[p] + F - 1
      <3>1. b[p] \in Nat
        BY <1>14, <2>1
      <3>2. QED
        BY <1>2, <3>1
    <2>3. b[p + 1] = j + 1 /\ F \in 1..F
      BY <1>2, <1>14, <2>1, <2>2
    <2>4. nodes[p][F] = LeafEntry(s, j)
      BY <1>15, <2>1, <2>2, <2>3
    <2>5. L[p + 1] = LeafEntry(s, j + 1).child /\ L[p + 1] # 0
      BY <1>17, <2>1, <2>3
    <2>6. /\ LeafEntry(s, j + 1).child \in 2..n
          /\ LeafEntry(s, j).key = Key(s[LeafEntry(s, j + 1).child - 1].rec)
      BY <1>1, <2>5, LeafEntryKey
    <2>7. QED
      BY <2>4, <2>5, <2>6
  <1>20. L[1] = 1
    <2>1. 1 \in 1..lo /\ (1 - 1) * F = 0 /\ 0 * LeafFanout + 1 = 1
      BY <1>2, <1>6, FanoutInt
    <2>2. b[1] = 0
      BY <1>13, <2>1
    <2>3. QED
      BY <1>16, <2>1, <2>2
  <1>21. /\ \A p \in 1..Len(nodes) : Guide(nodes, s, lo, L, p)
         /\ \A p \in 1..(Len(nodes) - 1) :
              /\ L[p + 1] \in 2..Len(s)
              /\ nodes[p][InternalFanout].key = Key(s[L[p + 1] - 1].rec)
         /\ 1 \in 1..Len(nodes) /\ L[1] = 1
         /\ 1 = Len(nodes) \/ Len(nodes) - 1 <= lo - 1 - 0
    BY <1>1, <1>2, <1>6, <1>12, <1>18, <1>19, <1>20
  <1>22. Grows(nodes, s, lo, 1, 0)
    BY ONLY <1>21 DEF Grows
  <1>23. QED
    BY <1>7, <1>12, <1>22

\* Node c as an entry of a node above it.
UpperEntry(nodes, last, c) ==
  IF c <= last THEN [key |-> nodes[c][InternalFanout].key, child |-> c] ELSE NoChild

\* A level of count nodes above nodes i to last.
UpperAdded(nodes, last, i, count, next) ==
  /\ count = CeilDiv(last - i + 1, InternalFanout) /\ Len(next) = last + count
  /\ \A c \in 1..last : next[c] = nodes[c]
  /\ \A m \in 1..count : \A k \in 1..InternalFanout :
       next[last + m][k] = UpperEntry(nodes, last, i + (m - 1) * InternalFanout + k - 1)

\* What a round writes.
LEMMA UpperShape ==
  ASSUME NEW W, NEW nodes \in Seq(W), NEW last \in Nat, last = Len(nodes), NEW i \in 1..last, i # last,
         NEW st, st = [nodes |-> nodes, first |-> i]
  PROVE  \E count, next : /\ UpperNodes(st) = [nodes |-> next, first |-> last + 1]
                          /\ UpperAdded(nodes, last, i, count, next)
                          /\ \E X : next \in Seq(X)
  <1> DEFINE node(m) == [k \in 1..InternalFanout |->
                           LET c == i + (m - 1) * InternalFanout + k - 1
                           IN IF c <= last THEN [key |-> nodes[c][InternalFanout].key, child |-> c]
                                           ELSE NoChild]
  <1> DEFINE count == CeilDiv(last - i + 1, InternalFanout)
  <1> DEFINE new == [m \in 1..count |-> node(m)]
  <1>1. UpperNodes(st) = [nodes |-> nodes \o new, first |-> last + 1]
    <2>1. st.first = i /\ st.nodes = nodes /\ i # last
      OBVIOUS
    <2>2. QED
      BY <2>1 DEF UpperNodes
  <1>2. count \in Nat
    <2>1. PICK w \in Nat : w = last - i + 1
      OBVIOUS
    <2>2. count = CeilDiv(w, InternalFanout)
      BY <2>1
    <2> HIDE DEF count
    <2>3. QED
      BY <2>2, FanoutInt, CeilDivPages
  <1> HIDE DEF count
  <1>3. PICK V : V = {node(m) : m \in 1..count}
    OBVIOUS
  <1>4. ASSUME NEW m \in 1..count, NEW k \in 1..InternalFanout
        PROVE  node(m)[k] = UpperEntry(nodes, last, i + (m - 1) * InternalFanout + k - 1)
    BY DEF UpperEntry
  <1> HIDE DEF node
  <1>5. new \in [1..count -> V]
    BY <1>3
  <1>6. \A m \in 1..count : new[m] = node(m)
    OBVIOUS
  <1>7. new \in Seq(V)
    BY <1>2, <1>5, SeqDef
  <1>8. Len(new) = count
    BY <1>2, <1>5, <1>7, LenProperties
  <1> HIDE DEF new
  <1>9. PICK X : X = W \cup V
    OBVIOUS
  <1>10. nodes \in Seq(X) /\ new \in Seq(X)
    BY <1>7, <1>9, SeqMonotonic
  <1>11. PICK next : next = nodes \o new
    OBVIOUS
  <1>12. next \in Seq(X) /\ Len(next) = last + count
         /\ \A c \in 1..(last + count) : next[c] = IF c <= last THEN nodes[c] ELSE new[c - last]
    BY <1>8, <1>10, <1>11, ConcatProperties
  <1>13. \A c \in 1..last : next[c] = nodes[c]
    BY <1>2, <1>12
  <1>14. ASSUME NEW m \in 1..count PROVE next[last + m] = node(m)
    <2>1. last + m \in 1..(last + count) /\ ~(last + m <= last) /\ (last + m) - last = m
      BY <1>2
    <2>2. QED
      BY <1>6, <1>12, <2>1
  <1>15. \A m \in 1..count : \A k \in 1..InternalFanout :
           next[last + m][k] = UpperEntry(nodes, last, i + (m - 1) * InternalFanout + k - 1)
    BY <1>4, <1>14
  <1>16. UpperNodes(st) = [nodes |-> next, first |-> last + 1]
         /\ count = CeilDiv(last - i + 1, InternalFanout)
    BY <1>1, <1>11 DEF count
  <1>17. UpperNodes(st) = [nodes |-> next, first |-> last + 1]
    BY <1>16
  <1>18. UpperAdded(nodes, last, i, count, next)
    BY <1>12, <1>13, <1>15, <1>16 DEF UpperAdded
  <1>19. QED
    BY <1>12, <1>17, <1>18

\* Another level makes a taller tree with a shorter top.
LEMMA UpperGrows ==
  ASSUME NEW s, NEW nodes, NEW next, NEW last \in Nat, last = Len(nodes), NEW lo \in 1..last,
         NEW i \in Nat, NEW r \in Nat, Grows(nodes, s, lo, i, r), i # last,
         NEW count, UpperAdded(nodes, last, i, count, next)
  PROVE  Grows(next, s, lo, last + 1, r + 1) /\ Len(next) \in Nat /\ lo <= Len(next)
  <1>1. PICK L :
          /\ \A p \in 1..last : Guide(nodes, s, lo, L, p)
          /\ \A p \in i..(last - 1) :
               L[p + 1] \in 2..Len(s) /\ nodes[p][InternalFanout].key = Key(s[L[p + 1] - 1].rec)
          /\ i \in 1..last /\ L[i] = 1
          /\ i = last \/ last - i <= lo - 1 - r
    BY DEF Grows
  <1>2. PICK w \in Nat : w = last - i + 1 /\ w > 1
    <2>1. last - i + 1 \in Nat /\ last - i + 1 > 1
      BY <1>1
    <2>2. QED
      BY <2>1
  <1>3. PICK F \in Nat : F = InternalFanout /\ F > 1
    BY FanoutInt
  <1>4. count = CeilDiv(w, InternalFanout)
    BY <1>2 DEF UpperAdded
  <1>5. count \in Nat /\ count > 0 /\ count < w
    BY <1>2, <1>4, ChildCounts
  <1>6. PICK b : b = [m \in 1..count |-> (m - 1) * InternalFanout]
    OBVIOUS
  <1>7. \A m \in 1..count : b[m] = (m - 1) * InternalFanout
    BY <1>6
  <1>8. ASSUME NEW m \in 1..count
        PROVE  /\ b[m] \in Nat /\ b[m] < w
               /\ m < count => b[m + 1] = b[m] + F
               /\ m < count => b[m] + F < w
    <2>1. PICK z : z = (m - 1) * InternalFanout
      OBVIOUS
    <2>2. b[m] = z
      BY <1>7, <2>1
    <2>3. /\ z \in Nat /\ z < w
          /\ m < count => (m + 1 - 1) * InternalFanout = z + F
          /\ m < count => z + F < w
      BY <1>2, <1>3, <1>4, <2>1, ChildCounts
    <2>4. m < count => b[m + 1] = (m + 1 - 1) * InternalFanout
      <3>1. m < count => m + 1 \in 1..count
        BY <1>5
      <3>2. QED
        BY <1>7, <3>1
    <2>5. QED
      BY <2>2, <2>3, <2>4
  <1>9. b[1] = 0
    <2>1. 1 \in 1..count /\ (1 - 1) * InternalFanout = 0
      BY <1>2, <1>4, <1>5, ChildCounts
    <2>2. QED
      BY <1>7, <2>1
  <1>10. PICK top \in Nat : top = last + count /\ top = Len(next) /\ last < top
    BY <1>5 DEF UpperAdded
  <1>11. \A c \in 1..last : next[c] = nodes[c]
    BY DEF UpperAdded
  <1>12. ASSUME NEW m \in 1..count, NEW k \in 1..F
         PROVE  next[last + m][k] = UpperEntry(nodes, last, i + b[m] + k - 1)
    BY <1>3, <1>7 DEF UpperAdded
  <1> DEFINE L1 == [p \in 1..top |-> IF p <= last THEN L[p] ELSE L[i + b[p - last]]]
  <1>13. ASSUME NEW p \in 1..last PROVE L1[p] = L[p]
    BY <1>10
  <1>14. ASSUME NEW m \in 1..count PROVE L1[last + m] = L[i + b[m]]
    <2>1. last + m \in 1..top /\ ~(last + m <= last) /\ (last + m) - last = m
      BY <1>5, <1>10
    <2>2. QED
      BY <2>1
  <1> HIDE DEF L1
  <1>15. ASSUME NEW p \in 1..last PROVE Guide(next, s, lo, L1, p)
    <2>1. Guide(nodes, s, lo, L, p) /\ next[p] = nodes[p] /\ L1[p] = L[p] /\ p \in Nat
      BY <1>1, <1>11, <1>13
    <2>2. ASSUME NEW k \in 1..InternalFanout, nodes[p][k].child # 0
          PROVE  Begin(next, lo, L1, p, k) = Begin(nodes, lo, L, p, k)
      <3>1. CASE p <= lo
        BY <2>1, <3>1 DEF Begin
      <3>2. CASE ~(p <= lo)
        <4>1. nodes[p][k].child \in 1..(p - 1)
          BY <2>1, <2>2, <3>2 DEF Guide
        <4>2. PICK c \in 1..last : c = nodes[p][k].child
          BY <4>1
        <4>3. L1[c] = L[c]
          BY <1>13
        <4>4. QED
          BY <2>1, <3>2, <4>2, <4>3 DEF Begin
      <3>3. QED
        BY <3>1, <3>2
    <2>3. 1 \in 1..InternalFanout /\ \A k \in 1..(InternalFanout - 1) : k + 1 \in 1..InternalFanout
      BY FanoutInt
    <2>4. L1[p] \in 1..Len(s) /\ Begin(next, lo, L1, p, 1) = L1[p] /\ next[p][1].child # 0
      BY <2>1, <2>2, <2>3 DEF Guide
    <2>5. \A k \in 1..InternalFanout :
            p > lo /\ next[p][k].child # 0 => next[p][k].child \in 1..(p - 1)
      BY <2>1 DEF Guide
    <2>6. ASSUME NEW k \in 1..(InternalFanout - 1), next[p][k + 1].child # 0
          PROVE  /\ Begin(next, lo, L1, p, k + 1) \in 2..Len(s)
                 /\ next[p][k].key = Key(s[Begin(next, lo, L1, p, k + 1) - 1].rec)
      <3>1. PICK x : x = Begin(nodes, lo, L, p, k + 1)
        OBVIOUS
      <3>2. x \in 2..Len(s) /\ nodes[p][k].key = Key(s[x - 1].rec)
        BY <2>1, <2>6, <3>1 DEF Guide
      <3>3. Begin(next, lo, L1, p, k + 1) = x
        BY <2>1, <2>2, <2>3, <2>6, <3>1
      <3>4. QED
        BY <2>1, <3>2, <3>3
    <2>7. QED
      BY <2>4, <2>5, <2>6 DEF Guide
  <1>16. ASSUME NEW m \in 1..count, NEW k \in 1..F, NEW c \in Nat, c = i + b[m] + k - 1
         PROVE  /\ next[last + m][k].child # 0 => c \in 1..last /\ next[last + m][k].child = c
                /\ c <= last => /\ next[last + m][k].child = c
                                /\ next[last + m][k].key = nodes[c][F].key
    <2>1. next[last + m][k] = UpperEntry(nodes, last, c)
      BY <1>12, <1>16
    <2>2. c \in Nat /\ c >= 1
      BY <1>1, <1>8, <1>16
    <2>3. CASE c <= last
      <3>1. next[last + m][k] = [key |-> nodes[c][F].key, child |-> c]
        BY <1>3, <2>1, <2>3 DEF UpperEntry
      <3>2. QED
        BY <2>2, <2>3, <3>1
    <2>4. CASE ~(c <= last)
      <3>1. next[last + m][k].child = 0
        BY <2>1, <2>4 DEF UpperEntry, NoChild
      <3>2. QED
        BY <2>4, <3>1
    <2>5. QED
      BY <2>3, <2>4
  <1>17. ASSUME NEW m \in 1..count
         PROVE  i + b[m] \in 1..last /\ L1[last + m] = L[i + b[m]] /\ L1[last + m] \in 1..Len(s)
    <2>1. PICK c \in 1..last : c = i + b[m]
      BY <1>1, <1>2, <1>8
    <2>2. L[c] \in 1..Len(s)
      BY <1>1 DEF Guide
    <2>3. QED
      BY <1>14, <2>1, <2>2
  <1>18. ASSUME NEW m \in 1..count PROVE Guide(next, s, lo, L1, last + m)
    <2>1. PICK p \in Nat : p = last + m /\ p > lo /\ ~(p <= lo) /\ p - 1 >= last
      BY <1>5
    <2>2. PICK c0 \in 1..last : c0 = i + b[m]
      BY <1>17
    <2>3. ASSUME NEW k \in 1..F, next[p][k].child # 0
          PROVE  /\ next[p][k].child = i + b[m] + k - 1 /\ next[p][k].child \in 1..last
                 /\ Begin(next, lo, L1, p, k) = L[i + b[m] + k - 1]
      <3>1. PICK c \in Nat : c = i + b[m] + k - 1
        BY <1>1, <1>8
      <3>2. c \in 1..last /\ next[p][k].child = c
        BY <1>16, <2>1, <2>3, <3>1
      <3>3. L1[c] = L[c]
        BY <1>13, <3>2
      <3>4. QED
        BY <2>1, <3>1, <3>2, <3>3 DEF Begin
    <2>4. 1 \in 1..F /\ c0 \in Nat /\ c0 = i + b[m] + 1 - 1 /\ c0 <= last /\ c0 # 0
      BY <1>1, <1>3, <1>8, <2>2
    <2>5. next[p][1].child = c0
      BY <1>16, <2>1, <2>4
    <2>6. Begin(next, lo, L1, p, 1) = L[c0]
      BY <2>3, <2>4, <2>5
    <2>7. L1[p] \in 1..Len(s) /\ L1[p] = L[c0]
      BY <1>17, <2>1, <2>2
    <2>8. ASSUME NEW k \in 1..(F - 1), next[p][k + 1].child # 0
          PROVE  /\ Begin(next, lo, L1, p, k + 1) \in 2..Len(s)
                 /\ next[p][k].key = Key(s[Begin(next, lo, L1, p, k + 1) - 1].rec)
      <3>1. PICK x \in Nat : x = b[m]
        BY <1>8
      <3>2. PICK c \in Nat : c = i + b[m] + k - 1 /\ c >= i
        <4>1. k \in Nat /\ k >= 1
          BY <1>3
        <4>2. i + x + k - 1 \in Nat /\ i + x + k - 1 >= i
          BY <4>1
        <4>3. QED
          BY <3>1, <4>2
      <3>3. k \in 1..F /\ k + 1 \in 1..F /\ i + b[m] + (k + 1) - 1 = c + 1
        <4>1. k \in 1..F /\ k + 1 \in 1..F
          BY <1>3
        <4>2. i + x + (k + 1) - 1 = (i + x + k - 1) + 1
          BY <4>1
        <4>3. QED
          BY <3>1, <3>2, <4>1, <4>2
      <3>4. c + 1 \in 1..last /\ Begin(next, lo, L1, p, k + 1) = L[c + 1]
        BY <2>3, <2>8, <3>3
      <3>5. c \in i..(last - 1) /\ c <= last
        BY <3>2, <3>4
      <3>6. L[c + 1] \in 2..Len(s) /\ nodes[c][F].key = Key(s[L[c + 1] - 1].rec)
        BY <1>1, <1>3, <3>5
      <3>7. next[p][k].key = nodes[c][F].key
        BY <1>16, <2>1, <3>2, <3>3, <3>5
      <3>8. QED
        BY <3>4, <3>6, <3>7
    <2>9. \A k \in 1..F : next[p][k].child # 0 => next[p][k].child \in 1..(p - 1)
      BY <2>1, <2>3
    <2>10. Guide(next, s, lo, L1, p)
      BY <1>3, <2>4, <2>5, <2>6, <2>7, <2>8, <2>9 DEF Guide
    <2>11. QED
      BY <2>1, <2>10
  <1>19. ASSUME NEW p \in (last + 1)..top PROVE \E m \in 1..count : p = last + m
    <2>1. p - last \in 1..count /\ p = last + (p - last)
      BY <1>5, <1>10
    <2>2. QED
      BY <2>1
  <1>20. ASSUME NEW p \in 1..top PROVE Guide(next, s, lo, L1, p)
    <2>1. CASE p <= last
      BY <1>15, <2>1
    <2>2. CASE ~(p <= last)
      <3>1. PICK m \in 1..count : p = last + m
        <4>1. p \in (last + 1)..top
          BY <1>1, <1>10, <2>2
        <4>2. QED
          BY <1>19, <4>1
      <3>2. QED
        BY <1>18, <3>1
    <2>3. QED
      BY <2>1, <2>2
  <1>21. ASSUME NEW p \in (last + 1)..(top - 1)
         PROVE  L1[p + 1] \in 2..Len(s) /\ next[p][F].key = Key(s[L1[p + 1] - 1].rec)
    <2>1. PICK m \in 1..count : p = last + m
      <3>1. p \in (last + 1)..top
        BY <1>1, <1>10
      <3>2. QED
        BY <1>19, <3>1
    <2>2. m < count /\ m + 1 \in 1..count /\ p + 1 = last + (m + 1)
      BY <1>5, <1>10, <2>1
    <2>3. PICK x \in Nat : x = b[m]
      BY <1>8
    <2>4. PICK c \in Nat : c = i + b[m] + F - 1 /\ c >= i
      BY <1>1, <1>3, <2>3
    <2>5. b[m + 1] = b[m] + F /\ b[m] + F < w /\ b[m] \in Nat
      BY <1>8, <2>2
    <2>6. i + b[m + 1] = c + 1 /\ c \in i..(last - 1) /\ c <= last /\ F \in 1..F
      <3>1. c = i + x + F - 1 /\ b[m + 1] = x + F /\ x + F < w
        BY <2>3, <2>4, <2>5
      <3>2. w = last - i + 1
        BY <1>2
      <3>3. F >= 1
        BY <1>3
      <3>4. QED
        BY <2>4, <3>1, <3>2, <3>3
    <2>7. L1[p + 1] = L[c + 1]
      BY <1>17, <2>2, <2>6
    <2>8. L[c + 1] \in 2..Len(s) /\ nodes[c][F].key = Key(s[L[c + 1] - 1].rec)
      BY <1>1, <1>3, <2>6
    <2>9. next[p][F].key = nodes[c][F].key
      BY <1>16, <2>1, <2>4, <2>6
    <2>10. QED
      BY <2>7, <2>8, <2>9
  <1>22. L1[last + 1] = 1
    <2>1. 1 \in 1..count
      BY <1>5
    <2>2. i + b[1] = i
      BY <1>1, <1>9
    <2>3. QED
      BY <1>1, <1>14, <2>1, <2>2
  <1>23. last + 1 = top \/ top - (last + 1) <= lo - 1 - (r + 1)
    BY <1>1, <1>2, <1>5, <1>10, SMTT(40)
  <1>24. last + 1 \in 1..top
    BY <1>10
  <1>25. /\ \A p \in 1..Len(next) : Guide(next, s, lo, L1, p)
         /\ \A p \in (last + 1)..(Len(next) - 1) :
              /\ L1[p + 1] \in 2..Len(s)
              /\ next[p][InternalFanout].key = Key(s[L1[p + 1] - 1].rec)
         /\ last + 1 \in 1..Len(next) /\ L1[last + 1] = 1
         /\ last + 1 = Len(next) \/ Len(next) - (last + 1) <= lo - 1 - (r + 1)
    BY <1>3, <1>10, <1>20, <1>21, <1>22, <1>23, <1>24
  <1>26. Grows(next, s, lo, last + 1, r + 1)
    BY ONLY <1>25 DEF Grows
  <1>27. QED
    BY <1>10, <1>26

\* build_internal_levels adds levels until there is one node on top.
LEMMA NodesBuilt ==
  ASSUME NEW S, NEW s \in Seq(S), s # <<>>,
         NEW nodes, nodes = BuildInternalLevels(s), NEW lo, lo = Len(LowestNodes(s))
  PROVE  /\ Len(nodes) \in Nat /\ lo \in 1..Len(nodes)
         /\ \E L : /\ \A p \in 1..Len(nodes) : Guide(nodes, s, lo, L, p)
                   /\ L[Len(nodes)] = 1
  <1>1. PICK lowest : lowest = LowestNodes(s)
    OBVIOUS
  <1>2. PICK n \in Nat : n = lo
    BY LowestGrows
  <1>3. PICK start : start = [nodes |-> lowest, first |-> 1]
    OBVIOUS
  <1> DEFINE Tab(m, g) == g = [i \in 0..m |-> IF i = 0 THEN start ELSE UpperNodes(g[i - 1])]
  <1>4. nodes = (CHOOSE g : Tab(n, g))[n].nodes
    BY <1>1, <1>2, <1>3 DEF BuildInternalLevels, Iterate
  <1>5. \E g : Tab(n, g)
    <2> DEFINE T == {m \in Nat : \E g : Tab(m, g)}
    <2>1. 0 \in T
      <3>1. PICK g : g = [i \in 0..0 |-> start]
        OBVIOUS
      <3>2. \A i \in 0..0 : i = 0
        OBVIOUS
      <3>3. Tab(0, g)
        BY <3>1, <3>2
      <3>4. QED
        BY <3>3
    <2>2. ASSUME NEW m \in 1..n, m - 1 \in T PROVE m \in T
      <3>1. PICK g : Tab(m - 1, g)
        BY <2>2
      <3>2. PICK h : h = [i \in 0..m |-> IF i = m THEN UpperNodes(g[m - 1]) ELSE g[i]]
        OBVIOUS
      <3>3. ASSUME NEW i \in 0..m PROVE h[i] = IF i = 0 THEN start ELSE UpperNodes(h[i - 1])
        <4>1. CASE i = m
          <5>1. h[i] = UpperNodes(g[m - 1]) /\ i # 0
            BY <3>2, <4>1
          <5>2. i - 1 \in 0..m /\ i - 1 # m
            BY <4>1
          <5>3. h[i - 1] = g[m - 1]
            BY <3>2, <4>1, <5>2
          <5>4. QED
            BY <5>1, <5>3
        <4>2. CASE i # m
          <5>1. i \in 0..(m - 1)
            BY <4>2
          <5>2. h[i] = g[i]
            BY <3>2, <4>2
          <5>3. g[i] = IF i = 0 THEN start ELSE UpperNodes(g[i - 1])
            BY <3>1, <5>1
          <5>4. CASE i = 0
            BY <5>2, <5>3, <5>4
          <5>5. CASE i # 0
            <6>1. i - 1 \in 0..m /\ i - 1 # m
              BY <5>1, <5>5
            <6>2. h[i - 1] = g[i - 1]
              BY <3>2, <6>1
            <6>3. QED
              BY <5>2, <5>3, <5>5, <6>2
          <5>6. QED
            BY <5>4, <5>5
        <4>3. QED
          BY <4>1, <4>2
      <3>4. h = [i \in 0..m |-> h[i]]
        BY <3>2
      <3>5. Tab(m, h)
        BY <3>3, <3>4
      <3>6. m \in Nat
        OBVIOUS
      <3> HIDE DEF Tab
      <3>7. QED
        BY <3>5, <3>6
    <2> HIDE DEF T
    <2>3. n \in T
      BY <2>1, <2>2, NatByStep
    <2>4. QED
      BY <2>3 DEF T
  <1>6. PICK f : Tab(n, f) /\ nodes = f[n].nodes
    BY <1>4, <1>5
  <1>7. \A i \in 0..n : f[i] = IF i = 0 THEN start ELSE UpperNodes(f[i - 1])
    BY <1>6
  <1>8. f[0] = start /\ \A i \in 1..n : f[i] = UpperNodes(f[i - 1])
    <2>1. 0 \in 0..n /\ \A i \in 1..n : i \in 0..n /\ i # 0
      OBVIOUS
    <2>2. QED
      BY <1>7, <2>1
  <1> DEFINE Good(x, r) == \E W, g, i : /\ x = [nodes |-> g, first |-> i] /\ g \in Seq(W)
                                        /\ Len(g) \in Nat /\ n <= Len(g) /\ i \in Nat
                                        /\ Grows(g, s, n, i, r)
  <1> DEFINE T == {r \in Nat : Good(f[r], r)}
  <1>9. 0 \in T
    <2>1. Grows(lowest, s, n, 1, 0) /\ Len(lowest) \in Nat /\ n <= Len(lowest)
      BY <1>1, <1>2, LowestGrows
    <2>2. PICK W : lowest \in Seq(W)
      BY <1>1, LowestGrows
    <2>3. f[0] = [nodes |-> lowest, first |-> 1]
      BY <1>3, <1>8
    <2>4. Good(f[0], 0)
      BY <2>1, <2>2, <2>3
    <2>5. QED
      BY <2>4
  <1>10. ASSUME NEW r \in 1..n, r - 1 \in T PROVE r \in T
    <2>1. PICK q \in Nat : q = r - 1 /\ r = q + 1
      <3>1. r - 1 \in Nat /\ r = (r - 1) + 1
        OBVIOUS
      <3>2. QED
        BY <3>1
    <2>2. PICK W, g, i : /\ f[q] = [nodes |-> g, first |-> i] /\ g \in Seq(W)
                         /\ Len(g) \in Nat /\ n <= Len(g) /\ i \in Nat
                         /\ Grows(g, s, n, i, q)
      BY <1>10, <2>1
    <2>3. PICK last \in Nat : last = Len(g) /\ n <= last
      BY <2>2
    <2>4. i \in 1..last
      BY <2>2, <2>3 DEF Grows
    <2>5. PICK st : st = f[q]
      OBVIOUS
    <2>6. f[r] = UpperNodes(st) /\ st = [nodes |-> g, first |-> i]
      BY <1>8, <2>1, <2>2, <2>5
    <2>7. CASE i = last
      <3>1. st.first = i /\ st.nodes = g
        BY <2>6
      <3>2. f[r] = [nodes |-> g, first |-> i]
        BY <2>3, <2>6, <2>7, <3>1 DEF UpperNodes
      <3>3. Grows(g, s, n, i, r)
        BY <2>2, <2>3, <2>7 DEF Grows
      <3>4. Good(f[r], r)
        BY <2>2, <3>2, <3>3
      <3>5. QED
        BY <3>4
    <2>8. CASE i # last
      <3>1. PICK count, next : /\ UpperNodes(st) = [nodes |-> next, first |-> last + 1]
                               /\ UpperAdded(g, last, i, count, next)
                               /\ \E X : next \in Seq(X)
        BY <2>2, <2>3, <2>4, <2>6, <2>8, UpperShape
      <3>2. n \in 1..last
        <4>1. n >= 1
          <5>1. Grows(lowest, s, n, 1, 0) /\ n = Len(lowest)
            BY <1>1, <1>2, LowestGrows
          <5>2. 1 \in 1..Len(lowest)
            BY <5>1 DEF Grows
          <5>3. QED
            BY <5>1, <5>2
        <4>2. QED
          BY <2>3, <4>1
      <3>3. Grows(next, s, n, last + 1, q + 1) /\ Len(next) \in Nat /\ n <= Len(next)
        BY <2>2, <2>3, <2>8, <3>1, <3>2, UpperGrows
      <3>4. PICK X : next \in Seq(X)
        BY <3>1
      <3>5. f[r] = [nodes |-> next, first |-> last + 1] /\ last + 1 \in Nat
        BY <2>6, <3>1
      <3>6. Good(f[r], r)
        BY <2>1, <3>3, <3>4, <3>5
      <3>7. QED
        BY <3>6
    <2>9. QED
      BY <2>7, <2>8
  <1> HIDE DEF T
  <1>11. n \in T
    BY <1>9, <1>10, NatByStep
  <1>12. PICK i : Len(nodes) \in Nat /\ n <= Len(nodes) /\ Grows(nodes, s, n, i, n)
    <2>1. Good(f[n], n)
      BY <1>11 DEF T
    <2>2. PICK W, g, i : /\ f[n] = [nodes |-> g, first |-> i]
                         /\ Len(g) \in Nat /\ n <= Len(g)
                         /\ Grows(g, s, n, i, n)
      BY <2>1
    <2>3. nodes = g
      BY <1>6, <2>2
    <2>4. QED
      BY <2>2, <2>3
  <1>13. PICK L :
          /\ \A p \in 1..Len(nodes) : Guide(nodes, s, n, L, p)
          /\ i \in 1..Len(nodes) /\ L[i] = 1
          /\ i = Len(nodes) \/ Len(nodes) - i <= n - 1 - n
    BY <1>12 DEF Grows
  <1>14. i = Len(nodes)
    BY <1>12, <1>13
  <1>15. n >= 1
    <2>1. Grows(lowest, s, n, 1, 0) /\ n = Len(lowest)
      BY <1>1, <1>2, LowestGrows
    <2>2. 1 \in 1..Len(lowest)
      BY <2>1 DEF Grows
    <2>3. QED
      BY <2>1, <2>2
  <1>16. QED
    BY <1>2, <1>12, <1>13, <1>14, <1>15

\* No record before position b ends the search.
Below(s, stops, b) == \A q \in 1..(b - 1) : Key(s[q].rec) \notin stops

\* A record behind one that ends the search ends it too.
Closed(s, stops) ==
  \A x, y \in 1..Len(s) : x <= y /\ Key(s[x].rec) \in stops => Key(s[y].rec) \in stops

\* A search never enters a child behind the first record that ends it.
LEMMA NextChildBelow ==
  ASSUME NEW s, NEW n \in Nat, n = Len(s), NEW stops, Closed(s, stops),
         NEW nodes, NEW lo, NEW L, NEW p, Guide(nodes, s, lo, L, p), Below(s, stops, L[p])
  PROVE  \E k \in 1..InternalFanout :
           /\ NextChild(nodes[p], stops) = nodes[p][k].child /\ nodes[p][k].child # 0
           /\ Begin(nodes, lo, L, p, k) \in 1..n
           /\ Below(s, stops, Begin(nodes, lo, L, p, k))
  <1>1. PICK F \in Nat : F = InternalFanout /\ F > 1
    BY FanoutInt
  <1>2. PICK node : node = nodes[p]
    OBVIOUS
  <1>3. PICK ks : ks = {k \in 1..(F - 1) : node[k + 1].child = 0 \/ node[k].key \in stops}
    OBVIOUS
  <1>4. PICK k : k = IF ks = {} THEN F ELSE Min(ks)
    OBVIOUS
  <1>5. NextChild(node, stops) = node[k].child
    BY <1>1, <1>3, <1>4 DEF NextChild
  <1>6. k \in 1..F /\ (k # 1 => k - 1 \in 1..(F - 1) /\ k - 1 \notin ks)
    <2>1. CASE ks = {}
      BY <1>1, <1>4, <2>1
    <2>2. CASE ks # {}
      <3>1. ks \subseteq Nat
        BY <1>1, <1>3
      <3>2. \E x \in ks : \A y \in ks : x <= y
        BY <2>2, <3>1, LeastNat
      <3>3. k \in ks /\ \A y \in ks : k <= y
        BY <1>4, <2>2, <3>2 DEF Min
      <3>4. k \in 1..(F - 1)
        BY <1>3, <3>3
      <3>5. k - 1 \notin ks
        BY <3>3, <3>4
      <3>6. QED
        BY <1>1, <3>4, <3>5
    <2>3. QED
      BY <2>1, <2>2
  <1>7. CASE k = 1
    <2>1. Begin(nodes, lo, L, p, 1) = L[p] /\ L[p] \in 1..n /\ nodes[p][1].child # 0
      BY DEF Guide
    <2>2. QED
      BY <1>1, <1>2, <1>5, <1>6, <1>7, <2>1
  <1>8. CASE k # 1
    <2>1. PICK j \in 1..(F - 1) : j = k - 1 /\ j + 1 = k
      <3>1. k - 1 \in 1..(F - 1) /\ (k - 1) + 1 = k
        BY <1>6, <1>8
      <3>2. QED
        BY <3>1
    <2>2. node[k].child # 0 /\ node[j].key \notin stops
      BY <1>3, <1>6, <1>8, <2>1
    <2>3. PICK b : b = Begin(nodes, lo, L, p, k)
      OBVIOUS
    <2>4. b \in 2..n /\ node[j].key = Key(s[b - 1].rec)
      BY <1>1, <1>2, <2>1, <2>2, <2>3 DEF Guide
    <2>5. Below(s, stops, b)
      <3>1. ASSUME NEW q \in 1..(b - 1), Key(s[q].rec) \in stops PROVE FALSE
        <4>1. q \in 1..Len(s) /\ b - 1 \in 1..Len(s) /\ q <= b - 1
          BY <2>4
        <4>2. Key(s[b - 1].rec) \in stops
          BY <3>1, <4>1 DEF Closed
        <4>3. QED
          BY <2>2, <2>4, <4>2
      <3>2. QED
        BY <3>1 DEF Below
    <2>6. b \in 1..n
      BY <2>4
    <2>7. QED
      BY <1>1, <1>2, <1>5, <1>6, <2>2, <2>3, <2>5, <2>6
  <1>9. QED
    BY <1>7, <1>8

-----------------------------------------------------------------------------
(***************************************************************************)
(* External shards.                                                        *)
(***************************************************************************)

\* A file is what its header says.
WellFormed(s) ==
  /\ s.last_data_page = CeilDiv(s.reccnt, LeafFanout)
  /\ s.root_page = Len(s.file)
  /\ Sorted(Records(s))
  /\ \A n \in s.reccnt..(s.last_data_page * LeafFanout - 1) : RecordAt(s.file, n) = ZeroRecord

\* A search for a key ends on the data page that has the first record at or above it, or
\* on the last one.
Guided(s) ==
  s.reccnt > 0 => \A key :
    LET p == Descend(s, key)
    IN /\ p \in 1..s.last_data_page
       /\ p > 1 => ~(key <= LastKey(s.file, p - 1, s.reccnt))
       /\ p < s.last_data_page => key <= LastKey(s.file, p, s.reccnt)

\* A shard whose records are in S.
IsShard(S, s) ==
  /\ s = [file |-> s.file, root_page |-> s.root_page, last_data_page |-> s.last_data_page,
          reccnt |-> s.reccnt, tscnt |-> s.tscnt]
  /\ s.reccnt \in Nat /\ s.tscnt \in Nat
  /\ Records(s) \in Seq(S)
  /\ WellFormed(s) /\ Guided(s)

\* The data pages of a sequence are a sequence of pages.
LEMMA PagesSeq ==
  ASSUME NEW S, NEW out \in Seq(S)
  PROVE  /\ CeilDiv(Len(out), LeafFanout) \in Nat
         /\ Len(DataPages(out)) = CeilDiv(Len(out), LeafFanout)
         /\ \E U : DataPages(out) \in Seq(U)
  <1>1. Len(out) \in Nat /\ LeafFanout \in Int /\ LeafFanout > 0
    BY LenProperties, FanoutInt
  <1>2. PICK count \in Nat : count = CeilDiv(Len(out), LeafFanout)
    BY <1>1, CeilDivPages
  <1>3. PICK pages : pages = DataPages(out)
    OBVIOUS
  <1>4. pages = [p \in 1..count |-> pages[p]]
    BY <1>2, <1>3 DEF DataPages
  <1>5. PICK U : U = {pages[p] : p \in 1..count}
    OBVIOUS
  <1>6. pages \in [1..count -> U]
    BY <1>4, <1>5
  <1>7. pages \in Seq(U)
    BY <1>6, SeqDef
  <1>8. Len(pages) = count
    BY <1>4, <1>7, LenProperties
  <1>9. QED
    BY <1>2, <1>3, <1>7, <1>8

\* A shard with as many records as were written holds what was written.
LEMMA ShardRecords ==
  ASSUME NEW S, NEW out \in Seq(S), NEW t
  PROVE  Records(ShardOf(out, Len(out), t)) = out
  <1>1. PICK n \in Nat : n = Len(out)
    BY LenProperties
  <1>2. PICK pages : pages = DataPages(out)
    OBVIOUS
  <1>3. PICK U : pages \in Seq(U)
    BY <1>2, PagesSeq
  <1>4. Len(pages) = CeilDiv(n, LeafFanout)
    BY <1>1, <1>2, PagesSeq
  <1>5. PICK file : file = AddInternalLevels(pages, n)
    OBVIOUS
  <1>6. \A p \in 1..Len(pages) : file[p] = pages[p]
    BY <1>3, <1>4, <1>5, LevelsBehindPages
  <1>7. RunRecords(Run(file, Len(out))) = out
    BY <1>2, <1>6, RecordsOfPages
  <1>8. ShardOf(out, Len(out), t).file = file /\ ShardOf(out, Len(out), t).reccnt = Len(out)
    BY <1>1, <1>2, <1>5 DEF ShardOf
  <1>9. QED
    BY <1>7, <1>8 DEF Records

\* The header of a shard describes its pages.
LEMMA ShardShape ==
  ASSUME NEW S, NEW out \in Seq(S), Sorted(out), NEW t
  PROVE  WellFormed(ShardOf(out, Len(out), t))
  <1>1. PICK n \in Nat : n = Len(out)
    BY LenProperties
  <1>2. PICK s : s = ShardOf(out, n, t)
    OBVIOUS
  <1>3. LeafFanout \in Int /\ LeafFanout > 0
    BY FanoutInt
  <1>4. PICK count \in Nat : count = CeilDiv(n, LeafFanout)
    BY <1>3, CeilDivPages
  <1>5. s.last_data_page = count /\ s.reccnt = n /\ s.root_page = Len(s.file)
        /\ s.file = AddInternalLevels(DataPages(out), n)
    <2>1. CASE n > 0
      BY <1>1, <1>2, <1>4, <2>1 DEF ShardOf
    <2>2. CASE n = 0
      <3>1. count = 0
        <4>1. PICK k \in Int : k = LeafFanout - 1
          BY <1>3
        <4>2. PICK z \in Int : z = 0
          OBVIOUS
        <4>3. k = LeafFanout * z + k /\ 0 <= k /\ k < LeafFanout
          BY <1>3, <4>1, <4>2
        <4>4. k \div LeafFanout = z
          BY <1>3, <4>3, DivUnique
        <4>5. QED
          BY <1>3, <1>4, <2>2, <4>1, <4>2, <4>4 DEF CeilDiv
      <3>2. QED
        BY <1>1, <1>2, <2>2, <3>1 DEF ShardOf
    <2>3. QED
      BY <2>1, <2>2
  <1>6. Records(s) = out
    BY <1>1, <1>2, ShardRecords
  <1>7. \A p \in 1..count : s.file[p] = DataPages(out)[p]
    <2>1. PICK pages : pages = DataPages(out)
      OBVIOUS
    <2>2. PICK U : pages \in Seq(U)
      BY <2>1, PagesSeq
    <2>3. Len(pages) = count /\ Len(pages) = CeilDiv(n, LeafFanout)
      BY <1>1, <1>4, <2>1, PagesSeq
    <2>4. \A p \in 1..Len(pages) : AddInternalLevels(pages, n)[p] = pages[p]
      BY <2>2, <2>3, LevelsBehindPages
    <2>5. QED
      BY <1>5, <2>1, <2>3, <2>4
  <1>8. ASSUME NEW j \in n..(count * LeafFanout - 1) PROVE RecordAt(s.file, j) = ZeroRecord
    <2>1. PICK total \in Nat : total = count * LeafFanout
      BY <1>3
    <2>2. PICK q : q = j \div LeafFanout
      OBVIOUS
    <2>3. PICK k : k = j % LeafFanout
      OBVIOUS
    <2>4. j \in Nat /\ j < total
      BY <1>8, <2>1
    <2>5. q \in Int /\ k \in Int /\ 0 <= k /\ k < LeafFanout /\ j = LeafFanout * q + k
      BY <1>3, <2>2, <2>3, <2>4, DivMod
    <2>6. q + 1 \in 1..count
      <3>1. ~(q < 0)
        <4>1. SUFFICES ASSUME q < 0 PROVE FALSE
          OBVIOUS
        <4>2. LeafFanout * q \in Int /\ LeafFanout * q + LeafFanout <= LeafFanout * 0
          BY <1>3, <2>5, <4>1, Multiples
        <4>3. QED
          BY <1>3, <2>4, <2>5, <4>2
      <3>2. ~(count < q) /\ q # count
        <4>1. LeafFanout * count \in Int /\ LeafFanout * count = total
          BY <1>3, <2>1
        <4>2. ASSUME count < q PROVE FALSE
          <5>1. LeafFanout * q \in Int /\ LeafFanout * count + LeafFanout <= LeafFanout * q
            BY <1>3, <2>5, <4>2, Multiples
          <5>2. QED
            BY <1>3, <2>4, <2>5, <4>1, <5>1
        <4>3. QED
          BY <2>4, <2>5, <4>1, <4>2
      <3>3. QED
        BY <2>5, <3>1, <3>2
    <2>7. RecordAt(s.file, j) = s.file[q + 1][k + 1]
      BY <2>2, <2>3 DEF RecordAt
    <2>8. ((q + 1) - 1) * LeafFanout + (k + 1) > n /\ k + 1 \in 1..LeafFanout
      <3>1. ((q + 1) - 1) * LeafFanout = LeafFanout * q
        BY <1>3, <2>5
      <3>2. QED
        BY <1>3, <1>8, <2>5, <3>1
    <2>9. DataPages(out)[q + 1][k + 1] = ZeroRecord
      <3>1. ~(((q + 1) - 1) * LeafFanout + (k + 1) <= Len(out))
        <4>1. ((q + 1) - 1) * LeafFanout + (k + 1) \in Int
          BY <1>3, <2>5
        <4>2. QED
          BY <1>1, <2>8, <4>1
      <3>2. q + 1 \in 1..CeilDiv(Len(out), LeafFanout)
        BY <1>1, <1>4, <2>6
      <3>3. QED
        BY <2>8, <3>1, <3>2 DEF DataPages
    <2>10. QED
      BY <1>7, <2>6, <2>7, <2>9
  <1>9. QED
    BY <1>1, <1>2, <1>4, <1>5, <1>6, <1>8 DEF WellFormed

\* The tree of a shard guides every search.
LEMMA ShardGuided ==
  ASSUME NEW S, NEW out \in Seq(S), NEW t
  PROVE  Guided(ShardOf(out, Len(out), t))
  <1>1. PICK n \in Nat : n = Len(out)
    BY LenProperties
  <1>2. PICK s : s = ShardOf(out, n, t)
    OBVIOUS
  <1>3. PICK pages : pages = DataPages(out)
    OBVIOUS
  <1>4. PICK U : pages \in Seq(U)
    BY <1>3, PagesSeq
  <1>5. PICK d \in Nat : d = Len(pages) /\ d = CeilDiv(n, LeafFanout)
    BY <1>1, <1>3, PagesSeq
  <1>6. PICK file : file = AddInternalLevels(pages, n)
    OBVIOUS
  <1>7. SUFFICES ASSUME n > 0, NEW key
                 PROVE  LET p == Descend(s, key)
                        IN /\ p \in 1..d
                           /\ p > 1 => ~(key <= LastKey(file, p - 1, n))
                           /\ p < d => key <= LastKey(file, p, n)
    <2>1. s.reccnt = n /\ s.file = file
      BY <1>2, <1>3, <1>6 DEF ShardOf
    <2>2. n > 0 => s.last_data_page = d
      BY <1>1, <1>2, <1>5 DEF ShardOf
    <2>3. QED
      BY <1>1, <1>2, <2>1, <2>2 DEF Guided
  <1>8. s.reccnt = n /\ s.file = file /\ s.last_data_page = d /\ s.root_page = Len(file)
    BY <1>1, <1>2, <1>3, <1>5, <1>6, <1>7 DEF ShardOf
  <1>9. d # 0
    <2>1. n <= CeilDiv(n, LeafFanout) * LeafFanout
      BY FanoutInt, CeilDivPages
    <2>2. QED
      BY <1>5, <1>7, <2>1, FanoutInt
  <1>10. /\ Len(file) \in Nat /\ d <= Len(file)
         /\ \E A, M, B, E : /\ Tree(file, Len(file), d, n, A, M, B, E)
                            /\ Len(file) \in B /\ Len(file) \in E
    BY <1>4, <1>5, <1>6, <1>9, TreeBuilt
  <1>11. PICK last \in Nat : last = Len(file) /\ d \in 1..last
    BY <1>9, <1>10
  <1>12. PICK A, M, B, E : Tree(file, last, d, n, A, M, B, E) /\ last \in B /\ last \in E
    BY <1>10, <1>11
  <1>13. PICK p : p = Descend(s, key)
    OBVIOUS
  <1>14. p \in 1..d /\ Right(file, n, B, E, key, p)
    BY <1>5, <1>8, <1>11, <1>12, <1>13, DescendRight
  <1>15. (p \in B => p = 1) /\ (p \in E => p = d)
    BY <1>12, <1>14 DEF Tree
  <1>16. QED
    BY <1>13, <1>14, <1>15 DEF Right

\* What is written as a shard is one.
LEMMA ShardOfIsShard ==
  ASSUME NEW S, NEW out \in Seq(S), Sorted(out), NEW t \in Nat
  PROVE  IsShard(S, ShardOf(out, Len(out), t)) /\ Records(ShardOf(out, Len(out), t)) = out
  <1>1. PICK m \in Nat : m = Len(out)
    BY LenProperties
  <1>2. PICK s : s = ShardOf(out, m, t)
    OBVIOUS
  <1>3. Records(s) = out
    BY <1>1, <1>2, ShardRecords
  <1>4. s.reccnt = m /\ s.tscnt = t
        /\ s = [file |-> s.file, root_page |-> s.root_page, last_data_page |-> s.last_data_page,
                reccnt |-> s.reccnt, tscnt |-> s.tscnt]
    BY <1>2 DEF ShardOf
  <1>5. WellFormed(s) /\ Guided(s)
    BY <1>1, <1>2, ShardShape, ShardGuided
  <1>6. QED
    BY <1>1, <1>2, <1>3, <1>4, <1>5 DEF IsShard

\* Slot k of data page p holds record (p - 1) * LeafFanout + k of the shard, or zeroes
\* behind the last.
LEMMA SlotRecord ==
  ASSUME NEW S, NEW s, IsShard(S, s), NEW p \in 1..s.last_data_page, NEW k \in 1..LeafFanout,
         NEW j, j = (p - 1) * LeafFanout + k
  PROVE  /\ j \in Nat /\ j # 0
         /\ j <= Len(Records(s)) => s.file[p][k] = Records(s)[j]
         /\ ~(j <= Len(Records(s))) => s.file[p][k] = ZeroRecord
  <1>1. PICK d \in Nat : d = LeafFanout /\ d > 0
    BY FanoutInt
  <1>2. PICK n \in Nat : n = s.reccnt
    BY DEF IsShard
  <1>3. PICK c \in Seq(S) : c = Records(s)
    BY DEF IsShard
  <1>4. c = [i \in 1..n |-> RecordAt(s.file, i - 1)]
    BY <1>2, <1>3 DEF Records, RunRecords, Run
  <1>5. Len(c) = n
    BY <1>4, LenProperties
  <1>6. PICK count \in Nat : count = s.last_data_page
    <2>1. s.last_data_page = CeilDiv(n, d)
      BY <1>1, <1>2 DEF IsShard, WellFormed
    <2>2. QED
      BY <1>1, <2>1, CeilDivPages
  <1>7. PICK q \in Nat : q = p - 1 /\ q < count
    <2>1. p - 1 \in Nat /\ p - 1 < count
      BY <1>6
    <2>2. QED
      BY <2>1
  <1>8. PICK i \in Int : i = d * q + (k - 1)
    BY <1>1, <1>7
  <1>9. i \in Nat /\ i = j - 1 /\ j \in Nat /\ j # 0
    <2>1. d * q \in Nat /\ (p - 1) * LeafFanout = d * q
      BY <1>1, <1>7
    <2>2. QED
      BY <1>1, <1>8, <2>1
  <1>10. i \div d = q /\ i % d = k - 1
    <2>1. k - 1 \in Int /\ 0 <= k - 1 /\ k - 1 < d
      BY <1>1
    <2>2. QED
      BY <1>1, <1>7, <1>8, <2>1, DivUnique
  <1>11. RecordAt(s.file, i) = s.file[p][k]
    <2>1. q + 1 = p /\ (k - 1) + 1 = k
      BY <1>1, <1>7
    <2>2. QED
      BY <1>1, <1>10, <2>1 DEF RecordAt
  <1>12. CASE j <= n
    <2>1. j \in 1..n
      BY <1>9, <1>12
    <2>2. c[j] = RecordAt(s.file, i)
      BY <1>4, <1>9, <2>1
    <2>3. QED
      BY <1>3, <1>5, <1>9, <1>11, <1>12, <2>2
  <1>13. CASE ~(j <= n)
    <2>1. d * q + d <= d * count /\ d * q \in Int /\ d * count \in Int
      BY <1>1, <1>7, Multiples
    <2>2. i \in n..(d * count - 1)
      BY <1>1, <1>8, <1>9, <1>13, <2>1
    <2>3. s.last_data_page * LeafFanout = d * count
      BY <1>1, <1>6
    <2>4. RecordAt(s.file, i) = ZeroRecord
      BY <1>2, <2>2, <2>3 DEF IsShard, WellFormed
    <2>5. QED
      BY <1>3, <1>5, <1>9, <1>11, <1>13, <2>4
  <1>14. QED
    BY <1>12, <1>13

\* The last key of a data page that is full.
LEMMA FullPageKey ==
  ASSUME NEW S, NEW s, IsShard(S, s), NEW p \in 1..(s.last_data_page - 1),
         NEW j, j = (p - 1) * LeafFanout + LeafFanout
  PROVE  /\ j \in 1..Len(Records(s))
         /\ LastKey(s.file, p, s.reccnt) = Key(Records(s)[j].rec)
  <1>1. PICK d \in Nat : d = LeafFanout /\ d > 0
    BY FanoutInt
  <1>2. PICK n \in Nat : n = s.reccnt
    BY DEF IsShard
  <1>3. PICK c \in Seq(S) : c = Records(s)
    BY DEF IsShard
  <1>4. c = [i \in 1..n |-> RecordAt(s.file, i - 1)]
    BY <1>2, <1>3 DEF Records, RunRecords, Run
  <1>5. Len(c) = n
    BY <1>4, LenProperties
  <1>6. s.last_data_page = CeilDiv(n, d)
    BY <1>1, <1>2 DEF IsShard, WellFormed
  <1>7. PICK count \in Nat : count = s.last_data_page
    BY <1>1, <1>6, CeilDivPages
  <1>8. p \in Nat /\ p + 1 \in 1..count /\ p \in 1..count /\ p < count
    BY <1>7
  <1>9. PICK b \in Nat : b = (p - 1) * d
    <2>1. (p - 1) * d \in Nat
      BY <1>1, <1>6, <1>7, <1>8, CeilDivPages
    <2>2. QED
      BY <2>1
  <1>10. b + d < n
    <2>1. ((p + 1) - 1) * d < n
      BY <1>1, <1>6, <1>7, <1>8, CeilDivPages
    <2>2. ((p + 1) - 1) * d = b + d
      BY <1>1, <1>8, <1>9
    <2>3. QED
      BY <2>1, <2>2
  <1>11. j = b + d /\ j \in 1..n
    BY <1>1, <1>9, <1>10
  <1>12. LastKey(s.file, p, n) = Key(s.file[p][d].rec)
    <2>1. PICK m \in Int : m = n - b
      OBVIOUS
    <2>2. d < m
      BY <1>10, <2>1
    <2>3. Min({d, m}) = d
      BY <1>1, <2>2 DEF Min
    <2>4. LastKey(s.file, p, n) = Key(s.file[p][Min({LeafFanout, n - (p - 1) * LeafFanout})].rec)
      BY <1>1, <1>6, <1>7, <1>8 DEF LastKey
    <2>5. QED
      BY <1>1, <1>9, <2>1, <2>3, <2>4
  <1>13. s.file[p][d] = c[j]
    <2>1. d \in 1..LeafFanout /\ p \in 1..s.last_data_page
      BY <1>1, <1>7, <1>8
    <2>2. j <= Len(Records(s))
      BY <1>3, <1>5, <1>11
    <2>3. QED
      BY <1>1, <1>3, <2>1, <2>2, SlotRecord
  <1>14. QED
    BY <1>2, <1>3, <1>5, <1>11, <1>12, <1>13

\* Position i is the last of those with a key below key.
Splits(c, key, i) ==
  /\ i \in 0..Len(c)
  /\ \A q \in 1..i : Key(c[q].rec) < key
  /\ \A q \in (i + 1)..Len(c) : key <= Key(c[q].rec)

\* Keys of a sorted sequence do not decrease.
LEMMA KeysSorted ==
  ASSUME NEW S \in SUBSET AnyWrapped, NEW c \in Seq(S), Sorted(c)
  PROVE  \A i, j \in 1..Len(c) : /\ Key(c[i].rec) \in Nat
                                 /\ i <= j => Key(c[i].rec) <= Key(c[j].rec)
  <1>1. PICK n \in Nat : n = Len(c) /\ DOMAIN c = 1..n
    BY LenProperties
  <1>2. \A i \in 1..n : c[i] \in AnyWrapped
    BY <1>1, ElementOfSeq
  <1>3. \A i \in 1..n : c[i].rec \in Nat \X Nat
    BY <1>2 DEF AnyWrapped
  <1>4. ASSUME NEW i \in 1..n, NEW j \in 1..n, i <= j
        PROVE  Key(c[i].rec) <= Key(c[j].rec)
    <2>1. CASE i = j
      BY <1>3, <2>1 DEF Key
    <2>2. CASE i < j
      <3>1. ~RecLess(c[j].rec, c[i].rec)
        BY <1>1, <2>2 DEF Sorted, ByRecord
      <3>2. QED
        BY <1>3, <3>1 DEF RecLess, Key
    <2>3. QED
      BY <1>4, <2>1, <2>2
  <1>5. \A i \in 1..n : Key(c[i].rec) \in Nat
    BY <1>3 DEF Key
  <1>6. QED
    BY <1>1, <1>4, <1>5

\* get_lower_bound leads to the first record at or above a key, and behind the records
\* when there is none.
LEMMA LowerBoundExact ==
  ASSUME NEW S \in SUBSET AnyWrapped, NEW s, IsShard(S, s), Records(s) # <<>>,
         NEW key \in Nat \ {0}, NEW at, at = ExternalLowerBound(s, key),
         NEW idx, idx = (at.page - 1) * LeafFanout + at.slot
  PROVE  /\ at.page \in 1..s.last_data_page /\ at.slot \in 0..LeafFanout /\ idx \in Nat
         /\ Splits(Records(s), key, idx)
            \/ (Splits(Records(s), key, Len(Records(s))) /\ idx >= Len(Records(s)))
  <1>1. PICK d \in Nat : d = LeafFanout /\ d > 0
    BY FanoutInt
  <1>2. PICK n \in Nat : n = s.reccnt
    BY DEF IsShard
  <1>3. PICK c \in Seq(S) : c = Records(s)
    BY DEF IsShard
  <1>4. Len(c) = n /\ DOMAIN c = 1..n
    <2>1. c = [i \in 1..n |-> RecordAt(s.file, i - 1)]
      BY <1>2, <1>3 DEF Records, RunRecords, Run
    <2>2. QED
      BY <2>1, LenProperties
  <1>5. n > 0
    BY <1>3, <1>4, EmptySeq
  <1>6. \A i, j \in 1..n : /\ Key(c[i].rec) \in Nat
                           /\ i <= j => Key(c[i].rec) <= Key(c[j].rec)
    <2>1. Sorted(c)
      BY <1>3 DEF IsShard, WellFormed
    <2>2. QED
      BY <1>4, <2>1, KeysSorted
  <1>7. s.last_data_page = CeilDiv(n, d)
    BY <1>1, <1>2 DEF IsShard, WellFormed
  <1>8. PICK count \in Nat : count = s.last_data_page
    BY <1>1, <1>7, CeilDivPages
  <1>9. n <= count * d
    BY <1>1, <1>7, <1>8, CeilDivPages
  <1>10. PICK p : p = Descend(s, key)
    OBVIOUS
  <1>11. /\ p \in 1..count
         /\ p > 1 => ~(key <= LastKey(s.file, p - 1, s.reccnt))
         /\ p < count => key <= LastKey(s.file, p, s.reccnt)
    BY <1>2, <1>5, <1>8, <1>10 DEF IsShard, Guided
  <1>12. PICK b \in Nat : b = (p - 1) * LeafFanout
    <2>1. (p - 1) * d \in Nat
      BY <1>1, <1>7, <1>8, <1>11, CeilDivPages
    <2>2. QED
      BY <1>1, <2>1
  <1>13. ASSUME NEW k \in 1..d
         PROVE  /\ b + k <= n => s.file[p][k] = c[b + k]
                /\ ~(b + k <= n) => s.file[p][k] = ZeroRecord
    <2>1. p \in 1..s.last_data_page /\ k \in 1..LeafFanout
      BY <1>1, <1>8, <1>11
    <2>2. PICK j : j = (p - 1) * LeafFanout + k
      OBVIOUS
    <2>3. /\ j <= Len(Records(s)) => s.file[p][k] = Records(s)[j]
          /\ ~(j <= Len(Records(s))) => s.file[p][k] = ZeroRecord
      BY <2>1, <2>2, SlotRecord
    <2>4. j = b + k
      BY <1>12, <2>2
    <2>5. QED
      BY <1>3, <1>4, <2>3, <2>4
  <1>14. ASSUME NEW q \in 1..n, q <= b PROVE Key(c[q].rec) < key
    <2>1. p > 1
      <3>1. CASE p = 1
        <4>1. b = 0
          BY <1>1, <1>12, <3>1
        <4>2. QED
          BY <1>14, <4>1
      <3>2. QED
        BY <1>11, <3>1
    <2>2. PICK o : o = p - 1
      OBVIOUS
    <2>3. o \in 1..(s.last_data_page - 1) /\ o \in Nat
      BY <1>8, <1>11, <2>1, <2>2
    <2>4. PICK j : j = (o - 1) * LeafFanout + LeafFanout
      OBVIOUS
    <2>5. j = b
      BY <1>1, <1>11, <1>12, <2>2, <2>4
    <2>6. j \in 1..Len(Records(s)) /\ LastKey(s.file, o, s.reccnt) = Key(Records(s)[j].rec)
      BY <2>3, <2>4, FullPageKey
    <2>7. b \in 1..n /\ ~(key <= Key(c[b].rec))
      BY <1>3, <1>4, <1>11, <2>1, <2>2, <2>5, <2>6
    <2>8. Key(c[q].rec) \in Nat /\ Key(c[b].rec) \in Nat /\ Key(c[q].rec) <= Key(c[b].rec)
      BY <1>6, <1>14, <2>7
    <2>9. QED
      BY <2>7, <2>8
  <1>15. PICK hits : hits = {k \in 1..d : Key(s.file[p][k].rec) >= key}
    OBVIOUS
  <1>16. at.page = p /\ at.slot = IF hits = {} THEN d ELSE Min(hits) - 1
    BY <1>1, <1>10, <1>15 DEF ExternalLowerBound
  <1>17. idx = b + at.slot
    BY <1>12, <1>16
  <1>18. Key(ZeroRecord.rec) = 0
    BY DEF Key, ZeroRecord
  <1>19. \A k \in 1..d : k \in hits <=> (b + k <= n /\ key <= Key(c[b + k].rec))
    <2>1. ASSUME NEW k \in 1..d PROVE k \in hits <=> (b + k <= n /\ key <= Key(c[b + k].rec))
      <3>1. CASE b + k <= n
        <4>1. b + k \in 1..n
          BY <3>1
        <4>2. Key(c[b + k].rec) \in Nat /\ s.file[p][k] = c[b + k]
          BY <1>6, <1>13, <3>1, <4>1
        <4>3. QED
          BY <1>15, <3>1, <4>2
      <3>2. CASE ~(b + k <= n)
        <4>1. Key(s.file[p][k].rec) = 0
          BY <1>13, <1>18, <3>2
        <4>2. QED
          BY <1>15, <3>2, <4>1
      <3>3. QED
        BY <3>1, <3>2
    <2>2. QED
      BY <2>1
  <1>20. CASE hits = {}
    <2>1. at.slot = d /\ idx = b + d
      BY <1>16, <1>17, <1>20
    <2>2. p = count
      <3>1. SUFFICES ASSUME p # count PROVE FALSE
        OBVIOUS
      <3>2. p \in 1..(s.last_data_page - 1) /\ p < count
        BY <1>8, <1>11, <3>1
      <3>3. PICK j : j = (p - 1) * LeafFanout + LeafFanout
        OBVIOUS
      <3>4. j = b + d
        BY <1>1, <1>12, <3>3
      <3>5. j \in 1..Len(Records(s)) /\ LastKey(s.file, p, s.reccnt) = Key(Records(s)[j].rec)
        BY <3>2, <3>3, FullPageKey
      <3>6. b + d <= n /\ key <= Key(c[b + d].rec)
        BY <1>3, <1>4, <1>11, <3>2, <3>4, <3>5
      <3>7. d \in hits
        BY <1>1, <1>19, <3>6
      <3>8. QED
        BY <1>20, <3>7
    <2>3. n <= b + d
      <3>1. count * d = b + d
        BY <1>1, <1>8, <1>12, <2>2, SMTT(40)
      <3>2. QED
        BY <1>9, <3>1
    <2>4. ASSUME NEW q \in 1..n PROVE Key(c[q].rec) < key
      <3>1. CASE q <= b
        BY <1>14, <3>1
      <3>2. CASE ~(q <= b)
        <4>1. PICK k \in 1..d : k = q - b /\ b + k = q
          <5>1. q - b \in 1..d /\ b + (q - b) = q
            BY <2>3, <3>2
          <5>2. QED
            BY <5>1
        <4>2. ~(key <= Key(c[b + k].rec))
          <5>1. k \notin hits /\ b + k <= n
            BY <1>20, <4>1
          <5>2. QED
            BY <1>19, <5>1
        <4>3. Key(c[q].rec) \in Nat
          BY <1>6
        <4>4. QED
          BY <4>1, <4>2, <4>3
      <3>3. QED
        BY <3>1, <3>2
    <2>5. Splits(c, key, n)
      BY <1>4, <2>4 DEF Splits
    <2>6. QED
      BY <1>1, <1>3, <1>4, <1>8, <1>11, <1>16, <2>1, <2>3, <2>5
  <1>21. CASE hits # {}
    <2>1. PICK k : k = Min(hits)
      OBVIOUS
    <2>2. k \in hits /\ \A j \in hits : k <= j
      <3>1. hits \subseteq Nat
        BY <1>15
      <3>2. \E x \in hits : \A y \in hits : x <= y
        BY <1>21, <3>1, LeastNat
      <3>3. QED
        BY <2>1, <3>2 DEF Min
    <2>3. k \in 1..d /\ at.slot = k - 1
      BY <1>15, <1>16, <1>21, <2>1, <2>2
    <2>4. b + k <= n /\ key <= Key(c[b + k].rec)
      BY <1>19, <2>2, <2>3
    <2>5. idx = b + k - 1 /\ idx \in 0..n /\ idx \in Nat
      BY <1>17, <2>3, <2>4
    <2>6. ASSUME NEW q \in 1..idx PROVE Key(c[q].rec) < key
      <3>1. q \in 1..n
        BY <2>5
      <3>2. CASE q <= b
        BY <1>14, <3>1, <3>2
      <3>3. CASE ~(q <= b)
        <4>1. PICK j \in 1..d : j = q - b /\ b + j = q /\ j < k
          <5>1. q - b \in 1..d /\ b + (q - b) = q /\ q - b < k
            BY <2>3, <2>5, <3>3
          <5>2. QED
            BY <5>1
        <4>2. j \notin hits
          BY <2>2, <2>3, <4>1
        <4>3. ~(key <= Key(c[q].rec))
          BY <1>19, <3>1, <4>1, <4>2
        <4>4. Key(c[q].rec) \in Nat
          BY <1>6, <3>1
        <4>5. QED
          BY <4>3, <4>4
      <3>4. QED
        BY <3>2, <3>3
    <2>7. ASSUME NEW q \in (idx + 1)..n PROVE key <= Key(c[q].rec)
      <3>1. q \in 1..n /\ b + k \in 1..n /\ b + k <= q
        BY <2>3, <2>4, <2>5
      <3>2. Key(c[b + k].rec) <= Key(c[q].rec) /\ Key(c[b + k].rec) \in Nat /\ Key(c[q].rec) \in Nat
        BY <1>6, <3>1
      <3>3. QED
        BY <2>4, <3>2
    <2>8. Splits(c, key, idx)
      BY <1>4, <2>5, <2>6, <2>7 DEF Splits
    <2>9. QED
      BY <1>1, <1>3, <1>8, <1>11, <1>16, <2>3, <2>5, <2>8, SMTT(40)
  <1>22. QED
    BY <1>20, <1>21

\* point_lookup finds nothing that is not in the shard.
LEMMA LookupSound ==
  ASSUME NEW S \in SUBSET AnyWrapped, NEW s, IsShard(S, s), Records(s) # <<>>,
         NEW rec \in (Nat \ {0}) \X Nat, ExternalPointLookup(s, rec) # <<>>
  PROVE  \E j \in 1..Len(Records(s)) : Records(s)[j].rec = rec
  <1>1. PICK at : at = ExternalLowerBound(s, Key(rec))
    OBVIOUS
  <1>2. Key(rec) \in Nat \ {0} /\ rec # <<0, 0>>
    BY DEF Key
  <1>3. PICK idx : idx = (at.page - 1) * LeafFanout + at.slot
    OBVIOUS
  <1>4. at.page \in 1..s.last_data_page /\ at.slot \in 0..LeafFanout
    BY <1>1, <1>2, <1>3, LowerBoundExact
  <1>5. at.slot < LeafFanout /\ s.file[at.page][at.slot + 1].rec = rec
    BY <1>1 DEF ExternalPointLookup
  <1>6. PICK k \in 1..LeafFanout : k = at.slot + 1
    BY <1>4, <1>5, FanoutInt
  <1>7. PICK p \in 1..s.last_data_page : p = at.page
    BY <1>4
  <1>8. PICK j : j = (p - 1) * LeafFanout + k
    OBVIOUS
  <1>9. /\ j \in Nat /\ j # 0
        /\ j <= Len(Records(s)) => s.file[p][k] = Records(s)[j]
        /\ ~(j <= Len(Records(s))) => s.file[p][k] = ZeroRecord
    BY <1>8, SlotRecord
  <1>10. s.file[p][k].rec = rec
    BY <1>5, <1>6, <1>7
  <1>11. ZeroRecord.rec = <<0, 0>>
    BY DEF ZeroRecord
  <1>12. j <= Len(Records(s))
    BY <1>2, <1>9, <1>10, <1>11
  <1>13. Len(Records(s)) \in Nat
    BY LenProperties DEF IsShard
  <1>14. j \in 1..Len(Records(s)) /\ Records(s)[j].rec = rec
    BY <1>9, <1>10, <1>12, <1>13
  <1>15. QED
    BY <1>14

\* A search ends on a leaf, and no record before the leaf ends the scan.
LEMMA LeafBelow ==
  ASSUME NEW S, NEW s \in Seq(S), s # <<>>, NEW stops, Closed(s, stops)
  PROVE  Leaf(s, stops) \in 1..Len(s) /\ Below(s, stops, Leaf(s, stops))
  <1>1. PICK n \in Nat : n = Len(s)
    BY LenProperties
  <1>2. PICK nodes : nodes = BuildInternalLevels(s)
    OBVIOUS
  <1>3. PICK lo : lo = Len(LowestNodes(s))
    OBVIOUS
  <1>4. PICK top \in Nat : top = Len(nodes) /\ lo \in 1..top
    BY <1>2, <1>3, NodesBuilt
  <1>5. PICK L : (\A p \in 1..top : Guide(nodes, s, lo, L, p)) /\ L[top] = 1
    BY <1>2, <1>3, <1>4, NodesBuilt
  <1>6. PICK start : start = [now |-> top, leaf |-> FALSE]
    OBVIOUS
  <1> DEFINE round(x) == SearchRound(nodes, lo, x, stops)
  <1> DEFINE Tab(m, g) == g = [i \in 0..m |-> IF i = 0 THEN start ELSE round(g[i - 1])]
  <1>7. Leaf(s, stops) = (CHOOSE g : Tab(top, g))[top].now
    BY <1>2, <1>3, <1>4, <1>6 DEF Leaf, Iterate
  <1> HIDE DEF round
  <1>8. \E g : Tab(top, g)
    <2> DEFINE T == {m \in Nat : \E g : Tab(m, g)}
    <2>1. 0 \in T
      <3>1. PICK g : g = [i \in 0..0 |-> start]
        OBVIOUS
      <3>2. \A i \in 0..0 : i = 0
        OBVIOUS
      <3>3. Tab(0, g)
        BY <3>1, <3>2
      <3>4. QED
        BY <3>3
    <2>2. ASSUME NEW m \in 1..top, m - 1 \in T PROVE m \in T
      <3>1. PICK g : Tab(m - 1, g)
        BY <2>2
      <3>2. PICK h : h = [i \in 0..m |-> IF i = m THEN round(g[m - 1]) ELSE g[i]]
        OBVIOUS
      <3>3. ASSUME NEW i \in 0..m PROVE h[i] = IF i = 0 THEN start ELSE round(h[i - 1])
        <4>1. CASE i = m
          <5>1. h[i] = round(g[m - 1]) /\ i # 0
            BY <3>2, <4>1
          <5>2. i - 1 \in 0..m /\ i - 1 # m
            BY <4>1
          <5>3. h[i - 1] = g[m - 1]
            BY <3>2, <4>1, <5>2
          <5>4. QED
            BY <5>1, <5>3
        <4>2. CASE i # m
          <5>1. i \in 0..(m - 1)
            BY <4>2
          <5>2. h[i] = g[i]
            BY <3>2, <4>2
          <5>3. g[i] = IF i = 0 THEN start ELSE round(g[i - 1])
            BY <3>1, <5>1
          <5>4. CASE i = 0
            BY <5>2, <5>3, <5>4
          <5>5. CASE i # 0
            <6>1. i - 1 \in 0..m /\ i - 1 # m
              BY <5>1, <5>5
            <6>2. h[i - 1] = g[i - 1]
              BY <3>2, <6>1
            <6>3. QED
              BY <5>2, <5>3, <5>5, <6>2
          <5>6. QED
            BY <5>4, <5>5
        <4>3. QED
          BY <4>1, <4>2
      <3>4. h = [i \in 0..m |-> h[i]]
        BY <3>2
      <3>5. Tab(m, h)
        BY <3>3, <3>4
      <3>6. m \in Nat
        OBVIOUS
      <3> HIDE DEF Tab
      <3>7. QED
        BY <3>5, <3>6
    <2> HIDE DEF T
    <2>3. top \in T
      BY <2>1, <2>2, NatByStep
    <2>4. QED
      BY <2>3 DEF T
  <1>9. PICK f : Tab(top, f) /\ Leaf(s, stops) = f[top].now
    BY <1>7, <1>8
  <1>10. \A i \in 0..top : f[i] = IF i = 0 THEN start ELSE round(f[i - 1])
    BY <1>9
  <1> DEFINE AtLeaf(x) == x.leaf /\ x.now \in 1..n /\ Below(s, stops, x.now)
  <1> DEFINE AtNode(x, i) == ~x.leaf /\ x.now \in 1..top /\ x.now <= top - i /\ Below(s, stops, L[x.now])
  <1> DEFINE T == {i \in Nat : AtLeaf(f[i]) \/ AtNode(f[i], i)}
  <1>11. 0 \in T
    <2>1. f[0] = start
      BY <1>10
    <2>2. Below(s, stops, L[top])
      BY <1>5 DEF Below
    <2>3. top \in 1..top /\ top <= top - 0
      BY <1>4
    <2>4. AtNode(start, 0)
      BY <1>6, <2>2, <2>3
    <2>5. QED
      BY <2>1, <2>4
  <1>12. ASSUME NEW i \in 1..top, i - 1 \in T PROVE i \in T
    <2>1. PICK x : x = f[i - 1]
      OBVIOUS
    <2>2. f[i] = round(x) /\ i \in Nat
      BY <1>10, <2>1
    <2>3. AtLeaf(x) \/ AtNode(x, i - 1)
      BY <1>12, <2>1
    <2>4. CASE AtLeaf(x)
      <3>1. round(x) = x
        BY <2>4 DEF round, SearchRound
      <3>2. QED
        BY <2>2, <2>4, <3>1
    <2>5. CASE AtNode(x, i - 1)
      <3>1. PICK p \in 1..top : p = x.now
        BY <2>5
      <3>2. p <= top - (i - 1) /\ Below(s, stops, L[p]) /\ ~x.leaf
        BY <2>5, <3>1
      <3>3. Guide(nodes, s, lo, L, p)
        BY <1>5
      <3>4. PICK k \in 1..InternalFanout :
              /\ NextChild(nodes[p], stops) = nodes[p][k].child /\ nodes[p][k].child # 0
              /\ Begin(nodes, lo, L, p, k) \in 1..n
              /\ Below(s, stops, Begin(nodes, lo, L, p, k))
        BY <1>1, <3>2, <3>3, NextChildBelow
      <3>5. PICK c : c = nodes[p][k].child
        OBVIOUS
      <3>6. round(x) = [now |-> c, leaf |-> p <= lo]
        BY <3>1, <3>2, <3>4, <3>5 DEF round, SearchRound
      <3>7. round(x).now = c /\ round(x).leaf = (p <= lo)
        BY <3>6
      <3>8. CASE p <= lo
        <4>1. Begin(nodes, lo, L, p, k) = c
          BY <3>5, <3>8 DEF Begin
        <4>2. AtLeaf(round(x))
          BY <3>4, <3>7, <3>8, <4>1
        <4>3. QED
          BY <2>2, <4>2
      <3>9. CASE ~(p <= lo)
        <4>1. p > lo
          BY <1>4, <3>9
        <4>2. c \in 1..(p - 1)
          BY <3>3, <3>4, <3>5, <4>1 DEF Guide
        <4>3. c \in 1..top /\ c <= top - i
          BY <3>2, <4>2
        <4>4. Begin(nodes, lo, L, p, k) = L[c]
          BY <3>5, <3>9 DEF Begin
        <4>5. AtNode(round(x), i)
          BY <3>4, <3>7, <3>9, <4>3, <4>4
        <4>6. QED
          BY <2>2, <4>5
      <3>10. QED
        BY <3>8, <3>9
    <2>6. QED
      BY <2>3, <2>4, <2>5
  <1> HIDE DEF T
  <1>13. top \in T
    BY <1>11, <1>12, NatByStep
  <1>14. AtLeaf(f[top])
    <2>1. AtLeaf(f[top]) \/ AtNode(f[top], top)
      BY <1>13 DEF T
    <2>2. ~AtNode(f[top], top)
      OBVIOUS
    <2>3. QED
      BY <2>1, <2>2
  <1>15. QED
    BY <1>1, <1>9, <1>14

\* The scan ends at the first record that ends it.
LEMMA ScanFromFirst ==
  ASSUME NEW S, NEW s \in Seq(S), s # <<>>, NEW stops, Closed(s, stops)
  PROVE  /\ ScanFrom(s, stops) \in 1..(Len(s) + 1)
         /\ \A p \in 1..Len(s) : Key(s[p].rec) \in stops <=> ScanFrom(s, stops) <= p
         /\ ScanFrom(s, stops) = 1 + Cardinality({p \in 1..Len(s) : Key(s[p].rec) \notin stops})
  <1>1. PICK n \in Nat : n = Len(s)
    BY LenProperties
  <1>2. PICK l \in 1..n : l = Leaf(s, stops) /\ Below(s, stops, l)
    BY <1>1, LeafBelow
  <1>3. PICK ps : ps = {p \in l..n : Key(s[p].rec) \in stops}
    OBVIOUS
  <1>4. PICK r : r = ScanFrom(s, stops)
    OBVIOUS
  <1>5. r = IF ps = {} THEN n + 1 ELSE Min(ps)
    BY <1>1, <1>2, <1>3, <1>4 DEF ScanFrom
  <1>6. r \in 1..(n + 1) /\ \A p \in 1..n : Key(s[p].rec) \in stops <=> r <= p
    <2>1. CASE ps = {}
      <3>1. r = n + 1
        BY <1>5, <2>1
      <3>2. ASSUME NEW p \in 1..n, Key(s[p].rec) \in stops PROVE FALSE
        <4>1. p \notin 1..(l - 1)
          BY <1>2, <3>2 DEF Below
        <4>2. p \in l..n
          BY <1>2, <4>1
        <4>3. QED
          BY <1>3, <2>1, <3>2, <4>2
      <3>3. QED
        BY <3>1, <3>2
    <2>2. CASE ps # {}
      <3>1. ps \subseteq Nat
        BY <1>2, <1>3
      <3>2. \E x \in ps : \A y \in ps : x <= y
        BY <2>2, <3>1, LeastNat
      <3>3. r \in ps /\ \A y \in ps : r <= y
        BY <1>5, <2>2, <3>2 DEF Min
      <3>4. r \in l..n /\ Key(s[r].rec) \in stops
        BY <1>3, <3>3
      <3>5. r \in 1..n
        BY <1>2, <3>4
      <3>6. ASSUME NEW p \in 1..n, Key(s[p].rec) \in stops PROVE r <= p
        <4>1. p \notin 1..(l - 1)
          BY <1>2, <3>6 DEF Below
        <4>2. p \in l..n
          BY <1>2, <4>1
        <4>3. QED
          BY <1>3, <3>3, <3>6, <4>2
      <3>7. ASSUME NEW p \in 1..n, r <= p PROVE Key(s[p].rec) \in stops
        BY <1>1, <3>4, <3>5, <3>7 DEF Closed
      <3>8. QED
        BY <3>5, <3>6, <3>7
    <2>3. QED
      BY <2>1, <2>2
  <1>7. {p \in 1..n : Key(s[p].rec) \notin stops} = 1..(r - 1)
    <2>1. ASSUME NEW p \in 1..n PROVE Key(s[p].rec) \notin stops <=> p \in 1..(r - 1)
      BY <1>6
    <2>2. 1..(r - 1) \subseteq 1..n
      BY <1>6
    <2>3. QED
      BY <2>1, <2>2
  <1>8. Cardinality(1..(r - 1)) = r - 1
    <2>1. PICK m \in Nat : m = r - 1
      BY <1>6
    <2>2. Cardinality(1..m) = IF 1 > m THEN 0 ELSE m - 1 + 1
      BY FS_Interval
    <2>3. QED
      BY <2>1, <2>2
  <1>9. r = 1 + (r - 1)
    BY <1>6
  <1>10. QED
    BY <1>1, <1>4, <1>6, <1>7, <1>8, <1>9

\* get_lower_bound, get_upper_bound and point_lookup of a sorted array.
LEMMA ArraySearches ==
  ASSUME NEW S \in SUBSET AnyWrapped, NEW c \in Seq(S), c # <<>>, Sorted(c), NEW key \in Nat
  PROVE  /\ GetLowerBound(c, key) = Cardinality({p \in DOMAIN c : Key(c[p].rec) < key}) + 1
         /\ GetUpperBound(c, key) = 1 + Cardinality({p \in DOMAIN c : Key(c[p].rec) <= key})
         /\ \A p \in DOMAIN c : \A q \in PointLookup(c, c[p].rec) :
              q \in DOMAIN c /\ c[q].rec = c[p].rec
  <1>1. PICK n \in Nat : n = Len(c) /\ DOMAIN c = 1..n
    BY LenProperties
  <1>2. \A i, j \in 1..n : Key(c[i].rec) \in Nat /\ (i <= j => Key(c[i].rec) <= Key(c[j].rec))
    BY <1>1, KeysSorted
  <1>3. ASSUME NEW k \in Nat
        PROVE  /\ GetLowerBound(c, k) \in 1..(n + 1)
               /\ \A p \in 1..n : k <= Key(c[p].rec) <=> GetLowerBound(c, k) <= p
               /\ GetLowerBound(c, k) = 1 + Cardinality({p \in 1..n : Key(c[p].rec) < k})
    <2>1. PICK stops : stops = {x \in KeysOf(c) : k <= x}
      OBVIOUS
    <2>2. ASSUME NEW p \in 1..n PROVE Key(c[p].rec) \in stops <=> k <= Key(c[p].rec)
      BY <1>1, <2>1 DEF KeysOf
    <2>3. Closed(c, stops)
      <3>1. ASSUME NEW x \in 1..n, NEW y \in 1..n, x <= y, Key(c[x].rec) \in stops
            PROVE  Key(c[y].rec) \in stops
        <4>1. k <= Key(c[x].rec) /\ Key(c[x].rec) <= Key(c[y].rec)
              /\ Key(c[x].rec) \in Nat /\ Key(c[y].rec) \in Nat
          BY <1>2, <2>2, <3>1
        <4>2. k <= Key(c[y].rec)
          BY <4>1
        <4>3. QED
          BY <2>2, <4>2
      <3>2. QED
        BY <1>1, <3>1 DEF Closed
    <2>4. /\ ScanFrom(c, stops) \in 1..(n + 1)
          /\ \A p \in 1..n : Key(c[p].rec) \in stops <=> ScanFrom(c, stops) <= p
          /\ ScanFrom(c, stops) = 1 + Cardinality({p \in 1..n : Key(c[p].rec) \notin stops})
      <3>1. ScanFrom(c, stops) \in 1..(Len(c) + 1)
        BY ONLY <2>3, ScanFromFirst, c \in Seq(S), c # <<>>
      <3>2. \A p \in 1..Len(c) : Key(c[p].rec) \in stops <=> ScanFrom(c, stops) <= p
        BY ONLY <2>3, ScanFromFirst, c \in Seq(S), c # <<>>, Zenon
      <3>3. ScanFrom(c, stops) = 1 + Cardinality({p \in 1..Len(c) : Key(c[p].rec) \notin stops})
        BY ONLY <2>3, ScanFromFirst, c \in Seq(S), c # <<>>
      <3>4. QED
        BY ONLY <1>1, <3>1, <3>2, <3>3
    <2>5. {p \in 1..n : Key(c[p].rec) \notin stops} = {p \in 1..n : Key(c[p].rec) < k}
      <3>1. ASSUME NEW p \in 1..n PROVE Key(c[p].rec) \notin stops <=> Key(c[p].rec) < k
        BY <1>2, <2>2
      <3>2. QED
        BY <3>1
    <2>6. GetLowerBound(c, k) = ScanFrom(c, stops)
      BY <2>1 DEF GetLowerBound
    <2>7. QED
      BY <2>2, <2>4, <2>5, <2>6
  <1>4. GetUpperBound(c, key) = 1 + Cardinality({p \in 1..n : Key(c[p].rec) <= key})
    <2>1. PICK stops : stops = {x \in KeysOf(c) : key < x}
      OBVIOUS
    <2>2. ASSUME NEW p \in 1..n PROVE Key(c[p].rec) \in stops <=> key < Key(c[p].rec)
      BY <1>1, <2>1 DEF KeysOf
    <2>3. Closed(c, stops)
      <3>1. ASSUME NEW x \in 1..n, NEW y \in 1..n, x <= y, Key(c[x].rec) \in stops
            PROVE  Key(c[y].rec) \in stops
        <4>1. key < Key(c[x].rec) /\ Key(c[x].rec) <= Key(c[y].rec)
              /\ Key(c[x].rec) \in Nat /\ Key(c[y].rec) \in Nat
          BY <1>2, <2>2, <3>1
        <4>2. key < Key(c[y].rec)
          BY <4>1
        <4>3. QED
          BY <2>2, <4>2
      <3>2. QED
        BY <1>1, <3>1 DEF Closed
    <2>4. ScanFrom(c, stops) = 1 + Cardinality({p \in 1..n : Key(c[p].rec) \notin stops})
      BY <1>1, <2>3, ScanFromFirst
    <2>5. {p \in 1..n : Key(c[p].rec) \notin stops} = {p \in 1..n : Key(c[p].rec) <= key}
      <3>1. ASSUME NEW p \in 1..n PROVE Key(c[p].rec) \notin stops <=> Key(c[p].rec) <= key
        BY <1>2, <2>2
      <3>2. QED
        BY <3>1
    <2>6. GetUpperBound(c, key) = ScanFrom(c, stops)
      BY <2>1 DEF GetUpperBound
    <2>7. QED
      BY <2>4, <2>5, <2>6
  <1>5. ASSUME NEW p \in 1..n, NEW q \in PointLookup(c, c[p].rec)
        PROVE  q \in 1..n /\ c[q].rec = c[p].rec
    <2>1. PICK rec : rec = c[p].rec
      OBVIOUS
    <2>2. PICK k \in Nat : k = Key(rec)
      BY <1>2, <2>1
    <2>3. PICK low \in 1..(n + 1) : low = GetLowerBound(c, k)
      BY <1>3
    <2>4. low <= p
      <3>1. k <= Key(c[p].rec)
        BY <2>1, <2>2
      <3>2. QED
        BY <1>3, <2>3, <3>1
    <2>5. PICK ps : ps = {x \in low..n : ~RecLess(c[x].rec, rec)}
      OBVIOUS
    <2>6. \A x \in 1..n : c[x].rec \in Nat \X Nat
      <3>1. \A x \in 1..n : c[x] \in AnyWrapped
        BY <1>1, ElementOfSeq
      <3>2. QED
        BY <3>1 DEF AnyWrapped
    <2>7. p \in ps
      <3>1. ~RecLess(rec, rec)
        BY <2>1, <2>6 DEF RecLess
      <3>2. p \in low..n
        BY <2>4
      <3>3. QED
        BY <2>1, <2>5, <3>1, <3>2
    <2>8. PICK m : m = Min(ps)
      OBVIOUS
    <2>9. m \in ps /\ m <= p
      <3>1. ps \subseteq Nat
        BY <2>3, <2>5
      <3>2. \E x \in ps : \A y \in ps : x <= y
        BY <2>7, <3>1, LeastNat
      <3>3. m \in ps /\ \A y \in ps : m <= y
        BY <2>8, <3>2 DEF Min
      <3>4. QED
        BY <2>7, <3>3
    <2>10. m \in 1..n /\ ~RecLess(c[m].rec, rec)
      BY <2>3, <2>5, <2>9
    <2>11. ~RecLess(rec, c[m].rec)
      <3>1. CASE m = p
        BY <2>1, <2>10, <3>1
      <3>2. CASE m # p
        <4>1. m < p
          BY <2>9, <2>10, <3>2
        <4>2. QED
          BY <1>1, <2>1, <2>10, <4>1 DEF Sorted, ByRecord
      <3>3. QED
        BY <3>1, <3>2
    <2>12. c[m].rec = rec
      <3>1. PICK u \in Nat \X Nat : u = c[m].rec
        BY <2>6, <2>10
      <3>2. PICK v \in Nat \X Nat : v = rec
        BY <2>1, <2>6
      <3>3. u[1] = v[1] /\ u[2] = v[2]
        BY <2>10, <2>11, <3>1, <3>2 DEF RecLess
      <3>4. u = v
        BY <3>3
      <3>5. QED
        BY <3>1, <3>2, <3>4
    <2>13. PointLookup(c, rec) = {m}
      <3>1. ~(low > Len(c)) /\ ps # {}
        BY <1>1, <2>4, <2>7
      <3>2. QED
        BY <1>1, <2>2, <2>3, <2>5, <2>8, <2>12, <3>1 DEF PointLookup
    <2>14. QED
      BY <1>5, <2>1, <2>10, <2>12, <2>13
  <1>6. GetLowerBound(c, key) = Cardinality({p \in 1..n : Key(c[p].rec) < key}) + 1
    <2>1. /\ GetLowerBound(c, key) \in 1..(n + 1)
          /\ GetLowerBound(c, key) = 1 + Cardinality({p \in 1..n : Key(c[p].rec) < key})
      BY <1>3
    <2>2. Cardinality({p \in 1..n : Key(c[p].rec) < key}) \in Nat
      <3>1. IsFiniteSet(1..n)
        BY FS_Interval
      <3>2. IsFiniteSet({p \in 1..n : Key(c[p].rec) < key})
        BY <3>1, FS_Subset
      <3>3. QED
        BY <3>2, FS_CardinalityType
    <2>3. QED
      BY <2>1, <2>2
  <1>7. QED
    BY <1>1, <1>4, <1>5, <1>6

\* The size of what was written is not reduced modulo the width of a size.
LEMMA SmallSize ==
  ASSUME NEW m \in Nat, m < SizeModulus
  PROVE  m % SizeModulus = m
  <1>1. SizeModulus \in Int /\ SizeModulus > 0
    BY SizeAssumption
  <1>2. PICK q \in Int : q = 0
    OBVIOUS
  <1>3. m = SizeModulus * q + m /\ 0 <= m /\ m \in Int
    BY <1>1, <1>2
  <1>4. QED
    BY <1>1, <1>3, DivUnique

\* All entries count one, a pair of record and tombstone two.
LEMMA PairsAreTwo ==
  ASSUME NEW S
  PROVE  PairsCount(S, S, {}, 2)
  <1>1. \A a \in S : Sign(a, S, {}) = 1
    BY DEF Sign
  <1>2. QED
    BY <1>1 DEF PairsCount

\* The constructor counts the records it has written, although it subtracts the
\* cancelled pairs from the records it has read.
LEMMA ShardBuilt ==
  ASSUME NEW S \in SUBSET AnyWrapped, NEW n \in Nat, NEW runs, MergeInput(S, n, runs),
         NEW st \in MergeLoop(runs), NEW reccnt, NEW tscnt \in Int,
         reccnt = Total(MergeStart(runs).c, n, S, {}), reccnt < SizeModulus,
         NEW s, s = BuildShard(st, reccnt, tscnt),
         NEW P, NEW Q, PairsCount(S, P, Q, 0)
  PROVE  /\ IsShard(S, s)
         /\ Net(Records(s), P, Q) = Total(MergeStart(runs).c, n, P, Q)
         /\ Len(Records(s)) <= reccnt
  <1>1. PICK c \in Cursors(S, n) : c = MergeStart(runs).c
    BY DEF MergeInput
  <1>2. reccnt \in Nat
    BY <1>1, TotalLeft
  <1>3. st.out \in Seq(S) /\ st.cancelled \in Nat
        /\ Net(st.out, S, {}) + 2 * st.cancelled = reccnt
    <2>1. PICK d \in Int : d = 2
      OBVIOUS
    <2>2. PICK E : E = {}
      OBVIOUS
    <2>3. PairsCount(S, S, E, d)
      BY <2>1, <2>2, PairsAreTwo
    <2>4. st.out \in Seq(S) /\ st.cancelled \in Nat
          /\ Written(st, S, E, d) = Total(MergeStart(runs).c, n, S, E)
      BY <2>3, MergeLoopKeeps
    <2>5. QED
      BY <2>1, <2>2, <2>4 DEF Written
  <1>4. Net(st.out, P, Q) + 0 * st.cancelled = Total(c, n, P, Q)
    <2>1. PICK d \in Int : d = 0
      OBVIOUS
    <2>2. PairsCount(S, P, Q, d)
      BY <2>1
    <2>3. /\ st.out \in Seq(S) /\ st.cancelled \in Nat
          /\ Written(st, P, Q, d) = Total(MergeStart(runs).c, n, P, Q)
      BY ONLY <2>2, MergeLoopKeeps, S \in SUBSET AnyWrapped, n \in Nat,
                 MergeInput(S, n, runs), st \in MergeLoop(runs), d \in Int
    <2>4. QED
      BY <1>1, <2>1, <2>3 DEF Written
  <1>5. PICK out \in Seq(S) : out = st.out
    BY <1>3
  <1>6. PICK gone \in Nat : gone = st.cancelled
    BY <1>3
  <1>7. PICK m \in Nat : m = Len(out)
    BY LenProperties
  <1>8. m + 2 * gone = reccnt
    BY <1>3, <1>5, <1>6, <1>7, LenIsNet
  <1>9. SizeModulus \in Int /\ SizeModulus > 0
    BY SizeAssumption
  <1>10. m <= reccnt /\ reccnt - 2 * gone = m /\ m < SizeModulus
    BY <1>2, <1>8, <1>9
  <1>11. m % SizeModulus = m
    BY <1>10, SmallSize
  <1>12. PICK t : t = (tscnt - gone) % SizeModulus
    OBVIOUS
  <1>13. t \in Nat
    <2>1. PICK k \in Int : k = tscnt - gone
      OBVIOUS
    <2>2. k % SizeModulus \in Int /\ 0 <= k % SizeModulus
      BY <1>9, DivMod
    <2>3. QED
      BY <1>12, <2>1, <2>2
  <1>14. s = ShardOf(out, m, t)
    BY <1>5, <1>6, <1>10, <1>11, <1>12 DEF BuildShard
  <1>15. Records(s) = out /\ IsShard(S, s)
    <2>1. Sorted(out)
      BY <1>5, MergeLoopSorts
    <2>2. QED
      BY <1>7, <1>13, <1>14, <2>1, ShardOfIsShard
  <1>16. Net(out, P, Q) = Total(c, n, P, Q)
    <2>1. Net(out, P, Q) \in Int
      BY NetInt
    <2>2. QED
      BY <2>1, <1>4, <1>5, <1>6
  <1>17. QED
    BY <1>1, <1>7, <1>10, <1>15, <1>16

\* A shard built from shards: their records and counts are merged.
LEMMA ShardsShard ==
  ASSUME NEW S \in SUBSET AnyWrapped, NEW n \in Nat, NEW shards, DOMAIN shards = 1..n,
         \A i \in 1..n : IsShard(S, shards[i]),
         SumTo([i \in 1..n |-> Len(Records(shards[i]))], n) < SizeModulus,
         NEW t \in ShardsFromShards(shards), NEW P, NEW Q, PairsCount(S, P, Q, 0)
  PROVE  /\ IsShard(S, t)
         /\ Net(Records(t), P, Q) = SumTo([i \in 1..n |-> Net(Records(shards[i]), P, Q)], n)
         /\ Len(Records(t)) <= SumTo([i \in 1..n |-> Len(Records(shards[i]))], n)
  <1> DEFINE runs == [i \in DOMAIN shards |-> Run(shards[i].file, shards[i].reccnt)]
  <1> DEFINE recs == [i \in DOMAIN shards |-> shards[i].reccnt]
  <1> DEFINE tss == [i \in DOMAIN shards |-> shards[i].tscnt]
  <1> DEFINE lens == [i \in 1..n |-> Len(Records(shards[i]))]
  <1>1. PICK st \in MergeLoop(runs) : t = BuildShard(st, SumSeq(recs), SumSeq(tss))
    BY DEF ShardsFromShards
  <1>2. ASSUME NEW i \in 1..n
        PROVE  /\ runs[i].n = shards[i].reccnt /\ RunRecords(runs[i]) = Records(shards[i])
               /\ Records(shards[i]) \in Seq(S) /\ shards[i].reccnt \in Nat
               /\ Len(Records(shards[i])) = shards[i].reccnt /\ shards[i].tscnt \in Nat
    <2>1. runs[i] = Run(shards[i].file, shards[i].reccnt) /\ Records(shards[i]) = RunRecords(runs[i])
      BY DEF Records
    <2>2. PICK m \in Nat : m = shards[i].reccnt
      BY DEF IsShard
    <2>3. PICK f : f = Records(shards[i])
      OBVIOUS
    <2>4. f \in Seq(S)
      BY <2>3 DEF IsShard
    <2>5. f = [k \in 1..m |-> f[k]]
      BY <2>1, <2>2, <2>3 DEF RunRecords, Run
    <2>6. Len(f) = m
      BY <2>4, <2>5, LenProperties
    <2>7. QED
      BY <2>1, <2>2, <2>3, <2>4, <2>6 DEF IsShard, Run
  <1>3. DOMAIN runs = 1..n /\ DOMAIN recs = 1..n /\ DOMAIN tss = 1..n
    OBVIOUS
  <1>4. PICK c : c = MergeStart(runs).c
    OBVIOUS
  <1>5. DOMAIN c = 1..n /\ \A i \in 1..n : c[i] = Records(shards[i])
    BY <1>2, <1>3, <1>4 DEF MergeStart
  <1>6. c \in Cursors(S, n)
    <2>1. \A i \in 1..n : c[i] \in Seq(S)
      BY <1>2, <1>5
    <2>2. c = [i \in 1..n |-> c[i]]
      BY <1>3, <1>4 DEF MergeStart
    <2>3. QED
      BY <2>1, <2>2 DEF Cursors
  <1>7. MergeInput(S, n, runs)
    <2>1. \A i \in 1..n : Sorted(c[i])
      BY <1>5 DEF IsShard, WellFormed
    <2>2. QED
      BY <1>2, <1>3, <1>4, <1>5, <1>6, <2>1 DEF MergeInput
  <1>8. Len(recs) = n /\ Len(tss) = n
    BY <1>3
  <1> HIDE DEF runs
  <1>9. \A i \in 1..n : recs[i] = lens[i] /\ recs[i] \in Nat /\ tss[i] \in Nat
    BY <1>2, <1>3
  <1>10. SumSeq(recs) = SumTo(recs, n) /\ SumSeq(tss) = SumTo(tss, n)
    BY <1>8 DEF SumSeq
  <1> HIDE DEF recs, tss
  <1>11. SumSeq(recs) = SumTo(lens, n)
    <2>1. \A i \in 1..n : recs[i] \in Int /\ recs[i] = lens[i]
      BY <1>9
    <2> HIDE DEF lens
    <2>2. SumTo(recs, n) = SumTo(lens, n)
      BY <2>1, SumSame
    <2>3. QED
      BY <1>10, <2>2
  <1>12. SumSeq(tss) \in Int
    BY <1>9, <1>10, SumStep
  <1>13. Total(c, n, S, {}) = SumTo(lens, n)
    <2>1. Total(c, n, S, {}) = SumTo([i \in 1..n |-> Len(c[i])], n)
      BY <1>6, TotalLeft
    <2>2. [i \in 1..n |-> Len(c[i])] = lens
      BY <1>5
    <2>3. QED
      BY <2>1, <2>2
  <1>14. Total(c, n, P, Q) = SumTo([i \in 1..n |-> Net(Records(shards[i]), P, Q)], n)
    <2>1. [i \in 1..n |-> Net(c[i], P, Q)] = [i \in 1..n |-> Net(Records(shards[i]), P, Q)]
      BY <1>5
    <2>2. QED
      BY <2>1 DEF Total
  <1>15. PICK reccnt : reccnt = SumSeq(recs)
    OBVIOUS
  <1>16. PICK tscnt \in Int : tscnt = SumSeq(tss)
    BY <1>12
  <1>17. reccnt = Total(MergeStart(runs).c, n, S, {}) /\ reccnt < SizeModulus
         /\ t = BuildShard(st, reccnt, tscnt)
    BY <1>1, <1>4, <1>11, <1>13, <1>15, <1>16
  <1> HIDE DEF lens
  <1>18. /\ IsShard(S, t)
         /\ Net(Records(t), P, Q) = Total(MergeStart(runs).c, n, P, Q)
         /\ Len(Records(t)) <= reccnt
    BY ONLY <1>1, <1>7, <1>17, ShardBuilt, S \in SUBSET AnyWrapped, n \in Nat, tscnt \in Int,
            st \in MergeLoop(runs), PairsCount(S, P, Q, 0)
  <1>19. QED
    BY <1>4, <1>11, <1>14, <1>15, <1>18 DEF lens

-----------------------------------------------------------------------------
(***************************************************************************)
(* The chunks of a view, one for each page.                                *)
(***************************************************************************)

\* The records of n that the first i chunks hold.
UpToChunk(n, i) == Min({i * LeafFanout, n})

\* Chunk after chunk the pages cover n records.
LEMMA ChunkEnds ==
  ASSUME NEW n \in Nat
  PROVE  /\ UpToChunk(n, 0) = 0 /\ UpToChunk(n, CeilDiv(n, LeafFanout)) = n
         /\ \A i \in 1..CeilDiv(n, LeafFanout) :
              /\ UpToChunk(n, i - 1) = (i - 1) * LeafFanout
              /\ UpToChunk(n, i - 1) \in 0..n
              /\ UpToChunk(n, i) \in UpToChunk(n, i - 1)..n
  <1>1. LeafFanout \in Nat /\ LeafFanout > 0 /\ LeafFanout \in Int
    BY FanoutInt
  <1>2. ASSUME NEW a \in Int, NEW b \in Int PROVE Min({a, b}) = IF a <= b THEN a ELSE b
    <2>1. CASE a <= b
      <3>1. \A y \in {a, b} : a <= y
        BY <2>1
      <3>2. Min({a, b}) \in {a, b} /\ \A y \in {a, b} : Min({a, b}) <= y
        BY <3>1 DEF Min
      <3>3. QED
        BY <2>1, <3>2
    <2>2. CASE ~(a <= b)
      <3>1. \A y \in {a, b} : b <= y
        BY <2>2
      <3>2. Min({a, b}) \in {a, b} /\ \A y \in {a, b} : Min({a, b}) <= y
        BY <3>1 DEF Min
      <3>3. QED
        BY <2>2, <3>2
    <2>3. QED
      BY <2>1, <2>2
  <1>3. ASSUME NEW i \in Int
        PROVE  i * LeafFanout \in Int
               /\ UpToChunk(n, i) = IF i * LeafFanout <= n THEN i * LeafFanout ELSE n
    <2>1. PICK a \in Int : a = i * LeafFanout
      BY <1>1
    <2>2. Min({a, n}) = IF a <= n THEN a ELSE n
      BY <1>2
    <2>3. QED
      BY <2>1, <2>2 DEF UpToChunk
  <1>4. PICK count \in Nat : count = CeilDiv(n, LeafFanout)
    BY <1>1, CeilDivPages
  <1>5. n <= count * LeafFanout
    BY <1>1, <1>4, CeilDivPages
  <1>6. ASSUME NEW i \in 1..count
        PROVE  (i - 1) * LeafFanout \in Nat /\ (i - 1) * LeafFanout < n
    BY <1>1, <1>4, CeilDivPages
  <1>7. UpToChunk(n, 0) = 0
    <2>1. 0 * LeafFanout = 0
      BY <1>1
    <2>2. QED
      BY <1>3, <2>1
  <1>8. UpToChunk(n, count) = n
    BY <1>3, <1>5
  <1>9. ASSUME NEW i \in 1..count
        PROVE  /\ UpToChunk(n, i - 1) = (i - 1) * LeafFanout
               /\ UpToChunk(n, i - 1) \in 0..n
               /\ UpToChunk(n, i) \in UpToChunk(n, i - 1)..n
    <2>1. PICK a \in Nat : a = (i - 1) * LeafFanout
      BY <1>6
    <2>2. a < n
      BY <1>6, <2>1
    <2>3. i * LeafFanout = a + LeafFanout
      BY <1>1, <2>1
    <2>4. i - 1 \in Int /\ i \in Int
      OBVIOUS
    <2>5. UpToChunk(n, i - 1) = IF a <= n THEN a ELSE n
      BY <1>3, <2>1, <2>4
    <2>6. UpToChunk(n, i) = IF a + LeafFanout <= n THEN a + LeafFanout ELSE n
      BY <1>3, <2>3, <2>4
    <2>7. QED
      BY <1>1, <2>1, <2>2, <2>5, <2>6
  <1>10. QED
    BY <1>4, <1>7, <1>8, <1>9

\* Entries a + 1 to b of a sequence, behind its first a entries.
LEMMA PrefixExtended ==
  ASSUME NEW S, NEW s \in Seq(S), NEW a \in 0..Len(s), NEW b \in a..Len(s), NEW P, NEW Q
  PROVE  /\ SubSeq(s, a + 1, b) \in Seq(S)
         /\ Net(Prefix(s, b), P, Q) = Net(Prefix(s, a), P, Q) + Net(SubSeq(s, a + 1, b), P, Q)
  <1>1. Len(s) \in Nat /\ \A k \in 1..Len(s) : s[k] \in S
    BY LenProperties, ElementOfSeq
  <1>2. a \in Nat /\ b \in Nat /\ a <= b /\ b <= Len(s)
    BY <1>1
  <1>3. SubSeq(s, a + 1, b) \in Seq(S)
    <2>1. a + 1 \in Int /\ b \in Int /\ \A i \in (a + 1)..b : s[i] \in S
      BY <1>1, <1>2
    <2>2. QED
      BY <2>1, SubSeqProperties
  <1>4. Prefix(s, a) \in Seq(S)
    BY PrefixSeq
  <1>5. Prefix(s, a) \o SubSeq(s, a + 1, b) = Prefix(s, b)
    <2>1. 1 \in 1..(Len(s) + 1) /\ a \in (1 - 1)..Len(s)
      BY <1>1, <1>2
    <2>2. SubSeq(s, 1, a) \o SubSeq(s, a + 1, b) = SubSeq(s, 1, b)
      BY <2>1, ConcatAdjacentSubSeq
    <2>3. QED
      BY <2>2 DEF Prefix
  <1>6. PICK t \in Seq(S) : t = Prefix(s, a)
    BY <1>4
  <1>7. PICK u \in Seq(S) : u = SubSeq(s, a + 1, b)
    BY <1>3
  <1>8. Net(t \o u, P, Q) = Net(t, P, Q) + Net(u, P, Q)
    BY NetConcat
  <1>9. QED
    BY <1>3, <1>5, <1>6, <1>7, <1>8

\* The chunks of a view hold what the view holds.
LEMMA ChunksKeep ==
  ASSUME NEW S, NEW view \in Seq(S), NEW P, NEW Q,
         NEW count \in Nat, count = CeilDiv(Len(view), LeafFanout)
  PROVE  /\ \A i \in 1..count : Chunk(view, i) \in Seq(S)
         /\ SumTo([i \in 1..count |-> Net(Chunk(view, i), P, Q)], count) = Net(view, P, Q)
  <1>1. PICK n \in Nat : n = Len(view)
    BY LenProperties
  <1>2. ASSUME NEW i \in 1..count
        PROVE  /\ Chunk(view, i) \in Seq(S)
               /\ Net(Chunk(view, i), P, Q) \in Int
               /\ Net(Prefix(view, UpToChunk(n, i)), P, Q)
                    = Net(Prefix(view, UpToChunk(n, i - 1)), P, Q) + Net(Chunk(view, i), P, Q)
    <2>1. PICK a : a = UpToChunk(n, i - 1)
      OBVIOUS
    <2>2. PICK b : b = UpToChunk(n, i)
      OBVIOUS
    <2>3. a \in 0..Len(view) /\ b \in a..Len(view) /\ a = (i - 1) * LeafFanout
      BY <1>1, <2>1, <2>2, ChunkEnds
    <2>4. Chunk(view, i) = SubSeq(view, a + 1, b)
      BY <1>1, <2>2, <2>3 DEF Chunk, UpToChunk
    <2>5. /\ SubSeq(view, a + 1, b) \in Seq(S)
          /\ Net(Prefix(view, b), P, Q)
               = Net(Prefix(view, a), P, Q) + Net(SubSeq(view, a + 1, b), P, Q)
      BY <2>3, PrefixExtended
    <2>6. QED
      BY <2>1, <2>2, <2>4, <2>5, NetInt
  <1> DEFINE nets == [i \in 1..count |-> Net(Chunk(view, i), P, Q)]
  <1>3. \A i \in 1..count : nets[i] = Net(Chunk(view, i), P, Q) /\ nets[i] \in Int
    BY <1>2
  <1> HIDE DEF nets
  <1> DEFINE T == {k \in Nat : Net(Prefix(view, UpToChunk(n, k)), P, Q) = SumTo(nets, k)}
  <1>4. SumTo(nets, 0) = 0 /\ \A k \in 1..count : SumTo(nets, k) = SumTo(nets, k - 1) + nets[k]
    <2>1. SumTo(nets, 0) = 0
      BY <1>3, SumStep
    <2>2. ASSUME NEW k \in 1..count PROVE SumTo(nets, k) = SumTo(nets, k - 1) + nets[k]
      <3>1. k \in Nat /\ k > 0 /\ \A i \in 1..k : nets[i] \in Int
        BY <1>3
      <3>2. QED
        BY <3>1, SumStep
    <2>3. QED
      BY <2>1, <2>2
  <1>5. 0 \in T
    <2>1. UpToChunk(n, 0) = 0
      BY ChunkEnds
    <2>2. Prefix(view, 0) = <<>>
      BY PrefixSeq
    <2>3. QED
      BY <1>4, <2>1, <2>2, NetEmpty
  <1>6. ASSUME NEW k \in 1..count, k - 1 \in T PROVE k \in T
    <2>1. Net(Prefix(view, UpToChunk(n, k - 1)), P, Q) = SumTo(nets, k - 1)
      BY <1>6
    <2>2. SumTo(nets, k) = SumTo(nets, k - 1) + nets[k]
      BY <1>4
    <2>3. Net(Prefix(view, UpToChunk(n, k)), P, Q) = SumTo(nets, k)
      BY <2>1, <2>2, <1>2, <1>3
    <2>4. QED
      BY <2>3
  <1> HIDE DEF T
  <1>7. count \in T
    BY <1>5, <1>6, NatByStep
  <1>8. Net(Prefix(view, UpToChunk(n, count)), P, Q) = SumTo(nets, count)
    BY <1>7 DEF T
  <1>9. UpToChunk(n, count) = Len(view)
    BY <1>1, ChunkEnds
  <1>10. Prefix(view, Len(view)) = view
    BY PrefixSeq
  <1>11. SumTo(nets, count) = Net(view, P, Q)
    BY <1>8, <1>9, <1>10
  <1>12. QED
    BY <1>2, <1>11 DEF nets

\* A shard built from a view: the view's records, sorted chunk by chunk and merged.
LEMMA ViewShard ==
  ASSUME NEW S \in SUBSET AnyWrapped, NEW view \in Seq(S), Len(view) < SizeModulus,
         NEW tombstones \in Int, NEW t \in ShardsFromView(view, tombstones),
         NEW P, NEW Q, PairsCount(S, P, Q, 0)
  PROVE  /\ IsShard(S, t)
         /\ Net(Records(t), P, Q) = Net(view, P, Q)
         /\ Len(Records(t)) <= Len(view)
  <1>1. PICK n \in Nat : n = CeilDiv(Len(view), LeafFanout)
    BY LenProperties, FanoutInt, CeilDivPages
  <1>2. PICK runs \in CreateSortedRuns(view) :
          \E st \in MergeLoop(runs) : t = BuildShard(st, Len(view), tombstones)
    BY DEF ShardsFromView
  <1>3. PICK st \in MergeLoop(runs) : t = BuildShard(st, Len(view), tombstones)
    BY <1>2
  <1>4. PICK f : /\ \A i \in 1..n : f[i] \in Sorts(Chunk(view, i), ByRecord)
                 /\ runs = [i \in 1..n |-> Run(DataPages(f[i]), Len(f[i]))]
    BY <1>1, <1>2 DEF CreateSortedRuns, OneOfEach
  <1>5. ASSUME NEW i \in 1..n, NEW A, NEW B
        PROVE  /\ f[i] \in Seq(S) /\ Net(f[i], A, B) = Net(Chunk(view, i), A, B)
               /\ RunRecords(runs[i]) = f[i] /\ runs[i].n = Len(f[i])
    <2>1. PICK s \in Seq(S) : s = Chunk(view, i)
      BY <1>1, ChunksKeep
    <2>2. PICK p \in Bijection(DOMAIN s, DOMAIN s) : f[i] = [k \in DOMAIN s |-> s[p[k]]]
      <3>1. f[i] \in Sorts(s, ByRecord)
        BY <1>4, <2>1
      <3>2. f[i] \in {[k \in DOMAIN s |-> s[p[k]]] : p \in Bijection(DOMAIN s, DOMAIN s)}
        BY <3>1 DEF Sorts
      <3> HIDE <3>1
      <3>3. QED
        BY <3>2
    <2>3. PICK g : g = f[i]
      OBVIOUS
    <2>4. g \in Seq(S) /\ Net(g, A, B) = Net(s, A, B)
      BY <2>2, <2>3, SortKeeps
    <2>5. runs[i] = Run(DataPages(g), Len(g))
      BY <1>4, <2>3
    <2>6. RunRecords(Run(DataPages(g), Len(g))) = g
      BY <2>4, RecordsOfPages
    <2>7. QED
      BY <2>1, <2>3, <2>4, <2>5, <2>6 DEF Run
  <1>6. PICK c : c = MergeStart(runs).c
    OBVIOUS
  <1>7. DOMAIN runs = 1..n /\ c = [i \in 1..n |-> RunRecords(runs[i])]
    BY <1>4, <1>6 DEF MergeStart
  <1>8. \A i \in 1..n : c[i] = f[i] /\ c[i] \in Seq(S) /\ runs[i].n = Len(c[i])
    BY <1>5, <1>7
  <1>9. c \in Cursors(S, n)
    BY <1>7, <1>8 DEF Cursors
  <1>10. MergeInput(S, n, runs)
    <2>1. \A i \in 1..n : Sorted(f[i])
      BY <1>4 DEF Sorts, Sorted
    <2>2. QED
      BY <1>6, <1>7, <1>8, <1>9, <2>1 DEF MergeInput
  <1>11. ASSUME NEW A, NEW B PROVE Total(c, n, A, B) = Net(view, A, B)
    <2>1. SumTo([i \in 1..n |-> Net(Chunk(view, i), A, B)], n) = Net(view, A, B)
      BY <1>1, ChunksKeep
    <2>2. [i \in 1..n |-> Net(c[i], A, B)] = [i \in 1..n |-> Net(Chunk(view, i), A, B)]
      BY <1>5, <1>8
    <2>3. QED
      BY <2>1, <2>2 DEF Total
  <1>12. PICK reccnt : reccnt = Len(view)
    OBVIOUS
  <1>13. reccnt = Total(MergeStart(runs).c, n, S, {}) /\ reccnt < SizeModulus
         /\ t = BuildShard(st, reccnt, tombstones)
    BY <1>3, <1>6, <1>11, <1>12, LenIsNet
  <1>14. /\ IsShard(S, t)
         /\ Net(Records(t), P, Q) = Total(MergeStart(runs).c, n, P, Q)
         /\ Len(Records(t)) <= reccnt
    BY ONLY <1>10, <1>13, ShardBuilt, S \in SUBSET AnyWrapped, n \in Nat, tombstones \in Int,
            st \in MergeLoop(runs), PairsCount(S, P, Q, 0)
  <1>15. QED
    BY <1>6, <1>11, <1>12, <1>14

-----------------------------------------------------------------------------
(***************************************************************************)
(* The index.  With tags there are no tombstones, with tombstones no tags. *)
(***************************************************************************)
Stored ==
  {w \in WrappedRecords : IF mode.policy = "TAGGING" THEN ~w.tomb ELSE ~w.del}

\* What counts for a record and what counts against it.
Pro(r) == {w \in AnyWrapped : w.rec = r /\ ~w.tomb /\ ~w.del}
Con(r) == {w \in AnyWrapped : w.rec = r /\ w.tomb}

IsGood(shard) ==
  IF External THEN IsShard(Stored, shard) ELSE shard \in Seq(Stored) /\ Sorted(shard)

\* A level is a sequence of shards.
IsLevel(l) == l \in Seq(ToSet(l)) /\ \A k \in DOMAIN l : IsGood(l[k])

LevelNet(l, P, Q) == SumTo([k \in 1..Len(l) |-> Net(Content(l[k]), P, Q)], Len(l))

AllNet(ls, P, Q) == SumTo([i \in 1..MaxLevels |-> LevelNet(ls[i], P, Q)], MaxLevels)

\* What is known of every mode.
LEMMA ModeFacts ==
  ASSUME mode \in Modes
  PROVE  /\ External <=> ~(mode.kind = "memory")
         /\ mode.policy = "TOMBSTONE" \/ (mode.policy = "TAGGING" /\ External)
         /\ Known \subseteq Nat \X Nat /\ Universe \subseteq Known
         /\ \A r \in Universe : r # <<0, 0>>
         /\ mode.appends \in Nat
         /\ mode.loaded \in Seq(Known) /\ Len(mode.loaded) \in Nat
         /\ Len(mode.loaded) + mode.appends < SizeModulus
  <1>1. /\ mode.kind \in {"external", "memory"}
        /\ mode.policy = "TOMBSTONE" \/ (mode.policy = "TAGGING" /\ mode.kind = "external")
        /\ mode.records \subseteq (Nat \ {0}) \X Nat
        /\ mode.appends \in Nat
        /\ mode.loaded \in Seq((Nat \ {0}) \X Nat)
        /\ Len(mode.loaded) + mode.appends < SizeModulus
    BY IndexAssumption
  <1>2. Len(mode.loaded) \in Nat /\ DOMAIN mode.loaded = 1..Len(mode.loaded)
    BY <1>1, LenProperties
  <1>3. \A i \in DOMAIN mode.loaded : mode.loaded[i] \in (Nat \ {0}) \X Nat
    BY <1>1, <1>2, ElementOfSeq
  <1>4. ToSet(mode.loaded) \subseteq (Nat \ {0}) \X Nat
    BY <1>3 DEF ToSet
  <1>5. mode.loaded \in Seq(Known)
    <2>1. \A i \in 1..Len(mode.loaded) : mode.loaded[i] \in Known
      BY <1>2 DEF Known, ToSet
    <2>2. PICK f : f = mode.loaded
      OBVIOUS
    <2>3. PICK S : S = (Nat \ {0}) \X Nat
      OBVIOUS
    <2>4. f \in Seq(S)
      BY <1>1, <2>2, <2>3
    <2>5. f = [i \in 1..Len(f) |-> f[i]]
      BY <2>4, LenProperties
    <2>6. f \in [1..Len(f) -> Known]
      BY <2>1, <2>2, <2>5
    <2>7. QED
      BY <1>2, <2>2, <2>6, SeqDef
  <1>6. Known \subseteq Nat \X Nat /\ Universe \subseteq Known
    <2>1. (Nat \ {0}) \X Nat \subseteq Nat \X Nat
      OBVIOUS
    <2>2. QED
      BY <1>1, <1>4, <2>1 DEF Known, Universe
  <1>7. \A r \in Universe : r # <<0, 0>>
    BY <1>1 DEF Universe
  <1>8. QED
    BY <1>1, <1>2, <1>5, <1>6, <1>7 DEF External

\* Stored records are wrapped records; a record and its tombstone count nothing.
LEMMA StoredFacts ==
  ASSUME mode \in Modes
  PROVE  /\ Stored \in SUBSET AnyWrapped
         /\ Stored \subseteq WrappedRecords
         /\ ~External => \A w \in Stored : ~w.del
         /\ \A r : PairsCount(Stored, Pro(r), Con(r), 0) /\ StampFree(Stored, Pro(r), Con(r))
         /\ PairsCount(Stored, Stored, {}, 2)
  <1>1. Cap \in Nat
    BY IndexAssumption
  <1>2. Known \subseteq Nat \X Nat
    BY ModeFacts
  <1>3. 0..(2 * Cap) \subseteq Nat
    OBVIOUS
  <1>4. WrappedRecords \subseteq AnyWrapped
    BY <1>2, <1>3 DEF WrappedRecords, AnyWrapped
  <1>5. Stored \subseteq WrappedRecords
    BY DEF Stored
  <1>6. ~External => \A w \in Stored : ~w.del
    BY ModeFacts DEF Stored
  <1>7. ASSUME NEW r PROVE PairsCount(Stored, Pro(r), Con(r), 0)
    <2>1. ASSUME NEW a \in Stored, NEW b \in Stored, Annihilate(a, b)
          PROVE  Sign(a, Pro(r), Con(r)) + Sign(b, Pro(r), Con(r)) = 0
      <3>1. a.rec = b.rec /\ a.tomb # b.tomb
        BY <2>1 DEF Annihilate
      <3>2. a \in AnyWrapped /\ b \in AnyWrapped
        BY <1>4, <1>5
      <3>3. a.tomb \in BOOLEAN /\ b.tomb \in BOOLEAN
        BY <3>2 DEF AnyWrapped
      <3>4. ~a.del /\ ~b.del
        <4>1. mode.policy # "TAGGING"
          BY <3>1, <3>3 DEF Stored
        <4>2. QED
          BY <4>1 DEF Stored
      <3>5. a \in Pro(r) <=> a.rec = r /\ ~a.tomb
        BY <3>2, <3>4 DEF Pro
      <3>6. b \in Pro(r) <=> b.rec = r /\ ~b.tomb
        BY <3>2, <3>4 DEF Pro
      <3>7. a \in Con(r) <=> a.rec = r /\ a.tomb
        BY <3>2 DEF Con
      <3>8. b \in Con(r) <=> b.rec = r /\ b.tomb
        BY <3>2 DEF Con
      <3>9. CASE a.rec = r /\ a.tomb
        <4>1. a \notin Pro(r) /\ a \in Con(r) /\ b \in Pro(r) /\ b \notin Con(r)
          BY <3>1, <3>3, <3>5, <3>6, <3>7, <3>8, <3>9
        <4>2. QED
          BY <4>1 DEF Sign
      <3>10. CASE a.rec = r /\ ~a.tomb
        BY <3>1, <3>3, <3>5, <3>6, <3>7, <3>8, <3>10 DEF Sign
      <3>11. CASE a.rec # r
        BY <3>1, <3>5, <3>6, <3>7, <3>8, <3>11 DEF Sign
      <3>12. QED
        BY <3>9, <3>10, <3>11
    <2>2. QED
      BY <2>1 DEF PairsCount
  <1>8. ASSUME NEW r PROVE StampFree(Stored, Pro(r), Con(r))
    <2>1. ASSUME NEW w \in Stored
          PROVE  /\ [w EXCEPT !.stamp = 0] \in Stored
                 /\ Sign([w EXCEPT !.stamp = 0], Pro(r), Con(r)) = Sign(w, Pro(r), Con(r))
      <3>1. PICK x : x = [w EXCEPT !.stamp = 0]
        OBVIOUS
      <3>2. w \in [rec : Known, tomb : BOOLEAN, del : BOOLEAN, stamp : 0..(2 * Cap)]
        BY <1>5 DEF WrappedRecords
      <3>3. x \in [rec : Known, tomb : BOOLEAN, del : BOOLEAN, stamp : 0..(2 * Cap)]
            /\ x.rec = w.rec /\ x.tomb = w.tomb /\ x.del = w.del
        <4>1. 0 \in 0..(2 * Cap)
          BY <1>1
        <4>2. QED
          BY <3>1, <3>2, <4>1
      <3>4. x \in Stored
        BY <3>3 DEF Stored, WrappedRecords
      <3>5. x \in AnyWrapped /\ w \in AnyWrapped
        BY <3>4, <1>4, <1>5
      <3>6. (x \in Pro(r) <=> w \in Pro(r)) /\ (x \in Con(r) <=> w \in Con(r))
        BY <3>3, <3>5 DEF Pro, Con
      <3>7. Sign(x, Pro(r), Con(r)) = Sign(w, Pro(r), Con(r))
        BY <3>6 DEF Sign
      <3>8. QED
        BY <3>1, <3>4, <3>7
    <2>2. QED
      BY <2>1 DEF StampFree
  <1>9. QED
    BY <1>4, <1>5, <1>6, <1>7, <1>8, PairsAreTwo

\* Balance is a net.
LEMMA BalanceIsNet ==
  ASSUME NEW S \in SUBSET AnyWrapped, NEW s \in Seq(S), NEW r
  PROVE  Balance(s, r) = Net(s, Pro(r), Con(r))
  <1>1. \A i \in DOMAIN s : s[i] \in AnyWrapped
    BY LenProperties, ElementOfSeq
  <1>2. {i \in {k \in DOMAIN s : s[k].rec = r} : ~s[i].tomb /\ ~s[i].del}
          = {i \in DOMAIN s : s[i] \in Pro(r)}
    BY <1>1 DEF Pro
  <1>3. {i \in {k \in DOMAIN s : s[k].rec = r} : s[i].tomb} = {i \in DOMAIN s : s[i] \in Con(r)}
    BY <1>1 DEF Con
  <1>4. QED
    BY <1>2, <1>3 DEF Balance, Net, Hits

-----------------------------------------------------------------------------
(***************************************************************************)
(* The ring of the buffer.                                                 *)
(***************************************************************************)
IsRing == m_tail \in Nat /\ m_head \in 0..m_tail /\ ViewCount <= HWM

\* Where the view starts and stops, in the ring.
LEMMA RingFacts ==
  ASSUME IsRing
  PROVE  /\ Cap \in Nat /\ Cap > 0 /\ ViewCount \in Nat /\ ViewCount < Cap
         /\ Start \in 0..(Cap - 1) /\ Stop \in 0..(Cap - 1)
         /\ Stop = IF Start + ViewCount < Cap THEN Start + ViewCount ELSE Start + ViewCount - Cap
         /\ \A j \in 0..(ViewCount - 1) :
              ToIdx(j) = (m_head + j) % Cap /\ ToIdx(j) \in 0..(Cap - 1)
  <1>1. Cap \in Nat /\ Cap \in Int /\ Cap > 0 /\ HWM \in Nat /\ HWM < Cap
    BY IndexAssumption
  <1>2. m_head \in Nat /\ m_tail \in Nat /\ ViewCount \in Nat /\ ViewCount < Cap
    BY <1>1 DEF IsRing, ViewCount
  <1>3. PICK q \in Int : m_head = Cap * q + Start /\ Start \in 0..(Cap - 1)
    <2>1. m_head \div Cap \in Int /\ m_head % Cap \in Int /\ 0 <= m_head % Cap
          /\ m_head % Cap < Cap /\ m_head = Cap * (m_head \div Cap) + (m_head % Cap)
      BY <1>1, <1>2, DivMod
    <2>2. PICK u \in Int : u = m_head \div Cap
      BY <2>1
    <2>3. PICK v \in Int : v = m_head % Cap
      BY <2>1
    <2>4. m_head = Cap * u + v /\ v \in 0..(Cap - 1)
      BY <1>1, <2>1, <2>2, <2>3
    <2>5. QED
      BY <2>3, <2>4 DEF Start
  <1>4. PICK a \in 0..(Cap - 1) : a = Start
    BY <1>3
  <1>5. ASSUME NEW j \in Nat, j < Cap
        PROVE  (m_head + j) % Cap = IF a + j >= Cap THEN j - (Cap - a) ELSE a + j
    <2>1. PICK k \in Int : k = m_head + j
      BY <1>2
    <2>2. CASE a + j >= Cap
      <3>1. PICK u \in Int : u = q + 1
        OBVIOUS
      <3>2. Cap * u = Cap * q + Cap
        BY <3>1, <1>1
      <3>3. PICK r \in Int : r = j - (Cap - a)
        BY <1>1
      <3>4. k = Cap * u + r /\ 0 <= r /\ r < Cap
        BY <1>1, <1>3, <1>4, <1>5, <2>1, <2>2, <3>2, <3>3
      <3>5. k % Cap = r
        BY <1>1, <3>4, DivUnique
      <3>6. QED
        BY <2>1, <2>2, <3>3, <3>5
    <2>3. CASE ~(a + j >= Cap)
      <3>1. PICK r \in Int : r = a + j
        BY <1>1
      <3>2. k = Cap * q + r /\ 0 <= r /\ r < Cap
        BY <1>1, <1>2, <1>3, <1>4, <2>1, <2>3, <3>1
      <3>3. k % Cap = r
        BY <1>1, <3>2, DivUnique
      <3>4. QED
        BY <2>1, <2>3, <3>1, <3>3
    <2>4. QED
      BY <2>2, <2>3
  <1>6. ASSUME NEW j \in 0..(ViewCount - 1)
        PROVE  ToIdx(j) = (m_head + j) % Cap /\ ToIdx(j) \in 0..(Cap - 1)
    <2>1. j \in Nat /\ j < Cap
      BY <1>1, <1>2
    <2>2. ToIdx(j) = IF a + j >= Cap THEN j - (Cap - a) ELSE a + j
      BY <1>4 DEF ToIdx
    <2>3. QED
      BY <1>1, <1>4, <1>5, <2>1, <2>2
  <1>7. Stop = IF a + ViewCount >= Cap THEN ViewCount - (Cap - a) ELSE a + ViewCount
    <2>1. m_tail = m_head + ViewCount
      BY <1>2 DEF ViewCount
    <2>2. QED
      BY <1>2, <1>5, <2>1 DEF Stop
  <1>8. QED
    BY <1>1, <1>2, <1>3, <1>4, <1>6, <1>7

\* copy_to_buffer delivers the records of the view in their order, also when they
\* wrap around the end of the ring.
LEMMA CopyIsView ==
  ASSUME IsRing
  PROVE  CopyToBuffer = View
  <1>1. PICK c \in Nat : c = Cap
    BY RingFacts
  <1>2. PICK v \in Nat : v = ViewCount
    BY RingFacts
  <1>3. v < c /\ c > 0
    BY <1>1, <1>2, RingFacts
  <1>4. PICK a \in 0..(c - 1) : a = Start
    BY <1>1, RingFacts
  <1>5. PICK b \in 0..(c - 1) : b = Stop
    BY <1>1, RingFacts
  <1>6. b = IF a + v < c THEN a + v ELSE a + v - c
    BY <1>1, <1>2, <1>4, <1>5, RingFacts
  <1>7. View = [i \in 1..v |-> m_data[IF a + (i - 1) >= c THEN (i - 1) - (c - a) ELSE a + (i - 1)]]
    BY <1>1, <1>2, <1>4 DEF View, ToIdx
  <1>8. CASE a + v < c
    <2>1. ~(a > b) /\ (a + v) - a = v
      BY <1>6, <1>8
    <2>2. CopyToBuffer = [i \in 1..v |-> m_data[a + i - 1]]
      BY <1>1, <1>2, <1>4, <1>5, <2>1 DEF CopyToBuffer, Slots
    <2>3. \A i \in 1..v : ~(a + (i - 1) >= c) /\ a + (i - 1) = a + i - 1
      BY <1>8
    <2>4. QED
      BY <1>7, <2>2, <2>3
  <1>9. CASE ~(a + v < c)
    <2>1. a > b /\ b = a + v - c
      BY <1>3, <1>6, <1>9
    <2>2. PICK k \in Nat : k = c - a
      OBVIOUS
    <2>3. k + b = v
      BY <2>1, <2>2
    <2>4. PICK U : U = {m_data[x] : x \in Int}
      OBVIOUS
    <2>5. PICK s : s = [i \in 1..k |-> m_data[a + i - 1]]
      OBVIOUS
    <2>6. PICK t : t = [i \in 1..b |-> m_data[0 + i - 1]]
      OBVIOUS
    <2>7. CopyToBuffer = s \o t
      <3>1. b - 0 = b
        OBVIOUS
      <3>2. QED
        BY <1>1, <1>4, <1>5, <2>1, <2>2, <2>5, <2>6, <3>1 DEF CopyToBuffer, Slots
    <2>8. s \in Seq(U) /\ Len(s) = k
      BY <2>4, <2>5
    <2>9. b \in Nat /\ t \in Seq(U) /\ Len(t) = b
      BY <2>4, <2>6
    <2>10. Len(s \o t) = v /\ s \o t \in Seq(U)
           /\ \A i \in 1..v : (s \o t)[i] = IF i <= k THEN s[i] ELSE t[i - k]
      BY <2>3, <2>8, <2>9, ConcatProperties
    <2>11. PICK x : x = s \o t
      OBVIOUS
    <2>12. x = [i \in 1..v |-> x[i]]
      BY <2>10, <2>11, LenProperties
    <2>13. ASSUME NEW i \in 1..v PROVE x[i] = View[i]
      <3>1. View[i] = m_data[IF a + (i - 1) >= c THEN (i - 1) - (c - a) ELSE a + (i - 1)]
        BY <1>7
      <3>2. CASE i <= k
        <4>1. i \in 1..k /\ ~(a + (i - 1) >= c) /\ a + (i - 1) = a + i - 1
          BY <2>2, <3>2
        <4>2. x[i] = m_data[a + i - 1]
          BY <4>1, <2>5, <2>10, <2>11
        <4>3. QED
          BY <3>1, <4>1, <4>2
      <3>3. CASE ~(i <= k)
        <4>1. i - k \in 1..b /\ a + (i - 1) >= c /\ (i - 1) - (c - a) = 0 + (i - k) - 1
          BY <2>2, <2>3, <3>3
        <4>2. x[i] = m_data[0 + (i - k) - 1]
          BY <4>1, <3>3, <2>6, <2>10, <2>11
        <4>3. QED
          BY <3>1, <4>1, <4>2
      <3>4. QED
        BY <3>2, <3>3
    <2>14. View = [i \in 1..v |-> View[i]]
      BY <1>7
    <2>15. QED
      BY <2>7, <2>11, <2>12, <2>13, <2>14
  <1>10. QED
    BY <1>8, <1>9

\* The view is a sequence of stored records.
LEMMA ViewSeq ==
  ASSUME IsRing, \A i \in m_head..(m_tail - 1) : m_data[i % Cap] \in Stored
  PROVE  View \in Seq(Stored) /\ Len(View) = ViewCount /\ ViewCount \in Nat
  <1>1. PICK v \in Nat : v = ViewCount
    BY RingFacts
  <1>2. ASSUME NEW i \in 1..v PROVE m_data[ToIdx(i - 1)] \in Stored
    <2>1. i - 1 \in 0..(ViewCount - 1)
      BY <1>1
    <2>2. PICK k : k = m_head + (i - 1)
      OBVIOUS
    <2>3. k \in m_head..(m_tail - 1)
      BY <1>1, <2>2 DEF IsRing, ViewCount
    <2>4. ToIdx(i - 1) = k % Cap
      BY <2>1, <2>2, RingFacts
    <2>5. QED
      BY <2>3, <2>4
  <1>3. View = [i \in 1..v |-> m_data[ToIdx(i - 1)]]
    BY <1>1 DEF View
  <1>4. PICK S : S = Stored
    OBVIOUS
  <1>5. View \in [1..v -> S]
    BY <1>2, <1>3, <1>4
  <1>6. View \in Seq(S)
    BY <1>5, SeqDef
  <1>7. Len(View) = v
    BY <1>5, <1>6, LenProperties
  <1>8. QED
    BY <1>1, <1>4, <1>6, <1>7

-----------------------------------------------------------------------------
(***************************************************************************)
(* Levels and what they hold.                                              *)
(***************************************************************************)
LEMMA GoodContent ==
  ASSUME NEW s, IsGood(s)
  PROVE  Content(s) \in Seq(Stored)
  BY DEF IsGood, IsShard, Content

\* A sequence of good shards is a level.
LEMMA LevelIntro ==
  ASSUME NEW U, NEW l \in Seq(U), \A k \in 1..Len(l) : IsGood(l[k])
  PROVE  IsLevel(l)
  <1>1. PICK n \in Nat : n = Len(l)
    BY LenProperties
  <1>2. DOMAIN l = 1..n /\ l = [k \in 1..n |-> l[k]]
    BY <1>1, LenProperties
  <1>3. PICK R : R = ToSet(l)
    OBVIOUS
  <1>4. \A k \in 1..n : l[k] \in R
    BY <1>2, <1>3 DEF ToSet
  <1>5. l \in [1..n -> R]
    BY <1>2, <1>4
  <1>6. l \in Seq(R)
    BY <1>5, SeqDef
  <1>7. QED
    BY <1>1, <1>2, <1>3, <1>6 DEF IsLevel

\* The nets of the shards of a level.
LEMMA LevelTerms ==
  ASSUME NEW l, IsLevel(l), NEW P, NEW Q
  PROVE  /\ Len(l) \in Nat /\ DOMAIN l = 1..Len(l)
         /\ \A k \in 1..Len(l) : IsGood(l[k]) /\ Content(l[k]) \in Seq(Stored)
                                 /\ Net(Content(l[k]), P, Q) \in Int
         /\ LevelNet(l, P, Q) \in Int
  <1>1. PICK n \in Nat : n = Len(l)
    BY LenProperties DEF IsLevel
  <1>2. DOMAIN l = 1..n
    BY <1>1, LenProperties DEF IsLevel
  <1>3. \A k \in 1..n : IsGood(l[k])
    BY <1>2 DEF IsLevel
  <1>4. ASSUME NEW k \in 1..n
        PROVE  Content(l[k]) \in Seq(Stored) /\ Net(Content(l[k]), P, Q) \in Int
    <2>1. Content(l[k]) \in Seq(Stored)
      BY <1>3, GoodContent
    <2>2. QED
      BY <2>1, NetInt
  <1>5. PICK nets : nets = [k \in 1..n |-> Net(Content(l[k]), P, Q)]
    OBVIOUS
  <1>6. \A k \in 1..n : nets[k] \in Int
    BY <1>4, <1>5
  <1>7. SumTo(nets, n) \in Int
    BY <1>6, SumStep
  <1>8. QED
    BY <1>1, <1>2, <1>3, <1>4, <1>5, <1>7 DEF LevelNet

\* The number of records of a level.
LEMMA LevelSize ==
  ASSUME NEW l, IsLevel(l)
  PROVE  /\ LevelNet(l, Stored, {}) \in Nat
         /\ LevelNet(l, Stored, {}) = SumTo([k \in 1..Len(l) |-> Len(Content(l[k]))], Len(l))
  <1>1. PICK n \in Nat : n = Len(l)
    BY LevelTerms
  <1>2. \A k \in 1..n : Content(l[k]) \in Seq(Stored)
    BY <1>1, LevelTerms
  <1>3. \A k \in 1..n : Net(Content(l[k]), Stored, {}) = Len(Content(l[k]))
    BY <1>2, LenIsNet
  <1>4. [k \in 1..n |-> Net(Content(l[k]), Stored, {})] = [k \in 1..n |-> Len(Content(l[k]))]
    BY <1>3
  <1>5. PICK lens : lens = [k \in 1..n |-> Len(Content(l[k]))]
    OBVIOUS
  <1>6. \A k \in 1..n : lens[k] \in Nat
    BY <1>2, <1>5, LenProperties
  <1>7. SumTo(lens, n) \in Nat
    BY <1>6, SumOfNats
  <1>8. LevelNet(l, Stored, {}) = SumTo(lens, n)
    BY <1>1, <1>4, <1>5 DEF LevelNet
  <1>9. QED
    BY <1>1, <1>5, <1>7, <1>8

\* An empty level holds nothing.
LEMMA NoLevel ==
  ASSUME NEW P, NEW Q
  PROVE  IsLevel(<<>>) /\ LevelNet(<<>>, P, Q) = 0
  <1>1. PICK l : l = <<>>
    OBVIOUS
  <1>2. l \in Seq({}) /\ Len(l) = 0
    BY <1>1
  <1>3. IsLevel(l)
    <2>1. PICK U : l \in Seq(U)
      BY <1>2
    <2>2. \A k \in 1..Len(l) : IsGood(l[k])
      BY <1>2
    <2> HIDE <1>2
    <2>3. QED
      BY <2>1, <2>2, LevelIntro
  <1>4. PICK nets : nets = [k \in 1..Len(l) |-> Net(Content(l[k]), P, Q)]
    OBVIOUS
  <1>5. SumTo(nets, 0) = 0
    <2>1. 0 \in Nat /\ \A i \in 1..0 : nets[i] = 0
      OBVIOUS
    <2>2. QED
      BY <2>1, SumZeros
  <1>6. LevelNet(l, P, Q) = 0
    BY <1>2, <1>4, <1>5 DEF LevelNet
  <1>7. QED
    BY <1>1, <1>3, <1>6

\* The shards of two levels together hold what both hold.
LEMMA LevelConcat ==
  ASSUME NEW l, NEW m, IsLevel(l), IsLevel(m), NEW P, NEW Q
  PROVE  IsLevel(l \o m) /\ LevelNet(l \o m, P, Q) = LevelNet(l, P, Q) + LevelNet(m, P, Q)
  <1>1. PICK a \in Nat : a = Len(l)
    BY LevelTerms
  <1>2. PICK b \in Nat : b = Len(m)
    BY LevelTerms
  <1>3. PICK U : U = ToSet(l) \cup ToSet(m)
    OBVIOUS
  <1>4. l \in Seq(U) /\ m \in Seq(U)
    BY <1>3, SeqMonotonic DEF IsLevel
  <1>5. PICK x : x = l \o m
    OBVIOUS
  <1>6. x \in Seq(U) /\ Len(x) = a + b
        /\ \A k \in 1..(a + b) : x[k] = IF k <= a THEN l[k] ELSE m[k - a]
    BY <1>1, <1>2, <1>4, <1>5, ConcatProperties
  <1>7. \A k \in 1..a : k \in 1..(a + b) /\ k <= a
    OBVIOUS
  <1>8. \A k \in 1..a : x[k] = l[k]
    BY <1>6, <1>7
  <1>9. ASSUME NEW k \in 1..b PROVE x[a + k] = m[k]
    <2>1. a + k \in 1..(a + b) /\ ~(a + k <= a) /\ (a + k) - a = k
      OBVIOUS
    <2>2. QED
      BY <1>6, <2>1
  <1>10. ASSUME NEW k \in 1..(a + b)
         PROVE  IsGood(x[k]) /\ Net(Content(x[k]), P, Q) \in Int
    <2>1. CASE k <= a
      <3>1. k \in 1..a
        BY <2>1
      <3>2. QED
        BY <1>1, <1>8, <3>1, LevelTerms
    <2>2. CASE ~(k <= a)
      <3>1. PICK j \in 1..b : k = a + j
        <4>1. k - a \in 1..b /\ k = a + (k - a)
          BY <2>2
        <4>2. QED
          BY <4>1
      <3>2. x[k] = m[j]
        BY <3>1, <1>9
      <3>3. QED
        BY <1>2, <3>2, LevelTerms
    <2>3. QED
      BY <2>1, <2>2
  <1>11. IsLevel(x)
    BY <1>6, <1>10, LevelIntro
  <1>12. PICK ns : ns = [k \in 1..(a + b) |-> Net(Content(x[k]), P, Q)]
    OBVIOUS
  <1>13. PICK ls : ls = [k \in 1..a |-> Net(Content(l[k]), P, Q)]
    OBVIOUS
  <1>14. PICK ms : ms = [k \in 1..b |-> Net(Content(m[k]), P, Q)]
    OBVIOUS
  <1>15. \A i \in 1..(a + b) : ns[i] \in Int
    BY <1>10, <1>12
  <1>16. ASSUME NEW i \in 1..a PROVE ns[i] = ls[i] /\ ns[i] \in Int
    BY <1>7, <1>8, <1>12, <1>13, <1>15
  <1>17. ASSUME NEW i \in 1..b PROVE ms[i] = ns[a + i]
    <2>1. a + i \in 1..(a + b)
      OBVIOUS
    <2>2. QED
      BY <1>9, <1>12, <1>14, <2>1
  <1>18. SumTo(ns, a + b) = SumTo(ns, a) + SumTo(ms, b)
    BY ONLY <1>15, <1>17, SumSplit, a \in Nat, b \in Nat
  <1>19. SumTo(ns, a) = SumTo(ls, a)
    BY <1>16, SumSame
  <1>20. LevelNet(x, P, Q) = SumTo(ns, a + b)
    BY <1>6, <1>12 DEF LevelNet
  <1>21. LevelNet(l, P, Q) = SumTo(ls, a)
    BY <1>1, <1>13 DEF LevelNet
  <1>22. LevelNet(m, P, Q) = SumTo(ms, b)
    BY <1>2, <1>14 DEF LevelNet
  <1>23. QED
    BY <1>5, <1>11, <1>18, <1>19, <1>20, <1>21, <1>22

\* A level of one shard holds what the shard holds.
LEMMA LevelOne ==
  ASSUME NEW t, IsGood(t), NEW P, NEW Q
  PROVE  IsLevel(<<t>>) /\ LevelNet(<<t>>, P, Q) = Net(Content(t), P, Q)
  <1>1. PICK l : l = <<t>>
    OBVIOUS
  <1>2. l \in Seq({t}) /\ Len(l) = 1 /\ l[1] = t
    BY <1>1
  <1>3. \A k \in 1..Len(l) : IsGood(l[k])
    BY <1>2
  <1>4. IsLevel(l)
    BY <1>2, <1>3, LevelIntro
  <1>5. PICK nets : nets = [k \in 1..1 |-> Net(Content(l[k]), P, Q)]
    OBVIOUS
  <1>6. nets[1] = Net(Content(t), P, Q) /\ nets[1] \in Int
    <2>1. Content(t) \in Seq(Stored)
      BY GoodContent
    <2>2. Net(Content(t), P, Q) \in Int
      BY <2>1, NetInt
    <2>3. nets[1] = Net(Content(l[1]), P, Q)
      BY <1>5
    <2>4. QED
      BY <1>2, <2>2, <2>3
  <1>7. SumTo(nets, 1) = nets[1]
    <2>1. PICK n \in Nat : n = 1
      OBVIOUS
    <2>2. n > 0 /\ n - 1 = 0 /\ \A i \in 1..n : nets[i] \in Int
      BY <1>6, <2>1
    <2>3. SumTo(nets, n) = SumTo(nets, n - 1) + nets[n] /\ SumTo(nets, 0) = 0
      BY <2>2, SumStep
    <2>4. QED
      BY <1>6, <2>1, <2>2, <2>3
  <1>8. LevelNet(l, P, Q) = SumTo(nets, 1)
    BY <1>2, <1>5 DEF LevelNet
  <1>9. QED
    BY <1>1, <1>4, <1>6, <1>7, <1>8

\* A shard that is appended to a level adds what it holds.
LEMMA LevelAppend ==
  ASSUME NEW l, IsLevel(l), NEW t, IsGood(t), NEW P, NEW Q
  PROVE  /\ IsLevel(Append(l, t))
         /\ LevelNet(Append(l, t), P, Q) = LevelNet(l, P, Q) + Net(Content(t), P, Q)
  <1>1. PICK m : m = <<t>>
    OBVIOUS
  <1>2. IsLevel(m) /\ LevelNet(m, P, Q) = Net(Content(t), P, Q)
    BY <1>1, LevelOne
  <1>3. IsLevel(l \o m) /\ LevelNet(l \o m, P, Q) = LevelNet(l, P, Q) + LevelNet(m, P, Q)
    BY <1>2, LevelConcat
  <1>4. Append(l, t) = l \o m
    <2>1. PICK U : U = ToSet(l) \cup {t}
      OBVIOUS
    <2>2. l \in Seq(U) /\ t \in U
      BY <2>1, SeqMonotonic DEF IsLevel
    <2>3. QED
      BY <1>1, <2>2, AppendIsConcat
  <1>5. QED
    BY <1>2, <1>3, <1>4

-----------------------------------------------------------------------------
(***************************************************************************)
(* All levels together.                                                    *)
(***************************************************************************)
AreLevels(ls) == DOMAIN ls = 1..MaxLevels /\ \A i \in 1..MaxLevels : IsLevel(ls[i])

\* What the levels hold in all is an integer, and their size is a number.
LEMMA AllTerms ==
  ASSUME NEW ls, AreLevels(ls), NEW P, NEW Q
  PROVE  /\ MaxLevels \in Nat /\ MaxLevels > 1
         /\ \A i \in 1..MaxLevels : LevelNet(ls[i], P, Q) \in Int
         /\ AllNet(ls, P, Q) \in Int
         /\ AllNet(ls, Stored, {}) \in Nat
  <1>1. MaxLevels \in Nat /\ MaxLevels > 1
    BY IndexAssumption
  <1>2. ASSUME NEW i \in 1..MaxLevels
        PROVE  LevelNet(ls[i], P, Q) \in Int /\ LevelNet(ls[i], Stored, {}) \in Nat
    <2>1. IsLevel(ls[i])
      BY DEF AreLevels
    <2>2. QED
      BY <2>1, LevelTerms, LevelSize
  <1>3. PICK nets : nets = [i \in 1..MaxLevels |-> LevelNet(ls[i], P, Q)]
    OBVIOUS
  <1>4. \A i \in 1..MaxLevels : nets[i] \in Int
    BY <1>2, <1>3
  <1>5. SumTo(nets, MaxLevels) \in Int
    BY <1>1, <1>4, SumStep
  <1>6. PICK sizes : sizes = [i \in 1..MaxLevels |-> LevelNet(ls[i], Stored, {})]
    OBVIOUS
  <1>7. \A i \in 1..MaxLevels : sizes[i] \in Nat
    BY <1>2, <1>6
  <1>8. SumTo(sizes, MaxLevels) \in Nat
    BY <1>1, <1>7, SumOfNats
  <1>9. QED
    BY <1>1, <1>2, <1>3, <1>5, <1>6, <1>8 DEF AllNet

\* Only levels j and k change.
OnlyAt(ls, ms, j, k) == \A i \in 1..MaxLevels : i # j /\ i # k => ms[i] = ls[i]

\* What the levels hold in all changes with the two levels that change.
LEMMA LevelsChanged ==
  ASSUME NEW ls, NEW ms, AreLevels(ls), AreLevels(ms),
         NEW j \in 1..MaxLevels, NEW k \in 1..MaxLevels, j # k,
         OnlyAt(ls, ms, j, k), NEW P, NEW Q
  PROVE  AllNet(ms, P, Q) = AllNet(ls, P, Q) - LevelNet(ls[j], P, Q) - LevelNet(ls[k], P, Q)
                              + LevelNet(ms[j], P, Q) + LevelNet(ms[k], P, Q)
  <1>1. PICK n \in Nat : n = MaxLevels
    BY AllTerms
  <1>2. PICK a : a = [i \in 1..n |-> LevelNet(ls[i], P, Q)]
    OBVIOUS
  <1>3. PICK b : b = [i \in 1..n |-> LevelNet(ms[i], P, Q)]
    OBVIOUS
  <1>4. PICK c : c = [i \in 1..n |-> IF i = j THEN b[i] ELSE a[i]]
    OBVIOUS
  <1>5. j \in 1..n /\ k \in 1..n
    BY <1>1
  <1>6. \A i \in 1..n : LevelNet(ls[i], P, Q) \in Int /\ LevelNet(ms[i], P, Q) \in Int
    BY <1>1, AllTerms
  <1>7. \A i \in 1..n : a[i] = LevelNet(ls[i], P, Q) /\ a[i] \in Int
                        /\ b[i] = LevelNet(ms[i], P, Q) /\ b[i] \in Int
    BY <1>2, <1>3, <1>6
  <1>8. \A i \in 1..n : c[i] \in Int /\ (i # j => a[i] = c[i]) /\ (i # k => c[i] = b[i])
    BY <1>1, <1>2, <1>3, <1>4, <1>7 DEF OnlyAt
  <1>9. SumTo(c, n) = SumTo(a, n) - a[j] + c[j]
    BY <1>5, <1>7, <1>8, SumChange
  <1>10. SumTo(b, n) = SumTo(c, n) - c[k] + b[k]
    BY <1>5, <1>7, <1>8, SumChange
  <1>11. c[j] = b[j] /\ c[k] = a[k]
    BY <1>5, <1>8
  <1>12. SumTo(a, n) \in Int
    BY <1>7, SumStep
  <1>13. SumTo(b, n) = SumTo(a, n) - a[j] - a[k] + b[j] + b[k]
    BY <1>5, <1>7, <1>9, <1>10, <1>11, <1>12
  <1>14. AllNet(ls, P, Q) = SumTo(a, n) /\ AllNet(ms, P, Q) = SumTo(b, n)
    BY <1>1, <1>2, <1>3 DEF AllNet
  <1>15. QED
    BY <1>5, <1>7, <1>13, <1>14

\* Two levels hold no more than all.
LEMMA TwoLevels ==
  ASSUME NEW ls, AreLevels(ls), NEW j \in 1..MaxLevels, NEW k \in 1..MaxLevels, j # k
  PROVE  LevelNet(ls[j], Stored, {}) + LevelNet(ls[k], Stored, {}) <= AllNet(ls, Stored, {})
  <1>1. PICK ms : ms = [i \in 1..MaxLevels |-> IF i = j \/ i = k THEN <<>> ELSE ls[i]]
    OBVIOUS
  <1>2. AreLevels(ms)
    BY <1>1, NoLevel DEF AreLevels
  <1>3. ms[j] = <<>> /\ ms[k] = <<>> /\ OnlyAt(ls, ms, j, k)
    BY <1>1 DEF OnlyAt
  <1>4. PICK P : P = Stored
    OBVIOUS
  <1>5. PICK Q : Q = {}
    OBVIOUS
  <1>6. AllNet(ms, P, Q) = AllNet(ls, P, Q) - LevelNet(ls[j], P, Q) - LevelNet(ls[k], P, Q)
                             + LevelNet(ms[j], P, Q) + LevelNet(ms[k], P, Q)
    BY <1>2, <1>3, LevelsChanged
  <1>7. LevelNet(ms[j], P, Q) = 0 /\ LevelNet(ms[k], P, Q) = 0
    BY <1>3, NoLevel
  <1>8. AllNet(ms, P, Q) \in Nat /\ AllNet(ls, P, Q) \in Nat
    BY <1>2, <1>4, <1>5, AllTerms
  <1>9. LevelNet(ls[j], P, Q) \in Int /\ LevelNet(ls[k], P, Q) \in Int
    BY AllTerms
  <1>10. LevelNet(ls[j], P, Q) + LevelNet(ls[k], P, Q) <= AllNet(ls, P, Q)
    BY <1>6, <1>7, <1>8, <1>9
  <1>11. QED
    BY <1>4, <1>5, <1>10

\* What a level says, shard by shard.
LEMMA LevelEntriesNet ==
  ASSUME NEW l, IsLevel(l), NEW P, NEW Q
  PROVE  LevelEntries(l) \in Seq(Stored) /\ Net(LevelEntries(l), P, Q) = LevelNet(l, P, Q)
  <1>1. PICK n \in Nat : n = Len(l)
    BY LevelTerms
  <1>2. DOMAIN l = 1..n /\ \A k \in 1..n : Content(l[k]) \in Seq(Stored)
    BY <1>1, LevelTerms
  <1>3. PICK S : S = Stored
    OBVIOUS
  <1>4. PICK ss : ss = [k \in 1..n |-> Content(l[k])]
    OBVIOUS
  <1>5. ss \in [1..n -> Seq(S)] /\ DOMAIN ss = 1..n
    BY <1>2, <1>3, <1>4
  <1>6. ss \in Seq(Seq(S))
    BY <1>5, SeqDef
  <1>7. Len(ss) = n
    BY <1>5, <1>6, LenProperties
  <1>8. FlattenSeq(ss) \in Seq(S)
        /\ Net(FlattenSeq(ss), P, Q) = SumTo([i \in DOMAIN ss |-> Net(ss[i], P, Q)], Len(ss))
    BY <1>6, NetFlatten
  <1>9. [i \in DOMAIN ss |-> Net(ss[i], P, Q)] = [k \in 1..n |-> Net(Content(l[k]), P, Q)]
    BY <1>4, <1>5
  <1>10. LevelEntries(l) = FlattenSeq(ss)
    BY <1>2, <1>4 DEF LevelEntries
  <1>11. QED
    BY <1>1, <1>3, <1>7, <1>8, <1>9, <1>10 DEF LevelNet

\* What the index says is what its buffer and its levels say.
LEMMA EntriesNet ==
  ASSUME AreLevels(levels), View \in Seq(Stored), NEW P, NEW Q
  PROVE  /\ Entries \in Seq(Stored)
         /\ Net(Entries, P, Q) = Net(View, P, Q) + AllNet(levels, P, Q)
  <1>1. PICK n \in Nat : n = MaxLevels
    BY AllTerms
  <1>2. DOMAIN levels = 1..n /\ \A i \in 1..n : IsLevel(levels[i])
    BY <1>1 DEF AreLevels
  <1>3. PICK S : S = Stored
    OBVIOUS
  <1>4. PICK ss : ss = [i \in 1..n |-> LevelEntries(levels[i])]
    OBVIOUS
  <1>5. \A i \in 1..n : LevelEntries(levels[i]) \in Seq(S)
                        /\ Net(LevelEntries(levels[i]), P, Q) = LevelNet(levels[i], P, Q)
    BY <1>2, <1>3, LevelEntriesNet
  <1>6. ss \in [1..n -> Seq(S)] /\ DOMAIN ss = 1..n
    BY <1>4, <1>5
  <1>7. ss \in Seq(Seq(S))
    BY <1>6, SeqDef
  <1>8. Len(ss) = n
    BY <1>6, <1>7, LenProperties
  <1>9. FlattenSeq(ss) \in Seq(S)
        /\ Net(FlattenSeq(ss), P, Q) = SumTo([i \in DOMAIN ss |-> Net(ss[i], P, Q)], Len(ss))
    BY <1>7, NetFlatten
  <1>10. PICK t \in Seq(S) : t = FlattenSeq(ss)
    BY <1>9
  <1>11. [i \in DOMAIN ss |-> Net(ss[i], P, Q)] = [i \in 1..n |-> LevelNet(levels[i], P, Q)]
    BY <1>4, <1>5, <1>6
  <1>12. Entries = View \o t
    BY <1>2, <1>4, <1>10 DEF Entries
  <1>13. View \in Seq(S)
    BY <1>3
  <1>14. View \o t \in Seq(S) /\ Net(View \o t, P, Q) = Net(View, P, Q) + Net(t, P, Q)
    BY <1>13, NetConcat, ConcatProperties
  <1>15. QED
    BY <1>1, <1>3, <1>8, <1>9, <1>10, <1>11, <1>12, <1>14 DEF AllNet

-----------------------------------------------------------------------------
(***************************************************************************)
(* The constructors of both kinds of shards.                               *)
(***************************************************************************)
LEMMA ShardFromShards ==
  ASSUME mode \in Modes, NEW l, IsLevel(l), LevelNet(l, Stored, {}) < SizeModulus,
         NEW t \in FromShards(l), NEW r
  PROVE  /\ IsGood(t)
         /\ Net(Content(t), Pro(r), Con(r)) = LevelNet(l, Pro(r), Con(r))
         /\ Len(Content(t)) <= LevelNet(l, Stored, {})
  <1>1. PICK n \in Nat : n = Len(l)
    BY LevelTerms
  <1>2. DOMAIN l = 1..n
        /\ \A k \in 1..n : IsGood(l[k]) /\ Content(l[k]) \in Seq(Stored)
    BY <1>1, LevelTerms
  <1>3. PICK S \in SUBSET AnyWrapped : S = Stored
    BY StoredFacts
  <1>4. PICK P : P = Pro(r)
    OBVIOUS
  <1>5. PICK Q : Q = Con(r)
    OBVIOUS
  <1>6. PairsCount(S, P, Q, 0)
    BY <1>3, <1>4, <1>5, StoredFacts
  <1>7. LevelNet(l, P, Q) = SumTo([k \in 1..n |-> Net(Content(l[k]), P, Q)], n)
    BY <1>1 DEF LevelNet
  <1>8. LevelNet(l, Stored, {}) = SumTo([k \in 1..n |-> Len(Content(l[k]))], n)
    BY <1>1, LevelSize
  <1>9. CASE External
    <2>1. t \in ShardsFromShards(l) /\ Content(t) = Records(t)
      BY <1>9 DEF FromShards, Content
    <2>2. \A k \in 1..n : IsShard(S, l[k]) /\ Content(l[k]) = Records(l[k])
      BY <1>2, <1>3, <1>9 DEF IsGood, Content
    <2>3. [k \in 1..n |-> Net(Content(l[k]), P, Q)] = [k \in 1..n |-> Net(Records(l[k]), P, Q)]
      BY <2>2
    <2>4. [k \in 1..n |-> Len(Content(l[k]))] = [k \in 1..n |-> Len(Records(l[k]))]
      BY <2>2
    <2>5. SumTo([k \in 1..n |-> Len(Records(l[k]))], n) < SizeModulus
      BY <1>8, <2>4
    <2>6. /\ IsShard(S, t)
          /\ Net(Records(t), P, Q) = SumTo([k \in 1..n |-> Net(Records(l[k]), P, Q)], n)
          /\ Len(Records(t)) <= SumTo([k \in 1..n |-> Len(Records(l[k]))], n)
      BY ONLY <1>2, <1>6, <2>1, <2>2, <2>5, ShardsShard, S \in SUBSET AnyWrapped, n \in Nat
    <2>7. IsGood(t)
      BY <1>3, <1>9, <2>6 DEF IsGood
    <2>8. QED
      BY <1>4, <1>5, <1>7, <1>8, <2>1, <2>3, <2>4, <2>6, <2>7
  <1>10. CASE ~External
    <2>1. t = SortedArrayMerge(l) /\ Content(t) = t
      BY <1>10 DEF FromShards, Content
    <2>2. \A k \in 1..n : Content(l[k]) = l[k] /\ l[k] \in Seq(S)
      BY <1>2, <1>3, <1>10 DEF Content
    <2>3. l \in Cursors(S, n)
      <3>1. l = [k \in 1..n |-> l[k]]
        <4>1. l \in Seq(ToSet(l))
          BY DEF IsLevel
        <4>2. QED
          BY <1>1, <4>1, LenProperties
      <3>2. QED
        BY <2>2, <3>1 DEF Cursors
    <2>4. \A w \in S : ~w.del
      BY <1>3, <1>10, StoredFacts
    <2>5. /\ SortedArrayMerge(l) \in Seq(S)
          /\ Net(SortedArrayMerge(l), P, Q) = Total(l, n, P, Q)
          /\ Len(SortedArrayMerge(l)) <= Total(l, n, S, {})
          /\ Sorted(SortedArrayMerge(l))
      <3>1. \A k \in 1..n : Sorted(l[k])
        BY <1>2, <1>10 DEF IsGood
      <3>2. /\ SortedArrayMerge(l) \in Seq(S)
            /\ Net(SortedArrayMerge(l), P, Q) = Total(l, n, P, Q)
            /\ Len(SortedArrayMerge(l)) <= Total(l, n, S, {})
            /\ (\A k \in 1..n : Sorted(l[k])) => Sorted(SortedArrayMerge(l))
        BY ONLY <1>6, <2>3, <2>4, ArrayMergeKeeps, S \in SUBSET AnyWrapped, n \in Nat
      <3>3. QED
        BY <3>1, <3>2
    <2>6. Total(l, n, P, Q) = LevelNet(l, P, Q)
      <3>1. [k \in 1..n |-> Net(Content(l[k]), P, Q)] = [k \in 1..n |-> Net(l[k], P, Q)]
        BY <2>2
      <3>2. QED
        BY <1>7, <3>1 DEF Total
    <2>7. Total(l, n, S, {}) = LevelNet(l, Stored, {})
      <3>1. [k \in 1..n |-> Net(Content(l[k]), S, {})] = [k \in 1..n |-> Net(l[k], S, {})]
        BY <2>2
      <3>2. QED
        BY <1>1, <1>3, <3>1 DEF Total, LevelNet
    <2>8. IsGood(t)
      BY <1>3, <1>10, <2>1, <2>5 DEF IsGood
    <2>9. QED
      BY <1>4, <1>5, <2>1, <2>5, <2>6, <2>7, <2>8
  <1>11. QED
    BY <1>9, <1>10

\* The shard of a view holds what the view says.
LEMMA ShardFromView ==
  ASSUME mode \in Modes, IsRing, View \in Seq(Stored), Len(View) < SizeModulus,
         m_tscnt \in Int, NEW t \in FromView, NEW r
  PROVE  /\ IsGood(t)
         /\ Net(Content(t), Pro(r), Con(r)) = Net(View, Pro(r), Con(r))
         /\ Len(Content(t)) <= Len(View)
  <1>1. PICK S \in SUBSET AnyWrapped : S = Stored
    BY StoredFacts
  <1>2. PICK P : P = Pro(r)
    OBVIOUS
  <1>3. PICK Q : Q = Con(r)
    OBVIOUS
  <1>4. PairsCount(S, P, Q, 0) /\ StampFree(S, P, Q)
    BY <1>1, <1>2, <1>3, StoredFacts
  <1>5. PICK view \in Seq(S) : view = View
    BY <1>1
  <1>6. CASE External
    <2>1. PICK k \in Int : k = m_tscnt
      OBVIOUS
    <2>2. t \in ShardsFromView(view, k) /\ Content(t) = Records(t) /\ Len(view) < SizeModulus
      BY <1>5, <1>6, <2>1 DEF FromView, Content
    <2>3. /\ IsShard(S, t)
          /\ Net(Records(t), P, Q) = Net(view, P, Q)
          /\ Len(Records(t)) <= Len(view)
      BY ONLY <1>4, <2>2, ViewShard, S \in SUBSET AnyWrapped, view \in Seq(S), k \in Int
    <2>4. IsGood(t)
      BY <1>1, <1>6, <2>3 DEF IsGood
    <2>5. QED
      BY <1>2, <1>3, <1>5, <2>2, <2>3, <2>4
  <1>7. CASE ~External
    <2>1. t \in SortedArrayFromBufferview(view) /\ Content(t) = t
      BY <1>5, <1>7, CopyIsView DEF FromView, Content
    <2>2. \A w \in S : ~w.del
      BY <1>1, <1>7, StoredFacts
    <2>3. t \in Seq(S) /\ Net(t, P, Q) = Net(view, P, Q) /\ Len(t) <= Len(view) /\ Sorted(t)
      BY ONLY <1>4, <2>1, <2>2, ViewArrayKeeps, S \in SUBSET AnyWrapped, view \in Seq(S)
    <2>4. IsGood(t)
      BY <1>1, <1>7, <2>3 DEF IsGood
    <2>5. QED
      BY <1>2, <1>3, <1>5, <2>1, <2>3, <2>4
  <1>8. QED
    BY <1>6, <1>7

-----------------------------------------------------------------------------
(***************************************************************************)
(* The inductive invariant: what is in the ring and in the shards is a     *)
(* stored record, and there are no more of them than were loaded and       *)
(* appended, so that no count of a shard wraps around.                     *)
(***************************************************************************)
RingInv ==
  /\ IsRing
  /\ m_tscnt \in 0..m_tail
  /\ m_data \in [0..(Cap - 1) -> Stored \cup {ZeroRecord}]
  /\ \A i \in m_head..(m_tail - 1) : m_data[i % Cap] \in Stored

SizeInv == Len(Entries) <= Len(mode.loaded) + appended

HistoryInv ==
  /\ appended \in 0..mode.appends
  /\ undefined \in BOOLEAN /\ as_set \in BOOLEAN /\ restarted \in BOOLEAN

IndexInv == mode \in Modes /\ RingInv /\ AreLevels(levels) /\ SizeInv /\ HistoryInv

\* As long as the mode is the same, shards are read in the same way.
LEMMA SameMode ==
  ASSUME mode' = mode
  PROVE  /\ Stored' = Stored /\ Known' = Known
         /\ \A ls : AreLevels(ls)' <=> AreLevels(ls)
         /\ \A ls, P, Q : AllNet(ls, P, Q)' = AllNet(ls, P, Q)
  <1>1. Known' = Known /\ Stored' = Stored
    BY DEF Stored, WrappedRecords, Known, Universe
  <1>2. ASSUME NEW x PROVE (IsGood(x)' <=> IsGood(x)) /\ Content(x)' = Content(x)
    BY <1>1 DEF IsGood, Content, External
  <1>3. ASSUME NEW l PROVE IsLevel(l)' <=> IsLevel(l)
    BY <1>2 DEF IsLevel
  <1>4. ASSUME NEW l, NEW P, NEW Q PROVE LevelNet(l, P, Q)' = LevelNet(l, P, Q)
    <2>1. [k \in 1..Len(l) |-> Net(Content(l[k])', P, Q)] = [k \in 1..Len(l) |-> Net(Content(l[k]), P, Q)]
      BY <1>2
    <2>2. QED
      BY <2>1 DEF LevelNet
  <1>5. ASSUME NEW ls PROVE AreLevels(ls)' <=> AreLevels(ls)
    BY <1>3 DEF AreLevels
  <1>6. ASSUME NEW ls, NEW P, NEW Q PROVE AllNet(ls, P, Q)' = AllNet(ls, P, Q)
    <2>1. [i \in 1..MaxLevels |-> LevelNet(ls[i], P, Q)'] = [i \in 1..MaxLevels |-> LevelNet(ls[i], P, Q)]
      BY <1>4
    <2>2. QED
      BY <2>1 DEF AllNet
  <1>7. QED
    BY <1>1, <1>5, <1>6

\* What a state says in all.
EntriesSplit ==
  /\ Entries \in Seq(Stored)
  /\ \A P, Q : Net(Entries, P, Q) = Net(View, P, Q) + AllNet(levels, P, Q)

\* What is stored is in the view or in a level.
LEMMA EntriesAreSplit ==
  AreLevels(levels) /\ View \in Seq(Stored) => EntriesSplit
  BY EntriesNet DEF EntriesSplit

\* The same in the next state.
LEMMA EntriesAreSplitNext ==
  (AreLevels(levels) /\ View \in Seq(Stored) => EntriesSplit)'
  BY EntriesAreSplit, PTL

\* The view of the next state.
LEMMA ViewSeqNext ==
  (RingInv => View \in Seq(Stored) /\ Len(View) = ViewCount /\ ViewCount \in Nat)'
  <1>1. RingInv => View \in Seq(Stored) /\ Len(View) = ViewCount /\ ViewCount \in Nat
    BY ViewSeq DEF RingInv
  <1>2. QED
    BY <1>1, PTL

\* What the invariant says of the entries.
LEMMA InvEntries ==
  ASSUME IndexInv
  PROVE  /\ View \in Seq(Stored) /\ Len(View) = ViewCount /\ ViewCount \in Nat
         /\ EntriesSplit
         /\ AllNet(levels, Stored, {}) \in Nat
         /\ Len(Entries) = ViewCount + AllNet(levels, Stored, {})
         /\ ViewCount + AllNet(levels, Stored, {}) < SizeModulus
         /\ ViewCount + AllNet(levels, Stored, {}) <= Len(mode.loaded) + appended
  <1>1. View \in Seq(Stored) /\ Len(View) = ViewCount /\ ViewCount \in Nat
    BY ViewSeq DEF IndexInv, RingInv
  <1>2. EntriesSplit
    BY <1>1, EntriesAreSplit DEF IndexInv
  <1>3. AllNet(levels, Stored, {}) \in Nat
    BY AllTerms DEF IndexInv
  <1>4. Entries \in Seq(Stored)
        /\ Net(Entries, Stored, {}) = Net(View, Stored, {}) + AllNet(levels, Stored, {})
    BY <1>2 DEF EntriesSplit
  <1>5. Net(Entries, Stored, {}) = Len(Entries) /\ Net(View, Stored, {}) = Len(View)
    BY <1>1, <1>4, LenIsNet
  <1>6. Len(Entries) = ViewCount + AllNet(levels, Stored, {})
    BY <1>1, <1>4, <1>5
  <1>7. Len(mode.loaded) \in Nat /\ Len(mode.loaded) + mode.appends < SizeModulus
        /\ mode.appends \in Nat
    BY ModeFacts DEF IndexInv
  <1>8. appended \in 0..mode.appends /\ Len(Entries) <= Len(mode.loaded) + appended
    BY DEF IndexInv, HistoryInv, SizeInv
  <1>9. SizeModulus \in Nat
    BY SizeAssumption
  <1>10. QED
    BY <1>1, <1>2, <1>3, <1>6, <1>7, <1>8, <1>9

\* A step keeps the sizes and the levels when the next levels hold no more.
LEMMA StepSizes ==
  ASSUME IndexInv, mode' = mode, RingInv', AreLevels(levels'),
         ViewCount' + AllNet(levels', Stored, {}) <= Len(mode.loaded) + appended'
  PROVE  AreLevels(levels)' /\ SizeInv' /\ EntriesSplit' /\ Entries' \in Seq(Stored)
         /\ \A P, Q : Net(Entries', P, Q) = Net(View', P, Q) + AllNet(levels', P, Q)
  <1>1. Stored' = Stored
    BY SameMode
  <1>2. AreLevels(levels)'
    BY SameMode
  <1>3. View' \in Seq(Stored) /\ Len(View') = ViewCount' /\ ViewCount' \in Nat
    BY <1>1, ViewSeqNext
  <1>4. EntriesSplit'
    BY <1>1, <1>2, <1>3, EntriesAreSplitNext
  <1>5. Entries' \in Seq(Stored)
        /\ \A P, Q : Net(Entries', P, Q) = Net(View', P, Q) + AllNet(levels, P, Q)'
    BY <1>1, <1>4 DEF EntriesSplit
  <1>6. \A P, Q : AllNet(levels, P, Q)' = AllNet(levels', P, Q)
    BY SameMode
  <1>7. \A P, Q : Net(Entries', P, Q) = Net(View', P, Q) + AllNet(levels', P, Q)
    BY <1>5, <1>6
  <1>8. Net(Entries', Stored, {}) = Len(Entries') /\ Net(View', Stored, {}) = Len(View')
    <2>1. PICK e \in Seq(Stored) : e = Entries'
      BY <1>5
    <2>2. PICK v \in Seq(Stored) : v = View'
      BY <1>3
    <2>3. Net(e, Stored, {}) = Len(e) /\ Net(v, Stored, {}) = Len(v)
      BY LenIsNet
    <2>4. QED
      BY <2>1, <2>2, <2>3
  <1>9. Len(Entries') = ViewCount' + AllNet(levels', Stored, {})
    BY <1>3, <1>7, <1>8
  <1>10. SizeInv'
    BY <1>9 DEF SizeInv
  <1>11. QED
    BY <1>2, <1>4, <1>5, <1>7, <1>10

-----------------------------------------------------------------------------
(***************************************************************************)
(* Initial states.                                                         *)
(***************************************************************************)

\* The records that were there before are in order.
LEMMA LoadedSorted ==
  ASSUME mode \in Modes
  PROVE  \A i, j \in 1..Len(mode.loaded) : i < j => ~RecLess(mode.loaded[j], mode.loaded[i])
  <1>1. PICK n \in Nat : n = Len(mode.loaded)
    BY ModeFacts
  <1>2. PICK l : l = mode.loaded
    OBVIOUS
  <1>3. /\ \A i \in 1..n : l[i] \in Nat \X Nat
        /\ \A i \in 1..(n - 1) : RecLess(l[i], l[i + 1])
    <2>1. l \in Seq((Nat \ {0}) \X Nat) /\ \A i \in 1..(Len(l) - 1) : RecLess(l[i], l[i + 1])
      BY <1>2, IndexAssumption
    <2>2. \A i \in 1..n : l[i] \in (Nat \ {0}) \X Nat
      BY <1>1, <1>2, <2>1, ElementOfSeq
    <2>3. QED
      BY <1>1, <1>2, <2>1, <2>2
  <1>4. ASSUME NEW x \in Nat \X Nat, NEW y \in Nat \X Nat, RecLess(x, y) PROVE ~RecLess(y, x)
    BY <1>4 DEF RecLess
  <1>5. ASSUME NEW x \in Nat \X Nat, NEW y \in Nat \X Nat, NEW z \in Nat \X Nat,
               RecLess(x, y), RecLess(y, z)
        PROVE  RecLess(x, z)
    BY <1>5 DEF RecLess
  <1>6. ASSUME NEW i \in 1..n, NEW j \in 1..n, i < j PROVE RecLess(l[i], l[j])
    <2> DEFINE T == {k \in Nat : k \in (i + 1)..n => RecLess(l[i], l[k])}
    <2>1. PICK b \in Nat : b = i
      OBVIOUS
    <2>2. b \in T
      BY <2>1
    <2>3. ASSUME NEW k \in (b + 1)..n, k - 1 \in T PROVE k \in T
      <3>1. k - 1 \in 1..(n - 1) /\ k \in 1..n /\ k - 1 \in 1..n /\ k \in Nat /\ (k - 1) + 1 = k
        BY <2>1, <2>3
      <3>2. RecLess(l[k - 1], l[k])
        BY <1>3, <3>1
      <3>3. CASE k - 1 = i
        BY <3>1, <3>2, <3>3
      <3>4. CASE k - 1 # i
        <4>1. k - 1 \in (i + 1)..n
          BY <2>1, <3>1, <3>4
        <4>2. RecLess(l[i], l[k - 1])
          BY <2>3, <4>1
        <4>3. l[i] \in Nat \X Nat /\ l[k - 1] \in Nat \X Nat /\ l[k] \in Nat \X Nat
          BY <1>3, <3>1
        <4>4. RecLess(l[i], l[k])
          BY <1>5, <3>2, <4>2, <4>3
        <4>5. QED
          BY <3>1, <4>4
      <3>5. QED
        BY <3>3, <3>4
    <2> HIDE DEF T
    <2>4. \A k \in b..n : k \in T
      BY <2>2, <2>3, IndexByStep
    <2>5. j \in b..n /\ j \in (i + 1)..n
      BY <1>6, <2>1
    <2>6. QED
      BY <2>4, <2>5 DEF T
  <1>7. QED
    BY <1>1, <1>2, <1>3, <1>4, <1>6

\* The shard of the loaded records is a level.
LEMMA LoadedIsLevel ==
  ASSUME mode \in Modes
  PROVE  /\ IsLevel(LoadedLevel)
         /\ LevelNet(LoadedLevel, Stored, {}) = Len(mode.loaded)
  <1>1. PICK n \in Nat : n = Len(mode.loaded)
    BY ModeFacts
  <1>2. DOMAIN mode.loaded = 1..n /\ \A i \in 1..n : mode.loaded[i] \in Known
    BY <1>1, ModeFacts, LenProperties, ElementOfSeq
  <1>3. PICK S : S = Stored
    OBVIOUS
  <1>4. ASSUME NEW r \in Known PROVE Wrap(r, FALSE, 0) \in S
    <2>1. Cap \in Nat
      BY IndexAssumption
    <2>2. 0 \in 0..(2 * Cap)
      BY <2>1
    <2>3. QED
      BY <1>3, <2>2 DEF Wrap, Stored, WrappedRecords
  <1>5. PICK s : s = [i \in DOMAIN mode.loaded |-> Wrap(mode.loaded[i], FALSE, 0)]
    OBVIOUS
  <1>6. s \in [1..n -> S]
    BY <1>2, <1>4, <1>5
  <1>7. s \in Seq(S)
    BY <1>6, SeqDef
  <1>8. Len(s) = n
    BY <1>6, <1>7, LenProperties
  <1>9. Sorted(s)
    BY <1>1, <1>2, <1>5, LoadedSorted DEF Sorted, ByRecord, Wrap
  <1>10. CASE s = <<>>
    <2>1. LoadedLevel = <<>>
      BY <1>5, <1>10 DEF LoadedLevel
    <2>2. n = 0
      BY <1>8, <1>10
    <2>3. QED
      BY <1>1, <2>1, <2>2, NoLevel
  <1>11. CASE s # <<>>
    <2>1. PICK t : t = IF External THEN BuildShard([out |-> s, cancelled |-> 0], Len(s), 0) ELSE s
      OBVIOUS
    <2>2. LoadedLevel = <<t>>
      BY <1>5, <1>11, <2>1 DEF LoadedLevel
    <2>3. IsGood(t) /\ Content(t) = s
      <3>1. CASE External
        <4>1. n < SizeModulus /\ SizeModulus \in Nat /\ SizeModulus > 0
          BY <1>1, ModeFacts, SizeAssumption
        <4>2. (n - 2 * 0) % SizeModulus = n
          <5>1. n - 2 * 0 = n
            OBVIOUS
          <5>2. QED
            BY <4>1, <5>1, SmallSize
        <4>3. (0 - 0) % SizeModulus = 0
          <5>1. PICK z \in Nat : z = 0
            OBVIOUS
          <5>2. z % SizeModulus = z
            BY <4>1, <5>1, SmallSize
          <5>3. QED
            BY <5>1, <5>2
        <4>4. PICK z \in Nat : z = 0
          OBVIOUS
        <4>5. t = ShardOf(s, Len(s), z)
          BY <1>8, <2>1, <3>1, <4>2, <4>3, <4>4 DEF BuildShard
        <4>6. IsShard(S, t) /\ Records(t) = s
          BY <1>7, <1>9, <4>5, ShardOfIsShard
        <4>7. QED
          BY <1>3, <3>1, <4>6 DEF IsGood, Content
      <3>2. CASE ~External
        BY <1>3, <1>7, <1>9, <2>1, <3>2 DEF IsGood, Content
      <3>3. QED
        BY <3>1, <3>2
    <2>4. IsLevel(<<t>>) /\ LevelNet(<<t>>, Stored, {}) = Net(s, Stored, {})
      BY <2>3, LevelOne
    <2>5. Net(s, Stored, {}) = n
      BY <1>3, <1>7, <1>8, LenIsNet
    <2>6. QED
      BY <1>1, <2>2, <2>4, <2>5
  <1>12. QED
    BY <1>10, <1>11

\* The invariant holds initially.
LEMMA InitInv ==
  ASSUME Init
  PROVE  IndexInv
  <1> USE DEF Init
  <1>1. mode \in Modes /\ MaxLevels \in Nat /\ MaxLevels > 1 /\ HWM \in Nat /\ Cap \in Nat
    BY IndexAssumption
  <1>2. RingInv
    BY <1>1 DEF RingInv, IsRing, ViewCount
  <1>3. HistoryInv
    <2>1. mode.appends \in Nat
      BY <1>1, ModeFacts
    <2>2. appended \in 0..mode.appends
      BY <2>1
    <2>3. undefined \in BOOLEAN /\ as_set \in BOOLEAN /\ restarted \in BOOLEAN
      OBVIOUS
    <2>4. QED
      BY <2>2, <2>3 DEF HistoryInv
  <1>4. AreLevels(levels)
    BY <1>1, NoLevel, LoadedIsLevel DEF AreLevels
  <1>5. PICK ls : ls = [i \in 1..MaxLevels |-> <<>>]
    OBVIOUS
  <1>6. PICK P : P = Stored
    OBVIOUS
  <1>7. PICK Q : Q = {}
    OBVIOUS
  <1>8. AreLevels(ls) /\ AllNet(ls, P, Q) = 0
    <2>1. AreLevels(ls)
      BY <1>5, NoLevel DEF AreLevels
    <2>2. PICK nets : nets = [i \in 1..MaxLevels |-> LevelNet(ls[i], P, Q)]
      OBVIOUS
    <2>3. \A i \in 1..MaxLevels : nets[i] = 0
      BY <1>5, <2>2, NoLevel
    <2>4. SumTo(nets, MaxLevels) = 0
      BY <1>1, <2>3, SumZeros
    <2>5. QED
      BY <2>1, <2>2, <2>4 DEF AllNet
  <1>9. AllNet(levels, P, Q) = Len(mode.loaded)
    <2>1. PICK j \in 1..MaxLevels : j = MaxLevels
      BY <1>1
    <2>2. PICK k \in 1..MaxLevels : k = 1
      BY <1>1
    <2>3. j # k /\ levels[j] = LoadedLevel /\ levels[k] = <<>> /\ ls[j] = <<>> /\ ls[k] = <<>>
      BY <1>1, <1>5, <2>1, <2>2
    <2>4. OnlyAt(ls, levels, j, k)
      BY <1>5, <2>1 DEF OnlyAt
    <2>5. AllNet(levels, P, Q)
            = AllNet(ls, P, Q) - LevelNet(ls[j], P, Q) - LevelNet(ls[k], P, Q)
                + LevelNet(levels[j], P, Q) + LevelNet(levels[k], P, Q)
      BY ONLY <1>4, <1>8, <2>3, <2>4, LevelsChanged, j \in 1..MaxLevels, k \in 1..MaxLevels
    <2>6. LevelNet(ls[j], P, Q) = 0 /\ LevelNet(ls[k], P, Q) = 0 /\ LevelNet(levels[k], P, Q) = 0
      BY <2>3, NoLevel
    <2>7. LevelNet(levels[j], P, Q) = Len(mode.loaded)
      BY <1>1, <1>6, <1>7, <2>3, LoadedIsLevel
    <2>8. Len(mode.loaded) \in Nat
      BY <1>1, ModeFacts
    <2>9. QED
      BY <1>8, <2>5, <2>6, <2>7, <2>8
  <1>10. SizeInv
    <2>1. View \in Seq(Stored) /\ Len(View) = ViewCount
      BY <1>2, ViewSeq DEF RingInv
    <2>2. ViewCount = 0
      BY DEF ViewCount
    <2>3. Entries \in Seq(Stored) /\ Net(Entries, P, Q) = Net(View, P, Q) + AllNet(levels, P, Q)
      BY <1>4, <2>1, EntriesNet
    <2>4. Net(Entries, P, Q) = Len(Entries) /\ Net(View, P, Q) = Len(View)
      BY <1>6, <1>7, <2>1, <2>3, LenIsNet
    <2>5. Len(mode.loaded) \in Nat
      BY <1>1, ModeFacts
    <2>6. QED
      BY <1>9, <2>1, <2>2, <2>3, <2>4, <2>5 DEF SizeInv
  <1>11. QED
    BY <1>1, <1>2, <1>3, <1>4, <1>10 DEF IndexInv

-----------------------------------------------------------------------------
(***************************************************************************)
(* Appends and tagged erases.                                              *)
(***************************************************************************)
LEMMA AppendStep ==
  ASSUME IndexInv, NEW rec \in Universe, NEW tombstone \in BOOLEAN,
         tombstone => mode.policy = "TOMBSTONE", Append_(rec, tombstone)
  PROVE  IndexInv'
  <1>1. /\ ViewCount < HWM /\ appended < mode.appends
        /\ m_data' = [m_data EXCEPT ![m_tail % Cap] = Wrap(rec, tombstone, Stamp(m_tail % Cap))]
        /\ m_tail' = m_tail + 1 /\ m_head' = m_head
        /\ m_tscnt' = IF tombstone THEN m_tscnt + 1 ELSE m_tscnt
        /\ appended' = appended + 1
        /\ as_set' \in BOOLEAN
        /\ mode' = mode /\ levels' = levels /\ undefined' = undefined /\ restarted' = restarted
    BY DEF Append_
  <1>2. /\ mode \in Modes /\ Cap \in Nat /\ Cap > 0 /\ HWM \in Nat
        /\ m_tail \in Nat /\ m_head \in 0..m_tail /\ m_tscnt \in 0..m_tail
        /\ m_data \in [0..(Cap - 1) -> Stored \cup {ZeroRecord}]
        /\ \A i \in m_head..(m_tail - 1) : m_data[i % Cap] \in Stored
    BY RingFacts, IndexAssumption DEF IndexInv, RingInv, IsRing
  <1>3. PICK pos \in 0..(Cap - 1) : pos = m_tail % Cap
    <2>1. Cap \in Int /\ m_tail \in Int
      BY <1>2
    <2>2. m_tail % Cap \in Int /\ 0 <= m_tail % Cap /\ m_tail % Cap < Cap
      BY <1>2, <2>1, DivMod
    <2>3. QED
      BY <1>2, <2>2
  <1>4. PICK w : w = Wrap(rec, tombstone, Stamp(pos))
    OBVIOUS
  <1>5. w \in Stored
    <2>1. rec \in Known
      BY <1>2, ModeFacts
    <2>2. Stamp(pos) \in 0..(2 * Cap)
      BY <1>2, <1>3 DEF Stamp
    <2>3. w \in WrappedRecords /\ w.tomb = tombstone /\ w.del = FALSE
      BY <1>4, <2>1, <2>2 DEF Wrap, WrappedRecords
    <2>4. tombstone => mode.policy # "TAGGING"
      OBVIOUS
    <2>5. QED
      BY <2>3, <2>4 DEF Stored
  <1>6. m_data' = [m_data EXCEPT ![pos] = w]
    BY <1>1, <1>3, <1>4
  <1>7. PICK S : S = Stored
    OBVIOUS
  <1>8. m_data' \in [0..(Cap - 1) -> S \cup {ZeroRecord}] /\ m_data'[pos] = w
        /\ \A j \in 0..(Cap - 1) : j # pos => m_data'[j] = m_data[j]
    BY <1>2, <1>3, <1>5, <1>6, <1>7
  <1>9. ASSUME NEW i \in m_head..m_tail PROVE m_data'[i % Cap] \in S
    <2>1. PICK j : j = i % Cap
      OBVIOUS
    <2>2. j \in 0..(Cap - 1)
      <3>1. Cap \in Int /\ i \in Int
        BY <1>2
      <3>2. i % Cap \in Int /\ 0 <= i % Cap /\ i % Cap < Cap
        BY <1>2, <3>1, DivMod
      <3>3. QED
        BY <1>2, <2>1, <3>2
    <2>3. CASE j = pos
      BY <1>5, <1>7, <1>8, <2>1, <2>3
    <2>4. CASE j # pos
      <3>1. i \in m_head..(m_tail - 1)
        BY <1>2, <1>3, <2>1, <2>4
      <3>2. m_data[j] \in S
        BY <1>2, <1>7, <2>1, <3>1
      <3>3. QED
        BY <1>8, <2>1, <2>2, <2>4, <3>2
    <2>5. QED
      BY <2>3, <2>4
  <1>10. Stored' = S
    BY <1>1, <1>7, SameMode
  <1>11. ViewCount' = ViewCount + 1 /\ ViewCount \in Nat
    BY <1>1, <1>2 DEF ViewCount
  <1>12. IsRing'
    BY <1>1, <1>2, <1>11 DEF IsRing
  <1>13. m_tscnt' \in 0..m_tail'
    BY <1>1, <1>2
  <1>14. \A i \in m_head'..(m_tail' - 1) : m_data'[i % Cap] \in S
    <2>1. m_head' = m_head /\ m_tail' - 1 = m_tail
      BY <1>1, <1>2
    <2>2. QED
      BY <1>9, <2>1
  <1>15. RingInv'
    BY <1>8, <1>10, <1>12, <1>13, <1>14 DEF RingInv
  <1>16. AreLevels(levels') /\ AllNet(levels', Stored, {}) = AllNet(levels, Stored, {})
    BY <1>1 DEF IndexInv
  <1>17. ViewCount' + AllNet(levels', Stored, {}) <= Len(mode.loaded) + appended'
    <2>1. ViewCount + AllNet(levels, Stored, {}) <= Len(mode.loaded) + appended
          /\ AllNet(levels, Stored, {}) \in Nat
      BY InvEntries
    <2>2. Len(mode.loaded) \in Nat /\ appended \in Nat
      BY ModeFacts DEF IndexInv, HistoryInv
    <2>3. PICK a \in Nat : a = AllNet(levels, Stored, {})
      BY <2>1
    <2>4. PICK b \in Nat : b = Len(mode.loaded)
      BY <2>2
    <2>5. ViewCount + a <= b + appended
      BY <2>1, <2>3, <2>4
    <2>6. ViewCount + 1 + a <= b + (appended + 1)
      BY <1>11, <2>2, <2>5
    <2>7. QED
      BY <1>1, <1>11, <1>16, <2>3, <2>4, <2>6
  <1>18. AreLevels(levels)' /\ SizeInv'
    BY <1>1, <1>15, <1>16, <1>17, StepSizes
  <1>19. HistoryInv'
    <2>1. mode.appends \in Nat
      BY ModeFacts DEF IndexInv
    <2>2. QED
      BY <1>1, <2>1 DEF HistoryInv, IndexInv
  <1>20. QED
    BY <1>1, <1>2, <1>15, <1>18, <1>19 DEF IndexInv

\* The slots that delete_record looks at have a first one.
LEMMA OrderLeast ==
  ASSUME IndexInv, NEW hits, hits \subseteq DOMAIN DeleteOrder, hits # {}
  PROVE  Min(hits) \in hits
  <1>1. Start \in Nat /\ Stop \in Nat /\ Cap \in Nat /\ Start < Cap
    BY RingFacts DEF IndexInv, RingInv
  <1>2. PICK s : s = [i \in 1..(Cap - Start) |-> Start + i - 1]
    OBVIOUS
  <1>3. PICK t : t = [i \in 1..Stop |-> i - 1]
    OBVIOUS
  <1>4. s \in Seq(Int) /\ t \in Seq(Int)
    BY <1>1, <1>2, <1>3
  <1>5. s \o t \in Seq(Int)
    BY <1>4, ConcatProperties
  <1>6. DOMAIN (s \o t) \subseteq Nat
    <2>1. DOMAIN (s \o t) = 1..Len(s \o t) /\ Len(s \o t) \in Nat
      BY <1>5, LenProperties
    <2>2. QED
      BY <2>1
  <1>7. DOMAIN DeleteOrder \subseteq Nat
    <2>1. CASE Start < Stop
      BY <1>1, <2>1 DEF DeleteOrder
    <2>2. CASE ~(Start < Stop)
      <3>1. DeleteOrder = s \o t
        BY <1>2, <1>3, <2>2 DEF DeleteOrder
      <3>2. QED
        BY <1>6, <3>1
    <2>3. QED
      BY <2>1, <2>2
  <1>8. \E x \in hits : \A y \in hits : x <= y
    BY <1>7, LeastNat
  <1>9. QED
    BY <1>8 DEF Min

\* A tagged erase keeps the invariant: it marks a slot or nothing.
LEMMA TaggedEraseStep ==
  ASSUME IndexInv, NEW rec \in Universe, NEW page \in BOOLEAN, TaggedErase(rec, page)
  PROVE  IndexInv'
  <1>1. /\ mode.policy = "TAGGING"
        /\ undefined' \in BOOLEAN /\ as_set' \in BOOLEAN
        /\ m_data' = m_data \/ m_data' = Marked(rec)
        /\ mode' = mode /\ m_head' = m_head /\ m_tail' = m_tail /\ m_tscnt' = m_tscnt
        /\ levels' = levels /\ appended' = appended /\ restarted' = restarted
    BY DEF TaggedErase
  <1>2. /\ mode \in Modes /\ Cap \in Nat /\ Cap > 0 /\ HWM \in Nat
        /\ m_tail \in Nat /\ m_head \in 0..m_tail /\ m_tscnt \in 0..m_tail
        /\ m_data \in [0..(Cap - 1) -> Stored \cup {ZeroRecord}]
        /\ \A i \in m_head..(m_tail - 1) : m_data[i % Cap] \in Stored
    BY RingFacts, IndexAssumption DEF IndexInv, RingInv, IsRing
  <1>3. PICK S : S = Stored
    OBVIOUS
  <1>4. ASSUME NEW w \in S PROVE [w EXCEPT !.del = TRUE] \in S
    <2>1. w \in [rec : Known, tomb : BOOLEAN, del : BOOLEAN, stamp : 0..(2 * Cap)] /\ ~w.tomb
      BY <1>1, <1>3 DEF Stored, WrappedRecords
    <2>2. PICK x : x = [w EXCEPT !.del = TRUE]
      OBVIOUS
    <2>3. x \in [rec : Known, tomb : BOOLEAN, del : BOOLEAN, stamp : 0..(2 * Cap)]
          /\ x.tomb = w.tomb
      BY <2>1, <2>2
    <2>4. x \in Stored
      BY <1>1, <2>1, <2>3 DEF Stored, WrappedRecords
    <2>5. QED
      BY <1>3, <2>2, <2>4
  <1>5. /\ m_data' \in [0..(Cap - 1) -> S \cup {ZeroRecord}]
        /\ \A j \in 0..(Cap - 1) : m_data[j] \in S => m_data'[j] \in S
    <2>1. CASE m_data' = m_data
      BY <1>2, <1>3, <2>1
    <2>2. CASE m_data' = Marked(rec)
      <3> DEFINE hits == {i \in DOMAIN DeleteOrder : m_data[DeleteOrder[i]].rec = rec}
      <3>1. CASE hits = {}
        <4>1. m_data' = m_data
          BY <2>2, <3>1 DEF Marked
        <4>2. QED
          BY <1>2, <1>3, <4>1
      <3>2. CASE hits # {}
        <4>1. Min(hits) \in hits
          BY <3>2, OrderLeast
        <4>2. PICK x : x = DeleteOrder[Min(hits)]
          OBVIOUS
        <4>3. m_data[x].rec = rec
          BY <4>1, <4>2
        <4>4. m_data' = [m_data EXCEPT ![x].del = TRUE]
          BY <2>2, <3>2, <4>2 DEF Marked
        <4> HIDE DEF hits
        <4>5. ASSUME NEW j \in 0..(Cap - 1)
              PROVE  /\ m_data'[j] \in S \cup {ZeroRecord}
                     /\ m_data[j] \in S => m_data'[j] \in S
          <5>1. CASE j = x
            <6>1. PICK w : w = m_data[j]
              OBVIOUS
            <6>2. w # ZeroRecord
              <7>1. w.rec = rec /\ rec # <<0, 0>>
                BY <1>2, <4>3, <5>1, <6>1, ModeFacts
              <7>2. QED
                BY <7>1 DEF ZeroRecord
            <6>3. w \in S
              BY <1>2, <1>3, <6>1, <6>2
            <6>4. m_data'[j] = [w EXCEPT !.del = TRUE]
              BY <1>2, <4>4, <5>1, <6>1
            <6>5. QED
              BY <1>4, <6>3, <6>4
          <5>2. CASE j # x
            <6>1. m_data'[j] = m_data[j]
              BY <1>2, <4>4, <5>2
            <6>2. QED
              BY <1>2, <1>3, <6>1
          <5>3. QED
            BY <5>1, <5>2
        <4>6. m_data' = [j \in 0..(Cap - 1) |-> m_data'[j]]
          BY <1>2, <4>4
        <4>7. QED
          BY <4>5, <4>6
      <3>3. QED
        BY <3>1, <3>2
    <2>3. QED
      BY <1>1, <2>1, <2>2
  <1>6. ASSUME NEW i \in m_head..(m_tail - 1) PROVE m_data'[i % Cap] \in S
    <2>1. Cap \in Int /\ i \in Int
      BY <1>2
    <2>2. i % Cap \in Int /\ 0 <= i % Cap /\ i % Cap < Cap
      BY <1>2, <2>1, DivMod
    <2>3. i % Cap \in 0..(Cap - 1)
      BY <1>2, <2>2
    <2>4. QED
      BY <1>2, <1>3, <1>5, <2>3
  <1>7. Stored' = S
    BY <1>1, <1>3, SameMode
  <1>8. ViewCount' = ViewCount /\ IsRing'
    BY <1>1 DEF ViewCount, IsRing, IndexInv, RingInv
  <1>9. RingInv'
    BY <1>1, <1>2, <1>5, <1>6, <1>7, <1>8 DEF RingInv
  <1>10. AreLevels(levels')
         /\ ViewCount' + AllNet(levels', Stored, {}) <= Len(mode.loaded) + appended'
    BY <1>1, <1>8, InvEntries DEF IndexInv
  <1>11. AreLevels(levels)' /\ SizeInv'
    BY <1>1, <1>9, <1>10, StepSizes
  <1>12. HistoryInv'
    BY <1>1 DEF HistoryInv, IndexInv
  <1>13. QED
    BY <1>1, <1>2, <1>9, <1>11, <1>12 DEF IndexInv

-----------------------------------------------------------------------------
(***************************************************************************)
(* Flushes, merges and restarts: the next levels hold what the levels and, *)
(* in a flush, the view have held.                                         *)
(***************************************************************************)

\* Two levels change.
LEMMA ReplacedLevels ==
  ASSUME AreLevels(levels), NEW j \in 1..MaxLevels, NEW k \in 1..MaxLevels, j # k,
         NEW ls, DOMAIN ls = 1..MaxLevels, OnlyAt(levels, ls, j, k),
         IsLevel(ls[j]), IsLevel(ls[k])
  PROVE  AreLevels(ls)
  <1>1. ASSUME NEW i \in 1..MaxLevels PROVE IsLevel(ls[i])
    BY DEF AreLevels, OnlyAt
  <1>2. QED
    BY <1>1 DEF AreLevels

\* One level changes.
LEMMA ReplacedLevel ==
  ASSUME AreLevels(levels), NEW j \in 1..MaxLevels, NEW ls, DOMAIN ls = 1..MaxLevels,
         OnlyAt(levels, ls, j, j), IsLevel(ls[j]), NEW P, NEW Q
  PROVE  /\ AreLevels(ls)
         /\ AllNet(ls, P, Q)
              = AllNet(levels, P, Q) - LevelNet(levels[j], P, Q) + LevelNet(ls[j], P, Q)
  <1>1. MaxLevels \in Nat /\ MaxLevels > 1
    BY AllTerms
  <1>2. PICK k \in 1..MaxLevels : k # j
    <2>1. 1 \in 1..MaxLevels /\ 2 \in 1..MaxLevels /\ (1 # j \/ 2 # j)
      BY <1>1
    <2>2. QED
      BY <2>1
  <1>3. OnlyAt(levels, ls, j, k) /\ ls[k] = levels[k]
    BY <1>2 DEF OnlyAt
  <1>4. IsLevel(ls[k])
    BY <1>3 DEF AreLevels
  <1>5. AreLevels(ls)
    BY <1>2, <1>3, <1>4, ReplacedLevels
  <1>6. AllNet(ls, P, Q)
          = AllNet(levels, P, Q) - LevelNet(levels[j], P, Q) - LevelNet(levels[k], P, Q)
              + LevelNet(ls[j], P, Q) + LevelNet(ls[k], P, Q)
    BY ONLY <1>2, <1>3, <1>5, LevelsChanged, AreLevels(levels), j \in 1..MaxLevels,
            k \in 1..MaxLevels
  <1>7. AllNet(levels, P, Q) \in Int /\ LevelNet(levels[j], P, Q) \in Int
        /\ LevelNet(levels[k], P, Q) \in Int
    BY AllTerms
  <1>8. LevelNet(ls[j], P, Q) \in Int
    BY LevelTerms
  <1>9. QED
    BY <1>3, <1>5, <1>6, <1>7, <1>8

\* One level holds no more than all.
LEMMA OneLevel ==
  ASSUME AreLevels(levels), NEW j \in 1..MaxLevels
  PROVE  LevelNet(levels[j], Stored, {}) <= AllNet(levels, Stored, {})
         /\ LevelNet(levels[j], Stored, {}) \in Nat
  <1>1. PICK k \in 1..MaxLevels : k # j
    <2>1. MaxLevels \in Nat /\ MaxLevels > 1
      BY AllTerms
    <2>2. 1 \in 1..MaxLevels /\ 2 \in 1..MaxLevels /\ (1 # j \/ 2 # j)
      BY <2>1
    <2>3. QED
      BY <2>2
  <1>2. LevelNet(levels[j], Stored, {}) + LevelNet(levels[k], Stored, {})
          <= AllNet(levels, Stored, {})
    BY <1>1, TwoLevels
  <1>3. LevelNet(levels[j], Stored, {}) \in Nat /\ LevelNet(levels[k], Stored, {}) \in Nat
    BY LevelSize DEF AreLevels
  <1>4. AllNet(levels, Stored, {}) \in Nat
    BY AllTerms
  <1>5. QED
    BY <1>2, <1>3, <1>4

\* Level 0 with the shard of the view, merged or not, holds its records and the view's.
LEMMA FlushedLevels ==
  ASSUME IndexInv, NEW s \in FromView, NEW l,
         \/ l = Append(levels[1], s)
         \/ \E t \in FromShards(Append(levels[1], s)) : l = <<t>>
  PROVE  /\ IsLevel(l)
         /\ \A r : LevelNet(l, Pro(r), Con(r))
                     = LevelNet(levels[1], Pro(r), Con(r)) + Net(View, Pro(r), Con(r))
         /\ LevelNet(l, Stored, {}) <= LevelNet(levels[1], Stored, {}) + ViewCount
  <1>1. mode \in Modes /\ IsRing /\ AreLevels(levels) /\ m_tscnt \in Int
    BY DEF IndexInv, RingInv, IsRing
  <1>2. View \in Seq(Stored) /\ Len(View) = ViewCount /\ ViewCount \in Nat
        /\ ViewCount + AllNet(levels, Stored, {}) < SizeModulus
        /\ AllNet(levels, Stored, {}) \in Nat
    BY InvEntries
  <1>3. 1 \in 1..MaxLevels /\ SizeModulus \in Nat
    BY IndexAssumption, SizeAssumption
  <1>4. Len(View) < SizeModulus
    BY <1>2, <1>3
  <1>5. IsGood(s) /\ Len(Content(s)) <= Len(View)
        /\ \A r : Net(Content(s), Pro(r), Con(r)) = Net(View, Pro(r), Con(r))
    BY <1>1, <1>2, <1>4, ShardFromView
  <1>6. IsLevel(levels[1])
    BY <1>1, <1>3 DEF AreLevels
  <1>7. LevelNet(levels[1], Stored, {}) <= AllNet(levels, Stored, {})
        /\ LevelNet(levels[1], Stored, {}) \in Nat
    BY <1>1, <1>3, OneLevel
  <1>8. PICK m : m = Append(levels[1], s)
    OBVIOUS
  <1>9. IsLevel(m) /\ \A P, Q : LevelNet(m, P, Q) = LevelNet(levels[1], P, Q) + Net(Content(s), P, Q)
    BY <1>5, <1>6, <1>8, LevelAppend
  <1>10. Net(Content(s), Stored, {}) = Len(Content(s)) /\ Len(Content(s)) \in Nat
    BY <1>5, GoodContent, LenIsNet, LenProperties
  <1>11. LevelNet(m, Stored, {}) <= LevelNet(levels[1], Stored, {}) + ViewCount
         /\ LevelNet(m, Stored, {}) < SizeModulus /\ LevelNet(m, Stored, {}) \in Nat
    <2>1. LevelNet(m, Stored, {}) = LevelNet(levels[1], Stored, {}) + Len(Content(s))
      BY <1>9, <1>10
    <2>2. QED
      BY <1>2, <1>3, <1>5, <1>7, <1>10, <2>1
  <1>12. CASE l = Append(levels[1], s)
    BY <1>5, <1>8, <1>9, <1>11, <1>12
  <1>13. CASE \E t \in FromShards(Append(levels[1], s)) : l = <<t>>
    <2>1. PICK t \in FromShards(m) : l = <<t>>
      BY <1>8, <1>13
    <2>2. IsGood(t) /\ Len(Content(t)) <= LevelNet(m, Stored, {})
          /\ \A r : Net(Content(t), Pro(r), Con(r)) = LevelNet(m, Pro(r), Con(r))
      BY <1>1, <1>9, <1>11, <2>1, ShardFromShards
    <2>3. IsLevel(l) /\ \A P, Q : LevelNet(l, P, Q) = Net(Content(t), P, Q)
      BY <2>1, <2>2, LevelOne
    <2>4. Net(Content(t), Stored, {}) = Len(Content(t)) /\ Len(Content(t)) \in Nat
      BY <2>2, GoodContent, LenIsNet, LenProperties
    <2>5. LevelNet(l, Stored, {}) <= LevelNet(levels[1], Stored, {}) + ViewCount
      <3>1. LevelNet(l, Stored, {}) = Len(Content(t))
        BY <2>3, <2>4
      <3>2. QED
        BY <1>2, <1>7, <1>11, <2>2, <2>4, <3>1
    <2>6. QED
      BY <1>5, <1>9, <2>2, <2>3, <2>5
  <1>14. QED
    BY <1>12, <1>13

\* A flush that changes the levels adds what the view says to them.
LEMMA FlushLevels ==
  ASSUME IndexInv, Flush
  PROVE  /\ AreLevels(levels')
         /\ levels' # levels => \A r : AllNet(levels', Pro(r), Con(r))
              = AllNet(levels, Pro(r), Con(r)) + Net(View, Pro(r), Con(r))
         /\ AllNet(levels', Stored, {}) <= AllNet(levels, Stored, {}) + ViewCount
  <1>1. AreLevels(levels) /\ 1 \in 1..MaxLevels
    BY IndexAssumption DEF IndexInv
  <1>2. View \in Seq(Stored) /\ ViewCount \in Nat /\ AllNet(levels, Stored, {}) \in Nat
    BY InvEntries
  <1>3. CASE levels' = levels
    BY <1>1, <1>2, <1>3
  <1>4. ASSUME NEW s \in FromView, NEW l, levels' = [levels EXCEPT ![1] = l],
               \/ l = Append(levels[1], s)
               \/ \E t \in FromShards(Append(levels[1], s)) : l = <<t>>
        PROVE  /\ AreLevels(levels')
               /\ \A r : AllNet(levels', Pro(r), Con(r))
                           = AllNet(levels, Pro(r), Con(r)) + Net(View, Pro(r), Con(r))
               /\ AllNet(levels', Stored, {}) <= AllNet(levels, Stored, {}) + ViewCount
    <2>1. /\ IsLevel(l)
          /\ \A r : LevelNet(l, Pro(r), Con(r))
                      = LevelNet(levels[1], Pro(r), Con(r)) + Net(View, Pro(r), Con(r))
          /\ LevelNet(l, Stored, {}) <= LevelNet(levels[1], Stored, {}) + ViewCount
      BY <1>4, FlushedLevels
    <2>2. PICK ls : ls = levels'
      OBVIOUS
    <2>3. AreLevels(ls)
          /\ \A P, Q : AllNet(ls, P, Q)
                         = AllNet(levels, P, Q) - LevelNet(levels[1], P, Q) + LevelNet(l, P, Q)
      <3>1. DOMAIN levels = 1..MaxLevels
        BY <1>1 DEF AreLevels
      <3>2. DOMAIN ls = 1..MaxLevels /\ ls[1] = l /\ OnlyAt(levels, ls, 1, 1)
        BY <1>1, <1>4, <2>2, <3>1 DEF OnlyAt
      <3>3. PICK j \in 1..MaxLevels : j = 1
        BY <1>1
      <3>4. OnlyAt(levels, ls, j, j) /\ IsLevel(ls[j])
        BY <2>1, <3>2, <3>3
      <3>5. ASSUME NEW P, NEW Q
            PROVE  /\ AreLevels(ls)
                   /\ AllNet(ls, P, Q)
                        = AllNet(levels, P, Q) - LevelNet(levels[j], P, Q) + LevelNet(ls[j], P, Q)
        BY ONLY <1>1, <3>2, <3>4, ReplacedLevel, j \in 1..MaxLevels
      <3>6. QED
        BY <3>2, <3>3, <3>5
    <2>4. \A P, Q : AllNet(levels, P, Q) \in Int /\ LevelNet(levels[1], P, Q) \in Int
      BY <1>1, AllTerms
    <2>5. \A P, Q : LevelNet(l, P, Q) \in Int
      BY <2>1, LevelTerms
    <2>6. \A r : Net(View, Pro(r), Con(r)) \in Int
      BY <1>2, NetInt
    <2>7. ASSUME NEW r
          PROVE  AllNet(ls, Pro(r), Con(r))
                   = AllNet(levels, Pro(r), Con(r)) + Net(View, Pro(r), Con(r))
      <3>1. PICK P : P = Pro(r)
        OBVIOUS
      <3>2. PICK Q : Q = Con(r)
        OBVIOUS
      <3>3. LevelNet(l, P, Q) = LevelNet(levels[1], P, Q) + Net(View, P, Q)
        BY <2>1, <3>1, <3>2
      <3>4. Net(View, P, Q) \in Int
        BY <2>6, <3>1, <3>2
      <3>5. AllNet(ls, P, Q) = AllNet(levels, P, Q) + Net(View, P, Q)
        BY <2>3, <2>4, <2>5, <3>3, <3>4
      <3>6. QED
        BY <3>1, <3>2, <3>5
    <2>8. AllNet(ls, Stored, {}) <= AllNet(levels, Stored, {}) + ViewCount
      <3>1. AllNet(ls, Stored, {}) = AllNet(levels, Stored, {})
              - LevelNet(levels[1], Stored, {}) + LevelNet(l, Stored, {})
        BY <2>3
      <3>2. LevelNet(levels[1], Stored, {}) \in Int /\ LevelNet(l, Stored, {}) \in Int
        BY <2>4, <2>5
      <3>3. QED
        BY <1>2, <2>1, <3>1, <3>2
    <2>9. QED
      BY <2>2, <2>3, <2>7, <2>8
  <1>5. CASE levels' # levels
    <2>1. DOMAIN levels = 1..MaxLevels
      BY <1>1 DEF AreLevels
    <2>2. PICK s \in FromView :
            IF Leveling /\ levels[1] # <<>>
              THEN LET inputs == Append(levels[1], s)
                   IN /\ undefined' = ~Defined(inputs)
                      /\ IF Defined(inputs)
                           THEN \E t \in FromShards(inputs) : levels' = [levels EXCEPT ![1] = <<t>>]
                           ELSE UNCHANGED levels
              ELSE /\ levels' = [levels EXCEPT ![1] = Append(@, s)]
                   /\ UNCHANGED undefined
      BY DEF Flush
    <2>3. PICK l : /\ levels' = [levels EXCEPT ![1] = l]
                   /\ \/ l = Append(levels[1], s)
                      \/ \E t \in FromShards(Append(levels[1], s)) : l = <<t>>
      BY <1>5, <2>2
    <2>4. QED
      BY <1>4, <2>3
  <1>6. QED
    BY <1>3, <1>5

\* Level l holds what levels a and b hold.
Combines(l, a, b) ==
  /\ IsLevel(l)
  /\ \A r : LevelNet(l, Pro(r), Con(r)) = LevelNet(a, Pro(r), Con(r)) + LevelNet(b, Pro(r), Con(r))
  /\ LevelNet(l, Stored, {}) <= LevelNet(a, Stored, {}) + LevelNet(b, Stored, {})

\* The level below after a merge: the shards are moved, merged with its shard, or merged
\* and added to it.
LEMMA LowerLevel ==
  ASSUME IndexInv, NEW i \in 1..MaxLevels, NEW j \in 1..MaxLevels, i # j, NEW l,
         \/ levels[j] = <<>> /\ l = levels[i]
         \/ \E t \in FromShards(levels[j] \o levels[i]) : l = <<t>>
         \/ \E t \in FromShards(levels[i]) : l = Append(levels[j], t)
  PROVE  Combines(l, levels[j], levels[i])
  <1>1. mode \in Modes /\ AreLevels(levels)
    BY DEF IndexInv
  <1>2. PICK a : a = levels[i]
    OBVIOUS
  <1>3. PICK b : b = levels[j]
    OBVIOUS
  <1>4. IsLevel(a) /\ IsLevel(b)
    BY <1>1, <1>2, <1>3 DEF AreLevels
  <1>5. LevelNet(a, Stored, {}) \in Nat /\ LevelNet(b, Stored, {}) \in Nat
    BY <1>4, LevelSize
  <1>6. \A P, Q : LevelNet(a, P, Q) \in Int /\ LevelNet(b, P, Q) \in Int
    BY <1>4, LevelTerms
  <1>7. LevelNet(b, Stored, {}) + LevelNet(a, Stored, {}) < SizeModulus
    <2>1. LevelNet(b, Stored, {}) + LevelNet(a, Stored, {}) <= AllNet(levels, Stored, {})
      BY <1>1, <1>2, <1>3, TwoLevels
    <2>2. ViewCount \in Nat /\ AllNet(levels, Stored, {}) \in Nat
          /\ ViewCount + AllNet(levels, Stored, {}) < SizeModulus
      BY InvEntries
    <2>3. SizeModulus \in Nat
      BY SizeAssumption
    <2>4. QED
      BY <1>5, <2>1, <2>2, <2>3
  <1>8. SizeModulus \in Nat
    BY SizeAssumption
  <1>9. ASSUME b = <<>>, l = a PROVE Combines(l, b, a)
    <2>1. \A P, Q : LevelNet(b, P, Q) = 0
      BY <1>9, NoLevel
    <2>2. QED
      BY <1>4, <1>5, <1>6, <1>9, <2>1 DEF Combines
  <1>10. ASSUME NEW t \in FromShards(b \o a), l = <<t>>
         PROVE  Combines(l, b, a)
    <2>1. PICK m : m = b \o a
      OBVIOUS
    <2>2. IsLevel(m) /\ \A P, Q : LevelNet(m, P, Q) = LevelNet(b, P, Q) + LevelNet(a, P, Q)
      BY <1>4, <2>1, LevelConcat
    <2>3. LevelNet(m, Stored, {}) < SizeModulus
      BY <1>7, <2>2
    <2>4. t \in FromShards(m)
      BY <1>10, <2>1
    <2>5. IsGood(t) /\ Len(Content(t)) <= LevelNet(m, Stored, {})
          /\ \A r : Net(Content(t), Pro(r), Con(r)) = LevelNet(m, Pro(r), Con(r))
      BY <1>1, <2>2, <2>3, <2>4, ShardFromShards
    <2>6. IsLevel(l) /\ \A P, Q : LevelNet(l, P, Q) = Net(Content(t), P, Q)
      BY <1>10, <2>5, LevelOne
    <2>7. Net(Content(t), Stored, {}) = Len(Content(t))
      BY <2>5, GoodContent, LenIsNet
    <2>8. QED
      BY <2>2, <2>5, <2>6, <2>7 DEF Combines
  <1>11. ASSUME NEW t \in FromShards(a), l = Append(b, t)
         PROVE  Combines(l, b, a)
    <2>1. LevelNet(a, Stored, {}) < SizeModulus
      BY <1>5, <1>7, <1>8
    <2>2. IsGood(t) /\ Len(Content(t)) <= LevelNet(a, Stored, {})
          /\ \A r : Net(Content(t), Pro(r), Con(r)) = LevelNet(a, Pro(r), Con(r))
      BY <1>1, <1>4, <2>1, <1>11, ShardFromShards
    <2>3. IsLevel(l) /\ \A P, Q : LevelNet(l, P, Q) = LevelNet(b, P, Q) + Net(Content(t), P, Q)
      BY <1>4, <1>11, <2>2, LevelAppend
    <2>4. Net(Content(t), Stored, {}) = Len(Content(t)) /\ Len(Content(t)) \in Nat
      BY <2>2, GoodContent, LenIsNet, LenProperties
    <2>5. LevelNet(l, Stored, {}) = LevelNet(b, Stored, {}) + Len(Content(t))
      BY <2>3, <2>4
    <2>6. LevelNet(l, Stored, {}) <= LevelNet(b, Stored, {}) + LevelNet(a, Stored, {})
      BY <1>5, <2>2, <2>4, <2>5
    <2>7. QED
      BY <2>2, <2>3, <2>6 DEF Combines
  <1>12. QED
    BY <1>2, <1>3, <1>9, <1>10, <1>11

\* Level i is emptied into level j.
LEMMA EmptiedInto ==
  ASSUME IndexInv, NEW i \in 1..MaxLevels, NEW j \in 1..MaxLevels, i # j, NEW ls, NEW l,
         DOMAIN ls = 1..MaxLevels, ls[j] = l, ls[i] = <<>>, OnlyAt(levels, ls, j, i),
         Combines(l, levels[j], levels[i])
  PROVE  /\ AreLevels(ls)
         /\ \A r : AllNet(ls, Pro(r), Con(r)) = AllNet(levels, Pro(r), Con(r))
         /\ AllNet(ls, Stored, {}) <= AllNet(levels, Stored, {})
  <1>1. AreLevels(levels)
    BY DEF IndexInv
  <1>2. IsLevel(l) /\ IsLevel(ls[j]) /\ j # i
    BY DEF Combines
  <1>3. IsLevel(ls[i]) /\ \A P, Q : LevelNet(ls[i], P, Q) = 0
    BY NoLevel
  <1>4. AreLevels(ls)
    BY <1>1, <1>2, <1>3, ReplacedLevels
  <1>5. ASSUME NEW P, NEW Q
        PROVE  /\ AllNet(ls, P, Q) = AllNet(levels, P, Q) - LevelNet(levels[j], P, Q)
                    - LevelNet(levels[i], P, Q) + LevelNet(l, P, Q)
               /\ AllNet(levels, P, Q) \in Int /\ LevelNet(levels[j], P, Q) \in Int
               /\ LevelNet(levels[i], P, Q) \in Int /\ LevelNet(l, P, Q) \in Int
    <2>1. AllNet(ls, P, Q) = AllNet(levels, P, Q) - LevelNet(levels[j], P, Q)
            - LevelNet(levels[i], P, Q) + LevelNet(ls[j], P, Q) + LevelNet(ls[i], P, Q)
      BY ONLY <1>1, <1>2, <1>4, LevelsChanged, i \in 1..MaxLevels, j \in 1..MaxLevels,
              OnlyAt(levels, ls, j, i)
    <2>2. AllNet(levels, P, Q) \in Int /\ LevelNet(levels[j], P, Q) \in Int
          /\ LevelNet(levels[i], P, Q) \in Int
      BY <1>1, AllTerms
    <2>3. LevelNet(l, P, Q) \in Int
      BY <1>2, LevelTerms
    <2>4. QED
      BY <1>3, <2>1, <2>2, <2>3
  <1>6. ASSUME NEW r PROVE AllNet(ls, Pro(r), Con(r)) = AllNet(levels, Pro(r), Con(r))
    <2>1. PICK P : P = Pro(r)
      OBVIOUS
    <2>2. PICK Q : Q = Con(r)
      OBVIOUS
    <2>3. LevelNet(l, P, Q) = LevelNet(levels[j], P, Q) + LevelNet(levels[i], P, Q)
      BY <2>1, <2>2 DEF Combines
    <2>4. /\ AllNet(ls, P, Q) = AllNet(levels, P, Q) - LevelNet(levels[j], P, Q)
               - LevelNet(levels[i], P, Q) + LevelNet(l, P, Q)
          /\ AllNet(levels, P, Q) \in Int /\ LevelNet(levels[j], P, Q) \in Int
          /\ LevelNet(levels[i], P, Q) \in Int /\ LevelNet(l, P, Q) \in Int
      BY ONLY <1>5
    <2>5. AllNet(ls, P, Q) = AllNet(levels, P, Q)
      BY ONLY <2>3, <2>4
    <2>6. QED
      BY <2>1, <2>2, <2>5
  <1>7. AllNet(ls, Stored, {}) <= AllNet(levels, Stored, {})
    <2>1. PICK P : P = Stored
      OBVIOUS
    <2>2. PICK Q : Q = {}
      OBVIOUS
    <2>3. LevelNet(l, P, Q) <= LevelNet(levels[j], P, Q) + LevelNet(levels[i], P, Q)
      BY <2>1, <2>2 DEF Combines
    <2>4. /\ AllNet(ls, P, Q) = AllNet(levels, P, Q) - LevelNet(levels[j], P, Q)
               - LevelNet(levels[i], P, Q) + LevelNet(l, P, Q)
          /\ AllNet(levels, P, Q) \in Int /\ LevelNet(levels[j], P, Q) \in Int
          /\ LevelNet(levels[i], P, Q) \in Int /\ LevelNet(l, P, Q) \in Int
      BY ONLY <1>5
    <2>5. AllNet(ls, P, Q) <= AllNet(levels, P, Q)
      BY ONLY <2>3, <2>4
    <2>6. QED
      BY <2>1, <2>2, <2>5
  <1>8. QED
    BY <1>4, <1>6, <1>7

\* A merge keeps what the levels say in all.
LEMMA MergeLevels ==
  ASSUME IndexInv, NEW i \in 1..(MaxLevels - 1), MergeDownLeveled(i) \/ MergeDownTiered(i)
  PROVE  /\ AreLevels(levels')
         /\ \A r : AllNet(levels', Pro(r), Con(r)) = AllNet(levels, Pro(r), Con(r))
         /\ AllNet(levels', Stored, {}) <= AllNet(levels, Stored, {})
  <1>1. AreLevels(levels) /\ DOMAIN levels = 1..MaxLevels
    BY DEF IndexInv, AreLevels
  <1>2. MaxLevels \in Nat /\ AllNet(levels, Stored, {}) \in Nat
    BY <1>1, AllTerms
  <1>3. i \in 1..MaxLevels /\ i + 1 \in 1..MaxLevels /\ i # i + 1
    BY <1>2
  <1>4. PICK j \in 1..MaxLevels : j = i + 1 /\ i # j
    BY <1>3
  <1>5. CASE levels' = levels
    BY <1>1, <1>2, <1>5
  <1>6. ASSUME NEW l, levels' = [levels EXCEPT ![j] = l, ![i] = <<>>],
               \/ levels[j] = <<>> /\ l = levels[i]
               \/ \E t \in FromShards(levels[j] \o levels[i]) : l = <<t>>
               \/ \E t \in FromShards(levels[i]) : l = Append(levels[j], t)
        PROVE  /\ AreLevels(levels')
               /\ \A r : AllNet(levels', Pro(r), Con(r)) = AllNet(levels, Pro(r), Con(r))
               /\ AllNet(levels', Stored, {}) <= AllNet(levels, Stored, {})
    <2>1. Combines(l, levels[j], levels[i])
      BY <1>3, <1>4, <1>6, LowerLevel
    <2>2. PICK ls : ls = levels'
      OBVIOUS
    <2>3. DOMAIN ls = 1..MaxLevels /\ ls[j] = l /\ ls[i] = <<>> /\ OnlyAt(levels, ls, j, i)
      BY <1>1, <1>3, <1>4, <1>6, <2>2 DEF OnlyAt
    <2>4. /\ AreLevels(ls)
          /\ \A r : AllNet(ls, Pro(r), Con(r)) = AllNet(levels, Pro(r), Con(r))
          /\ AllNet(ls, Stored, {}) <= AllNet(levels, Stored, {})
      BY ONLY <1>3, <1>4, <2>1, <2>3, EmptiedInto, IndexInv, j \in 1..MaxLevels
    <2>5. QED
      BY <2>2, <2>4
  <1>7. CASE levels' # levels
    <2>1. PICK l : /\ levels' = [levels EXCEPT ![j] = l, ![i] = <<>>]
                   /\ \/ levels[j] = <<>> /\ l = levels[i]
                      \/ \E t \in FromShards(levels[j] \o levels[i]) : l = <<t>>
                      \/ \E t \in FromShards(levels[i]) : l = Append(levels[j], t)
      <3>1. CASE MergeDownLeveled(i)
        BY <1>4, <1>7, <3>1 DEF MergeDownLeveled
      <3>2. CASE MergeDownTiered(i)
        <4>1. PICK t \in FromShards(levels[i]) :
                levels' = [levels EXCEPT ![j] = Append(levels[j], t), ![i] = <<>>]
          BY <1>1, <1>3, <1>4, <1>7, <3>2 DEF MergeDownTiered
        <4>2. QED
          BY <4>1
      <3>3. QED
        BY <3>1, <3>2
    <2>2. QED
      BY <1>6, <2>1
  <1>8. QED
    BY <1>5, <1>7

\* A shard that is opened again has its records.
LEMMA ReopenedShard ==
  ASSUME External, NEW s, IsGood(s)
  PROVE  IsGood(Reopened(s)) /\ Content(Reopened(s)) = Content(s)
  <1>1. IsShard(Stored, s)
    BY DEF IsGood
  <1>2. PICK t : t = Reopened(s)
    OBVIOUS
  <1>3. t = [file |-> s.file, root_page |-> s.root_page, last_data_page |-> s.last_data_page,
             reccnt |-> s.reccnt, tscnt |-> 0]
    BY <1>1, <1>2 DEF IsShard, Reopened
  <1>4. t.file = s.file /\ t.reccnt = s.reccnt /\ t.tscnt = 0
        /\ t.root_page = s.root_page /\ t.last_data_page = s.last_data_page
    BY <1>3
  <1>5. Records(t) = Records(s)
    BY <1>4 DEF Records
  <1>6. IsShard(Stored, t)
    <2>1. WellFormed(t)
      BY <1>1, <1>4, <1>5 DEF IsShard, WellFormed
    <2>2. Guided(t)
      <3> DEFINE InFile(file, root, count, key) ==
                   LET next(page) == IF page \in 1..count THEN page ELSE NextPage(file, key, page)
                   IN Iterate(next, Len(file), root)
      <3>1. ASSUME NEW key
            PROVE  /\ Descend(s, key) = InFile(s.file, s.root_page, s.last_data_page, key)
                   /\ Descend(t, key) = InFile(t.file, t.root_page, t.last_data_page, key)
        BY DEF Descend, IsLeaf, NextPage, Iterate
      <3> HIDE DEF InFile
      <3>2. \A key : Descend(t, key) = Descend(s, key)
        BY <1>4, <3>1
      <3>3. Guided(s)
        BY <1>1 DEF IsShard
      <3>4. QED
        BY <1>4, <3>2, <3>3 DEF Guided
    <2>3. QED
      BY <1>1, <1>3, <1>4, <1>5, <2>1, <2>2 DEF IsShard
  <1>7. QED
    BY <1>2, <1>5, <1>6 DEF IsGood, Content

\* A level whose shards are opened again holds what it held.
LEMMA ReopenedLevel ==
  ASSUME External, NEW l, IsLevel(l), NEW P, NEW Q
  PROVE  LET m == [k \in DOMAIN l |-> Reopened(l[k])]
         IN IsLevel(m) /\ LevelNet(m, P, Q) = LevelNet(l, P, Q)
  <1>1. PICK n \in Nat : n = Len(l)
    BY LevelTerms
  <1>2. DOMAIN l = 1..n /\ \A k \in 1..n : IsGood(l[k]) /\ Net(Content(l[k]), P, Q) \in Int
    BY <1>1, LevelTerms
  <1>3. PICK m : m = [k \in 1..n |-> Reopened(l[k])]
    OBVIOUS
  <1>4. \A k \in 1..n : m[k] = Reopened(l[k])
    BY <1>3
  <1>5. \A k \in 1..n : IsGood(m[k]) /\ Content(m[k]) = Content(l[k])
    BY <1>2, <1>4, ReopenedShard
  <1>6. PICK U : U = {m[k] : k \in 1..n}
    OBVIOUS
  <1>7. m \in [1..n -> U]
    BY <1>3, <1>6
  <1>8. m \in Seq(U) /\ Len(m) = n
    <2>1. m \in Seq(U)
      BY <1>7, SeqDef
    <2>2. QED
      BY <1>3, <2>1, LenProperties
  <1>9. IsLevel(m)
    BY <1>5, <1>8, LevelIntro
  <1>10. [k \in 1..n |-> Net(Content(m[k]), P, Q)] = [k \in 1..n |-> Net(Content(l[k]), P, Q)]
    BY <1>5
  <1>11. LevelNet(m, P, Q) = LevelNet(l, P, Q)
    BY <1>1, <1>8, <1>10 DEF LevelNet
  <1>12. QED
    BY <1>2, <1>3, <1>9, <1>11

\* A restart keeps what every level says.
LEMMA RestartLevels ==
  ASSUME IndexInv, Restart
  PROVE  AreLevels(levels') /\ \A P, Q : AllNet(levels', P, Q) = AllNet(levels, P, Q)
  <1>1. External /\ AreLevels(levels) /\ DOMAIN levels = 1..MaxLevels
    BY DEF Restart, IndexInv, AreLevels
  <1>2. PICK ls : ls = levels'
    OBVIOUS
  <1>3. ls = [i \in 1..MaxLevels |-> [k \in DOMAIN levels[i] |-> Reopened(levels[i][k])]]
    BY <1>1, <1>2 DEF Restart
  <1>4. ASSUME NEW i \in 1..MaxLevels, NEW P, NEW Q
        PROVE  IsLevel(ls[i]) /\ LevelNet(ls[i], P, Q) = LevelNet(levels[i], P, Q)
    <2>1. PICK l : l = levels[i]
      OBVIOUS
    <2>2. IsLevel(l)
      BY <1>1, <2>1 DEF AreLevels
    <2>3. PICK m : m = [k \in DOMAIN l |-> Reopened(l[k])]
      OBVIOUS
    <2>4. IsLevel(m) /\ LevelNet(m, P, Q) = LevelNet(l, P, Q)
      BY <1>1, <2>2, <2>3, ReopenedLevel
    <2>5. ls[i] = m
      BY <1>3, <2>1, <2>3
    <2>6. QED
      BY <2>1, <2>4, <2>5
  <1>5. AreLevels(ls)
    BY <1>3, <1>4 DEF AreLevels
  <1>6. ASSUME NEW P, NEW Q PROVE AllNet(ls, P, Q) = AllNet(levels, P, Q)
    <2>1. [i \in 1..MaxLevels |-> LevelNet(ls[i], P, Q)]
            = [i \in 1..MaxLevels |-> LevelNet(levels[i], P, Q)]
      BY <1>4
    <2>2. QED
      BY <2>1 DEF AllNet
  <1>7. QED
    BY <1>2, <1>5, <1>6

-----------------------------------------------------------------------------
(***************************************************************************)
(* The steps that change the levels keep the invariant and every balance.  *)
(***************************************************************************)
SameBalance == \A r \in Known : Balance(Entries', r) = Balance(Entries, r)

\* Such a step keeps the sizes when the view and the levels together hold no more, and
\* the balances when they say the same.
LEMMA LevelStep ==
  ASSUME IndexInv, mode' = mode, RingInv', HistoryInv', appended' = appended,
         AreLevels(levels'),
         ViewCount' + AllNet(levels', Stored, {}) <= ViewCount + AllNet(levels, Stored, {})
  PROVE  /\ IndexInv'
         /\ (\A r : Net(View', Pro(r), Con(r)) + AllNet(levels', Pro(r), Con(r))
                      = Net(View, Pro(r), Con(r)) + AllNet(levels, Pro(r), Con(r))) => SameBalance
  <1>1. View \in Seq(Stored) /\ ViewCount \in Nat /\ EntriesSplit
        /\ AllNet(levels, Stored, {}) \in Nat
        /\ ViewCount + AllNet(levels, Stored, {}) <= Len(mode.loaded) + appended
    BY InvEntries
  <1>2. Len(mode.loaded) \in Nat /\ appended \in Nat /\ mode \in Modes
    BY ModeFacts DEF IndexInv, HistoryInv
  <1>3. AllNet(levels', Stored, {}) \in Nat
    BY AllTerms
  <1>4. ViewCount' \in Nat
    BY ViewSeqNext
  <1>5. ViewCount' + AllNet(levels', Stored, {}) <= Len(mode.loaded) + appended'
    BY <1>1, <1>2, <1>3, <1>4
  <1>6. AreLevels(levels)' /\ SizeInv' /\ Entries' \in Seq(Stored)
        /\ \A P, Q : Net(Entries', P, Q) = Net(View', P, Q) + AllNet(levels', P, Q)
    BY <1>5, StepSizes
  <1>7. IndexInv'
    BY <1>2, <1>6 DEF IndexInv
  <1>8. ASSUME \A r : Net(View', Pro(r), Con(r)) + AllNet(levels', Pro(r), Con(r))
                        = Net(View, Pro(r), Con(r)) + AllNet(levels, Pro(r), Con(r)),
               NEW r \in Known
        PROVE  Balance(Entries', r) = Balance(Entries, r)
    <2>1. PICK S \in SUBSET AnyWrapped : S = Stored
      BY <1>2, StoredFacts
    <2>2. PICK e \in Seq(S) : e = Entries'
      BY <1>6, <2>1
    <2>3. PICK d \in Seq(S) : d = Entries
      BY <1>1, <2>1 DEF EntriesSplit
    <2>4. Balance(e, r) = Net(e, Pro(r), Con(r)) /\ Balance(d, r) = Net(d, Pro(r), Con(r))
      BY BalanceIsNet
    <2>5. Net(Entries', Pro(r), Con(r)) = Net(View', Pro(r), Con(r)) + AllNet(levels', Pro(r), Con(r))
      BY <1>6
    <2>6. Net(Entries, Pro(r), Con(r)) = Net(View, Pro(r), Con(r)) + AllNet(levels, Pro(r), Con(r))
      BY <1>1 DEF EntriesSplit
    <2>7. QED
      BY <1>8, <2>2, <2>3, <2>4, <2>5, <2>6
  <1>9. QED
    BY <1>7, <1>8 DEF SameBalance

\* A view without records.
LEMMA EmptyView ==
  ASSUME ViewCount' = 0
  PROVE  View' = <<>> /\ \A P, Q : Net(View', P, Q) = 0
  <1>1. View' = [i \in 1..ViewCount' |-> m_data'[ToIdx(i - 1)']]
    BY DEF View
  <1>2. View' = <<>>
    BY <1>1
  <1>3. QED
    BY <1>2, NetEmpty

\* A flush empties the view and keeps every balance.
LEMMA FlushStep ==
  ASSUME IndexInv, Flush
  PROVE  IndexInv' /\ (levels' # levels => SameBalance)
  <1>1. m_head' = m_tail /\ mode' = mode /\ m_data' = m_data /\ m_tail' = m_tail
        /\ m_tscnt' = m_tscnt /\ appended' = appended /\ as_set' = as_set
        /\ restarted' = restarted
    BY DEF Flush
  <1>2. undefined' \in BOOLEAN
    <2>1. undefined \in BOOLEAN
      BY DEF IndexInv, HistoryInv
    <2>2. PICK s \in FromView :
            IF Leveling /\ levels[1] # <<>> THEN undefined' = ~Defined(Append(levels[1], s))
                                            ELSE undefined' = undefined
      BY DEF Flush
    <2>3. QED
      BY <2>1, <2>2
  <1>3. m_tail \in Nat /\ HWM \in Nat /\ m_tscnt \in 0..m_tail
        /\ m_data \in [0..(Cap - 1) -> Stored \cup {ZeroRecord}]
    BY IndexAssumption DEF IndexInv, RingInv, IsRing
  <1>4. ViewCount' = 0
    BY <1>1, <1>3 DEF ViewCount
  <1>5. RingInv'
    <2>1. IsRing'
      BY <1>1, <1>3, <1>4 DEF IsRing
    <2>2. Stored' = Stored
      BY <1>1, SameMode
    <2>3. \A i \in m_head'..(m_tail' - 1) : m_data'[i % Cap] \in Stored'
      BY <1>1, <1>3
    <2>4. m_tscnt' \in 0..m_tail' /\ m_data' \in [0..(Cap - 1) -> Stored' \cup {ZeroRecord}]
      BY <1>1, <1>3, <2>2
    <2>5. QED
      BY <2>1, <2>3, <2>4 DEF RingInv
  <1>6. HistoryInv'
    BY <1>1, <1>2 DEF HistoryInv, IndexInv
  <1>7. /\ AreLevels(levels')
        /\ levels' # levels => \A r : AllNet(levels', Pro(r), Con(r))
             = AllNet(levels, Pro(r), Con(r)) + Net(View, Pro(r), Con(r))
        /\ AllNet(levels', Stored, {}) <= AllNet(levels, Stored, {}) + ViewCount
    BY FlushLevels
  <1>8. \A P, Q : Net(View', P, Q) = 0
    BY <1>4, EmptyView
  <1>9. ViewCount' + AllNet(levels', Stored, {}) <= ViewCount + AllNet(levels, Stored, {})
    <2>1. ViewCount \in Nat /\ AllNet(levels, Stored, {}) \in Nat
      BY InvEntries
    <2>2. AllNet(levels', Stored, {}) \in Nat
      BY <1>7, AllTerms
    <2>3. QED
      BY <1>4, <1>7, <2>1, <2>2
  <1>10. /\ IndexInv'
         /\ (\A r : Net(View', Pro(r), Con(r)) + AllNet(levels', Pro(r), Con(r))
                      = Net(View, Pro(r), Con(r)) + AllNet(levels, Pro(r), Con(r))) => SameBalance
    BY <1>1, <1>5, <1>6, <1>7, <1>9, LevelStep
  <1>11. ASSUME levels' # levels, NEW r
         PROVE  Net(View', Pro(r), Con(r)) + AllNet(levels', Pro(r), Con(r))
                  = Net(View, Pro(r), Con(r)) + AllNet(levels, Pro(r), Con(r))
    <2>1. View \in Seq(Stored)
      BY InvEntries
    <2>2. Net(View, Pro(r), Con(r)) \in Int
      BY <2>1, NetInt
    <2>3. AllNet(levels, Pro(r), Con(r)) \in Int
      BY AllTerms DEF IndexInv
    <2>4. AllNet(levels', Pro(r), Con(r)) = AllNet(levels, Pro(r), Con(r)) + Net(View, Pro(r), Con(r))
          /\ Net(View', Pro(r), Con(r)) = 0
      BY <1>7, <1>8, <1>11
    <2>5. QED
      BY <2>2, <2>3, <2>4
  <1>12. QED
    BY <1>10, <1>11

\* A merge keeps the view and every balance.
LEMMA MergeStep ==
  ASSUME IndexInv, NEW i \in 1..(MaxLevels - 1), MergeDownLeveled(i) \/ MergeDownTiered(i)
  PROVE  IndexInv' /\ SameBalance
  <1>1. m_head' = m_head /\ mode' = mode /\ m_data' = m_data /\ m_tail' = m_tail
        /\ m_tscnt' = m_tscnt /\ appended' = appended /\ as_set' = as_set
        /\ restarted' = restarted
    BY DEF MergeDownLeveled, MergeDownTiered
  <1>2. undefined' \in BOOLEAN
    <2>1. undefined \in BOOLEAN
      BY DEF IndexInv, HistoryInv
    <2>2. undefined' = undefined \/ undefined' = TRUE
      BY DEF MergeDownLeveled, MergeDownTiered
    <2>3. QED
      BY <2>1, <2>2
  <1>3. ViewCount' = ViewCount /\ View' = View
    BY <1>1 DEF ViewCount, View, ToIdx, Start
  <1>4. RingInv'
    <2>1. Stored' = Stored
      BY <1>1, SameMode
    <2>2. QED
      BY <1>1, <1>3, <2>1 DEF RingInv, IsRing, IndexInv
  <1>5. HistoryInv'
    BY <1>1, <1>2 DEF HistoryInv, IndexInv
  <1>6. /\ AreLevels(levels')
        /\ \A r : AllNet(levels', Pro(r), Con(r)) = AllNet(levels, Pro(r), Con(r))
        /\ AllNet(levels', Stored, {}) <= AllNet(levels, Stored, {})
    BY MergeLevels
  <1>7. ViewCount' + AllNet(levels', Stored, {}) <= ViewCount + AllNet(levels, Stored, {})
    <2>1. ViewCount \in Nat /\ AllNet(levels, Stored, {}) \in Nat
      BY InvEntries
    <2>2. AllNet(levels', Stored, {}) \in Nat
      BY <1>6, AllTerms
    <2>3. QED
      BY <1>3, <1>6, <2>1, <2>2
  <1>8. /\ IndexInv'
        /\ (\A r : Net(View', Pro(r), Con(r)) + AllNet(levels', Pro(r), Con(r))
                     = Net(View, Pro(r), Con(r)) + AllNet(levels, Pro(r), Con(r))) => SameBalance
    BY <1>1, <1>4, <1>5, <1>6, <1>7, LevelStep
  <1>9. QED
    BY <1>3, <1>6, <1>8

\* A restart happens with an empty view and keeps every balance.
LEMMA RestartStep ==
  ASSUME IndexInv, Restart
  PROVE  IndexInv' /\ SameBalance
  <1>1. m_head = m_tail /\ m_head' = 0 /\ m_tail' = 0 /\ m_tscnt' = 0
        /\ m_data' = [i \in DOMAIN m_data |-> ZeroRecord] /\ restarted' = TRUE
        /\ mode' = mode /\ undefined' = undefined /\ appended' = appended /\ as_set' = as_set
    BY DEF Restart
  <1>2. m_tail \in Nat /\ HWM \in Nat /\ m_data \in [0..(Cap - 1) -> Stored \cup {ZeroRecord}]
    BY IndexAssumption DEF IndexInv, RingInv, IsRing
  <1>3. ViewCount' = 0 /\ ViewCount = 0
    BY <1>1, <1>2 DEF ViewCount
  <1>4. RingInv'
    <2>1. IsRing'
      BY <1>1, <1>2, <1>3 DEF IsRing
    <2>2. Stored' = Stored
      BY <1>1, SameMode
    <2>3. \A i \in m_head'..(m_tail' - 1) : m_data'[i % Cap] \in Stored'
      BY <1>1
    <2>4. m_tscnt' \in 0..m_tail' /\ m_data' \in [0..(Cap - 1) -> Stored' \cup {ZeroRecord}]
      BY <1>1, <1>2, <2>2
    <2>5. QED
      BY <2>1, <2>3, <2>4 DEF RingInv
  <1>5. HistoryInv'
    BY <1>1 DEF HistoryInv, IndexInv
  <1>6. AreLevels(levels') /\ \A P, Q : AllNet(levels', P, Q) = AllNet(levels, P, Q)
    BY RestartLevels
  <1>7. ViewCount' + AllNet(levels', Stored, {}) <= ViewCount + AllNet(levels, Stored, {})
    <2>1. AllNet(levels, Stored, {}) \in Nat
      BY InvEntries
    <2>2. AllNet(levels', Stored, {}) = AllNet(levels, Stored, {})
      BY <1>6
    <2>3. QED
      BY <1>3, <2>1, <2>2
  <1>8. /\ IndexInv'
        /\ (\A r : Net(View', Pro(r), Con(r)) + AllNet(levels', Pro(r), Con(r))
                     = Net(View, Pro(r), Con(r)) + AllNet(levels, Pro(r), Con(r))) => SameBalance
    BY <1>1, <1>4, <1>5, <1>6, <1>7, LevelStep
  <1>9. \A P, Q : Net(View', P, Q) = 0
    BY <1>3, EmptyView
  <1>10. \A P, Q : Net(View, P, Q) = 0
    <2>1. View = <<>>
      BY <1>3 DEF View
    <2>2. QED
      BY <2>1, NetEmpty
  <1>11. QED
    BY <1>6, <1>8, <1>9, <1>10

-----------------------------------------------------------------------------
(***************************************************************************)
(* The invariant, and what follows from it.                                *)
(***************************************************************************)
\* Every step keeps the invariant, and the balances when it changes the levels.
LEMMA NextStep ==
  ASSUME IndexInv, [Next]_vars
  PROVE  IndexInv' /\ (levels' # levels => SameBalance)
  <1>1. CASE UNCHANGED vars
    <2>1. IndexInv'
      <3>1. mode' = mode /\ m_data' = m_data /\ m_head' = m_head /\ m_tail' = m_tail
            /\ m_tscnt' = m_tscnt /\ levels' = levels /\ undefined' = undefined
            /\ appended' = appended /\ as_set' = as_set /\ restarted' = restarted
        BY <1>1 DEF vars
      <3>2. Stored' = Stored
        BY <3>1, SameMode
      <3>3. ViewCount' = ViewCount
        BY <3>1 DEF ViewCount
      <3>4. RingInv'
        BY <3>1, <3>2, <3>3 DEF RingInv, IsRing, IndexInv
      <3>5. HistoryInv'
        BY <3>1 DEF HistoryInv, IndexInv
      <3>6. AreLevels(levels')
            /\ ViewCount' + AllNet(levels', Stored, {}) <= ViewCount + AllNet(levels, Stored, {})
        <4>1. ViewCount \in Nat /\ AllNet(levels, Stored, {}) \in Nat
          BY InvEntries
        <4>2. QED
          BY <3>1, <3>3, <4>1 DEF IndexInv
      <3>7. QED
        BY <3>1, <3>4, <3>5, <3>6, LevelStep
    <2>2. QED
      BY <1>1, <2>1 DEF vars
  <1>2. ASSUME NEW r \in Universe, Insert(r) \/ Erase(r)
        PROVE  IndexInv' /\ levels' = levels
    <2>1. CASE Insert(r)
      BY <2>1, AppendStep DEF Insert, Append_
    <2>2. CASE Erase(r)
      BY <2>2, AppendStep DEF Erase, Append_
    <2>3. QED
      BY <1>2, <2>1, <2>2
  <1>3. ASSUME NEW r \in Universe, NEW page \in BOOLEAN, TaggedErase(r, page)
        PROVE  IndexInv' /\ levels' = levels
    BY <1>3, TaggedEraseStep DEF TaggedErase
  <1>4. CASE Flush
    BY <1>4, FlushStep
  <1>5. ASSUME NEW i \in 1..(MaxLevels - 1), MergeDownLeveled(i) \/ MergeDownTiered(i)
        PROVE  IndexInv' /\ SameBalance
    BY <1>5, MergeStep
  <1>6. CASE Restart
    BY <1>6, RestartStep
  <1>7. QED
    BY <1>1, <1>2, <1>3, <1>4, <1>5, <1>6 DEF Next

\* What the index stores is what the invariant says, after any sequence of operations.
THEOREM IndexInvariant == Spec => []IndexInv
  <1>1. Init => IndexInv
    BY InitInv
  <1>2. IndexInv /\ [Next]_vars => IndexInv'
    BY NextStep
  <1>3. QED
    BY <1>1, <1>2, PTL DEF Spec

\* The levels are a sequence: a step replaces some of them, or all.
LevelsAreSeq == levels = [i \in DOMAIN levels |-> levels[i]]

\* Every step keeps the levels a sequence.
LEMMA LevelsSeqStep ==
  ASSUME LevelsAreSeq, [Next]_vars
  PROVE  LevelsAreSeq'
  <1>1. CASE levels' = levels
    BY <1>1 DEF LevelsAreSeq
  <1>2. ASSUME NEW j, NEW l, levels' = [levels EXCEPT ![j] = l]
        PROVE  LevelsAreSeq'
    BY <1>2 DEF LevelsAreSeq
  <1>3. ASSUME NEW j, NEW l, NEW i, NEW m, levels' = [levels EXCEPT ![j] = l, ![i] = m]
        PROVE  LevelsAreSeq'
    BY <1>3 DEF LevelsAreSeq
  <1>4. ASSUME NEW F, levels' = [i \in DOMAIN levels |-> F[i]]
        PROVE  LevelsAreSeq'
    BY <1>4 DEF LevelsAreSeq
  <1>5. CASE UNCHANGED vars
    BY <1>1, <1>5 DEF vars
  <1>6. ASSUME NEW r, Insert(r) \/ Erase(r) \/ \E page \in BOOLEAN : TaggedErase(r, page)
        PROVE  levels' = levels
    BY <1>6 DEF Insert, Erase, Append_, TaggedErase
  <1>7. CASE Flush
    <2>1. levels' = levels \/ \E l : levels' = [levels EXCEPT ![1] = l]
      BY <1>7 DEF Flush
    <2>2. QED
      BY <1>1, <1>2, <2>1
  <1>8. ASSUME NEW i \in 1..(MaxLevels - 1), MergeDownLeveled(i) \/ MergeDownTiered(i)
        PROVE  LevelsAreSeq'
    <2>1. levels' = levels \/ \E l : levels' = [levels EXCEPT ![i + 1] = l, ![i] = <<>>]
      BY <1>8 DEF MergeDownLeveled, MergeDownTiered
    <2>2. QED
      BY <1>1, <1>3, <2>1
  <1>9. CASE Restart
    <2>1. PICK F : F = [i \in DOMAIN levels |-> [k \in DOMAIN levels[i] |-> Reopened(levels[i][k])]]
      OBVIOUS
    <2>2. levels' = [i \in DOMAIN levels |-> F[i]]
      BY <1>9, <2>1 DEF Restart
    <2>3. QED
      BY <1>4, <2>2
  <1>10. QED
    BY <1>1, <1>5, <1>6, <1>7, <1>8, <1>9 DEF Next

\* The shards of a query are those of the levels.
LEMMA ShardsOfLevels ==
  ASSUME AreLevels(levels), LevelsAreSeq, NEW U,
         \A i \in 1..MaxLevels : \A k \in 1..Len(levels[i]) : levels[i][k] \in U
  PROVE  Shards \in Seq(U)
  <1>1. PICK n \in Nat : n = MaxLevels
    BY AllTerms
  <1>2. DOMAIN levels = 1..n /\ \A i \in 1..n : IsLevel(levels[i])
    BY <1>1 DEF AreLevels
  <1>3. ASSUME NEW i \in 1..n PROVE levels[i] \in Seq(U)
    <2>1. PICK l : l = levels[i]
      OBVIOUS
    <2>2. IsLevel(l)
      BY <1>2, <2>1
    <2>3. PICK m \in Nat : m = Len(l)
      BY <2>2, LevelTerms
    <2>4. \A k \in 1..m : l[k] \in U
      BY <1>1, <2>1, <2>3
    <2>5. l = [k \in 1..m |-> l[k]]
      BY <2>2, <2>3, LenProperties DEF IsLevel
    <2>6. l \in [1..m -> U]
      BY <2>4, <2>5
    <2>7. QED
      BY <2>1, <2>6, SeqDef
  <1>4. PICK ss : ss = [i \in 1..n |-> levels[i]]
    OBVIOUS
  <1>5. ss \in [1..n -> Seq(U)]
    BY <1>3, <1>4
  <1>6. ss \in Seq(Seq(U))
    BY <1>5, SeqDef
  <1>7. FlattenSeq(ss) \in Seq(U)
    BY <1>6, NetFlatten
  <1>8. QED
    BY <1>2, <1>4, <1>7 DEF Shards, LevelsAreSeq

\* The shards of all levels, in the order of a query, are good.
LEMMA ShardsAreGood ==
  ASSUME AreLevels(levels), LevelsAreSeq
  PROVE  \A i \in DOMAIN Shards : IsGood(Shards[i])
  <1>1. PICK U : U = {x \in UNION {ToSet(levels[i]) : i \in 1..MaxLevels} : IsGood(x)}
    OBVIOUS
  <1>2. ASSUME NEW i \in 1..MaxLevels, NEW k \in 1..Len(levels[i]) PROVE levels[i][k] \in U
    <2>1. PICK l : l = levels[i]
      OBVIOUS
    <2>2. IsLevel(l)
      BY <2>1 DEF AreLevels
    <2>3. DOMAIN l = 1..Len(l) /\ IsGood(l[k])
      BY <2>1, <2>2, LevelTerms
    <2>4. l[k] \in ToSet(l)
      BY <2>1, <2>3 DEF ToSet
    <2>5. QED
      BY <1>1, <2>1, <2>3, <2>4
  <1>3. Shards \in Seq(U)
    BY <1>2, ShardsOfLevels
  <1>4. \A i \in DOMAIN Shards : Shards[i] \in U
    BY <1>3, LenProperties, ElementOfSeq
  <1>5. QED
    BY <1>1, <1>4

\* Slots, shards and counters of an index have their types in every reachable state, for
\* every ring, fanout and set of modes: whatever was flushed, merged, cancelled and
\* opened again, the pages of a shard hold as many wrapped records as its header says
\* (its count of tombstones is a size_t and may wrap around).
THEOREM IndexTypeCorrect == Spec => []TypeOK
  <1>1. ASSUME IndexInv, LevelsAreSeq PROVE TypeOK
    <2>1. mode \in Modes /\ AreLevels(levels)
      BY <1>1 DEF IndexInv
    <2>2. Stored \subseteq WrappedRecords
      BY <2>1, StoredFacts
    <2>3. \A i \in 0..(Cap - 1) : m_data[i] = ZeroRecord \/ m_data[i] \in WrappedRecords
      <3>1. PICK S : S = Stored
        OBVIOUS
      <3>2. m_data \in [0..(Cap - 1) -> S \cup {ZeroRecord}]
        BY <1>1, <3>1 DEF IndexInv, RingInv
      <3>3. QED
        BY <2>2, <3>1, <3>2
    <2>4. m_tail \in Nat /\ m_head \in 0..m_tail /\ m_tscnt \in 0..m_tail /\ ViewCount <= HWM
      BY <1>1 DEF IndexInv, RingInv, IsRing
    <2>5. ASSUME NEW i \in DOMAIN Shards
          PROVE  /\ \A k \in DOMAIN Content(Shards[i]) : Content(Shards[i])[k] \in WrappedRecords
                 /\ External => Shards[i].tscnt \in Nat /\ Shards[i].reccnt \in Nat
      <3>1. PICK s : s = Shards[i]
        OBVIOUS
      <3>2. IsGood(s)
        BY <1>1, <2>1, <3>1, ShardsAreGood
      <3>3. PICK c : c = Content(s)
        OBVIOUS
      <3>4. c \in Seq(Stored)
        BY <3>2, <3>3, GoodContent
      <3>5. \A k \in DOMAIN c : c[k] \in Stored
        BY <3>4, LenProperties, ElementOfSeq
      <3>6. External => s.tscnt \in Nat /\ s.reccnt \in Nat
        BY <3>2 DEF IsGood, IsShard
      <3>7. QED
        BY <2>2, <3>1, <3>3, <3>5, <3>6
    <2>6. appended \in 0..mode.appends /\ {undefined, as_set, restarted} \subseteq BOOLEAN
      BY <1>1 DEF IndexInv, HistoryInv
    <2>7. QED
      BY <2>1, <2>3, <2>4, <2>5, <2>6 DEF TypeOK
  <1>2. Init => LevelsAreSeq
    BY DEF Init, LevelsAreSeq
  <1>3. LevelsAreSeq /\ [Next]_vars => LevelsAreSeq'
    BY LevelsSeqStep
  <1>4. QED
    BY <1>1, <1>2, <1>3, IndexInvariant, PTL DEF Spec

\* The file of an external shard is what its header says in every reachable state, for
\* every fanout and history: the pages the merge writes hold its records in their order
\* and zeroes behind the last, although the header's counts are computed from the inputs
\* and the number of cancelled pairs, and the root is the last page.
THEOREM ShardsAreWellFormed == Spec => []ShardsWellFormed
  <1>1. ASSUME IndexInv, LevelsAreSeq PROVE ShardsWellFormed
    <2>1. ASSUME External, NEW i \in DOMAIN Shards PROVE WellFormed(Shards[i])
      <3>1. AreLevels(levels)
        BY <1>1 DEF IndexInv
      <3>2. IsGood(Shards[i])
        BY <1>1, <3>1, ShardsAreGood
      <3>3. QED
        BY <2>1, <3>2 DEF IsGood, IsShard
    <2>2. QED
      BY <2>1 DEF ShardsWellFormed, WellFormed
  <1>2. Init => LevelsAreSeq
    BY DEF Init, LevelsAreSeq
  <1>3. LevelsAreSeq /\ [Next]_vars => LevelsAreSeq'
    BY LevelsSeqStep
  <1>4. QED
    BY <1>1, <1>2, <1>3, IndexInvariant, PTL DEF Spec

\* The keys of a run of records that a key splits.
LEMMA SplitCount ==
  ASSUME NEW S \in SUBSET AnyWrapped, NEW c \in Seq(S), Sorted(c), NEW key \in Nat,
         NEW i, Splits(c, key, i)
  PROVE  Cardinality({p \in DOMAIN c : Key(c[p].rec) < key}) = i
  <1>1. PICK n \in Nat : n = Len(c) /\ DOMAIN c = 1..n
    BY LenProperties
  <1>2. \A p \in 1..n : Key(c[p].rec) \in Nat
    BY <1>1, KeysSorted
  <1>3. i \in 0..n /\ (\A p \in 1..i : Key(c[p].rec) < key)
        /\ \A p \in (i + 1)..n : key <= Key(c[p].rec)
    BY <1>1 DEF Splits
  <1>4. ASSUME NEW p \in 1..n PROVE Key(c[p].rec) < key <=> p \in 1..i
    <2>1. PICK k \in Nat : k = Key(c[p].rec)
      BY <1>2
    <2>2. CASE p <= i
      BY <1>3, <2>2
    <2>3. CASE ~(p <= i)
      <3>1. p \in (i + 1)..n
        BY <1>3, <2>3
      <3>2. key <= k
        BY <1>3, <2>1, <3>1
      <3>3. QED
        BY <2>1, <2>3, <3>2
    <2>4. QED
      BY <2>2, <2>3
  <1>5. 1..i \subseteq 1..n
    BY <1>3
  <1>6. {p \in 1..n : Key(c[p].rec) < key} = 1..i
    BY <1>4, <1>5
  <1>7. Cardinality(1..i) = i
    <2>1. i \in Nat
      BY <1>3
    <2>2. Cardinality(1..i) = IF 1 > i THEN 0 ELSE i - 1 + 1
      BY <2>1, FS_Interval
    <2>3. QED
      BY <2>1, <2>2
  <1>8. QED
    BY <1>1, <1>6, <1>7

\* The searches of both ISAMTrees are exact in every reachable state, for every fanout,
\* history and key other than zero: get_lower_bound, get_upper_bound and point_lookup lead
\* to the positions that a scan of the whole shard would find, although the inner pages
\* of the one and the inner nodes of the other are filled by different rules, padded with
\* zeroes and built from arrays whose pairs were cancelled.
THEOREM SearchesAreExact == Spec => []SearchExact
  <1>1. ASSUME IndexInv, LevelsAreSeq PROVE SearchExact
    <2>1. ASSUME NEW i \in DOMAIN Shards, ~Empty(Shards[i]), NEW key \in Keys \ {0}
          PROVE  LET c == Content(Shards[i])
                     below(p) == Key(c[p].rec) < key
                     upto(p) == Key(c[p].rec) <= key
                     n == Cardinality({p \in DOMAIN c : below(p)})
                 IN IF External
                    THEN LET at == ExternalLowerBound(Shards[i], key)
                             idx == (at.page - 1) * LeafFanout + at.slot
                         IN idx = n \/ (n = Len(c) /\ idx >= n)
                    ELSE /\ GetLowerBound(c, key) = n + 1
                         /\ GetUpperBound(c, key) = 1 + Cardinality({p \in DOMAIN c : upto(p)})
                         /\ \A p \in DOMAIN c : \A q \in PointLookup(c, c[p].rec) :
                              q \in DOMAIN c /\ c[q].rec = c[p].rec
      <3>1. mode \in Modes /\ AreLevels(levels)
        BY <1>1 DEF IndexInv
      <3>2. PICK s : s = Shards[i]
        OBVIOUS
      <3>3. IsGood(s)
        BY <1>1, <3>1, <3>2, ShardsAreGood
      <3>4. PICK S \in SUBSET AnyWrapped : S = Stored
        BY <3>1, StoredFacts
      <3>5. PICK k \in Nat \ {0} : k = key
        BY <2>1 DEF Keys
      <3>6. PICK c : c = Content(s)
        OBVIOUS
      <3>7. c \in Seq(S)
        BY <3>3, <3>4, <3>6, GoodContent
      <3>8. c # <<>>
        BY <2>1, <3>2, <3>6 DEF Empty
      <3>9. CASE External
        <4>1. IsShard(S, s) /\ c = Records(s)
          BY <3>3, <3>4, <3>6, <3>9 DEF IsGood, Content
        <4>2. Sorted(c)
          BY <4>1 DEF IsShard, WellFormed
        <4>3. PICK at : at = ExternalLowerBound(s, k)
          OBVIOUS
        <4>4. PICK idx : idx = (at.page - 1) * LeafFanout + at.slot
          OBVIOUS
        <4>5. Splits(c, k, idx) \/ (Splits(c, k, Len(c)) /\ idx >= Len(c))
          BY ONLY <3>8, <4>1, <4>3, <4>4, LowerBoundExact, S \in SUBSET AnyWrapped, k \in Nat \ {0}
        <4>6. PICK n : n = Cardinality({p \in DOMAIN c : Key(c[p].rec) < k})
          OBVIOUS
        <4>7. \A x : Splits(c, k, x) => n = x
          BY ONLY <3>7, <4>2, <4>6, SplitCount, S \in SUBSET AnyWrapped, k \in Nat \ {0}
        <4>8. idx = n \/ (n = Len(c) /\ idx >= n)
          BY <4>5, <4>7
        <4>9. QED
          BY <3>2, <3>5, <3>6, <3>9, <4>3, <4>4, <4>6, <4>8
      <3>10. CASE ~External
        <4>1. Sorted(c)
          BY <3>3, <3>6, <3>10 DEF IsGood, Content
        <4>2. /\ GetLowerBound(c, k) = Cardinality({p \in DOMAIN c : Key(c[p].rec) < k}) + 1
              /\ GetUpperBound(c, k) = 1 + Cardinality({p \in DOMAIN c : Key(c[p].rec) <= k})
              /\ \A p \in DOMAIN c : \A q \in PointLookup(c, c[p].rec) :
                   q \in DOMAIN c /\ c[q].rec = c[p].rec
          BY ONLY <3>7, <3>8, <4>1, ArraySearches, S \in SUBSET AnyWrapped, k \in Nat
        <4>3. QED
          BY <3>2, <3>5, <3>6, <3>10, <4>2
      <3>11. QED
        BY <3>9, <3>10
    <2>2. QED
      BY <2>1 DEF SearchExact
  <1>2. Init => LevelsAreSeq
    BY DEF Init, LevelsAreSeq
  <1>3. LevelsAreSeq /\ [Next]_vars => LevelsAreSeq'
    BY LevelsSeqStep
  <1>4. QED
    BY <1>1, <1>2, <1>3, IndexInvariant, PTL DEF Spec

\* The constructors of both ISAMTrees neither lose nor invent anything, for every input,
\* fanout and number of levels: a flush, a merge and a restart leave every record its
\* count of copies less tombstones, whichever pairs they cancel and however equal records
\* leave the priority queue.
THEOREM BalanceIsKept == Spec => BalanceKept
  <1>1. ASSUME IndexInv, [Next]_vars
        PROVE  [levels' # levels =>
                  LET before == Entries
                      after == Entries'
                  IN \A r \in Known : Balance(after, r) = Balance(before, r)]_vars
    BY <1>1, NextStep DEF SameBalance
  <1>2. QED
    BY <1>1, IndexInvariant, PTL DEF Spec, BalanceKept


-----------------------------------------------------------------------------
(***************************************************************************)
(* create_static_structure.                                                *)
(***************************************************************************)

\* The levels of a sequence, one behind the other, hold what all of them hold.
LEMMA LevelsFlatten ==
  ASSUME NEW n \in Nat, n # 0, NEW V, NEW ls \in [1..n -> V],
         \A i \in 1..n : IsLevel(ls[i]), NEW P, NEW Q
  PROVE  /\ IsLevel(FlattenSeq(ls))
         /\ LevelNet(FlattenSeq(ls), P, Q) = SumTo([i \in 1..n |-> LevelNet(ls[i], P, Q)], n)
  <1>1. PICK U : U = UNION {ToSet(ls[i]) : i \in 1..n}
    OBVIOUS
  <1>2. ASSUME NEW i \in 1..n PROVE ls[i] \in Seq(U)
    <2>1. PICK l : l = ls[i]
      OBVIOUS
    <2>2. ToSet(l) \subseteq U /\ l \in Seq(ToSet(l))
      BY <1>1, <2>1 DEF IsLevel
    <2>3. QED
      BY <2>1, <2>2, SeqMonotonic
  <1>3. ls \in Seq(Seq(U)) /\ Len(ls) = n
    <2>1. ls \in [1..n -> Seq(U)]
      BY <1>2
    <2>2. ls \in Seq(Seq(U))
      BY <2>1, SeqDef
    <2>3. QED
      BY <2>2, LenProperties
  <1>4. PICK f : /\ FlattenSeq(ls) = f[n]
                 /\ \A i \in 1..n : f[i] = IF i = 1 THEN ls[i] ELSE f[i - 1] \o ls[i]
    BY <1>3, FlattenSteps
  <1>5. PICK w : w = [i \in 1..n |-> LevelNet(ls[i], P, Q)]
    OBVIOUS
  <1>6. \A i \in 1..n : w[i] = LevelNet(ls[i], P, Q) /\ w[i] \in Int
    BY <1>5, LevelTerms
  <1>7. ASSUME NEW i \in 1..n
        PROVE  SumTo(w, 0) = 0 /\ SumTo(w, i) = SumTo(w, i - 1) + w[i]
    <2>1. i \in Nat /\ i > 0 /\ \A k \in 1..i : w[k] \in Int
      BY <1>6
    <2>2. QED
      BY <2>1, SumStep
  <1> DEFINE T == {i \in Nat : i \in 1..n => IsLevel(f[i]) /\ LevelNet(f[i], P, Q) = SumTo(w, i)}
  <1>8. 0 \in T
    OBVIOUS
  <1>9. ASSUME NEW i \in 1..n, i - 1 \in T PROVE i \in T
    <2>1. CASE i = 1
      <3>1. f[i] = ls[i] /\ SumTo(w, i) = w[i] /\ i \in Nat
        BY <1>4, <1>6, <1>7, <2>1
      <3>2. QED
        BY <1>6, <3>1
    <2>2. CASE i # 1
      <3>1. i - 1 \in 1..n /\ i \in Nat /\ i - 1 \in Nat
        BY <2>2
      <3>2. PICK a : a = f[i - 1]
        OBVIOUS
      <3>3. PICK b : b = ls[i]
        OBVIOUS
      <3>4. IsLevel(a) /\ IsLevel(b) /\ LevelNet(a, P, Q) = SumTo(w, i - 1)
        BY <1>9, <3>1, <3>2, <3>3
      <3>5. IsLevel(a \o b) /\ LevelNet(a \o b, P, Q) = LevelNet(a, P, Q) + LevelNet(b, P, Q)
        BY <3>4, LevelConcat
      <3>6. f[i] = a \o b
        BY <1>4, <2>2, <3>2, <3>3
      <3>7. SumTo(w, i) = LevelNet(a, P, Q) + LevelNet(b, P, Q)
        BY <1>6, <1>7, <3>3, <3>4
      <3>8. QED
        BY <3>1, <3>5, <3>6, <3>7
    <2>3. QED
      BY <2>1, <2>2
  <1> HIDE DEF T
  <1>10. n \in T
    BY <1>8, <1>9, NatByStep
  <1>11. n \in 1..n
    OBVIOUS
  <1>12. QED
    BY <1>4, <1>5, <1>10, <1>11 DEF T

\* What a level is combined into holds what the level says, and no more records.
LEMMA CombinedNet ==
  ASSUME mode \in Modes, NEW l, IsLevel(l), LevelNet(l, Stored, {}) < SizeModulus,
         NEW c \in Combined(l), NEW r
  PROVE  /\ IsLevel(c)
         /\ LevelNet(c, Pro(r), Con(r)) = LevelNet(l, Pro(r), Con(r))
         /\ LevelNet(c, Stored, {}) <= LevelNet(l, Stored, {})
  <1>1. CASE \A k \in DOMAIN l : Empty(l[k])
    <2>1. c = <<>>
      BY <1>1 DEF Combined
    <2>2. ASSUME NEW P, NEW Q PROVE LevelNet(l, P, Q) = 0
      <3>1. PICK n \in Nat : n = Len(l)
        BY LevelTerms
      <3>2. DOMAIN l = 1..n
        BY <3>1, LevelTerms
      <3>3. PICK nets : nets = [k \in 1..n |-> Net(Content(l[k]), P, Q)]
        OBVIOUS
      <3>4. \A k \in 1..n : nets[k] = 0
        BY <1>1, <3>2, <3>3, NetEmpty DEF Empty
      <3>5. SumTo(nets, n) = 0
        BY <3>4, SumZeros
      <3>6. QED
        BY <3>1, <3>3, <3>5 DEF LevelNet
    <2>3. QED
      BY <2>1, <2>2, NoLevel
  <1>2. CASE ~\A k \in DOMAIN l : Empty(l[k])
    <2>1. PICK t \in FromShards(l) : c = <<t>>
      BY <1>2 DEF Combined
    <2>2. /\ IsGood(t)
          /\ Net(Content(t), Pro(r), Con(r)) = LevelNet(l, Pro(r), Con(r))
          /\ Len(Content(t)) <= LevelNet(l, Stored, {})
      BY ShardFromShards
    <2>3. IsLevel(c) /\ LevelNet(c, Pro(r), Con(r)) = Net(Content(t), Pro(r), Con(r))
          /\ LevelNet(c, Stored, {}) = Net(Content(t), Stored, {})
      BY <2>1, <2>2, LevelOne
    <2>4. Net(Content(t), Stored, {}) = Len(Content(t))
      <3>1. Content(t) \in Seq(Stored)
        BY <2>2, GoodContent
      <3>2. QED
        BY <3>1, LenIsNet
    <2>5. QED
      BY <2>2, <2>3, <2>4
  <1>3. QED
    BY <1>1, <1>2

\* The shards gathered from the levels hold what the levels say.
LEMMA GatheredNet ==
  ASSUME mode \in Modes, AreLevels(levels), AllNet(levels, Stored, {}) < SizeModulus,
         NEW inputs \in LevelShards, NEW r
  PROVE  /\ IsLevel(inputs)
         /\ LevelNet(inputs, Pro(r), Con(r)) = AllNet(levels, Pro(r), Con(r))
         /\ LevelNet(inputs, Stored, {}) <= AllNet(levels, Stored, {})
  <1>1. PICK n \in Nat : n = MaxLevels /\ n # 0
    BY AllTerms
  <1>2. PICK parts : parts = [i \in 1..n |-> Combined(levels[n + 1 - i])]
    OBVIOUS
  <1>3. PICK f \in OneOfEach(parts) : inputs = FlattenSeq(f)
    BY <1>1, <1>2 DEF LevelShards
  <1>4. PICK V : f \in [1..n -> V]
        /\ \A i \in 1..n : f[i] \in Combined(levels[n + 1 - i])
    BY <1>2, <1>3 DEF OneOfEach
  <1>5. \A i \in 1..n : IsLevel(levels[i])
    BY <1>1 DEF AreLevels
  <1>6. SizeModulus \in Nat
    BY SizeAssumption
  <1>7. PICK sizes : sizes = [i \in 1..n |-> LevelNet(levels[i], Stored, {})]
    OBVIOUS
  <1>8. \A i \in 1..n : sizes[i] = LevelNet(levels[i], Stored, {}) /\ sizes[i] \in Nat
    BY <1>5, <1>7, LevelSize
  <1>9. SumTo(sizes, n) = AllNet(levels, Stored, {}) /\ SumTo(sizes, n) \in Nat
        /\ \A i \in 1..n : sizes[i] <= SumTo(sizes, n)
    <2>1. SumTo(sizes, n) \in Nat /\ \A i \in 1..n : sizes[i] <= SumTo(sizes, n)
      BY <1>8, SumOfNats
    <2>2. QED
      BY <1>1, <1>7, <2>1 DEF AllNet
  <1>10. ASSUME NEW i \in 1..n
         PROVE  /\ IsLevel(f[i])
                /\ LevelNet(f[i], Pro(r), Con(r)) = LevelNet(levels[n + 1 - i], Pro(r), Con(r))
                /\ LevelNet(f[i], Stored, {}) <= sizes[n + 1 - i]
    <2>1. PICK k \in 1..n : k = n + 1 - i
      OBVIOUS
    <2>2. PICK l : l = levels[k]
      OBVIOUS
    <2>3. PICK c \in Combined(l) : c = f[i]
      BY <1>4, <2>1, <2>2
    <2>4. IsLevel(l) /\ LevelNet(l, Stored, {}) < SizeModulus
      BY <1>5, <1>6, <1>8, <1>9, <2>2
    <2>5. /\ IsLevel(c)
          /\ LevelNet(c, Pro(r), Con(r)) = LevelNet(l, Pro(r), Con(r))
          /\ LevelNet(c, Stored, {}) <= LevelNet(l, Stored, {})
      BY <2>4, CombinedNet
    <2>6. QED
      BY <1>8, <2>1, <2>2, <2>3, <2>5
  <1>11. IsLevel(inputs)
         /\ \A P, Q : LevelNet(inputs, P, Q) = SumTo([i \in 1..n |-> LevelNet(f[i], P, Q)], n)
    <2>1. \A i \in 1..n : IsLevel(f[i])
      BY <1>10
    <2>2. ASSUME NEW P, NEW Q
          PROVE  IsLevel(FlattenSeq(f))
                 /\ LevelNet(FlattenSeq(f), P, Q) = SumTo([i \in 1..n |-> LevelNet(f[i], P, Q)], n)
      <3>1. n # 0
        BY <1>1
      <3>2. PICK ls \in [1..n -> V] : ls = f
        BY <1>4
      <3>3. \A i \in 1..n : IsLevel(ls[i])
        BY <2>1, <3>2
      <3>4. IsLevel(FlattenSeq(ls))
            /\ LevelNet(FlattenSeq(ls), P, Q) = SumTo([i \in 1..n |-> LevelNet(ls[i], P, Q)], n)
        BY ONLY <3>1, <3>3, LevelsFlatten, n \in Nat, ls \in [1..n -> V]
      <3>5. QED
        BY <3>2, <3>4
    <2>3. QED
      BY <1>3, <2>2
  <1>12. LevelNet(inputs, Pro(r), Con(r)) = AllNet(levels, Pro(r), Con(r))
    <2>1. PICK s : s = [i \in 1..n |-> LevelNet(levels[i], Pro(r), Con(r))]
      OBVIOUS
    <2>2. PICK t : t = [i \in 1..n |-> LevelNet(f[i], Pro(r), Con(r))]
      OBVIOUS
    <2>3. \A i \in 1..n : s[i] \in Int
      BY <1>5, <2>1, LevelTerms
    <2>4. \A i \in 1..n : t[i] = s[n + 1 - i]
      <3>1. ASSUME NEW i \in 1..n PROVE t[i] = s[n + 1 - i]
        <4>1. PICK k \in 1..n : k = n + 1 - i
          OBVIOUS
        <4>2. QED
          BY <1>10, <2>1, <2>2, <4>1
      <3>2. QED
        BY <3>1
    <2>5. SumTo(t, n) = SumTo(s, n)
      BY <2>3, <2>4, SumReversed
    <2>6. QED
      BY <1>1, <1>11, <2>1, <2>2, <2>5 DEF AllNet
  <1>13. LevelNet(inputs, Stored, {}) <= AllNet(levels, Stored, {})
    <2>1. PICK rev : rev = [i \in 1..n |-> sizes[n + 1 - i]]
      OBVIOUS
    <2>2. PICK t : t = [i \in 1..n |-> LevelNet(f[i], Stored, {})]
      OBVIOUS
    <2>3. ASSUME NEW i \in 1..n
          PROVE rev[i] = sizes[n + 1 - i] /\ rev[i] \in Int /\ t[i] \in Int /\ t[i] <= rev[i]
      <3>1. PICK k \in 1..n : k = n + 1 - i
        OBVIOUS
      <3>2. rev[i] = sizes[k] /\ sizes[k] \in Nat
        BY <1>8, <2>1, <3>1
      <3>3. t[i] = LevelNet(f[i], Stored, {}) /\ t[i] \in Int
        BY <1>10, <2>2, LevelTerms
      <3>4. QED
        BY <1>10, <3>1, <3>2, <3>3
    <2>4. SumTo(t, n) <= SumTo(rev, n)
      BY <2>3, SumMonotone
    <2>5. SumTo(rev, n) = SumTo(sizes, n)
      BY <1>8, <2>3, SumReversed
    <2>6. QED
      BY <1>9, <1>11, <2>2, <2>4, <2>5
  <1>14. QED
    BY <1>11, <1>12, <1>13

\* With the shard of the buffer, they hold what the index says.
LEMMA StaticInputsNet ==
  ASSUME IndexInv, NEW inputs \in StaticInputs, NEW r
  PROVE  /\ IsLevel(inputs)
         /\ LevelNet(inputs, Pro(r), Con(r)) = Net(Entries, Pro(r), Con(r))
         /\ LevelNet(inputs, Stored, {}) < SizeModulus
  <1>1. /\ View \in Seq(Stored) /\ Len(View) = ViewCount /\ ViewCount \in Nat
        /\ AllNet(levels, Stored, {}) \in Nat
        /\ ViewCount + AllNet(levels, Stored, {}) < SizeModulus
    BY InvEntries
  <1>2. Net(Entries, Pro(r), Con(r)) = Net(View, Pro(r), Con(r)) + AllNet(levels, Pro(r), Con(r))
    BY InvEntries DEF EntriesSplit
  <1>3. SizeModulus \in Nat /\ mode \in Modes /\ AreLevels(levels) /\ IsRing /\ m_tscnt \in Int
    BY SizeAssumption DEF IndexInv, RingInv, IsRing
  <1>4. AllNet(levels, Stored, {}) < SizeModulus /\ Len(View) < SizeModulus
    BY <1>1, <1>3
  <1>5. AllNet(levels, Pro(r), Con(r)) \in Int
    BY <1>3, AllTerms
  <1>6. CASE ViewCount = 0
    <2>1. inputs \in LevelShards
      BY <1>6 DEF StaticInputs
    <2>2. /\ IsLevel(inputs)
          /\ LevelNet(inputs, Pro(r), Con(r)) = AllNet(levels, Pro(r), Con(r))
          /\ LevelNet(inputs, Stored, {}) <= AllNet(levels, Stored, {})
      BY <1>3, <1>4, <2>1, GatheredNet
    <2>3. Net(View, Pro(r), Con(r)) = 0
      BY <1>1, <1>6, EmptySeq, NetEmpty
    <2>4. LevelNet(inputs, Stored, {}) \in Nat
      BY <2>2, LevelSize
    <2>5. QED
      BY <1>1, <1>2, <1>3, <1>4, <1>5, <2>2, <2>3, <2>4
  <1>7. CASE ViewCount # 0
    <2>1. PICK l \in LevelShards, s \in FromView : inputs = Append(l, s)
      BY <1>7 DEF StaticInputs
    <2>2. /\ IsLevel(l)
          /\ LevelNet(l, Pro(r), Con(r)) = AllNet(levels, Pro(r), Con(r))
          /\ LevelNet(l, Stored, {}) <= AllNet(levels, Stored, {})
      BY <1>3, <1>4, GatheredNet
    <2>3. /\ IsGood(s)
          /\ Net(Content(s), Pro(r), Con(r)) = Net(View, Pro(r), Con(r))
          /\ Len(Content(s)) <= Len(View)
      BY <1>1, <1>3, <1>4, ShardFromView
    <2>4. /\ IsLevel(inputs)
          /\ LevelNet(inputs, Pro(r), Con(r)) = LevelNet(l, Pro(r), Con(r)) + Net(Content(s), Pro(r), Con(r))
          /\ LevelNet(inputs, Stored, {}) = LevelNet(l, Stored, {}) + Net(Content(s), Stored, {})
      BY <2>1, <2>2, <2>3, LevelAppend
    <2>5. Content(s) \in Seq(Stored)
      BY <2>3, GoodContent
    <2>6. Net(Content(s), Stored, {}) = Len(Content(s)) /\ Len(Content(s)) \in Nat
          /\ LevelNet(l, Stored, {}) \in Nat
      BY <2>2, <2>5, LenIsNet, LevelSize, LenProperties
    <2>7. LevelNet(inputs, Stored, {}) < SizeModulus
      BY <1>1, <1>3, <2>2, <2>3, <2>4, <2>6
    <2>8. Net(View, Pro(r), Con(r)) \in Int
      BY <1>1, NetInt
    <2>9. QED
      BY <1>2, <1>5, <2>2, <2>3, <2>4, <2>7, <2>8
  <1>8. QED
    BY <1>6, <1>7

\* create_static_structure returns a shard that says of every record what the index
\* says: its copies less its tombstones, although levels are combined one by one
\* before they meet the newer levels and the buffer.
THEOREM StaticIsExact == Spec => []StaticExact
  <1>1. ASSUME IndexInv PROVE StaticExact
    <2>1. ASSUME NEW s \in CreateStaticStructure, NEW r
          PROVE  Balance(Content(s), r) = Balance(Entries, r)
      <3>1. PICK inputs \in StaticInputs : s \in FromShards(inputs)
        BY DEF CreateStaticStructure
      <3>2. /\ IsLevel(inputs)
            /\ LevelNet(inputs, Pro(r), Con(r)) = Net(Entries, Pro(r), Con(r))
            /\ LevelNet(inputs, Stored, {}) < SizeModulus
        BY <1>1, StaticInputsNet
      <3>3. mode \in Modes
        BY <1>1 DEF IndexInv
      <3>4. IsGood(s) /\ Net(Content(s), Pro(r), Con(r)) = LevelNet(inputs, Pro(r), Con(r))
        BY <3>1, <3>2, <3>3, ShardFromShards
      <3>5. Stored \in SUBSET AnyWrapped
        BY <3>3, StoredFacts
      <3>6. Entries \in Seq(Stored)
        BY <1>1, InvEntries DEF EntriesSplit
      <3>7. Content(s) \in Seq(Stored)
        BY <3>4, GoodContent
      <3>8. QED
        BY <3>2, <3>4, <3>5, <3>6, <3>7, BalanceIsNet
    <2>2. QED
      BY <2>1 DEF StaticExact
  <1>2. QED
    BY <1>1, IndexInvariant, PTL

-----------------------------------------------------------------------------
(***************************************************************************)
(* erase with tags.                                                        *)
(***************************************************************************)

\* delete_record looks at the slots of the view, in its order, when there are any.
LEMMA DeleteOrderIsView ==
  ASSUME IsRing, ViewCount > 0
  PROVE  DeleteOrder = [i \in 1..ViewCount |-> ToIdx(i - 1)]
  <1>1. PICK c \in Nat : c = Cap
    BY RingFacts
  <1>2. PICK v \in Nat : v = ViewCount /\ v < c /\ v > 0
    BY <1>1, RingFacts
  <1>3. PICK a \in 0..(c - 1) : a = Start
    BY <1>1, RingFacts
  <1>4. PICK z : z = Stop
    OBVIOUS
  <1>5. z = IF a + v < c THEN a + v ELSE a + v - c
    BY <1>1, <1>2, <1>3, <1>4, RingFacts
  <1>6. ASSUME NEW j \in 0..(v - 1) PROVE ToIdx(j) = IF a + j >= c THEN j - (c - a) ELSE a + j
    BY <1>1, <1>3 DEF ToIdx
  <1>7. CASE a + v < c
    <2>1. z = a + v /\ a < z
      BY <1>2, <1>5, <1>7
    <2>2. DeleteOrder = [i \in 1..(z - a) |-> a + i - 1]
      BY <1>3, <1>4, <2>1 DEF DeleteOrder
    <2>3. z - a = v
      BY <2>1
    <2>4. ASSUME NEW i \in 1..v PROVE ToIdx(i - 1) = a + i - 1
      <3>1. PICK j \in 0..(v - 1) : j = i - 1
        OBVIOUS
      <3>2. QED
        BY <1>6, <1>7, <3>1
    <2>5. QED
      BY <1>2, <2>2, <2>3, <2>4
  <1>8. CASE ~(a + v < c)
    <2>1. z = a + v - c /\ ~(a < z) /\ z \in Nat
      BY <1>2, <1>5, <1>8
    <2>2. PICK s : s = [i \in 1..(c - a) |-> a + i - 1]
      OBVIOUS
    <2>3. PICK t : t = [i \in 1..z |-> i - 1]
      OBVIOUS
    <2>4. DeleteOrder = s \o t
      BY <1>1, <1>3, <1>4, <2>1, <2>2, <2>3 DEF DeleteOrder
    <2>5. PICK k \in Nat : k = c - a
      OBVIOUS
    <2>6. s \in Seq(Int) /\ t \in Seq(Int) /\ Len(s) = k /\ Len(t) = z
      BY <2>1, <2>2, <2>3, <2>5
    <2>7. k + z = v
      BY <2>1, <2>5
    <2>8. DOMAIN (s \o t) = 1..v
          /\ \A i \in 1..v : (s \o t)[i] = IF i <= k THEN s[i] ELSE t[i - k]
      <3>1. s \o t \in Seq(Int) /\ Len(s \o t) = k + z
            /\ \A i \in 1..(k + z) : (s \o t)[i] = IF i <= k THEN s[i] ELSE t[i - k]
        BY <2>6, ConcatProperties
      <3>2. DOMAIN (s \o t) = 1..Len(s \o t)
        BY <3>1, LenProperties
      <3>3. QED
        BY <2>7, <3>1, <3>2
    <2>9. ASSUME NEW i \in 1..v PROVE (s \o t)[i] = ToIdx(i - 1)
      <3>1. PICK j \in 0..(v - 1) : j = i - 1
        OBVIOUS
      <3>2. CASE i <= k
        <4>1. s[i] = a + i - 1
          BY <2>2, <2>5, <3>2
        <4>2. ToIdx(j) = a + j
          BY <1>6, <2>5, <3>1, <3>2
        <4>3. QED
          BY <2>8, <3>1, <3>2, <4>1, <4>2
      <3>3. CASE ~(i <= k)
        <4>1. i - k \in 1..z
          BY <2>1, <2>5, <2>7, <3>3
        <4>2. t[i - k] = i - k - 1
          BY <2>3, <4>1
        <4>3. ToIdx(j) = j - (c - a)
          BY <1>6, <2>5, <3>1, <3>3
        <4>4. i - k - 1 = j - (c - a)
          BY <2>5, <3>1
        <4>5. QED
          BY <2>8, <3>1, <3>3, <4>2, <4>3, <4>4
      <3>4. QED
        BY <3>2, <3>3
    <2>10. PICK f : f = s \o t
      OBVIOUS
    <2>11. f = [i \in 1..v |-> f[i]]
      <3>1. f \in Seq(Int)
        BY <2>6, <2>10, ConcatProperties
      <3>2. QED
        BY <2>8, <2>10, <3>1, LenProperties
    <2>12. \A i \in 1..v : f[i] = ToIdx(i - 1)
      BY <2>9, <2>10
    <2>13. QED
      BY <1>2, <2>4, <2>10, <2>11, <2>12
  <1>9. QED
    BY <1>7, <1>8

\* The entries of a record.
Of(r) == {w \in AnyWrapped : w.rec = r}

\* Entries are counted by their net.
LEMMA EntriesOfNet ==
  ASSUME NEW S \in SUBSET AnyWrapped, NEW s \in Seq(S), NEW r
  PROVE  Entries_of(s, r) = Net(s, Of(r), {}) /\ Entries_of(s, r) \in Nat
  <1>1. \A i \in DOMAIN s : s[i] \in AnyWrapped
    BY LenProperties, ElementOfSeq
  <1>2. {i \in DOMAIN s : s[i].rec = r} = {i \in DOMAIN s : s[i] \in Of(r)}
    BY <1>1 DEF Of
  <1>3. Entries_of(s, r) = Hits(s, Of(r))
    BY <1>2 DEF Entries_of, Hits
  <1>4. Hits(s, {}) = 0
    <2>1. {i \in DOMAIN s : s[i] \in {}} = {}
      OBVIOUS
    <2>2. QED
      BY <2>1, FS_EmptySet DEF Hits
  <1>5. Hits(s, Of(r)) \in Nat
    BY HitsFinite
  <1>6. QED
    BY <1>3, <1>4, <1>5 DEF Net

\* A record without an entry occurs nowhere.
LEMMA NoEntry ==
  ASSUME NEW S \in SUBSET AnyWrapped, NEW s \in Seq(S), NEW r, Entries_of(s, r) = 0
  PROVE  \A i \in 1..Len(s) : s[i].rec # r
  <1>1. DOMAIN s = 1..Len(s) /\ Len(s) \in Nat
    BY LenProperties
  <1>2. IsFiniteSet({i \in DOMAIN s : s[i].rec = r})
    <2>1. IsFiniteSet(DOMAIN s)
      BY <1>1, FS_Interval
    <2>2. QED
      BY <2>1, FS_Subset
  <1>3. {i \in DOMAIN s : s[i].rec = r} = {}
    BY <1>2, FS_EmptySet DEF Entries_of
  <1>4. QED
    BY <1>1, <1>3

\* A record with one entry has one place.
LEMMA OneEntry ==
  ASSUME NEW S \in SUBSET AnyWrapped, NEW s \in Seq(S), NEW r, Entries_of(s, r) = 1
  PROVE  \A i, j \in 1..Len(s) : s[i].rec = r /\ s[j].rec = r => i = j
  <1>1. DOMAIN s = 1..Len(s) /\ Len(s) \in Nat
    BY LenProperties
  <1>2. PICK T : T = {i \in DOMAIN s : s[i].rec = r}
    OBVIOUS
  <1>3. IsFiniteSet(T)
    <2>1. IsFiniteSet(DOMAIN s)
      BY <1>1, FS_Interval
    <2>2. QED
      BY <1>2, <2>1, FS_Subset
  <1>4. Cardinality(T) = 1
    BY <1>2 DEF Entries_of
  <1>5. \E x : T = {x}
    BY <1>3, <1>4, FS_Singleton
  <1>6. QED
    BY <1>1, <1>2, <1>5

\* A record whose entries are all in the view is in no shard.
LEMMA OnlyInView ==
  ASSUME IndexInv, LevelsAreSeq, NEW r, Entries_of(Entries, r) = Entries_of(View, r)
  PROVE  \A i \in DOMAIN Shards : \A j \in 1..Len(Content(Shards[i])) : Content(Shards[i])[j].rec # r
  <1>1. PICK S \in SUBSET AnyWrapped : S = Stored
    BY StoredFacts DEF IndexInv
  <1>2. View \in Seq(S) /\ Entries \in Seq(S)
        /\ \A P, Q : Net(Entries, P, Q) = Net(View, P, Q) + AllNet(levels, P, Q)
    BY <1>1, InvEntries DEF EntriesSplit
  <1>3. PICK n \in Nat : n = MaxLevels
    BY AllTerms DEF IndexInv
  <1>4. \A i \in 1..n : IsLevel(levels[i])
    BY <1>3 DEF IndexInv, AreLevels
  <1>5. PICK E : E = {}
    OBVIOUS
  <1>6. PICK R : R = Of(r)
    OBVIOUS
  <1>7. AllNet(levels, R, E) = 0
    <2>1. Net(Entries, R, E) = Net(View, R, E) + AllNet(levels, R, E)
      BY <1>2
    <2>2. Net(Entries, R, E) = Net(View, R, E)
      BY <1>2, <1>5, <1>6, EntriesOfNet
    <2>3. Net(View, R, E) \in Int
      BY <1>2, NetInt
    <2>4. AllNet(levels, R, E) \in Int
      BY AllTerms DEF IndexInv
    <2>5. QED
      BY <2>1, <2>2, <2>3, <2>4
  <1>8. ASSUME NEW l, IsLevel(l)
        PROVE  /\ LevelNet(l, R, E) \in Nat
               /\ \A k \in 1..Len(l) : Content(l[k]) \in Seq(S)
                                      /\ Net(Content(l[k]), R, E) <= LevelNet(l, R, E)
    <2>1. PICK m \in Nat : m = Len(l)
      BY <1>8, LevelTerms
    <2>2. PICK nets : nets = [k \in 1..m |-> Net(Content(l[k]), R, E)]
      OBVIOUS
    <2>3. \A k \in 1..m : Content(l[k]) \in Seq(S)
      BY <1>1, <1>8, <2>1, LevelTerms
    <2>4. \A k \in 1..m : Net(Content(l[k]), R, E) \in Nat
      BY <1>5, <1>6, <2>3, EntriesOfNet
    <2>5. \A k \in 1..m : nets[k] \in Nat /\ nets[k] = Net(Content(l[k]), R, E)
      BY <2>2, <2>4
    <2>6. SumTo(nets, m) \in Nat /\ \A k \in 1..m : nets[k] <= SumTo(nets, m)
      BY <2>5, SumOfNats
    <2>7. LevelNet(l, R, E) = SumTo(nets, m)
      BY <2>1, <2>2 DEF LevelNet
    <2>8. QED
      BY <2>1, <2>3, <2>5, <2>6, <2>7
  <1>9. PICK sums : sums = [i \in 1..n |-> LevelNet(levels[i], R, E)]
    OBVIOUS
  <1>10. \A i \in 1..n : sums[i] \in Nat /\ sums[i] = LevelNet(levels[i], R, E)
    BY <1>4, <1>8, <1>9
  <1>11. \A i \in 1..n : sums[i] <= SumTo(sums, n)
    BY <1>10, SumOfNats
  <1>12. SumTo(sums, n) = 0
    BY <1>3, <1>7, <1>9 DEF AllNet
  <1>13. ASSUME NEW i \in 1..n, NEW k \in 1..Len(levels[i])
         PROVE  \A j \in 1..Len(Content(levels[i][k])) : Content(levels[i][k])[j].rec # r
    <2>1. PICK l : l = levels[i]
      OBVIOUS
    <2>2. PICK c : c = Content(l[k])
      OBVIOUS
    <2>3. LevelNet(l, R, E) = 0
      BY <1>10, <1>11, <1>12, <2>1
    <2>4. c \in Seq(S) /\ Net(c, R, E) <= 0
      BY <1>4, <1>8, <2>1, <2>2, <2>3
    <2>5. Entries_of(c, r) = 0
      <3>1. Entries_of(c, r) = Net(c, R, E) /\ Entries_of(c, r) \in Nat
        BY <1>5, <1>6, <2>4, EntriesOfNet
      <3>2. QED
        BY <2>4, <3>1
    <2>6. \A j \in 1..Len(c) : c[j].rec # r
      BY <2>4, <2>5, NoEntry
    <2>7. QED
      BY <2>1, <2>2, <2>6
  <1> DEFINE Free(x) == \A j \in 1..Len(Content(x)) : Content(x)[j].rec # r
  <1>14. PICK U : U = {x \in UNION {ToSet(levels[i]) : i \in 1..n} : Free(x)}
    OBVIOUS
  <1>15. ASSUME NEW i \in 1..n, NEW k \in 1..Len(levels[i]) PROVE levels[i][k] \in U
    <2>1. Free(levels[i][k])
      BY <1>13
    <2> HIDE DEF Free
    <2>2. DOMAIN levels[i] = 1..Len(levels[i])
      BY <1>4, LevelTerms
    <2>3. levels[i][k] \in ToSet(levels[i])
      BY <2>2 DEF ToSet
    <2>4. QED
      BY <1>14, <2>1, <2>3
  <1> HIDE DEF Free
  <1>16. Shards \in Seq(U)
    BY <1>3, <1>15, ShardsOfLevels DEF IndexInv
  <1>17. \A i \in DOMAIN Shards : Shards[i] \in U
    BY <1>16, LenProperties, ElementOfSeq
  <1>18. \A i \in DOMAIN Shards : Free(Shards[i])
    BY <1>14, <1>17
  <1>19. QED
    BY <1>18 DEF Free

\* A record that is in no shard is found in none.
LEMMA FoundInNone ==
  ASSUME IndexInv, LevelsAreSeq, External, NEW r \in Universe,
         Entries_of(Entries, r) = Entries_of(View, r)
  PROVE  FoundIn(r) = {}
  <1>1. r \in (Nat \ {0}) \X Nat
    <2>1. mode \in Modes
      BY DEF IndexInv
    <2>2. QED
      BY <2>1, IndexAssumption DEF Universe
  <1>2. PICK S \in SUBSET AnyWrapped : S = Stored
    BY StoredFacts DEF IndexInv
  <1>3. ASSUME NEW i \in DOMAIN Shards, ~Empty(Shards[i])
        PROVE  ExternalPointLookup(Shards[i], r) = <<>>
    <2>1. PICK s : s = Shards[i]
      OBVIOUS
    <2>2. IsGood(s)
      BY <2>1, ShardsAreGood DEF IndexInv
    <2>3. IsShard(S, s) /\ Content(s) = Records(s)
      BY <1>2, <2>2 DEF IsGood, Content
    <2>4. Records(s) # <<>>
      BY <1>3, <2>1, <2>3 DEF Empty
    <2>5. \A j \in 1..Len(Records(s)) : Records(s)[j].rec # r
      BY <2>1, <2>3, OnlyInView
    <2>6. ExternalPointLookup(s, r) = <<>>
      BY <1>1, <2>3, <2>4, <2>5, LookupSound
    <2>7. QED
      BY <2>1, <2>6
  <1>4. QED
    BY <1>3 DEF FoundIn

\* delete_record marks the slot of the only entry that the view has for a record.
LEMMA MarksTheEntry ==
  ASSUME IndexInv, NEW r, Entries_of(View, r) = 1, NEW i \in 1..ViewCount, View[i].rec = r
  PROVE  Marked(r)[ToIdx(i - 1)].del
  <1>1. IsRing /\ m_data \in [0..(Cap - 1) -> Stored \cup {ZeroRecord}]
    BY DEF IndexInv, RingInv
  <1>2. PICK S \in SUBSET AnyWrapped : S = Stored
    BY StoredFacts DEF IndexInv
  <1>3. View \in Seq(S) /\ Len(View) = ViewCount /\ ViewCount \in Nat
    BY <1>2, InvEntries
  <1>4. ViewCount > 0
    BY <1>3
  <1>5. \A j \in 1..ViewCount : View[j] = m_data[ToIdx(j - 1)]
    BY DEF View
  <1>6. DOMAIN DeleteOrder = 1..ViewCount /\ \A j \in 1..ViewCount : DeleteOrder[j] = ToIdx(j - 1)
    BY <1>1, <1>4, DeleteOrderIsView
  <1>7. PICK hits : hits = {j \in DOMAIN DeleteOrder : m_data[DeleteOrder[j]].rec = r}
    OBVIOUS
  <1>8. i \in hits
    BY <1>5, <1>6, <1>7
  <1>9. Min(hits) \in hits
    BY <1>7, <1>8, OrderLeast
  <1>10. Min(hits) = i
    <2>1. PICK j \in 1..ViewCount : j = Min(hits)
      BY <1>6, <1>7, <1>9
    <2>2. View[j].rec = r
      BY <1>5, <1>6, <1>7, <1>9, <2>1
    <2>3. \A x, y \in 1..Len(View) : View[x].rec = r /\ View[y].rec = r => x = y
      BY <1>3, OneEntry
    <2>4. QED
      BY <1>3, <2>1, <2>2, <2>3
  <1>11. PICK x : x = ToIdx(i - 1)
    BY Zenon
  <1>12. Marked(r) = [m_data EXCEPT ![x].del = TRUE]
    BY <1>6, <1>7, <1>8, <1>10, <1>11 DEF Marked
  <1>13. x \in 0..(Cap - 1) /\ m_data[x] \in AnyWrapped
    <2>1. i - 1 \in 0..(ViewCount - 1)
      BY <1>3
    <2>2. x \in 0..(Cap - 1)
      BY <1>1, <1>11, <2>1, RingFacts
    <2>3. View[i] \in S
      BY <1>3, ElementOfSeq
    <2>4. QED
      BY <1>2, <1>5, <1>11, <2>2, <2>3
  <1>14. PICK w \in AnyWrapped : w = m_data[x]
    BY <1>13
  <1>15. [w EXCEPT !.del = TRUE].del
    BY DEF AnyWrapped
  <1>16. Marked(r)[x] = [w EXCEPT !.del = TRUE]
    BY <1>1, <1>12, <1>13, <1>14
  <1>17. QED
    BY <1>11, <1>15, <1>16

\* A tagged erase reaches a record whose only entry is in the buffer, for every history,
\* page size and fanout: the search trees of the external shards lead to no record that
\* is not there, so erase does not stop at one of them, and delete_record meets the slot,
\* also in a view that wraps around the end of the ring.
THEOREM TaggedEraseReaches == Spec => []TaggedEraseEffective
  <1>1. ASSUME IndexInv, LevelsAreSeq PROVE TaggedEraseEffective
    <2>1. SUFFICES ASSUME mode.policy = "TAGGING", NEW r \in Universe,
                          Entries_of(Entries, r) = 1, Entries_of(View, r) = 1
                   PROVE  /\ FoundIn(r) = {}
                          /\ \A i \in 1..ViewCount : View[i].rec = r => Marked(r)[ToIdx(i - 1)].del
      BY DEF TaggedEraseEffective
    <2>2. External
      <3>1. mode \in Modes
        BY <1>1 DEF IndexInv
      <3>2. QED
        BY <2>1, <3>1, ModeFacts
    <2>3. FoundIn(r) = {}
      BY <1>1, <2>1, <2>2, FoundInNone
    <2>4. QED
      BY <1>1, <2>1, <2>3, MarksTheEntry
  <1>2. Init => LevelsAreSeq
    BY DEF Init, LevelsAreSeq
  <1>3. LevelsAreSeq /\ [Next]_vars => LevelsAreSeq'
    BY LevelsSeqStep
  <1>4. QED
    BY <1>1, <1>2, <1>3, IndexInvariant, PTL DEF Spec
=============================================================================
