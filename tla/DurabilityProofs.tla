-------------------------- MODULE DurabilityProofs --------------------------
(***************************************************************************)
(* What the log and the checkpoint keep of the records, for any number of  *)
(* clients, records, restarts and any watermarks: with SerialScheduler     *)
(* nothing acknowledged is lost, and the process has to end in the middle  *)
(* of a flush for a record to be stored twice.                             *)
(***************************************************************************)
EXTENDS Durability, InductionFacts, TLAPS

Entries == Records \cup {FLUSH_B, FLUSH_C}

-----------------------------------------------------------------------------
(***************************************************************************)
(* What the proofs say of a sequence of entries or of slots.               *)
(***************************************************************************)

Has(s, e) == \E i \in DOMAIN s : s[i] = e

\* e is at a place after the first n.
Beyond(s, n, e) == \E i \in DOMAIN s : i > n /\ s[i] = e

\* r is behind a FLUSH_B, where flush_complete finds it.
Behind(s, r) == \E i, j \in DOMAIN s : i < j /\ s[i] = FLUSH_B /\ s[j] = r

\* No record is at two places.
Once(s) == \A i, j \in DOMAIN s : s[i] \in Records /\ s[i] = s[j] => i = j

\* The table that Inserts fills, entry by entry.
Collects(f, s) ==
  f = [i \in 0..Len(s) |->
         IF i = 0 THEN <<>>
         ELSE IF s[i] \in Records THEN Append(f[i - 1], s[i]) ELSE f[i - 1]]

-----------------------------------------------------------------------------
(***************************************************************************)
(* Facts about the operators.                                              *)
(***************************************************************************)

\* A sequence after an Append.
LEMMA AppendFacts ==
  ASSUME NEW S, NEW s \in Seq(S), NEW e \in S
  PROVE  /\ Append(s, e) \in Seq(S)
         /\ Len(Append(s, e)) = Len(s) + 1 /\ Len(s) \in Nat
         /\ DOMAIN s = 1..Len(s)
         /\ DOMAIN Append(s, e) = 1..(Len(s) + 1)
         /\ \A i \in 1..Len(s) : Append(s, e)[i] = s[i]
         /\ Append(s, e)[Len(s) + 1] = e
  <1>1. PICK t : t = Append(s, e)
    OBVIOUS
  <1>2. t \in Seq(S) /\ Len(t) = Len(s) + 1 /\ Len(s) \in Nat
    BY <1>1, LenProperties
  <1>3. DOMAIN s = 1..Len(s) /\ DOMAIN t = 1..(Len(s) + 1)
    BY <1>2, LenProperties
  <1>4. \A i \in 1..Len(s) : t[i] = s[i]
    BY <1>1, <1>2
  <1>5. t[Len(s) + 1] = e
    BY <1>1, <1>2
  <1>6. QED
    BY <1>1, <1>2, <1>3, <1>4, <1>5

\* The table exists for every log.
LEMMA CollectsExists == ASSUME NEW S PROVE \A s \in Seq(S) : \E f : Collects(f, s)
  <1> DEFINE T == {s \in Seq(S) : \E f : Collects(f, s)}
  <1>1. <<>> \in T
    <2>1. PICK f : f = [i \in 0..0 |-> <<>>]
      OBVIOUS
    <2>2. Len(<<>>) = 0 /\ <<>> \in Seq(S)
      BY EmptySeq
    <2>3. Collects(f, <<>>)
      BY <2>1, <2>2 DEF Collects
    <2>4. QED
      BY <2>2, <2>3
  <1>2. ASSUME NEW s \in Seq(S), NEW e \in S, s \in T PROVE Append(s, e) \in T
    <2>1. PICK t : t = Append(s, e)
      OBVIOUS
    <2>2. t \in Seq(S) /\ Len(t) = Len(s) + 1 /\ Len(s) \in Nat /\ \A i \in 1..Len(s) : t[i] = s[i]
      BY <2>1, AppendFacts
    <2>3. PICK f : Collects(f, s)
      BY <1>2
    <2>4. PICK g : g = [i \in 0..Len(t) |->
                          IF i = 0 THEN <<>>
                          ELSE IF t[i] \in Records THEN Append(f[i - 1], t[i]) ELSE f[i - 1]]
      OBVIOUS
    <2>5. ASSUME NEW i \in 0..Len(s) PROVE g[i] = f[i]
      <3>1. g[i] = IF i = 0 THEN <<>>
                   ELSE IF t[i] \in Records THEN Append(f[i - 1], t[i]) ELSE f[i - 1]
        BY <2>2, <2>4
      <3>2. f[i] = IF i = 0 THEN <<>>
                   ELSE IF s[i] \in Records THEN Append(f[i - 1], s[i]) ELSE f[i - 1]
        BY <2>2, <2>3 DEF Collects
      <3>3. i # 0 => t[i] = s[i]
        BY <2>2
      <3>4. QED
        BY <3>1, <3>2, <3>3
    <2>6. ASSUME NEW i \in 0..Len(t)
          PROVE  g[i] = IF i = 0 THEN <<>>
                        ELSE IF t[i] \in Records THEN Append(g[i - 1], t[i]) ELSE g[i - 1]
      <3>1. g[i] = IF i = 0 THEN <<>>
                   ELSE IF t[i] \in Records THEN Append(f[i - 1], t[i]) ELSE f[i - 1]
        BY <2>4
      <3>2. i # 0 => i - 1 \in 0..Len(s)
        BY <2>2
      <3>3. i # 0 => g[i - 1] = f[i - 1]
        BY <2>5, <3>2
      <3>4. QED
        BY <3>1, <3>3
    <2>7. g = [i \in 0..Len(t) |-> g[i]]
      BY <2>4
    <2>8. Collects(g, t)
      BY <2>6, <2>7 DEF Collects
    <2>9. QED
      BY <2>1, <2>2, <2>8
  <1> HIDE DEF T
  <1>3. \A s \in Seq(S) : s \in T
    BY <1>1, <1>2, SeqByAppend
  <1>4. QED
    BY <1>3 DEF T

\* Two tables agree on what the two logs have in common.
LEMMA CollectsAgree ==
  ASSUME NEW S, NEW s \in Seq(S), NEW t \in Seq(S), NEW f, NEW g,
         Collects(f, s), Collects(g, t),
         NEW n \in Nat, n <= Len(s), n <= Len(t), \A i \in 1..n : s[i] = t[i]
  PROVE  \A i \in 0..n : f[i] = g[i]
  <1> DEFINE bad == {i \in Nat : i <= n /\ f[i] # g[i]}
  <1> SUFFICES ASSUME bad # {} PROVE FALSE
    OBVIOUS
  <1>1. Len(s) \in Nat /\ Len(t) \in Nat
    BY LenProperties
  <1>2. PICK m \in bad : \A y \in bad : m <= y
    BY LeastNat
  <1>3. /\ f[m] = IF m = 0 THEN <<>>
                  ELSE IF s[m] \in Records THEN Append(f[m - 1], s[m]) ELSE f[m - 1]
        /\ g[m] = IF m = 0 THEN <<>>
                  ELSE IF t[m] \in Records THEN Append(g[m - 1], t[m]) ELSE g[m - 1]
    <2>1. m \in 0..Len(s) /\ m \in 0..Len(t)
      BY <1>1, <1>2
    <2> HIDE DEF bad
    <2>2. f[m] = IF m = 0 THEN <<>>
                 ELSE IF s[m] \in Records THEN Append(f[m - 1], s[m]) ELSE f[m - 1]
      BY <2>1 DEF Collects
    <2>3. g[m] = IF m = 0 THEN <<>>
                 ELSE IF t[m] \in Records THEN Append(g[m - 1], t[m]) ELSE g[m - 1]
      BY <2>1 DEF Collects
    <2>4. QED
      BY <2>2, <2>3
  <1>4. m # 0
    BY <1>2, <1>3
  <1>5. m - 1 \in Nat /\ m - 1 \notin bad /\ m \in 1..n
    <2>1. m \in Nat /\ m <= n
      BY <1>2
    <2> HIDE DEF bad
    <2>2. QED
      BY <2>1, <1>2, <1>4
  <1>6. f[m - 1] = g[m - 1] /\ s[m] = t[m]
    BY <1>2, <1>5
  <1>7. QED
    BY <1>2, <1>3, <1>6

\* Inserts is the last value of any such table.
LEMMA InsertsTable ==
  ASSUME NEW S, NEW s \in Seq(S), NEW f, Collects(f, s)
  PROVE  Inserts(s) = f[Len(s)]
  <1>1. PICK g : g = CHOOSE h : Collects(h, s)
    OBVIOUS
  <1>2. Collects(g, s)
    BY <1>1
  <1>3. Inserts(s) = g[Len(s)]
    BY <1>1 DEF Inserts, Collects
  <1>4. Len(s) \in Nat
    BY LenProperties
  <1>5. \A i \in 0..Len(s) : g[i] = f[i]
    BY <1>2, <1>4, CollectsAgree
  <1>6. QED
    BY <1>3, <1>4, <1>5

\* Inserts of the empty log, and of a log with one more entry.
LEMMA InsertsEmpty == Inserts(<<>>) = <<>>
  <1>1. <<>> \in Seq(Records) /\ Len(<<>>) = 0
    BY EmptySeq
  <1>2. PICK f : Collects(f, <<>>)
    BY <1>1, CollectsExists
  <1>3. f[0] = <<>>
    BY <1>1, <1>2 DEF Collects
  <1>4. QED
    BY <1>1, <1>2, <1>3, InsertsTable

\* An entry is collected when it is a record, and a marker is passed over.
LEMMA InsertsAppend ==
  ASSUME NEW S, NEW s \in Seq(S), NEW e \in S
  PROVE  Inserts(Append(s, e)) = IF e \in Records THEN Append(Inserts(s), e) ELSE Inserts(s)
  <1>1. PICK t : t = Append(s, e)
    OBVIOUS
  <1>2. /\ t \in Seq(S) /\ Len(t) = Len(s) + 1 /\ Len(s) \in Nat
        /\ \A i \in 1..Len(s) : t[i] = s[i]
        /\ t[Len(t)] = e
    BY <1>1, AppendFacts
  <1>3. PICK f : Collects(f, s)
    BY CollectsExists
  <1>4. PICK g : Collects(g, t)
    BY <1>2, CollectsExists
  <1>5. \A i \in 0..Len(s) : f[i] = g[i]
    BY <1>2, <1>3, <1>4, CollectsAgree
  <1>6. f[Len(s)] = g[Len(s)]
    BY <1>2, <1>5
  <1>7. Len(t) \in 0..Len(t) /\ Len(t) # 0 /\ Len(t) - 1 = Len(s)
    BY <1>2
  <1>8. g[Len(t)] = IF t[Len(t)] \in Records THEN Append(g[Len(t) - 1], t[Len(t)]) ELSE g[Len(t) - 1]
    BY <1>4, <1>7 DEF Collects
  <1>9. Inserts(s) = f[Len(s)] /\ Inserts(t) = g[Len(t)]
    BY <1>2, <1>3, <1>4, InsertsTable
  <1>10. QED
    BY <1>1, <1>2, <1>6, <1>7, <1>8, <1>9

\* Nothing is in the empty sequence.
LEMMA EmptyFacts ==
  /\ \A e : ~Has(<<>>, e) /\ ~Behind(<<>>, e)
  /\ \A n, e : ~Beyond(<<>>, n, e)
  /\ Once(<<>>)
  BY DEF Has, Behind, Beyond, Once

\* What an Append adds.
LEMMA HasAppend ==
  ASSUME NEW S, NEW s \in Seq(S), NEW e \in S, NEW x
  PROVE  Has(Append(s, e), x) <=> Has(s, x) \/ x = e
  <1>1. PICK t : t = Append(s, e)
    OBVIOUS
  <1>2. /\ Len(s) \in Nat /\ DOMAIN s = 1..Len(s) /\ DOMAIN t = 1..(Len(s) + 1)
        /\ \A i \in 1..Len(s) : t[i] = s[i]
        /\ t[Len(s) + 1] = e
    BY <1>1, AppendFacts
  <1>3. Has(t, x) <=> Has(s, x) \/ x = e
    BY <1>2 DEF Has
  <1>4. QED
    BY <1>1, <1>3

\* The places after the first n, with one entry more.
LEMMA BeyondAppend ==
  ASSUME NEW S, NEW s \in Seq(S), NEW e \in S, NEW x, NEW n \in Nat
  PROVE  /\ Beyond(s, n, x) => Beyond(Append(s, e), n, x)
         /\ Beyond(Append(s, e), n, x) /\ x # e => Beyond(s, n, x)
  <1>1. PICK t : t = Append(s, e)
    OBVIOUS
  <1>2. /\ Len(s) \in Nat /\ DOMAIN s = 1..Len(s) /\ DOMAIN t = 1..(Len(s) + 1)
        /\ \A i \in 1..Len(s) : t[i] = s[i]
        /\ t[Len(s) + 1] = e
    BY <1>1, AppendFacts
  <1>3. Beyond(s, n, x) => Beyond(t, n, x)
    BY <1>2 DEF Beyond
  <1>4. Beyond(t, n, x) /\ x # e => Beyond(s, n, x)
    BY <1>2 DEF Beyond
  <1>5. QED
    BY <1>1, <1>3, <1>4

\* Only an entry that is logged after FLUSH_B gets behind it.
LEMMA BehindAppend ==
  ASSUME NEW S, NEW s \in Seq(S), NEW e \in S, NEW x
  PROVE  Behind(Append(s, e), x) <=> Behind(s, x) \/ (x = e /\ Has(s, FLUSH_B))
  <1>1. PICK t : t = Append(s, e)
    OBVIOUS
  <1>2. /\ Len(s) \in Nat /\ DOMAIN s = 1..Len(s) /\ DOMAIN t = 1..(Len(s) + 1)
        /\ \A i \in 1..Len(s) : t[i] = s[i]
        /\ t[Len(s) + 1] = e
    BY <1>1, AppendFacts
  <1>3. ASSUME Behind(t, x) PROVE Behind(s, x) \/ (x = e /\ Has(s, FLUSH_B))
    <2>1. PICK i, j \in DOMAIN t : i < j /\ t[i] = FLUSH_B /\ t[j] = x
      BY <1>3 DEF Behind
    <2>2. i \in DOMAIN s /\ s[i] = FLUSH_B
      BY <1>2, <2>1
    <2>3. CASE j = Len(s) + 1
      BY <1>2, <2>1, <2>2, <2>3 DEF Has
    <2>4. CASE j # Len(s) + 1
      <3>1. j \in DOMAIN s /\ s[j] = x
        BY <1>2, <2>1, <2>4
      <3>2. QED
        BY <2>1, <2>2, <3>1 DEF Behind
    <2>5. QED
      BY <2>3, <2>4
  <1>4. ASSUME Behind(s, x) PROVE Behind(t, x)
    <2>1. PICK i, j \in DOMAIN s : i < j /\ s[i] = FLUSH_B /\ s[j] = x
      BY <1>4 DEF Behind
    <2>2. i \in DOMAIN t /\ j \in DOMAIN t /\ t[i] = FLUSH_B /\ t[j] = x
      BY <1>2, <2>1
    <2>3. QED
      BY <2>1, <2>2 DEF Behind
  <1>5. ASSUME x = e, Has(s, FLUSH_B) PROVE Behind(t, x)
    <2>1. PICK i \in DOMAIN s : s[i] = FLUSH_B
      BY <1>5 DEF Has
    <2>2. /\ i \in DOMAIN t /\ Len(s) + 1 \in DOMAIN t /\ i < Len(s) + 1
          /\ t[i] = FLUSH_B /\ t[Len(s) + 1] = x
      BY <1>2, <1>5, <2>1
    <2>3. QED
      BY <2>2 DEF Behind
  <1>6. QED
    BY <1>1, <1>3, <1>4, <1>5

\* A new record at the end is still at one place.
LEMMA OnceAppend ==
  ASSUME NEW S, NEW s \in Seq(S), NEW e \in S, Once(s), e \in Records => ~Has(s, e)
  PROVE  Once(Append(s, e))
  <1>1. PICK t : t = Append(s, e)
    OBVIOUS
  <1>2. /\ Len(s) \in Nat /\ DOMAIN s = 1..Len(s) /\ DOMAIN t = 1..(Len(s) + 1)
        /\ \A i \in 1..Len(s) : t[i] = s[i]
        /\ t[Len(s) + 1] = e
    BY <1>1, AppendFacts
  <1>3. ASSUME NEW i \in DOMAIN t, NEW j \in DOMAIN t, t[i] \in Records, t[i] = t[j]
        PROVE  i = j
    <2>1. CASE i \in DOMAIN s /\ j \in DOMAIN s
      BY <1>2, <1>3, <2>1 DEF Once
    <2>2. CASE i \notin DOMAIN s
      BY <1>2, <1>3, <2>2 DEF Has
    <2>3. CASE j \notin DOMAIN s
      BY <1>2, <1>3, <2>3 DEF Has
    <2>4. QED
      BY <2>1, <2>2, <2>3
  <1>4. Once(t)
    BY <1>3 DEF Once
  <1>5. QED
    BY <1>1, <1>4

\* Inserts keeps the records of the log and nothing else, none twice that was not.
LEMMA InsertsFacts ==
  ASSUME NEW S
  PROVE  \A s \in Seq(S) :
           /\ Inserts(s) \in Seq(Records)
           /\ \A r \in Records : Has(Inserts(s), r) <=> Has(s, r)
           /\ Once(s) => Once(Inserts(s))
  <1> DEFINE T == {s \in Seq(S) :
                     /\ Inserts(s) \in Seq(Records)
                     /\ \A r \in Records : Has(Inserts(s), r) <=> Has(s, r)
                     /\ Once(s) => Once(Inserts(s))}
  <1>1. <<>> \in T
    <2>1. <<>> \in Seq(S) /\ <<>> \in Seq(Records)
      BY EmptySeq
    <2>2. QED
      BY <2>1, InsertsEmpty
  <1>2. ASSUME NEW s \in Seq(S), NEW e \in S, s \in T PROVE Append(s, e) \in T
    <2>1. PICK t : t = Append(s, e)
      OBVIOUS
    <2>2. t \in Seq(S) /\ \A x : Has(t, x) <=> Has(s, x) \/ x = e
      BY <2>1, AppendFacts, HasAppend
    <2>3. Once(t) => Once(s) /\ (e \in Records => ~Has(s, e))
      <3>1. /\ Len(s) \in Nat /\ DOMAIN s = 1..Len(s) /\ DOMAIN t = 1..(Len(s) + 1)
            /\ \A i \in 1..Len(s) : t[i] = s[i]
            /\ t[Len(s) + 1] = e
        BY <2>1, AppendFacts
      <3>2. Once(t) => Once(s)
        BY <3>1 DEF Once
      <3>3. Once(t) /\ e \in Records => ~Has(s, e)
        <4> SUFFICES ASSUME Once(t), e \in Records, NEW i \in DOMAIN s, s[i] = e PROVE FALSE
          BY DEF Has
        <4>1. i \in DOMAIN t /\ Len(s) + 1 \in DOMAIN t /\ t[i] = e /\ i # Len(s) + 1
          BY <3>1
        <4>2. QED
          BY <3>1, <4>1 DEF Once
      <3>4. QED
        BY <3>2, <3>3
    <2>4. /\ Inserts(s) \in Seq(Records)
          /\ \A r \in Records : Has(Inserts(s), r) <=> Has(s, r)
          /\ Once(s) => Once(Inserts(s))
      BY <1>2
    <2>5. PICK p : p = Inserts(s)
      OBVIOUS
    <2>6. Inserts(t) = IF e \in Records THEN Append(p, e) ELSE p
      BY <2>1, <2>5, InsertsAppend
    <2>7. CASE e \in Records
      <3>1. PICK q : q = Append(p, e)
        OBVIOUS
      <3>2. q \in Seq(Records) /\ \A x : Has(q, x) <=> Has(p, x) \/ x = e
        BY <2>4, <2>5, <2>7, <3>1, AppendFacts, HasAppend
      <3>3. Once(t) => Once(q)
        <4> SUFFICES ASSUME Once(t) PROVE Once(q)
          OBVIOUS
        <4>1. Once(p) /\ ~Has(p, e)
          BY <2>3, <2>4, <2>5, <2>7
        <4>2. QED
          BY <4>1, <2>4, <2>5, <2>7, <3>1, OnceAppend
      <3>4. \A r \in Records : Has(q, r) <=> Has(t, r)
        BY <3>2, <2>2, <2>4, <2>5
      <3>5. Inserts(t) = q
        BY <2>6, <2>7, <3>1
      <3>6. t \in T
        BY <3>2, <3>3, <3>4, <3>5, <2>2
      <3>7. QED
        BY <3>6, <2>1
    <2>8. CASE e \notin Records
      <3>1. Inserts(t) = p
        BY <2>6, <2>8
      <3>2. \A r \in Records : Has(p, r) <=> Has(t, r)
        BY <2>2, <2>4, <2>5, <2>8
      <3>3. Once(t) => Once(p)
        BY <2>3, <2>4, <2>5
      <3>4. t \in T
        BY <3>1, <3>2, <3>3, <2>2, <2>4, <2>5
      <3>5. QED
        BY <3>4, <2>1
    <2>9. QED
      BY <2>7, <2>8
  <1>3. \A s \in Seq(S) : s \in T
    <2> HIDE DEF T
    <2>1. QED
      BY <1>1, <1>2, SeqByAppend
  <1>4. QED
    BY <1>3

\* A piece of a sequence.
LEMMA SubSeqFacts ==
  ASSUME NEW S, NEW s \in Seq(S), NEW m \in Nat \ {0}, NEW n \in Nat, n <= Len(s)
  PROVE  /\ SubSeq(s, m, n) \in Seq(S)
         /\ Len(SubSeq(s, m, n)) = IF m <= n THEN n - m + 1 ELSE 0
         /\ \A x : Has(SubSeq(s, m, n), x) <=> \E i \in m..n : s[i] = x
         /\ Once(s) => Once(SubSeq(s, m, n))
  <1>1. Len(s) \in Nat /\ DOMAIN s = 1..Len(s)
    BY LenProperties
  <1>2. \A i \in m..n : i \in 1..Len(s)
    BY <1>1
  <1>3. \A i \in m..n : s[i] \in S
    BY <1>2, ElementOfSeq
  <1>4. PICK q : q = SubSeq(s, m, n)
    OBVIOUS
  <1>5. /\ q \in Seq(S)
        /\ Len(q) = IF m <= n THEN n - m + 1 ELSE 0
        /\ \A i \in 1..(n - m + 1) : q[i] = s[m + i - 1]
    BY <1>3, <1>4, SubSeqProperties
  <1>6. DOMAIN q = 1..(n - m + 1)
    <2>1. DOMAIN q = 1..Len(q)
      BY <1>5, LenProperties
    <2>2. QED
      BY <2>1, <1>5
  <1>7. ASSUME NEW x PROVE Has(q, x) <=> \E i \in m..n : s[i] = x
    <2>1. ASSUME Has(q, x) PROVE \E i \in m..n : s[i] = x
      <3>1. PICK i \in 1..(n - m + 1) : q[i] = x
        BY <2>1, <1>6 DEF Has
      <3>2. m + i - 1 \in m..n /\ s[m + i - 1] = x
        BY <3>1, <1>5
      <3>3. QED
        BY <3>2
    <2>2. ASSUME NEW i \in m..n, s[i] = x PROVE Has(q, x)
      <3>1. i - m + 1 \in 1..(n - m + 1) /\ m + (i - m + 1) - 1 = i
        OBVIOUS
      <3>2. q[i - m + 1] = s[i]
        BY <3>1, <1>5
      <3>3. QED
        BY <2>2, <3>1, <3>2, <1>6 DEF Has
    <2>3. QED
      BY <2>1, <2>2
  <1>8. Once(s) => Once(q)
    <2> SUFFICES ASSUME Once(s), NEW i \in 1..(n - m + 1), NEW j \in 1..(n - m + 1),
                        q[i] \in Records, q[i] = q[j]
                 PROVE  i = j
      BY <1>6 DEF Once
    <2>1. m + i - 1 \in m..n /\ m + j - 1 \in m..n
      OBVIOUS
    <2>2. m + i - 1 \in DOMAIN s /\ m + j - 1 \in DOMAIN s
      BY <2>1, <1>1, <1>2
    <2>3. s[m + i - 1] \in Records /\ s[m + i - 1] = s[m + j - 1]
      BY <1>5
    <2>4. m + i - 1 = m + j - 1
      BY <2>2, <2>3 DEF Once
    <2>5. QED
      BY <2>4
  <1>9. QED
    BY <1>4, <1>5, <1>7, <1>8

\* flush_complete keeps the records that are behind a FLUSH_B.
LEMMA RemainingFacts ==
  ASSUME NEW s \in Seq(Entries), Has(s, FLUSH_B)
  PROVE  /\ Remaining(s) \in Seq(Records)
         /\ \A r \in Records : Has(Remaining(s), r) <=> Behind(s, r)
         /\ Once(s) => Once(Remaining(s))
  <1> DEFINE First(i) == s[i] = FLUSH_B /\ \A j \in 1..(i - 1) : s[j] # FLUSH_B
  <1>1. Len(s) \in Nat /\ DOMAIN s = 1..Len(s)
    BY LenProperties
  <1>2. \E i \in DOMAIN s : First(i)
    <2> DEFINE T == {i \in DOMAIN s : s[i] = FLUSH_B}
    <2>1. T \subseteq Nat /\ T # {}
      BY <1>1 DEF Has
    <2>2. PICK i \in T : \A y \in T : i <= y
      BY <2>1, LeastNat
    <2>3. i \in DOMAIN s /\ s[i] = FLUSH_B
      BY <2>2
    <2>4. ASSUME NEW j \in 1..(i - 1), s[j] = FLUSH_B PROVE FALSE
      <3>1. j \in T
        BY <2>3, <2>4, <1>1
      <3>2. i <= j
        BY <3>1, <2>2
      <3>3. QED
        BY <3>2, <2>3, <1>1
    <2>5. QED
      BY <2>3, <2>4
  <1>3. PICK first : first = CHOOSE i \in DOMAIN s : First(i)
    OBVIOUS
  <1>4. first \in DOMAIN s /\ First(first)
    BY <1>2, <1>3
  <1>5. Remaining(s) = Inserts(SubSeq(s, first, Len(s)))
    BY <1>3 DEF Remaining
  <1>6. PICK q : q = SubSeq(s, first, Len(s))
    OBVIOUS
  <1>7. /\ q \in Seq(Entries)
        /\ \A x : Has(q, x) <=> \E i \in first..Len(s) : s[i] = x
        /\ Once(s) => Once(q)
    <2>1. first \in Nat \ {0}
      BY <1>1, <1>4
    <2> HIDE DEF First
    <2>2. QED
      BY <2>1, <1>1, <1>6, SubSeqFacts
  <1>8. /\ Inserts(q) \in Seq(Records)
        /\ \A r \in Records : Has(Inserts(q), r) <=> Has(q, r)
        /\ Once(q) => Once(Inserts(q))
    BY <1>7, InsertsFacts
  <1>9. ASSUME NEW r \in Records PROVE Has(q, r) <=> Behind(s, r)
    <2>0. r # FLUSH_B
      BY DurabilityAssumption DEF Records, FLUSH_B
    <2>1. ASSUME NEW i \in first..Len(s), s[i] = r PROVE Behind(s, r)
      <3>1. i # first
        BY <2>0, <2>1, <1>4
      <3>2. first < i /\ i \in DOMAIN s
        BY <3>1, <1>1, <1>4
      <3>3. QED
        BY <3>2, <2>1, <1>4 DEF Behind
    <2>2. ASSUME Behind(s, r) PROVE \E i \in first..Len(s) : s[i] = r
      <3>1. PICK i, j \in DOMAIN s : i < j /\ s[i] = FLUSH_B /\ s[j] = r
        BY <2>2 DEF Behind
      <3>2. first <= i
        BY <3>1, <1>1, <1>4
      <3>3. j \in first..Len(s)
        BY <3>1, <3>2, <1>1, <1>4
      <3>4. QED
        BY <3>1, <3>3
    <2>3. QED
      BY <2>1, <2>2, <1>7
  <1>10. QED
    BY <1>5, <1>6, <1>7, <1>8, <1>9

\* A replay brings back records of the log, none twice that was not, and all of them
\* if the buffer has room.
LEMMA ReplayFacts ==
  ASSUME NEW s \in Seq(Entries)
  PROVE  /\ Replay(s) \in Seq(Records)
         /\ Len(Replay(s)) <= HWM
         /\ \A r \in Records : Has(Replay(s), r) => Has(s, r)
         /\ Once(s) => Once(Replay(s))
         /\ Len(Inserts(s)) <= HWM => Replay(s) = Inserts(s)
  <1>1. PICK p : p = Inserts(s)
    OBVIOUS
  <1>2. /\ p \in Seq(Records)
        /\ \A r \in Records : Has(p, r) <=> Has(s, r)
        /\ Once(s) => Once(p)
    BY <1>1, InsertsFacts
  <1>3. Len(p) \in Nat /\ DOMAIN p = 1..Len(p) /\ HWM \in Nat \ {0}
    BY <1>2, LenProperties, DurabilityAssumption
  <1>4. Replay(s) = IF Len(p) > HWM THEN SubSeq(p, 1, HWM) ELSE p
    BY <1>1 DEF Replay
  <1>5. CASE Len(p) > HWM
    <2>1. PICK q : q = SubSeq(p, 1, HWM)
      OBVIOUS
    <2>2. /\ q \in Seq(Records) /\ Len(q) = HWM
          /\ \A x : Has(q, x) <=> \E i \in 1..HWM : p[i] = x
          /\ Once(p) => Once(q)
      BY <2>1, <1>2, <1>3, <1>5, SubSeqFacts
    <2>3. \A i \in 1..HWM : i \in DOMAIN p
      BY <1>3, <1>5
    <2>4. \A x : Has(q, x) => Has(p, x)
      BY <2>2, <2>3 DEF Has
    <2>5. Replay(s) = q /\ ~(Len(p) <= HWM) /\ Len(q) <= HWM
      BY <1>3, <1>4, <1>5, <2>1, <2>2
    <2>6. QED
      BY <2>2, <2>4, <2>5, <1>1, <1>2
  <1>6. CASE ~(Len(p) > HWM)
    BY <1>1, <1>2, <1>3, <1>4, <1>6
  <1>7. QED
    BY <1>5, <1>6

\* How often a record is in a sequence that has no record twice.
LEMMA OccurrencesFacts ==
  ASSUME NEW S, NEW s \in Seq(S), NEW r \in Records
  PROVE  /\ Occurrences(s, r) \in Nat
         /\ Has(s, r) <=> Occurrences(s, r) > 0
         /\ Once(s) => Occurrences(s, r) <= 1
  <1>1. PICK P : P = {i \in DOMAIN s : s[i] = r}
    OBVIOUS
  <1>2. IsFiniteSet(P)
    <2>1. Len(s) \in Nat /\ DOMAIN s = 1..Len(s)
      BY LenProperties
    <2>2. IsFiniteSet(1..Len(s))
      BY <2>1, FS_Interval
    <2>3. P \subseteq 1..Len(s)
      BY <1>1, <2>1
    <2>4. QED
      BY <2>2, <2>3, FS_Subset
  <1>3. Occurrences(s, r) = Cardinality(P) /\ Cardinality(P) \in Nat
    BY <1>1, <1>2, FS_CardinalityType DEF Occurrences
  <1>4. CASE ~Has(s, r)
    <2>1. P = {}
      BY <1>1, <1>4 DEF Has
    <2>2. Cardinality(P) = 0
      BY <2>1, FS_EmptySet
    <2>3. QED
      BY <1>3, <1>4, <2>2
  <1>5. CASE Has(s, r)
    <2>1. PICK i \in P : TRUE
      BY <1>1, <1>5 DEF Has
    <2>2. Cardinality(P) # 0
      BY <2>1, <1>2, FS_EmptySet
    <2>3. ASSUME Once(s) PROVE Cardinality(P) = 1
      <3>1. P = {i}
        BY <2>1, <2>3, <1>1 DEF Once
      <3>2. QED
        BY <3>1, FS_Singleton
    <2>4. QED
      BY <1>3, <1>5, <2>2, <2>3
  <1>6. QED
    BY <1>4, <1>5

\* The first of a sequence, and the others.
LEMMA TailFacts ==
  ASSUME NEW S, NEW s \in Seq(S), s # <<>>
  PROVE  /\ Head(s) \in S /\ Tail(s) \in Seq(S)
         /\ \A x : Has(s, x) <=> x = Head(s) \/ Has(Tail(s), x)
         /\ Once(s) => Once(Tail(s))
         /\ Once(s) /\ Head(s) \in Records => ~Has(Tail(s), Head(s))
  <1>1. PICK t, h : t = Tail(s) /\ h = Head(s)
    OBVIOUS
  <1>2. /\ h \in S /\ t \in Seq(S) /\ Len(t) = Len(s) - 1
        /\ \A i \in 1..Len(t) : t[i] = s[i + 1]
    BY <1>1, HeadTailProperties
  <1>3. /\ Len(s) \in Nat /\ DOMAIN s = 1..Len(s) /\ Len(t) \in Nat /\ DOMAIN t = 1..Len(t)
        /\ Len(s) # 0
    BY <1>2, LenProperties, EmptySeq
  <1>4. h = s[1] /\ 1 \in DOMAIN s
    BY <1>1, <1>3
  <1>5. ASSUME NEW x PROVE Has(s, x) <=> x = h \/ Has(t, x)
    <2>1. ASSUME NEW i \in DOMAIN s, s[i] = x, x # h PROVE Has(t, x)
      <3>1. i # 1
        BY <2>1, <1>4
      <3>2. i - 1 \in DOMAIN t /\ t[i - 1] = s[i]
        BY <3>1, <1>2, <1>3
      <3>3. QED
        BY <3>2, <2>1 DEF Has
    <2>2. ASSUME NEW i \in DOMAIN t, t[i] = x PROVE Has(s, x)
      <3>1. i + 1 \in DOMAIN s /\ s[i + 1] = x
        BY <2>2, <1>2, <1>3
      <3>2. QED
        BY <3>1 DEF Has
    <2>3. QED
      BY <2>1, <2>2, <1>4 DEF Has
  <1>6. ASSUME Once(s) PROVE Once(t)
    <2> SUFFICES ASSUME NEW i \in DOMAIN t, NEW j \in DOMAIN t, t[i] \in Records, t[i] = t[j]
                 PROVE  i = j
      BY DEF Once
    <2>1. i + 1 \in DOMAIN s /\ j + 1 \in DOMAIN s /\ s[i + 1] = t[i] /\ s[j + 1] = t[j]
      BY <1>2, <1>3
    <2>2. i + 1 = j + 1
      BY <2>1, <1>6 DEF Once
    <2>3. QED
      BY <2>2, <1>3
  <1>7. ASSUME Once(s), h \in Records PROVE ~Has(t, h)
    <2> SUFFICES ASSUME NEW i \in DOMAIN t, t[i] = h PROVE FALSE
      BY DEF Has
    <2>1. i + 1 \in DOMAIN s /\ s[i + 1] = h /\ i + 1 # 1
      BY <1>2, <1>3
    <2>2. QED
      BY <2>1, <1>4, <1>7 DEF Once
  <1>8. QED
    BY <1>1, <1>2, <1>5, <1>6, <1>7

\* The quotient and the remainder of an index.
LEMMA Division ==
  ASSUME NEW c \in Nat \ {0}, NEW i \in Nat
  PROVE  i \div c \in Nat /\ i % c \in Nat /\ i = c * (i \div c) + (i % c)
  <1>1. i \div c \in Nat
    OBVIOUS
  <1>2. i % c \in Nat
    OBVIOUS
  <1>3. i = c * (i \div c) + (i % c)
    OBVIOUS
  <1>4. QED
    BY <1>1, <1>2, <1>3

\* Two indices that share a slot are at least one lap of the ring apart.
LEMMA LapsApart ==
  ASSUME NEW c \in Nat \ {0}, NEW i \in Nat, NEW j \in Nat, i % c = j % c, j < i + c
  PROVE  j <= i
  <1>1. PICK q \in Nat, p \in Nat, r \in Nat : i = c * q + r /\ j = c * p + r
    <2>1. i \div c \in Nat /\ i % c \in Nat /\ i = c * (i \div c) + (i % c)
      BY Division
    <2>2. j \div c \in Nat /\ j = c * (j \div c) + (i % c)
      BY Division
    <2>3. QED
      BY <2>1, <2>2, Zenon
  <1>2. c * q \in Nat /\ c * p \in Nat
    BY <1>1
  <1>3. CASE p <= q
    <2>1. c * p <= c * q
      BY <1>1, <1>3
    <2>2. QED
      BY <1>1, <1>2, <2>1
  <1>4. CASE q + 1 <= p
    <2>1. c * (q + 1) <= c * p
      BY <1>1, <1>4
    <2>2. c * (q + 1) = c * q + c
      BY <1>1
    <2>3. c * q + c <= c * p
      BY <2>1, <2>2
    <2>4. QED
      BY <1>1, <1>2, <2>3
  <1>5. QED
    BY <1>1, <1>3, <1>4

\* A record is written to a slot that had none.
LEMMA StoreFacts ==
  ASSUME NEW s \in Seq(Records \cup {None}), NEW k \in DOMAIN s, s[k] = None, NEW r \in Records,
         NEW t, t = [s EXCEPT ![k] = r]
  PROVE  /\ t \in Seq(Records \cup {None}) /\ Len(t) = Len(s) /\ DOMAIN t = DOMAIN s
         /\ t[k] = r /\ \A i \in DOMAIN s : i # k => t[i] = s[i]
         /\ \A x \in Records : Has(t, x) <=> Has(s, x) \/ x = r
         /\ Once(s) /\ ~Has(s, r) => Once(t)
  <1>1. None \notin Records
    BY DurabilityAssumption DEF Records, None
  <1>2. Len(s) \in Nat /\ DOMAIN s = 1..Len(s)
    BY LenProperties
  <1>3. /\ t \in Seq(Records \cup {None}) /\ Len(t) = Len(s)
        /\ \A i \in 1..Len(s) : t[i] = IF i = k THEN r ELSE s[i]
    BY <1>2, ExceptSeq
  <1>4. DOMAIN t = DOMAIN s
    BY <1>2, <1>3, LenProperties
  <1>5. t[k] = r /\ \A i \in DOMAIN s : i # k => t[i] = s[i]
    BY <1>2, <1>3
  <1>6. \A x \in Records : Has(t, x) <=> Has(s, x) \/ x = r
    BY <1>1, <1>4, <1>5 DEF Has
  <1>7. Once(s) /\ ~Has(s, r) => Once(t)
    BY <1>1, <1>4, <1>5 DEF Has, Once
  <1>8. QED
    BY <1>3, <1>4, <1>5, <1>6, <1>7

-----------------------------------------------------------------------------
(***************************************************************************)
(* The inductive invariant, for either scheduler but for Copies.           *)
(***************************************************************************)

Pending(c) == pc[c] \in {"log", "store"}

\* Before the checkpoint has the records of the view, and from then on.
Unsaved == fpc \in {"idle", "view", "save"}

Saved == fpc \in {"begin", "advance", "complete", "truncate", "rewrite"}

\* How far the flush is with the head of the buffer and with the log.
FlushPlace ==
  /\ fpc \in {"save", "begin", "advance"} => m_head <= new_head
  /\ fpc \in {"complete", "truncate", "rewrite"} => m_head = new_head
  /\ fpc \in {"advance", "complete"} => Has(wal, FLUSH_B)
  /\ fpc = "rewrite" => remaining # <<>> /\ ~Has(wal, FLUSH_B)
  /\ fpc \notin {"truncate", "rewrite"} => remaining = <<>>

\* A record that has not come yet is nowhere.
Fresh ==
  \A r \in Records : r > nrec =>
    /\ ckpt[r] = 0 /\ ~Has(wal, r) /\ ~Has(appended, r) /\ ~Has(m_data, r) /\ ~Has(remaining, r)
    /\ \A c \in Clients : rec[c] # r

\* A client between its claim and its store has a record and a slot of its own.
OwnSlot ==
  \A c \in Clients : Pending(c) =>
    /\ rec[c] \in Records /\ idx[c] \in DOMAIN appended /\ appended[idx[c]] = None
    /\ \A d \in Clients : Pending(d) /\ c # d => rec[c] # rec[d] /\ idx[c] # idx[d]

\* Its record is not in the buffer nor in a shard, nor in the log before it is logged.
NotYetStored ==
  \A c \in Clients : Pending(c) =>
    /\ ~Has(appended, rec[c]) /\ ~Has(m_data, rec[c]) /\ ckpt[rec[c]] = 0
    /\ pc[c] = "log" => ~Has(wal, rec[c]) /\ ~Has(remaining, rec[c])

\* No record is twice in the buffer or twice in the log, one being rewritten included.
OnceEach ==
  /\ Once(appended) /\ Once(wal) /\ Once(remaining)
  /\ fpc = "rewrite" => \A r \in Records : Has(wal, r) => ~Has(remaining, r)

\* A copy for which there is no crash yet may be added to a shard or come back from the
\* log only where the record has one copy less.
CopiesOf(r) ==
  /\ ckpt[r] <= 1 + crashes
  /\ Behind(wal, r) => ckpt[r] <= crashes
  /\ Unsaved /\ Has(wal, r) => ckpt[r] <= crashes
  /\ Unsaved /\ Beyond(appended, m_head, r) => ckpt[r] <= crashes
  /\ Unsaved /\ Beyond(appended, m_head, r) /\ Behind(wal, r) => ckpt[r] + 1 <= crashes
  /\ Saved /\ Beyond(appended, new_head, r) => ckpt[r] <= crashes
  /\ Has(remaining, r) => ckpt[r] <= crashes
  /\ fpc = "rewrite" /\ Has(wal, r) => ckpt[r] <= crashes

Copies == \A r \in Records : CopiesOf(r)

\* A FLUSH_B that this flush did not write is from before a crash.
OldMarker == (Unsaved \/ fpc = "begin") /\ Has(wal, FLUSH_B) => crashes >= 1

Inv ==
  /\ TypeOK /\ FlushPlace /\ Fresh /\ OwnSlot /\ NotYetStored /\ OnceEach /\ OldMarker
  /\ serial => Copies

-----------------------------------------------------------------------------
(***************************************************************************)
(* Each step keeps it.                                                     *)
(***************************************************************************)

\* Inv holds when the program starts.
LEMMA InvInit == Init => Inv
  <1> SUFFICES ASSUME Init PROVE Inv
    OBVIOUS
  <1> USE DEF Init
  <1>1. <<>> \in Seq(Entries) /\ <<>> \in Seq(Records) /\ <<>> \in Seq(Records \cup {None}) /\ Len(<<>>) = 0
    BY EmptySeq
  <1>2. TypeOK
    BY <1>1, DurabilityAssumption DEF TypeOK, Entries, RecordCount, FlushSteps, None
  <1>3. FlushPlace /\ OldMarker /\ OnceEach
    BY EmptyFacts DEF FlushPlace, OldMarker, OnceEach
  <1>4. Fresh
    <2>1. \A r \in Records : r # None
      BY DurabilityAssumption DEF None, Records
    <2>2. \A r \in Records : ~Has(m_data, r)
      BY <2>1 DEF Has
    <2>3. QED
      BY <2>1, <2>2, EmptyFacts DEF Fresh
  <1>5. OwnSlot /\ NotYetStored
    BY DEF OwnSlot, NotYetStored, Pending
  <1>6. Copies
    BY EmptyFacts DEF Copies, CopiesOf, Saved, Unsaved
  <1>7. QED
    BY <1>2, <1>3, <1>4, <1>5, <1>6 DEF Inv

\* Inv and the beginning of insert: a record that is nowhere yet.
LEMMA InvInsert ==
  ASSUME Inv, NEW c \in Clients, Insert(c) PROVE Inv'
  <1>1. /\ UNCHANGED <<wal, ckpt, appended, m_data, m_head, rec, idx, new_head, remaining, nrec, crashes>>
        /\ UNCHANGED <<serial, acked>>
        /\ fpc' = fpc \/ (fpc = "idle" /\ fpc' = "view")
        /\ pc' = [pc EXCEPT ![c] = "claim"] /\ pc[c] = "idle"
    BY DEF Insert, disk, buffer, history
  <1>2. TypeOK'
    BY <1>1 DEF Inv, TypeOK, FlushSteps, RecordCount
  <1>3. \A d \in Clients : /\ Pending(d)' <=> Pending(d)
                           /\ pc'[d] = "log" <=> pc[d] = "log"
    BY <1>1 DEF Inv, TypeOK, Pending
  <1>4. FlushPlace' /\ OldMarker' /\ OnceEach'
    BY <1>1 DEF Inv, FlushPlace, OldMarker, OnceEach, Unsaved
  <1>5. Fresh'
    BY <1>1 DEF Inv, Fresh
  <1>6. OwnSlot' /\ NotYetStored'
    BY <1>1, <1>3 DEF Inv, OwnSlot, NotYetStored
  <1>7. (serial => Copies)'
    BY <1>1 DEF Inv, Copies, CopiesOf, Saved, Unsaved
  <1>8. QED
    BY <1>2, <1>4, <1>5, <1>6, <1>7 DEF Inv

\* Inv and append's claim of a slot: the slot is this client's alone.
LEMMA InvClaim ==
  ASSUME Inv, NEW c \in Clients, Claim(c) PROVE Inv'
  <1>0. /\ None \notin Records /\ None \in Records \cup {None}
        /\ appended \in Seq(Records \cup {None}) /\ HWM \in Nat
    BY DurabilityAssumption DEF Inv, TypeOK, Records, None
  <1>1. CASE Full
    <2>1. /\ UNCHANGED <<wal, ckpt, appended, m_data, m_head, rec, idx, new_head, remaining, nrec, crashes>>
          /\ UNCHANGED <<serial, acked, fpc>>
          /\ pc' = [pc EXCEPT ![c] = "idle"] /\ pc[c] = "claim"
      BY <1>1 DEF Claim, disk, flushVars
    <2>2. TypeOK'
      BY <2>1 DEF Inv, TypeOK, RecordCount
    <2>3. \A d \in Clients : /\ Pending(d)' <=> Pending(d)
                             /\ pc'[d] = "log" <=> pc[d] = "log"
      BY <2>1 DEF Inv, TypeOK, Pending
    <2>4. FlushPlace' /\ OldMarker' /\ OnceEach' /\ Fresh'
      BY <2>1 DEF Inv, FlushPlace, OldMarker, OnceEach, Unsaved, Fresh
    <2>5. OwnSlot' /\ NotYetStored'
      BY <2>1, <2>3 DEF Inv, OwnSlot, NotYetStored
    <2>6. (serial => Copies)'
      BY <2>1 DEF Inv, Copies, CopiesOf, Saved, Unsaved
    <2>7. QED
      BY <2>2, <2>4, <2>5, <2>6 DEF Inv
  <1>2. CASE ~Full
    <2>1. /\ UNCHANGED <<wal, ckpt, m_data, m_head, new_head, remaining, crashes, serial, acked, fpc>>
          /\ pc' = [pc EXCEPT ![c] = "log"] /\ pc[c] = "claim"
          /\ appended' = Append(appended, None)
          /\ nrec < MaxRecords /\ nrec' = nrec + 1
          /\ rec' = [rec EXCEPT ![c] = nrec'] /\ idx' = [idx EXCEPT ![c] = Len(appended')]
          /\ RecordCount < HWM
      BY <1>2, <1>0, LenProperties DEF Claim, Full, disk, flushVars, RecordCount, Inv, TypeOK
    <2>2. /\ appended' \in Seq(Records \cup {None}) /\ Len(appended') = Len(appended) + 1
          /\ Len(appended) \in Nat
          /\ DOMAIN appended = 1..Len(appended) /\ DOMAIN appended' = 1..(Len(appended) + 1)
          /\ \A i \in DOMAIN appended : appended'[i] = appended[i]
          /\ appended'[Len(appended) + 1] = None
      <3>1. PICK s : s = appended
        OBVIOUS
      <3>2. PICK t : t = Append(s, None)
        OBVIOUS
      <3>3. /\ t \in Seq(Records \cup {None}) /\ Len(t) = Len(s) + 1 /\ Len(s) \in Nat
            /\ DOMAIN s = 1..Len(s) /\ DOMAIN t = 1..(Len(s) + 1)
            /\ \A i \in 1..Len(s) : t[i] = s[i]
            /\ t[Len(s) + 1] = None
        BY <1>0, <3>1, <3>2, AppendFacts
      <3>4. appended' = t
        BY <2>1, <3>1, <3>2
      <3>5. QED
        BY <3>1, <3>3, <3>4
    <2>3. ASSUME NEW r \in Records
          PROVE  /\ Has(appended', r) <=> Has(appended, r)
                 /\ \A n \in Nat : Beyond(appended', n, r) <=> Beyond(appended, n, r)
      <3>1. PICK s : s = appended
        OBVIOUS
      <3>2. r # None
        BY <1>0
      <3>3. Has(Append(s, None), r) <=> Has(s, r)
        BY <1>0, <3>1, <3>2, HasAppend
      <3>4. \A n \in Nat : Beyond(Append(s, None), n, r) <=> Beyond(s, n, r)
        BY <1>0, <3>1, <3>2, BeyondAppend
      <3>5. QED
        BY <2>1, <3>1, <3>3, <3>4
    <2>4. nrec' \in Records /\ nrec' > nrec /\ nrec \in Nat
      BY <2>1, DurabilityAssumption DEF Inv, TypeOK, Records
    <2>5. TypeOK'
      <3>1. /\ pc' \in [Clients -> {"idle", "claim", "log", "store"}]
            /\ rec' \in [Clients -> Records \cup {None}]
            /\ nrec' \in 0..MaxRecords
        BY <2>1, <2>4, DurabilityAssumption DEF Inv, TypeOK
      <3>2. idx' \in [Clients -> 0..Len(appended')]
        BY <2>1, <2>2 DEF Inv, TypeOK
      <3>3. m_head' \in 0..Len(appended') /\ new_head' \in 0..Len(appended') /\ RecordCount' <= HWM
        <4>1. m_head \in 0..Len(appended) /\ new_head \in 0..Len(appended)
          BY DEF Inv, TypeOK
        <4>2. m_head' \in 0..Len(appended') /\ new_head' \in 0..Len(appended')
          BY <4>1, <2>1, <2>2
        <4>3. RecordCount' <= HWM
          BY <4>1, <2>1, <2>2, <1>0 DEF RecordCount
        <4>4. QED
          BY <4>2, <4>3
      <3>4. QED
        BY <2>1, <2>2, <3>1, <3>2, <3>3 DEF Inv, TypeOK
    <2>6. FlushPlace' /\ OldMarker'
      BY <2>1 DEF Inv, FlushPlace, OldMarker, Unsaved
    <2>7. OnceEach'
      <3>1. Once(appended')
        <4>1. PICK s : s = appended
          OBVIOUS
        <4>2. Once(Append(s, None))
          BY <1>0, <4>1, OnceAppend DEF Inv, OnceEach
        <4>3. QED
          BY <2>1, <4>1, <4>2
      <3>2. QED
        BY <2>1, <3>1 DEF Inv, OnceEach
    <2>8. Fresh'
      <3> SUFFICES ASSUME NEW r \in Records, r > nrec'
                   PROVE  /\ ckpt'[r] = 0 /\ ~Has(wal', r) /\ ~Has(appended', r) /\ ~Has(m_data', r) /\ ~Has(remaining', r)
                          /\ \A d \in Clients : rec'[d] # r
        BY DEF Fresh
      <3>1. r > nrec /\ r # nrec'
        BY <2>4 DEF Records
      <3>2. /\ ckpt[r] = 0 /\ ~Has(wal, r) /\ ~Has(appended, r) /\ ~Has(m_data, r) /\ ~Has(remaining, r)
            /\ \A d \in Clients : rec[d] # r
        BY <3>1 DEF Inv, Fresh
      <3>3. QED
        BY <2>1, <2>3, <3>1, <3>2 DEF Inv, TypeOK
    <2>9. /\ \A d \in Clients : d # c => /\ Pending(d)' <=> Pending(d) /\ pc'[d] = pc[d]
                                         /\ rec'[d] = rec[d] /\ idx'[d] = idx[d]
          /\ pc'[c] = "log" /\ rec'[c] = nrec' /\ idx'[c] = Len(appended) + 1
      BY <2>1, <2>2 DEF Inv, TypeOK, Pending
    <2>10. /\ ckpt[nrec'] = 0 /\ ~Has(wal, nrec') /\ ~Has(appended, nrec') /\ ~Has(m_data, nrec') /\ ~Has(remaining, nrec')
           /\ \A d \in Clients : rec[d] # nrec'
      BY <2>4 DEF Inv, Fresh
    <2>11. OwnSlot'
      <3> SUFFICES ASSUME NEW d \in Clients, Pending(d)'
                   PROVE  /\ rec'[d] \in Records /\ idx'[d] \in DOMAIN appended' /\ appended'[idx'[d]] = None
                          /\ \A e \in Clients : Pending(e)' /\ d # e => rec'[d] # rec'[e] /\ idx'[d] # idx'[e]
        BY DEF OwnSlot
      <3>1. \A e \in Clients : e # c /\ Pending(e)' =>
              /\ rec[e] \in Records /\ idx[e] \in DOMAIN appended /\ appended[idx[e]] = None
              /\ rec[e] # nrec' /\ idx[e] # Len(appended) + 1
        BY <2>2, <2>9, <2>10 DEF Inv, OwnSlot
      <3>2. CASE d = c
        <4>1. rec'[d] \in Records /\ idx'[d] \in DOMAIN appended' /\ appended'[idx'[d]] = None
          BY <2>2, <2>4, <2>9, <3>2
        <4>2. QED
          BY <4>1, <2>9, <3>1, <3>2
      <3>3. CASE d # c
        <4>1. rec'[d] \in Records /\ idx'[d] \in DOMAIN appended' /\ appended'[idx'[d]] = None
          BY <2>2, <2>9, <3>1, <3>3
        <4>2. ASSUME NEW e \in Clients, Pending(e)', d # e PROVE rec'[d] # rec'[e] /\ idx'[d] # idx'[e]
          <5>1. CASE e = c
            BY <2>9, <3>1, <3>3, <5>1
          <5>2. CASE e # c
            BY <2>9, <3>3, <4>2, <5>2 DEF Inv, OwnSlot
          <5>3. QED
            BY <5>1, <5>2
        <4>3. QED
          BY <4>1, <4>2
      <3>4. QED
        BY <3>2, <3>3
    <2>12. NotYetStored'
      <3> SUFFICES ASSUME NEW d \in Clients, Pending(d)'
                   PROVE  /\ ~Has(appended', rec'[d]) /\ ~Has(m_data', rec'[d]) /\ ckpt'[rec'[d]] = 0
                          /\ pc'[d] = "log" => ~Has(wal', rec'[d]) /\ ~Has(remaining', rec'[d])
        BY DEF NotYetStored
      <3>1. rec'[d] \in Records
        BY <2>11 DEF OwnSlot
      <3>2. CASE d = c
        BY <2>1, <2>3, <2>4, <2>9, <2>10, <3>2
      <3>3. CASE d # c
        BY <2>1, <2>3, <2>9, <3>1, <3>3 DEF Inv, NotYetStored
      <3>4. QED
        BY <3>2, <3>3
    <2>13. (serial => Copies)'
      <3>1. m_head \in Nat /\ new_head \in Nat
        BY <2>2 DEF Inv, TypeOK
      <3>2. \A r \in Records : /\ Beyond(appended', m_head', r) <=> Beyond(appended, m_head, r)
                               /\ Beyond(appended', new_head', r) <=> Beyond(appended, new_head, r)
        BY <2>1, <2>3, <3>1
      <3>3. QED
        BY <2>1, <3>2 DEF Inv, Copies, CopiesOf, Saved, Unsaved
    <2>14. QED
      BY <2>5, <2>6, <2>7, <2>8, <2>11, <2>12, <2>13 DEF Inv
  <1>3. QED
    BY <1>1, <1>2

\* Inv and the entry that append logs: the record gets the copy it did not have.
LEMMA InvLog ==
  ASSUME Inv, NEW c \in Clients, Log(c) PROVE Inv'
  <1>0. Records \subseteq Entries /\ FLUSH_B \notin Records /\ wal \in Seq(Entries)
    BY DurabilityAssumption DEF Inv, TypeOK, Records, Entries, FLUSH_B
  <1>1. /\ UNCHANGED <<ckpt, appended, m_data, m_head, rec, idx, new_head, remaining, nrec, crashes, serial, acked, fpc>>
        /\ pc' = [pc EXCEPT ![c] = "store"] /\ pc[c] = "log"
        /\ fpc \notin {"truncate", "rewrite"}
        /\ wal' = Append(wal, rec[c])
    BY DEF Log, LogFree, buffer, flushVars, history
  <1>2. PICK r0 : r0 = rec[c]
    OBVIOUS
  <1>3. /\ r0 \in Records /\ ckpt[r0] = 0 /\ ~Has(appended, r0) /\ ~Has(m_data, r0) /\ ~Has(wal, r0) /\ ~Has(remaining, r0)
        /\ \A d \in Clients : Pending(d) /\ d # c => rec[d] # r0
        /\ ~(r0 > nrec) /\ r0 # FLUSH_B
    <2>1. Pending(c)
      BY <1>1 DEF Pending
    <2>2. r0 \in Records /\ \A d \in Clients : Pending(d) /\ d # c => rec[d] # r0
      BY <2>1, <1>2 DEF Inv, OwnSlot
    <2>3. ckpt[r0] = 0 /\ ~Has(appended, r0) /\ ~Has(m_data, r0) /\ ~Has(wal, r0) /\ ~Has(remaining, r0)
      BY <2>1, <1>1, <1>2 DEF Inv, NotYetStored
    <2>4. ~(r0 > nrec)
      BY <2>2, <1>2 DEF Inv, Fresh
    <2>5. QED
      BY <2>2, <2>3, <2>4, <1>0
  <1>4. /\ wal' \in Seq(Entries)
        /\ \A x : Has(wal', x) <=> Has(wal, x) \/ x = r0
        /\ \A x : Behind(wal', x) <=> Behind(wal, x) \/ (x = r0 /\ Has(wal, FLUSH_B))
        /\ Once(wal')
    <2>1. PICK s, t : s = wal /\ t = Append(s, r0)
      OBVIOUS
    <2>2. s \in Seq(Entries) /\ r0 \in Entries
      BY <2>1, <1>0, <1>3
    <2>3. t \in Seq(Entries)
      BY <2>1, <2>2, AppendFacts
    <2>4. \A x : Has(t, x) <=> Has(s, x) \/ x = r0
      BY <2>1, <2>2, HasAppend
    <2>5. \A x : Behind(t, x) <=> Behind(s, x) \/ (x = r0 /\ Has(s, FLUSH_B))
      BY <2>1, <2>2, BehindAppend
    <2>6. Once(s) /\ ~Has(s, r0)
      BY <2>1, <1>3 DEF Inv, OnceEach
    <2>7. Once(t)
      BY <2>1, <2>2, <2>6, OnceAppend
    <2>8. wal' = t
      BY <2>1, <1>1, <1>2
    <2>9. QED
      BY <2>1, <2>3, <2>4, <2>5, <2>7, <2>8
  <1>5. \A d \in Clients : /\ Pending(d)' <=> Pending(d)
                           /\ pc'[d] = "log" => pc[d] = "log" /\ d # c
    BY <1>1 DEF Inv, TypeOK, Pending
  <1>6. TypeOK'
    BY <1>1, <1>4 DEF Inv, TypeOK, Entries, RecordCount
  <1>7. FlushPlace' /\ OldMarker' /\ OnceEach'
    BY <1>1, <1>3, <1>4 DEF Inv, FlushPlace, OldMarker, OnceEach, Unsaved
  <1>8. Fresh'
    BY <1>1, <1>3, <1>4 DEF Inv, Fresh
  <1>9. OwnSlot'
    BY <1>1, <1>5 DEF Inv, OwnSlot
  <1>10. NotYetStored'
    <2> SUFFICES ASSUME NEW d \in Clients, Pending(d)'
                 PROVE  /\ ~Has(appended', rec'[d]) /\ ~Has(m_data', rec'[d]) /\ ckpt'[rec'[d]] = 0
                        /\ pc'[d] = "log" => ~Has(wal', rec'[d]) /\ ~Has(remaining', rec'[d])
      BY DEF NotYetStored
    <2>1. Pending(d) /\ (pc'[d] = "log" => pc[d] = "log" /\ rec[d] # r0)
      BY <1>3, <1>5
    <2>2. QED
      BY <2>1, <1>1, <1>4 DEF Inv, NotYetStored
  <1>11. (serial => Copies)'
    <2> SUFFICES ASSUME serial, NEW r \in Records PROVE CopiesOf(r)'
      BY <1>1 DEF Copies
    <2>1. CopiesOf(r) /\ crashes \in Nat
      BY DEF Inv, Copies, TypeOK
    <2>2. CASE r = r0
      <3>1. ~Beyond(appended, m_head, r) /\ ~Beyond(appended, new_head, r)
        BY <2>2, <1>3 DEF Beyond, Has
      <3>2. QED
        BY <2>1, <2>2, <3>1, <1>1, <1>3 DEF CopiesOf
    <2>3. CASE r # r0
      BY <2>1, <2>3, <1>1, <1>4 DEF CopiesOf, Saved, Unsaved
    <2>4. QED
      BY <2>2, <2>3
  <1>12. QED
    BY <1>6, <1>7, <1>8, <1>9, <1>10, <1>11 DEF Inv

\* Inv and append's store into its slot.
LEMMA InvStore ==
  ASSUME Inv, NEW c \in Clients, Store(c) PROVE Inv'
  <1>0. None \notin Records
    BY DurabilityAssumption DEF Records, None
  <1>1. /\ UNCHANGED <<wal, ckpt, m_head, new_head, remaining, nrec, crashes, serial, fpc>>
        /\ pc' = [pc EXCEPT ![c] = "idle"] /\ pc[c] = "store"
        /\ rec' = [rec EXCEPT ![c] = None] /\ idx' = [idx EXCEPT ![c] = 0]
        /\ appended' = [appended EXCEPT ![idx[c]] = rec[c]]
        /\ m_data' = [m_data EXCEPT ![(idx[c] - 1) % Cap] = rec[c]]
        /\ acked' = acked \cup {rec[c]}
    BY DEF Store, disk, flushVars
  <1>2. PICK r0, k0 : r0 = rec[c] /\ k0 = idx[c]
    OBVIOUS
  <1>3. /\ r0 \in Records /\ k0 \in DOMAIN appended /\ appended[k0] = None
        /\ \A d \in Clients : Pending(d) /\ d # c => rec[d] # r0 /\ idx[d] # k0
        /\ ckpt[r0] = 0 /\ ~Has(appended, r0) /\ ~Has(m_data, r0) /\ ~(r0 > nrec)
    <2>1. Pending(c)
      BY <1>1 DEF Pending
    <2>2. /\ r0 \in Records /\ k0 \in DOMAIN appended /\ appended[k0] = None
          /\ \A d \in Clients : Pending(d) /\ d # c => rec[d] # r0 /\ idx[d] # k0
      BY <2>1, <1>2 DEF Inv, OwnSlot
    <2>3. ckpt[r0] = 0 /\ ~Has(appended, r0) /\ ~Has(m_data, r0)
      BY <2>1, <1>2 DEF Inv, NotYetStored
    <2>4. ~(r0 > nrec)
      BY <2>2, <1>2 DEF Inv, Fresh
    <2>5. QED
      BY <2>2, <2>3, <2>4
  <1>4. /\ appended' \in Seq(Records \cup {None}) /\ Len(appended') = Len(appended)
        /\ DOMAIN appended' = DOMAIN appended
        /\ \A i \in DOMAIN appended : i # k0 => appended'[i] = appended[i]
        /\ \A x \in Records : Has(appended', x) <=> Has(appended, x) \/ x = r0
        /\ \A n \in Nat : \A x \in Records : x # r0 =>
             (Beyond(appended', n, x) <=> Beyond(appended, n, x))
        /\ Once(appended')
        /\ m_data' \in [Slots -> Records \cup {None}]
        /\ \A x \in Records : Has(m_data', x) => Has(m_data, x) \/ x = r0
    <2>1. PICK s, t : s = appended /\ t = [s EXCEPT ![k0] = r0]
      OBVIOUS
    <2>2. s \in Seq(Records \cup {None}) /\ Once(s) /\ ~Has(s, r0) /\ k0 \in DOMAIN s /\ s[k0] = None
      BY <2>1, <1>3 DEF Inv, TypeOK, OnceEach
    <2>3. /\ t \in Seq(Records \cup {None}) /\ Len(t) = Len(s) /\ DOMAIN t = DOMAIN s
          /\ t[k0] = r0 /\ \A i \in DOMAIN s : i # k0 => t[i] = s[i]
          /\ \A x \in Records : Has(t, x) <=> Has(s, x) \/ x = r0
          /\ \A n \in Nat : \A x \in Records :
               /\ Beyond(s, n, x) => Beyond(t, n, x)
               /\ Beyond(t, n, x) => Beyond(s, n, x) \/ x = r0
          /\ Once(s) /\ ~Has(s, r0) => Once(t)
      <3>1. t = [s EXCEPT ![k0] = r0] /\ r0 \in Records
        BY <2>1, <1>3
      <3>2. /\ t \in Seq(Records \cup {None}) /\ Len(t) = Len(s) /\ DOMAIN t = DOMAIN s
            /\ t[k0] = r0 /\ \A i \in DOMAIN s : i # k0 => t[i] = s[i]
        <4>1. t \in Seq(Records \cup {None}) /\ Len(t) = Len(s) /\ DOMAIN t = DOMAIN s
          BY <3>1, <2>2, StoreFacts
        <4>2. t[k0] = r0
          BY <3>1, <2>2, StoreFacts
        <4>3. \A i \in DOMAIN s : i # k0 => t[i] = s[i]
          BY <3>1, <2>2, StoreFacts
        <4>4. QED
          BY <4>1, <4>2, <4>3
      <3>3. \A x \in Records : Has(t, x) <=> Has(s, x) \/ x = r0
        BY <3>1, <2>2, StoreFacts
      <3>4. ASSUME NEW n \in Nat, NEW x \in Records
            PROVE  /\ Beyond(s, n, x) => Beyond(t, n, x)
                   /\ Beyond(t, n, x) => Beyond(s, n, x) \/ x = r0
        BY <3>2, <2>2, <1>0 DEF Beyond
      <3>5. Once(s) /\ ~Has(s, r0) => Once(t)
        BY <3>1, <2>2, StoreFacts
      <3>6. QED
        BY <3>2, <3>3, <3>4, <3>5
    <2>4. appended' = t
      BY <2>1, <1>1, <1>2
    <2>5. m_data' \in [Slots -> Records \cup {None}]
      BY <1>1, <1>2, <1>3 DEF Inv, TypeOK
    <2>6. \A x \in Records : Has(m_data', x) => Has(m_data, x) \/ x = r0
      BY <2>5, <1>1, <1>2 DEF Has, Inv, TypeOK
    <2>7. QED
      BY <2>1, <2>2, <2>3, <2>4, <2>5, <2>6
  <1>5. /\ ~Pending(c)'
        /\ \A d \in Clients : d # c => /\ Pending(d)' <=> Pending(d) /\ pc'[d] = pc[d]
                                       /\ rec'[d] = rec[d] /\ idx'[d] = idx[d]
        /\ rec'[c] = None
    BY <1>1 DEF Inv, TypeOK, Pending
  <1>6. TypeOK'
    <2>1. /\ pc' \in [Clients -> {"idle", "claim", "log", "store"}]
          /\ rec' \in [Clients -> Records \cup {None}]
      BY <1>1 DEF Inv, TypeOK
    <2>2. idx' \in [Clients -> 0..Len(appended')]
      <3>1. Len(appended) \in Nat
        BY LenProperties DEF Inv, TypeOK
      <3>2. QED
        BY <3>1, <1>1, <1>4 DEF Inv, TypeOK
    <2>3. acked' \subseteq Records
      BY <1>1, <1>2, <1>3 DEF Inv, TypeOK
    <2>4. QED
      BY <1>1, <1>4, <2>1, <2>2, <2>3 DEF Inv, TypeOK, RecordCount
  <1>7. FlushPlace' /\ OldMarker' /\ OnceEach'
    BY <1>1, <1>4 DEF Inv, FlushPlace, OldMarker, OnceEach, Unsaved
  <1>8. Fresh'
    <2> SUFFICES ASSUME NEW r \in Records, r > nrec
                 PROVE  /\ ckpt[r] = 0 /\ ~Has(wal, r) /\ ~Has(appended', r) /\ ~Has(m_data', r) /\ ~Has(remaining, r)
                        /\ \A d \in Clients : rec'[d] # r
      BY <1>1 DEF Fresh
    <2>1. /\ ckpt[r] = 0 /\ ~Has(wal, r) /\ ~Has(appended, r) /\ ~Has(m_data, r) /\ ~Has(remaining, r)
          /\ \A d \in Clients : rec[d] # r
      BY DEF Inv, Fresh
    <2>2. QED
      BY <2>1, <1>0, <1>3, <1>4, <1>5
  <1>9. OwnSlot'
    BY <1>3, <1>4, <1>5 DEF Inv, OwnSlot
  <1>10. NotYetStored'
    <2> SUFFICES ASSUME NEW d \in Clients, Pending(d)'
                 PROVE  /\ ~Has(appended', rec'[d]) /\ ~Has(m_data', rec'[d]) /\ ckpt'[rec'[d]] = 0
                        /\ pc'[d] = "log" => ~Has(wal', rec'[d]) /\ ~Has(remaining', rec'[d])
      BY DEF NotYetStored
    <2>1. d # c /\ Pending(d) /\ rec'[d] = rec[d] /\ pc'[d] = pc[d] /\ rec[d] # r0 /\ rec[d] \in Records
      BY <1>3, <1>5 DEF Inv, OwnSlot
    <2>2. QED
      BY <2>1, <1>1, <1>4 DEF Inv, NotYetStored
  <1>11. (serial => Copies)'
    <2> SUFFICES ASSUME serial, NEW r \in Records PROVE CopiesOf(r)'
      BY <1>1 DEF Copies
    <2>1. CopiesOf(r) /\ crashes \in Nat /\ m_head \in Nat /\ new_head \in Nat
      BY LenProperties DEF Inv, Copies, TypeOK
    <2>2. CASE r = r0
      <3>1. Unsaved /\ Behind(wal, r) => crashes >= 1
        BY DEF Inv, OldMarker, Behind, Has
      <3>2. QED
        BY <2>1, <2>2, <3>1, <1>1, <1>3 DEF CopiesOf, Unsaved
    <2>3. CASE r # r0
      <3>1. /\ Beyond(appended', m_head, r) <=> Beyond(appended, m_head, r)
            /\ Beyond(appended', new_head, r) <=> Beyond(appended, new_head, r)
        BY <2>1, <2>3, <1>4
      <3>2. QED
        BY <2>1, <3>1, <1>1 DEF CopiesOf, Saved, Unsaved
    <2>4. QED
      BY <2>2, <2>3
  <1>12. QED
    BY <1>6, <1>7, <1>8, <1>9, <1>10, <1>11 DEF Inv

\* The flush's steps leave the clients alone.
LEMMA ClientsKept ==
  ASSUME OwnSlot, UNCHANGED <<appended, m_data, pc, rec, idx>>
  PROVE  OwnSlot' /\ (NotYetStored /\ UNCHANGED <<wal, ckpt, remaining>> => NotYetStored')
  BY DEF OwnSlot, NotYetStored, Pending

\* Inv and the view of the flush: nothing that is stored moves.
LEMMA InvTakeView ==
  ASSUME Inv, TakeView PROVE Inv'
  <1>1. /\ UNCHANGED <<wal, ckpt, appended, m_data, m_head, pc, rec, idx, remaining, nrec, crashes, serial, acked>>
        /\ fpc = "view" /\ fpc' = "save" /\ new_head' = Len(appended)
    BY DEF TakeView, disk, buffer, clientVars, history
  <1>2. Len(appended) \in Nat
    BY LenProperties DEF Inv, TypeOK
  <1>3. TypeOK'
    BY <1>1, <1>2 DEF Inv, TypeOK, FlushSteps, RecordCount
  <1>4. FlushPlace' /\ OldMarker' /\ OnceEach' /\ Fresh'
    BY <1>1, <1>2 DEF Inv, TypeOK, FlushPlace, OldMarker, OnceEach, Unsaved, Fresh
  <1>5. OwnSlot' /\ NotYetStored'
    BY <1>1, ClientsKept DEF Inv
  <1>6. (serial => Copies)'
    BY <1>1 DEF Inv, Copies, CopiesOf, Saved, Unsaved
  <1>7. QED
    BY <1>3, <1>4, <1>5, <1>6 DEF Inv

\* Inv and the saved checkpoint: each record of the view gets a copy in a shard.
LEMMA InvSaveShard ==
  ASSUME Inv, SaveShard, serial => Flushed = SubSeq(appended, m_head + 1, new_head)
  PROVE  Inv'
  <1>1. /\ UNCHANGED <<wal, appended, m_data, m_head, pc, rec, idx, new_head, remaining, nrec, crashes, serial, acked>>
        /\ fpc = "save" /\ fpc' = "begin"
        /\ ckpt' = [r \in Records |-> ckpt[r] + Occurrences(Flushed, r)]
    BY DEF SaveShard, buffer, clientVars, history
  <1>2. /\ Len(appended) \in Nat /\ DOMAIN appended = 1..Len(appended)
        /\ m_head \in Nat /\ new_head \in Nat /\ new_head <= Len(appended) /\ m_head <= new_head
        /\ crashes \in Nat
    BY <1>1, LenProperties DEF Inv, TypeOK, FlushPlace
  <1>3. ASSUME NEW r \in Records
        PROVE  ckpt'[r] \in Nat /\ (~Has(m_data, r) => ckpt'[r] = ckpt[r])
    <2>1. PICK q : q = Flushed
      OBVIOUS
    <2>2. q \in Seq(Records \cup {None}) /\ (Has(q, r) => Has(m_data, r))
      <3>1. PICK n \in Nat : n = new_head - m_head
        BY <1>2
      <3>2. \A i \in 1..n : (m_head + i - 1) % Cap \in Slots
        BY <1>2, <3>1, DurabilityAssumption DEF Slots
      <3>3. q = [i \in 1..n |-> m_data[(m_head + i - 1) % Cap]]
        BY <2>1, <3>1 DEF Flushed
      <3>4. m_data \in [Slots -> Records \cup {None}]
        BY DEF Inv, TypeOK
      <3>5. \A i \in 1..n : q[i] \in Records \cup {None} /\ \E p \in DOMAIN m_data : m_data[p] = q[i]
        BY <3>2, <3>3, <3>4
      <3>6. q \in [1..n -> Records \cup {None}]
        BY <3>3, <3>5
      <3>7. q \in Seq(Records \cup {None})
        BY <3>6, SeqDef
      <3>8. DOMAIN q = 1..n
        BY <3>3
      <3>9. QED
        BY <3>5, <3>7, <3>8 DEF Has
    <2>3. Occurrences(q, r) \in Nat /\ (Has(q, r) <=> Occurrences(q, r) > 0)
      BY <2>2, OccurrencesFacts
    <2>4. ckpt'[r] = ckpt[r] + Occurrences(q, r) /\ ckpt[r] \in Nat
      BY <2>1, <1>1 DEF Inv, TypeOK
    <2>5. QED
      BY <2>2, <2>3, <2>4
  <1>4. ASSUME serial, NEW r \in Records
        PROVE  /\ ckpt'[r] \in Nat /\ ckpt[r] \in Nat
               /\ \/ /\ ckpt'[r] = ckpt[r]
                     /\ ~Beyond(appended, m_head, r) \/ ckpt'[r] <= crashes
                  \/ /\ ckpt'[r] = ckpt[r] + 1
                     /\ Beyond(appended, m_head, r) /\ Has(appended, r) /\ ~Beyond(appended, new_head, r)
    <2>1. PICK s, h, n : s = appended /\ h = m_head /\ n = new_head
      OBVIOUS
    <2>2. PICK q : q = SubSeq(s, h + 1, n)
      OBVIOUS
    <2>3. s \in Seq(Records \cup {None}) /\ h + 1 \in Nat \ {0} /\ n \in Nat /\ n <= Len(s) /\ Once(s)
      BY <2>1, <1>2 DEF Inv, TypeOK, OnceEach
    <2>4. /\ q \in Seq(Records \cup {None}) /\ Once(q)
          /\ \A x : Has(q, x) <=> \E i \in (h + 1)..n : s[i] = x
      BY <2>2, <2>3, SubSeqFacts
    <2>5. Occurrences(q, r) \in Nat /\ (Has(q, r) <=> Occurrences(q, r) > 0) /\ Occurrences(q, r) <= 1
      BY <2>4, OccurrencesFacts
    <2>6. Flushed = q
      BY <1>4, <2>1, <2>2
    <2>7. ckpt'[r] = ckpt[r] + Occurrences(q, r) /\ ckpt[r] \in Nat
      BY <2>6, <1>1 DEF Inv, TypeOK
    <2>8. CASE Has(q, r)
      <3>1. PICK i \in (h + 1)..n : s[i] = r
        BY <2>4, <2>8
      <3>2. i \in DOMAIN s /\ i > h /\ ~(i > n)
        BY <2>1, <2>3, <1>2
      <3>3. Beyond(s, h, r) /\ Has(s, r)
        BY <3>1, <3>2 DEF Beyond, Has
      <3>4. ~Beyond(s, n, r)
        BY <3>1, <3>2, <2>3 DEF Beyond, Once
      <3>5. QED
        BY <2>1, <2>5, <2>7, <2>8, <3>3, <3>4
    <2>9. CASE ~Has(q, r)
      <3>1. ckpt'[r] = ckpt[r]
        BY <2>5, <2>7, <2>9
      <3>2. Beyond(appended, m_head, r) => ckpt[r] <= crashes
        BY <1>1, <1>4 DEF Inv, Copies, CopiesOf, Unsaved
      <3>3. QED
        BY <2>7, <3>1, <3>2
    <2>10. QED
      BY <2>8, <2>9
  <1>5. TypeOK'
    <2>1. ckpt' \in [Records -> Nat]
      BY <1>1, <1>3
    <2>2. QED
      BY <2>1, <1>1 DEF Inv, TypeOK, FlushSteps, RecordCount
  <1>6. FlushPlace' /\ OldMarker' /\ OnceEach'
    BY <1>1 DEF Inv, FlushPlace, OldMarker, OnceEach, Unsaved
  <1>7. Fresh'
    BY <1>1, <1>3 DEF Inv, Fresh
  <1>8. OwnSlot'
    BY <1>1, ClientsKept DEF Inv
  <1>9. NotYetStored'
    <2> SUFFICES ASSUME NEW d \in Clients, Pending(d)'
                 PROVE  /\ ~Has(appended', rec'[d]) /\ ~Has(m_data', rec'[d]) /\ ckpt'[rec'[d]] = 0
                        /\ pc'[d] = "log" => ~Has(wal', rec'[d]) /\ ~Has(remaining', rec'[d])
      BY DEF NotYetStored
    <2>1. Pending(d) /\ rec[d] \in Records
      BY <1>1 DEF Inv, OwnSlot, Pending
    <2>2. QED
      BY <2>1, <1>1, <1>3 DEF Inv, NotYetStored
  <1>10. (serial => Copies)'
    <2> SUFFICES ASSUME serial, NEW r \in Records PROVE CopiesOf(r)'
      BY <1>1 DEF Copies
    <2>1. /\ ckpt[r] <= 1 + crashes
          /\ Behind(wal, r) => ckpt[r] <= crashes
          /\ Has(wal, r) => ckpt[r] <= crashes
          /\ Beyond(appended, m_head, r) => ckpt[r] <= crashes
          /\ Beyond(appended, m_head, r) /\ Behind(wal, r) => ckpt[r] + 1 <= crashes
          /\ remaining = <<>>
      BY <1>1 DEF Inv, Copies, CopiesOf, Unsaved, FlushPlace
    <2>2. ~Unsaved' /\ fpc' # "rewrite" /\ ~Has(remaining', r)
      BY <2>1, <1>1, EmptyFacts DEF Unsaved
    <2>3. ckpt'[r] <= 1 + crashes /\ (Behind(wal, r) => ckpt'[r] <= crashes)
      <3>1. /\ ckpt[r] \in Nat
            /\ \/ ckpt'[r] = ckpt[r]
               \/ ckpt'[r] = ckpt[r] + 1 /\ Beyond(appended, m_head, r)
        BY <1>4
      <3>2. QED
        BY <2>1, <1>2, <3>1
    <2>4. Beyond(appended, new_head, r) => ckpt'[r] <= crashes
      <3>1. Beyond(appended, new_head, r) => Beyond(appended, m_head, r)
        BY <1>2 DEF Beyond
      <3>2. QED
        BY <3>1, <2>1, <1>2, <1>4
    <2>5. QED
      BY <2>2, <2>3, <2>4, <1>1 DEF CopiesOf
  <1>11. QED
    BY <1>5, <1>6, <1>7, <1>8, <1>9, <1>10 DEF Inv

\* Inv and the FLUSH_B marker, which has nothing behind it yet.
LEMMA InvFlushBegin ==
  ASSUME Inv, FlushBegin PROVE Inv'
  <1>0. FLUSH_B \in Entries /\ FLUSH_B \notin Records /\ wal \in Seq(Entries)
    BY DurabilityAssumption DEF Inv, TypeOK, Records, Entries, FLUSH_B
  <1>1. /\ UNCHANGED <<ckpt, appended, m_data, m_head, pc, rec, idx, new_head, remaining, nrec, crashes, serial, acked>>
        /\ fpc = "begin" /\ fpc' = "advance" /\ wal' = Append(wal, FLUSH_B)
    BY DEF FlushBegin, buffer, clientVars, history
  <1>2. /\ wal' \in Seq(Entries) /\ Once(wal') /\ Has(wal', FLUSH_B)
        /\ \A r \in Records : /\ Has(wal', r) <=> Has(wal, r)
                              /\ Behind(wal', r) <=> Behind(wal, r)
    <2>1. PICK s, t : s = wal /\ t = Append(s, FLUSH_B)
      OBVIOUS
    <2>2. t \in Seq(Entries) /\ \A x : Has(t, x) <=> Has(s, x) \/ x = FLUSH_B
      BY <2>1, <1>0, AppendFacts, HasAppend
    <2>3. \A x : Behind(t, x) <=> Behind(s, x) \/ (x = FLUSH_B /\ Has(s, FLUSH_B))
      BY <2>1, <1>0, BehindAppend
    <2>4. Once(t)
      BY <2>1, <1>0, OnceAppend DEF Inv, OnceEach
    <2>5. wal' = t
      BY <2>1, <1>1
    <2>6. QED
      BY <2>1, <2>2, <2>3, <2>4, <2>5, <1>0
  <1>3. TypeOK'
    BY <1>1, <1>2 DEF Inv, TypeOK, Entries, FlushSteps, RecordCount
  <1>4. FlushPlace' /\ OldMarker' /\ OnceEach'
    BY <1>1, <1>2 DEF Inv, FlushPlace, OldMarker, OnceEach, Unsaved
  <1>5. Fresh'
    BY <1>1, <1>2 DEF Inv, Fresh
  <1>6. OwnSlot'
    BY <1>1, ClientsKept DEF Inv
  <1>7. NotYetStored'
    BY <1>1, <1>2 DEF Inv, OwnSlot, NotYetStored, Pending
  <1>8. (serial => Copies)'
    BY <1>1, <1>2 DEF Inv, Copies, CopiesOf, Saved, Unsaved
  <1>9. QED
    BY <1>3, <1>4, <1>5, <1>6, <1>7, <1>8 DEF Inv

\* Inv and the advance of the head over the flushed slots.
LEMMA InvAdvanceHead ==
  ASSUME Inv, AdvanceHead PROVE Inv'
  <1>1. /\ UNCHANGED <<wal, ckpt, appended, m_data, pc, rec, idx, new_head, remaining, nrec, crashes, serial, acked>>
        /\ fpc = "advance" /\ fpc' = "complete" /\ m_head' = new_head
    BY DEF AdvanceHead, disk, clientVars, history
  <1>2. m_head <= new_head /\ m_head \in Nat /\ new_head \in Nat /\ Len(appended) \in Nat /\ HWM \in Nat
    BY <1>1, LenProperties, DurabilityAssumption DEF Inv, FlushPlace, TypeOK
  <1>3. TypeOK'
    <2>1. m_head' \in 0..Len(appended') /\ RecordCount' <= HWM
      BY <1>1, <1>2 DEF Inv, TypeOK, RecordCount
    <2>2. QED
      BY <2>1, <1>1 DEF Inv, TypeOK, FlushSteps
  <1>4. FlushPlace' /\ OldMarker' /\ OnceEach' /\ Fresh'
    BY <1>1 DEF Inv, FlushPlace, OldMarker, OnceEach, Unsaved, Fresh
  <1>5. OwnSlot' /\ NotYetStored'
    BY <1>1, ClientsKept DEF Inv
  <1>6. (serial => Copies)'
    BY <1>1 DEF Inv, Copies, CopiesOf, Saved, Unsaved
  <1>7. QED
    BY <1>3, <1>4, <1>5, <1>6 DEF Inv

\* Inv and what flush_complete reads back: the records behind FLUSH_B.
LEMMA InvFlushComplete ==
  ASSUME Inv, FlushComplete PROVE Inv'
  <1>0. /\ FLUSH_C \in Entries /\ FLUSH_C \notin Records /\ FLUSH_C # FLUSH_B /\ wal \in Seq(Entries)
    BY DurabilityAssumption DEF Inv, TypeOK, Records, Entries, FLUSH_B, FLUSH_C
  <1>1. /\ UNCHANGED <<ckpt, appended, m_data, m_head, pc, rec, idx, new_head, nrec, crashes, serial, acked>>
        /\ fpc = "complete" /\ fpc' = "truncate"
        /\ wal' = Append(wal, FLUSH_C) /\ remaining' = Remaining(wal)
    BY DEF FlushComplete, buffer, clientVars, history
  <1>2. /\ wal' \in Seq(Entries) /\ Once(wal')
        /\ \A r \in Records : /\ Has(wal', r) <=> Has(wal, r)
                              /\ Behind(wal', r) <=> Behind(wal, r)
    <2>1. PICK s, t : s = wal /\ t = Append(s, FLUSH_C)
      OBVIOUS
    <2>2. t \in Seq(Entries) /\ \A x : Has(t, x) <=> Has(s, x) \/ x = FLUSH_C
      BY <2>1, <1>0, AppendFacts, HasAppend
    <2>3. \A x : Behind(t, x) <=> Behind(s, x) \/ (x = FLUSH_C /\ Has(s, FLUSH_B))
      BY <2>1, <1>0, BehindAppend
    <2>4. Once(t)
      BY <2>1, <1>0, OnceAppend DEF Inv, OnceEach
    <2>5. wal' = t
      BY <2>1, <1>1
    <2>6. QED
      BY <2>1, <2>2, <2>3, <2>4, <2>5, <1>0
  <1>3. /\ remaining' \in Seq(Records) /\ Once(remaining')
        /\ \A r \in Records : /\ Has(remaining', r) <=> Behind(wal, r)
                              /\ Has(remaining', r) => Has(wal, r)
    <2>1. PICK s : s = wal
      OBVIOUS
    <2>2. Has(s, FLUSH_B) /\ Once(s) /\ s \in Seq(Entries)
      BY <2>1, <1>0, <1>1 DEF Inv, FlushPlace, OnceEach
    <2>3. /\ Remaining(s) \in Seq(Records)
          /\ \A r \in Records : Has(Remaining(s), r) <=> Behind(s, r)
          /\ Once(Remaining(s))
      BY <2>2, RemainingFacts
    <2>4. \A r \in Records : Behind(s, r) => Has(s, r)
      BY DEF Behind, Has
    <2>5. remaining' = Remaining(s)
      BY <2>1, <1>1
    <2>6. QED
      BY <2>1, <2>3, <2>4, <2>5
  <1>4. TypeOK'
    BY <1>1, <1>2, <1>3 DEF Inv, TypeOK, Entries, FlushSteps, RecordCount
  <1>5. FlushPlace' /\ OldMarker' /\ OnceEach'
    BY <1>1, <1>2, <1>3 DEF Inv, FlushPlace, OldMarker, OnceEach, Unsaved
  <1>6. Fresh'
    BY <1>1, <1>2, <1>3 DEF Inv, Fresh
  <1>7. OwnSlot'
    BY <1>1, ClientsKept DEF Inv
  <1>8. NotYetStored'
    BY <1>1, <1>2, <1>3 DEF Inv, OwnSlot, NotYetStored, Pending
  <1>9. (serial => Copies)'
    BY <1>1, <1>2, <1>3 DEF Inv, Copies, CopiesOf, Saved, Unsaved
  <1>10. QED
    BY <1>4, <1>5, <1>6, <1>7, <1>8, <1>9 DEF Inv

\* Inv and the truncation of the log.
LEMMA InvTruncate ==
  ASSUME Inv, Truncate PROVE Inv'
  <1>1. /\ UNCHANGED <<ckpt, appended, m_data, m_head, pc, rec, idx, new_head, remaining, nrec, crashes, serial, acked>>
        /\ fpc = "truncate" /\ wal' = <<>>
        /\ fpc' = IF remaining = <<>> THEN "idle" ELSE "rewrite"
    BY DEF Truncate, buffer, clientVars, history
  <1>2. /\ wal' \in Seq(Entries) /\ Once(wal') /\ \A x : ~Has(wal', x) /\ ~Behind(wal', x)
    BY <1>1, EmptySeq, EmptyFacts
  <1>3. TypeOK'
    BY <1>1, <1>2 DEF Inv, TypeOK, Entries, FlushSteps, RecordCount
  <1>4. FlushPlace' /\ OldMarker' /\ OnceEach'
    BY <1>1, <1>2 DEF Inv, FlushPlace, OldMarker, OnceEach
  <1>5. Fresh'
    BY <1>1, <1>2 DEF Inv, Fresh
  <1>6. OwnSlot'
    BY <1>1, ClientsKept DEF Inv
  <1>7. NotYetStored'
    BY <1>1, <1>2 DEF Inv, OwnSlot, NotYetStored, Pending
  <1>8. (serial => Copies)'
    BY <1>1, <1>2 DEF Inv, Copies, CopiesOf, Saved, Unsaved, FlushPlace
  <1>9. QED
    BY <1>3, <1>4, <1>5, <1>6, <1>7, <1>8 DEF Inv

\* Inv and an entry that is written back to the log.
LEMMA InvRewrite ==
  ASSUME Inv, Rewrite PROVE Inv'
  <1>0. /\ Records \subseteq Entries /\ FLUSH_B \notin Records /\ wal \in Seq(Entries)
        /\ remaining \in Seq(Records)
    BY DurabilityAssumption DEF Inv, TypeOK, Records, Entries, FLUSH_B
  <1>1. /\ UNCHANGED <<ckpt, appended, m_data, m_head, pc, rec, idx, new_head, nrec, crashes, serial, acked>>
        /\ fpc = "rewrite" /\ wal' = Append(wal, Head(remaining)) /\ remaining' = Tail(remaining)
        /\ fpc' = IF remaining' = <<>> THEN "idle" ELSE "rewrite"
    BY DEF Rewrite, buffer, clientVars, history
  <1>2. PICK h : h = Head(remaining)
    OBVIOUS
  <1>3. /\ h \in Records /\ remaining' \in Seq(Records) /\ Once(remaining') /\ ~Has(remaining', h)
        /\ \A x : Has(remaining, x) <=> x = h \/ Has(remaining', x)
    <2>1. PICK s : s = remaining
      OBVIOUS
    <2>2. s \in Seq(Records) /\ s # <<>> /\ Once(s)
      BY <2>1, <1>0, <1>1 DEF Inv, FlushPlace, OnceEach
    <2>3. /\ Head(s) \in Records /\ Tail(s) \in Seq(Records)
          /\ \A x : Has(s, x) <=> x = Head(s) \/ Has(Tail(s), x)
          /\ Once(Tail(s)) /\ ~Has(Tail(s), Head(s))
      BY <2>2, TailFacts
    <2>4. h = Head(s) /\ remaining' = Tail(s)
      BY <2>1, <1>1, <1>2
    <2>5. QED
      BY <2>1, <2>3, <2>4
  <1>4. ~Has(wal, h) /\ ~Has(wal, FLUSH_B) /\ h # FLUSH_B
    BY <1>0, <1>1, <1>3 DEF Inv, OnceEach, FlushPlace
  <1>5. /\ wal' \in Seq(Entries) /\ Once(wal')
        /\ \A x : Has(wal', x) <=> Has(wal, x) \/ x = h
        /\ \A x : Behind(wal', x) <=> Behind(wal, x)
    <2>1. PICK s, t : s = wal /\ t = Append(s, h)
      OBVIOUS
    <2>2. s \in Seq(Entries) /\ h \in Entries
      BY <2>1, <1>0, <1>3
    <2>3. t \in Seq(Entries) /\ \A x : Has(t, x) <=> Has(s, x) \/ x = h
      BY <2>1, <2>2, AppendFacts, HasAppend
    <2>4. \A x : Behind(t, x) <=> Behind(s, x) \/ (x = h /\ Has(s, FLUSH_B))
      BY <2>1, <2>2, BehindAppend
    <2>5. Once(s) /\ ~Has(s, h)
      BY <2>1, <1>4 DEF Inv, OnceEach
    <2>6. Once(t)
      BY <2>1, <2>2, <2>5, OnceAppend
    <2>7. wal' = t
      BY <2>1, <1>1, <1>2
    <2>8. QED
      BY <2>1, <2>3, <2>4, <2>6, <2>7, <1>4
  <1>6. TypeOK'
    BY <1>1, <1>3, <1>5 DEF Inv, TypeOK, Entries, FlushSteps, RecordCount
  <1>7. FlushPlace' /\ OldMarker'
    BY <1>1, <1>4, <1>5 DEF Inv, FlushPlace, OldMarker
  <1>8. OnceEach'
    BY <1>1, <1>3, <1>5 DEF Inv, OnceEach
  <1>9. Fresh'
    BY <1>1, <1>3, <1>5 DEF Inv, Fresh
  <1>10. OwnSlot'
    BY <1>1, ClientsKept DEF Inv
  <1>11. NotYetStored'
    BY <1>1, <1>3, <1>5 DEF Inv, OwnSlot, NotYetStored, Pending
  <1>12. (serial => Copies)'
    <2> SUFFICES ASSUME serial, NEW r \in Records PROVE CopiesOf(r)'
      BY <1>1 DEF Copies
    <2>1. /\ ckpt[r] <= 1 + crashes
          /\ Behind(wal, r) => FALSE
          /\ Beyond(appended, new_head, r) => ckpt[r] <= crashes
          /\ Has(remaining, r) => ckpt[r] <= crashes
          /\ Has(wal, r) => ckpt[r] <= crashes
          /\ m_head = new_head
      BY <1>1, <1>4 DEF Inv, Copies, CopiesOf, Saved, FlushPlace, Behind, Has
    <2>2. QED
      BY <2>1, <1>1, <1>3, <1>5 DEF CopiesOf
  <1>13. QED
    BY <1>6, <1>7, <1>8, <1>9, <1>10, <1>11, <1>12 DEF Inv

\* Inv and a restart: the budget of every record grows by one copy.
LEMMA InvRestart ==
  ASSUME Inv, Restart PROVE Inv'
  <1>0. None \notin Records /\ wal \in Seq(Entries)
    BY DurabilityAssumption DEF Inv, TypeOK, Records, Entries, None
  <1>1. /\ UNCHANGED <<wal, ckpt, nrec, serial, acked>>
        /\ crashes < MaxCrashes /\ crashes' = crashes + 1
        /\ m_data' = [p \in Slots |-> IF p < Len(appended') THEN appended'[p + 1] ELSE None]
        /\ appended' = Replay(wal) /\ m_head' = 0 /\ new_head' = 0 /\ remaining' = <<>>
        /\ pc' = [c \in Clients |-> "idle"] /\ rec' = [c \in Clients |-> None]
        /\ idx' = [c \in Clients |-> 0] /\ fpc' = "idle"
    BY DEF Restart, disk
  <1>2. /\ appended' \in Seq(Records) /\ Len(appended') <= HWM /\ Once(appended')
        /\ \A r \in Records : Has(appended', r) => Has(wal, r)
    <2>1. PICK s : s = wal
      OBVIOUS
    <2>2. s \in Seq(Entries) /\ Once(s)
      BY <2>1, <1>0 DEF Inv, OnceEach
    <2>3. /\ Replay(s) \in Seq(Records) /\ Len(Replay(s)) <= HWM /\ Once(Replay(s))
          /\ \A r \in Records : Has(Replay(s), r) => Has(s, r)
      BY <2>2, ReplayFacts
    <2>4. QED
      BY <2>1, <2>3, <1>1
  <1>3. appended' \in Seq(Records \cup {None}) /\ Len(appended') \in Nat
    BY <1>2, SeqMonotonic, LenProperties
  <1>4. /\ m_data' \in [Slots -> Records \cup {None}]
        /\ \A r \in Records : Has(m_data', r) => Has(wal, r)
    <2>1. DOMAIN appended' = 1..Len(appended')
      BY <1>2, LenProperties
    <2>2. \A p \in Slots : p < Len(appended') =>
            p + 1 \in DOMAIN appended' /\ appended'[p + 1] \in Records /\ Has(appended', appended'[p + 1])
      BY <2>1, <1>2, <1>3 DEF Slots, Has
    <2>3. DOMAIN m_data' = Slots
      BY <1>1
    <2>4. \A p \in Slots : m_data'[p] = IF p < Len(appended') THEN appended'[p + 1] ELSE None
      BY <1>1
    <2>5. ASSUME NEW r \in Records, Has(m_data', r) PROVE Has(wal, r)
      BY <2>2, <2>3, <2>4, <2>5, <1>0, <1>2 DEF Has
    <2>6. m_data' \in [Slots -> Records \cup {None}]
      BY <2>2, <1>1
    <2>7. QED
      BY <2>5, <2>6
  <1>5. crashes \in Nat /\ crashes' \in 0..MaxCrashes
    BY <1>1, DurabilityAssumption DEF Inv, TypeOK
  <1>6. TypeOK'
    <2>1. /\ pc' \in [Clients -> {"idle", "claim", "log", "store"}]
          /\ rec' \in [Clients -> Records \cup {None}] /\ idx' \in [Clients -> 0..Len(appended')]
          /\ fpc' \in FlushSteps /\ remaining' \in Seq(Records)
      BY <1>1, <1>3, EmptySeq DEF FlushSteps
    <2>2. m_head' \in 0..Len(appended') /\ RecordCount' <= HWM /\ new_head' \in 0..Len(appended')
      BY <1>1, <1>2, <1>3 DEF RecordCount
    <2>3. QED
      BY <2>1, <2>2, <1>1, <1>3, <1>4, <1>5 DEF Inv, TypeOK
  <1>7. FlushPlace' /\ OldMarker'
    BY <1>1, <1>5 DEF FlushPlace, OldMarker
  <1>8. OnceEach'
    BY <1>1, <1>2, EmptyFacts DEF Inv, OnceEach
  <1>9. Fresh'
    BY <1>0, <1>1, <1>2, <1>4, EmptyFacts DEF Inv, Fresh
  <1>10. OwnSlot' /\ NotYetStored'
    BY <1>1 DEF OwnSlot, NotYetStored, Pending
  <1>11. (serial => Copies)'
    <2> SUFFICES ASSUME serial, NEW r \in Records PROVE CopiesOf(r)'
      BY <1>1 DEF Copies
    <2>1. ckpt[r] \in Nat /\ ckpt[r] <= 1 + crashes /\ (Behind(wal, r) => ckpt[r] <= crashes)
      BY DEF Inv, TypeOK, Copies, CopiesOf
    <2>2. ~Saved' /\ fpc' # "rewrite" /\ ~Has(remaining', r)
      BY <1>1, EmptyFacts DEF Saved
    <2>3. QED
      BY <2>1, <2>2, <1>1, <1>5 DEF CopiesOf
  <1>12. QED
    BY <1>6, <1>7, <1>8, <1>9, <1>10, <1>11 DEF Inv

\* Inv is about the variables only.
LEMMA InvStutter == ASSUME Inv, UNCHANGED vars PROVE Inv'
  <1>1. /\ UNCHANGED <<wal, ckpt, appended, m_data, m_head, pc, rec, idx, new_head, remaining>>
        /\ UNCHANGED <<nrec, crashes, serial, acked, fpc>>
    BY DEF vars, disk, buffer, clientVars, flushVars, history
  <1>2. TypeOK'
    BY <1>1 DEF Inv, TypeOK, RecordCount
  <1>3. FlushPlace' /\ OldMarker' /\ OnceEach' /\ Fresh'
    BY <1>1 DEF Inv, FlushPlace, OldMarker, OnceEach, Unsaved, Fresh
  <1>4. OwnSlot' /\ NotYetStored'
    BY <1>1, ClientsKept DEF Inv
  <1>5. (serial => Copies)'
    BY <1>1 DEF Inv, Copies, CopiesOf, Saved, Unsaved
  <1>6. QED
    BY <1>2, <1>3, <1>4, <1>5 DEF Inv

-----------------------------------------------------------------------------
(***************************************************************************)
(* What SerialScheduler adds: the flush runs inside one insert, so nothing *)
(* is logged behind its FLUSH_B and the log has what the buffer has.       *)
(***************************************************************************)

\* One call at a time; a flush is inside an insert that has claimed nothing yet.  With a
\* marker of an earlier run in the log, the first insert flushes before it claims.
SerialOrder ==
  /\ \A c, d \in Clients : pc[c] # "idle" /\ pc[d] # "idle" => c = d
  /\ fpc # "idle" => \A c \in Clients : ~Pending(c)
  /\ fpc = "idle" /\ Has(wal, FLUSH_B) => \A c \in Clients : pc[c] = "idle"
  /\ remaining = <<>> /\ fpc # "rewrite"
  /\ \A r \in Records : ~Behind(wal, r)

Logged == Len(Inserts(wal))

AtLog == \E c \in Clients : pc[c] = "log"

\* The buffer is as long as the log, but for a record that is about to be logged.
SerialCount ==
  /\ Logged <= HWM
  /\ fpc \in {"idle", "view", "save", "begin", "advance"} =>
       RecordCount = Logged + (IF AtLog THEN 1 ELSE 0)
  /\ fpc \in {"complete", "truncate"} => RecordCount = 0
  /\ fpc # "idle" \/ Has(wal, FLUSH_B) => Logged >= LWM
  /\ fpc \in {"save", "begin", "advance"} => new_head = Len(appended)

\* A logged record is in the buffer, or about to be, until a shard has it.
SerialHeld ==
  /\ \A c \in Clients : Pending(c) => idx[c] > m_head
  /\ \A c \in Clients : pc[c] = "store" => Has(wal, rec[c])
  /\ \A r \in Records : Has(wal, r) =>
       /\ Unsaved => \/ Beyond(appended, m_head, r)
                     \/ \E c \in Clients : pc[c] = "store" /\ rec[c] = r
       /\ Saved => ckpt[r] > 0
  /\ \A r \in acked : ckpt[r] > 0 \/ Has(wal, r)

\* The ring has the records of the buffer, but for one that is about to be stored.
SerialRing ==
  \A i \in DOMAIN appended : i > m_head =>
    \/ appended[i] # None /\ m_data[(i - 1) % Cap] = appended[i]
    \/ \E c \in Clients : Pending(c) /\ idx[c] = i

SerialInv == SerialOrder /\ SerialCount /\ SerialHeld /\ SerialRing

\* The numbers that SerialCount compares.
LEMMA SerialTypes ==
  ASSUME Inv
  PROVE  /\ Logged \in Nat /\ RecordCount \in Int /\ Len(appended) \in Nat /\ m_head \in Nat
         /\ HWM \in Nat /\ LWM \in Nat \ {0} /\ RecordCount <= HWM
         /\ wal \in Seq(Entries) /\ FLUSH_B \notin Records /\ DOMAIN appended = 1..Len(appended)
  <1>1. wal \in Seq(Entries) /\ FLUSH_B \notin Records
    BY DurabilityAssumption DEF Inv, TypeOK, Entries, Records, FLUSH_B
  <1>2. Inserts(wal) \in Seq(Records)
    <2>1. PICK s : s = wal
      OBVIOUS
    <2>2. Inserts(s) \in Seq(Records)
      BY <2>1, <1>1, InsertsFacts
    <2>3. QED
      BY <2>1, <2>2
  <1>3. Logged \in Nat
    BY <1>2, LenProperties DEF Logged
  <1>4. Len(appended) \in Nat /\ DOMAIN appended = 1..Len(appended)
    BY LenProperties DEF Inv, TypeOK
  <1>5. QED
    BY <1>1, <1>3, <1>4, DurabilityAssumption DEF Inv, TypeOK, RecordCount

\* SerialInv holds when the program starts.
LEMMA SerialInit == Init => SerialInv
  <1> SUFFICES ASSUME Init PROVE SerialInv
    OBVIOUS
  <1>1. Inserts(wal) = <<>> /\ Len(<<>>) = 0
    BY InsertsEmpty, EmptySeq DEF Init
  <1>2. Logged = 0 /\ ~AtLog /\ RecordCount = 0 /\ HWM \in Nat
    BY <1>1, DurabilityAssumption DEF Init, Logged, AtLog, RecordCount
  <1>3. SerialOrder
    BY EmptyFacts DEF Init, SerialOrder
  <1>4. SerialCount
    BY <1>2, EmptyFacts DEF Init, SerialCount
  <1>5. SerialHeld
    BY EmptyFacts DEF Init, SerialHeld, Pending
  <1>6. SerialRing
    BY DEF Init, SerialRing
  <1>7. QED
    BY <1>3, <1>4, <1>5, <1>6 DEF SerialInv

\* SerialInv and the beginning of insert.
LEMMA SerialInsert ==
  ASSUME Inv, serial, SerialInv, NEW c \in Clients, Insert(c) PROVE SerialInv'
  <1>1. /\ UNCHANGED <<wal, ckpt, appended, m_data, m_head, rec, idx, new_head, remaining, acked>>
        /\ fpc = "idle" /\ fpc' = IF RecordCount >= LWM THEN "view" ELSE "idle"
        /\ \A d \in Clients : pc[d] = "idle"
        /\ pc' = [pc EXCEPT ![c] = "claim"]
    BY DEF Insert, MayInsert, disk, buffer, history
  <1>2. \A d \in Clients : /\ pc'[d] = IF d = c THEN "claim" ELSE "idle"
                           /\ ~Pending(d)' /\ ~Pending(d)
    BY <1>1 DEF Inv, TypeOK, Pending
  <1>3. /\ Logged' = Logged /\ RecordCount' = RecordCount /\ ~AtLog /\ ~AtLog'
        /\ RecordCount = Logged
    <2>1. Logged' = Logged /\ RecordCount' = RecordCount
      BY <1>1 DEF Logged, RecordCount
    <2>2. ~AtLog /\ ~AtLog'
      BY <1>1, <1>2 DEF AtLog
    <2>3. QED
      BY <2>1, <2>2, <1>1, SerialTypes DEF SerialInv, SerialCount
  <1>4. SerialOrder'
    <2>1. fpc' = "idle" => ~Has(wal, FLUSH_B)
      BY <1>1, <1>3, SerialTypes DEF SerialInv, SerialCount
    <2>2. QED
      BY <2>1, <1>1, <1>2 DEF SerialInv, SerialOrder
  <1>5. SerialCount'
    BY <1>1, <1>3, SerialTypes DEF SerialInv, SerialCount
  <1>6. SerialHeld'
    BY <1>1, <1>2 DEF SerialInv, SerialHeld, Saved, Unsaved
  <1>7. SerialRing'
    BY <1>1, <1>2 DEF SerialInv, SerialRing
  <1>8. QED
    BY <1>4, <1>5, <1>6, <1>7 DEF SerialInv

\* SerialInv and the claim of a slot, which is logged and stored before anything else.
LEMMA SerialClaim ==
  ASSUME Inv, serial, SerialInv, NEW c \in Clients, Claim(c) PROVE SerialInv'
  <1>1. /\ UNCHANGED <<wal, ckpt, m_data, m_head, new_head, remaining, acked, fpc>>
        /\ fpc = "idle" /\ pc[c] = "claim"
    BY DEF Claim, disk, flushVars
  <1>2. /\ \A d \in Clients : d # c => pc[d] = "idle"
        /\ ~Has(wal, FLUSH_B)
    BY <1>1 DEF SerialInv, SerialOrder
  <1>3. Logged' = Logged /\ ~AtLog /\ RecordCount = Logged
    <2>1. Logged' = Logged /\ ~AtLog
      BY <1>1, <1>2 DEF Logged, AtLog
    <2>2. QED
      BY <2>1, <1>1, SerialTypes DEF SerialInv, SerialCount
  <1>4. CASE Full
    <2>1. UNCHANGED <<appended, m_data, rec, idx>> /\ pc' = [pc EXCEPT ![c] = "idle"]
      BY <1>4 DEF Claim
    <2>2. \A d \in Clients : pc'[d] = "idle" /\ ~Pending(d)' /\ ~Pending(d)
      BY <2>1, <1>1, <1>2 DEF Inv, TypeOK, Pending
    <2>3. RecordCount' = RecordCount /\ ~AtLog'
      BY <2>1, <2>2, <1>1 DEF RecordCount, AtLog
    <2>4. SerialOrder'
      BY <2>2, <1>1 DEF SerialInv, SerialOrder
    <2>5. SerialCount'
      BY <2>3, <1>1, <1>3, SerialTypes DEF SerialInv, SerialCount
    <2>6. SerialHeld'
      BY <2>1, <2>2, <1>1, <1>2 DEF SerialInv, SerialHeld, Saved, Unsaved
    <2>7. SerialRing'
      BY <2>1, <2>2, <1>1 DEF SerialInv, SerialRing
    <2>8. QED
      BY <2>4, <2>5, <2>6, <2>7 DEF SerialInv
  <1>5. CASE ~Full
    <2>1. /\ pc' = [pc EXCEPT ![c] = "log"] /\ appended' = Append(appended, None)
          /\ rec' = [rec EXCEPT ![c] = nrec'] /\ idx' = [idx EXCEPT ![c] = Len(appended')]
      BY <1>5 DEF Claim
    <2>2. \A d \in Clients : /\ d # c => pc'[d] = "idle" /\ ~Pending(d)'
                             /\ pc'[c] = "log" /\ idx'[c] = Len(appended')
      BY <2>1, <1>1, <1>2 DEF Inv, TypeOK, Pending
    <2>3. Len(appended') = Len(appended) + 1
      <3>1. None \in Records \cup {None} /\ appended \in Seq(Records \cup {None})
        BY DEF Inv, TypeOK
      <3>2. QED
        BY <2>1, <3>1
    <2>4. RecordCount' = RecordCount + 1 /\ AtLog'
      <3>1. RecordCount' = RecordCount + 1
        BY <2>3, <1>1, SerialTypes DEF RecordCount
      <3>2. AtLog'
        BY <2>2 DEF AtLog
      <3>3. QED
        BY <3>1, <3>2
    <2>5. SerialOrder'
      BY <2>2, <1>1, <1>2 DEF SerialInv, SerialOrder
    <2>6. SerialCount'
      BY <2>4, <1>1, <1>2, <1>3, SerialTypes DEF SerialInv, SerialCount
    <2>7. SerialHeld'
      <3>1. \A d \in Clients : Pending(d)' => idx'[d] > m_head'
        BY <2>2, <2>3, <1>1, SerialTypes DEF Inv, TypeOK
      <3>2. \A d \in Clients : pc'[d] # "store" /\ pc[d] # "store"
        BY <2>2, <1>1, <1>2
      <3>3. ASSUME NEW r \in Records, Has(wal, r) PROVE Beyond(appended', m_head, r) /\ ~Saved'
        <4>1. Beyond(appended, m_head, r) /\ ~Saved'
          BY <3>2, <3>3, <1>1 DEF SerialInv, SerialHeld, Unsaved, Saved
        <4>2. PICK s, n : s = appended /\ n = m_head
          OBVIOUS
        <4>3. s \in Seq(Records \cup {None}) /\ None \in Records \cup {None} /\ n \in Nat
          BY <4>2, SerialTypes DEF Inv, TypeOK
        <4>4. Beyond(s, n, r) => Beyond(Append(s, None), n, r)
          BY <4>3, BeyondAppend
        <4>5. QED
          BY <4>1, <4>2, <4>4, <2>1
      <3>4. \A r \in acked : ckpt[r] > 0 \/ Has(wal, r)
        BY DEF SerialInv, SerialHeld
      <3>5. QED
        BY <3>1, <3>2, <3>3, <3>4, <1>1 DEF SerialHeld
    <2>8. SerialRing'
      <3>1. /\ DOMAIN appended = 1..Len(appended) /\ DOMAIN appended' = 1..(Len(appended) + 1)
            /\ \A i \in DOMAIN appended : appended'[i] = appended[i]
        <4>1. PICK s : s = appended
          OBVIOUS
        <4>2. None \in Records \cup {None} /\ s \in Seq(Records \cup {None})
          BY <4>1 DEF Inv, TypeOK
        <4>3. /\ DOMAIN s = 1..Len(s) /\ DOMAIN Append(s, None) = 1..(Len(s) + 1)
              /\ \A i \in 1..Len(s) : Append(s, None)[i] = s[i]
          BY <4>2, AppendFacts
        <4>4. QED
          BY <4>1, <4>3, <2>1
      <3>2. ASSUME NEW i \in DOMAIN appended, i > m_head
            PROVE  appended'[i] # None /\ m_data'[(i - 1) % Cap] = appended'[i]
        <4>1. \A d \in Clients : ~Pending(d)
          BY <1>1, <1>2 DEF Pending
        <4>2. QED
          BY <3>1, <3>2, <4>1, <1>1 DEF SerialInv, SerialRing
      <3>3. Pending(c)' /\ idx'[c] = Len(appended) + 1
        BY <2>2, <2>3 DEF Pending
      <3>4. \A i \in DOMAIN appended' : i \in DOMAIN appended \/ i = Len(appended) + 1
        BY <3>1, SerialTypes
      <3>5. QED
        BY <3>2, <3>3, <3>4, <1>1 DEF SerialRing
    <2>9. QED
      BY <2>5, <2>6, <2>7, <2>8 DEF SerialInv
  <1>6. QED
    BY <1>4, <1>5

\* SerialInv and the logged entry: the log keeps the order of the slots.
LEMMA SerialLog ==
  ASSUME Inv, serial, SerialInv, NEW c \in Clients, Log(c) PROVE SerialInv'
  <1>1. /\ UNCHANGED <<ckpt, appended, m_data, m_head, rec, idx, new_head, remaining, acked, fpc>>
        /\ pc[c] = "log" /\ pc' = [pc EXCEPT ![c] = "store"]
        /\ wal' = Append(wal, rec[c])
    BY DEF Log, buffer, flushVars, history
  <1>2. /\ fpc = "idle" /\ ~Has(wal, FLUSH_B) /\ rec[c] \in Records
        /\ \A d \in Clients : d # c => pc[d] = "idle"
    BY <1>1 DEF Inv, OwnSlot, SerialInv, SerialOrder, Pending
  <1>3. /\ \A x : Has(wal', x) <=> Has(wal, x) \/ x = rec[c]
        /\ \A x \in Records : ~Behind(wal', x)
        /\ Logged' = Logged + 1
    <2>1. PICK s, e : s = wal /\ e = rec[c]
      OBVIOUS
    <2>2. s \in Seq(Entries) /\ e \in Entries /\ e \in Records /\ ~Has(s, FLUSH_B)
      BY <2>1, <1>2, SerialTypes DEF Entries
    <2>3. \A x : Has(Append(s, e), x) <=> Has(s, x) \/ x = e
      BY <2>2, HasAppend
    <2>4. \A x : Behind(Append(s, e), x) <=> Behind(s, x)
      BY <2>2, BehindAppend
    <2>5. Len(Inserts(Append(s, e))) = Len(Inserts(s)) + 1
      <3>1. Inserts(Append(s, e)) = Append(Inserts(s), e)
        BY <2>2, InsertsAppend
      <3>2. Inserts(s) \in Seq(Records)
        BY <2>2, InsertsFacts
      <3>3. QED
        BY <3>1, <3>2, <2>2
    <2>6. wal' = Append(s, e)
      BY <2>1, <1>1
    <2>7. \A x \in Records : ~Behind(wal', x)
      BY <2>1, <2>4, <2>6 DEF SerialInv, SerialOrder
    <2>8. QED
      BY <2>1, <2>3, <2>5, <2>6, <2>7 DEF Logged
  <1>4. \A d \in Clients : /\ pc'[d] = IF d = c THEN "store" ELSE "idle"
                           /\ Pending(d)' <=> Pending(d)
    BY <1>1, <1>2 DEF Inv, TypeOK, Pending
  <1>5. ~Has(wal', FLUSH_B)
    BY <1>2, <1>3, SerialTypes
  <1>6. SerialOrder'
    BY <1>1, <1>2, <1>3, <1>4, <1>5 DEF SerialInv, SerialOrder
  <1>7. SerialCount'
    <2>1. AtLog /\ ~AtLog' /\ RecordCount' = RecordCount
      BY <1>1, <1>4 DEF AtLog, RecordCount
    <2>2. RecordCount = Logged + 1
      BY <2>1, <1>2 DEF SerialInv, SerialCount
    <2>3. QED
      BY <2>1, <2>2, <1>1, <1>2, <1>3, <1>5, SerialTypes DEF SerialCount
  <1>8. SerialHeld'
    <2>1. pc'[c] = "store" /\ rec'[c] = rec[c] /\ \A d \in Clients : d # c => pc'[d] # "store"
      BY <1>1, <1>4
    <2>2. \A d \in Clients : Pending(d)' => idx'[d] > m_head'
      BY <1>1, <1>4 DEF SerialInv, SerialHeld
    <2>3. \A d \in Clients : pc'[d] = "store" => Has(wal', rec'[d])
      BY <2>1, <1>3
    <2>4. ASSUME NEW r \in Records, Has(wal', r)
          PROVE  Beyond(appended, m_head, r) \/ rec[c] = r
      <3>1. \A d \in Clients : pc[d] # "store"
        BY <1>1, <1>2
      <3>2. QED
        BY <2>4, <3>1, <1>2, <1>3 DEF SerialInv, SerialHeld, Unsaved
    <2>5. \A r \in acked : ckpt[r] > 0 \/ Has(wal', r)
      BY <1>3 DEF SerialInv, SerialHeld
    <2>6. ~Saved'
      BY <1>1, <1>2 DEF Saved
    <2>7. QED
      BY <2>1, <2>2, <2>3, <2>4, <2>5, <2>6, <1>1 DEF SerialHeld
  <1>9. SerialRing'
    BY <1>1, <1>4 DEF SerialInv, SerialRing
  <1>10. QED
    BY <1>6, <1>7, <1>8, <1>9 DEF SerialInv

\* SerialInv and the stored record, which is acknowledged with it.
LEMMA SerialStore ==
  ASSUME Inv, serial, SerialInv, NEW c \in Clients, Store(c) PROVE SerialInv'
  <1>1. /\ UNCHANGED <<wal, ckpt, m_head, new_head, remaining, fpc>>
        /\ pc' = [pc EXCEPT ![c] = "idle"] /\ pc[c] = "store"
        /\ appended' = [appended EXCEPT ![idx[c]] = rec[c]]
        /\ m_data' = [m_data EXCEPT ![(idx[c] - 1) % Cap] = rec[c]]
        /\ acked' = acked \cup {rec[c]}
    BY DEF Store, disk, flushVars
  <1>2. /\ fpc = "idle" /\ ~Has(wal, FLUSH_B) /\ rec[c] \in Records /\ Has(wal, rec[c])
        /\ idx[c] \in DOMAIN appended /\ appended[idx[c]] = None /\ idx[c] > m_head
        /\ \A d \in Clients : d # c => pc[d] = "idle"
    BY <1>1 DEF Inv, OwnSlot, SerialInv, SerialOrder, SerialHeld, Pending
  <1>3. \A d \in Clients : pc'[d] = "idle" /\ ~Pending(d)'
    BY <1>1, <1>2 DEF Inv, TypeOK, Pending
  <1>4. /\ Len(appended') = Len(appended) /\ DOMAIN appended' = DOMAIN appended
        /\ appended'[idx[c]] = rec[c]
        /\ \A i \in DOMAIN appended : i # idx[c] => appended'[i] = appended[i]
    <2>1. PICK s, t, k, r : s = appended /\ t = [s EXCEPT ![k] = r] /\ k = idx[c] /\ r = rec[c]
      OBVIOUS
    <2>2. /\ s \in Seq(Records \cup {None}) /\ k \in DOMAIN s /\ s[k] = None /\ r \in Records
          /\ t = [s EXCEPT ![k] = r]
      BY <2>1, <1>2 DEF Inv, TypeOK
    <2>3. /\ Len(t) = Len(s) /\ DOMAIN t = DOMAIN s /\ t[k] = r
          /\ \A i \in DOMAIN s : i # k => t[i] = s[i]
      BY <2>2, StoreFacts
    <2>4. appended' = t
      BY <2>1, <1>1
    <2>5. QED
      BY <2>1, <2>3, <2>4
  <1>5. SerialOrder'
    BY <1>1, <1>3 DEF SerialInv, SerialOrder
  <1>6. SerialCount'
    <2>1. Logged' = Logged /\ RecordCount' = RecordCount
      BY <1>1, <1>4 DEF Logged, RecordCount
    <2>2. ~AtLog /\ ~AtLog'
      BY <1>1, <1>2, <1>3 DEF AtLog
    <2>3. QED
      BY <2>1, <2>2, <1>1, <1>4 DEF SerialInv, SerialCount
  <1>7. SerialHeld'
    <2>1. ASSUME NEW r \in Records, Has(wal, r) PROVE Beyond(appended', m_head, r) /\ ~Saved'
      <3>1. ~Saved'
        BY <1>1, <1>2 DEF Saved
      <3>2. Beyond(appended, m_head, r) \/ r = rec[c]
        BY <2>1, <1>2 DEF SerialInv, SerialHeld, Unsaved
      <3>3. CASE r = rec[c]
        BY <3>1, <3>3, <1>2, <1>4 DEF Beyond
      <3>4. CASE Beyond(appended, m_head, r)
        <4>1. PICK i \in DOMAIN appended : i > m_head /\ appended[i] = r
          BY <3>4 DEF Beyond
        <4>2. r # None
          BY DurabilityAssumption DEF Records, None
        <4>3. appended'[i] = r /\ i \in DOMAIN appended'
          BY <4>1, <4>2, <1>2, <1>4
        <4>4. QED
          BY <3>1, <4>1, <4>3 DEF Beyond
      <3>5. QED
        BY <3>2, <3>3, <3>4
    <2>2. \A r \in acked' : ckpt[r] > 0 \/ Has(wal, r)
      BY <1>1, <1>2 DEF SerialInv, SerialHeld
    <2>3. QED
      BY <2>1, <2>2, <1>1, <1>3 DEF SerialHeld
  <1>8. SerialRing'
    <2> SUFFICES ASSUME NEW i \in DOMAIN appended, i > m_head
                 PROVE  appended'[i] # None /\ m_data'[(i - 1) % Cap] = appended'[i]
      BY <1>1, <1>4 DEF SerialRing
    <2>1. None \notin Records /\ Cap \in Nat \ {0} /\ Cap > HWM
      BY DurabilityAssumption DEF Records, None
    <2>2. PICK k : k = idx[c] /\ k \in DOMAIN appended /\ k > m_head
      BY <1>2
    <2>3. /\ i \in Nat /\ k \in Nat /\ i - 1 \in Nat /\ k - 1 \in Nat
          /\ i - 1 < (k - 1) + Cap /\ k - 1 < (i - 1) + Cap
      <3>1. /\ Len(appended) \in Nat /\ m_head \in Nat /\ HWM \in Nat /\ Len(appended) - m_head <= HWM
            /\ DOMAIN appended = 1..Len(appended)
        BY SerialTypes DEF RecordCount
      <3>2. QED
        BY <3>1, <2>1, <2>2
    <2>4. (i - 1) % Cap \in Slots /\ (k - 1) % Cap \in Slots
      BY <2>1, <2>3 DEF Slots
    <2>5. m_data' = [m_data EXCEPT ![(k - 1) % Cap] = rec[c]] /\ m_data \in [Slots -> Records \cup {None}]
      BY <2>2, <1>1 DEF Inv, TypeOK
    <2>6. CASE i = k
      BY <2>1, <2>2, <2>4, <2>5, <2>6, <1>2, <1>4
    <2>7. CASE i # k
      <3>1. \A d \in Clients : Pending(d) => d = c
        BY <1>2 DEF Pending
      <3>2. appended[i] # None /\ m_data[(i - 1) % Cap] = appended[i]
        BY <2>2, <2>7, <3>1 DEF SerialInv, SerialRing
      <3>3. (i - 1) % Cap # (k - 1) % Cap
        <4> SUFFICES ASSUME (i - 1) % Cap = (k - 1) % Cap PROVE FALSE
          OBVIOUS
        <4>1. PICK x, y : x = i - 1 /\ y = k - 1
          OBVIOUS
        <4>2. x \in Nat /\ y \in Nat /\ x % Cap = y % Cap /\ x < y + Cap /\ y < x + Cap /\ x # y
          BY <4>1, <2>3, <2>7
        <4>3. y <= x
          BY <4>2, <2>1, LapsApart
        <4>4. x <= y
          BY <4>2, <2>1, LapsApart
        <4>5. QED
          BY <4>2, <4>3, <4>4
      <3>4. QED
        BY <2>2, <2>4, <2>5, <2>7, <3>2, <3>3, <1>4
    <2>8. QED
      BY <2>6, <2>7
  <1>9. QED
    BY <1>5, <1>6, <1>7, <1>8 DEF SerialInv

\* SerialInv and the view of the flush: it covers the whole buffer.
LEMMA SerialTakeView ==
  ASSUME Inv, serial, SerialInv, TakeView PROVE SerialInv'
  <1>1. /\ UNCHANGED <<wal, ckpt, appended, m_data, m_head, pc, rec, idx, remaining, acked>>
        /\ fpc = "view" /\ fpc' = "save" /\ new_head' = Len(appended)
    BY DEF TakeView, disk, buffer, clientVars, history
  <1>2. /\ Logged' = Logged /\ RecordCount' = RecordCount /\ AtLog' = AtLog
        /\ \A d \in Clients : Pending(d)' = Pending(d)
    BY <1>1 DEF Logged, RecordCount, AtLog, Pending
  <1>3. SerialOrder'
    BY <1>1, <1>2 DEF SerialInv, SerialOrder
  <1>4. SerialCount'
    BY <1>1, <1>2 DEF SerialInv, SerialCount
  <1>5. SerialHeld'
    BY <1>1, <1>2 DEF SerialInv, SerialHeld, Saved, Unsaved
  <1>6. SerialRing'
    BY <1>1, <1>2 DEF SerialInv, SerialRing
  <1>7. QED
    BY <1>3, <1>4, <1>5, <1>6 DEF SerialInv

\* SerialInv and the saved checkpoint: it has all the log has.
LEMMA SerialSaveShard ==
  ASSUME Inv, serial, SerialInv, SaveShard, Flushed = SubSeq(appended, m_head + 1, new_head)
  PROVE  SerialInv'
  <1>1. /\ UNCHANGED <<wal, appended, m_data, m_head, pc, rec, idx, new_head, remaining, acked>>
        /\ fpc = "save" /\ fpc' = "begin"
        /\ ckpt' = [r \in Records |-> ckpt[r] + Occurrences(Flushed, r)]
    BY DEF SaveShard, buffer, clientVars, history
  <1>2. /\ Logged' = Logged /\ RecordCount' = RecordCount /\ AtLog' = AtLog
        /\ \A d \in Clients : Pending(d)' = Pending(d)
    BY <1>1 DEF Logged, RecordCount, AtLog, Pending
  <1>3. ASSUME NEW r \in Records
        PROVE  /\ ckpt[r] > 0 => ckpt'[r] > 0
               /\ Beyond(appended, m_head, r) => ckpt'[r] > 0
    <2>1. PICK s, h, n : s = appended /\ h = m_head /\ n = new_head
      OBVIOUS
    <2>2. PICK q : q = SubSeq(s, h + 1, n)
      OBVIOUS
    <2>3. /\ s \in Seq(Records \cup {None}) /\ h + 1 \in Nat \ {0} /\ n \in Nat /\ n = Len(s) /\ h \in Nat
          /\ DOMAIN s = 1..n
      BY <2>1, <1>1, SerialTypes DEF Inv, TypeOK, SerialInv, SerialCount
    <2>4. /\ q \in Seq(Records \cup {None})
          /\ \A x : Has(q, x) <=> \E i \in (h + 1)..n : s[i] = x
      BY <2>2, <2>3, SubSeqFacts
    <2>5. Occurrences(q, r) \in Nat /\ (Has(q, r) <=> Occurrences(q, r) > 0)
      BY <2>4, OccurrencesFacts
    <2>6. Flushed = q
      BY <2>1, <2>2
    <2>7. ckpt'[r] = ckpt[r] + Occurrences(q, r) /\ ckpt[r] \in Nat
      BY <2>6, <1>1 DEF Inv, TypeOK
    <2>8. Beyond(s, h, r) => Has(q, r)
      BY <2>3, <2>4 DEF Beyond
    <2>9. QED
      BY <2>1, <2>5, <2>7, <2>8
  <1>4. SerialOrder'
    BY <1>1, <1>2 DEF SerialInv, SerialOrder
  <1>5. SerialCount'
    BY <1>1, <1>2 DEF SerialInv, SerialCount
  <1>6. SerialHeld'
    <2>1. \A d \in Clients : pc[d] # "store"
      BY <1>1 DEF SerialInv, SerialOrder, Pending
    <2>2. \A r \in Records : Has(wal, r) => ckpt'[r] > 0
      BY <2>1, <1>1, <1>3 DEF SerialInv, SerialHeld, Unsaved
    <2>3. \A r \in acked : ckpt'[r] > 0 \/ Has(wal, r)
      BY <1>3 DEF Inv, TypeOK, SerialInv, SerialHeld
    <2>4. QED
      BY <2>1, <2>2, <2>3, <1>1, <1>2 DEF SerialInv, SerialHeld, Unsaved
  <1>7. SerialRing'
    BY <1>1, <1>2 DEF SerialInv, SerialRing
  <1>8. QED
    BY <1>4, <1>5, <1>6, <1>7 DEF SerialInv

\* A marker at the end of the log changes nothing of what a replay brings back.
LEMMA MarkerKept ==
  ASSUME NEW s \in Seq(Entries), NEW e \in {FLUSH_B, FLUSH_C}
  PROVE  /\ Inserts(Append(s, e)) = Inserts(s)
         /\ \A r \in Records : /\ Has(Append(s, e), r) <=> Has(s, r)
                               /\ Behind(Append(s, e), r) <=> Behind(s, r)
  <1>1. e \in Entries /\ e \notin Records
    BY DurabilityAssumption DEF Entries, Records, FLUSH_B, FLUSH_C
  <1>2. Inserts(Append(s, e)) = Inserts(s)
    BY <1>1, InsertsAppend
  <1>3. \A x : Has(Append(s, e), x) <=> Has(s, x) \/ x = e
    BY <1>1, HasAppend
  <1>4. \A x : Behind(Append(s, e), x) <=> Behind(s, x) \/ (x = e /\ Has(s, FLUSH_B))
    BY <1>1, BehindAppend
  <1>5. QED
    BY <1>1, <1>2, <1>3, <1>4

\* SerialInv and the FLUSH_B marker.
LEMMA SerialFlushBegin ==
  ASSUME Inv, serial, SerialInv, FlushBegin PROVE SerialInv'
  <1>1. /\ UNCHANGED <<ckpt, appended, m_data, m_head, pc, rec, idx, new_head, remaining, acked>>
        /\ fpc = "begin" /\ fpc' = "advance" /\ wal' = Append(wal, FLUSH_B)
    BY DEF FlushBegin, buffer, clientVars, history
  <1>2. /\ Inserts(wal') = Inserts(wal)
        /\ \A r \in Records : (Has(wal', r) <=> Has(wal, r)) /\ (Behind(wal', r) <=> Behind(wal, r))
    <2>1. PICK s : s = wal
      OBVIOUS
    <2>2. s \in Seq(Entries)
      BY <2>1, SerialTypes
    <2>3. /\ Inserts(Append(s, FLUSH_B)) = Inserts(s)
          /\ \A r \in Records : /\ Has(Append(s, FLUSH_B), r) <=> Has(s, r)
                                /\ Behind(Append(s, FLUSH_B), r) <=> Behind(s, r)
      BY <2>2, MarkerKept
    <2>4. QED
      BY <2>1, <2>3, <1>1
  <1>3. /\ Logged' = Logged /\ RecordCount' = RecordCount /\ AtLog' = AtLog
        /\ \A d \in Clients : Pending(d)' = Pending(d)
    BY <1>1, <1>2 DEF Logged, RecordCount, AtLog, Pending
  <1>4. SerialOrder'
    BY <1>1, <1>2, <1>3 DEF SerialInv, SerialOrder
  <1>5. SerialCount'
    BY <1>1, <1>3 DEF SerialInv, SerialCount
  <1>6. SerialHeld'
    <2>1. \A d \in Clients : pc[d] # "store" /\ ~Pending(d)
      BY <1>1 DEF SerialInv, SerialOrder, Pending
    <2>2. \A r \in Records : Has(wal', r) => ckpt[r] > 0
      BY <1>1, <1>2 DEF SerialInv, SerialHeld, Saved
    <2>3. \A r \in acked : ckpt[r] > 0 \/ Has(wal', r)
      BY <1>2 DEF Inv, TypeOK, SerialInv, SerialHeld
    <2>4. QED
      BY <2>1, <2>2, <2>3, <1>1, <1>3 DEF SerialHeld, Unsaved
  <1>7. SerialRing'
    BY <1>1, <1>3 DEF SerialInv, SerialRing
  <1>8. QED
    BY <1>4, <1>5, <1>6, <1>7 DEF SerialInv

\* SerialInv and the advance of the head.
LEMMA SerialAdvanceHead ==
  ASSUME Inv, serial, SerialInv, AdvanceHead PROVE SerialInv'
  <1>1. /\ UNCHANGED <<wal, ckpt, appended, m_data, pc, rec, idx, new_head, remaining, acked>>
        /\ fpc = "advance" /\ fpc' = "complete" /\ m_head' = new_head
    BY DEF AdvanceHead, disk, clientVars, history
  <1>2. Logged' = Logged /\ \A d \in Clients : Pending(d)' = Pending(d)
    BY <1>1 DEF Logged, Pending
  <1>3. RecordCount' = 0
    BY <1>1, SerialTypes DEF SerialInv, SerialCount, RecordCount
  <1>4. SerialOrder'
    BY <1>1, <1>2 DEF SerialInv, SerialOrder
  <1>5. SerialCount'
    BY <1>1, <1>2, <1>3 DEF SerialInv, SerialCount
  <1>6. SerialHeld'
    <2>1. \A d \in Clients : pc[d] # "store" /\ ~Pending(d)
      BY <1>1 DEF SerialInv, SerialOrder, Pending
    <2>2. QED
      BY <2>1, <1>1, <1>2 DEF SerialInv, SerialHeld, Unsaved, Saved
  <1>7. SerialRing'
    <2>1. \A i \in DOMAIN appended : ~(i > m_head')
      BY <1>1, SerialTypes DEF SerialInv, SerialCount
    <2>2. QED
      BY <2>1, <1>1 DEF SerialRing
  <1>8. QED
    BY <1>4, <1>5, <1>6, <1>7 DEF SerialInv

\* SerialInv and flush_complete: nothing is behind FLUSH_B, and what is cut is saved.
LEMMA SerialFlushComplete ==
  ASSUME Inv, serial, SerialInv, FlushComplete PROVE SerialInv'
  <1>1. /\ UNCHANGED <<ckpt, appended, m_data, m_head, pc, rec, idx, new_head, acked>>
        /\ fpc = "complete" /\ fpc' = "truncate"
        /\ wal' = Append(wal, FLUSH_C) /\ remaining' = Remaining(wal)
    BY DEF FlushComplete, buffer, clientVars, history
  <1>2. /\ Inserts(wal') = Inserts(wal)
        /\ \A r \in Records : (Has(wal', r) <=> Has(wal, r)) /\ (Behind(wal', r) <=> Behind(wal, r))
    <2>1. PICK s : s = wal
      OBVIOUS
    <2>2. s \in Seq(Entries)
      BY <2>1, SerialTypes
    <2>3. /\ Inserts(Append(s, FLUSH_C)) = Inserts(s)
          /\ \A r \in Records : /\ Has(Append(s, FLUSH_C), r) <=> Has(s, r)
                                /\ Behind(Append(s, FLUSH_C), r) <=> Behind(s, r)
      BY <2>2, MarkerKept
    <2>4. QED
      BY <2>1, <2>3, <1>1
  <1>3. remaining' = <<>>
    <2>1. PICK s, q : s = wal /\ q = Remaining(s)
      OBVIOUS
    <2>2. s \in Seq(Entries) /\ Has(s, FLUSH_B)
      BY <2>1, <1>1, SerialTypes DEF Inv, FlushPlace
    <2>3. q \in Seq(Records) /\ \A r \in Records : Has(q, r) <=> Behind(s, r)
      BY <2>1, <2>2, RemainingFacts
    <2>4. \A r \in Records : ~Has(q, r)
      BY <2>1, <2>3 DEF SerialInv, SerialOrder
    <2>5. ASSUME q # <<>> PROVE FALSE
      <3>1. Head(q) \in Records /\ Has(q, Head(q))
        BY <2>3, <2>5, TailFacts
      <3>2. QED
        BY <3>1, <2>4
    <2>6. QED
      BY <2>1, <2>5, <1>1
  <1>4. /\ Logged' = Logged /\ RecordCount' = RecordCount
        /\ \A d \in Clients : Pending(d)' = Pending(d)
    BY <1>1, <1>2 DEF Logged, RecordCount, Pending
  <1>5. SerialOrder'
    BY <1>1, <1>2, <1>3, <1>4 DEF SerialInv, SerialOrder
  <1>6. SerialCount'
    BY <1>1, <1>4 DEF SerialInv, SerialCount
  <1>7. SerialHeld'
    <2>1. \A d \in Clients : pc[d] # "store" /\ ~Pending(d)
      BY <1>1 DEF SerialInv, SerialOrder, Pending
    <2>2. \A r \in Records : Has(wal', r) => ckpt[r] > 0
      BY <1>1, <1>2 DEF SerialInv, SerialHeld, Saved
    <2>3. \A r \in acked : ckpt[r] > 0 \/ Has(wal', r)
      BY <1>2 DEF Inv, TypeOK, SerialInv, SerialHeld
    <2>4. QED
      BY <2>1, <2>2, <2>3, <1>1, <1>4 DEF SerialHeld, Unsaved
  <1>8. SerialRing'
    BY <1>1, <1>4 DEF SerialInv, SerialRing
  <1>9. QED
    BY <1>5, <1>6, <1>7, <1>8 DEF SerialInv

\* The log is cut only when the checkpoint has all of it.
LEMMA SerialTruncate ==
  ASSUME Inv, serial, SerialInv, Truncate PROVE SerialInv'
  <1>1. /\ UNCHANGED <<ckpt, appended, m_data, m_head, pc, rec, idx, new_head, remaining, acked>>
        /\ fpc = "truncate" /\ wal' = <<>> /\ fpc' = "idle"
    BY DEF Truncate, buffer, clientVars, history, SerialInv, SerialOrder
  <1>2. \A x : ~Has(wal', x) /\ ~Behind(wal', x)
    BY <1>1, EmptyFacts
  <1>3. \A d \in Clients : ~Pending(d) /\ ~Pending(d)' /\ pc'[d] # "log" /\ pc'[d] # "store"
    BY <1>1 DEF SerialInv, SerialOrder, Pending
  <1>4. SerialOrder'
    BY <1>1, <1>2 DEF SerialInv, SerialOrder
  <1>5. SerialCount'
    <2>1. Logged' = 0 /\ ~AtLog'
      BY <1>1, <1>3, InsertsEmpty, EmptySeq DEF Logged, AtLog
    <2>2. RecordCount' = 0
      BY <1>1 DEF SerialInv, SerialCount, RecordCount
    <2>3. QED
      BY <2>1, <2>2, <1>1, <1>2, SerialTypes DEF SerialCount
  <1>6. SerialHeld'
    <2>1. \A r \in acked : ckpt[r] > 0
      BY <1>1 DEF Inv, TypeOK, SerialInv, SerialHeld, Saved
    <2>2. QED
      BY <2>1, <1>1, <1>2, <1>3 DEF SerialHeld
  <1>7. SerialRing'
    BY <1>1, <1>3 DEF SerialInv, SerialRing
  <1>8. QED
    BY <1>4, <1>5, <1>6, <1>7 DEF SerialInv

\* SerialInv and a restart: the replay has room for all of the log.
LEMMA SerialRestart ==
  ASSUME Inv, serial, SerialInv, Restart PROVE SerialInv'
  <1>1. /\ UNCHANGED <<wal, ckpt, acked>>
        /\ m_data' = [p \in Slots |-> IF p < Len(appended') THEN appended'[p + 1] ELSE None]
        /\ appended' = Replay(wal) /\ m_head' = 0 /\ remaining' = <<>>
        /\ pc' = [c \in Clients |-> "idle"] /\ fpc' = "idle"
    BY DEF Restart, disk
  <1>2. /\ appended' = Inserts(wal) /\ Len(appended') \in Nat
        /\ \A r \in Records : Has(wal, r) => Beyond(appended', 0, r)
    <2>1. PICK s : s = wal
      OBVIOUS
    <2>2. s \in Seq(Entries) /\ Len(Inserts(s)) <= HWM
      BY <2>1, SerialTypes DEF SerialInv, SerialCount, Logged
    <2>3. Replay(s) = Inserts(s)
      BY <2>2, ReplayFacts
    <2>4. Inserts(s) \in Seq(Records) /\ \A r \in Records : Has(Inserts(s), r) <=> Has(s, r)
      BY <2>2, InsertsFacts
    <2>5. PICK q : q = Inserts(s)
      OBVIOUS
    <2>6. Len(q) \in Nat /\ DOMAIN q = 1..Len(q)
      BY <2>4, <2>5, LenProperties
    <2>7. \A r \in Records : Has(q, r) => Beyond(q, 0, r)
      BY <2>6 DEF Has, Beyond
    <2>8. QED
      BY <2>1, <2>3, <2>4, <2>5, <2>6, <2>7, <1>1
  <1>3. \A d \in Clients : pc'[d] = "idle" /\ ~Pending(d)'
    BY <1>1 DEF Pending
  <1>4. SerialOrder'
    BY <1>1, <1>3 DEF SerialInv, SerialOrder
  <1>5. SerialCount'
    <2>1. Logged' = Logged /\ ~AtLog' /\ RecordCount' = Logged
      BY <1>1, <1>2, <1>3 DEF Logged, AtLog, RecordCount
    <2>2. QED
      BY <2>1, <1>1, SerialTypes DEF SerialInv, SerialCount
  <1>6. SerialHeld'
    BY <1>1, <1>2, <1>3 DEF SerialInv, SerialHeld, Saved
  <1>7. SerialRing'
    <2> SUFFICES ASSUME NEW i \in DOMAIN appended'
                 PROVE  appended'[i] # None /\ m_data'[(i - 1) % Cap] = appended'[i]
      BY DEF SerialRing
    <2>1. /\ DOMAIN appended' = 1..Len(appended') /\ appended'[i] \in Records /\ appended'[i] # None
          /\ Len(appended') <= HWM
      <3>1. PICK t : t = Inserts(wal)
        OBVIOUS
      <3>2. t \in Seq(Records) /\ Len(t) <= HWM
        <4>1. PICK s : s = wal /\ s \in Seq(Entries)
          BY SerialTypes
        <4>2. Inserts(s) \in Seq(Records)
          BY <4>1, InsertsFacts
        <4>3. QED
          BY <3>1, <4>1, <4>2 DEF SerialInv, SerialCount, Logged
      <3>3. DOMAIN t = 1..Len(t) /\ \A k \in DOMAIN t : t[k] \in Records
        BY <3>2, LenProperties, ElementOfSeq
      <3>4. None \notin Records
        BY DurabilityAssumption DEF Records, None
      <3>5. QED
        BY <3>1, <3>2, <3>3, <3>4, <1>2
    <2>2. i - 1 \in Slots /\ i - 1 < Len(appended') /\ (i - 1) + 1 = i
      BY <2>1, <1>2, DurabilityAssumption DEF Slots
    <2>3. (i - 1) % Cap = i - 1
      BY <2>2, DurabilityAssumption DEF Slots
    <2>4. m_data'[i - 1] = appended'[i]
      BY <2>2, <1>1
    <2>5. QED
      BY <2>1, <2>3, <2>4
  <1>8. QED
    BY <1>4, <1>5, <1>6, <1>7 DEF SerialInv

\* SerialInv is about the variables only.
LEMMA SerialStutter == ASSUME SerialInv, UNCHANGED vars PROVE SerialInv'
  <1>1. /\ UNCHANGED <<wal, ckpt, appended, m_data, m_head, pc, rec, idx, new_head, remaining>>
        /\ UNCHANGED <<acked, fpc>>
    BY DEF vars, disk, buffer, clientVars, flushVars, history
  <1>2. /\ Logged' = Logged /\ RecordCount' = RecordCount /\ AtLog' = AtLog
        /\ \A d \in Clients : Pending(d)' = Pending(d)
    BY <1>1 DEF Logged, RecordCount, AtLog, Pending
  <1>3. SerialOrder'
    BY <1>1, <1>2 DEF SerialInv, SerialOrder
  <1>4. SerialCount'
    BY <1>1, <1>2 DEF SerialInv, SerialCount
  <1>5. SerialHeld'
    BY <1>1, <1>2 DEF SerialInv, SerialHeld, Saved, Unsaved
  <1>6. SerialRing'
    BY <1>1, <1>2 DEF SerialInv, SerialRing
  <1>7. QED
    BY <1>3, <1>4, <1>5, <1>6 DEF SerialInv

-----------------------------------------------------------------------------
(***************************************************************************)
(* The two invariants hold together: the flush of the serial index copies  *)
(* what was appended, so that its checkpoint has no record more.           *)
(***************************************************************************)

\* With SerialScheduler no slot of the view is unwritten: the ring has what was appended.
LEMMA FlushedIsWindow ==
  ASSUME Inv, SerialInv, fpc = "save"
  PROVE  Flushed = SubSeq(appended, m_head + 1, new_head)
  <1>1. /\ Len(appended) \in Nat /\ DOMAIN appended = 1..Len(appended)
        /\ m_head \in Nat /\ new_head \in Nat /\ new_head <= Len(appended) /\ m_head <= new_head
    BY SerialTypes DEF Inv, TypeOK, FlushPlace
  <1>2. \A c \in Clients : ~Pending(c)
    BY DEF SerialInv, SerialOrder
  <1>3. PICK s, h, n : s = appended /\ h = m_head /\ n = new_head
    OBVIOUS
  <1>4. \A i \in 1..(n - h) : m_data[(h + i - 1) % Cap] = s[h + i]
    <2> SUFFICES ASSUME NEW i \in 1..(n - h) PROVE m_data[(h + i - 1) % Cap] = s[h + i]
      OBVIOUS
    <2>1. h + i \in DOMAIN s /\ h + i > h
      BY <1>1, <1>3
    <2>2. m_data[((h + i) - 1) % Cap] = s[h + i]
      BY <2>1, <1>2, <1>3 DEF SerialInv, SerialRing
    <2>3. QED
      BY <2>2, <1>1, <1>3
  <1>5. SubSeq(s, h + 1, n) = [i \in 1..(n - h) |-> s[h + i]]
    <2>1. n - (h + 1) + 1 = n - h /\ \A i \in 1..(n - h) : h + 1 + i - 1 = h + i
      BY <1>1, <1>3
    <2>2. s \in Seq(Records \cup {None}) /\ h + 1 \in 1..(Len(s) + 1) /\ n \in h..Len(s)
      BY <1>1, <1>3 DEF Inv, TypeOK
    <2>3. QED
      BY <2>1, <2>2, <1>1, <1>3, SubSeqProperties
  <1>6. Flushed = [i \in 1..(n - h) |-> m_data[(h + i - 1) % Cap]]
    BY <1>3 DEF Flushed
  <1>7. QED
    BY <1>3, <1>4, <1>5, <1>6

\* Inv for either scheduler, and SerialInv with SerialScheduler.
LEMMA Always == Spec => [](Inv /\ (serial => SerialInv))
  <1>1. ASSUME Inv, serial => SerialInv, [Next]_vars PROVE Inv' /\ (serial => SerialInv)'
    <2>1. serial' = serial
      BY <1>1 DEF Next, Flush, Insert, Claim, Log, Store, TakeView, SaveShard, FlushBegin,
         AdvanceHead, FlushComplete, Truncate, Rewrite, Restart, vars
    <2>2. Inv'
      <3>1. CASE UNCHANGED vars
        BY <1>1, <3>1, InvStutter
      <3>2. CASE Restart
        BY <1>1, <3>2, InvRestart
      <3>3. CASE SaveShard
        <4>1. serial => Flushed = SubSeq(appended, m_head + 1, new_head)
          BY <1>1, <3>3, FlushedIsWindow DEF SaveShard
        <4>2. QED
          BY <1>1, <3>3, <4>1, InvSaveShard
      <3>4. CASE Flush /\ ~SaveShard
        BY <1>1, <3>4, InvTakeView, InvFlushBegin, InvAdvanceHead, InvFlushComplete,
           InvTruncate, InvRewrite DEF Flush
      <3>5. ASSUME NEW c \in Clients, Insert(c) \/ Claim(c) \/ Log(c) \/ Store(c) PROVE Inv'
        BY <1>1, <3>5, InvInsert, InvClaim, InvLog, InvStore
      <3>6. QED
        BY <1>1, <3>1, <3>2, <3>3, <3>4, <3>5 DEF Next
    <2>3. ASSUME serial PROVE SerialInv'
      <3>1. SerialInv
        BY <1>1, <2>3
      <3>2. CASE UNCHANGED vars
        BY <3>1, <3>2, SerialStutter
      <3>3. CASE Restart
        BY <1>1, <2>3, <3>1, <3>3, SerialRestart
      <3>4. CASE Flush
        <4>1. ~Rewrite
          BY <3>1 DEF SerialInv, SerialOrder, Rewrite
        <4>2. CASE SaveShard
          <5>1. Flushed = SubSeq(appended, m_head + 1, new_head)
            BY <1>1, <3>1, <4>2, FlushedIsWindow DEF SaveShard
          <5>2. QED
            BY <1>1, <2>3, <3>1, <4>2, <5>1, SerialSaveShard
        <4>3. QED
          BY <1>1, <2>3, <3>1, <3>4, <4>1, <4>2, SerialTakeView, SerialFlushBegin,
             SerialAdvanceHead, SerialFlushComplete, SerialTruncate DEF Flush
      <3>5. ASSUME NEW c \in Clients, Insert(c) \/ Claim(c) \/ Log(c) \/ Store(c) PROVE SerialInv'
        BY <1>1, <2>3, <3>1, <3>5, SerialInsert, SerialClaim, SerialLog, SerialStore
      <3>6. QED
        BY <1>1, <3>2, <3>3, <3>4, <3>5 DEF Next
    <2>4. QED
      BY <2>1, <2>2, <2>3
  <1>2. Init => (serial => SerialInv)
    BY SerialInit
  <1>3. QED
    BY <1>1, <1>2, InvInit, PTL DEF Spec

\* TypeOK holds for any number of clients, records and restarts, and any watermarks: the
\* buffer never holds more than the high watermark, and after a replay neither.
THEOREM DurabilityTypeCorrect == Spec => []TypeOK
  <1>1. Inv => TypeOK
    BY DEF Inv
  <1>2. QED
    BY <1>1, Always, PTL

\* With SerialScheduler a record has, outside a flush, at most one copy, counted over
\* the shards of the checkpoint and the log, plus one for each time the process has
\* ended and, under LEVELING, started again.
THEOREM CopiesBounded == Spec => []OneCopyPerCrash
  <1>1. ASSUME Inv PROVE OneCopyPerCrash
    <2> SUFFICES ASSUME serial, fpc = "idle", NEW r \in Records
                 PROVE  ckpt[r] + Occurrences(wal, r) <= 1 + crashes
      BY DEF OneCopyPerCrash
    <2>1. PICK s : s = wal
      OBVIOUS
    <2>2. s \in Seq(Entries) /\ Once(s)
      BY <1>1, <2>1 DEF Inv, TypeOK, Entries, OnceEach
    <2>3. /\ Occurrences(s, r) \in Nat /\ Occurrences(s, r) <= 1
          /\ Has(s, r) <=> Occurrences(s, r) > 0
      BY <2>2, OccurrencesFacts
    <2>4. /\ ckpt[r] \in Nat /\ crashes \in Nat /\ ckpt[r] <= 1 + crashes
          /\ Has(s, r) => ckpt[r] <= crashes
      BY <1>1, <2>1 DEF Inv, TypeOK, Copies, CopiesOf, Unsaved
    <2>5. ckpt[r] + Occurrences(s, r) <= 1 + crashes
      BY <2>3, <2>4
    <2>6. QED
      BY <2>1, <2>5
  <1>2. QED
    BY <1>1, Always, PTL

\* With SerialScheduler a record whose insert returned 1 is in a shard of the checkpoint,
\* or comes back with the replay of the log, wherever the process ends and, under
\* LEVELING, however often it starts again.
THEOREM SerialNeverLoses == Spec => []SerialDurable
  <1>1. ASSUME Inv, serial => SerialInv PROVE SerialDurable
    <2> SUFFICES ASSUME serial, NEW r \in acked PROVE ckpt[r] > 0 \/ r \in ToSet(Replay(wal))
      BY DEF SerialDurable
    <2>1. PICK s : s = wal
      OBVIOUS
    <2>2. s \in Seq(Entries) /\ Len(Inserts(s)) <= HWM /\ r \in Records
      BY <1>1, <2>1, SerialTypes DEF Inv, TypeOK, SerialInv, SerialCount, Logged
    <2>3. Replay(s) = Inserts(s)
      BY <2>2, ReplayFacts
    <2>4. Has(Inserts(s), r) <=> Has(s, r)
      BY <2>2, InsertsFacts
    <2>5. ckpt[r] > 0 \/ Has(s, r)
      BY <1>1, <2>1 DEF SerialInv, SerialHeld
    <2>6. Has(Replay(s), r) => r \in ToSet(Replay(s))
      BY DEF Has, ToSet
    <2>7. QED
      BY <2>1, <2>3, <2>4, <2>5, <2>6
  <1>2. QED
    BY <1>1, Always, PTL

=============================================================================
