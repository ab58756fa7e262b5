---------------------- MODULE ExtensionStructureProofs ----------------------
(***************************************************************************)
(* The levels of ExtensionStructure keep every record, in the order of     *)
(* its age, under all three layout policies.                               *)
(***************************************************************************)
EXTENDS ExtensionStructure, InductionFacts, SequenceTheorems, TLAPS

-----------------------------------------------------------------------------
(***************************************************************************)
(* The hypothesis of the theorems.                                         *)
(***************************************************************************)

\* The policies under which the structure is right: tombstones under BSM, and a restart
\* under tiering or BSM, lose records (run structure_restart and README section 5).
Supported ==
  /\ "BSM" \notin Erasing
  /\ Restarting \subseteq {"LEVELING"}

-----------------------------------------------------------------------------
(***************************************************************************)
(* The inductive invariant.                                                *)
(***************************************************************************)

Level == [level_no : Nat, shards : Seq(SUBSET Records), shard_cap : Nat, pending : {<<>>}]

State == [reccnt : Nat, reccap : Nat, shardcnt : Nat, shardcap : Nat]

Task == [target : Nat, sources : SUBSET Nat]

\* For the shards of a level, in the order in which they came: their records, and that
\* the later ones are newer.
AllOf(q) == UNION {q[k] : k \in DOMAIN q}

Ordered(q) == \A k, m \in DOMAIN q : k > m => \A a \in q[k], b \in q[m] : a > b

LevelRecords(i) == ShardRecords(m_levels[i])

Held == UNION {LevelRecords(i) : i \in DOMAIN m_levels}

\* The types; no shard is ever left pending.
Types ==
  /\ layout \in Layouts
  /\ \E h \in Nat : m_levels \in [0..(h - 1) -> Level] /\ m_current_state \in [0..(h - 1) -> State]
  /\ m_flush_seq \in Nat
  /\ pc \in {"idle", "work"}
  /\ merges \in Seq(Task)
  /\ nrec \in 0..MaxRecords[layout]
  /\ victim \in [Records -> Records \cup {NoVictim}]

\* How many shards a level may have under each policy.
LevelShapes ==
  \A i \in DOMAIN m_levels :
    /\ Len(m_levels[i].shards) <= m_levels[i].shard_cap
    /\ layout = "TEIRING" => m_levels[i].shard_cap = ScaleFactor
    /\ layout # "TEIRING" => Len(m_levels[i].shards) <= 1
    /\ layout = "BSM" => /\ m_levels[i].shard_cap >= 1
                         /\ \A k \in DOMAIN m_levels[i].shards : m_levels[i].shards[k] # {}

\* A tombstone and its record were flushed, and the record is not a tombstone.
VictimsKnown ==
  \A t \in Records : victim[t] # NoVictim =>
    /\ layout # "BSM"
    /\ t < nrec /\ victim[t] < nrec
    /\ victim[victim[t]] = NoVictim

HeldBound == \A r \in Held : r < nrec

RecentAcross ==
  \A i, j \in DOMAIN m_levels : i < j =>
    \A a \in LevelRecords(i), b \in LevelRecords(j) : a > b

RecentWithin ==
  \A i \in DOMAIN m_levels : Ordered(m_levels[i].shards)

AllHeld == \A r \in Records : Erasable(r) => r \in Held

ErasersHeld == \A t \in Records : victim[t] \in Held => t \in Held

\* m_level_no, which the assertion of the leveled merge compares.
LevelNumbers ==
  layout = "LEVELING" =>
    \A j \in DOMAIN m_levels : m_levels[j].shards # <<>> =>
      /\ j = 0 => m_levels[j].level_no = 0
      /\ \A i \in DOMAIN m_levels : i < j /\ m_levels[i].shards # <<>> =>
           \/ m_levels[i].level_no < m_levels[j].level_no
           \/ m_levels[i].level_no = 0 /\ m_levels[j].level_no = 0

\* The counts of m_current_state, and the capacity that leveling plans with.
CountsReal ==
  \A i \in DOMAIN m_levels :
    /\ m_current_state[i].reccnt = RecordCount(m_levels[i])
    /\ m_current_state[i].shardcnt = Len(m_levels[i].shards)
    /\ layout = "LEVELING" => m_current_state[i].reccap = LevelCapacity(i)

StateKnown ==
  /\ CountsReal
  /\ layout = "TEIRING" => \A i \in DOMAIN m_levels : m_current_state[i].shardcap = ScaleFactor
  /\ layout = "LEVELING" /\ 0 \in DOMAIN m_levels => m_current_state[0].reccnt <= LevelCapacity(0)

\* The tasks that are left, from level n upwards: each finds its source, and the
\* first one has room in its target.
ChainPlan ==
  LET n == Len(merges)
  IN /\ \A k \in 1..n : merges[k] = [target |-> n - k + 1, sources |-> {n - k}]
     /\ \A i \in 0..(n - 1) : i \in DOMAIN m_levels /\ m_levels[i].shards # <<>>
     /\ layout = "TEIRING" /\ n \in DOMAIN m_levels => Len(m_levels[n].shards) < ScaleFactor

FlatPlan ==
  LET b == Head(merges).target
  IN /\ Len(merges) = 1
     /\ b >= 1 /\ Head(merges).sources = 0..(b - 1)
     /\ \A i \in 0..(b - 1) : i \in DOMAIN m_levels /\ m_levels[i].shards # <<>>
     /\ b \in DOMAIN m_levels => LevelRecords(b) = {}

PlanKnown ==
  /\ pc = "idle" => merges = <<>>
  /\ pc = "work" => nrec + HWM <= MaxRecords[layout]
  /\ pc = "work" /\ merges = <<>> => RoomInL0(HWM)
  /\ merges # <<>> /\ layout # "BSM" => ChainPlan
  /\ merges # <<>> /\ layout = "BSM" => FlatPlan

CheckpointKnown == checkpoint = SaveCheckpoint(m_levels, m_flush_seq)

IInv ==
  /\ Types /\ LevelShapes /\ VictimsKnown /\ HeldBound /\ RecentAcross /\ RecentWithin
  /\ AllHeld /\ ErasersHeld /\ LevelNumbers /\ StateKnown /\ PlanKnown /\ CheckpointKnown

-----------------------------------------------------------------------------
(***************************************************************************)
(* Facts about the operators.                                              *)
(***************************************************************************)

\* The records that BuildShard removes: the pairs it finds in rs.
Cancelled(rs, erased) ==
  {r \in rs : \E t \in rs : erased[t] \in rs /\ (r = t \/ r = erased[t])}

\* An initial piece of the table of powers.
Powers(g, n) == g = [k \in 0..n |-> IF k = 0 THEN 1 ELSE ScaleFactor * g[k - 1]]

\* The powers exist: every initial piece of the table does, and the pieces agree.
LEMMA PowerDefined == Power = [n \in Nat |-> IF n = 0 THEN 1 ELSE ScaleFactor * Power[n - 1]]
  <1>1. \A n \in Nat : \E g : Powers(g, n)
    <2> DEFINE bad == {n \in Nat : ~ \E g : Powers(g, n)}
    <2> SUFFICES ASSUME bad # {} PROVE FALSE
      OBVIOUS
    <2>1. PICK m \in bad : \A y \in bad : m <= y
      BY LeastNat
    <2>2. CASE m = 0
      <3>1. Powers([k \in 0..0 |-> 1], 0)
        BY DEF Powers
      <3>2. QED
        BY <2>1, <2>2, <3>1
    <2>3. CASE m # 0
      <3>1. m - 1 \in Nat /\ m - 1 \notin bad
        BY <2>1, <2>3
      <3>2. PICK g : Powers(g, m - 1)
        BY <3>1
      <3>3. PICK e : e = [k \in 0..m |-> IF k = 0 THEN 1 ELSE ScaleFactor * g[k - 1]]
        OBVIOUS
      <3>4. \A k \in 0..(m - 1) : e[k] = g[k]
        BY <3>2, <3>3 DEF Powers
      <3>5. \A k \in 0..m : e[k] = IF k = 0 THEN 1 ELSE ScaleFactor * e[k - 1]
        <4> SUFFICES ASSUME NEW k \in 0..m PROVE e[k] = IF k = 0 THEN 1 ELSE ScaleFactor * e[k - 1]
          OBVIOUS
        <4>1. e[k] = IF k = 0 THEN 1 ELSE ScaleFactor * g[k - 1]
          BY <3>3
        <4>2. k # 0 => k - 1 \in 0..(m - 1)
          BY <3>1
        <4>3. k # 0 => e[k - 1] = g[k - 1]
          BY <3>4, <4>2
        <4>4. QED
          BY <4>1, <4>3
      <3>6. Powers(e, m)
        <4>1. e = [k \in 0..m |-> e[k]]
          BY <3>3
        <4>2. e = [k \in 0..m |-> IF k = 0 THEN 1 ELSE ScaleFactor * e[k - 1]]
          BY <3>5, <4>1
        <4>3. QED
          BY <4>2 DEF Powers
      <3>7. QED
        BY <2>1, <3>6
    <2>4. QED
      BY <2>2, <2>3
  <1>2. ASSUME NEW n \in Nat, NEW m \in Nat, NEW g, NEW e, Powers(g, n), Powers(e, m)
        PROVE  \A k \in Nat : k <= n /\ k <= m => g[k] = e[k]
    <2> DEFINE bad == {k \in Nat : k <= n /\ k <= m /\ g[k] # e[k]}
    <2> SUFFICES ASSUME bad # {} PROVE FALSE
      OBVIOUS
    <2>1. PICK k \in bad : \A y \in bad : k <= y
      BY LeastNat
    <2>2. k # 0
      BY <1>2 DEF Powers
    <2>3. k - 1 \in Nat /\ k - 1 \notin bad
      BY <2>1, <2>2
    <2>4. g[k - 1] = e[k - 1]
      BY <2>1, <2>3
    <2>5. g[k] = ScaleFactor * g[k - 1] /\ e[k] = ScaleFactor * e[k - 1]
      BY <1>2, <2>1, <2>2 DEF Powers
    <2>6. QED
      BY <2>1, <2>4, <2>5
  <1> DEFINE Piece(n) == CHOOSE g : Powers(g, n)
  <1>3. PICK f : f = [n \in Nat |-> Piece(n)[n]]
    OBVIOUS
  <1>4. \A n \in Nat : Powers(Piece(n), n)
    BY <1>1
  <1> HIDE DEF Piece
  <1>5. \A n \in Nat : f[n] = IF n = 0 THEN 1 ELSE ScaleFactor * f[n - 1]
    <2> SUFFICES ASSUME NEW n \in Nat PROVE f[n] = IF n = 0 THEN 1 ELSE ScaleFactor * f[n - 1]
      OBVIOUS
    <2>1. f[n] = IF n = 0 THEN 1 ELSE ScaleFactor * Piece(n)[n - 1]
      <3>1. PICK g : g = Piece(n)
        OBVIOUS
      <3>2. f[n] = g[n] /\ Powers(g, n)
        BY <1>3, <1>4, <3>1
      <3>3. g[n] = IF n = 0 THEN 1 ELSE ScaleFactor * g[n - 1]
        BY <3>2 DEF Powers
      <3>4. QED
        BY <3>1, <3>2, <3>3
    <2>2. CASE n # 0
      <3>1. n - 1 \in Nat /\ n - 1 <= n
        BY <2>2
      <3>2. Piece(n)[n - 1] = Piece(n - 1)[n - 1]
        BY <1>2, <1>4, <3>1
      <3>3. QED
        BY <1>3, <2>1, <3>1, <3>2
    <2>3. QED
      BY <2>1, <2>2
  <1>6. f = [n \in Nat |-> IF n = 0 THEN 1 ELSE ScaleFactor * f[n - 1]]
    BY <1>3, <1>5
  <1>7. QED
    BY <1>6 DEF Power

\* A deeper level has room for at least as much as the first, and that for a full buffer.
CapacitiesGrow ==
  \A i \in Nat : /\ LevelCapacity(i) \in Nat
                 /\ HWM <= LevelCapacity(0)
                 /\ LevelCapacity(0) <= LevelCapacity(i)

\* The capacities of the levels are what the planning needs of them.
LEMMA CapacitiesDoGrow == CapacitiesGrow
  <1> SUFFICES ASSUME NEW i \in Nat
               PROVE  /\ LevelCapacity(i) \in Nat
                      /\ HWM <= LevelCapacity(0)
                      /\ LevelCapacity(0) <= LevelCapacity(i)
    BY DEF CapacitiesGrow
  <1>1. Power[0] = 1 /\ \A n \in Nat : Power[n + 1] = ScaleFactor * Power[n]
    <2>1. Power[0] = 1
      BY PowerDefined
    <2>2. \A n \in Nat : n + 1 \in Nat /\ n + 1 # 0 /\ (n + 1) - 1 = n
      OBVIOUS
    <2>3. QED
      BY <2>1, <2>2, PowerDefined
  <1>2. \A a, b \in Nat : b # 0 => a * b \in Nat /\ a <= a * b
    <2> SUFFICES ASSUME NEW a \in Nat, NEW b \in Nat, b # 0 PROVE a * b \in Nat /\ a <= a * b
      OBVIOUS
    <2>1. PICK c \in Nat : b = c + 1
      <3>1. b - 1 \in Nat /\ b = (b - 1) + 1
        OBVIOUS
      <3>2. QED
        BY <3>1
    <2>2. a * c \in Nat /\ a * (c + 1) = a * c + a
      OBVIOUS
    <2>3. QED
      BY <2>1, <2>2
  <1>3. \A n \in Nat : Power[n] \in Nat \ {0}
    <2> DEFINE bad == {n \in Nat : Power[n] \notin Nat \ {0}}
    <2> SUFFICES ASSUME bad # {} PROVE FALSE
      OBVIOUS
    <2>1. PICK m \in bad : \A y \in bad : m <= y
      BY LeastNat
    <2>2. m # 0
      BY <1>1, <2>1
    <2>3. m - 1 \in Nat /\ m - 1 \notin bad /\ (m - 1) + 1 = m
      BY <2>1, <2>2
    <2>4. Power[m] = ScaleFactor * Power[m - 1] /\ Power[m - 1] \in Nat \ {0}
      BY <1>1, <2>3
    <2>5. ScaleFactor * Power[m - 1] \in Nat /\ ScaleFactor <= ScaleFactor * Power[m - 1]
      BY <1>2, <2>4, StructureAssumption
    <2>6. QED
      BY <2>1, <2>4, <2>5, StructureAssumption
  <1>4. Power[1] = ScaleFactor
    <2>1. Power[0 + 1] = ScaleFactor * Power[0]
      BY <1>1
    <2>2. QED
      BY <1>1, <2>1, StructureAssumption
  <1>5. PICK p : p = Power[i]
    OBVIOUS
  <1>6. Power[i + 1] = ScaleFactor * p /\ p \in Nat \ {0}
    BY <1>1, <1>3, <1>5
  <1>7. LevelCapacity(0) = HWM * ScaleFactor /\ LevelCapacity(i) = HWM * (ScaleFactor * p)
    BY <1>4, <1>6 DEF LevelCapacity
  <1>8. HWM * ScaleFactor \in Nat /\ HWM <= HWM * ScaleFactor
    BY <1>2, StructureAssumption
  <1>9. (HWM * ScaleFactor) * p \in Nat /\ HWM * ScaleFactor <= (HWM * ScaleFactor) * p
    BY <1>2, <1>6, <1>8
  <1>10. (HWM * ScaleFactor) * p = HWM * (ScaleFactor * p)
    BY <1>6, StructureAssumption
  <1>11. QED
    BY <1>7, <1>8, <1>9, <1>10

\* What the search returns, when there are levels: the first level that is able.
LEMMA TargetIsFirst ==
  ASSUME NEW h \in Nat, DOMAIN m_levels = 0..(h - 1), DOMAIN m_current_state = DOMAIN m_levels
  PROVE  LET b == ReconstructionTarget(m_current_state)
             Able(i) == CanReconstructWith(i, m_current_state[0].reccnt, m_current_state)
         IN /\ b \in 0..h
            /\ h > 0 => b >= 1
            /\ b < h => Able(b)
            /\ \A i \in 1..(b - 1) : ~Able(i)
  <1> DEFINE Able(i) == CanReconstructWith(i, m_current_state[0].reccnt, m_current_state)
  <1> DEFINE able == {i \in DOMAIN m_current_state \ {0} : Able(i)}
  <1> DEFINE b == ReconstructionTarget(m_current_state)
  <1>1. Height = h
    BY FS_Interval DEF Height
  <1>2. b = IF able = {} THEN h ELSE CHOOSE i \in able : \A j \in able : i <= j
    BY <1>1 DEF ReconstructionTarget
  <1>3. able \subseteq 1..(h - 1) /\ (\A i \in able : Able(i)) /\ \A i \in 1..(h - 1) : Able(i) => i \in able
    OBVIOUS
  <1> HIDE DEF able, Able, b
  <1>4. CASE able = {}
    BY <1>2, <1>3, <1>4 DEF Able, b
  <1>5. CASE able # {}
    <2>1. able \subseteq Nat
      BY <1>3
    <2>2. \E i \in able : \A j \in able : i <= j
      BY <1>5, <2>1, LeastNat
    <2>3. b \in able /\ \A j \in able : b <= j
      BY <1>2, <1>5, <2>2
    <2>4. b \in 1..(h - 1) /\ Able(b) /\ \A i \in 1..(b - 1) : ~Able(i)
      BY <1>3, <2>3
    <2>5. QED
      BY <2>4 DEF Able, b
  <1>6. QED
    BY <1>4, <1>5

\* A shard is built by removing the pairs it finds, and nothing else.
LEMMA BuildShardCancels ==
  ASSUME NEW rs, NEW erased
  PROVE  /\ BuildShard(rs, erased) = rs \ Cancelled(rs, erased)
         /\ BuildShard(rs, erased) \subseteq rs
  BY DEF BuildShard, Cancelled

\* Without tombstones nothing is cancelled.
LEMMA NothingCancelled ==
  ASSUME NEW rs, NEW erased, \A r \in rs : erased[r] \notin rs
  PROVE  BuildShard(rs, erased) = rs
  BY DEF BuildShard

\* The records of the two levels that a merge makes.
LEMMA RecordsOfEmpty ==
  ASSUME NEW no, NEW cap
  PROVE  /\ EmptyLevel(no, cap).shards = <<>> /\ Len(EmptyLevel(no, cap).shards) = 0
         /\ ShardRecords(EmptyLevel(no, cap)) = {} /\ RecordCount(EmptyLevel(no, cap)) = 0
  BY FS_EmptySet DEF EmptyLevel, ShardRecords, RecordCount

\* A level made of one shard has the records of that shard.
LEMMA RecordsOfOne ==
  ASSUME NEW no, NEW shard
  PROVE  /\ OneShardLevel(no, shard).shards = <<shard>> /\ Len(OneShardLevel(no, shard).shards) = 1
         /\ ShardRecords(OneShardLevel(no, shard)) = shard /\ OneShardLevel(no, shard).shards # <<>>
  BY DEF OneShardLevel, ShardRecords

\* The record count of a level is a number, zero when the level has no record.
LEMMA CountOfLevel ==
  ASSUME NEW m \in Nat, NEW l, l.shards \in Seq(SUBSET (0..(m - 1)))
  PROVE  /\ ShardRecords(l) \subseteq 0..(m - 1) /\ IsFiniteSet(ShardRecords(l))
         /\ RecordCount(l) \in Nat
         /\ RecordCount(l) = 0 <=> ShardRecords(l) = {}
         /\ l.shards = <<>> => ShardRecords(l) = {}
  <1>1. ShardRecords(l) \subseteq 0..(m - 1)
    BY ElementOfSeq DEF ShardRecords
  <1>2. IsFiniteSet(ShardRecords(l))
    <2>1. IsFiniteSet(0..(m - 1))
      BY FS_Interval
    <2>2. QED
      BY <1>1, <2>1, FS_Subset
  <1>3. l.shards = <<>> => ShardRecords(l) = {}
    BY DEF ShardRecords
  <1>4. QED
    BY <1>1, <1>2, <1>3, FS_CardinalityType, FS_EmptySet DEF RecordCount

\* A level with one more shard, newer than all its others.
LEMMA AppendedShards ==
  ASSUME NEW S, NEW q \in Seq(S), NEW c \in S
  PROVE  /\ Append(q, c) \in Seq(S) /\ Len(Append(q, c)) = Len(q) + 1 /\ Append(q, c) # <<>>
         /\ AllOf(Append(q, c)) = AllOf(q) \cup c
         /\ Ordered(q) /\ (\A a \in c, b \in AllOf(q) : a > b) => Ordered(Append(q, c))
  <1>1. PICK w : w = Append(q, c)
    OBVIOUS
  <1>2. PICK n \in Nat : n = Len(q)
    BY LenProperties
  <1>3. /\ w \in Seq(S) /\ Len(w) = n + 1
        /\ \A k \in 1..n : w[k] = q[k]
        /\ w[n + 1] = c
    BY <1>1, <1>2, AppendProperties
  <1>4. DOMAIN w = 1..(n + 1) /\ DOMAIN q = 1..n /\ w # <<>>
    BY <1>2, <1>3, LenProperties, EmptySeq
  <1>5. /\ \A k \in 1..(n + 1) : k \in 1..n \/ k = n + 1
        /\ \A k \in 1..n : k \in 1..(n + 1)
        /\ n + 1 \in 1..(n + 1)
        /\ \A k, m \in 1..(n + 1) : k > m => m \in 1..n
    OBVIOUS
  <1>6. AllOf(w) \subseteq AllOf(q) \cup c
    <2> SUFFICES ASSUME NEW x \in AllOf(w) PROVE x \in AllOf(q) \cup c
      OBVIOUS
    <2>1. PICK k \in DOMAIN w : x \in w[k]
      BY DEF AllOf
    <2>2. CASE k = n + 1
      BY <1>3, <2>1, <2>2
    <2>3. CASE k \in 1..n
      BY <1>3, <1>4, <2>1, <2>3 DEF AllOf
    <2>4. QED
      BY <1>4, <1>5, <2>1, <2>2, <2>3
  <1>7. AllOf(q) \cup c \subseteq AllOf(w)
    <2>1. AllOf(q) \subseteq AllOf(w)
      BY <1>3, <1>4, <1>5 DEF AllOf
    <2>2. n + 1 \in DOMAIN w
      BY <1>4, <1>5
    <2>3. w[n + 1] \subseteq AllOf(w)
      BY <2>2 DEF AllOf
    <2>4. QED
      BY <1>3, <2>1, <2>3
  <1>8. ASSUME Ordered(q), \A a \in c, b \in AllOf(q) : a > b PROVE Ordered(w)
    <2> SUFFICES ASSUME NEW k \in DOMAIN w, NEW m \in DOMAIN w, k > m, NEW a \in w[k], NEW b \in w[m]
                 PROVE  a > b
      BY DEF Ordered
    <2>1. m \in DOMAIN q /\ b \in q[m]
      BY <1>3, <1>4, <1>5
    <2>2. CASE k \in 1..n
      BY <1>3, <1>4, <1>8, <2>1, <2>2 DEF Ordered
    <2>3. CASE k = n + 1
      BY <1>3, <1>8, <2>1, <2>3 DEF AllOf
    <2>4. QED
      BY <1>4, <1>5, <2>2, <2>3
  <1>9. QED
    BY <1>1, <1>2, <1>3, <1>4, <1>6, <1>7, <1>8

\* The two ways to make a level make one.
LEMMA NewLevelTypes ==
  ASSUME NEW no \in Nat, NEW cap \in Nat, NEW shard \in SUBSET Records
  PROVE  /\ EmptyLevel(no, cap) \in Level /\ EmptyLevel(no, cap).shard_cap = cap
         /\ EmptyLevel(no, cap).pending = <<>>
         /\ OneShardLevel(no, shard) \in Level /\ OneShardLevel(no, shard).shard_cap = 1
         /\ OneShardLevel(no, shard).level_no = no
  <1>1. <<>> \in Seq(SUBSET Records) /\ <<shard>> \in Seq(SUBSET Records)
    BY EmptySeq
  <1>2. QED
    BY <1>1 DEF EmptyLevel, OneShardLevel, Level

\* The records of the shards are the records of the levels.
LEMMA StoredIsHeld ==
  /\ Stored = Held
  /\ \A i \in DOMAIN m_levels : \A k \in DOMAIN m_levels[i].shards :
       <<i, k>> \in Shards /\ m_levels[i].shards[k] \subseteq LevelRecords(i)
  <1>1. \A i \in DOMAIN m_levels : \A k \in DOMAIN m_levels[i].shards :
          <<i, k>> \in Shards /\ m_levels[i].shards[k] \subseteq LevelRecords(i)
    BY DEF Shards, LevelRecords, ShardRecords
  <1>2. ASSUME NEW r \in Held PROVE r \in Stored
    <2>1. PICK i \in DOMAIN m_levels : r \in LevelRecords(i)
      BY <1>2 DEF Held
    <2>2. PICK k \in DOMAIN m_levels[i].shards : r \in m_levels[i].shards[k]
      BY <2>1 DEF LevelRecords, ShardRecords
    <2>3. <<i, k>> \in Shards /\ r \in ShardAt(<<i, k>>)
      BY <1>1, <2>1, <2>2 DEF ShardAt
    <2>4. QED
      BY <2>3 DEF Stored
  <1>3. ASSUME NEW r \in Stored PROVE r \in Held
    <2>1. PICK s \in Shards : r \in ShardAt(s)
      BY <1>3 DEF Stored
    <2>2. PICK i \in DOMAIN m_levels : s \in {i} \X DOMAIN m_levels[i].shards
      BY <2>1 DEF Shards
    <2>3. r \in LevelRecords(i)
      BY <2>1, <2>2 DEF ShardAt, LevelRecords, ShardRecords
    <2>4. QED
      BY <2>3 DEF Held
  <1>4. QED
    BY <1>1, <1>2, <1>3

-----------------------------------------------------------------------------
(***************************************************************************)
(* What the invariant implies.                                             *)
(***************************************************************************)

\* The invariant implies the types.
LEMMA InvTypes == IInv => TypeOK
  <1> SUFFICES ASSUME IInv PROVE TypeOK
    OBVIOUS
  <1> USE DEF IInv, Types
  <1>1. PICK h \in Nat : m_levels \in [0..(h - 1) -> Level] /\ m_current_state \in [0..(h - 1) -> State]
    OBVIOUS
  <1>2. Height = h
    BY <1>1, FS_Interval DEF Height
  <1>3. \A i \in DOMAIN m_levels :
          /\ m_levels[i].shards \in Seq(SUBSET Records)
          /\ Len(m_levels[i].shards) <= m_levels[i].shard_cap
          /\ m_current_state[i] \in State
    BY <1>1 DEF Level, LevelShapes
  <1>4. \A k \in DOMAIN merges : merges[k].target \in Nat
    <2>1. merges \in [1..Len(merges) -> Task]
      BY LenProperties
    <2>2. QED
      BY <2>1 DEF Task
  <1>5. QED
    BY <1>1, <1>2, <1>3, <1>4 DEF TypeOK, State

\* A record is in one level, and in one shard of it, because ages are ordered.
LEMMA InvKept == IInv => RecordsKept
  <1> SUFFICES ASSUME IInv, NEW r \in Records, Erasable(r)
               PROVE  \E s \in Shards : r \in ShardAt(s) /\ \A u \in Shards \ {s} : r \notin ShardAt(u)
    BY DEF RecordsKept
  <1> USE DEF IInv
  <1>1. PICK h \in Nat : m_levels \in [0..(h - 1) -> Level]
    BY DEF Types
  <1>2. r \in Held
    BY DEF AllHeld
  <1>3. PICK i \in DOMAIN m_levels : r \in LevelRecords(i)
    BY <1>2 DEF Held
  <1>4. PICK k \in DOMAIN m_levels[i].shards : r \in m_levels[i].shards[k]
    BY <1>3 DEF LevelRecords, ShardRecords
  <1>5. <<i, k>> \in Shards /\ r \in ShardAt(<<i, k>>)
    BY <1>3, <1>4, StoredIsHeld DEF ShardAt
  <1>6. ASSUME NEW u \in Shards \ {<<i, k>>}, r \in ShardAt(u) PROVE FALSE
    <2>1. PICK j \in DOMAIN m_levels : u \in {j} \X DOMAIN m_levels[j].shards
      BY <1>6 DEF Shards
    <2>2. PICK m \in DOMAIN m_levels[j].shards : u = <<j, m>>
      BY <2>1
    <2>3. r \in m_levels[j].shards[m] /\ r \in LevelRecords(j)
      BY <1>6, <2>2, StoredIsHeld DEF ShardAt
    <2>4. i \in Nat /\ j \in Nat /\ r \in Nat
      BY <1>1 DEF Records
    <2>5. i = j
      <3>1. CASE i < j
        BY <1>3, <2>3, <2>4, <3>1 DEF RecentAcross
      <3>2. CASE j < i
        BY <1>3, <2>3, <2>4, <3>2 DEF RecentAcross
      <3>3. QED
        BY <2>4, <3>1, <3>2
    <2>6. k \in Nat /\ m \in Nat
      <3>1. m_levels[i].shards \in Seq(SUBSET Records)
        BY <1>1 DEF Level
      <3>2. DOMAIN m_levels[i].shards \subseteq Nat
        BY <3>1, LenProperties
      <3>3. QED
        BY <2>5, <3>2
    <2>7. k # m
      BY <1>6, <2>2, <2>5
    <2>8. QED
      BY <1>4, <2>3, <2>4, <2>5, <2>6, <2>7 DEF RecentWithin, Ordered
  <1>7. QED
    BY <1>5, <1>6

\* The orders across and within levels together order all shards.
LEMMA InvRecency == IInv => RecencyOrdered
  <1> SUFFICES ASSUME IInv, NEW s \in Shards, NEW u \in Shards,
                      s[1] < u[1] \/ (s[1] = u[1] /\ s[2] > u[2]),
                      NEW a \in ShardAt(s), NEW b \in ShardAt(u)
               PROVE  a > b
    BY DEF RecencyOrdered
  <1>1. PICK i \in DOMAIN m_levels : s \in {i} \X DOMAIN m_levels[i].shards
    BY DEF Shards
  <1>2. PICK j \in DOMAIN m_levels : u \in {j} \X DOMAIN m_levels[j].shards
    BY DEF Shards
  <1>3. s[1] = i /\ s[2] \in DOMAIN m_levels[i].shards /\ a \in m_levels[i].shards[s[2]]
    BY <1>1 DEF ShardAt
  <1>4. u[1] = j /\ u[2] \in DOMAIN m_levels[j].shards /\ b \in m_levels[j].shards[u[2]]
    BY <1>2 DEF ShardAt
  <1>5. a \in LevelRecords(i) /\ b \in LevelRecords(j)
    BY <1>3, <1>4, StoredIsHeld
  <1>6. CASE i < j
    BY <1>5, <1>6 DEF IInv, RecentAcross
  <1>7. CASE i = j /\ s[2] > u[2]
    BY <1>3, <1>4, <1>7 DEF IInv, RecentWithin, Ordered
  <1>8. QED
    BY <1>3, <1>4, <1>6, <1>7

\* A tombstone is held as long as its record is.
LEMMA InvErased == IInv => ErasedStayErased
  BY StoredIsHeld DEF IInv, ErasersHeld, ErasedStayErased

\* Room for a full buffer is room for every view.
LEMMA InvPlans == IInv => PlansHold
  <1> SUFFICES ASSUME IInv PROVE PlansHold
    OBVIOUS
  <1> USE DEF IInv
  <1>1. PICK h \in Nat : m_levels \in [0..(h - 1) -> Level] /\ m_current_state \in [0..(h - 1) -> State]
    BY DEF Types
  <1>2. TasksMakeRoom
    <2> SUFFICES ASSUME RoomInL0(HWM), NEW n \in FlushSizes PROVE RoomInL0(n)
      BY DEF TasksMakeRoom, PlanKnown
    <2>1. n \in Nat /\ n <= HWM /\ HWM \in Nat
      BY StructureAssumption
    <2>2. CASE DOMAIN m_current_state = {}
      BY <2>2 DEF RoomInL0
    <2>3. CASE DOMAIN m_current_state # {}
      <3>1. CanReconstructWith(0, HWM, m_current_state)
        BY <2>3 DEF RoomInL0
      <3>2. 0 \in DOMAIN m_current_state
        BY <3>1 DEF CanReconstructWith
      <3>3. m_current_state[0].reccnt \in Nat /\ m_current_state[0].reccap \in Nat
        BY <1>1, <3>2 DEF State
      <3>4. CanReconstructWith(0, n, m_current_state)
        BY <2>1, <3>1, <3>3 DEF CanReconstructWith
      <3>5. QED
        BY <3>4 DEF RoomInL0
    <2>4. QED
      BY <2>2, <2>3
  <1>3. TasksWellFormed
    <2> SUFFICES ASSUME merges # <<>>, NEW s \in Head(merges).sources
                 PROVE  LET t == Head(merges).target
                        IN /\ s \in DOMAIN m_levels /\ m_levels[s].shards # <<>>
                           /\ layout = "LEVELING" /\ t \in DOMAIN m_levels /\ m_levels[t].shards # <<>> =>
                                \/ m_levels[t].level_no > m_levels[s].level_no
                                \/ m_levels[t].level_no = 0 /\ m_levels[s].level_no = 0
      BY DEF TasksWellFormed
    <2>1. CASE layout = "BSM"
      BY <2>1 DEF PlanKnown, FlatPlan
    <2>2. CASE layout # "BSM"
      <3>1. Len(merges) \in Nat \ {0} /\ Head(merges) = merges[1]
        BY EmptySeq, HeadTailProperties DEF Types
      <3>2. ChainPlan
        BY <2>2 DEF PlanKnown
      <3>3. Head(merges).target = Len(merges) /\ s = Len(merges) - 1
        <4>1. merges[1] = [target |-> Len(merges), sources |-> {Len(merges) - 1}]
          BY <3>1, <3>2 DEF ChainPlan
        <4>2. QED
          BY <3>1, <4>1
      <3>4. s \in DOMAIN m_levels /\ m_levels[s].shards # <<>> /\ s < Head(merges).target
        BY <3>1, <3>2, <3>3 DEF ChainPlan
      <3>5. \A i \in DOMAIN m_levels : m_levels[i].level_no \in Nat
        BY <1>1 DEF Level
      <3>6. QED
        BY <3>4, <3>5 DEF LevelNumbers
    <2>3. QED
      BY <2>1, <2>2
  <1>4. QED
    BY <1>2, <1>3 DEF PlansHold

\* The state kept of the levels is the real one.
LEMMA InvState == IInv => StateIsReal
  BY DEF IInv, StateKnown, CountsReal, LevelShapes, StateIsReal

-----------------------------------------------------------------------------
(***************************************************************************)
(* The invariant holds initially.                                          *)
(***************************************************************************)

\* An empty structure satisfies the invariant.
LEMMA InitInv == Init => IInv
  <1> SUFFICES ASSUME Init PROVE IInv
    OBVIOUS
  <1> USE DEF Init, NoLevels
  <1>1. DOMAIN m_levels = {} /\ DOMAIN m_current_state = {} /\ Held = {}
    BY DEF Held
  <1>2. Types
    <2>1. m_levels \in [0..(0 - 1) -> Level] /\ m_current_state \in [0..(0 - 1) -> State]
      OBVIOUS
    <2>2. nrec \in 0..MaxRecords[layout]
      BY StructureAssumption
    <2>3. merges \in Seq(Task)
      BY EmptySeq
    <2>4. QED
      BY <2>1, <2>2, <2>3 DEF Types
  <1>3. nrec = 0 /\ \A r \in Records : r >= 0
    BY DEF Records
  <1>4. AllHeld
    BY <1>3 DEF AllHeld, Erasable, Records
  <1>5. VictimsKnown
    BY DEF VictimsKnown
  <1>6. LevelShapes /\ HeldBound /\ RecentAcross /\ RecentWithin /\ ErasersHeld /\ LevelNumbers
    BY <1>1 DEF LevelShapes, HeldBound, RecentAcross, RecentWithin, ErasersHeld, LevelNumbers
  <1>7. StateKnown /\ PlanKnown /\ CheckpointKnown
    BY <1>1 DEF StateKnown, CountsReal, PlanKnown, CheckpointKnown, SaveCheckpoint
  <1>8. QED
    BY <1>2, <1>4, <1>5, <1>6, <1>7 DEF IInv

-----------------------------------------------------------------------------
(***************************************************************************)
(* A plan is good when it is made.                                         *)
(***************************************************************************)

\* The shards of a level, and the two ways to count them.
LEMMA LevelFacts ==
  ASSUME IInv, NEW i \in DOMAIN m_levels
  PROVE  /\ i \in Nat /\ m_levels[i] \in Level /\ m_current_state[i] \in State
         /\ i \in DOMAIN m_current_state
         /\ m_levels[i].shards \in Seq(SUBSET Records)
         /\ Len(m_levels[i].shards) \in Nat
         /\ LevelRecords(i) \subseteq Records /\ IsFiniteSet(LevelRecords(i))
         /\ m_current_state[i].reccnt = Cardinality(LevelRecords(i))
         /\ m_current_state[i].shardcnt = Len(m_levels[i].shards)
         /\ m_current_state[i].reccnt = 0 <=> LevelRecords(i) = {}
         /\ m_levels[i].shards = <<>> => LevelRecords(i) = {}
  <1>1. PICK h \in Nat : m_levels \in [0..(h - 1) -> Level] /\ m_current_state \in [0..(h - 1) -> State]
    BY DEF IInv, Types
  <1>2. i \in Nat /\ m_levels[i] \in Level /\ m_current_state[i] \in State /\ i \in DOMAIN m_current_state
    BY <1>1
  <1>3. m_levels[i].shards \in Seq(SUBSET Records)
    BY <1>2 DEF Level
  <1>4. MaxRecords[layout] \in Nat
    BY StructureAssumption DEF IInv, Types
  <1>5. PICK m \in Nat : m = MaxRecords[layout]
    BY <1>4
  <1>6. PICK l : l = m_levels[i]
    OBVIOUS
  <1>7. l.shards \in Seq(SUBSET (0..(m - 1)))
    BY <1>3, <1>5, <1>6 DEF Records
  <1>8. /\ ShardRecords(l) \subseteq 0..(m - 1) /\ IsFiniteSet(ShardRecords(l))
        /\ RecordCount(l) = 0 <=> ShardRecords(l) = {}
        /\ l.shards = <<>> => ShardRecords(l) = {}
    BY <1>7, CountOfLevel
  <1>9. m_current_state[i].reccnt = RecordCount(l) /\ m_current_state[i].shardcnt = Len(l.shards)
    BY <1>6 DEF IInv, StateKnown, CountsReal
  <1>10. Len(m_levels[i].shards) \in Nat
    BY <1>3, LenProperties
  <1>11. QED
    BY <1>2, <1>3, <1>5, <1>6, <1>8, <1>9, <1>10 DEF LevelRecords, RecordCount, Records

\* A level that cannot take x records has shards.
LEMMA FullHasShards ==
  ASSUME IInv, NEW i \in DOMAIN m_levels, NEW x \in Nat,
         layout = "LEVELING" => LevelCapacity(i) \in Nat /\ x <= LevelCapacity(i),
         ~CanReconstructWith(i, x, m_current_state)
  PROVE  m_levels[i].shards # <<>>
  <1>1. i \in DOMAIN m_current_state /\ m_current_state[i].reccnt \in Nat
    BY LevelFacts DEF State
  <1>2. layout \in {"TEIRING", "LEVELING", "BSM"}
    BY StructureAssumption DEF IInv, Types
  <1>3. CASE layout = "TEIRING"
    <2>1. ~(m_current_state[i].shardcnt < m_current_state[i].shardcap)
      BY <1>1, <1>3 DEF CanReconstructWith
    <2>2. m_current_state[i].shardcap = ScaleFactor /\ m_current_state[i].shardcnt = Len(m_levels[i].shards)
      BY <1>3, LevelFacts DEF IInv, StateKnown
    <2>3. Len(m_levels[i].shards) # 0
      BY <2>1, <2>2, StructureAssumption, LevelFacts
    <2>4. QED
      BY <2>3
  <1>4. CASE layout = "LEVELING"
    <2>1. m_current_state[i].reccap = LevelCapacity(i)
      BY <1>4 DEF IInv, StateKnown, CountsReal
    <2>2. m_current_state[i].reccnt # 0
      BY <1>1, <1>4, <2>1 DEF CanReconstructWith
    <2>3. QED
      BY <2>2, LevelFacts
  <1>5. CASE layout = "BSM"
    <2>1. m_current_state[i].reccnt # 0
      BY <1>1, <1>5 DEF CanReconstructWith
    <2>2. QED
      BY <2>1, LevelFacts
  <1>6. QED
    BY <1>2, <1>3, <1>4, <1>5

\* Cloning a level whose pending shard is null changes nothing.
LEMMA CloneIsSame ==
  ASSUME IInv
  PROVE  [i \in DOMAIN m_levels |-> CloneLevel(m_levels[i])] = m_levels
  <1>1. PICK h \in Nat : m_levels \in [0..(h - 1) -> Level]
    BY DEF IInv, Types
  <1>2. \A l \in Level : CloneLevel(l) = l
    BY DEF CloneLevel, Level
  <1>3. \A i \in DOMAIN m_levels : CloneLevel(m_levels[i]) = m_levels[i]
    BY <1>1, <1>2
  <1>4. QED
    BY <1>1, <1>3

\* The levels from 0 to the target's neighbour have shards.
LEMMA SourcesHaveShards ==
  ASSUME IInv, CapacitiesGrow, ~CanReconstructWith(0, HWM, m_current_state),
         NEW i \in DOMAIN m_levels, i < ReconstructionTarget(m_current_state)
  PROVE  m_levels[i].shards # <<>>
  <1>1. PICK h \in Nat : m_levels \in [0..(h - 1) -> Level] /\ m_current_state \in [0..(h - 1) -> State]
    BY DEF IInv, Types
  <1>2. i \in Nat /\ 0 \in DOMAIN m_levels
    BY <1>1
  <1>3. HWM \in Nat
    BY StructureAssumption
  <1>4. LevelCapacity(0) \in Nat /\ HWM <= LevelCapacity(0) /\ LevelCapacity(i) \in Nat
        /\ LevelCapacity(0) <= LevelCapacity(i)
    BY <1>2 DEF CapacitiesGrow
  <1>5. CASE i = 0
    BY <1>3, <1>4, <1>5, FullHasShards
  <1>6. CASE i # 0
    <2>1. PICK x \in Nat : x = m_current_state[0].reccnt
      BY <1>2, LevelFacts DEF State
    <2>2. ~CanReconstructWith(i, x, m_current_state)
      BY <1>1, <1>2, <1>6, <2>1, TargetIsFirst
    <2>3. layout = "LEVELING" => x <= LevelCapacity(0)
      BY <1>2, <2>1 DEF IInv, StateKnown
    <2>4. QED
      BY <1>4, <2>2, <2>3, FullHasShards
  <1>7. QED
    BY <1>5, <1>6

\* A plan is a sequence of tasks.
LEMMA TasksType ==
  ASSUME NEW b \in Nat
  PROVE  /\ TasksTo(b) \in Seq(Task)
         /\ b = 0 => TasksTo(b) = <<>>
         /\ layout # "BSM" => /\ Len(TasksTo(b)) = b
                              /\ \A k \in 1..b : TasksTo(b)[k] = [target |-> b - k + 1, sources |-> {b - k}]
         /\ layout = "BSM" /\ b > 0 => TasksTo(b) = <<[target |-> b, sources |-> 0..(b - 1)]>>
  <1> DEFINE Link(k) == [target |-> b - k + 1, sources |-> {b - k}]
  <1>1. CASE layout = "BSM"
    <2>1. b > 0 => [target |-> b, sources |-> 0..(b - 1)] \in Task
      BY DEF Task
    <2>2. QED
      BY <1>1, <2>1 DEF TasksTo
  <1>2. CASE layout # "BSM"
    <2>1. \A k \in 1..b : Link(k) \in Task
      BY DEF Task
    <2>2. TasksTo(b) = [k \in 1..b |-> Link(k)]
      BY <1>2 DEF TasksTo
    <2> HIDE DEF Link
    <2>3. TasksTo(b) \in Seq(Task) /\ Len(TasksTo(b)) = b
      BY <2>1, <2>2
    <2>4. b = 0 => TasksTo(b) = <<>>
      BY <2>3, EmptySeq
    <2>5. \A k \in 1..b : TasksTo(b)[k] = Link(k)
      BY <2>2
    <2>6. QED
      BY <1>2, <2>3, <2>4, <2>5 DEF Link
  <1>3. QED
    BY <1>1, <1>2

\* Planning keeps the invariant: the search finds a target with room, and every level
\* above it has a shard.
LEMMA ScheduleInv ==
  ASSUME IInv, CapacitiesGrow, ScheduleReconstruction
  PROVE  IInv'
  <1> USE DEF ScheduleReconstruction
  <1>1. m_levels' = m_levels
    BY CloneIsSame
  <1>2. /\ layout' = layout /\ m_current_state' = m_current_state /\ m_flush_seq' = m_flush_seq
        /\ checkpoint' = checkpoint /\ nrec' = nrec /\ victim' = victim /\ pc' = "work"
        /\ nrec + HWM <= MaxRecords[layout]
        /\ merges' = ReconstructionTasks(HWM)
    OBVIOUS
  <1>3. PICK h \in Nat : m_levels \in [0..(h - 1) -> Level] /\ m_current_state \in [0..(h - 1) -> State]
    BY DEF IInv, Types
  <1> DEFINE b == ReconstructionTarget(m_current_state)
  <1>4. b \in 0..h /\ (h > 0 => b >= 1)
    BY <1>3, TargetIsFirst
  <1>5. b < h => CanReconstructWith(b, m_current_state[0].reccnt, m_current_state)
    BY <1>3, TargetIsFirst
  <1> HIDE DEF ScheduleReconstruction, b
  <1>6. ASSUME CanReconstructWith(0, HWM, m_current_state)
        PROVE  PlanKnown' /\ merges' \in Seq(Task)
    <2>1. merges' = <<>>
      BY <1>2, <1>6 DEF ReconstructionTasks
    <2>2. RoomInL0(HWM)'
      BY <1>2, <1>6 DEF RoomInL0, CanReconstructWith
    <2>3. PlanKnown' /\ merges' \in Seq(Task)
      BY <1>2, <2>1, <2>2, EmptySeq DEF PlanKnown
    <2>4. QED
      BY <2>3
  <1>7. ASSUME ~CanReconstructWith(0, HWM, m_current_state)
        PROVE  PlanKnown' /\ merges' \in Seq(Task)
    <2>1. merges' = TasksTo(b)
      BY <1>2, <1>7 DEF ReconstructionTasks, b
    <2>2. merges' \in Seq(Task)
      BY <1>4, <2>1, TasksType
    <2>3. CASE h = 0
      <3>1. merges' = <<>> /\ DOMAIN m_current_state' = {}
        BY <1>2, <1>3, <1>4, <2>1, <2>3, TasksType
      <3>2. QED
        BY <1>2, <2>2, <3>1 DEF PlanKnown, RoomInL0
    <2>4. CASE h > 0
      <3>1. \A i \in 0..(b - 1) : i \in DOMAIN m_levels /\ m_levels[i].shards # <<>>
        <4>1. \A i \in 0..(b - 1) : i \in DOMAIN m_levels /\ i < b
          BY <1>3, <1>4
        <4>2. QED
          BY <1>7, <4>1, SourcesHaveShards DEF b
      <3>2. CASE layout = "BSM"
        <4>1. merges' = <<[target |-> b, sources |-> 0..(b - 1)]>>
          BY <1>4, <2>1, <2>4, <3>2, TasksType
        <4>2. merges' # <<>> /\ Len(merges') = 1 /\ Head(merges') = [target |-> b, sources |-> 0..(b - 1)]
          BY <4>1
        <4>3. b \in DOMAIN m_levels => LevelRecords(b) = {}
          BY <1>3, <1>4, <1>5, <3>2, LevelFacts DEF CanReconstructWith
        <4>4. FlatPlan'
          BY <1>1, <1>4, <2>4, <3>1, <4>2, <4>3 DEF FlatPlan, LevelRecords
        <4>5. QED
          BY <1>2, <2>2, <3>2, <4>2, <4>4 DEF PlanKnown
      <3>3. CASE layout # "BSM"
        <4>1. Len(merges') = b /\ \A k \in 1..b : merges'[k] = [target |-> b - k + 1, sources |-> {b - k}]
          BY <1>4, <2>1, <3>3, TasksType
        <4>2. merges' # <<>>
          BY <1>4, <2>4, <4>1
        <4>3. ASSUME layout = "TEIRING", b \in DOMAIN m_levels PROVE Len(m_levels[b].shards) < ScaleFactor
          <5>1. m_current_state[b].shardcnt < m_current_state[b].shardcap
            BY <1>3, <1>4, <1>5, <4>3 DEF CanReconstructWith
          <5>2. QED
            BY <4>3, <5>1 DEF IInv, StateKnown, CountsReal
        <4>4. ChainPlan'
          BY <1>1, <1>2, <3>1, <4>1, <4>3 DEF ChainPlan
        <4>5. QED
          BY <1>2, <2>2, <3>3, <4>2, <4>4 DEF PlanKnown
      <3>4. QED
        BY <3>2, <3>3
    <2>5. QED
      BY <2>3, <2>4
  <1>8. PlanKnown' /\ merges' \in Seq(Task)
    BY <1>6, <1>7
  <1>9. Types'
    BY <1>1, <1>2, <1>8 DEF IInv, Types, Level, State, Task, Records
  <1>10. (LevelShapes /\ VictimsKnown /\ HeldBound /\ RecentAcross /\ RecentWithin)'
    BY <1>1, <1>2 DEF IInv, LevelShapes, VictimsKnown, HeldBound, RecentAcross, RecentWithin, Held,
       LevelRecords, Records
  <1>11. (AllHeld /\ ErasersHeld /\ LevelNumbers /\ CheckpointKnown)'
    BY <1>1, <1>2 DEF IInv, AllHeld, ErasersHeld, LevelNumbers, CheckpointKnown, Held, LevelRecords,
       Records, Erasable, SaveCheckpoint
  <1>12. StateKnown'
    BY <1>1, <1>2 DEF IInv, StateKnown, CountsReal
  <1>13. QED
    BY <1>8, <1>9, <1>10, <1>11, <1>12 DEF IInv

-----------------------------------------------------------------------------
(***************************************************************************)
(* A restart loads the shards that the structure had.                      *)
(***************************************************************************)

\* Loading the checkpoint keeps the invariant: under leveling the loaded levels have the
\* shards that the last merge or flush saved.
LEMMA RestartInv ==
  ASSUME IInv, CapacitiesGrow, Supported, Restart
  PROVE  IInv'
  <1>1. /\ layout = "LEVELING" /\ layout' = layout /\ nrec' = nrec /\ victim' = victim
        /\ checkpoint' = checkpoint /\ pc' = "idle" /\ merges' = <<>> /\ m_flush_seq' = m_flush_seq
        /\ checkpoint = SaveCheckpoint(m_levels, m_flush_seq)
    BY DEF Restart, Supported, IInv, CheckpointKnown, SaveCheckpoint
  <1>2. PICK h \in Nat : m_levels \in [0..(h - 1) -> Level] /\ m_current_state \in [0..(h - 1) -> State]
    BY DEF IInv, Types
  <1>3. DOMAIN m_levels = 0..(h - 1)
    BY <1>2
  <1>4. /\ DOMAIN m_levels' = 0..(h - 1)
        /\ \A i \in 0..(h - 1) : m_levels'[i] = LoadLevel(i, m_levels[i].shards)
        /\ m_levels' = [i \in 0..(h - 1) |-> LoadLevel(i, m_levels[i].shards)]
    BY <1>1, <1>3 DEF Restart, SaveCheckpoint
  <1>5. \A i \in 0..(h - 1) :
          m_levels'[i] = [level_no |-> i, shards |-> m_levels[i].shards,
                          shard_cap |-> Len(m_levels[i].shards), pending |-> <<>>]
    BY <1>4 DEF LoadLevel, EmptyLevel
  <1>6. \A i \in 0..(h - 1) :
          /\ m_levels'[i].shards = m_levels[i].shards /\ m_levels'[i].level_no = i
          /\ m_levels'[i].shard_cap = Len(m_levels[i].shards)
    <2> SUFFICES ASSUME NEW i \in 0..(h - 1)
                 PROVE  /\ m_levels'[i].shards = m_levels[i].shards /\ m_levels'[i].level_no = i
                        /\ m_levels'[i].shard_cap = Len(m_levels[i].shards)
      OBVIOUS
    <2>1. PICK l : l = [level_no |-> i, shards |-> m_levels[i].shards,
                        shard_cap |-> Len(m_levels[i].shards), pending |-> <<>>]
      OBVIOUS
    <2>2. m_levels'[i] = l
      BY <1>5, <2>1
    <2>3. QED
      BY <2>1, <2>2
  <1>7. \A i \in 0..(h - 1) : LevelRecords(i)' = LevelRecords(i)
    BY <1>6 DEF LevelRecords, ShardRecords
  <1>8. Held' = Held
    BY <1>3, <1>4, <1>7 DEF Held
  <1>9. /\ m_current_state' = [i \in 0..(h - 1) |-> LevelState(m_levels'[i], i, ShardCapacity)]
        /\ \A i \in 0..(h - 1) : m_current_state'[i] = LevelState(m_levels'[i], i, ShardCapacity)
    BY <1>4 DEF Restart
  <1>10. \A i \in 0..(h - 1) :
           /\ m_current_state'[i].reccnt = Cardinality(LevelRecords(i))
           /\ m_current_state'[i].reccap = LevelCapacity(i)
           /\ m_current_state'[i].shardcnt = Len(m_levels[i].shards)
           /\ m_current_state'[i] \in State
    <2> SUFFICES ASSUME NEW i \in 0..(h - 1)
                 PROVE  /\ m_current_state'[i].reccnt = Cardinality(LevelRecords(i))
                        /\ m_current_state'[i].reccap = LevelCapacity(i)
                        /\ m_current_state'[i].shardcnt = Len(m_levels[i].shards)
                        /\ m_current_state'[i] \in State
      OBVIOUS
    <2>1. m_current_state'[i] = [reccnt |-> RecordCount(m_levels'[i]), reccap |-> LevelCapacity(i),
                                 shardcnt |-> Len(m_levels'[i].shards), shardcap |-> 1]
      BY <1>1, <1>9 DEF LevelState, ShardCapacity
    <2>2. RecordCount(m_levels'[i]) = Cardinality(LevelRecords(i))
      <3>1. RecordCount(m_levels'[i]) = Cardinality(LevelRecords(i)')
        BY DEF RecordCount, LevelRecords
      <3>2. QED
        BY <1>7, <3>1
    <2>3. Cardinality(LevelRecords(i)) \in Nat /\ Len(m_levels[i].shards) \in Nat /\ LevelCapacity(i) \in Nat
      BY <1>3, LevelFacts, FS_CardinalityType DEF CapacitiesGrow
    <2>4. QED
      BY <1>6, <2>1, <2>2, <2>3 DEF State
  <1>11. Types'
    <2>1. \A i \in 0..(h - 1) : m_levels'[i] \in Level
      <3> SUFFICES ASSUME NEW i \in 0..(h - 1) PROVE m_levels'[i] \in Level
        OBVIOUS
      <3>1. i \in Nat /\ m_levels[i].shards \in Seq(SUBSET Records) /\ Len(m_levels[i].shards) \in Nat
        BY <1>3, LevelFacts
      <3>2. QED
        <4>1. PICK q : q = m_levels[i].shards
          OBVIOUS
        <4>2. [level_no |-> i, shards |-> q, shard_cap |-> Len(q), pending |-> <<>>] \in Level
          BY <3>1, <4>1 DEF Level
        <4>3. QED
          BY <1>5, <4>1, <4>2
    <2>2. Level' = Level /\ State' = State /\ Records' = Records
      BY <1>1 DEF Level, State, Records
    <2>3. m_levels' \in [0..(h - 1) -> Level'] /\ m_current_state' \in [0..(h - 1) -> State']
      BY <1>4, <1>9, <1>10, <2>1, <2>2
    <2>4. merges' \in Seq(Task)'
      BY <1>1, EmptySeq
    <2>5. QED
      BY <1>1, <2>2, <2>3, <2>4 DEF IInv, Types
  <1>12. LevelShapes'
    <2>1. \A i \in 0..(h - 1) : Len(m_levels[i].shards) \in Nat /\ Len(m_levels[i].shards) <= 1
      BY <1>1, <1>3, LevelFacts DEF IInv, LevelShapes
    <2>2. QED
      BY <1>1, <1>4, <1>6, <2>1 DEF LevelShapes
  <1>13. (VictimsKnown /\ HeldBound /\ AllHeld /\ ErasersHeld)'
    BY <1>1, <1>8 DEF IInv, VictimsKnown, HeldBound, AllHeld, ErasersHeld, Erasable, Records
  <1>14. (RecentAcross /\ RecentWithin)'
    BY <1>3, <1>4, <1>6, <1>7 DEF IInv, RecentAcross, RecentWithin
  <1>15. LevelNumbers'
    BY <1>4, <1>6 DEF LevelNumbers
  <1>16. StateKnown'
    <2>1. \A i \in 0..(h - 1) : RecordCount(m_levels'[i]) = Cardinality(LevelRecords(i))
      <3>1. \A i \in 0..(h - 1) : RecordCount(m_levels'[i]) = Cardinality(LevelRecords(i)')
        BY DEF RecordCount, LevelRecords
      <3>2. QED
        BY <1>7, <3>1
    <2>2. CountsReal'
      BY <1>4, <1>6, <1>10, <2>1 DEF CountsReal
    <2>3. 0 \in DOMAIN m_levels => Cardinality(LevelRecords(0)) <= LevelCapacity(0)
      BY <1>1, LevelFacts DEF IInv, StateKnown
    <2>4. QED
      BY <1>1, <1>3, <1>4, <1>10, <2>2, <2>3 DEF StateKnown
  <1>17. PlanKnown'
    BY <1>1 DEF PlanKnown
  <1>18. CheckpointKnown'
    BY <1>1, <1>3, <1>4, <1>6 DEF CheckpointKnown, SaveCheckpoint
  <1>19. QED
    BY <1>11, <1>12, <1>13, <1>14, <1>15, <1>16, <1>17, <1>18 DEF IInv

-----------------------------------------------------------------------------
(***************************************************************************)
(* What cancelling does to the records, in a merge and in a flush.         *)
(***************************************************************************)

\* Removing the pairs of a set takes no record that is not erased, and no tombstone
\* whose record stays.
LEMMA CancellingIsSafe ==
  ASSUME NEW R, NEW erased \in [R -> R \cup {NoVictim}], NoVictim \notin R,
         \A t \in R : erased[t] # NoVictim => erased[erased[t]] = NoVictim,
         NEW S, S \subseteq R, NEW rs, rs \subseteq R,
         NEW T, T = S \ Cancelled(rs, erased)
  PROVE  /\ \A r \in S : r \notin T => erased[r] # NoVictim \/ \E t \in R : erased[t] = r
         /\ (\A t \in R : erased[t] \in S => t \in S) => \A t \in R : erased[t] \in T => t \in T
  <1>1. ASSUME NEW r \in S, r \notin T PROVE erased[r] # NoVictim \/ \E t \in R : erased[t] = r
    <2>1. PICK t \in rs : erased[t] \in rs /\ (r = t \/ r = erased[t])
      BY <1>1 DEF Cancelled
    <2>2. QED
      BY <2>1
  <1>2. ASSUME \A t \in R : erased[t] \in S => t \in S, NEW t \in R, erased[t] \in T PROVE t \in T
    <2>1. SUFFICES ASSUME t \in Cancelled(rs, erased) PROVE FALSE
      BY <1>2
    <2>2. PICK u \in rs : erased[u] \in rs /\ (t = u \/ t = erased[u])
      BY <2>1 DEF Cancelled
    <2>3. erased[t] \notin Cancelled(rs, erased)
      BY <1>2
    <2>4. CASE t = u
      BY <2>2, <2>3, <2>4 DEF Cancelled
    <2>5. CASE t = erased[u]
      <3>1. erased[t] = NoVictim
        BY <2>2, <2>5
      <3>2. QED
        BY <1>2, <3>1
    <2>6. QED
      BY <2>2, <2>4, <2>5
  <1>3. QED
    BY <1>1, <1>2

\* Cancelling pairs keeps what the invariant says of records and tombstones.
LEMMA MergeKeepsRecords ==
  ASSUME IInv, layout' = layout, nrec' = nrec, victim' = victim,
         NEW rs, rs \subseteq Records, Held' = Held \ Cancelled(rs, victim)
  PROVE  (VictimsKnown /\ HeldBound /\ AllHeld /\ ErasersHeld)'
  <1>1. Records' = Records /\ NoVictim \notin Records
    BY DEF Records, NoVictim
  <1>2. VictimsKnown'
    BY <1>1 DEF IInv, VictimsKnown
  <1>3. Held \subseteq Records
    BY LevelFacts DEF Held
  <1>4. PICK R : R = Records
    OBVIOUS
  <1>5. PICK V : V = victim
    OBVIOUS
  <1>6. PICK S : S = Held
    OBVIOUS
  <1>7. PICK T : T = Held'
    OBVIOUS
  <1>8. /\ V \in [R -> R \cup {NoVictim}] /\ NoVictim \notin R /\ S \subseteq R
        /\ T = S \ Cancelled(rs, V)
        /\ \A t \in R : V[t] # NoVictim => V[V[t]] = NoVictim
        /\ \A t \in R : V[t] \in S => t \in S
    BY <1>1, <1>3, <1>4, <1>5, <1>6, <1>7 DEF IInv, Types, VictimsKnown, ErasersHeld
  <1>9. /\ \A r \in S : r \notin T => V[r] # NoVictim \/ \E t \in R : V[t] = r
        /\ \A t \in R : V[t] \in T => t \in T
    BY <1>4, <1>8, CancellingIsSafe
  <1>10. HeldBound'
    BY DEF IInv, HeldBound
  <1>11. AllHeld'
    <2> SUFFICES ASSUME NEW r \in Records, Erasable(r)' PROVE r \in Held'
      BY <1>1 DEF AllHeld
    <2>1. Erasable(r)
      BY <1>1 DEF Erasable
    <2>2. r \in Held
      BY <2>1 DEF IInv, AllHeld
    <2>3. QED
      BY <1>4, <1>5, <1>6, <1>7, <1>9, <2>1, <2>2 DEF Erasable
  <1>12. ErasersHeld'
    BY <1>1, <1>4, <1>5, <1>7, <1>9 DEF ErasersHeld
  <1>13. QED
    BY <1>2, <1>10, <1>11, <1>12

-----------------------------------------------------------------------------
(***************************************************************************)
(* A merge of two neighbouring levels.                                     *)
(***************************************************************************)

\* The records that the target of the first task has before the merge.
TargetRecords(n) == IF n \in DOMAIN m_levels THEN LevelRecords(n) ELSE {}

\* The task at the head of a chain.
LEMMA ChainHead ==
  ASSUME IInv, merges # <<>>, layout # "BSM"
  PROVE  /\ Len(merges) \in Nat \ {0} /\ Len(merges) - 1 \in DOMAIN m_levels
         /\ m_levels[Len(merges) - 1].shards # <<>>
         /\ Head(merges).target = Len(merges)
         /\ (CHOOSE s \in Head(merges).sources : TRUE) = Len(merges) - 1
         /\ layout = "TEIRING" /\ Len(merges) \in DOMAIN m_levels =>
              Len(m_levels[Len(merges)].shards) < ScaleFactor
  <1>1. Len(merges) \in Nat \ {0} /\ Head(merges) = merges[1]
    BY EmptySeq, HeadTailProperties DEF IInv, Types
  <1>2. ChainPlan
    BY DEF IInv, PlanKnown
  <1>3. merges[1] = [target |-> Len(merges), sources |-> {Len(merges) - 1}]
    BY <1>1, <1>2 DEF ChainPlan
  <1>4. Head(merges).target = Len(merges) /\ Head(merges).sources = {Len(merges) - 1}
    BY <1>1, <1>3
  <1>5. (CHOOSE s \in Head(merges).sources : TRUE) = Len(merges) - 1
    BY <1>4
  <1>6. QED
    BY <1>1, <1>2, <1>4, <1>5 DEF ChainPlan

\* Where a merge puts its results.
LEMMA MergeShape ==
  ASSUME IInv, MergeLevels
  PROVE  LET n == Len(merges)
             M == IF layout = "LEVELING" THEN LeveledBase(n, n - 1) ELSE TieredBase(n, n - 1)
             E == EmptyLevel(n - 1, ShardCapacity)
         IN /\ DOMAIN m_levels' = DOMAIN m_levels \cup {n}
            /\ m_levels'[n] = M /\ m_levels'[n - 1] = E
            /\ \A i \in DOMAIN m_levels \ {n, n - 1} : m_levels'[i] = m_levels[i]
            /\ DOMAIN m_current_state' = DOMAIN m_levels \cup {n}
            /\ m_current_state'[n] = LevelState(M, n, ShardCapacity)
            /\ m_current_state'[n - 1] = LevelState(E, n - 1, ShardCapacity)
            /\ \A i \in DOMAIN m_levels \ {n, n - 1} : m_current_state'[i] = m_current_state[i]
            /\ m_levels' = [i \in DOMAIN m_levels' |-> m_levels'[i]]
            /\ m_current_state' = [i \in DOMAIN m_current_state' |-> m_current_state'[i]]
  <1> DEFINE n == Len(merges)
             M == IF layout = "LEVELING" THEN LeveledBase(n, n - 1) ELSE TieredBase(n, n - 1)
             E == EmptyLevel(n - 1, ShardCapacity)
  <1>1. PICK h \in Nat : m_levels \in [0..(h - 1) -> Level] /\ m_current_state \in [0..(h - 1) -> State]
    BY DEF IInv, Types
  <1>2. n \in Nat \ {0} /\ n - 1 \in DOMAIN m_levels /\ Head(merges).target = n
        /\ (CHOOSE s \in Head(merges).sources : TRUE) = n - 1
    BY ChainHead DEF MergeLevels
  <1>3. /\ m_levels' = Put(Put(m_levels, n, M), n - 1, E)
        /\ m_current_state' = Put(Put(m_current_state, n, LevelState(M, n, ShardCapacity)),
                                  n - 1, LevelState(E, n - 1, ShardCapacity))
    <2> DEFINE base == Head(merges).target
               incoming == CHOOSE s \in Head(merges).sources : TRUE
               merged(b, i) == IF layout = "LEVELING" THEN LeveledBase(b, i) ELSE TieredBase(b, i)
               emptied(i) == EmptyLevel(i, ShardCapacity)
    <2>1. /\ m_levels' = Put(Put(m_levels, base, merged(base, incoming)), incoming, emptied(incoming))
          /\ m_current_state' =
               Put(Put(m_current_state, base, LevelState(merged(base, incoming), base, ShardCapacity)),
                   incoming, LevelState(emptied(incoming), incoming, ShardCapacity))
      BY DEF MergeLevels
    <2>2. base = n /\ incoming = n - 1
      BY <1>2
    <2> HIDE DEF base, incoming
    <2>3. QED
      BY <2>1, <2>2
  <1> HIDE DEF M, E, n
  <1>4. n # n - 1
    BY <1>2
  <1>5. /\ DOMAIN m_levels' = DOMAIN m_levels \cup {n}
        /\ m_levels'[n] = M /\ m_levels'[n - 1] = E
        /\ \A i \in DOMAIN m_levels \ {n, n - 1} : m_levels'[i] = m_levels[i]
        /\ m_levels' = [i \in DOMAIN m_levels' |-> m_levels'[i]]
    BY <1>2, <1>3, <1>4 DEF Put
  <1>6. DOMAIN m_current_state = DOMAIN m_levels
    BY <1>1
  <1>7. /\ DOMAIN m_current_state' = DOMAIN m_levels \cup {n}
        /\ m_current_state'[n] = LevelState(M, n, ShardCapacity)
        /\ m_current_state'[n - 1] = LevelState(E, n - 1, ShardCapacity)
        /\ \A i \in DOMAIN m_levels \ {n, n - 1} : m_current_state'[i] = m_current_state[i]
        /\ m_current_state' = [i \in DOMAIN m_current_state' |-> m_current_state'[i]]
    BY <1>2, <1>3, <1>4, <1>6 DEF Put
  <1>8. QED
    BY <1>5, <1>7 DEF M, E, n

\* The level that a tiered merge makes: the target with one more shard.
LEMMA TieredMerge ==
  ASSUME IInv, MergeLevels, layout = "TEIRING", NEW n, n = Len(merges), NEW M, M = TieredBase(n, n - 1)
  PROVE  /\ M \in Level /\ M.shard_cap = ScaleFactor /\ Len(M.shards) <= ScaleFactor
         /\ M.shards # <<>>
         /\ ShardRecords(M) = (TargetRecords(n) \cup LevelRecords(n - 1)) \ Cancelled(LevelRecords(n - 1), victim)
         /\ Ordered(M.shards)
  <1>1. n \in Nat \ {0} /\ n - 1 \in DOMAIN m_levels /\ m_levels[n - 1].shards # <<>>
        /\ (n \in DOMAIN m_levels => Len(m_levels[n].shards) < ScaleFactor)
    BY ChainHead DEF MergeLevels
  <1>2. ScaleFactor \in Nat /\ ScaleFactor > 1
    BY StructureAssumption
  <1> DEFINE l == IF n \in DOMAIN m_levels THEN m_levels[n] ELSE EmptyLevel(n, ShardCapacity)
             c == BuildShard(LevelRecords(n - 1), victim)
  <1>3. /\ l \in Level /\ l.shards \in Seq(SUBSET Records) /\ Len(l.shards) < ScaleFactor
        /\ l.shard_cap = ScaleFactor /\ ShardRecords(l) = TargetRecords(n) /\ Ordered(l.shards)
    <2>1. CASE n \in DOMAIN m_levels
      <3>1. m_levels[n] \in Level /\ m_levels[n].shards \in Seq(SUBSET Records)
        BY <2>1, LevelFacts
      <3>2. m_levels[n].shard_cap = ScaleFactor
        BY <2>1 DEF IInv, LevelShapes
      <3>3. QED
        BY <1>1, <2>1, <3>1, <3>2 DEF TargetRecords, LevelRecords, IInv, RecentWithin
    <2>2. CASE n \notin DOMAIN m_levels
      <3>1. l = EmptyLevel(n, ScaleFactor)
        BY <2>2 DEF ShardCapacity
      <3> HIDE DEF l
      <3>2. l \in Level /\ l.shard_cap = ScaleFactor
        BY <1>1, <1>2, <3>1, NewLevelTypes
      <3>3. l.shards = <<>> /\ Len(l.shards) = 0 /\ ShardRecords(l) = {} /\ DOMAIN l.shards = {}
        BY <3>1, RecordsOfEmpty
      <3>4. l.shards \in Seq(SUBSET Records) /\ TargetRecords(n) = {}
        BY <2>2, <3>3, EmptySeq DEF TargetRecords
      <3>5. QED
        BY <1>2, <3>2, <3>3, <3>4 DEF Ordered
    <2>3. QED
      BY <2>1, <2>2
  <1>4. c = LevelRecords(n - 1) \ Cancelled(LevelRecords(n - 1), victim) /\ c \subseteq LevelRecords(n - 1)
    BY BuildShardCancels
  <1>5. LevelRecords(n - 1) \subseteq Records
    BY <1>1, LevelFacts
  <1>6. Combined({m_levels[n - 1]}) = c
    BY DEF Combined, LevelRecords
  <1> HIDE DEF l, c
  <1>7. M = [l EXCEPT !.shards = Append(l.shards, c)]
    <2>1. AppendLevel(l, m_levels[n - 1]) = AppendShard(l, c)
      BY <1>1, <1>6 DEF AppendLevel
    <2>2. AppendShard(l, c) = [l EXCEPT !.shards = Append(l.shards, c)]
      BY <1>3 DEF AppendShard
    <2>3. [l EXCEPT !.shards = Append(l.shards, c)].pending = <<>>
      BY <1>3 DEF Level
    <2>4. M = Finalize(AppendLevel(l, m_levels[n - 1]))
      BY DEF TieredBase, l
    <2>5. QED
      BY <2>1, <2>2, <2>3, <2>4 DEF Finalize
  <1>8. c \in SUBSET Records
    BY <1>4, <1>5
  <1>9. PICK q : q = l.shards
    OBVIOUS
  <1>10. PICK w : w = Append(q, c)
    OBVIOUS
  <1>11. \A a \in c, b \in ShardRecords(l) : a > b
    <2>1. n \in DOMAIN m_levels => \A a \in LevelRecords(n - 1), b \in LevelRecords(n) : a > b
      BY <1>1 DEF IInv, RecentAcross
    <2>2. QED
      BY <1>3, <1>4, <2>1 DEF TargetRecords
  <1>12. /\ w \in Seq(SUBSET Records) /\ Len(w) = Len(q) + 1 /\ w # <<>> /\ Len(q) \in Nat
         /\ AllOf(w) = ShardRecords(l) \cup c /\ Ordered(w)
    <2>1. AllOf(q) = ShardRecords(l)
      BY <1>9 DEF ShardRecords, AllOf
    <2>2. q \in Seq(SUBSET Records) /\ Ordered(q)
      BY <1>3, <1>9 DEF Ordered
    <2>3. PICK S : S = SUBSET Records
      OBVIOUS
    <2>4. PICK d : d = c
      OBVIOUS
    <2>5. q \in Seq(S) /\ d \in S /\ w = Append(q, d) /\ \A a \in d, b \in AllOf(q) : a > b
      BY <1>8, <1>10, <1>11, <2>1, <2>2, <2>3, <2>4
    <2>6. w \in Seq(S) /\ Len(w) = Len(q) + 1 /\ w # <<>> /\ AllOf(w) = AllOf(q) \cup d /\ Ordered(w)
      <3>1. w \in Seq(S) /\ Len(w) = Len(q) + 1 /\ w # <<>>
        BY <2>5, AppendedShards
      <3>2. AllOf(w) = AllOf(q) \cup d
        BY <2>5, AppendedShards
      <3>3. Ordered(w)
        BY <2>2, <2>5, AppendedShards
      <3>4. QED
        BY <3>1, <3>2, <3>3
    <2>7. Len(q) \in Nat
      BY <2>2, LenProperties
    <2>8. QED
      BY <2>1, <2>3, <2>4, <2>6, <2>7
  <1>13. M \in Level /\ M.shards = w /\ M.shard_cap = ScaleFactor /\ ShardRecords(M) = ShardRecords(l) \cup c
    <2>1. M = [l EXCEPT !.shards = w]
      BY <1>7, <1>9, <1>10
    <2>2. M \in Level /\ M.shards = w /\ M.shard_cap = ScaleFactor
      BY <1>3, <1>12, <2>1 DEF Level
    <2>3. QED
      BY <1>12, <2>2 DEF ShardRecords, AllOf
  <1>14. ShardRecords(l) \cap Cancelled(LevelRecords(n - 1), victim) = {}
    <2>1. n \in DOMAIN m_levels => \A a \in LevelRecords(n - 1), b \in LevelRecords(n) : a > b
      BY <1>1 DEF IInv, RecentAcross
    <2>2. \A a \in LevelRecords(n - 1), b \in ShardRecords(l) : a > b /\ a \in Nat
      BY <1>3, <1>5, <2>1 DEF TargetRecords, Records
    <2>3. QED
      BY <2>2 DEF Cancelled
  <1>15. M.shards # <<>> /\ Len(M.shards) <= ScaleFactor
    BY <1>2, <1>3, <1>9, <1>12, <1>13
  <1>16. QED
    BY <1>3, <1>4, <1>12, <1>13, <1>14, <1>15

\* A level with one shard is ordered.
LEMMA ShortIsOrdered ==
  ASSUME NEW S, NEW q \in Seq(S), Len(q) <= 1
  PROVE  Ordered(q)
  <1>1. Len(q) \in Nat /\ DOMAIN q = 1..Len(q)
    BY LenProperties
  <1>2. \A k, m \in DOMAIN q : ~(k > m)
    BY <1>1
  <1>3. QED
    BY <1>2 DEF Ordered

\* The level that a leveled merge makes: one shard from two, or the source itself.
LEMMA LeveledMerge ==
  ASSUME IInv, MergeLevels, layout = "LEVELING", NEW n, n = Len(merges), NEW M, M = LeveledBase(n, n - 1)
  PROVE  /\ M \in Level /\ Len(M.shards) <= M.shard_cap /\ Len(M.shards) <= 1 /\ M.shards # <<>>
         /\ \E rs \in SUBSET (TargetRecords(n) \cup LevelRecords(n - 1)) :
              ShardRecords(M) = (TargetRecords(n) \cup LevelRecords(n - 1)) \ Cancelled(rs, victim)
         /\ M.level_no = IF n \in DOMAIN m_levels /\ m_levels[n].shards # <<>>
                           THEN m_levels[n].level_no ELSE m_levels[n - 1].level_no
  <1>1. n \in Nat \ {0} /\ n - 1 \in DOMAIN m_levels /\ m_levels[n - 1].shards # <<>>
    BY ChainHead DEF MergeLevels
  <1>2. CASE n \in DOMAIN m_levels /\ m_levels[n].shards # <<>>
    <2>1. PICK rs : rs = LevelRecords(n) \cup LevelRecords(n - 1)
      OBVIOUS
    <2>2. PICK c : c = BuildShard(rs, victim)
      OBVIOUS
    <2>3. c = rs \ Cancelled(rs, victim) /\ c \subseteq rs
      BY <2>2, BuildShardCancels
    <2>4. Combined({m_levels[n], m_levels[n - 1]}) = c
      <3>1. UNION {ShardRecords(l) : l \in {m_levels[n], m_levels[n - 1]}} = rs
        BY <2>1 DEF LevelRecords
      <3>2. QED
        BY <2>2, <3>1 DEF Combined
    <2>5. M = OneShardLevel(m_levels[n].level_no, c)
      BY <1>2, <2>4 DEF LeveledBase
    <2>6. rs \subseteq Records /\ m_levels[n].level_no \in Nat
      BY <1>1, <1>2, <2>1, LevelFacts DEF Level
    <2>7. c \in SUBSET Records
      BY <2>3, <2>6
    <2>8. PICK no : no = m_levels[n].level_no
      OBVIOUS
    <2>9. M \in Level /\ M.shard_cap = 1 /\ M.level_no = no
      BY <2>5, <2>6, <2>7, <2>8, NewLevelTypes
    <2>10. M.shards # <<>> /\ Len(M.shards) = 1 /\ ShardRecords(M) = c
      BY <2>5, <2>8, RecordsOfOne
    <2>11. TargetRecords(n) = LevelRecords(n)
      BY <1>2 DEF TargetRecords
    <2>12. \E x \in SUBSET (TargetRecords(n) \cup LevelRecords(n - 1)) :
             ShardRecords(M) = (TargetRecords(n) \cup LevelRecords(n - 1)) \ Cancelled(x, victim)
      <3>1. rs \in SUBSET (TargetRecords(n) \cup LevelRecords(n - 1))
        BY <2>1, <2>11
      <3> WITNESS rs \in SUBSET (TargetRecords(n) \cup LevelRecords(n - 1))
      <3>2. QED
        BY <2>1, <2>3, <2>10, <2>11
    <2>13. M.shards # <<>> /\ Len(M.shards) <= 1 /\ Len(M.shards) <= M.shard_cap
      <3>1. \A x, y : x = 1 /\ y = 1 => x <= 1 /\ x <= y
        OBVIOUS
      <3>2. QED
        BY <2>9, <2>10, <3>1, Zenon
    <2>14. QED
      BY <1>2, <2>8, <2>9, <2>12, <2>13
  <1>3. CASE ~(n \in DOMAIN m_levels /\ m_levels[n].shards # <<>>)
    <2>1. M = m_levels[n - 1]
      BY <1>3 DEF LeveledBase
    <2>2. M \in Level /\ Len(M.shards) <= M.shard_cap /\ Len(M.shards) <= 1
      BY <1>1, <2>1, LevelFacts DEF IInv, LevelShapes
    <2>3. TargetRecords(n) = {}
      BY <1>3, LevelFacts DEF TargetRecords
    <2>4. ShardRecords(M) = LevelRecords(n - 1) /\ Cancelled({}, victim) = {}
      BY <2>1 DEF LevelRecords, Cancelled
    <2>5. QED
      BY <1>1, <1>3, <2>1, <2>2, <2>3, <2>4
  <1>4. QED
    BY <1>2, <1>3

\* Both policies.
LEMMA MergedLevel ==
  ASSUME IInv, MergeLevels, NEW n, n = Len(merges),
         NEW M, M = IF layout = "LEVELING" THEN LeveledBase(n, n - 1) ELSE TieredBase(n, n - 1)
  PROVE  /\ layout \in {"TEIRING", "LEVELING"}
         /\ M \in Level /\ Len(M.shards) <= M.shard_cap /\ M.shards # <<>> /\ Ordered(M.shards)
         /\ layout = "TEIRING" => M.shard_cap = ScaleFactor
         /\ layout = "LEVELING" =>
              /\ Len(M.shards) <= 1
              /\ M.level_no = IF n \in DOMAIN m_levels /\ m_levels[n].shards # <<>>
                                THEN m_levels[n].level_no ELSE m_levels[n - 1].level_no
         /\ \E rs \in SUBSET (TargetRecords(n) \cup LevelRecords(n - 1)) :
              ShardRecords(M) = (TargetRecords(n) \cup LevelRecords(n - 1)) \ Cancelled(rs, victim)
  <1>1. layout \in {"TEIRING", "LEVELING"}
    BY StructureAssumption DEF MergeLevels, IInv, Types
  <1>2. CASE layout = "TEIRING"
    <2>1. M = TieredBase(n, n - 1)
      BY <1>2
    <2>2. /\ M \in Level /\ M.shard_cap = ScaleFactor /\ Len(M.shards) <= ScaleFactor
          /\ M.shards # <<>> /\ Ordered(M.shards)
      BY <1>2, <2>1, TieredMerge
    <2>3. ShardRecords(M) = (TargetRecords(n) \cup LevelRecords(n - 1)) \ Cancelled(LevelRecords(n - 1), victim)
      BY <1>2, <2>1, TieredMerge
    <2>4. QED
      BY <1>2, <2>2, <2>3
  <1>3. CASE layout = "LEVELING"
    <2>1. M = LeveledBase(n, n - 1)
      BY <1>3
    <2>2. /\ M \in Level /\ Len(M.shards) <= M.shard_cap /\ Len(M.shards) <= 1 /\ M.shards # <<>>
          /\ \E rs \in SUBSET (TargetRecords(n) \cup LevelRecords(n - 1)) :
               ShardRecords(M) = (TargetRecords(n) \cup LevelRecords(n - 1)) \ Cancelled(rs, victim)
          /\ M.level_no = IF n \in DOMAIN m_levels /\ m_levels[n].shards # <<>>
                            THEN m_levels[n].level_no ELSE m_levels[n - 1].level_no
      <3>1. n = Len(merges) /\ MergeLevels
        OBVIOUS
      <3>2. QED
        BY <1>3, <2>1, <3>1, LeveledMerge, Zenon
    <2>3. \E rs \in SUBSET (TargetRecords(n) \cup LevelRecords(n - 1)) :
            ShardRecords(M) = (TargetRecords(n) \cup LevelRecords(n - 1)) \ Cancelled(rs, victim)
      BY <2>2
    <2>4. M.shards \in Seq(SUBSET Records)
      BY <2>2 DEF Level
    <2>5. Ordered(M.shards)
      BY <2>2, <2>4, ShortIsOrdered
    <2>6. QED
      BY <1>3, <2>2, <2>3, <2>5
  <1>4. QED
    BY <1>1, <1>2, <1>3

\* What a merge does to the records of the levels.
LEMMA MergeRecords ==
  ASSUME IInv, MergeLevels, NEW n, n = Len(merges)
  PROVE  /\ LevelRecords(n - 1)' = {}
         /\ LevelRecords(n)' \subseteq TargetRecords(n) \cup LevelRecords(n - 1)
         /\ \A i \in DOMAIN m_levels \ {n, n - 1} : LevelRecords(i)' = LevelRecords(i)
         /\ \E rs \in SUBSET Records : Held' = Held \ Cancelled(rs, victim)
  <1>1. n \in Nat \ {0} /\ n - 1 \in DOMAIN m_levels /\ n # n - 1
    BY ChainHead DEF MergeLevels
  <1>2. PICK M : M = IF layout = "LEVELING" THEN LeveledBase(n, n - 1) ELSE TieredBase(n, n - 1)
    OBVIOUS
  <1>3. /\ DOMAIN m_levels' = DOMAIN m_levels \cup {n} /\ m_levels'[n] = M
        /\ m_levels'[n - 1] = EmptyLevel(n - 1, ShardCapacity)
        /\ \A i \in DOMAIN m_levels \ {n, n - 1} : m_levels'[i] = m_levels[i]
    BY <1>2, MergeShape
  <1>4. PICK rs \in SUBSET (TargetRecords(n) \cup LevelRecords(n - 1)) :
          ShardRecords(M) = (TargetRecords(n) \cup LevelRecords(n - 1)) \ Cancelled(rs, victim)
    BY <1>2, MergedLevel
  <1>5. LevelRecords(n - 1)' = {}
    <2>1. PICK cap : cap = ShardCapacity
      OBVIOUS
    <2>2. m_levels'[n - 1] = EmptyLevel(n - 1, cap)
      BY <1>3, <2>1
    <2>3. QED
      BY <2>2, RecordsOfEmpty DEF LevelRecords
  <1>6. LevelRecords(n)' = (TargetRecords(n) \cup LevelRecords(n - 1)) \ Cancelled(rs, victim)
    BY <1>3, <1>4 DEF LevelRecords
  <1>7. \A i \in DOMAIN m_levels \ {n, n - 1} : LevelRecords(i)' = LevelRecords(i)
    BY <1>3 DEF LevelRecords
  <1>8. /\ TargetRecords(n) \subseteq Records /\ LevelRecords(n - 1) \subseteq Records
        /\ \A i \in DOMAIN m_levels : LevelRecords(i) \subseteq Records
    BY <1>1, LevelFacts DEF TargetRecords
  <1>9. \A i \in DOMAIN m_levels \ {n, n - 1} :
          LevelRecords(i) \cap (TargetRecords(n) \cup LevelRecords(n - 1)) = {}
    <2> SUFFICES ASSUME NEW i \in DOMAIN m_levels \ {n, n - 1}, NEW j \in DOMAIN m_levels \cap {n, n - 1},
                        NEW r \in LevelRecords(i), r \in LevelRecords(j)
                 PROVE  FALSE
      BY <1>1 DEF TargetRecords
    <2>1. i \in Nat /\ j \in Nat /\ r \in Nat /\ i # j
      BY <1>8, LevelFacts DEF Records
    <2>2. QED
      BY <2>1 DEF IInv, RecentAcross
  <1>10. Cancelled(rs, victim) \subseteq TargetRecords(n) \cup LevelRecords(n - 1)
    BY <1>4 DEF Cancelled
  <1>11. \A r : r \in Held <=> \/ r \in TargetRecords(n) \cup LevelRecords(n - 1)
                               \/ \E i \in DOMAIN m_levels \ {n, n - 1} : r \in LevelRecords(i)
    BY <1>1 DEF Held, TargetRecords
  <1>12. \A r : r \in Held' <=> \/ r \in LevelRecords(n)'
                                \/ \E i \in DOMAIN m_levels \ {n, n - 1} : r \in LevelRecords(i)
    <2>1. \A r : r \in Held' <=> \E i \in DOMAIN m_levels \cup {n} : r \in ShardRecords(m_levels'[i])
      BY <1>3 DEF Held, LevelRecords
    <2>2. /\ ShardRecords(m_levels'[n - 1]) = {} /\ ShardRecords(m_levels'[n]) = LevelRecords(n)'
          /\ \A i \in DOMAIN m_levels \ {n, n - 1} : ShardRecords(m_levels'[i]) = LevelRecords(i)
      BY <1>5, <1>7 DEF LevelRecords
    <2>3. QED
      BY <1>1, <2>1, <2>2
  <1>13. Held' = Held \ Cancelled(rs, victim)
    <2>1. \A r : (\E i \in DOMAIN m_levels \ {n, n - 1} : r \in LevelRecords(i)) => r \notin Cancelled(rs, victim)
      BY <1>9, <1>10
    <2>2. QED
      BY <1>6, <1>11, <1>12, <2>1
  <1>14. rs \in SUBSET Records
    BY <1>4, <1>8
  <1>15. QED
    BY <1>5, <1>6, <1>7, <1>13, <1>14

\* The domain of the levels stays an interval when the target is the next one.
LEMMA NextDomain ==
  ASSUME NEW h \in Nat, NEW n \in Nat, n = 0 \/ n - 1 \in 0..(h - 1)
  PROVE  \E g \in Nat : 0..(h - 1) \cup {n} = 0..(g - 1)
  <1>1. CASE n < h
    <2>1. 0..(h - 1) \cup {n} = 0..(h - 1)
      BY <1>1
    <2>2. QED
      BY <2>1
  <1>2. CASE n >= h
    <2>1. n = h
      BY <1>2
    <2>2. 0..(h - 1) \cup {n} = 0..((h + 1) - 1)
      BY <2>1
    <2>3. QED
      BY <2>2
  <1>3. QED
    BY <1>1, <1>2

\* The states that LevelState computes.
LEMMA LevelStateFacts ==
  ASSUME IInv, CapacitiesGrow, NEW l, l.shards \in Seq(SUBSET Records), NEW idx \in Nat, NEW cap \in Nat
  PROVE  /\ LevelState(l, idx, cap) \in State
         /\ LevelState(l, idx, cap).reccnt = RecordCount(l)
         /\ LevelState(l, idx, cap).shardcnt = Len(l.shards)
         /\ LevelState(l, idx, cap).reccap = LevelCapacity(idx)
         /\ LevelState(l, idx, cap).shardcap = cap
  <1>1. MaxRecords[layout] \in Nat
    BY StructureAssumption DEF IInv, Types
  <1>2. PICK m \in Nat : m = MaxRecords[layout]
    BY <1>1
  <1>3. l.shards \in Seq(SUBSET (0..(m - 1)))
    BY <1>2 DEF Records
  <1>4. RecordCount(l) \in Nat /\ Len(l.shards) \in Nat /\ LevelCapacity(idx) \in Nat
    BY <1>3, CountOfLevel, LenProperties DEF CapacitiesGrow
  <1>5. QED
    BY <1>4 DEF LevelState, State

\* The merge of one level into the next keeps the invariant.
LEMMA MergeInv ==
  ASSUME IInv, CapacitiesGrow, MergeLevels
  PROVE  IInv'
  <1>1. /\ layout' = layout /\ nrec' = nrec /\ victim' = victim /\ m_flush_seq' = m_flush_seq
        /\ pc = "work" /\ pc' = pc /\ merges # <<>> /\ layout # "BSM"
        /\ merges' = Tail(merges) /\ checkpoint' = SaveCheckpoint(m_levels', m_flush_seq)
    BY DEF MergeLevels
  <1>2. PICK h \in Nat : m_levels \in [0..(h - 1) -> Level] /\ m_current_state \in [0..(h - 1) -> State]
    BY DEF IInv, Types
  <1>3. PICK n : n = Len(merges)
    OBVIOUS
  <1>4. n \in Nat \ {0} /\ n - 1 \in DOMAIN m_levels /\ n - 1 \in Nat /\ n # n - 1
        /\ m_levels[n - 1].shards # <<>>
    BY <1>1, <1>3, ChainHead
  <1>5. PICK M : M = IF layout = "LEVELING" THEN LeveledBase(n, n - 1) ELSE TieredBase(n, n - 1)
    OBVIOUS
  <1>6. PICK cap : cap = ShardCapacity
    OBVIOUS
  <1>7. cap \in Nat /\ cap >= 1 /\ (layout = "TEIRING" => cap = ScaleFactor)
    BY <1>6, StructureAssumption DEF ShardCapacity
  <1>8. PICK E : E = EmptyLevel(n - 1, cap)
    OBVIOUS
  <1>9. /\ layout \in {"TEIRING", "LEVELING"}
        /\ M \in Level /\ Len(M.shards) <= M.shard_cap /\ M.shards # <<>> /\ Ordered(M.shards)
        /\ layout = "TEIRING" => M.shard_cap = ScaleFactor
        /\ layout = "LEVELING" =>
             /\ Len(M.shards) <= 1
             /\ M.level_no = IF n \in DOMAIN m_levels /\ m_levels[n].shards # <<>>
                               THEN m_levels[n].level_no ELSE m_levels[n - 1].level_no
    BY <1>3, <1>5, MergedLevel
  <1>10. E \in Level /\ E.shards = <<>> /\ Len(E.shards) = 0 /\ E.shard_cap = cap /\ RecordCount(E) = 0
    <2>1. {} \in SUBSET Records
      OBVIOUS
    <2>2. PICK no \in Nat : no = n - 1
      BY <1>4
    <2>3. E = EmptyLevel(no, cap)
      BY <1>8, <2>2
    <2>4. E \in Level /\ E.shard_cap = cap
      BY <1>7, <2>1, <2>3, NewLevelTypes
    <2>5. E.shards = <<>> /\ Len(E.shards) = 0 /\ RecordCount(E) = 0
      BY <2>3, RecordsOfEmpty
    <2>6. QED
      BY <2>4, <2>5
  <1>11. /\ DOMAIN m_levels' = DOMAIN m_levels \cup {n}
         /\ m_levels'[n] = M /\ m_levels'[n - 1] = E
         /\ \A i \in DOMAIN m_levels \ {n, n - 1} : m_levels'[i] = m_levels[i]
         /\ m_levels' = [i \in DOMAIN m_levels' |-> m_levels'[i]]
    BY <1>3, <1>5, <1>6, <1>8, MergeShape
  <1>12. /\ DOMAIN m_current_state' = DOMAIN m_levels \cup {n}
         /\ m_current_state'[n] = LevelState(M, n, cap)
         /\ m_current_state'[n - 1] = LevelState(E, n - 1, cap)
         /\ \A i \in DOMAIN m_levels \ {n, n - 1} : m_current_state'[i] = m_current_state[i]
         /\ m_current_state' = [i \in DOMAIN m_current_state' |-> m_current_state'[i]]
    BY <1>3, <1>5, <1>6, <1>8, MergeShape
  <1>13. M.shards \in Seq(SUBSET Records) /\ E.shards \in Seq(SUBSET Records)
    BY <1>9, <1>10 DEF Level
  <1>14. /\ LevelState(M, n, cap) \in State /\ LevelState(E, n - 1, cap) \in State
         /\ LevelState(M, n, cap).reccnt = RecordCount(M) /\ LevelState(E, n - 1, cap).reccnt = RecordCount(E)
         /\ LevelState(M, n, cap).shardcnt = Len(M.shards) /\ LevelState(E, n - 1, cap).shardcnt = Len(E.shards)
         /\ LevelState(M, n, cap).reccap = LevelCapacity(n)
         /\ LevelState(E, n - 1, cap).reccap = LevelCapacity(n - 1)
         /\ LevelState(M, n, cap).shardcap = cap /\ LevelState(E, n - 1, cap).shardcap = cap
    <2>1. /\ LevelState(M, n, cap) \in State /\ LevelState(M, n, cap).reccnt = RecordCount(M)
          /\ LevelState(M, n, cap).shardcnt = Len(M.shards)
          /\ LevelState(M, n, cap).reccap = LevelCapacity(n) /\ LevelState(M, n, cap).shardcap = cap
      BY <1>4, <1>7, <1>13, LevelStateFacts
    <2>2. /\ LevelState(E, n - 1, cap) \in State /\ LevelState(E, n - 1, cap).reccnt = RecordCount(E)
          /\ LevelState(E, n - 1, cap).shardcnt = Len(E.shards)
          /\ LevelState(E, n - 1, cap).reccap = LevelCapacity(n - 1)
          /\ LevelState(E, n - 1, cap).shardcap = cap
      <3>1. PICK k : k = n - 1
        OBVIOUS
      <3>2. /\ LevelState(E, k, cap) \in State /\ LevelState(E, k, cap).reccnt = RecordCount(E)
            /\ LevelState(E, k, cap).shardcnt = Len(E.shards)
            /\ LevelState(E, k, cap).reccap = LevelCapacity(k)
            /\ LevelState(E, k, cap).shardcap = cap
        BY <1>4, <1>7, <1>13, <3>1, LevelStateFacts
      <3>3. QED
        BY <3>1, <3>2
    <2>3. QED
      BY <2>1, <2>2
  <1>15. Level' = Level /\ State' = State /\ Records' = Records /\ Task' = Task
    BY <1>1 DEF Level, State, Records, Task
  <1>16. merges' \in Seq(Task) /\ Len(merges') = n - 1 /\ \A k \in 1..(n - 1) : merges'[k] = merges[k + 1]
    BY <1>1, <1>3, HeadTailProperties DEF IInv, Types
  <1>17. Types'
    <2>1. PICK g \in Nat : 0..(h - 1) \cup {n} = 0..(g - 1)
      BY <1>2, <1>4, NextDomain
    <2>2. DOMAIN m_levels' = 0..(g - 1) /\ DOMAIN m_current_state' = 0..(g - 1)
      BY <1>2, <1>11, <1>12, <2>1
    <2>3. \A i \in DOMAIN m_levels' : m_levels'[i] \in Level /\ m_current_state'[i] \in State
      BY <1>2, <1>9, <1>10, <1>11, <1>12, <1>14
    <2>4. m_levels' \in [0..(g - 1) -> Level] /\ m_current_state' \in [0..(g - 1) -> State]
      BY <1>11, <1>12, <2>2, <2>3
    <2>5. QED
      BY <1>1, <1>15, <1>16, <2>4 DEF IInv, Types
  <1>18. LevelShapes'
    <2> SUFFICES ASSUME NEW i \in DOMAIN m_levels'
                 PROVE  /\ Len(m_levels'[i].shards) <= m_levels'[i].shard_cap
                        /\ layout = "TEIRING" => m_levels'[i].shard_cap = ScaleFactor
                        /\ layout # "TEIRING" => Len(m_levels'[i].shards) <= 1
      BY <1>1 DEF LevelShapes
    <2>1. CASE i = n
      BY <1>9, <1>11, <2>1
    <2>2. CASE i = n - 1
      BY <1>7, <1>10, <1>11, <2>2
    <2>3. CASE i \in DOMAIN m_levels \ {n, n - 1}
      BY <1>11, <2>3 DEF IInv, LevelShapes
    <2>4. QED
      BY <1>11, <2>1, <2>2, <2>3
  <1>19. /\ LevelRecords(n - 1)' = {}
         /\ LevelRecords(n)' \subseteq TargetRecords(n) \cup LevelRecords(n - 1)
         /\ \A i \in DOMAIN m_levels \ {n, n - 1} : LevelRecords(i)' = LevelRecords(i)
    BY <1>3, MergeRecords
  <1>20. (VictimsKnown /\ HeldBound /\ AllHeld /\ ErasersHeld)'
    <2>1. PICK rs \in SUBSET Records : Held' = Held \ Cancelled(rs, victim)
      BY <1>3, MergeRecords
    <2>2. QED
      BY <1>1, <2>1, MergeKeepsRecords
  <1>21. RecentAcross'
    <2> SUFFICES ASSUME NEW i \in DOMAIN m_levels', NEW j \in DOMAIN m_levels', i < j,
                        NEW a \in LevelRecords(i)', NEW b \in LevelRecords(j)'
                 PROVE  a > b
      BY DEF RecentAcross
    <2>1. ASSUME NEW x \in DOMAIN m_levels', NEW r \in LevelRecords(x)'
          PROVE  \E x0 \in DOMAIN m_levels : r \in LevelRecords(x0) /\ (x0 = x \/ (x = n /\ x0 = n - 1))
      <3>1. CASE x = n
        <4>1. r \in TargetRecords(n) \/ r \in LevelRecords(n - 1)
          BY <1>19, <2>1, <3>1
        <4>2. QED
          BY <1>4, <3>1, <4>1 DEF TargetRecords
      <3>2. CASE x = n - 1
        BY <1>19, <2>1, <3>2
      <3>3. CASE x \in DOMAIN m_levels \ {n, n - 1}
        BY <1>19, <2>1, <3>3
      <3>4. QED
        BY <1>11, <3>1, <3>2, <3>3
    <2>2. PICK i0 \in DOMAIN m_levels : a \in LevelRecords(i0) /\ (i0 = i \/ (i = n /\ i0 = n - 1))
      BY <2>1
    <2>3. PICK j0 \in DOMAIN m_levels : b \in LevelRecords(j0) /\ (j0 = j \/ (j = n /\ j0 = n - 1))
      BY <2>1
    <2>4. i # n - 1 /\ j # n - 1
      BY <1>19
    <2>5. i \in Nat /\ j \in Nat /\ i0 \in Nat /\ j0 \in Nat
      BY <1>2, <1>4, <1>11
    <2>6. i0 < j0
      BY <1>4, <2>2, <2>3, <2>4, <2>5
    <2>7. QED
      BY <2>2, <2>3, <2>6 DEF IInv, RecentAcross
  <1>22. RecentWithin'
    <2>1. Ordered(E.shards)
      BY <1>10 DEF Ordered
    <2>2. QED
      BY <1>9, <1>11, <2>1 DEF IInv, RecentWithin
  <1>23. LevelNumbers'
    <2> SUFFICES ASSUME layout = "LEVELING", NEW j \in DOMAIN m_levels', m_levels'[j].shards # <<>>
                 PROVE  /\ j = 0 => m_levels'[j].level_no = 0
                        /\ \A i \in DOMAIN m_levels' : i < j /\ m_levels'[i].shards # <<>> =>
                             \/ m_levels'[i].level_no < m_levels'[j].level_no
                             \/ m_levels'[i].level_no = 0 /\ m_levels'[j].level_no = 0
      BY <1>1 DEF LevelNumbers
    <2>1. \A i \in DOMAIN m_levels' : m_levels'[i].shards # <<>> =>
            /\ i # n - 1
            /\ \E i0 \in DOMAIN m_levels : /\ m_levels[i0].shards # <<>>
                                           /\ m_levels'[i].level_no = m_levels[i0].level_no
                                           /\ i0 = i \/ (i = n /\ i0 = n - 1)
      <3> SUFFICES ASSUME NEW i \in DOMAIN m_levels', m_levels'[i].shards # <<>>
                   PROVE  /\ i # n - 1
                          /\ \E i0 \in DOMAIN m_levels : /\ m_levels[i0].shards # <<>>
                                                         /\ m_levels'[i].level_no = m_levels[i0].level_no
                                                         /\ i0 = i \/ (i = n /\ i0 = n - 1)
        OBVIOUS
      <3>1. i # n - 1
        BY <1>10, <1>11
      <3>2. CASE i = n
        <4>1. m_levels'[i].level_no = M.level_no
          BY <1>11, <3>2
        <4>2. CASE n \in DOMAIN m_levels /\ m_levels[n].shards # <<>>
          BY <1>9, <3>1, <3>2, <4>1, <4>2
        <4>3. CASE ~(n \in DOMAIN m_levels /\ m_levels[n].shards # <<>>)
          <5>1. M.level_no = m_levels[n - 1].level_no
            BY <1>9, <4>3
          <5>2. QED
            BY <1>4, <3>1, <3>2, <4>1, <5>1
        <4>4. QED
          BY <4>2, <4>3
      <3>3. CASE i # n
        <4>1. i \in DOMAIN m_levels /\ m_levels'[i] = m_levels[i]
          BY <1>11, <3>1, <3>3
        <4>2. m_levels[i].shards # <<>> /\ m_levels'[i].level_no = m_levels[i].level_no
          BY <4>1
        <4>3. QED
          BY <3>1, <4>1, <4>2
      <3>4. QED
        BY <3>1, <3>2, <3>3
    <2>2. PICK j0 \in DOMAIN m_levels : /\ m_levels[j0].shards # <<>>
                                        /\ m_levels'[j].level_no = m_levels[j0].level_no
                                        /\ j0 = j \/ (j = n /\ j0 = n - 1)
      BY <2>1
    <2>3. j \in Nat /\ j0 \in Nat /\ j # n - 1
      BY <1>2, <1>4, <1>11, <2>1
    <2>4. j = 0 => m_levels'[j].level_no = 0
      BY <1>4, <2>2, <2>3 DEF IInv, LevelNumbers
    <2>5. ASSUME NEW i \in DOMAIN m_levels', i < j, m_levels'[i].shards # <<>>
          PROVE  \/ m_levels'[i].level_no < m_levels'[j].level_no
                 \/ m_levels'[i].level_no = 0 /\ m_levels'[j].level_no = 0
      <3>1. PICK i0 \in DOMAIN m_levels : /\ m_levels[i0].shards # <<>>
                                          /\ m_levels'[i].level_no = m_levels[i0].level_no
                                          /\ i0 = i \/ (i = n /\ i0 = n - 1)
        BY <2>1, <2>5
      <3>2. i \in Nat /\ i0 \in Nat /\ i # n - 1
        BY <1>2, <1>4, <1>11, <2>1, <2>5
      <3>3. i0 < j0
        BY <1>4, <2>2, <2>3, <2>5, <3>1, <3>2
      <3>4. QED
        BY <2>2, <3>1, <3>3 DEF IInv, LevelNumbers
    <2>6. QED
      BY <2>4, <2>5
  <1>24. StateKnown'
    <2>1. CountsReal'
      <3> SUFFICES ASSUME NEW i \in DOMAIN m_levels'
                   PROVE  /\ m_current_state'[i].reccnt = RecordCount(m_levels'[i])
                          /\ m_current_state'[i].shardcnt = Len(m_levels'[i].shards)
                          /\ layout = "LEVELING" => m_current_state'[i].reccap = LevelCapacity(i)
        BY <1>1 DEF CountsReal
      <3>1. CASE i = n
        BY <1>11, <1>12, <1>14, <3>1
      <3>2. CASE i = n - 1
        BY <1>11, <1>12, <1>14, <3>2
      <3>3. CASE i \in DOMAIN m_levels \ {n, n - 1}
        BY <1>11, <1>12, <3>3 DEF IInv, StateKnown, CountsReal
      <3>4. QED
        BY <1>11, <3>1, <3>2, <3>3
    <2>2. layout = "TEIRING" => \A i \in DOMAIN m_levels' : m_current_state'[i].shardcap = ScaleFactor
      BY <1>7, <1>11, <1>12, <1>14 DEF IInv, StateKnown
    <2>3. ASSUME layout = "LEVELING", 0 \in DOMAIN m_levels' PROVE m_current_state'[0].reccnt <= LevelCapacity(0)
      <3>1. CASE n - 1 = 0
        BY <1>10, <1>12, <1>14, <3>1 DEF CapacitiesGrow
      <3>2. CASE n - 1 # 0
        <4>1. 0 \in DOMAIN m_levels \ {n, n - 1}
          BY <1>4, <1>11, <2>3, <3>2
        <4>2. QED
          BY <1>12, <2>3, <4>1 DEF IInv, StateKnown
      <3>3. QED
        BY <3>1, <3>2
    <2>4. QED
      BY <1>1, <2>1, <2>2, <2>3 DEF StateKnown
  <1>25. PlanKnown'
    <2>1. ASSUME merges' = <<>> PROVE RoomInL0(HWM)'
      <3>1. n - 1 = 0
        BY <1>16, <2>1
      <3>2. 0 \in DOMAIN m_current_state' /\ m_current_state'[0] = LevelState(E, 0, cap)
        BY <1>4, <1>12, <3>1
      <3>3. /\ m_current_state'[0].reccnt = 0 /\ m_current_state'[0].shardcnt = 0
            /\ m_current_state'[0].shardcap = cap /\ m_current_state'[0].reccap = LevelCapacity(0)
        BY <1>10, <1>14, <3>1, <3>2
      <3>4. CanReconstructWith(0, HWM, m_current_state)'
        BY <1>1, <1>7, <3>2, <3>3, StructureAssumption DEF CanReconstructWith, CapacitiesGrow
      <3>5. QED
        BY <3>4 DEF RoomInL0
    <2>2. ASSUME merges' # <<>> PROVE ChainPlan'
      <3>1. ChainPlan
        BY <1>1 DEF IInv, PlanKnown
      <3>2. \A k \in 1..(n - 1) : merges'[k] = [target |-> (n - 1) - k + 1, sources |-> {(n - 1) - k}]
        <4> SUFFICES ASSUME NEW k \in 1..(n - 1)
                     PROVE  merges'[k] = [target |-> (n - 1) - k + 1, sources |-> {(n - 1) - k}]
          OBVIOUS
        <4>1. merges'[k] = merges[k + 1] /\ k + 1 \in 1..n
          BY <1>4, <1>16
        <4>2. merges[k + 1] = [target |-> n - (k + 1) + 1, sources |-> {n - (k + 1)}]
          BY <1>3, <3>1, <4>1 DEF ChainPlan
        <4>3. n - (k + 1) + 1 = (n - 1) - k + 1 /\ n - (k + 1) = (n - 1) - k
          BY <1>4
        <4>4. QED
          BY <4>1, <4>2, <4>3
      <3>3. \A i \in 0..((n - 1) - 1) : i \in DOMAIN m_levels' /\ m_levels'[i].shards # <<>>
        <4> SUFFICES ASSUME NEW i \in 0..((n - 1) - 1)
                     PROVE  i \in DOMAIN m_levels' /\ m_levels'[i].shards # <<>>
          OBVIOUS
        <4>1. i \in 0..(n - 1) /\ i # n /\ i # n - 1
          BY <1>4
        <4>2. i \in DOMAIN m_levels /\ m_levels[i].shards # <<>>
          BY <1>3, <3>1, <4>1 DEF ChainPlan
        <4>3. QED
          BY <1>11, <4>1, <4>2
      <3>4. Len(m_levels'[n - 1].shards) < ScaleFactor
        BY <1>10, <1>11, StructureAssumption
      <3>5. QED
        BY <1>1, <1>16, <3>2, <3>3, <3>4 DEF ChainPlan
    <2>3. QED
      BY <1>1, <2>1, <2>2 DEF IInv, PlanKnown
  <1>26. CheckpointKnown'
    BY <1>1 DEF CheckpointKnown
  <1>27. QED
    BY <1>17, <1>18, <1>20, <1>21, <1>22, <1>23, <1>24, <1>25, <1>26 DEF IInv

-----------------------------------------------------------------------------
(***************************************************************************)
(* The Bentley-Saxe merge of all the levels above the target.              *)
(***************************************************************************)

\* Where the merge puts its results; without tombstones nothing is cancelled.
LEMMA FlatShape ==
  ASSUME IInv, FlattenLevels
  PROVE  \E b \in Nat \ {0} : \E c \in SUBSET Records :
           /\ \A i \in 0..(b - 1) : i \in DOMAIN m_levels /\ m_levels[i].shards # <<>>
           /\ b \in DOMAIN m_levels => LevelRecords(b) = {}
           /\ c # {} /\ \A r : r \in c <=> \E i \in 0..(b - 1) : r \in LevelRecords(i)
           /\ DOMAIN m_levels' = DOMAIN m_levels \cup {b} /\ DOMAIN m_current_state' = DOMAIN m_levels \cup {b}
           /\ m_levels'[b] = OneShardLevel(b, c)
           /\ m_current_state'[b] = LevelState(OneShardLevel(b, c), b, 1)
           /\ \A i \in 0..(b - 1) : /\ m_levels'[i] = EmptyLevel(i, 1)
                                    /\ m_current_state'[i] = LevelState(EmptyLevel(i, 1), b, 1)
           /\ \A i \in DOMAIN m_levels \ 0..b :
                m_levels'[i] = m_levels[i] /\ m_current_state'[i] = m_current_state[i]
           /\ m_levels' = [i \in DOMAIN m_levels' |-> m_levels'[i]]
           /\ m_current_state' = [i \in DOMAIN m_current_state' |-> m_current_state'[i]]
  <1>1. layout = "BSM" /\ merges # <<>> /\ FlatPlan
    BY DEF FlattenLevels, IInv, PlanKnown
  <1>2. PICK b : b = Head(merges).target
    OBVIOUS
  <1>3. Head(merges) \in Task
    BY <1>1, HeadTailProperties DEF IInv, Types
  <1>4. b \in Nat \ {0}
    BY <1>1, <1>2, <1>3 DEF FlatPlan, Task
  <1>5. /\ Head(merges).sources = 0..(b - 1) /\ \A i \in 0..(b - 1) : i \in DOMAIN m_levels /\ m_levels[i].shards # <<>>
        /\ b \in DOMAIN m_levels => LevelRecords(b) = {}
    BY <1>1, <1>2 DEF FlatPlan
  <1>6. PICK c : c = UNION {LevelRecords(i) : i \in 0..(b - 1)}
    OBVIOUS
  <1>7. c \in SUBSET Records
    BY <1>5, <1>6, LevelFacts
  <1>8. Combined({m_levels[i] : i \in 0..(b - 1)}) = c
    <2>1. UNION {ShardRecords(l) : l \in {m_levels[i] : i \in 0..(b - 1)}} = c
      BY <1>6 DEF LevelRecords
    <2>2. \A r \in Records : victim[r] = NoVictim
      BY <1>1 DEF IInv, VictimsKnown
    <2>3. \A r \in c : victim[r] \notin c
      BY <1>7, <2>2 DEF Records, NoVictim
    <2>4. QED
      BY <2>1, <2>3, NothingCancelled DEF Combined
  <1>9. c # {}
    <2>1. 0 \in 0..(b - 1)
      BY <1>4
    <2>2. 0 \in DOMAIN m_levels /\ m_levels[0].shards # <<>> /\ m_levels[0].shards \in Seq(SUBSET Records)
      BY <1>5, <2>1, LevelFacts
    <2>3. 1 \in DOMAIN m_levels[0].shards
      BY <2>2, EmptySeq, LenProperties
    <2>4. m_levels[0].shards[1] # {}
      BY <1>1, <2>2, <2>3 DEF IInv, LevelShapes
    <2>5. m_levels[0].shards[1] \subseteq LevelRecords(0)
      BY <2>2, <2>3, StoredIsHeld
    <2>6. QED
      BY <1>6, <2>1, <2>4, <2>5
  <1>10. \A r : r \in c <=> \E i \in 0..(b - 1) : r \in LevelRecords(i)
    BY <1>6
  <1>11. PICK S : S = 0..(b - 1)
    OBVIOUS
  <1>12. /\ m_levels' = [i \in DOMAIN m_levels \cup {b} |->
                           IF i \in S THEN EmptyLevel(i, 1)
                           ELSE IF i = b THEN OneShardLevel(b, c) ELSE m_levels[i]]
         /\ m_current_state' = [i \in DOMAIN m_levels' |->
                           IF i \in S \cup {b} THEN LevelState(m_levels'[i], b, 1) ELSE m_current_state[i]]
    <2>1. PICK T : T = Head(merges).sources
      OBVIOUS
    <2>2. /\ m_levels' = [i \in DOMAIN m_levels \cup {b} |->
                           IF i \in T THEN EmptyLevel(i, 1)
                           ELSE IF i = b THEN OneShardLevel(b, Combined({m_levels[j] : j \in T}))
                                         ELSE m_levels[i]]
          /\ m_current_state' = [i \in DOMAIN m_levels' |->
                           IF i \in T \cup {b} THEN LevelState(m_levels'[i], b, 1) ELSE m_current_state[i]]
      BY <1>2, <2>1 DEF FlattenLevels
    <2>3. T = S
      BY <1>5, <1>11, <2>1
    <2>4. Combined({m_levels[j] : j \in S}) = c
      BY <1>8, <1>11
    <2>5. QED
      BY <2>2, <2>3, <2>4
  <1>13. b \notin S /\ S \subseteq DOMAIN m_levels /\ \A i \in DOMAIN m_levels : i \in 0..b <=> i \in S \cup {b}
    BY <1>4, <1>5, <1>11
  <1>14. DOMAIN m_levels' = DOMAIN m_levels \cup {b} /\ DOMAIN m_current_state' = DOMAIN m_levels \cup {b}
    BY <1>12
  <1>15. /\ m_levels'[b] = OneShardLevel(b, c) /\ \A i \in S : m_levels'[i] = EmptyLevel(i, 1)
         /\ \A i \in DOMAIN m_levels \ (S \cup {b}) : m_levels'[i] = m_levels[i]
    BY <1>12, <1>13
  <1>16. /\ m_current_state'[b] = LevelState(OneShardLevel(b, c), b, 1)
         /\ \A i \in S : m_current_state'[i] = LevelState(EmptyLevel(i, 1), b, 1)
         /\ \A i \in DOMAIN m_levels \ (S \cup {b}) : m_current_state'[i] = m_current_state[i]
    BY <1>12, <1>13, <1>14, <1>15
  <1>17. /\ m_levels' = [i \in DOMAIN m_levels' |-> m_levels'[i]]
         /\ m_current_state' = [i \in DOMAIN m_current_state' |-> m_current_state'[i]]
    BY <1>12
  <1>18. \A i \in DOMAIN m_levels \ 0..b : i \in DOMAIN m_levels \ (S \cup {b})
    BY <1>13
  <1>19. QED
    BY <1>4, <1>5, <1>7, <1>9, <1>10, <1>11, <1>14, <1>15, <1>16, <1>17, <1>18

\* The merge of all the levels above the target keeps the invariant.
LEMMA FlattenInv ==
  ASSUME IInv, CapacitiesGrow, FlattenLevels
  PROVE  IInv'
  <1>1. /\ layout' = layout /\ nrec' = nrec /\ victim' = victim /\ m_flush_seq' = m_flush_seq
        /\ pc = "work" /\ pc' = pc /\ merges # <<>> /\ layout = "BSM"
        /\ merges' = Tail(merges) /\ checkpoint' = SaveCheckpoint(m_levels', m_flush_seq)
    BY DEF FlattenLevels
  <1>2. PICK h \in Nat : m_levels \in [0..(h - 1) -> Level] /\ m_current_state \in [0..(h - 1) -> State]
    BY DEF IInv, Types
  <1>3. PICK b \in Nat \ {0}, c \in SUBSET Records :
           /\ \A i \in 0..(b - 1) : i \in DOMAIN m_levels /\ m_levels[i].shards # <<>>
           /\ b \in DOMAIN m_levels => LevelRecords(b) = {}
           /\ c # {} /\ \A r : r \in c <=> \E i \in 0..(b - 1) : r \in LevelRecords(i)
           /\ DOMAIN m_levels' = DOMAIN m_levels \cup {b} /\ DOMAIN m_current_state' = DOMAIN m_levels \cup {b}
           /\ m_levels'[b] = OneShardLevel(b, c)
           /\ m_current_state'[b] = LevelState(OneShardLevel(b, c), b, 1)
           /\ \A i \in 0..(b - 1) : /\ m_levels'[i] = EmptyLevel(i, 1)
                                    /\ m_current_state'[i] = LevelState(EmptyLevel(i, 1), b, 1)
           /\ \A i \in DOMAIN m_levels \ 0..b :
                m_levels'[i] = m_levels[i] /\ m_current_state'[i] = m_current_state[i]
           /\ m_levels' = [i \in DOMAIN m_levels' |-> m_levels'[i]]
           /\ m_current_state' = [i \in DOMAIN m_current_state' |-> m_current_state'[i]]
    BY FlatShape
  <1>4. \A i \in DOMAIN m_levels' : i = b \/ i \in 0..(b - 1) \/ i \in DOMAIN m_levels \ 0..b
    BY <1>2, <1>3
  <1>5. PICK M : M = OneShardLevel(b, c)
    OBVIOUS
  <1>6. M \in Level /\ M.shard_cap = 1 /\ M.shards = <<c>> /\ Len(M.shards) = 1 /\ ShardRecords(M) = c
    BY <1>5, NewLevelTypes, RecordsOfOne
  <1>7. \A i \in 0..(b - 1) :
          /\ EmptyLevel(i, 1) \in Level /\ EmptyLevel(i, 1).shard_cap = 1 /\ EmptyLevel(i, 1).shards = <<>>
          /\ Len(EmptyLevel(i, 1).shards) = 0 /\ ShardRecords(EmptyLevel(i, 1)) = {}
          /\ RecordCount(EmptyLevel(i, 1)) = 0
    BY NewLevelTypes, RecordsOfEmpty
  <1>8. \A l \in Level : /\ LevelState(l, b, 1) \in State
                         /\ LevelState(l, b, 1).reccnt = RecordCount(l)
                         /\ LevelState(l, b, 1).shardcnt = Len(l.shards)
    <2> SUFFICES ASSUME NEW l \in Level
                 PROVE  /\ LevelState(l, b, 1) \in State
                        /\ LevelState(l, b, 1).reccnt = RecordCount(l)
                        /\ LevelState(l, b, 1).shardcnt = Len(l.shards)
      OBVIOUS
    <2>1. l.shards \in Seq(SUBSET Records)
      BY DEF Level
    <2>2. QED
      BY <2>1, LevelStateFacts
  <1>9. Level' = Level /\ State' = State /\ Records' = Records /\ Task' = Task
    BY <1>1 DEF Level, State, Records, Task
  <1>10. merges' = <<>>
    <2>1. Len(merges) = 1 /\ merges \in Seq(Task)
      BY <1>1 DEF IInv, Types, PlanKnown, FlatPlan
    <2>2. Len(Tail(merges)) = 0 /\ Tail(merges) \in Seq(Task)
      BY <1>1, <2>1, HeadTailProperties
    <2>3. QED
      BY <1>1, <2>2, EmptySeq
  <1>11. Types'
    <2>1. PICK g \in Nat : 0..(h - 1) \cup {b} = 0..(g - 1)
      <3>1. b - 1 \in 0..(h - 1)
        BY <1>2, <1>3
      <3>2. QED
        BY <3>1, NextDomain
    <2>2. DOMAIN m_levels' = 0..(g - 1) /\ DOMAIN m_current_state' = 0..(g - 1)
      BY <1>2, <1>3, <2>1
    <2>3. \A i \in DOMAIN m_levels' : m_levels'[i] \in Level /\ m_current_state'[i] \in State
      BY <1>2, <1>3, <1>4, <1>5, <1>6, <1>7, <1>8
    <2>4. m_levels' \in [0..(g - 1) -> Level] /\ m_current_state' \in [0..(g - 1) -> State]
      BY <1>3, <2>2, <2>3
    <2>5. merges' \in Seq(Task)
      BY <1>10, EmptySeq
    <2>6. QED
      BY <1>1, <1>9, <2>4, <2>5 DEF IInv, Types
  <1>12. LevelShapes'
    <2> SUFFICES ASSUME NEW i \in DOMAIN m_levels'
                 PROVE  /\ Len(m_levels'[i].shards) <= m_levels'[i].shard_cap
                        /\ Len(m_levels'[i].shards) <= 1
                        /\ m_levels'[i].shard_cap >= 1
                        /\ \A k \in DOMAIN m_levels'[i].shards : m_levels'[i].shards[k] # {}
      BY <1>1 DEF LevelShapes
    <2>1. CASE i = b
      <3>1. m_levels'[i] = M
        BY <1>3, <1>5, <2>1
      <3>2. DOMAIN <<c>> = {1} /\ <<c>>[1] = c /\ Len(<<c>>) = 1
        OBVIOUS
      <3>3. M.shard_cap = 1 /\ M.shards = <<c>>
        BY <1>6
      <3>4. \A k \in DOMAIN m_levels'[i].shards : m_levels'[i].shards[k] # {}
        BY <1>3, <3>1, <3>2, <3>3
      <3>5. m_levels'[i].shard_cap = 1 /\ Len(m_levels'[i].shards) = 1
        BY <3>1, <3>2, <3>3
      <3>6. QED
        BY <3>4, <3>5
    <2>2. CASE i \in 0..(b - 1)
      <3>1. PICK e : e = EmptyLevel(i, 1)
        OBVIOUS
      <3>2. e.shard_cap = 1 /\ e.shards = <<>> /\ Len(e.shards) = 0 /\ m_levels'[i] = e
        BY <1>3, <1>7, <2>2, <3>1
      <3>3. QED
        BY <3>2
    <2>3. CASE i \in DOMAIN m_levels \ 0..b
      BY <1>1, <1>3, <2>3 DEF IInv, LevelShapes
    <2>4. QED
      BY <1>4, <2>1, <2>2, <2>3
  <1>13. /\ LevelRecords(b)' = c
         /\ \A i \in 0..(b - 1) : LevelRecords(i)' = {}
         /\ \A i \in DOMAIN m_levels \ 0..b : LevelRecords(i)' = LevelRecords(i)
    BY <1>3, <1>5, <1>6, <1>7 DEF LevelRecords
  <1>14. (VictimsKnown /\ HeldBound /\ AllHeld /\ ErasersHeld)'
    <2>1. \A r : r \in Held' <=> \E i \in DOMAIN m_levels \cup {b} : r \in ShardRecords(m_levels'[i])
      BY <1>3 DEF Held, LevelRecords
    <2>2. \A i \in DOMAIN m_levels \cup {b} :
            \/ i = b /\ ShardRecords(m_levels'[i]) = c
            \/ i \in 0..(b - 1) /\ ShardRecords(m_levels'[i]) = {}
            \/ i \in DOMAIN m_levels \ 0..b /\ ShardRecords(m_levels'[i]) = LevelRecords(i)
      BY <1>3, <1>4, <1>13 DEF LevelRecords
    <2>3. \A r \in Held' : r \in Held
      <3> SUFFICES ASSUME NEW r \in Held' PROVE r \in Held
        OBVIOUS
      <3>1. PICK i \in DOMAIN m_levels \cup {b} : r \in ShardRecords(m_levels'[i])
        BY <2>1
      <3>2. r \in c \/ (i \in DOMAIN m_levels /\ r \in LevelRecords(i))
        BY <2>2, <3>1
      <3>3. QED
        BY <1>3, <3>2 DEF Held
    <2>4. \A r \in Held : r \in Held'
      <3> SUFFICES ASSUME NEW r \in Held PROVE r \in Held'
        OBVIOUS
      <3>1. PICK i \in DOMAIN m_levels : r \in LevelRecords(i)
        BY DEF Held
      <3>2. CASE i \in 0..(b - 1)
        <4>1. r \in c
          BY <1>3, <3>1, <3>2
        <4>2. QED
          BY <1>13, <2>1, <4>1 DEF LevelRecords
      <3>3. CASE i = b
        BY <1>3, <3>1, <3>3
      <3>4. CASE i \in DOMAIN m_levels \ 0..b
        BY <1>13, <2>1, <3>1, <3>4 DEF LevelRecords
      <3>5. QED
        BY <1>3, <1>4, <3>1, <3>2, <3>3, <3>4
    <2>5. Held' = Held
      BY <2>3, <2>4
    <2>6. Cancelled({}, victim) = {}
      BY DEF Cancelled
    <2>7. {} \subseteq Records /\ Held' = Held \ Cancelled({}, victim)
      BY <2>5, <2>6
    <2>8. QED
      BY <1>1, <2>7, MergeKeepsRecords
  <1>15. RecentAcross'
    <2> SUFFICES ASSUME NEW i \in DOMAIN m_levels', NEW j \in DOMAIN m_levels', i < j,
                        NEW a \in LevelRecords(i)', NEW x \in LevelRecords(j)'
                 PROVE  a > x
      BY DEF RecentAcross
    <2>1. i \in Nat /\ j \in Nat
      BY <1>2, <1>3
    <2>2. i \notin 0..(b - 1) /\ j \notin 0..(b - 1)
      BY <1>13
    <2>3. j > b /\ j \in DOMAIN m_levels \ 0..b
      BY <1>4, <2>1, <2>2
    <2>4. x \in LevelRecords(j)
      BY <1>13, <2>3
    <2>5. PICK i0 \in DOMAIN m_levels : a \in LevelRecords(i0) /\ i0 <= i
      <3>1. CASE i = b
        <4>1. PICK y \in 0..(b - 1) : a \in LevelRecords(y)
          BY <1>3, <1>13, <3>1
        <4>2. QED
          BY <1>3, <3>1, <4>1
      <3>2. CASE i \in DOMAIN m_levels \ 0..b
        BY <1>13, <2>1, <3>2
      <3>3. QED
        BY <1>4, <2>2, <3>1, <3>2
    <2>6. i0 < j /\ j \in DOMAIN m_levels
      BY <1>2, <2>1, <2>3, <2>5
    <2>7. QED
      BY <2>4, <2>5, <2>6 DEF IInv, RecentAcross
  <1>16. RecentWithin'
    <2> SUFFICES ASSUME NEW i \in DOMAIN m_levels' PROVE Ordered(m_levels'[i].shards)
      BY DEF RecentWithin
    <2>1. m_levels'[i].shards \in Seq(SUBSET Records) /\ Len(m_levels'[i].shards) <= 1
      BY <1>1, <1>9, <1>11, <1>12 DEF Types, Level, LevelShapes
    <2>2. PICK q : q = m_levels'[i].shards
      OBVIOUS
    <2>3. q \in Seq(SUBSET Records) /\ Len(q) <= 1
      BY <2>1, <2>2
    <2>4. Ordered(q)
      BY <2>3, ShortIsOrdered
    <2>5. QED
      BY <2>2, <2>4
  <1>17. LevelNumbers'
    BY <1>1 DEF LevelNumbers
  <1>18. StateKnown'
    <2> SUFFICES ASSUME NEW i \in DOMAIN m_levels'
                 PROVE  /\ m_current_state'[i].reccnt = RecordCount(m_levels'[i])
                        /\ m_current_state'[i].shardcnt = Len(m_levels'[i].shards)
      BY <1>1 DEF StateKnown, CountsReal
    <2>1. CASE i = b
      BY <1>3, <1>5, <1>6, <1>8, <2>1
    <2>2. CASE i \in 0..(b - 1)
      BY <1>3, <1>7, <1>8, <2>2
    <2>3. CASE i \in DOMAIN m_levels \ 0..b
      BY <1>3, <2>3 DEF IInv, StateKnown, CountsReal
    <2>4. QED
      BY <1>4, <2>1, <2>2, <2>3
  <1>19. PlanKnown'
    <2>1. 0 \in 0..(b - 1)
      OBVIOUS
    <2>2. 0 \in DOMAIN m_current_state' /\ m_current_state'[0].reccnt = 0
      BY <1>3, <1>7, <1>8, <2>1
    <2>3. RoomInL0(HWM)'
      BY <1>1, <2>2 DEF RoomInL0, CanReconstructWith
    <2>4. QED
      BY <1>1, <1>10, <2>3 DEF IInv, PlanKnown
  <1>20. CheckpointKnown'
    BY <1>1 DEF CheckpointKnown
  <1>21. QED
    BY <1>11, <1>12, <1>14, <1>15, <1>16, <1>17, <1>18, <1>19, <1>20 DEF IInv

-----------------------------------------------------------------------------
(***************************************************************************)
(* A flush.                                                                *)
(***************************************************************************)

\* FlushBuffer for a view of n records whose last one erases v.
FlushWith(n, v) ==
  LET t == nrec + n - 1
      new == nrec..t
  IN /\ RoomInL0(n)
     /\ v # NoVictim => Erasable(v) \/ v \in new \ {t}
     /\ victim' = [victim EXCEPT ![t] = v]
     /\ LET l0 == FlushedL0(BuildShard(new, victim'))
            s0 == IF 0 \in DOMAIN m_current_state THEN m_current_state[0]
                  ELSE LevelState(EmptyLevel(0, ShardCapacity), 0, ShardCapacity)
        IN /\ m_levels' = Put(m_levels, 0, l0)
           /\ m_current_state' = Put(m_current_state, 0,
                [s0 EXCEPT !.reccnt = RecordCount(l0), !.shardcnt = Len(l0.shards)])
     /\ nrec' = nrec + n

\* The records of the view, and the victims with its tombstone.
LEMMA FlushVictims ==
  ASSUME IInv, Supported, FlushBuffer, NEW n \in FlushSizes,
         NEW v \in (IF layout \in Erasing THEN Records ELSE {}) \cup {NoVictim}, FlushWith(n, v)
  PROVE  /\ n \in Nat \ {0} /\ n <= HWM /\ nrec \in Nat
         /\ nrec..(nrec + n - 1) \subseteq Records /\ nrec + n - 1 \in Records
         /\ nrec' \in 0..MaxRecords[layout]
         /\ Records' = Records
         /\ victim' \in [Records -> Records \cup {NoVictim}]
         /\ \A u \in Records : u # nrec + n - 1 => victim'[u] = victim[u]
         /\ victim[nrec + n - 1] = NoVictim
         /\ victim'[nrec + n - 1] = v
         /\ layout = "BSM" => \A u \in Records : victim'[u] = NoVictim
         /\ VictimsKnown'
  <1> DEFINE t == nrec + n - 1
  <1>1. n \in Nat \ {0} /\ n <= HWM /\ HWM \in Nat
    BY StructureAssumption
  <1>2. nrec \in Nat /\ MaxRecords[layout] \in Nat /\ nrec + HWM <= MaxRecords[layout]
    BY StructureAssumption DEF FlushBuffer, IInv, Types, PlanKnown
  <1>3. nrec + n <= MaxRecords[layout]
    BY <1>1, <1>2
  <1>4. nrec..t \subseteq Records /\ t \in Records
    BY <1>1, <1>2, <1>3 DEF Records
  <1>5. layout' = layout /\ nrec' = nrec + n /\ victim' = [victim EXCEPT ![t] = v]
    BY DEF FlushBuffer, FlushWith
  <1>6. Records' = Records
    BY <1>5 DEF Records
  <1>7. v \in Records \cup {NoVictim}
    OBVIOUS
  <1>8. victim \in [Records -> Records \cup {NoVictim}]
    BY DEF IInv, Types
  <1>9. victim' \in [Records -> Records \cup {NoVictim}] /\ victim'[t] = v
        /\ \A u \in Records : u # t => victim'[u] = victim[u]
    BY <1>4, <1>5, <1>7, <1>8
  <1>10. \A u \in Records : u >= nrec => victim[u] = NoVictim
    <2> SUFFICES ASSUME NEW u \in Records, u >= nrec PROVE victim[u] = NoVictim
      OBVIOUS
    <2>1. u \in Nat
      BY DEF Records
    <2>2. QED
      BY <1>2, <2>1 DEF IInv, VictimsKnown
  <1>11. victim[t] = NoVictim
    BY <1>1, <1>2, <1>4, <1>10
  <1>12. v # NoVictim => layout \in Erasing /\ layout # "BSM"
    BY DEF Supported, NoVictim
  <1>13. layout = "BSM" => \A u \in Records : victim'[u] = NoVictim
    BY <1>9, <1>12 DEF IInv, VictimsKnown
  <1>14. VictimsKnown'
    <2> SUFFICES ASSUME NEW u \in Records, victim'[u] # NoVictim
                 PROVE  /\ layout # "BSM" /\ u < nrec + n /\ victim'[u] < nrec + n
                        /\ victim'[victim'[u]] = NoVictim
      BY <1>5, <1>6 DEF VictimsKnown
    <2>1. CASE u = t
      <3>1. victim'[u] = v /\ v # NoVictim /\ v \in Records /\ v \in Nat
        BY <1>9, <2>1 DEF Records
      <3>2. v < nrec + n /\ v # t /\ victim[v] = NoVictim
        <4>1. CASE Erasable(v)
          BY <1>1, <1>2, <3>1, <4>1 DEF Erasable
        <4>2. CASE v \in (nrec..t) \ {t}
          BY <1>1, <1>2, <1>10, <3>1, <4>2
        <4>3. QED
          BY <3>1, <4>1, <4>2 DEF FlushWith
      <3>3. QED
        BY <1>1, <1>2, <1>9, <1>12, <2>1, <3>1, <3>2
    <2>2. CASE u # t
      <3>1. victim'[u] = victim[u] /\ victim[u] # NoVictim
        BY <1>9, <2>2
      <3>2. /\ layout # "BSM" /\ u < nrec /\ victim[u] < nrec
            /\ victim[victim[u]] = NoVictim /\ victim[u] \in Records
        BY <1>8, <3>1 DEF IInv, VictimsKnown
      <3>3. u \in Nat /\ victim[u] \in Nat
        BY <3>2 DEF Records
      <3>4. victim[u] # t
        BY <1>1, <1>2, <3>2, <3>3
      <3>5. QED
        BY <1>1, <1>2, <1>9, <3>1, <3>2, <3>3, <3>4
    <2>3. QED
      BY <2>1, <2>2
  <1>15. nrec' \in 0..MaxRecords[layout]
    BY <1>1, <1>2, <1>3, <1>5
  <1>16. QED
    BY <1>1, <1>2, <1>4, <1>6, <1>9, <1>11, <1>13, <1>14, <1>15

\* The level that a flush makes.
LEMMA FlushedLevel ==
  ASSUME IInv, Supported, FlushBuffer, NEW n \in FlushSizes,
         NEW v \in (IF layout \in Erasing THEN Records ELSE {}) \cup {NoVictim}, FlushWith(n, v),
         NEW s, s = BuildShard(nrec..(nrec + n - 1), victim'), NEW L, L = FlushedL0(s)
  PROVE  /\ L \in Level /\ Len(L.shards) <= L.shard_cap /\ L.shards # <<>> /\ Ordered(L.shards)
         /\ layout = "TEIRING" => L.shard_cap = ScaleFactor
         /\ layout # "TEIRING" => Len(L.shards) <= 1
         /\ layout = "BSM" => L.shard_cap >= 1 /\ \A k \in DOMAIN L.shards : L.shards[k] # {}
         /\ layout = "LEVELING" => L.level_no = 0
         /\ \E rs \in SUBSET (TargetRecords(0) \cup s) :
              ShardRecords(L) = (TargetRecords(0) \cup s) \ Cancelled(rs, victim')
  <1> DEFINE new == nrec..(nrec + n - 1)
             l == IF 0 \in DOMAIN m_levels THEN m_levels[0] ELSE EmptyLevel(0, ShardCapacity)
  <1>1. layout \in {"TEIRING", "LEVELING", "BSM"} /\ ScaleFactor \in Nat /\ ScaleFactor > 1
    BY StructureAssumption DEF IInv, Types
  <1>2. new \subseteq Records /\ nrec \in Nat /\ n \in Nat \ {0}
    BY FlushVictims
  <1>3. s = new \ Cancelled(new, victim') /\ s \subseteq new
    <2>1. PICK V : V = victim'
      OBVIOUS
    <2>2. PICK w : w = new
      OBVIOUS
    <2>3. BuildShard(w, V) = w \ Cancelled(w, V) /\ BuildShard(w, V) \subseteq w
      BY BuildShardCancels
    <2>4. QED
      BY <2>1, <2>2, <2>3
  <1>4. s \in SUBSET Records
    BY <1>2, <1>3
  <1>5. TargetRecords(0) \subseteq Records /\ \A r \in TargetRecords(0) : r < nrec
    BY LevelFacts DEF IInv, HeldBound, Held, TargetRecords
  <1>6. \A a \in s, b \in TargetRecords(0) : a > b
    <2> SUFFICES ASSUME NEW a \in s, NEW b \in TargetRecords(0) PROVE a > b
      OBVIOUS
    <2>1. a \in Nat /\ a >= nrec
      BY <1>2, <1>3
    <2>2. b \in Nat /\ b < nrec
      BY <1>5 DEF Records
    <2>3. QED
      BY <1>2, <2>1, <2>2
  <1>7. PICK cap : cap = ShardCapacity
    OBVIOUS
  <1>8. cap \in Nat /\ cap >= 1 /\ (layout = "TEIRING" => cap = ScaleFactor)
    BY <1>1, <1>7 DEF ShardCapacity
  <1>9. /\ l \in Level /\ l.shards \in Seq(SUBSET Records) /\ ShardRecords(l) = TargetRecords(0)
        /\ Ordered(l.shards) /\ Len(l.shards) \in Nat
        /\ layout = "TEIRING" => l.shard_cap = ScaleFactor
        /\ layout = "BSM" => l.shard_cap >= 1
        /\ layout # "LEVELING" => Len(l.shards) < l.shard_cap
        /\ layout = "BSM" => l.shards = <<>>
        /\ layout = "LEVELING" /\ l.shards # <<>> => l.level_no = 0
    <2>1. CASE 0 \in DOMAIN m_levels
      <3>1. l = m_levels[0]
        BY <2>1
      <3>2. /\ l \in Level /\ l.shards \in Seq(SUBSET Records) /\ ShardRecords(l) = TargetRecords(0)
            /\ Ordered(l.shards) /\ Len(l.shards) \in Nat
        BY <2>1, <3>1, LevelFacts DEF TargetRecords, LevelRecords, IInv, RecentWithin
      <3>3. (layout = "TEIRING" => l.shard_cap = ScaleFactor) /\ (layout = "BSM" => l.shard_cap >= 1)
        BY <2>1, <3>1 DEF IInv, LevelShapes
      <3>4. layout = "LEVELING" /\ l.shards # <<>> => l.level_no = 0
        BY <2>1, <3>1 DEF IInv, LevelNumbers
      <3>5. 0 \in DOMAIN m_current_state
        BY <2>1, LevelFacts
      <3>6. CanReconstructWith(0, n, m_current_state)
        BY <3>5 DEF FlushWith, RoomInL0
      <3>7. ASSUME layout = "TEIRING" PROVE Len(l.shards) < l.shard_cap
        <4>1. m_current_state[0].shardcnt < m_current_state[0].shardcap
          BY <3>6, <3>7 DEF CanReconstructWith
        <4>2. QED
          BY <2>1, <3>1, <3>3, <3>7, <4>1 DEF IInv, StateKnown, CountsReal
      <3>8. ASSUME layout = "BSM" PROVE l.shards = <<>>
        <4>1. m_current_state[0].reccnt = 0
          BY <3>6, <3>8 DEF CanReconstructWith
        <4>2. LevelRecords(0) = {}
          BY <2>1, <4>1, LevelFacts
        <4>3. DOMAIN l.shards = {}
          BY <2>1, <3>1, <3>8, <4>2, StoredIsHeld DEF IInv, LevelShapes
        <4>4. QED
          <5>1. PICK q : q = l.shards
            OBVIOUS
          <5>2. q \in Seq(SUBSET Records) /\ DOMAIN q = {}
            BY <3>2, <4>3, <5>1
          <5>3. Len(q) \in Nat /\ 1..Len(q) = {}
            BY <5>2, LenProperties
          <5>4. q = <<>>
            BY <5>2, <5>3, EmptySeq
          <5>5. QED
            BY <5>1, <5>4
      <3>9. layout = "BSM" => Len(l.shards) < l.shard_cap
        <4>1. layout = "BSM" => Len(l.shards) = 0 /\ l.shard_cap >= 1
          BY <3>3, <3>8
        <4>2. l.shard_cap \in Nat
          BY <3>2 DEF Level
        <4>3. QED
          BY <4>1, <4>2
      <3>10. QED
        BY <1>1, <3>2, <3>3, <3>4, <3>7, <3>8, <3>9
    <2>2. CASE 0 \notin DOMAIN m_levels
      <3>1. l = EmptyLevel(0, cap)
        BY <1>7, <2>2
      <3> HIDE DEF l
      <3>2. l \in Level /\ l.shard_cap = cap
        BY <1>4, <1>8, <3>1, NewLevelTypes
      <3>3. l.shards = <<>> /\ Len(l.shards) = 0 /\ ShardRecords(l) = {} /\ DOMAIN l.shards = {}
        BY <3>1, RecordsOfEmpty
      <3>4. TargetRecords(0) = {} /\ l.shards \in Seq(SUBSET Records)
        BY <2>2, <3>3, EmptySeq DEF TargetRecords
      <3>5. Ordered(l.shards)
        BY <3>3 DEF Ordered
      <3>6. QED
        BY <1>8, <3>2, <3>3, <3>4, <3>5
    <2>3. QED
      BY <2>1, <2>2
  <1> HIDE DEF l
  <1>10. ASSUME layout = "BSM" PROVE s # {}
    <2>1. \A u \in Records : victim'[u] = NoVictim
      BY <1>10, FlushVictims
    <2>2. Cancelled(new, victim') = {}
      BY <1>2, <2>1 DEF Cancelled, Records, NoVictim
    <2>3. nrec \in new
      BY <1>2
    <2>4. QED
      BY <1>3, <2>2, <2>3
  <1>11. CASE layout # "LEVELING"
    <2>1. L = [l EXCEPT !.shards = Append(l.shards, s)]
      <3>1. L = AppendShard(l, s)
        BY <1>11 DEF FlushedL0, l
      <3>2. Len(l.shards) # l.shard_cap
        BY <1>9, <1>11
      <3>3. QED
        BY <3>1, <3>2 DEF AppendShard
    <2>2. PICK q : q = l.shards
      OBVIOUS
    <2>3. PICK w : w = Append(q, s)
      OBVIOUS
    <2>4. PICK S : S = SUBSET Records
      OBVIOUS
    <2>5. AllOf(q) = TargetRecords(0)
      BY <1>9, <2>2 DEF ShardRecords, AllOf
    <2>6. q \in Seq(S) /\ s \in S /\ Ordered(q) /\ \A a \in s, b \in AllOf(q) : a > b
      BY <1>4, <1>6, <1>9, <2>2, <2>4, <2>5
    <2>7. w \in Seq(S) /\ Len(w) = Len(q) + 1 /\ w # <<>>
      BY <2>3, <2>6, AppendedShards
    <2>8. AllOf(w) = AllOf(q) \cup s
      BY <2>3, <2>6, AppendedShards
    <2>9. Ordered(w)
      BY <2>3, <2>6, AppendedShards
    <2>10. L \in Level /\ L.shards = w /\ L.shard_cap = l.shard_cap
      BY <1>9, <2>1, <2>2, <2>3, <2>4, <2>7 DEF Level
    <2>11. Len(q) + 1 <= l.shard_cap
      <3>1. Len(q) \in Nat /\ l.shard_cap \in Nat /\ Len(q) < l.shard_cap
        BY <1>9, <1>11, <2>2 DEF Level
      <3>2. QED
        BY <3>1
    <2>12. ShardRecords(L) = (TargetRecords(0) \cup s) \ Cancelled({}, victim')
      <3>1. Cancelled({}, victim') = {}
        BY DEF Cancelled
      <3>2. ShardRecords(L) = AllOf(w)
        BY <2>10 DEF ShardRecords, AllOf
      <3>3. QED
        BY <2>5, <2>8, <3>1, <3>2
    <2>13. ASSUME layout = "BSM" PROVE Len(w) <= 1 /\ \A k \in DOMAIN w : w[k] # {}
      <3>1. q = <<>>
        BY <1>9, <2>2, <2>13
      <3>2. w = <<s>>
        BY <2>3, <3>1
      <3>3. QED
        BY <1>10, <2>13, <3>2
    <2>14. /\ L \in Level /\ Len(L.shards) <= L.shard_cap /\ L.shards # <<>> /\ Ordered(L.shards)
           /\ layout = "TEIRING" => L.shard_cap = ScaleFactor
      BY <1>9, <2>7, <2>9, <2>10, <2>11
    <2>15. /\ layout # "TEIRING" => Len(L.shards) <= 1
           /\ layout = "BSM" => L.shard_cap >= 1 /\ \A k \in DOMAIN L.shards : L.shards[k] # {}
      BY <1>1, <1>9, <1>11, <2>10, <2>13
    <2>16. \E rs \in SUBSET (TargetRecords(0) \cup s) :
             ShardRecords(L) = (TargetRecords(0) \cup s) \ Cancelled(rs, victim')
      BY <2>12
    <2>17. QED
      BY <1>11, <2>14, <2>15, <2>16
  <1>12. CASE layout = "LEVELING"
    <2>1. \E c \in SUBSET Records : \E rs \in SUBSET (TargetRecords(0) \cup s) :
             L = OneShardLevel(0, c) /\ c = (TargetRecords(0) \cup s) \ Cancelled(rs, victim')
      <3>1. CASE l.shards = <<>>
        <4>1. L = OneShardLevel(0, s)
          BY <1>12, <3>1 DEF FlushedL0, l
        <4>2. TargetRecords(0) = {}
          BY <1>9, <3>1 DEF ShardRecords
        <4>3. s = (TargetRecords(0) \cup s) \ Cancelled({}, victim')
          BY <4>2 DEF Cancelled
        <4>4. QED
          BY <1>4, <4>1, <4>3
      <3>2. CASE l.shards # <<>>
        <4>1. PICK rs : rs = s \cup TargetRecords(0)
          OBVIOUS
        <4>2. PICK V : V = victim'
          OBVIOUS
        <4>3. PICK c : c = BuildShard(rs, V)
          OBVIOUS
        <4>4. L = OneShardLevel(0, c)
          <5>1. L = OneShardLevel(l.level_no, BuildShard(s \cup ShardRecords(l), victim'))
            BY <1>12, <3>2 DEF FlushedL0, l
          <5>2. QED
            BY <1>9, <1>12, <3>2, <4>1, <4>2, <4>3, <5>1
        <4>5. c = rs \ Cancelled(rs, V) /\ c \subseteq rs
          BY <4>3, BuildShardCancels
        <4>6. c \in SUBSET Records /\ rs \in SUBSET (TargetRecords(0) \cup s)
          BY <1>4, <1>5, <4>1, <4>5
        <4>7. c = (TargetRecords(0) \cup s) \ Cancelled(rs, victim')
          BY <4>1, <4>2, <4>5
        <4>8. QED
          BY <4>4, <4>6, <4>7
      <3>3. QED
        BY <3>1, <3>2
    <2>2. PICK c \in SUBSET Records, rs \in SUBSET (TargetRecords(0) \cup s) :
             L = OneShardLevel(0, c) /\ c = (TargetRecords(0) \cup s) \ Cancelled(rs, victim')
      BY <2>1
    <2>3. L \in Level /\ L.shard_cap = 1 /\ L.level_no = 0
      BY <2>2, NewLevelTypes
    <2>4. L.shards # <<>> /\ Len(L.shards) = 1 /\ ShardRecords(L) = c
      BY <2>2, RecordsOfOne
    <2>5. L.shards \in Seq(SUBSET Records)
      BY <2>3 DEF Level
    <2>6. Len(L.shards) <= 1 /\ Len(L.shards) <= L.shard_cap
      <3>1. \A x, y : x = 1 /\ y = 1 => x <= 1 /\ x <= y
        OBVIOUS
      <3>2. QED
        BY <2>3, <2>4, <3>1, Zenon
    <2>7. Ordered(L.shards)
      BY <2>5, <2>6, ShortIsOrdered
    <2>8. QED
      BY <1>12, <2>2, <2>3, <2>4, <2>6, <2>7
  <1>13. QED
    BY <1>11, <1>12

\* Where a flush puts its results.
LEMMA FlushShape ==
  ASSUME IInv, NEW n \in FlushSizes, NEW v, FlushWith(n, v),
         NEW L, L = FlushedL0(BuildShard(nrec..(nrec + n - 1), victim')),
         NEW s0, s0 = IF 0 \in DOMAIN m_current_state THEN m_current_state[0]
                      ELSE LevelState(EmptyLevel(0, ShardCapacity), 0, ShardCapacity)
  PROVE  /\ DOMAIN m_levels' = DOMAIN m_levels \cup {0} /\ m_levels'[0] = L
         /\ \A i \in DOMAIN m_levels \ {0} : m_levels'[i] = m_levels[i]
         /\ DOMAIN m_current_state' = DOMAIN m_levels \cup {0}
         /\ m_current_state'[0] = [s0 EXCEPT !.reccnt = RecordCount(L), !.shardcnt = Len(L.shards)]
         /\ \A i \in DOMAIN m_levels \ {0} : m_current_state'[i] = m_current_state[i]
         /\ m_levels' = [i \in DOMAIN m_levels' |-> m_levels'[i]]
         /\ m_current_state' = [i \in DOMAIN m_current_state' |-> m_current_state'[i]]
  <1>1. DOMAIN m_current_state = DOMAIN m_levels
    BY DEF IInv, Types
  <1>2. PICK x : x = [s0 EXCEPT !.reccnt = RecordCount(L), !.shardcnt = Len(L.shards)]
    OBVIOUS
  <1>3. m_levels' = Put(m_levels, 0, L) /\ m_current_state' = Put(m_current_state, 0, x)
    BY <1>2 DEF FlushWith
  <1>4. QED
    BY <1>1, <1>2, <1>3 DEF Put

\* What a flush does to the records of the levels: the view comes to level 0, less the
\* pairs that are cancelled.
LEMMA FlushRecords ==
  ASSUME IInv, Supported, FlushBuffer, NEW n \in FlushSizes,
         NEW v \in (IF layout \in Erasing THEN Records ELSE {}) \cup {NoVictim}, FlushWith(n, v)
  PROVE  /\ LevelRecords(0)' \subseteq TargetRecords(0) \cup nrec..(nrec + n - 1)
         /\ \A i \in DOMAIN m_levels \ {0} : LevelRecords(i)' = LevelRecords(i)
         /\ (HeldBound /\ AllHeld /\ ErasersHeld)'
  <1>1. PICK new : new = nrec..(nrec + n - 1)
    OBVIOUS
  <1>2. PICK V : V = victim'
    OBVIOUS
  <1>3. PICK s : s = BuildShard(new, V)
    OBVIOUS
  <1>4. PICK L : L = FlushedL0(s)
    OBVIOUS
  <1>5. s = new \ Cancelled(new, V) /\ s \subseteq new
    BY <1>3, BuildShardCancels
  <1>6. PICK rs \in SUBSET (TargetRecords(0) \cup s) :
          ShardRecords(L) = (TargetRecords(0) \cup s) \ Cancelled(rs, V)
    <2>1. s = BuildShard(nrec..(nrec + n - 1), victim')
      BY <1>1, <1>2, <1>3
    <2>2. \E rs \in SUBSET (TargetRecords(0) \cup s) :
            ShardRecords(L) = (TargetRecords(0) \cup s) \ Cancelled(rs, victim')
      BY <1>4, <2>1, FlushedLevel
    <2>3. QED
      BY <1>2, <2>2
  <1>7. /\ DOMAIN m_levels' = DOMAIN m_levels \cup {0} /\ m_levels'[0] = L
        /\ \A i \in DOMAIN m_levels \ {0} : m_levels'[i] = m_levels[i]
    <2>1. L = FlushedL0(BuildShard(nrec..(nrec + n - 1), victim'))
      BY <1>1, <1>2, <1>3, <1>4
    <2>2. PICK s0 : s0 = IF 0 \in DOMAIN m_current_state THEN m_current_state[0]
                         ELSE LevelState(EmptyLevel(0, ShardCapacity), 0, ShardCapacity)
      OBVIOUS
    <2>3. QED
      BY <2>1, <2>2, FlushShape
  <1>8. LevelRecords(0)' = (TargetRecords(0) \cup s) \ Cancelled(rs, V)
    BY <1>6, <1>7 DEF LevelRecords
  <1>9. \A i \in DOMAIN m_levels \ {0} : LevelRecords(i)' = LevelRecords(i)
    BY <1>7 DEF LevelRecords
  <1>10. /\ n \in Nat \ {0} /\ nrec \in Nat /\ new \subseteq Records /\ Records' = Records
         /\ V \in [Records -> Records \cup {NoVictim}] /\ VictimsKnown'
         /\ \A u \in Records : u # nrec + n - 1 => V[u] = victim[u]
         /\ victim[nrec + n - 1] = NoVictim /\ nrec + n - 1 \in Records
    BY <1>1, <1>2, FlushVictims
  <1>11. nrec' = nrec + n /\ layout' = layout
    BY DEF FlushBuffer, FlushWith
  <1>12. /\ Held \subseteq Records /\ NoVictim \notin Records /\ Records \subseteq Nat
         /\ \A r \in Held : r < nrec
         /\ \A r \in new : r >= nrec /\ r < nrec + n
    BY <1>1, <1>10, LevelFacts DEF Held, Records, NoVictim, IInv, HeldBound
  <1>13. PICK R : R = Records
    OBVIOUS
  <1>14. PICK H : H = Held
    OBVIOUS
  <1>15. PICK S1 : S1 = (H \cup new) \ Cancelled(new, V)
    OBVIOUS
  <1>16. PICK T : T = S1 \ Cancelled(rs, V)
    OBVIOUS
  <1>17. Held' = T
    <2>1. \A r : r \in Held <=> r \in TargetRecords(0) \/ \E i \in DOMAIN m_levels \ {0} : r \in LevelRecords(i)
      BY DEF Held, TargetRecords
    <2>2. \A r : r \in Held' <=> r \in LevelRecords(0)' \/ \E i \in DOMAIN m_levels \ {0} : r \in LevelRecords(i)
      <3>1. \A r : r \in Held' <=> \E i \in DOMAIN m_levels \cup {0} : r \in ShardRecords(m_levels'[i])
        BY <1>7 DEF Held, LevelRecords
      <3>2. /\ ShardRecords(m_levels'[0]) = LevelRecords(0)'
            /\ \A i \in DOMAIN m_levels \ {0} : ShardRecords(m_levels'[i]) = LevelRecords(i)
        BY <1>9 DEF LevelRecords
      <3>3. QED
        BY <3>1, <3>2
    <2>3. \A r \in Held : r \notin new /\ r \notin Cancelled(new, V)
      BY <1>10, <1>12 DEF Cancelled
    <2>4. \A i \in DOMAIN m_levels \ {0} : \A r \in LevelRecords(i) : r \notin TargetRecords(0)
      <3> SUFFICES ASSUME NEW i \in DOMAIN m_levels \ {0}, NEW r \in LevelRecords(i), r \in TargetRecords(0)
                   PROVE  FALSE
        OBVIOUS
      <3>1. 0 \in DOMAIN m_levels /\ r \in LevelRecords(0)
        BY DEF TargetRecords
      <3>2. i \in Nat /\ LevelRecords(i) \subseteq Records
        BY LevelFacts
      <3>3. r > r
        <4>1. 0 \in DOMAIN m_levels /\ i \in DOMAIN m_levels /\ 0 < i
          BY <3>1, <3>2
        <4>2. QED
          BY <3>1, <4>1 DEF IInv, RecentAcross
      <3>4. r \in Nat
        BY <1>12, <3>2
      <3>5. QED
        BY <3>3, <3>4
    <2>5. \A i \in DOMAIN m_levels \ {0} : \A r \in LevelRecords(i) : r \notin Cancelled(rs, V)
      <3> SUFFICES ASSUME NEW i \in DOMAIN m_levels \ {0}, NEW r \in LevelRecords(i), r \in Cancelled(rs, V)
                   PROVE  FALSE
        OBVIOUS
      <3>1. r \in TargetRecords(0) \/ r \in s
        BY <1>6 DEF Cancelled
      <3>2. r \in Held
        BY DEF Held
      <3>3. QED
        BY <1>5, <2>3, <2>4, <3>1, <3>2
    <2>6. \A r : r \in S1 <=> r \in Held \/ r \in s
      BY <1>5, <1>14, <1>15, <2>3
    <2>7. ASSUME NEW r PROVE r \in Held' <=> r \in T
      <3>1. r \in Held' <=> \/ (r \in TargetRecords(0) \/ r \in s) /\ r \notin Cancelled(rs, V)
                            \/ \E i \in DOMAIN m_levels \ {0} : r \in LevelRecords(i)
        BY <1>8, <2>2
      <3>2. r \in T <=> (r \in Held \/ r \in s) /\ r \notin Cancelled(rs, V)
        BY <1>16, <2>6
      <3>3. QED
        BY <2>1, <2>5, <3>1, <3>2
    <2>8. QED
      BY <2>7
  <1>18. \A u \in R : V[u] # NoVictim => V[V[u]] = NoVictim
    BY <1>2, <1>10, <1>13 DEF VictimsKnown
  <1>19. \A u \in R : V[u] \in H \cup new => u \in H \cup new
    <2> SUFFICES ASSUME NEW u \in Records, V[u] \in Held \cup new PROVE u \in Held \cup new
      BY <1>13, <1>14
    <2>1. CASE u = nrec + n - 1
      BY <1>1, <1>10, <2>1
    <2>2. CASE u # nrec + n - 1
      <3>1. V[u] = victim[u] /\ V[u] \in Records /\ victim[u] # NoVictim
        BY <1>10, <1>12, <2>2
      <3>2. victim[u] < nrec /\ victim[u] \in Nat
        BY <1>12, <3>1 DEF IInv, VictimsKnown
      <3>3. victim[u] \in Held
        BY <1>10, <1>12, <3>1, <3>2
      <3>4. QED
        BY <3>3 DEF IInv, ErasersHeld
    <2>3. QED
      BY <2>1, <2>2
  <1>20. /\ V \in [R -> R \cup {NoVictim}] /\ NoVictim \notin R /\ H \cup new \subseteq R /\ new \subseteq R
         /\ rs \subseteq R /\ S1 \subseteq R
    <2>1. TargetRecords(0) \subseteq Records
      BY LevelFacts DEF TargetRecords
    <2>2. QED
      BY <1>5, <1>6, <1>10, <1>12, <1>13, <1>14, <1>15, <2>1
  <1>21. PICK S0 : S0 = H \cup new
    OBVIOUS
  <1>22. /\ \A r \in S0 : r \notin S1 => V[r] # NoVictim \/ \E t \in R : V[t] = r
         /\ \A t \in R : V[t] \in S1 => t \in S1
    <2>1. S0 \subseteq R /\ S1 = S0 \ Cancelled(new, V) /\ \A u \in R : V[u] \in S0 => u \in S0
      BY <1>15, <1>19, <1>20, <1>21
    <2>2. QED
      BY <1>18, <1>20, <2>1, CancellingIsSafe
  <1>23. /\ \A r \in S1 : r \notin T => V[r] # NoVictim \/ \E t \in R : V[t] = r
         /\ \A t \in R : V[t] \in T => t \in T
    BY <1>16, <1>18, <1>20, <1>22, CancellingIsSafe
  <1>24. HeldBound'
    <2>1. T \subseteq Held \cup new
      BY <1>14, <1>15, <1>16
    <2>2. QED
      BY <1>10, <1>11, <1>12, <1>17, <2>1 DEF HeldBound
  <1>25. ErasersHeld'
    BY <1>2, <1>10, <1>13, <1>17, <1>23 DEF ErasersHeld
  <1>26. AllHeld'
    <2> SUFFICES ASSUME NEW r \in Records, Erasable(r)' PROVE r \in T
      BY <1>10, <1>17 DEF AllHeld
    <2>1. r < nrec + n /\ V[r] = NoVictim /\ \A t \in Records : V[t] # r
      BY <1>2, <1>10, <1>11 DEF Erasable
    <2>2. r \in S0
      <3>1. CASE r >= nrec
        BY <1>1, <1>10, <1>12, <1>21, <2>1, <3>1
      <3>2. CASE r < nrec
        <4>1. r # nrec + n - 1 /\ victim[r] = NoVictim
          BY <1>10, <1>12, <2>1, <3>2
        <4>2. \A t \in Records : victim[t] # r
          BY <1>10, <1>12, <2>1
        <4>3. Erasable(r)
          BY <3>2, <4>1, <4>2 DEF Erasable
        <4>4. QED
          BY <1>14, <1>21, <4>3 DEF IInv, AllHeld
      <3>3. QED
        BY <1>10, <1>12, <3>1, <3>2
    <2>3. r \in S1
      BY <1>13, <1>22, <2>1, <2>2
    <2>4. QED
      BY <1>13, <1>23, <2>1, <2>3
  <1>27. LevelRecords(0)' \subseteq TargetRecords(0) \cup new
    BY <1>5, <1>8
  <1>28. QED
    BY <1>1, <1>9, <1>24, <1>25, <1>26, <1>27

\* The flush keeps the invariant: its records are newer than all others, and the plan
\* has made room for them.
LEMMA FlushInv ==
  ASSUME IInv, CapacitiesGrow, Supported, FlushBuffer
  PROVE  IInv'
  <1>1. /\ layout' = layout /\ m_flush_seq' = m_flush_seq + 1 /\ pc = "work" /\ pc' = "idle"
        /\ merges = <<>> /\ merges' = merges /\ checkpoint' = SaveCheckpoint(m_levels', m_flush_seq')
    BY DEF FlushBuffer
  <1>2. PICK n \in FlushSizes, v \in (IF layout \in Erasing THEN Records ELSE {}) \cup {NoVictim} :
          FlushWith(n, v)
    BY DEF FlushBuffer, FlushWith
  <1>3. PICK h \in Nat : m_levels \in [0..(h - 1) -> Level] /\ m_current_state \in [0..(h - 1) -> State]
    BY DEF IInv, Types
  <1>4. PICK s : s = BuildShard(nrec..(nrec + n - 1), victim')
    OBVIOUS
  <1>5. PICK L : L = FlushedL0(s)
    OBVIOUS
  <1>6. PICK cap : cap = ShardCapacity
    OBVIOUS
  <1>7. cap \in Nat /\ (layout = "TEIRING" => cap = ScaleFactor)
    BY <1>6, StructureAssumption DEF ShardCapacity
  <1>8. PICK s0 : s0 = IF 0 \in DOMAIN m_current_state THEN m_current_state[0]
                       ELSE LevelState(EmptyLevel(0, ShardCapacity), 0, ShardCapacity)
    OBVIOUS
  <1>9. PICK x : x = [s0 EXCEPT !.reccnt = RecordCount(L), !.shardcnt = Len(L.shards)]
    OBVIOUS
  <1>10. /\ L \in Level /\ Len(L.shards) <= L.shard_cap /\ L.shards # <<>> /\ Ordered(L.shards)
         /\ layout = "TEIRING" => L.shard_cap = ScaleFactor
         /\ layout # "TEIRING" => Len(L.shards) <= 1
         /\ layout = "BSM" => L.shard_cap >= 1 /\ \A k \in DOMAIN L.shards : L.shards[k] # {}
         /\ layout = "LEVELING" => L.level_no = 0
    BY <1>2, <1>4, <1>5, FlushedLevel
  <1>11. /\ DOMAIN m_levels' = DOMAIN m_levels \cup {0} /\ m_levels'[0] = L
         /\ \A i \in DOMAIN m_levels \ {0} : m_levels'[i] = m_levels[i]
         /\ DOMAIN m_current_state' = DOMAIN m_levels \cup {0}
         /\ m_current_state'[0] = x
         /\ \A i \in DOMAIN m_levels \ {0} : m_current_state'[i] = m_current_state[i]
         /\ m_levels' = [i \in DOMAIN m_levels' |-> m_levels'[i]]
         /\ m_current_state' = [i \in DOMAIN m_current_state' |-> m_current_state'[i]]
    <2>1. L = FlushedL0(BuildShard(nrec..(nrec + n - 1), victim'))
      BY <1>4, <1>5
    <2>2. /\ DOMAIN m_levels' = DOMAIN m_levels \cup {0} /\ m_levels'[0] = L
          /\ \A i \in DOMAIN m_levels \ {0} : m_levels'[i] = m_levels[i]
          /\ DOMAIN m_current_state' = DOMAIN m_levels \cup {0}
          /\ m_current_state'[0] = [s0 EXCEPT !.reccnt = RecordCount(L), !.shardcnt = Len(L.shards)]
          /\ \A i \in DOMAIN m_levels \ {0} : m_current_state'[i] = m_current_state[i]
          /\ m_levels' = [i \in DOMAIN m_levels' |-> m_levels'[i]]
          /\ m_current_state' = [i \in DOMAIN m_current_state' |-> m_current_state'[i]]
      BY <1>2, <1>8, <2>1, FlushShape
    <2>3. QED
      BY <1>9, <2>2
  <1>12. /\ n \in Nat \ {0} /\ n <= HWM /\ nrec \in Nat
         /\ nrec' \in 0..MaxRecords[layout] /\ Records' = Records
         /\ victim' \in [Records -> Records \cup {NoVictim}]
         /\ VictimsKnown'
    BY <1>2, FlushVictims
  <1>13. /\ LevelRecords(0)' \subseteq TargetRecords(0) \cup nrec..(nrec + n - 1)
         /\ \A i \in DOMAIN m_levels \ {0} : LevelRecords(i)' = LevelRecords(i)
         /\ (HeldBound /\ AllHeld /\ ErasersHeld)'
    BY <1>2, FlushRecords
  <1>14. /\ s0 \in State
         /\ layout = "LEVELING" => s0.reccap = LevelCapacity(0)
         /\ layout = "TEIRING" => s0.shardcap = ScaleFactor
    <2>1. CASE 0 \in DOMAIN m_levels
      <3>1. s0 = m_current_state[0] /\ s0 \in State
        BY <1>3, <1>8, <2>1
      <3>2. QED
        BY <2>1, <3>1 DEF IInv, StateKnown, CountsReal
    <2>2. CASE 0 \notin DOMAIN m_levels
      <3>1. PICK E : E = EmptyLevel(0, cap)
        OBVIOUS
      <3>2. E.shards = <<>>
        BY <3>1, RecordsOfEmpty
      <3>3. E.shards \in Seq(SUBSET Records)
        BY <3>2, EmptySeq
      <3>4. s0 = LevelState(E, 0, cap)
        BY <1>3, <1>6, <1>8, <2>2, <3>1
      <3>5. QED
        BY <1>7, <3>3, <3>4, LevelStateFacts
    <2>3. QED
      BY <2>1, <2>2
  <1>15. /\ RecordCount(L) \in Nat /\ Len(L.shards) \in Nat
         /\ RecordCount(L) = Cardinality(LevelRecords(0)')
    <2>1. PICK m \in Nat : m = MaxRecords[layout]
      BY StructureAssumption DEF IInv, Types
    <2>2. L.shards \in Seq(SUBSET (0..(m - 1)))
      BY <1>10, <2>1 DEF Level, Records
    <2>3. RecordCount(L) \in Nat
      BY <2>2, CountOfLevel
    <2>4. LevelRecords(0)' = ShardRecords(L)
      BY <1>11 DEF LevelRecords
    <2>5. QED
      BY <2>2, <2>3, <2>4, LenProperties DEF RecordCount
  <1>16. /\ x \in State /\ x.reccnt = RecordCount(L) /\ x.shardcnt = Len(L.shards)
         /\ x.reccap = s0.reccap /\ x.shardcap = s0.shardcap
    BY <1>9, <1>14, <1>15 DEF State
  <1>17. Level' = Level /\ State' = State /\ Task' = Task
    BY <1>12 DEF Level, State, Task
  <1>18. Types'
    <2>1. PICK g \in Nat : 0..(h - 1) \cup {0} = 0..(g - 1)
      BY <1>3, NextDomain
    <2>2. DOMAIN m_levels' = 0..(g - 1) /\ DOMAIN m_current_state' = 0..(g - 1)
      BY <1>3, <1>11, <2>1
    <2>3. \A i \in DOMAIN m_levels' : m_levels'[i] \in Level /\ m_current_state'[i] \in State
      BY <1>3, <1>10, <1>11, <1>16
    <2>4. m_levels' \in [0..(g - 1) -> Level] /\ m_current_state' \in [0..(g - 1) -> State]
      BY <1>11, <2>2, <2>3
    <2>5. m_flush_seq' \in Nat /\ layout' \in Layouts /\ merges' \in Seq(Task)
      BY <1>1 DEF IInv, Types
    <2>6. QED
      BY <1>1, <1>12, <1>17, <2>4, <2>5 DEF Types
  <1>19. LevelShapes'
    <2> SUFFICES ASSUME NEW i \in DOMAIN m_levels'
                 PROVE  /\ Len(m_levels'[i].shards) <= m_levels'[i].shard_cap
                        /\ layout = "TEIRING" => m_levels'[i].shard_cap = ScaleFactor
                        /\ layout # "TEIRING" => Len(m_levels'[i].shards) <= 1
                        /\ layout = "BSM" =>
                             /\ m_levels'[i].shard_cap >= 1
                             /\ \A k \in DOMAIN m_levels'[i].shards : m_levels'[i].shards[k] # {}
      BY <1>1 DEF LevelShapes
    <2>1. CASE i = 0
      BY <1>10, <1>11, <2>1
    <2>2. CASE i \in DOMAIN m_levels \ {0}
      BY <1>11, <2>2 DEF IInv, LevelShapes
    <2>3. QED
      BY <1>11, <2>1, <2>2
  <1>20. RecentAcross'
    <2> SUFFICES ASSUME NEW i \in DOMAIN m_levels', NEW j \in DOMAIN m_levels', i < j,
                        NEW a \in LevelRecords(i)', NEW b \in LevelRecords(j)'
                 PROVE  a > b
      BY DEF RecentAcross
    <2>1. i \in Nat /\ j \in Nat
      BY <1>3, <1>11
    <2>2. j \in DOMAIN m_levels \ {0} /\ b \in LevelRecords(j)
      BY <1>11, <1>13, <2>1
    <2>3. b < nrec /\ b \in Nat
      <3>1. b \in Held /\ LevelRecords(j) \subseteq Records
        BY <2>2, LevelFacts DEF Held
      <3>2. QED
        BY <2>2, <3>1 DEF IInv, HeldBound, Records
    <2>4. CASE i # 0
      BY <1>11, <1>13, <2>2, <2>4 DEF IInv, RecentAcross
    <2>5. CASE i = 0
      <3>1. CASE a \in nrec..(nrec + n - 1)
        BY <1>12, <2>3, <3>1
      <3>2. CASE a \in TargetRecords(0)
        <4>1. 0 \in DOMAIN m_levels /\ a \in LevelRecords(0)
          BY <3>2 DEF TargetRecords
        <4>2. QED
          BY <2>2, <2>5, <4>1 DEF IInv, RecentAcross
      <3>3. QED
        BY <1>13, <2>5, <3>1, <3>2
    <2>6. QED
      BY <2>4, <2>5
  <1>21. RecentWithin'
    BY <1>10, <1>11 DEF IInv, RecentWithin
  <1>22. LevelNumbers'
    <2> SUFFICES ASSUME layout = "LEVELING", NEW j \in DOMAIN m_levels', m_levels'[j].shards # <<>>
                 PROVE  /\ j = 0 => m_levels'[j].level_no = 0
                        /\ \A i \in DOMAIN m_levels' : i < j /\ m_levels'[i].shards # <<>> =>
                             \/ m_levels'[i].level_no < m_levels'[j].level_no
                             \/ m_levels'[i].level_no = 0 /\ m_levels'[j].level_no = 0
      BY <1>1 DEF LevelNumbers
    <2>1. m_levels'[0].level_no = 0 /\ j \in Nat
      BY <1>3, <1>10, <1>11
    <2>2. ASSUME NEW i \in DOMAIN m_levels', i < j, m_levels'[i].shards # <<>>
          PROVE  \/ m_levels'[i].level_no < m_levels'[j].level_no
                 \/ m_levels'[i].level_no = 0 /\ m_levels'[j].level_no = 0
      <3>1. i \in Nat /\ j \in DOMAIN m_levels \ {0} /\ m_levels'[j] = m_levels[j]
        BY <1>3, <1>11, <2>1, <2>2
      <3>2. CASE i = 0
        <4>1. m_levels[j] \in Level /\ m_levels[j].level_no \in Nat
          BY <3>1, LevelFacts DEF Level
        <4>2. m_levels'[i].level_no = 0 /\ m_levels'[j].level_no \in Nat
          BY <2>1, <3>1, <3>2, <4>1
        <4>3. \A y \in Nat : 0 < y \/ y = 0
          OBVIOUS
        <4>4. QED
          BY <4>2, <4>3
      <3>3. CASE i # 0
        BY <1>11, <2>2, <3>1, <3>3 DEF IInv, LevelNumbers
      <3>4. QED
        BY <3>2, <3>3
    <2>3. QED
      BY <2>1, <2>2
  <1>23. StateKnown'
    <2>1. CountsReal'
      <3> SUFFICES ASSUME NEW i \in DOMAIN m_levels'
                   PROVE  /\ m_current_state'[i].reccnt = RecordCount(m_levels'[i])
                          /\ m_current_state'[i].shardcnt = Len(m_levels'[i].shards)
                          /\ layout = "LEVELING" => m_current_state'[i].reccap = LevelCapacity(i)
        BY <1>1 DEF CountsReal
      <3>1. CASE i = 0
        BY <1>11, <1>14, <1>16, <3>1
      <3>2. CASE i \in DOMAIN m_levels \ {0}
        BY <1>11, <3>2 DEF IInv, StateKnown, CountsReal
      <3>3. QED
        BY <1>11, <3>1, <3>2
    <2>2. layout = "TEIRING" => \A i \in DOMAIN m_levels' : m_current_state'[i].shardcap = ScaleFactor
      BY <1>11, <1>14, <1>16 DEF IInv, StateKnown
    <2>3. ASSUME layout = "LEVELING" PROVE x.reccnt <= LevelCapacity(0)
      <3>1. PICK N : N = nrec..(nrec + n - 1)
        OBVIOUS
      <3>2. PICK A : A = TargetRecords(0)
        OBVIOUS
      <3>3. PICK B : B = LevelRecords(0)'
        OBVIOUS
      <3>4. IsFiniteSet(N) /\ Cardinality(N) = n
        <4>1. nrec \in Int /\ nrec + n - 1 \in Int
          BY <1>12
        <4>2. /\ IsFiniteSet(N)
              /\ Cardinality(N) = IF nrec > nrec + n - 1 THEN 0 ELSE (nrec + n - 1) - nrec + 1
          BY <3>1, <4>1, FS_Interval
        <4>3. QED
          BY <1>12, <4>2
      <3>5. IsFiniteSet(A) /\ Cardinality(A) + n <= LevelCapacity(0) /\ Cardinality(A) \in Nat
        <4>1. CASE 0 \in DOMAIN m_levels
          <5>1. A = LevelRecords(0)
            BY <3>2, <4>1 DEF TargetRecords
          <5>2. IsFiniteSet(A) /\ m_current_state[0].reccnt = Cardinality(A)
            BY <4>1, <5>1, LevelFacts
          <5>3. CanReconstructWith(0, n, m_current_state)
            BY <1>2, <1>3, <4>1 DEF FlushWith, RoomInL0
          <5>4. m_current_state[0].reccnt + n <= m_current_state[0].reccap
            BY <2>3, <5>3 DEF CanReconstructWith
          <5>5. m_current_state[0].reccap = LevelCapacity(0)
            BY <2>3, <4>1 DEF IInv, StateKnown, CountsReal
          <5>6. QED
            BY <5>2, <5>4, <5>5, FS_CardinalityType
        <4>2. CASE 0 \notin DOMAIN m_levels
          <5>1. A = {}
            BY <3>2, <4>2 DEF TargetRecords
          <5>2. IsFiniteSet(A) /\ Cardinality(A) = 0
            BY <5>1, FS_EmptySet
          <5>3. HWM <= LevelCapacity(0) /\ LevelCapacity(0) \in Nat
            BY DEF CapacitiesGrow
          <5>4. QED
            BY <1>12, <5>2, <5>3, StructureAssumption
        <4>3. QED
          BY <4>1, <4>2
      <3>6. IsFiniteSet(A \cup N) /\ Cardinality(A \cup N) \in Nat
            /\ Cardinality(A \cup N) <= Cardinality(A) + n
        <4>1. IsFiniteSet(A \cup N) /\ IsFiniteSet(A \cap N)
              /\ Cardinality(A \cup N) = Cardinality(A) + Cardinality(N) - Cardinality(A \cap N)
          BY <3>4, <3>5, FS_Union, FS_Intersection
        <4>2. Cardinality(A \cap N) \in Nat /\ Cardinality(A \cup N) \in Nat
          BY <4>1, FS_CardinalityType
        <4>3. QED
          BY <1>12, <3>4, <3>5, <4>1, <4>2
      <3>7. Cardinality(B) <= Cardinality(A \cup N) /\ Cardinality(B) \in Nat
        <4>1. B \subseteq A \cup N
          BY <1>13, <3>1, <3>2, <3>3
        <4>2. QED
          BY <3>6, <4>1, FS_Subset, FS_CardinalityType
      <3>8. LevelCapacity(0) \in Nat
        BY DEF CapacitiesGrow
      <3>9. x.reccnt = Cardinality(B)
        BY <1>15, <1>16, <3>3
      <3>10. QED
        BY <1>12, <3>5, <3>6, <3>7, <3>8, <3>9
    <2>4. QED
      BY <1>1, <1>11, <2>1, <2>2, <2>3 DEF StateKnown
  <1>24. PlanKnown'
    BY <1>1 DEF PlanKnown
  <1>25. CheckpointKnown'
    BY <1>1 DEF CheckpointKnown
  <1>26. QED
    BY <1>12, <1>13, <1>18, <1>19, <1>20, <1>21, <1>22, <1>23, <1>24, <1>25 DEF IInv

-----------------------------------------------------------------------------
(***************************************************************************)
(* The theorems.                                                           *)
(***************************************************************************)

\* Every step of the structure keeps the invariant.
LEMMA StepInv ==
  ASSUME CapacitiesGrow, Supported, IInv, [Next]_vars
  PROVE  IInv'
  <1>1. CASE ScheduleReconstruction
    BY <1>1, ScheduleInv
  <1>2. CASE MergeLevels
    BY <1>2, MergeInv
  <1>3. CASE FlattenLevels
    BY <1>3, FlattenInv
  <1>4. CASE FlushBuffer
    BY <1>4, FlushInv
  <1>5. CASE Restart
    BY <1>5, RestartInv
  <1>6. CASE UNCHANGED vars
    <2>1. /\ layout' = layout /\ m_levels' = m_levels /\ m_current_state' = m_current_state
          /\ m_flush_seq' = m_flush_seq /\ checkpoint' = checkpoint /\ pc' = pc /\ merges' = merges
          /\ nrec' = nrec /\ victim' = victim
      BY <1>6 DEF vars
    <2>2. Types'
      BY <2>1 DEF IInv, Types, Level, State, Task, Records
    <2>3. LevelShapes'
      BY <2>1 DEF IInv, LevelShapes
    <2>4. VictimsKnown'
      BY <2>1 DEF IInv, VictimsKnown, Records
    <2>5. HeldBound'
      BY <2>1 DEF IInv, HeldBound, Held, LevelRecords
    <2>6. RecentAcross'
      BY <2>1 DEF IInv, RecentAcross, LevelRecords
    <2>7. RecentWithin'
      BY <2>1 DEF IInv, RecentWithin
    <2>8. AllHeld'
      BY <2>1 DEF IInv, AllHeld, Erasable, Held, LevelRecords, Records
    <2>9. ErasersHeld'
      BY <2>1 DEF IInv, ErasersHeld, Held, LevelRecords, Records
    <2>10. LevelNumbers'
      BY <2>1 DEF IInv, LevelNumbers
    <2>11. StateKnown'
      BY <2>1 DEF IInv, StateKnown, CountsReal
    <2>12. PlanKnown'
      BY <2>1 DEF IInv, PlanKnown, ChainPlan, FlatPlan, LevelRecords, RoomInL0, CanReconstructWith
    <2>13. CheckpointKnown'
      BY <2>1 DEF IInv, CheckpointKnown
    <2>14. QED
      BY <2>2, <2>3, <2>4, <2>5, <2>6, <2>7, <2>8, <2>9, <2>10, <2>11, <2>12, <2>13 DEF IInv
  <1>7. QED
    BY <1>1, <1>2, <1>3, <1>4, <1>5, <1>6 DEF Next

\* The invariant holds in every reachable state.
LEMMA AlwaysInv ==
  ASSUME Supported
  PROVE  Spec => []IInv
  <1>1. IInv /\ [Next]_vars => IInv'
    BY CapacitiesDoGrow, StepInv
  <1>2. QED
    BY <1>1, InitInv, PTL DEF Spec

\* Every variable keeps its type: the levels are numbered without a gap, their state is
\* kept for exactly those levels, and no level holds more shards than its vector has
\* room for (InternalLevel::append), whatever the plans and merges do.
THEOREM TypeCorrect ==
  ASSUME Supported
  PROVE  Spec => []TypeOK
  BY AlwaysInv, InvTypes, PTL

\* No reconstruction, flush or restart loses a record or leaves two copies of it: a record
\* that was flushed and not erased is always in exactly one shard of the levels.
THEOREM RecordsAreKept ==
  ASSUME Supported
  PROVE  Spec => []RecordsKept
  BY AlwaysInv, InvKept, PTL

\* No merge and no flush drops a tombstone while the record it erases is still in a shard.
THEOREM ErasedRecordsStayErased ==
  ASSUME Supported
  PROVE  Spec => []ErasedStayErased
  BY AlwaysInv, InvErased, PTL

\* The tombstone ordering invariant of ExtensionStructure::reconstruction: levels nearer to
\* the buffer, and later shards of a level, hold only newer records.
THEOREM LevelsOrderedByAge ==
  ASSUME Supported
  PROVE  Spec => []RecencyOrdered
  BY AlwaysInv, InvRecency, PTL

\* A plan of get_reconstruction_tasks stays good until it is finished: every task finds
\* its sources filled and its level numbers in order, and the assertion of flush_buffer
\* holds for every view that the buffer can produce.
THEOREM PlansAlwaysHold ==
  ASSUME Supported
  PROVE  Spec => []PlansHold
  BY AlwaysInv, InvPlans, PTL

\* What the policy reads of m_current_state, which is updated next to the levels by every
\* operation, always agrees with them: the counts and, of the capacities, the records
\* under leveling and the places of the shard vector under tiering.
THEOREM StateIsAlwaysReal ==
  ASSUME Supported
  PROVE  Spec => []StateIsReal
  BY AlwaysInv, InvState, PTL
=============================================================================
