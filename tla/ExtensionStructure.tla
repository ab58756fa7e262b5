------------------------- MODULE ExtensionStructure -------------------------
(***************************************************************************)
(* The levels and shards that a reconstruction works on                    *)
(* (framework/structure/ExtensionStructure.h, InternalLevel.h), for the    *)
(* three layout policies, with the checkpoint that every reconstruction    *)
(* and every flush saves and the constructor loads (Checkpoint.h).         *)
(*                                                                         *)
(* Records are numbered in the order in which they are inserted.  A shard  *)
(* is the set of its records; a tombstone is a record, and victim[t] is    *)
(* the record that tombstone t erases.  Building a shard cancels the pairs *)
(* it finds (util/SortedMerge.h).                                          *)
(* Levels are numbered from 0, as in the code.                             *)
(***************************************************************************)
EXTENDS Integers, Sequences, FiniteSets

CONSTANTS
  Layouts,      \* the layout policies considered
  HWM,          \* the buffer's high watermark: m_buffer_size, and what tasks are planned for
  ScaleFactor,
  FlushSizes,   \* record counts a buffer view may have when it is flushed
  Erasing,      \* the policies under which a flushed buffer may contain a tombstone
  Restarting,   \* the policies under which the program may stop and load its checkpoint
  MaxRecords    \* bound: records inserted, for each policy

ASSUME StructureAssumption ==
  /\ Layouts \subseteq {"TEIRING", "LEVELING", "BSM"}
  /\ HWM \in Nat \ {0} /\ ScaleFactor \in Nat \ {0, 1}
  /\ FlushSizes \subseteq 1..HWM
  /\ Erasing \subseteq Layouts /\ Restarting \subseteq Layouts
  /\ MaxRecords \in [Layouts -> Nat]

VARIABLES
  layout,           \* LayoutPolicy, a template parameter of the class: it never changes
  m_levels,         \* 0..n-1 |-> InternalLevel
  m_current_state,  \* 0..n-1 |-> level_state
  m_flush_seq,
  checkpoint,       \* the file: flush_seq, and the shards of each level
  pc,               \* "idle", or "work" in a reconstruction
  merges,           \* ReconstructionTasks that are still to be done
  nrec,             \* records flushed so far
  victim            \* tombstone |-> the record it erases

vars == <<layout, m_levels, m_current_state, m_flush_seq, checkpoint, pc, merges, nrec, victim>>

Records == 0..(MaxRecords[layout] - 1)
NoVictim == -1

-----------------------------------------------------------------------------
(***************************************************************************)
(* Shards and levels.                                                      *)
(***************************************************************************)

\* Fault: a tombstone is dropped as soon as it is merged.
BuildShardDropsTombstones(rs, erased) ==
  {r \in rs : erased[r] = NoVictim /\ \A t \in rs : erased[t] # r}

\* The records of a shard built from those of rs: a record and its tombstone
\* cancel each other.
BuildShard(rs, erased) ==
  rs \ UNION {{t, erased[t]} : t \in {u \in rs : erased[u] \in rs}}

\* InternalLevel(level_no, shard_cap).  m_shard_cnt is Len(shards).
EmptyLevel(no, shard_cap) ==
  [level_no |-> no, shards |-> <<>>, shard_cap |-> shard_cap, pending |-> <<>>]

OneShardLevel(no, shard) ==
  [level_no |-> no, shards |-> <<shard>>, shard_cap |-> 1, pending |-> <<>>]

\* Fault: the vector counts as full one shard too early.
AppendShardTooEarly(l, shard) ==
  IF Len(l.shards) + 1 >= l.shard_cap
    THEN [l EXCEPT !.pending = <<shard>>]
    ELSE [l EXCEPT !.shards = Append(@, shard)]

\* The shard goes to m_pending_shard when the vector of shards is full.
AppendShard(l, shard) ==
  IF Len(l.shards) = l.shard_cap
    THEN [l EXCEPT !.pending = <<shard>>]
    ELSE [l EXCEPT !.shards = Append(@, shard)]

\* The pending shard replaces all the others.
Finalize(l) ==
  IF l.pending = <<>> THEN l ELSE [l EXCEPT !.shards = l.pending, !.pending = <<>>]

\* InternalLevel::clone leaves the pending shard behind.
CloneLevel(l) == [l EXCEPT !.pending = <<>>]

ShardRecords(l) == UNION {l.shards[k] : k \in DOMAIN l.shards}

\* The shard built from all the shards of some levels.
Combined(levels) == BuildShard(UNION {ShardRecords(l) : l \in levels}, victim)

AppendLevel(l, incoming) ==
  IF incoming.shards = <<>> THEN l ELSE AppendShard(l, Combined({incoming}))

\* The sum of the shards' record counts; shards have no record in common.
RecordCount(l) == Cardinality(ShardRecords(l))

-----------------------------------------------------------------------------
(***************************************************************************)
(* Planning.                                                               *)
(***************************************************************************)

Height == Cardinality(DOMAIN m_levels)

ShardCapacity == IF layout = "LEVELING" THEN 1 ELSE ScaleFactor

\* pow(m_scale_factor, n)
Power[n \in Nat] == IF n = 0 THEN 1 ELSE ScaleFactor * Power[n - 1]

\* m_buffer_size * pow(m_scale_factor, idx + 1)
LevelCapacity(idx) == HWM * Power[idx + 1]

\* Fault: the capacity of the level above.
LevelStateAbove(l, idx, shardcap) ==
  [reccnt |-> RecordCount(l), reccap |-> LevelCapacity(idx - 1),
   shardcnt |-> Len(l.shards), shardcap |-> shardcap]

LevelState(l, idx, shardcap) ==
  [reccnt |-> RecordCount(l), reccap |-> LevelCapacity(idx),
   shardcnt |-> Len(l.shards), shardcap |-> shardcap]

\* can_reconstruct_with, for the policy of this structure
CanReconstructWith(idx, incoming, state) ==
  /\ idx \in DOMAIN state
  /\ CASE layout = "LEVELING" -> state[idx].reccnt + incoming <= state[idx].reccap
       [] layout = "BSM"      -> state[idx].reccnt = 0
       [] OTHER               -> state[idx].shardcnt < state[idx].shardcap

\* find_reconstruction_target(0, state): the first level below the first that can
\* take the records of level 0 (incoming_rec_cnt keeps that value in the loop);
\* grow adds a level when there is none.
ReconstructionTarget(state) ==
  LET able == {i \in DOMAIN state \ {0} : CanReconstructWith(i, state[0].reccnt, state)}
  IN IF able = {} THEN Height ELSE CHOOSE i \in able : \A j \in able : i <= j

\* Fault: level 0 is merged into the target and the levels between are skipped.
TasksSkippingLevels(base) ==
  IF base = 0 THEN <<>> ELSE <<[target |-> base, sources |-> {0}]>>

\* get_reconstruction_tasks_from_level(0): one task for BSM, otherwise a chain of
\* merges of each level into the next, from the target up.
TasksTo(base) ==
  IF layout = "BSM"
    THEN IF base = 0 THEN <<>> ELSE <<[target |-> base, sources |-> 0..(base - 1)]>>
    ELSE [k \in 1..base |-> [target |-> base - k + 1, sources |-> {base - k}]]

\* Fault: the tasks make room for one record less than the buffer may hold.
ReconstructionTasksForLess(reccnt) ==
  IF CanReconstructWith(0, reccnt - 1, m_current_state)
    THEN <<>>
    ELSE TasksTo(ReconstructionTarget(m_current_state))

\* get_reconstruction_tasks: what must be done before a buffer of reccnt records fits.
ReconstructionTasks(reccnt) ==
  IF CanReconstructWith(0, reccnt, m_current_state)
    THEN <<>>
    ELSE TasksTo(ReconstructionTarget(m_current_state))

-----------------------------------------------------------------------------
\* f with value v at i, which may be the index after the last.
Put(f, i, v) == [j \in DOMAIN f \cup {i} |-> IF j = i THEN v ELSE f[j]]

\* save_checkpoint lists the shards of every level; the pending shard is not one of them.
SaveCheckpoint(levels, flush_seq) ==
  [flush_seq |-> flush_seq, shards |-> [i \in DOMAIN levels |-> levels[i].shards]]

NoLevels == [i \in {} |-> 0]

Init ==
  /\ layout \in Layouts
  /\ m_levels = NoLevels
  /\ m_current_state = NoLevels
  /\ m_flush_seq = 0
  /\ checkpoint = [flush_seq |-> 0, shards |-> NoLevels]
  /\ pc = "idle"
  /\ merges = <<>>
  /\ nrec = 0
  /\ victim = [r \in Records |-> NoVictim]

\* create_new_epoch copies the structure, and schedule_reconstruction plans for a
\* full buffer.
ScheduleReconstruction ==
  /\ pc = "idle"
  /\ nrec + HWM <= MaxRecords[layout]
  /\ m_levels' = [i \in DOMAIN m_levels |-> CloneLevel(m_levels[i])]
  /\ merges' = ReconstructionTasks(HWM)
  /\ pc' = "work"
  /\ UNCHANGED <<layout, m_current_state, m_flush_seq, checkpoint, nrec, victim>>

\* reconstruction(base_level, incoming_level) for leveling: the merge of the two
\* shards, or the incoming level itself when the base has none.
LeveledBase(base, incoming) ==
  IF base \in DOMAIN m_levels /\ m_levels[base].shards # <<>>
    THEN OneShardLevel(m_levels[base].level_no, Combined({m_levels[base], m_levels[incoming]}))
    ELSE m_levels[incoming]

\* reconstruction(base_level, incoming_level) for tiering
TieredBase(base, incoming) ==
  LET l == IF base \in DOMAIN m_levels THEN m_levels[base] ELSE EmptyLevel(base, ShardCapacity)
  IN Finalize(AppendLevel(l, m_levels[incoming]))

\* One ReconstructionTask between two neighbouring levels.
MergeLevels ==
  /\ pc = "work" /\ merges # <<>> /\ layout # "BSM"
  /\ LET base == Head(merges).target
         incoming == CHOOSE s \in Head(merges).sources : TRUE
         merged == IF layout = "LEVELING" THEN LeveledBase(base, incoming)
                                          ELSE TieredBase(base, incoming)
         emptied == EmptyLevel(incoming, ShardCapacity)
     IN /\ m_levels' = Put(Put(m_levels, base, merged), incoming, emptied)
        /\ m_current_state' =
             Put(Put(m_current_state, base, LevelState(merged, base, ShardCapacity)),
                 incoming, LevelState(emptied, incoming, ShardCapacity))
  /\ merges' = Tail(merges)
  /\ checkpoint' = SaveCheckpoint(m_levels', m_flush_seq)
  /\ UNCHANGED <<layout, m_flush_seq, pc, nrec, victim>>

\* reconstruction(task): all the sources become one shard of the target.  The
\* record capacity of an emptied source is computed from the target's index.
FlattenLevels ==
  /\ pc = "work" /\ merges # <<>> /\ layout = "BSM"
  /\ LET target == Head(merges).target
         sources == Head(merges).sources
         flat == OneShardLevel(target, Combined({m_levels[i] : i \in sources}))
     IN /\ m_levels' = [i \in DOMAIN m_levels \cup {target} |->
             IF i \in sources THEN EmptyLevel(i, 1)
             ELSE IF i = target THEN flat ELSE m_levels[i]]
        /\ m_current_state' = [i \in DOMAIN m_levels' |->
             IF i \in sources \cup {target} THEN LevelState(m_levels'[i], target, 1)
                                            ELSE m_current_state[i]]
  /\ merges' = Tail(merges)
  /\ checkpoint' = SaveCheckpoint(m_levels', m_flush_seq)
  /\ UNCHANGED <<layout, m_flush_seq, pc, nrec, victim>>

\* flush_buffer_into_l0
FlushedL0(shard) ==
  LET l0 == IF 0 \in DOMAIN m_levels THEN m_levels[0] ELSE EmptyLevel(0, ShardCapacity)
  IN IF layout = "LEVELING"
       THEN IF l0.shards = <<>>
              THEN OneShardLevel(0, shard)
              ELSE OneShardLevel(l0.level_no, BuildShard(shard \cup ShardRecords(l0), victim'))
       ELSE AppendShard(l0, shard)

\* flush_buffer's assertion: level 0 has room for the n records of the view.
RoomInL0(n) == DOMAIN m_current_state = {} \/ CanReconstructWith(0, n, m_current_state)

\* A record that no tombstone has erased yet.
Erasable(r) == r < nrec /\ victim[r] = NoVictim /\ \A t \in Records : victim[t] # r

\* The tombstone, if there is one, is the last record of the buffer; it erases a
\* record of the structure or one that is in the same buffer.
FlushBuffer ==
  /\ pc = "work" /\ merges = <<>>
  /\ \E n \in FlushSizes : \E v \in (IF layout \in Erasing THEN Records ELSE {}) \cup {NoVictim} :
       LET t == nrec + n - 1
           new == nrec..t
       IN /\ RoomInL0(n)
          /\ v # NoVictim => Erasable(v) \/ v \in new \ {t}
          /\ victim' = [victim EXCEPT ![t] = v]
          /\ LET l0 == FlushedL0(BuildShard(new, victim'))
                 s0 == IF 0 \in DOMAIN m_current_state THEN m_current_state[0]
                       ELSE LevelState(EmptyLevel(0, ShardCapacity), 0, ShardCapacity)
             IN /\ m_levels' = Put(m_levels, 0, l0)
                /\ m_current_state' = Put(m_current_state, 0,
                     [s0 EXCEPT !.reccnt = RecordCount(l0), !.shardcnt = Len(l0.shards)])
          /\ nrec' = nrec + n
  /\ m_flush_seq' = m_flush_seq + 1
  /\ checkpoint' = SaveCheckpoint(m_levels', m_flush_seq')
  /\ pc' = "idle"
  /\ UNCHANGED <<layout, merges>>

\* Fault: the vector is one shorter than the list.
LoadLevelShort(i, list) ==
  [EmptyLevel(i, Len(list) - 1) EXCEPT !.shards = list]

\* load_checkpoint makes the vector of a level as long as its list of shards.
LoadLevel(i, list) == [EmptyLevel(i, Len(list)) EXCEPT !.shards = list]

\* The process ends at any point and the constructor runs again.
Restart ==
  /\ layout \in Restarting
  /\ m_levels' = [i \in DOMAIN checkpoint.shards |-> LoadLevel(i, checkpoint.shards[i])]
  /\ m_current_state' = [i \in DOMAIN m_levels' |-> LevelState(m_levels'[i], i, ShardCapacity)]
  /\ m_flush_seq' = checkpoint.flush_seq
  /\ pc' = "idle"
  /\ merges' = <<>>
  /\ UNCHANGED <<layout, checkpoint, nrec, victim>>

Next == ScheduleReconstruction \/ MergeLevels \/ FlattenLevels \/ FlushBuffer \/ Restart

Spec == Init /\ [][Next]_vars

-----------------------------------------------------------------------------
(***************************************************************************)
(* Properties.                                                             *)
(***************************************************************************)

Shards == UNION {{i} \X DOMAIN m_levels[i].shards : i \in DOMAIN m_levels}

ShardAt(s) == m_levels[s[1]].shards[s[2]]

Stored == UNION {ShardAt(s) : s \in Shards}

\* Every variable has the type the code declares for it.
TypeOK ==
  /\ layout \in Layouts
  /\ DOMAIN m_levels = 0..(Height - 1) /\ DOMAIN m_current_state = DOMAIN m_levels
  /\ \A i \in DOMAIN m_levels :
       /\ m_levels[i].shards \in Seq(SUBSET Records)
       /\ Len(m_levels[i].shards) <= m_levels[i].shard_cap
       /\ m_current_state[i] \in [reccnt : Nat, reccap : Nat, shardcnt : Nat, shardcap : Nat]
  /\ m_flush_seq \in Nat
  /\ pc \in {"idle", "work"}
  /\ \A k \in DOMAIN merges : merges[k].target \in Nat
  /\ nrec \in 0..MaxRecords[layout]
  /\ victim \in [Records -> Records \cup {NoVictim}]

\* No reconstruction, flush or restart loses a record or keeps two copies of it:
\* one that was flushed and not erased is in exactly one shard.
RecordsKept ==
  \A r \in Records : Erasable(r) =>
    \E s \in Shards : r \in ShardAt(s) /\ \A u \in Shards \ {s} : r \notin ShardAt(u)

\* A merge never drops a tombstone before the record it erases, which would bring
\* the record back.
ErasedStayErased ==
  \A t \in Records : victim[t] # NoVictim /\ victim[t] \in Stored => t \in Stored

\* The tombstone ordering invariant that reconstruction's comment names: a shard
\* of a level nearer to the buffer, or later in its level, has only newer records.
RecencyOrdered ==
  \A s, u \in Shards :
    (s[1] < u[1] \/ (s[1] = u[1] /\ s[2] > u[2])) =>
       \A a \in ShardAt(s), b \in ShardAt(u) : a > b

\* The tasks planned for a full buffer leave room for any view that is flushed:
\* flush_buffer's assertion holds when it is reached.
TasksMakeRoom ==
  pc = "work" /\ merges = <<>> => \A n \in FlushSizes : RoomInL0(n)

\* m_current_state is "the *real* state" of the levels, in every field that
\* can_reconstruct_with reads: the records against the capacity of the level under
\* leveling, the records under BSM, and under tiering the shards against the places of
\* the level's vector, which load_checkpoint makes too short when it has run.
StateIsReal ==
  \A i \in DOMAIN m_levels :
    /\ m_current_state[i].reccnt = RecordCount(m_levels[i])
    /\ m_current_state[i].shardcnt = Len(m_levels[i].shards)
    /\ layout = "LEVELING" => m_current_state[i].reccap = LevelCapacity(i)
    /\ layout = "TEIRING" => m_current_state[i].shardcap = m_levels[i].shard_cap

\* A task never finds a source level without a shard ("something is going terribly
\* wrong earlier in the reconstruction logic"), and the assertion of
\* InternalLevel::reconstruction on the two levels' numbers holds.
TasksWellFormed ==
  merges # <<>> =>
    LET task == Head(merges)
    IN \A s \in task.sources :
         /\ s \in DOMAIN m_levels /\ m_levels[s].shards # <<>>
         /\ layout = "LEVELING" /\ task.target \in DOMAIN m_levels
            /\ m_levels[task.target].shards # <<>> =>
              \/ m_levels[task.target].level_no > m_levels[s].level_no
              \/ m_levels[task.target].level_no = 0 /\ m_levels[s].level_no = 0

\* A plan that get_reconstruction_tasks made stays good until its last task is done:
\* every task finds what it needs, and the flush at the end finds room.
PlansHold == TasksMakeRoom /\ TasksWellFormed
=============================================================================
