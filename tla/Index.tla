-------------------------------- MODULE Index --------------------------------
(***************************************************************************)
(* The data path of one index, one operation at a time: records and        *)
(* tombstones enter the ring of the buffer, a flush turns the buffer view  *)
(* into a shard, reconstructions combine the shards of levels, and queries *)
(* read all of them.  The queries are operators of module Queries that the *)
(* properties apply to every state.                                        *)
(*                                                                         *)
(* A mode fixes the template parameters, the records and the number of     *)
(* appends that are considered with them, and the records that earlier     *)
(* reconstructions left in the last level.  External shards are what the   *)
(* framework is built with; in-memory shards are built from views and      *)
(* merged in the same way.  When a level is merged down is left open here  *)
(* (module ExtensionStructure plans it), and so is the size of a flush     *)
(* between the watermarks.                                                 *)
(***************************************************************************)
EXTENDS Queries

CONSTANTS
  Modes,         \* the modes to consider
  HWM, LWM,      \* the watermarks of the buffer
  Cap,           \* slots of its ring
  ScaleFactor,   \* shards of a level under tiering
  MaxLevels      \* bound: no level is added below this one

ASSUME IndexAssumption ==
  /\ \A m \in Modes :
       /\ m.kind \in {"external", "memory"} /\ m.layout \in {"TEIRING", "LEVELING"}
       /\ m.policy = "TOMBSTONE" \/ (m.policy = "TAGGING" /\ m.kind = "external")
       /\ m.records \subseteq (Nat \ {0}) \X Nat
       /\ m.appends \in Nat              \* bound: records and tombstones appended
       /\ m.loaded \in Seq((Nat \ {0}) \X Nat)
       /\ \A i \in 1..(Len(m.loaded) - 1) : RecLess(m.loaded[i], m.loaded[i + 1])
       /\ Len(m.loaded) + m.appends < SizeModulus   \* a size_t counts the records
  /\ HWM \in Nat \ {0} /\ LWM \in 1..HWM /\ Cap \in Nat /\ Cap > HWM
  /\ ScaleFactor \in Nat \ {0, 1} /\ MaxLevels \in Nat \ {0, 1}

VARIABLES
  mode,
  m_data,        \* slot |-> what append stored in it last
  m_head, m_tail,
  m_tscnt,       \* tombstones ever appended
  levels,        \* the shards of each level, oldest first; the first level is 0
  undefined,     \* whether the program has left defined behaviour
  appended,      \* history: the number of appends, over all restarts
  as_set,        \* history: no present record was inserted, no absent one erased
  restarted      \* history: whether the shards were loaded from files

vars == <<mode, m_data, m_head, m_tail, m_tscnt, levels, undefined, appended, as_set, restarted>>

Universe == mode.records
External == mode.kind = "external"
Leveling == mode.layout = "LEVELING"

-----------------------------------------------------------------------------
(***************************************************************************)
(* BufferView.                                                             *)
(***************************************************************************)
Start == m_head % Cap
Stop == m_tail % Cap
ViewCount == m_tail - m_head

ToIdx(i) == IF Start + i >= Cap THEN i - (Cap - Start) ELSE Start + i

\* get(i) for every i
View == [i \in 1..ViewCount |-> m_data[ToIdx(i - 1)]]

Slots(a, b) == [i \in 1..(b - a) |-> m_data[a + i - 1]]

CopyToBuffer ==
  IF Start > Stop THEN Slots(Start, Cap) \o Slots(0, Stop)
                  ELSE Slots(Start, Start + ViewCount)

\* Fault: a view that wraps around is searched to the end of the ring only.
DeleteOrderNoWrap ==
  IF Start < Stop THEN [i \in 1..(Stop - Start) |-> Start + i - 1]
                  ELSE [i \in 1..(Cap - Start) |-> Start + i - 1]

\* The slots delete_record looks at, in its order: the whole ring when the view is
\* empty.
DeleteOrder ==
  IF Start < Stop THEN [i \in 1..(Stop - Start) |-> Start + i - 1]
                  ELSE [i \in 1..(Cap - Start) |-> Start + i - 1] \o [i \in 1..Stop |-> i - 1]

Marked(rec) ==
  LET hits == {i \in DOMAIN DeleteOrder :
                 m_data[DeleteOrder[i]].rec = rec}
  IN IF hits = {} THEN m_data ELSE [m_data EXCEPT ![DeleteOrder[Min(hits)]].del = TRUE]

-----------------------------------------------------------------------------
\* The shard of records that were merged before.
LoadedLevel ==
  LET s == [i \in DOMAIN mode.loaded |-> Wrap(mode.loaded[i], FALSE, 0)]
  IN IF s = <<>> THEN <<>>
     ELSE <<IF External THEN BuildShard([out |-> s, cancelled |-> 0], Len(s), 0) ELSE s>>

Init ==
  /\ mode \in Modes
  /\ m_data = [i \in 0..(Cap - 1) |-> ZeroRecord]
  /\ m_head = 0 /\ m_tail = 0 /\ m_tscnt = 0
  /\ levels = [i \in 1..MaxLevels |-> IF i = MaxLevels THEN LoadedLevel ELSE <<>>]
  /\ undefined = FALSE
  /\ appended = 0 /\ as_set = TRUE /\ restarted = FALSE

\* The records of a shard of either kind.
Content(shard) == IF External THEN Records(shard) ELSE shard

Empty(shard) == Content(shard) = <<>>

\* The shards in the order of get_local_queries.
Shards == FlattenSeq(levels)

\* Everything stored, and what it says of a record.
LevelEntries(level) == FlattenSeq([k \in DOMAIN level |-> Content(level[k])])

Entries == View \o FlattenSeq([i \in DOMAIN levels |-> LevelEntries(levels[i])])

Live(rec) == Balance(Entries, rec)

\* set_timestamp and set_visible for a slot
Stamp(pos) == IF External THEN 0 ELSE 2 * pos + 1

\* MutableBuffer::append
Append_(rec, tombstone) ==
  /\ ~undefined
  /\ ViewCount < HWM /\ appended < mode.appends
  /\ m_data' = [m_data EXCEPT ![m_tail % Cap] = Wrap(rec, tombstone, Stamp(m_tail % Cap))]
  /\ m_tail' = m_tail + 1
  /\ m_tscnt' = IF tombstone THEN m_tscnt + 1 ELSE m_tscnt
  /\ appended' = appended + 1
  /\ as_set' = (as_set /\ Live(rec) = IF tombstone THEN 1 ELSE 0)
  /\ UNCHANGED <<mode, m_head, levels, undefined, restarted>>

Insert(rec) == Append_(rec, FALSE)

\* erase with tombstones: the presence of the record is not checked.
Erase(rec) == mode.policy = "TOMBSTONE" /\ Append_(rec, TRUE)

\* point_lookup in an empty external shard does not return.
FoundIn(rec) ==
  {i \in DOMAIN Shards : ~Empty(Shards[i]) /\ ExternalPointLookup(Shards[i], rec) # <<>>}

Hangs(rec) ==
  \E i \in DOMAIN Shards : Empty(Shards[i]) /\ \A j \in FoundIn(rec) : i < j

(***************************************************************************)
(* erase with tags.  A record that an external shard finds is a copy in    *)
(* the caller's page: it is marked there and erase returns 1.  Without     *)
(* such a page no shard finds anything.                                    *)
(***************************************************************************)
TaggedErase(rec, page) ==
  /\ mode.policy = "TAGGING" /\ ~undefined
  /\ undefined' = (page /\ Hangs(rec))
  /\ m_data' = IF page /\ (Hangs(rec) \/ FoundIn(rec) # {}) THEN m_data ELSE Marked(rec)
  /\ as_set' = (as_set /\ Live(rec) = 1)
  /\ UNCHANGED <<mode, m_head, m_tail, m_tscnt, levels, appended, restarted>>

-----------------------------------------------------------------------------
(***************************************************************************)
(* Flush and reconstruction.                                               *)
(***************************************************************************)

\* ShardType(BufferView)
FromView ==
  IF External THEN ShardsFromView(View, m_tscnt)
              ELSE SortedArrayFromBufferview(CopyToBuffer)

\* ShardType(std::vector<ShardType *>), for shards that have records.
FromShards(shards) ==
  IF External THEN ShardsFromShards(shards) ELSE {SortedArrayMerge(shards)}

\* The first record of an empty shard is read and is not there.
Defined(shards) == \A i \in DOMAIN shards : ~Empty(shards[i])

\* flush_buffer_into_l0
Flush ==
  /\ ~undefined /\ ViewCount >= LWM
  /\ ~Leveling => Len(levels[1]) < ScaleFactor
  /\ \E s \in FromView :
       IF Leveling /\ levels[1] # <<>>
         THEN LET inputs == Append(levels[1], s)
              IN /\ undefined' = ~Defined(inputs)
                 /\ IF Defined(inputs)
                      THEN \E t \in FromShards(inputs) : levels' = [levels EXCEPT ![1] = <<t>>]
                      ELSE UNCHANGED levels
         ELSE /\ levels' = [levels EXCEPT ![1] = Append(@, s)]
              /\ UNCHANGED undefined
  /\ m_head' = m_tail
  /\ UNCHANGED <<mode, m_data, m_tail, m_tscnt, appended, as_set, restarted>>

\* Level i is moved into the next level, or merged with its shard.
MergeDownLeveled(i) ==
  /\ ~undefined /\ Leveling /\ levels[i] # <<>>
  /\ LET inputs == levels[i + 1] \o levels[i]
     IN \/ /\ levels[i + 1] = <<>>
           /\ levels' = [levels EXCEPT ![i + 1] = levels[i], ![i] = <<>>]
           /\ UNCHANGED undefined
        \/ /\ levels[i + 1] # <<>> /\ Defined(inputs)
           /\ \E t \in FromShards(inputs) :
                levels' = [levels EXCEPT ![i + 1] = <<t>>, ![i] = <<>>]
           /\ UNCHANGED undefined
        \/ /\ levels[i + 1] # <<>> /\ ~Defined(inputs)
           /\ undefined' = TRUE
           /\ UNCHANGED levels
  /\ UNCHANGED <<mode, m_data, m_head, m_tail, m_tscnt, appended, as_set, restarted>>

\* append_level: the shards of a full level become one shard of the next.
MergeDownTiered(i) ==
  /\ ~undefined /\ ~Leveling
  /\ Len(levels[i]) = ScaleFactor /\ Len(levels[i + 1]) < ScaleFactor
  /\ \/ /\ Defined(levels[i])
        /\ \E t \in FromShards(levels[i]) :
             levels' = [levels EXCEPT ![i + 1] = Append(@, t), ![i] = <<>>]
        /\ UNCHANGED undefined
     \/ /\ ~Defined(levels[i])
        /\ undefined' = TRUE
        /\ UNCHANGED levels
  /\ UNCHANGED <<mode, m_data, m_head, m_tail, m_tscnt, appended, as_set, restarted>>

\* The checkpoint's shards are opened again.  The buffer was just flushed (what the
\* log brings back is in module Durability).  Only under leveling, where a level has
\* one shard and load_checkpoint gives it the one place it needs: under tiering a
\* loaded level has no free place, and the flushes and merges after it lose shards
\* (module ExtensionStructure and its run structure_restart).
Restart ==
  /\ ~undefined /\ External /\ Leveling /\ m_head = m_tail
  /\ levels' = [i \in DOMAIN levels |-> [k \in DOMAIN levels[i] |-> Reopened(levels[i][k])]]
  /\ m_data' = [i \in DOMAIN m_data |-> ZeroRecord]
  /\ m_head' = 0 /\ m_tail' = 0 /\ m_tscnt' = 0
  /\ restarted' = TRUE
  /\ UNCHANGED <<mode, undefined, appended, as_set>>

Next ==
  \/ \E r \in Universe : Insert(r) \/ Erase(r) \/ \E page \in BOOLEAN : TaggedErase(r, page)
  \/ Flush
  \/ \E i \in 1..(MaxLevels - 1) : MergeDownLeveled(i) \/ MergeDownTiered(i)
  \/ Restart

Spec == Init /\ [][Next]_vars

-----------------------------------------------------------------------------
(***************************************************************************)
(* create_static_structure.                                                *)
(***************************************************************************)

\* The shard of a level that has records.
Combined(level) ==
  IF \A k \in DOMAIN level : Empty(level[k]) THEN {<<>>}
  ELSE {<<s>> : s \in FromShards(level)}

\* The shards it gathers: those of the levels, the oldest first, and the buffer last.
LevelShards ==
  {FlattenSeq(f) :
     f \in OneOfEach([i \in 1..MaxLevels |-> Combined(levels[MaxLevels + 1 - i])])}

\* Fault: the records of the buffer are left out.
StaticInputsNoBuffer == LevelShards

StaticInputs ==
  IF ViewCount = 0 THEN LevelShards
  ELSE {Append(inputs, s) : inputs \in LevelShards, s \in FromView}

\* What it may return when no shard it gathers is empty.
CreateStaticStructure ==
  UNION {FromShards(inputs) : inputs \in {i \in StaticInputs : Defined(i)}}

-----------------------------------------------------------------------------
(***************************************************************************)
(* Properties.                                                             *)
(***************************************************************************)
Known == Universe \cup ToSet(mode.loaded)

Keys == 0..(1 + Max({Key(r) : r \in Known}))

Entries_of(s, rec) == Cardinality({i \in DOMAIN s : s[i].rec = rec})

WrappedRecords ==
  [rec : Known, tomb : BOOLEAN, del : BOOLEAN, stamp : 0..(2 * Cap)]

\* Type invariant of the index: slots and shards hold wrapped records, and the counts
\* of a shard are unsigned.
TypeOK ==
  /\ mode \in Modes
  /\ \A i \in 0..(Cap - 1) : m_data[i] = ZeroRecord \/ m_data[i] \in WrappedRecords
  /\ m_tail \in Nat /\ m_head \in 0..m_tail /\ m_tscnt \in 0..m_tail
  /\ ViewCount <= HWM
  /\ \A i \in DOMAIN Shards :
       /\ \A k \in DOMAIN Content(Shards[i]) : Content(Shards[i])[k] \in WrappedRecords
       /\ External => Shards[i].tscnt \in Nat /\ Shards[i].reccnt \in Nat
  /\ appended \in 0..mode.appends
  /\ {undefined, as_set, restarted} \subseteq BOOLEAN

\* Flushes, merges and, under leveling, restarts (the constructors of both ISAMTrees)
\* neither lose nor invent anything: whatever pairs of record and tombstone they
\* cancel, in whatever order equal records leave their heaps, every record keeps its
\* count of copies less tombstones, and tagged copies stay tagged.
BalanceKept ==
  [][levels' # levels =>
       LET before == Entries
           after == Entries'
       IN \A r \in Known : Balance(after, r) = Balance(before, r)]_vars

\* A RangeScanIterator over any range delivers exactly the live copies of the records
\* in it, in their order: the pages it starts from, the tombstones in other shards or
\* the buffer, and the wrapped ring make no difference.
ScanExact ==
  External /\ ~undefined =>
    LET stored == Entries
    IN \A lo, hi \in Keys : lo <= hi =>
         LET scan == RangeScan(View, Shards, lo, hi)
             copies(r) == Len(SelectSeq(scan, LAMBDA x : x = r))
         IN /\ \A i \in 1..(Len(scan) - 1) : ~RecLess(scan[i + 1], scan[i])
            /\ \A r \in Known :
                 copies(r) = IF Key(r) \in lo..hi THEN Max({0, Balance(stored, r)}) ELSE 0

\* What a merge writes agrees with the header of the file: records in order on pages 1
\* to last_data_page, zeroes after the last of them, internal nodes behind, although
\* m_reccnt is computed from the inputs and the number of cancelled pairs.
ShardsWellFormed ==
  External => \A i \in DOMAIN Shards :
    LET s == Shards[i]
    IN /\ s.last_data_page = CeilDiv(s.reccnt, LeafFanout)
       /\ s.root_page = Len(s.file)
       /\ Sorted(Records(s))
       /\ \A n \in s.reccnt..(s.last_data_page * LeafFanout - 1) :
            RecordAt(s.file, n) = ZeroRecord

\* get_tombstone_count is an upper bound on the tombstones of a shard: the buffer's
\* count is never reduced by a flush, and a merge takes off one for each pair it
\* cancels.  It fails after a restart, since the header of a file has no such count.
TombstoneBound ==
  External /\ ~restarted =>
    \A i \in DOMAIN Shards : Shards[i].tscnt >= Tombstones(Content(Shards[i]))

\* External shards are what their headers and counts say, after any sequence of
\* flushes, merges (external_merge_sort) and restarts.
ShardsSound == ShardsWellFormed /\ TombstoneBound

\* The search trees of both shards lead to the first record at or above a key (or
\* above it), also when equal keys go over several pages, and point_lookup in memory
\* finds every record of the shard.
SearchExact ==
  \A i \in DOMAIN Shards :
    ~Empty(Shards[i]) => \A key \in Keys \ {0} :
      LET c == Content(Shards[i])
          below(p) == Key(c[p].rec) < key
          upto(p) == Key(c[p].rec) <= key
          n == Cardinality({p \in DOMAIN c : below(p)})
      IN IF External
         THEN LET at == ExternalLowerBound(Shards[i], key)
                  idx == (at.page - 1) * LeafFanout + at.slot
              IN idx = n \/ (n = Len(c) /\ idx >= n)
         ELSE /\ GetLowerBound(c, key) = n + 1
              /\ GetUpperBound(c, key) = 1 + Cardinality({p \in DOMAIN c : upto(p)})
              /\ \A p \in DOMAIN c : \A q \in PointLookup(c, c[p].rec) :
                   q \in DOMAIN c /\ c[q].rec = c[p].rec

\* Every source has at most one entry for rec.
OneEntryEach(rec) ==
  /\ Entries_of(View, rec) <= 1
  /\ \A i \in DOMAIN Shards : Entries_of(Content(Shards[i]), rec) <= 1

\* Under leveling a point lookup (pl::Query, stopped by EARLY_ABORT at the first
\* answer) returns the record with value 0 exactly when it is live, as long as the
\* index is used as a set and no source holds two entries for it: what is newer is
\* met first, and a tombstone hides the copies below.
LookupNewest ==
  External /\ ~undefined /\ as_set /\ mode.policy = "TOMBSTONE" /\ Leveling =>
    \A r \in Known :
      /\ r[2] = 0 /\ OneEntryEach(r)
      /\ \A q \in Known \ {r} : Key(q) = Key(r) => Entries_of(View, q) = 0
      /\ \A i \in DOMAIN Shards : ~Empty(Shards[i])
      => PointLookupQuery(View, Shards, Key(r)) = IF Live(r) = 1 THEN <<r>> ELSE <<>>

\* A point lookup does not return an erased record, whatever the layout and wherever
\* the record and its tombstone are.
LookupHonoursErase ==
  External /\ ~undefined /\ as_set /\ mode.policy = "TOMBSTONE" =>
    \A r \in Known :
      Live(r) <= 0 /\ (\A i \in DOMAIN Shards : ~Empty(Shards[i]))
      => PointLookupQuery(View, Shards, Key(r)) # <<r>>

\* A range query (rq::Query) misses no live copy of a record in its range and returns
\* only copies that are stored, in any order of tombstones.
RangeQueryComplete ==
  ~External /\ ~undefined /\ Defined(Shards) =>
    LET stored == Entries
    IN \A lo, hi \in Keys : lo <= hi =>
         LET result == RangeQuery(View, Shards, lo, hi)
             copies(r) == Len(SelectSeq(result, LAMBDA x : x = r))
         IN \A r \in Known :
              IF Key(r) \in lo..hi
              THEN copies(r) \in Balance(stored, r)..Len(SelectSeq(stored, LAMBDA w : w.rec = r /\ ~w.tomb))
              ELSE copies(r) = 0

\* A range count (rc::Query) is never below the number of live copies in the range,
\* and is that number when the range holds no tombstone.
RangeCountBound ==
  ~External /\ ~undefined /\ Defined(Shards) =>
    \A lo, hi \in Keys : lo <= hi /\ RangeCountDefined(Shards, lo) =>
      LET count == RangeCount(View, Shards, lo, hi)
          inside == SelectSeq(Entries, LAMBDA w : InRange(w, lo, hi))
          live == MapThenSumSet(LAMBDA r : Max({0, Balance(inside, r)}), Known)
      IN count >= live /\ (Tombstones(inside) = 0 => count = live)

\* Neither kind of range query answers with less than the live records of its range.
RangeAnswersComplete == RangeQueryComplete /\ RangeCountBound

\* create_static_structure holds what the index holds: levels and buffer combined in
\* its order give every record its count.
StaticExact ==
  ~undefined /\ Defined(Shards) =>
    LET stored == Entries
    IN \A s \in CreateStaticStructure : \A r \in Known :
         Balance(Content(s), r) = Balance(stored, r)

\* A tagged erase of a record whose only entry is in the buffer reaches it: no external
\* shard claims to have found the record, and delete_record meets its slot, also when
\* the view wraps around the end of the ring.
TaggedEraseEffective ==
  mode.policy = "TAGGING" /\ ~undefined =>
    \A r \in Universe :
      Entries_of(Entries, r) = 1 /\ Entries_of(View, r) = 1 =>
        /\ FoundIn(r) = {}
        /\ \A i \in 1..ViewCount : View[i].rec = r => Marked(r)[ToIdx(i - 1)].del
=============================================================================
