------------------------------- MODULE Queries -------------------------------
(***************************************************************************)
(* Queries over a buffer view and a sequence of shards, in the order in    *)
(* which async_query visits them: RangeScanIterator and pl::Query on       *)
(* external shards, rq::Query and rc::Query on in-memory ones.             *)
(***************************************************************************)
EXTENDS ExternalISAM

InRange(w, lo, hi) == Key(w.rec) >= lo /\ Key(w.rec) <= hi

\* Fault: the upper bound is left out.
UpToExclusive(s, hi) == SelectSeq(s, LAMBDA w : Key(w.rec) < hi)

\* The records of s before the first one above hi.
UpTo(s, hi) ==
  LET above == {i \in DOMAIN s : Key(s[i].rec) > hi}
  IN IF above = {} THEN s ELSE SubSeq(s, 1, Min(above) - 1)

\* get(i) for every record of the view that is in the range.
BufferRange(view, lo, hi) == SelectSeq(view, LAMBDA w : InRange(w, lo, hi))

Recs(s) == [i \in DOMAIN s |-> s[i].rec]

-----------------------------------------------------------------------------
(***************************************************************************)
(* RangeScanIterator: a heap of the next record of every source.           *)
(***************************************************************************)
Copies(rec, n) == [i \in 1..n |-> rec]

\* Fault: a tagged record is counted.
WeightIgnoringTags(w) == IF w.tomb THEN -1 ELSE 1

Weight(w) == CASE w.tomb -> -1 [] w.del -> 0 [] OTHER -> 1

\* A round of advance, which has counted `live` copies of rec: another record ends the
\* count, and what was counted is delivered.
ScanRound(st) ==
  LET tops == Tops(st.c)
      i == CHOOSE t \in tops : TRUE
      w == st.c[i][1]
  IN CASE tops = {} -> st
       [] tops # {} /\ w.rec = st.rec ->
            [st EXCEPT !.c = Advance(@, i), !.live = @ + Weight(w)]
       [] OTHER ->
            [c |-> Advance(st.c, i), rec |-> w.rec, live |-> Weight(w),
             out |-> st.out \o Copies(st.rec, st.live)]

ScanLoop(sources) ==
  LET st == Iterate(ScanRound, SumSeq([i \in DOMAIN sources |-> Len(sources[i])]),
                    [c |-> sources, rec |-> ZeroRecord.rec, live |-> 0, out |-> <<>>])
  IN st.out \o Copies(st.rec, st.live)

\* Everything next delivers, in its order.
RangeScan(view, shards, lo, hi) ==
  LET buffer == SortSeq(BufferRange(view, lo, hi), LAMBDA a, b : RecLess(a.rec, b.rec))
      source(s) == UpTo(IteratorRecords(s, lo), hi)
  IN ScanLoop(<<buffer>> \o [i \in DOMAIN shards |-> source(shards[i])])

-----------------------------------------------------------------------------
(***************************************************************************)
(* pl::Query: the first source with an answer decides (EARLY_ABORT).       *)
(***************************************************************************)
BufferPointLookup(view, key) ==
  LET hits == SelectSeq(view, LAMBDA w : Key(w.rec) = key)
  IN IF hits = <<>> THEN <<>> ELSE <<Head(hits)>>

\* A shard is asked for the record with the key and value 0.
ShardPointLookup(shard, key) == ExternalPointLookup(shard, <<key, 0>>)

\* Fault: tombstones are skipped.
CombineLookupAny(results) ==
  LET hits == {i \in DOMAIN results : results[i] # <<>> /\ ~results[i][1].tomb}
  IN IF hits = {} THEN <<>> ELSE <<results[Min(hits)][1].rec>>

\* combine: a tombstone or a tagged record hides what is behind it.
CombineLookup(results) ==
  LET hits == {i \in DOMAIN results : results[i] # <<>>}
      first == results[Min(hits)][1]
  IN IF hits = {} \/ first.del \/ first.tomb THEN <<>> ELSE <<first.rec>>

PointLookupQuery(view, shards, key) ==
  CombineLookup(<<BufferPointLookup(view, key)>>
                \o [i \in DOMAIN shards |-> ShardPointLookup(shards[i], key)])

-----------------------------------------------------------------------------
(***************************************************************************)
(* rq::Query and rc::Query on sorted arrays.                               *)
(***************************************************************************)
ShardRange(s, lo, hi) == UpTo(SubSeq(s, GetLowerBound(s, lo), Len(s)), hi)

\* combine: the local results are merged, an earlier source being a newer version;
\* the buffer's result is in the order of the buffer.
RangeQuery(view, shards, lo, hi) ==
  LET local == <<BufferRange(view, lo, hi)>>
               \o [i \in DOMAIN shards |-> ShardRange(shards[i], lo, hi)]
  IN Recs(Merged(Reverse(local), "tomb"))

\* local_query and local_query_buffer: a tombstone counts as a record as well.
CountRange(s) ==
  LET entries == SelectSeq(s, LAMBDA w : ~w.del)
  IN [reccnt |-> Len(entries), tscnt |-> Tombstones(entries)]

\* combine reads the count of every shard; a shard without a record at or above lo
\* gives none.
RangeCountDefined(shards, lo) ==
  \A i \in DOMAIN shards : GetLowerBound(shards[i], lo) <= Len(shards[i])

RangeCount(view, shards, lo, hi) ==
  LET local == <<CountRange(BufferRange(view, lo, hi))>>
               \o [i \in DOMAIN shards |-> CountRange(ShardRange(shards[i], lo, hi))]
      reccnt == SumSeq([i \in DOMAIN local |-> local[i].reccnt])
      tscnt == SumSeq([i \in DOMAIN local |-> local[i].tscnt])
  IN reccnt - Min({tscnt, reccnt})
=============================================================================
