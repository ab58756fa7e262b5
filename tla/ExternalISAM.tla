---------------------------- MODULE ExternalISAM ----------------------------
(***************************************************************************)
(* The external ISAMTree (shard/ExternalISAMTree.h): a file of pages.      *)
(* Page 0 is the header; data pages come next, then the internal nodes     *)
(* level by level, the root last.  Files and runs are sequences of the     *)
(* pages from page 1 on.                                                   *)
(*                                                                         *)
(* std::sort and std::priority_queue compare records without their headers *)
(* and may order equal ones in any way, so what they build is a set of     *)
(* possible outcomes.                                                      *)
(***************************************************************************)
EXTENDS SortedMerge

CONSTANT SizeModulus   \* size_t is unsigned: its arithmetic is modulo this

ASSUME SizeAssumption == SizeModulus \in Nat \ {0}

\* memset(page, 0, NODE_SZ)
ZeroRecord == [rec |-> <<0, 0>>, tomb |-> FALSE, del |-> FALSE, stamp |-> 0]

\* Records s on consecutive data pages.
DataPages(s) ==
  [p \in 1..CeilDiv(Len(s), LeafFanout) |->
     [k \in 1..LeafFanout |->
        LET n == (p - 1) * LeafFanout + k IN IF n <= Len(s) THEN s[n] ELSE ZeroRecord]]

\* Record n (from 0) of a file or a run.
RecordAt(pages, n) == pages[n \div LeafFanout + 1][(n % LeafFanout) + 1]

-----------------------------------------------------------------------------
(***************************************************************************)
(* create_sorted_runs: one page each, sorted by record.                    *)
(***************************************************************************)
ByRecord(a, b) == RecLess(a.rec, b.rec)

Sorted(s) == \A i, j \in DOMAIN s : i < j => ~ByRecord(s[j], s[i])

Chunk(view, i) ==
  SubSeq(view, (i - 1) * LeafFanout + 1, Min({i * LeafFanout, Len(view)}))

\* A run: its pages and the number of its records.
Run(pages, n) == [pages |-> pages, n |-> n]

RunRecords(run) == [k \in 1..run.n |-> RecordAt(run.pages, k - 1)]

CreateSortedRuns(view) ==
  LET chunks == 1..CeilDiv(Len(view), LeafFanout)
      sorts == [i \in chunks |-> Sorts(Chunk(view, i), ByRecord)]
  IN {[i \in chunks |-> Run(DataPages(t[i]), Len(t[i]))] : t \in OneOfEach(sorts)}

-----------------------------------------------------------------------------
(***************************************************************************)
(* external_merge_sort.  A cursor is what is left of a run: its first      *)
(* record is the one in the heap, and a pop with the push of the next      *)
(* record, whose page is read when its turn comes, advances the cursor.    *)
(***************************************************************************)

\* The runs whose record may be at the top of the heap.
Tops(c) == {i \in Active(c) : \A j \in Active(c) : ~ByRecord(c[j][1], c[i][1])}

\* Fault: the tombstone flags are not compared.
AnnihilateAnyPair(a, b) == a.rec = b.rec

\* A record and a tombstone for it, whichever comes first.
Annihilate(a, b) == a.rec = b.rec /\ a.tomb # b.tomb

\* The states after a round in which run i has the record at the top: the next top
\* is that of a run j, or there is none.
PopMin(st, i) ==
  LET min == st.c[i][1]
      rest == Advance(st.c, i)
      emit == [st EXCEPT !.c = rest, !.out = Append(@, min)]
      cancel(j) == [st EXCEPT !.c = Advance(rest, j), !.cancelled = @ + 1]
  IN IF Tops(rest) = {} THEN {emit}
     ELSE {IF Annihilate(min, rest[j][1]) THEN cancel(j) ELSE emit : j \in Tops(rest)}

HeapRound(st) ==
  IF Tops(st.c) = {} THEN {st} ELSE UNION {PopMin(st, i) : i \in Tops(st.c)}

MergeStart(runs) ==
  [c |-> [i \in DOMAIN runs |-> RunRecords(runs[i])], out |-> <<>>, cancelled |-> 0]

\* The states in which the loop may end; no run is empty.
MergeLoop(runs) ==
  Iterate(LAMBDA states : UNION {HeapRound(st) : st \in states},
          SumSeq([i \in DOMAIN runs |-> runs[i].n]), {MergeStart(runs)})

-----------------------------------------------------------------------------
(***************************************************************************)
(* build_internal_levels.                                                  *)
(***************************************************************************)

\* Fault: a data page is entered with its first key.
LastKeyFirstSlot(file, c, n) ==
  IF c <= CeilDiv(n, LeafFanout) THEN Key(file[c][1].rec)
  ELSE file[c][Cardinality({k \in 1..InternalFanout : file[c][k].child # 0})].key

\* The greatest key below page c of a file with n records.
LastKey(file, c, n) ==
  IF c <= CeilDiv(n, LeafFanout)
  THEN Key(file[c][Min({LeafFanout, n - (c - 1) * LeafFanout})].rec)
  ELSE file[c][Cardinality({k \in 1..InternalFanout : file[c][k].child # 0})].key

\* A level of nodes above pages first..Len(file), unless these are one page.
AddInternalLevel(st, n) ==
  LET file == st.file
      last == Len(file)
      node(m) == [k \in 1..InternalFanout |->
                    LET c == st.first + (m - 1) * InternalFanout + k - 1
                    IN IF c <= last THEN [key |-> LastKey(file, c, n), child |-> c]
                                    ELSE NoChild]
  IN IF st.first >= last THEN st
     ELSE [file |-> file \o [m \in 1..CeilDiv(last - st.first + 1, InternalFanout) |-> node(m)],
           first |-> last + 1]

AddInternalLevels(pages, n) ==
  Iterate(LAMBDA st : AddInternalLevel(st, n), Len(pages), [file |-> pages, first |-> 1]).file

\* Fault: the last data page is the one after the last page written.
ShardOfNextPage(out, n, tscnt) ==
  LET file == AddInternalLevels(DataPages(out), n)
  IN [file |-> file,
      root_page |-> Len(file),
      last_data_page |-> IF n > 0 THEN CeilDiv(Len(out), LeafFanout) + 1 ELSE 0,
      reccnt |-> n,
      tscnt |-> tscnt]

(***************************************************************************)
(* A shard: its pages, the root and last data page of its header, and its  *)
(* counts.  reccnt and tscnt are what the constructor adds up before the   *)
(* merge.                                                                  *)
(***************************************************************************)
ShardOf(out, n, tscnt) ==
  LET file == AddInternalLevels(DataPages(out), n)
  IN [file |-> file,
      root_page |-> Len(file),
      last_data_page |-> IF n > 0 THEN CeilDiv(Len(out), LeafFanout) ELSE 0,
      reccnt |-> n,
      tscnt |-> tscnt]

\* Fault: the counts are signed.
BuildShardSigned(st, reccnt, tscnt) ==
  ShardOf(st.out, reccnt - 2 * st.cancelled, tscnt - st.cancelled)

BuildShard(st, reccnt, tscnt) ==
  ShardOf(st.out, (reccnt - 2 * st.cancelled) % SizeModulus,
          (tscnt - st.cancelled) % SizeModulus)

\* ISAMTree(BufferView): every shard the view may become.
ShardsFromView(view, tombstone_count) ==
  UNION {{BuildShard(st, Len(view), tombstone_count) : st \in MergeLoop(runs)} :
           runs \in CreateSortedRuns(view)}

\* ISAMTree(std::vector<ISAMTree *>)
ShardsFromShards(shards) ==
  {BuildShard(st, SumSeq([i \in DOMAIN shards |-> shards[i].reccnt]),
                  SumSeq([i \in DOMAIN shards |-> shards[i].tscnt])) :
     st \in MergeLoop([i \in DOMAIN shards |-> Run(shards[i].file, shards[i].reccnt)])}

\* ISAMTree(filename): the header has no tombstone count.
Reopened(shard) == [shard EXCEPT !.tscnt = 0]

-----------------------------------------------------------------------------
(***************************************************************************)
(* Searching a shard that has records.                                     *)
(***************************************************************************)
IsLeaf(shard, page) == page \in 1..shard.last_data_page

\* From the root to a leaf.
Descend(shard, key) ==
  LET next(page) ==
        LET node == shard.file[page]
            used == {k \in 1..InternalFanout : node[k].child # 0}
            hits == {k \in used : key <= node[k].key}
        IN IF IsLeaf(shard, page) THEN page
           ELSE node[IF hits = {} THEN Cardinality(used) ELSE Min(hits)].child
  IN Iterate(next, Len(shard.file), shard.root_page)

\* The page, and the slot (from 0) on it; LeafFanout when no slot has such a key.
ExternalLowerBound(shard, key) ==
  LET page == Descend(shard, key)
      hits == {k \in 1..LeafFanout : Key(shard.file[page][k].rec) >= key}
  IN [page |-> page, slot |-> IF hits = {} THEN LeafFanout ELSE Min(hits) - 1]

\* The slot after the last one lies in the zeroed rest of the page, and holds no
\* record.
ExternalPointLookup(shard, rec) ==
  LET at == ExternalLowerBound(shard, Key(rec))
      found == shard.file[at.page][at.slot + 1]
  IN IF at.slot < LeafFanout /\ found.rec = rec THEN <<found>> ELSE <<>>

\* What an iterator of get_iterator delivers.
IteratorRecords(shard, lower) ==
  IF shard.reccnt = 0 THEN <<>>
  ELSE LET at == ExternalLowerBound(shard, lower)
           start == (at.page - 1) * LeafFanout + at.slot
       IN [i \in 1..(IF start < shard.reccnt THEN shard.reccnt - start ELSE 0) |->
             RecordAt(shard.file, start + i - 1)]

\* The records of a shard in the order of its file.
Records(shard) == RunRecords(Run(shard.file, shard.reccnt))
=============================================================================
