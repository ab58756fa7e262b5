----------------------------- MODULE SortedMerge -----------------------------
(***************************************************************************)
(* Wrapped records (framework/interface/Record.h) and the in-memory shard  *)
(* algorithms on them: util/SortedMerge.h, util/Cursor.h and the search    *)
(* tree of shard/ISAMTree.h.  A record is a pair of a key and a value; an  *)
(* in-memory shard is the sequence of its wrapped records.                 *)
(*                                                                         *)
(* `stamp` is the header above its two low bits: zero in a shard, and in   *)
(* the buffer the slot (the timestamp that append sets) with the visible   *)
(* bit.  External shards keep it but nothing of theirs reads it, so it is  *)
(* left at zero for them.                                                  *)
(***************************************************************************)
EXTENDS Loops, Sequences, SequencesExt

CONSTANTS
  LeafFanout,      \* LEAF_FANOUT: records of a leaf
  InternalFanout   \* INTERNAL_FANOUT: children of an internal node

ASSUME FanoutAssumption ==
  LeafFanout \in Nat \ {0} /\ InternalFanout \in Nat \ {0, 1}

CeilDiv(n, d) == (n + d - 1) \div d

-----------------------------------------------------------------------------
(***************************************************************************)
(* Wrapped<R>.                                                             *)
(***************************************************************************)

Key(rec) == rec[1]

\* Record::operator<
RecLess(a, b) == a[1] < b[1] \/ (a[1] = b[1] /\ a[2] < b[2])

\* What append stores.
Wrap(rec, tombstone, stamp) ==
  [rec |-> rec, tomb |-> tombstone, del |-> FALSE, stamp |-> stamp]

Header(w) == 4 * w.stamp + (IF w.del THEN 2 ELSE 0) + (IF w.tomb THEN 1 ELSE 0)

\* Wrapped::operator<
WrappedLess(a, b) ==
  RecLess(a.rec, b.rec) \/ (a.rec = b.rec /\ Header(a) < Header(b))

Tombstones(s) == Cardinality({i \in DOMAIN s : s[i].tomb})

\* What a sequence of wrapped records says of rec: its records that are not
\* tagged, less its tombstones.
Balance(s, rec) ==
  LET mine == {i \in DOMAIN s : s[i].rec = rec}
  IN Cardinality({i \in mine : ~s[i].tomb /\ ~s[i].del}) - Cardinality({i \in mine : s[i].tomb})

\* The ways to take one element of every set.
OneOfEach(sets) ==
  {f \in [DOMAIN sets -> UNION {sets[i] : i \in DOMAIN sets}] :
     \A i \in DOMAIN sets : f[i] \in sets[i]}

\* What sorting s may give: `less` may leave the order of some of them open.
Sorts(s, less(_, _)) ==
  {t \in {[i \in DOMAIN s |-> s[p[i]]] : p \in Bijection(DOMAIN s, DOMAIN s)} :
     \A i, j \in DOMAIN s : i < j => ~less(t[j], t[i])}

-----------------------------------------------------------------------------
(***************************************************************************)
(* Construction of a sorted array from a buffer view.                      *)
(***************************************************************************)

\* A record directly before a tombstone for it.
Cancels(a, b) == ~a.tomb /\ a.rec = b.rec /\ b.tomb

\* A round of the loop over the sorted copy: a pair is skipped, a tagged record too.
FilterRound(s, st) ==
  LET w == s[st.base]
  IN CASE st.base > Len(s) -> st
       [] st.base < Len(s) /\ Cancels(w, s[st.base + 1]) -> [st EXCEPT !.base = @ + 2]
       [] OTHER ->
            [base |-> st.base + 1,
             out |-> IF w.del THEN st.out ELSE Append(st.out, [w EXCEPT !.stamp = 0])]

FilterSorted(s) ==
  Iterate(LAMBDA st : FilterRound(s, st), Len(s), [base |-> 1, out |-> <<>>]).out

\* The arrays that the records of a view may become.
SortedArrayFromBufferview(view) == {FilterSorted(s) : s \in Sorts(view, WrappedLess)}

-----------------------------------------------------------------------------
(***************************************************************************)
(* The merge of sorted arrays.  A cursor is what is left of its array.     *)
(***************************************************************************)

\* psudb::PriorityQueue: the least record, the lower version among equals.
Before(c, i, j) ==
  WrappedLess(c[i][1], c[j][1]) \/ (~WrappedLess(c[j][1], c[i][1]) /\ i < j)

Peek(c, S) == CHOOSE i \in S : \A j \in S \ {i} : Before(c, i, j)

Active(c) == {i \in DOMAIN c : c[i] # <<>>}

Advance(c, i) == [k \in DOMAIN c |-> IF k = i THEN Tail(c[k]) ELSE c[k]]

\* A round: the first record of the queue is written unless it has the flag, or leaves
\* with the tombstone behind it.
MergeRound(st, flag) ==
  LET c == st.c
      i == Peek(c, Active(c))
      others == Active(c) \ {i}
      j == Peek(c, others)
  IN CASE Active(c) = {} -> st
       [] others # {} /\ Cancels(c[i][1], c[j][1]) ->
            [st EXCEPT !.c = Advance(Advance(c, i), j)]
       [] OTHER ->
            [c |-> Advance(c, i),
             out |-> IF c[i][1][flag] THEN st.out ELSE Append(st.out, c[i][1])]

Merged(cursors, flag) ==
  Iterate(LAMBDA st : MergeRound(st, flag),
          SumSeq([i \in DOMAIN cursors |-> Len(cursors[i])]),
          [c |-> cursors, out |-> <<>>]).out

\* Tagged records are skipped.
SortedArrayMerge(cursors) == Merged(cursors, "del")

-----------------------------------------------------------------------------
(***************************************************************************)
(* The search tree of the in-memory ISAMTree.  A node is a sequence of     *)
(* separator keys and children; a child of a node of the lowest level is   *)
(* the position of the first record of a leaf, another one is a node.      *)
(***************************************************************************)
NoChild == [key |-> 0, child |-> 0]

LowestNodes(s) ==
  [m \in 1..CeilDiv(CeilDiv(Len(s), LeafFanout), InternalFanout) |->
     [k \in 1..InternalFanout |->
        LET base == ((m - 1) * InternalFanout + k - 1) * LeafFanout + 1
            last == Min({base + LeafFanout - 1, Len(s)})
        IN IF base <= Len(s) THEN [key |-> Key(s[last].rec), child |-> base] ELSE NoChild]]

\* A level above nodes first..Len(nodes), unless this level has one node.  The key
\* of a child is its last one, which is zero in a node that is not full.
UpperNodes(st) ==
  LET nodes == st.nodes
      last == Len(nodes)
      node(m) == [k \in 1..InternalFanout |->
                    LET c == st.first + (m - 1) * InternalFanout + k - 1
                    IN IF c <= last
                       THEN [key |-> nodes[c][InternalFanout].key, child |-> c]
                       ELSE NoChild]
  IN IF st.first = last THEN st
     ELSE [nodes |-> nodes \o [m \in 1..CeilDiv(last - st.first + 1, InternalFanout) |-> node(m)],
           first |-> last + 1]

BuildInternalLevels(s) ==
  LET lowest == LowestNodes(s)
  IN Iterate(UpperNodes, Len(lowest), [nodes |-> lowest, first |-> 1]).nodes

\* The child a search enters: the first one that may hold the key, the last one
\* there is when the separators before it are none of those that stop the search.
NextChild(node, stops) ==
  LET ks == {k \in 1..(InternalFanout - 1) : node[k + 1].child = 0 \/ node[k].key \in stops}
  IN node[IF ks = {} THEN InternalFanout ELSE Min(ks)].child

\* From the root to the first record of a leaf; lowest is the number of nodes of
\* the lowest level.
SearchRound(nodes, lowest, st, stops) ==
  IF st.leaf THEN st
  ELSE [now |-> NextChild(nodes[st.now], stops), leaf |-> st.now <= lowest]

Leaf(s, stops) ==
  LET nodes == BuildInternalLevels(s)
      lowest == Len(LowestNodes(s))
  IN Iterate(LAMBDA st : SearchRound(nodes, lowest, st, stops), Len(nodes),
             [now |-> Len(nodes), leaf |-> FALSE]).now

\* The first position from the leaf on whose key ends the scan.
ScanFrom(s, stops) ==
  LET ps == {p \in Leaf(s, stops)..Len(s) : Key(s[p].rec) \in stops}
  IN IF ps = {} THEN Len(s) + 1 ELSE Min(ps)

\* The keys a search meets; 0 is that of a slot without a child.
KeysOf(s) == {0} \cup {Key(s[p].rec) : p \in DOMAIN s}

GetLowerBound(s, key) == ScanFrom(s, {k \in KeysOf(s) : key <= k})

GetUpperBound(s, key) == ScanFrom(s, {k \in KeysOf(s) : key < k})

\* The positions that point_lookup may return, 0 for none.  When every record from
\* the lower bound on is smaller, the comparison reads the slot after the last
\* record, which may hold anything.
PointLookup(s, rec) ==
  LET low == GetLowerBound(s, Key(rec))
      ps == {p \in low..Len(s) : ~RecLess(s[p].rec, rec)}
  IN IF low > Len(s) THEN {0}
     ELSE IF ps = {} THEN {0, Len(s) + 1}
     ELSE {IF s[Min(ps)].rec = rec THEN Min(ps) ELSE 0}
=============================================================================
