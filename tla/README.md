# Verification of the dynamic extension framework

`dynamic-extension` turns a static, immutable search structure (a *shard*) into an
index that takes inserts and deletes.  New records go into a *mutable buffer*; when
the buffer reaches its low watermark a *reconstruction* merges levels of shards to
make room, flushes the buffer into level 0 and installs the result as a new *epoch*.
Queries run on a snapshot: a pinned epoch and a view of the buffer.  A *write-ahead
log* and a *checkpoint* file bring the index back after a restart.

This directory holds TLA+ models of that core and of the data path through it (shards,
merges, queries), TLC configurations that check them on
small instances, and TLAPS proofs about the buffer, the epochs, the structure, the
log with its checkpoint, the data path and the scheduler for every instance.
`PROJECT.json` lists the runs, the source lines every definition models, the hazards
and the theorems.

    tlc -workers 2 -config MCEpochs.cfg MCEpochManager     # one run
    tlapm ExtensionStructureProofs.tla                     # the proofs, one module each

All paths below are relative to `src/include/`.

## 1. Inventory

| Component | State | Operations | Talks to |
|---|---|---|---|
| Mutable buffer, `framework/structure/MutableBuffer.h` | ring `m_data`, atomic `m_tail`, two reference-counted heads, tombstone count | `append`, `get_buffer_view`, `advance_head`, release of a view | views, log, epochs |
| Buffer view, `BufferView.h` | head, tail, approximate tombstone count | read, copy, destructor releases the head | buffer |
| Index interface and epochs, `framework/DynamicExtension.h`, `scheduling/Epoch.h` | three atomic `(epoch, refcnt)` pointers, `m_reconstruction_scheduled`, a condition variable | `insert`, `erase`, `query`, `get_record_count`, `range_scan`, `await_next_epoch`; `create_new_epoch`, `advance_epoch`, `retire_epoch`, `end_job` | all |
| Extension structure and levels, `ExtensionStructure.h`, `InternalLevel.h` | levels of shards, a state vector beside them, a pending shard per level | planning, reconstruction for three layout policies, flush, copy | shards, checkpoint |
| Checkpoint, `Checkpoint.h` | a JSON file of the shards per level | save, load | structure |
| Write-ahead log, `WriteAheadLogger.h` | a file of entries and markers, a mutex | `append`, `flush_begin`, `flush_complete`, `build_buffer_from_log` | buffer |
| Schedulers, `scheduling/*.h` | task queue, thread pool, shutdown flag | `schedule_job`, `run`, `periodic_wakeup`, `shutdown`, destructor | index |
| Merge and cursors, `util/SortedMerge.h`, `util/Cursor.h` | none | k-way merge with cancellation | shards |
| Range scan, `RangeScanIterator.h` | a pinned epoch, cursors | `next`, destructor ends the job | epochs |
| Shards, `shard/*.h` | sorted arrays, trees, files of pages | build from a view, build from shards, reopen, search, iterate | merge, levels |
| Queries, `query/*.h` | none | per-shard query, buffer query and combination | epochs, shards |

What is hard here:

* **Lock-free counters.** `append`, `get_head`, `release_head_reference`, `end_job`
  and `advance_head` decide on one atomic load and act on a later one.
* **Snapshots across a transition.** A job pins an epoch while `advance_epoch` moves
  the epoch pointers and the buffer's head one after the other.
* **Hand-kept summaries.** Planning reads a state vector that every reconstruction
  updates beside the levels.
* **Cancellation in any order.** Heaps and sorts compare records without their headers,
  so a record and its tombstone, or several copies, meet in any order; counts are
  derived from the inputs and not from what was written.
* **Pages and rings.** Equal keys go over page boundaries, and the buffer's ring wraps.
* **Waiting without a predicate.** `FIFOScheduler::run` and `await_next_epoch` can miss
  a notification.
* **Two files.** The checkpoint and the log are written at different points of a
  flush, and the process may end between them.

What makes each part correct: the buffer never overfills, never gives an index to two
appends and never reuses a slot that a live view reads; job and view references are
neither created nor lost; a job's snapshot has every record up to its view's tail
exactly once; a reconstruction loses no record, drops no tombstone before what it
erases and keeps newer records above older ones; every copy of a record less its
tombstones is the same before and after a merge, and a scan delivers exactly that many;
a job that was scheduled is run once, in order, and shutdown ends; an acknowledged
insert survives a restart.

## 2. Modules

| Module | Models |
|---|---|
| `MutableBuffer` | `append`/`try_advance_tail`, the test of the low watermark that starts a flush, `get_head`, `release_head_reference`, `advance_head`, one action per access to shared memory; the reconstruction and its epochs as far as the buffer sees them |
| `BufferWindow` | what the buffer promises: a window of at most HWM indices over a log |
| `MutableBufferProofs`, `BufferViewProofs` | the theorems about `MutableBuffer`: its window, and the references of its views |
| `EpochManager` | the calls of `DynamicExtension`, pinning and ending jobs, creation, transition and retirement of epochs, the condition variable |
| `EpochManagerProofs` | the theorems about `EpochManager` |
| `ExtensionStructure` | planning, merging and flushing for TEIRING, LEVELING and BSM, tombstone cancellation, checkpoint save and load |
| `ExtensionStructureProofs` | the theorems about `ExtensionStructure` |
| `Durability` | the buffer's ring, log, checkpoint, flush and replay, with the process ending at any point |
| `DurabilityProofs` | the theorems about `Durability` |
| `SortedMerge` | wrapped records and their order, `sorted_array_from_bufferview`, `sorted_array_merge`, the search tree of the in-memory `ISAMTree` |
| `ExternalISAM` | the external `ISAMTree`: sorted runs, `external_merge_sort`, internal levels, header and reopening, search, iterator |
| `Queries` | `RangeScanIterator`, `pl::Query`, `rq::Query` and `rc::Query` over a view and a sequence of shards |
| `Index` | one index: the ring and its views, `insert`, both kinds of `erase`, flush and merges under tiering and leveling, restart, `create_static_structure`; composes the three modules above |
| `FIFOScheduler` | the queue, the threads of `run` and `periodic_wakeup`, the pool, `shutdown` and the destructor |
| `FIFOSchedulerProofs` | the theorems about `FIFOScheduler` |
| `IndexProofs` | the theorems about `Index` and the merges it is built from |
| `Loops` | sums and loops over data, as recursive functions |
| `InductionFacts` | induction over numbers, sequences, sums and loops as the proofs use it |
| `MC...` | instances for TLC: symmetry sets and bounds |

The modules are layered and not composed into one state space: `EpochManager` uses the
buffer as `BufferWindow` describes it (which `MutableBuffer` is shown to implement)
with the reference counts of its two heads, which a released view may take off the wrong
head as in the code, and an epoch's structure as a set of indices, which `RecordsKept` of
`ExtensionStructure` justifies.  `Durability` uses a shard as the bag
of its records, for the same reason; that shards behave as such bags is `BalanceKept`
of `Index`.  `ExtensionStructure` decides when levels are merged; `Index` lets any
merge that the layout policy allows happen at any time, one operation after the other.

**State and actions.** Variables have the names of the fields they model, program
counters name the next access of a thread.  In `MutableBuffer` and `EpochManager` a load
and the compare-exchange that retries on it are one step, because a failed exchange
changes nothing; the loop of `try_advance_tail`, whose body acts on the value that the
failed exchange read, is kept in full.  A record is the index its append claimed, so a
slot tells who wrote it.  `append`'s cut of the index to `int32_t` and the sign
extension are kept, with the two widths as constants.  A failed assertion ends the
behaviour (`aborted` in `EpochManager`, the place `"aborted"` of the flush in
`MutableBuffer`).  In `Durability` a flush copies the slots of the ring from the view's
head to its tail as they are: one that is claimed and not yet written gives what the lap
before left in it.  `appended` is a ghost, the records in the order of their indices,
from which `Slots` tells what a slot should have.  In `ExtensionStructure` records are
numbered by age and a shard is the set of its records; `victim` tells which record a
tombstone erases.

`SortedMerge`, `ExternalISAM` and `Queries` have no state: they are the algorithms as
operators, from which `Index` builds its actions and properties.  A loop of the code is a
round and the state it starts from; `Iterate` of `Loops` applies the round as often as the
longest execution needs, and a loop that has ended stays as it is.  Where
`std::sort` or `std::priority_queue` may order equal records in any way, the operator is
the set of all outcomes, and TLC follows each.  A shard is kept page by page with the
zeroes that `memset` leaves, so a search that reads beyond the last record reads what the
program reads.  `undefined` becomes true, and the behaviour ends, when the code would
read a record that is not there or would not return.  The reference definition for all
of it is `Live`, the copies less the tombstones of everything stored.

Restarts are possible under leveling only, in `ExtensionStructure` (except for the run
`structure_restart`), in `Index` and in `Durability` (constant `Leveling`).  Under tiering and
BSM a level that was loaded from a checkpoint has no free place, so that the next flush is
lost, and that is a question of its own.

A mode (`Modes` of `EpochManager` and `Index`) fixes the template parameters of an
instance, so that one run covers several of them.

Operators with a comment `Fault:` are wrong variants of the definition after them.
They are not used by any specification; each is a defect that one of the properties
must notice.

## 3. Runs

Passing runs:

| Run | Instance | Shows |
|---|---|---|
| `buffer_views` | 1 writer, 2 readers, flusher; HWM 2, LWM 1, Cap 4, 5 records | reference counts add up to the live views, protect them, and no slot of a live view is overwritten (the ring wraps) |
| `buffer_appends` | 3 writers that append tombstones, flusher; 5 records, `int32_t` cut to 2 bits | occupancy and unique claims under lost exchanges and stale loads, also when a claimed index reads as -1 and its append reports failure; refinement of `BufferWindow` |
| `epochs` | 2 clients; concurrent with HWM 2, LWM 1, 3 records, with insert, await and either query and scan or count; and serial with all five calls, HWM 3, LWM 2, 9 records | one reconstruction at a time, consistent snapshots, conserved job references, no pinned epoch freed, `get_head` always finds its head, waiting threads are woken unless the transition waits for an open scan or for a reference that was taken off the wrong head; with one thread a scheduled reconstruction ends, and only the assertion of `retire_epoch` can stop it, while a range scan is open |
| `structure` | three policies, HWM 2, scale factor 2, flushes of 1 or 2 records; 10, 11 and 20 records | no record lost or doubled, tombstones kept as long as needed, recency order, plans make room, state vector real in every field the policy reads, assertions of the merge |
| `durability` | leveling; 2 clients, both schedulers, HWM 3, LWM 2, a ring of 4, 5 records, 2 restarts | single-threaded: no acknowledged record is lost, and a restart costs at most one more copy of a record; with either scheduler a replay does not overfill the buffer |
| `index` | 2 records per page and 2 children per node, HWM 2, LWM 1, a ring of 3; four appends from empty, or two above nine loaded records; external and in-memory shards, tiering and leveling, tombstones and tags, restarts under leveling | merges keep every record's balance, files agree with their headers, searches find the first record at a key, scans are exact, range queries miss nothing, counts are bounded, lookups under leveling see the newest entry, static copies are exact, tags reach the buffer |
| `scheduler` | 2 pool threads, 3 jobs, shutdown at any point | jobs are run once and started in order, no lost notification keeps a job waiting, the destructor returns if `run` waits before the last notification |

Runs that exhibit a disagreement between the code and what its comments, assertions or
tests say (details under `findings`):

| Run | What happens |
|---|---|
| `buffer_refcnt_race` | a view released while the head advances decrements the wrong head; `advance_head` then refuses for ever |
| `buffer_unwritten_flush` | a flush copies a slot that is claimed and not written |
| `structure_restart` | under tiering a level loaded from a checkpoint has no free place, and the next flush is lost |
| `durability_log_gap` | the flush marker comes after the view: an insert in between leaves the log while it is still in the buffer |
| `index_point_lookup` | a lookup returns the oldest entry of the buffer for its key, also when the record's tombstone is in the buffer |

**Bounds.** LWM below HWM lets appends go on during a flush, and HWM 2 is the smallest
buffer in which a flush and an append are both partial.  Two transitions suffice for
epochs: the first makes a pinned epoch the previous one, the second retires it, and three records with LWM 1 allow both.  A count takes the steps of a scan that is closed at once, so beside scans it would add nothing but states.  Two clients also reach the reference that is taken
off the wrong head, one of the obstacles that `AwaitReturns` names; a job taken off the
wrong epoch would need a third (with two the assertion of `end_job` fails first), and
the property allows for it.  In the buffer runs capacity is `2 * HWM`, the default of
the constructor, and five records reuse a slot; in `durability` the ring is the smallest
that is larger than HWM, so that it wraps.  `IntModulus` 4 lets `buffer_appends` reach
an index that `append` takes for -1; the other runs stay below the width.  The
structure's bounds make every policy grow a third level; BSM, which branches least, gets
the most records.  Restarts need not be more than two: the second meets what the first
left in the log.  In `index` a ring of 3 wraps with the second flush, two records per
page make a flush of two fill a page and a merge need two, and nine records make a
search tree of three internal levels in which key 2 covers three pages; four appends are
enough for two copies and two tombstones of a record to meet in one merge.
`SizeModulus` stands for the width of `size_t`; a merge after a restart does wrap the
tombstone count.  In `scheduler` one thread more than a single worker is needed for jobs
to overtake each other, and three jobs make the queue outgrow the pool.  `MaxTail`
(`max_tail`), `MaxRecords`, `MaxCrashes`, `appends`, `MaxLevels` and `MaxTasks` are the
only bounds, and appear in guards only.

**What the `structure` run leaves out on purpose.** Tombstones are not combined with
BSM, and restarts are limited to leveling: in both of the excluded cases `RecordsKept`
is false.  `structure_restart` shows one; the other is described in section 5.

**Deadlock** is checked in `buffer_views`: unless an assertion has ended the
program, some thread can always take a step.  That does not mean that each can, as
`buffer_refcnt_race` shows.  Deadlock is switched off where behaviours end at a bound: an
append or a client that has used up its records, or an assertion that ended the program.

**Fairness.** `MutableBuffer!FairSpec` has weak fairness on each viewer and on the
flusher: queries are finite loops on threads of their own, and the reconstruction runs
in a pool thread until it returns.  `EpochManager!FairSpec` has weak fairness on a
client inside a call and on the reconstruction; nobody is obliged to make a call or to
close a scan.  `FlushCompletes` is refuted under the first; `ReconstructionFinishes` and
`AwaitReturns` are checked under the second.  `FIFOScheduler!FairSpec` has weak fairness
on the thread of `run`, on the periodic thread, on each pool thread and on a shutdown
that was begun: operating-system threads are scheduled, the locks are held for a few
steps, jobs return.  A wait is never assumed to end by itself (spurious wake-ups may
happen and need not), and nobody is obliged to shut the scheduler down.

## 4. Proofs

`MutableBufferProofs` proves, for any writers, finitely many readers, any watermarks with
`1 <= LWM <= HWM`, any capacity above HWM and any bound (`BufferAssumption`):

* `TypeCorrect`: `TypeOK` is an invariant;
* `OccupancyBounded`: the window has between 0 and HWM records;
* `ClaimsUnique`: no two appends own an index;
* `Refinement`: the buffer implements `BufferWindow`.

None of these is inductive alone.  `IInv` adds to them what a thread remembers:
`WriterKnows` (the tail that a writer read is not ahead of the tail, and between its
check and its exchange it is below the watermark of a head that only moves up),
`FlusherKnows` (after the assertions of `advance_head` the new head is above the old one
and at most the tail, and nobody else moves the head), `EpochThere` (a transition never
leaves both epoch pointers null, which `TypeOK` needs for the target of a query) and
`DataBound`.  `Occupancy` rests on `WriterKnows`: when the exchange succeeds, the tail
equals the value that was checked, and the head can only have moved up since.  The proof
has one lemma per thread kind for the types and one for the rest, with one step per
action.

`BufferViewProofs` goes on from there:

* `ReferencesAreConserved`: the two head counts add up to the views in use;
* `OldHeadIsCovered`: the old head counts at least the views that start there, although
  `release_head_reference` may give a reference back on the wrong head;
* `ViewsAreProtected`: every view starts at the active or the old head;
* `OldHeadReplacedOnlyUnused` (an action property): `advance_head` stores over the old
  head only when no view starts there;
* `ViewsAreNotOverwritten`: no append writes a slot that a view covers, under
  `RingLargeEnough` (`Cap >= 2 * HWM`, what the constructor allocates) and
  `PositionsExact` (indices have not reached the width at which slots go wrong, section 5).

`ViewInv` ties the two heads to the two epochs at each step of the transition
(`EpochHeads`), keeps them apart (`HeadsApart`), says which epoch a reader has pinned
(`PinsKnown`) and that what `advance_head` and `release_head_reference` have tested is
still true when they act on it (`AdvanceSafe`, `ReleaseChoice`).  The last two are the
heart of it: the test of the old head's count stays true because at that point neither
epoch has the old head, so no reader asks for it any more.

`EpochManagerProofs`, for any finite set of clients, any calls, both schedulers:
`TypeCorrect`, `ReconstructionsAreSerial` (`OneReconstruction`), `PinnedEpochsLive`
(`PinnedNotFreed`), `JobsAreConserved`, `PinnedHeadsAreKnown`, `SnapshotsAreExact`.
None of them needs the counts of the heads to be exact: that views are protected is a
matter of the buffer, and proved there.  The invariant says which pointers are null at
each step of a transition (`PointerPhases`), that epochs are used in the order of their
creation (`EpochOrder`), what head and structure each live epoch has (`EpochHeads`,
`EpochStructures`), what a client's place in the code says of its locals (`CallShape`),
and `JobsCovered`: the count of the previous epoch is at least the number of jobs on
it.  Equality would be false, since `end_job` may decrement the current epoch for a job
of the previous one; the inequality is kept, and it is all that `retire_epoch` needs.

`FIFOSchedulerProofs`, for any finite pool and any number of jobs: `TypeCorrect` (with the
assertion that `schedule_next` finds a job) and `JobsRunOnceInOrder`.  The invariant
describes the timestamps as four neighbouring intervals: started, lost with the pool, in
the pool's queue, in `m_task_queue`.

`ExtensionStructureProofs`, for any watermark, any scale factor of at least 2, any view
sizes and any number of records, under all three layout policies:

* `TypeCorrect`: levels are numbered without a gap, and no vector of shards overflows;
* `RecordsAreKept`: a record that was flushed and not erased is in exactly one shard;
* `ErasedRecordsStayErased`: a tombstone stays as long as its record;
* `LevelsOrderedByAge`: the tombstone ordering invariant;
* `PlansAlwaysHold`: every task of a plan finds what it needs, and the flush finds room;
* `StateIsAlwaysReal`: `m_current_state` agrees with the levels in the number of shards and
  records, in the capacity for records under leveling, and under tiering in the places for
  shards, against the length of the level's vector.  The last is what a load gets wrong.

Their hypothesis `Supported` leaves out what really fails: tombstones under BSM
(section 5) and restarts under tiering (run `structure_restart`) or BSM, where the same
load loses the next flush.  Restarts under leveling are in.  The properties depend on each
other, so there is one invariant.  `RecentAcross` and `RecentWithin` order levels and
shards; since nothing is in two levels, a merge may cancel pairs without touching other
levels.  `AllHeld` and `ErasersHeld` say what is stored in terms of `victim`.
`ChainPlan` and `FlatPlan` describe the tasks that are left: the next one has room in its
target because the search chose the first level with room or because the task before it
has just emptied it, and every source has a shard because a level without room cannot be
empty, which for leveling needs the bound of level 0 in `StateKnown` and
`CapacitiesDoGrow`.  `LevelNumbers` is what the assertion of the leveled merge needs when
levels move down with their old numbers, `CheckpointKnown` is what a restart needs.  The
lemmas before it say what `BuildShard`, the search for a target (through `LeastNat`, since a
`CHOOSE` of a minimum needs one to exist) and `Power` return.  `PowerDefined` shows by least
counterexamples that the recursive definition of the powers has a solution, because the
induction theorems of the library cannot be used and the prover knows nothing about `^`.

`DurabilityProofs`, for any clients, any number of records and restarts, any watermarks
with `1 <= LWM <= HWM` and any ring above HWM; under leveling with restarts anywhere, under
the other layouts up to the first end of the process:

* `DurabilityTypeCorrect`: `TypeOK`, so neither a flush nor a replay overfills the buffer,
  under both schedulers;
* `CopiesBounded`: `OneCopyPerCrash`, under `SerialScheduler`;
* `SerialNeverLoses`: `SerialDurable`, under `SerialScheduler`.

With threads neither of the last two holds.  A flush may copy a slot that is not written
yet, and so a second copy of the record of the lap before (run `buffer_unwritten_flush`), and
the log loses records (run `durability_log_gap`).

`OneCopyPerCrash` speaks of states outside a flush, and all the work is inside one.  `Inv`
keeps a budget for each record (`CopiesOf`): a place from which a copy may still be added to
a shard (the buffer behind the head or behind the view, the log behind `FLUSH_B`, what
`flush_complete` is writing back) is counted as a copy already, and only a restart raises
the budget.  `OnceEach` and `NotYetStored` make each place count once, and `OldMarker` says
that a `FLUSH_B` which the present flush did not write is left from an earlier run, which is
why replaying what is behind it is paid for.  `SerialInv` is what one thread adds: nothing is
logged behind a `FLUSH_B` (`SerialOrder`), the buffer is as long as the log, so a replay
never has to drop an entry (`SerialCount`), a logged record is in the buffer until the
checkpoint has it (`SerialHeld`), and the slots that a view covers have the records that were
appended there (`SerialRing`): an insert has written its slot before the next call begins,
and because the window is shorter than the ring no two of its indices share a slot
(`LapsApart`).  So what a flush copies is the window (`FlushedIsWindow`), and the log is cut
only when every record in it was saved.

`IndexProofs`, for every page size and fanout, every ring above the high watermark, any
number of levels, every mode (both shard kinds, both layouts, tombstones or tags) and any
number of appends that a `size_t` can count:

* `IndexTypeCorrect`: `TypeOK`; the pages of every shard hold as many wrapped records as its
  header says, through any sequence of flushes, merges, cancellations and restarts;
* `ShardsAreWellFormed`: the files of the shards hold sorted records on pages that agree with
  the header, and end with the root;
* `BalanceIsKept`: `BalanceKept`; no flush, no merge and, under leveling, no restart changes
  the copies less the tombstones of any record;
* `SearchesAreExact`: `SearchExact`; the search trees of both kinds of shards lead every key to
  the first record at or above it, in memory also to the first above it, and `point_lookup`
  in memory finds every record of the shard;
* `StaticIsExact`: `StaticExact`; the shard of `create_static_structure` says of every record
  what the index says;
* `TaggedEraseReaches`: `TaggedEraseEffective`; an erase with tags marks an entry of the record
  in the buffer when there is one to mark, also where the ring wraps.  It says nothing of
  records in shards, which such an erase does not reach in a file (section 5).

The invariant `IndexInv` has `RingInv` (the slots between head and tail hold records that
were appended, which the view relies on because the others hold zeroes or old records),
`AreLevels` (every shard is one whose pages and header agree) and `SizeInv` (everything
stored is no more than what was loaded and appended: a merge computes the record count of
its output from those of its inputs, less two for each pair, and the result is the number of
records written only as long as no sum wraps around `SizeModulus`).  What a sequence says of
a record, how many tombstones it has and how long it is are all instances of `Net(s, P, Q)`,
the entries in `P` less those in `Q`; so one proof per algorithm covers the balance and the
count of cancelled pairs.  `FilterKeeps`, `ArrayMergeKeeps` and `MergeLoopKeeps` are the loop
invariants: what was written plus what the cursors still have says what the inputs said.
They hold for every order in which equal records leave the heap, since a round cancels only
pairs whose signs add up to zero.  `RecordsOfPages` and `LevelsBehindPages` show that records
are found again on the pages they were written to and that internal nodes are only appended
behind them, `ChunksKeep` that the sorted runs of a view cover it.  `AllNet` adds up the
levels, and `LevelsChanged` reduces a step to the two levels that it changes.
`create_static_structure` gathers the levels from the last to the first, so `StaticIsExact`
also needs that a sum read backwards is the same (`SumReversed`).

That a file is sorted (`IsShard`) is a loop invariant of the external merge: what was
written is sorted and nothing that a cursor still has is less than any of it (`Ordered`,
`HeapRoundSorts`).  That its search tree leads every key to the right page (`Guided`) is
proved while the levels are written: the children of consecutive nodes are consecutive
pages, the nodes of a level begin and end with the level below (`Tree`), a node has its
children's last keys (`NodeEntry`), so the descent stays on the leftmost page of its
level whose last key is not below the searched one (`NextPageRight`, `DescendRight`); a
level is shorter than the one below until one page is left (`ChildCounts`), which is the
root.  With both, `LowerBoundExact` says that `get_lower_bound` of a file returns the
first record not below the key, and `LookupSound` that
what `point_lookup` returns is in the shard.  In memory a node begins with its first child,
and the key it has before a later child is that of the record before the child's first: so
the descent never enters a child behind the first record that ends the search
(`NextChildBelow`, `LeafBelow`), and the scan from the leaf's first record reaches it
(`ScanFromFirst`).  `SearchesAreExact` puts the two together.  The proof needed
two assumptions
to be stated that the runs had satisfied all along: `Cap` is a number, and the records
fit the width of `size_t`.

`InductionFacts` has the forms of induction the proofs use, with the property as the set
of the values that have it: `LeastNat`, `SeqByAppend`, `NatByStep` and `LoopInvariant`, all
by a least counterexample.  What the recursive definitions (`Inserts`, `Power`, `SumTo`,
`Iterate`) compute is proved with them, after showing that the table each one describes
exists (`TableExists`).

The invariants were checked by TLC on the instances of the runs before they were proved.
Assumptions on constants are in the modules that declare them: finite sets of readers,
clients and pool threads (counts of threads are numbers), the order of the watermarks,
sizes above zero.

Only model-checked:

* liveness (`ReconstructionFinishes`, `AwaitReturns`, `QueuedIsStarted`, `ShutdownEnds`),
  which the prover does not handle;
* of `Index`, the properties of whole queries: `ScanExact`, `LookupNewest` and
  `RangeAnswersComplete` follow one query through the local results of all shards, their
  merge and the counting of tombstones;

* the conjunct of `ShardsSound` about the proportion of tombstones of a level
  (`TombstoneBound`); the other conjunct, well-formed files, is `ShardsAreWellFormed`.

## 5. Observations without a run

The models reach most of these; the others were met while reading the code.

* The retry of `try_advance_tail` compares the absolute tail with the watermark
  (`MutableBuffer.h:285`), so after HWM inserts an append that loses one race fails
  with room in the buffer.
* A view can hold more tombstones than it reports (`MutableBuffer.h:92-97`).
* After `2^31` inserts writers and readers disagree on the slot of an index unless the
  capacity divides `2^32`; `ViewNotOverwritten` fails with `IntModulus = 8, HWM = 1, Cap
  = 3, MaxTail = 7` and holds there with `IntModulus = 64`.
* An insert that read the tail before a flush ended and the head after it, or that won the
  flag only after the flush, starts a second flush, which has nothing to copy, and the
  assertion of `advance_head` fails (`DynamicExtension.h:793`, `MutableBuffer.h:171`).
  `MutableBuffer` and `EpochManager` have both loads, and the runs `buffer_views`,
  `buffer_appends` and `epochs` reach the failure and end there.
* The append that claims index `2^32 - 1` reads it as -1 and reports failure; nobody writes
  the slot, and flushes copy what it had (`MutableBuffer.h:74`).
* `end_job` tests `m_previous_epoch` (`DynamicExtension.h:847`) and then decrements
  `m_current_epoch` without comparing it with its epoch; after a transition in between
  the new epoch has no reference, and `assert(old.refcnt > 0)` (line 879) fails.
* `await_next_epoch` tests `m_next_epoch` before it takes the lock and waits without a
  predicate: a wait that begins after the notification lasts until some later
  transition.  `AwaitReturns` covers the waits that begin before it.
* When `end_job` has taken a reference of the wrong epoch, `retire_epoch` spins as long
  as other queries overlap (from three clients on).  `AwaitReturns` names it as an obstacle.
* Under BSM, shards that cancellation empties fill level 0 while its record count is
  zero; the next flush parks its shard in `m_pending_shard` and nobody finalizes it.
* Under leveling a deeper target is tested against the record count of level 0
  (`ExtensionStructure.h:695`) and can be filled beyond its capacity; a level that is
  moved down keeps its old `m_level_no`, from which `ShardID`s are made.
* With threads, a slot that a flush copies before it is written gives the record of the lap
  before a second time, without any restart.
* With threads, ending the process between `flush_complete`'s truncation and its last
  rewrite loses acknowledged records.
* A tagged delete is not logged: nothing calls `MutableBuffer::delete_record`.

Shards and merges:

* Merging a shard that cancellation has emptied: the external merge pushes a record that
  is not there and its `remaining` wraps around; the in-memory one reads past the array.
  A search in an empty external shard never reaches a leaf and does not return.
* A shard opened from its file has tombstone count 0 (`ExternalISAMTree.h:196-200`), and
  a later merge wraps the count around.
* `ISAMTree::point_lookup` compares the slot behind the last record when every record
  from the lower bound on is smaller (`ISAMTree.h:118`).
* The external `get_upper_bound` reads page 0 for keys above the last one; the framework
  never calls it.
* Timestamps are slots and not positions (the `FIXME` at `MutableBuffer.h:85`): after a
  wrap an older copy sorts behind its tombstone.

Erase and queries:

* A tagged erase of a record in an external shard marks the copy in the caller's page
  and returns 1; the record stays.  Once a tagged copy is found first, a record that was
  inserted again cannot be erased.  `delete_record` on an empty view searches the whole
  ring (`BufferView.h:85`).
* A tombstone for an absent record cancels a later insert of it in scans.
* `pl::Query` asks the shards for value 0 only, and under tiering asks a level's shards
  oldest first (`InternalLevel.h:196`).
* `rq::Query::combine` merges the unsorted result of the buffer and cancels pairs only
  across sources: a record and its tombstone in the buffer leave the record in the result.
* `rc::Query` counts a tombstone as a record and subtracts it once, so the result is
  the number of stored records; it reads the first element of an empty result when a
  shard has nothing at or above the lower bound.
* `rq`, `rc` and `irs` declare `local_query` with two parameters and `async_query` passes
  three: only `pl::Query` and the range scan are built with the framework today.

FIFOScheduler:

* `run` tests the flag before `shutdown` stores it and may begin its wait after the last
  notification of both threads; the destructor then hangs in `join`.  `ShutdownEnds` covers
  the waits that begin earlier.
* Jobs still queued at shutdown, or pushed to the stopped pool, never set their results.
* `schedule_job` declares its job with a `std::byte` argument and `Task` with a
  `std::byte *`, so the framework does not compile with this scheduler as it stands.

## 6. Not modelled

* Shards other than the two ISAM trees: wrappers of third-party libraries (PGM, PLEX,
  FST, LOUDS), the alias sampling structure, and the VP tree over floating-point
  distances.  Their record arrays come from the modelled merge.
* `irs`, `wss` and `knn`: probabilistic, or over reals.
* `check_tombstone` and the Bloom filters (used by those queries only, or never built);
  `get_upper_bound` and `get_record_at` of the external tree, `get_next` of the cursors,
  `get_compaction_tasks`, `enforce_delete_invariant` and `prepare_reconstruction`, which
  nothing calls.
* The destructor of the index, `truncate`, memory accounting, latency statistics,
  failing system calls, file names and the removal of unlisted shard files.

## 7. Plan

1. Done: the buffer, epochs, the structure with its checkpoint, durability; the merge,
   both ISAM trees, the deterministic queries and the data path that uses them; the
   FIFO scheduler.
2. Done: the proofs of section 4, for every safety property of the buffer, the epochs,
   the structure, the log and the scheduler, and for the contents of the index.
3. An abstract index (a bag of records with insert, erase and snapshot query) that
   `EpochManager` with one epoch's structure implements.
