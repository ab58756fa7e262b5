--------------------------- MODULE MutableBuffer ---------------------------
(***************************************************************************)
(* The mutable buffer of the dynamic extension framework                   *)
(* (framework/structure/MutableBuffer.h and BufferView.h): a ring of Cap   *)
(* slots into which many threads append with a compare-exchange on the     *)
(* tail, from which queries read through reference-counted views, and      *)
(* whose head one flushing thread advances after a reconstruction.         *)
(*                                                                         *)
(* One action is one access to shared memory.  A load and the              *)
(* compare-exchange that follows it in a retry loop are one step: a failed *)
(* exchange changes nothing and goes back to the top of its loop, which is *)
(* the same as having started the iteration later.  The exception is the   *)
(* loop of try_advance_tail, whose body decides on what the failed         *)
(* exchange read, and which is kept in full.                               *)
(*                                                                         *)
(* Records are identified by the tail index their append claimed, so a     *)
(* slot tells which append wrote it.  A failed assertion ends the program: *)
(* no thread takes a step any more.                                        *)
(***************************************************************************)
EXTENDS Integers, FiniteSets

CONSTANTS
  Writers,      \* threads that call append
  Readers,      \* threads that hold buffer views (queries)
  Flusher,      \* the thread of the running reconstruction
  HWM,          \* m_hwm, the high watermark
  LWM,          \* m_lwm, the low watermark
  Cap,          \* m_cap, the slots of m_data (2 * HWM by default)
  Deletes,      \* the values of append's tombstone argument, a subset of BOOLEAN
  IntModulus,   \* 2^32 in the code: the width of append's `int32_t tail`
  SizeModulus,  \* 2^64 in the code: the width of size_t
  MaxTail       \* bound: no more appends claim a slot once the tail is here

ASSUME BufferAssumption ==
  /\ HWM \in Nat \ {0}
  /\ LWM \in 1..HWM
  /\ Cap \in Nat /\ Cap > HWM
  /\ Deletes \subseteq BOOLEAN
  /\ IntModulus \in Nat \ {0} /\ SizeModulus \in Nat \ {0}
  /\ MaxTail \in Nat
  /\ Flusher \notin Readers /\ IsFiniteSet(Readers)

Viewers == Readers \cup {Flusher}

None == -1

VARIABLES
  m_tail,      \* std::atomic<size_t>: one past the last index claimed
  m_head,      \* std::atomic<buffer_head>: the active head, [idx, refcnt]
  m_old_head,  \* std::atomic<buffer_head>: the head before the last advance
  m_data,      \* position |-> [rec, ts, vis]; rec = None in a fresh slot
  m_tscnt,     \* std::atomic<size_t>: tombstones appended
  wpc,         \* writer |-> where it is in internal_append and append
  old_value,   \* writer |-> the tail that get_record_count or try_advance_tail
               \*            has loaded; the claimed index after the latter
  wts,         \* writer |-> append's tombstone argument
  vpc,         \* viewer |-> where it is in get_head or release_head_reference
  target,      \* viewer |-> target_head; the view's m_head once acquired
  vtail,       \* viewer |-> the view's m_tail
  vtscnt,      \* viewer |-> the view's m_approx_ts_cnt
  pinned,      \* viewer |-> holds a job on the epoch whose head is target
  fpc,         \* where the reconstruction is; m_reconstruction_scheduled is
               \* set unless it is "idle"
  new_head,    \* reconstruction's new_head
  cur_hd,      \* advance_head's cur_hd
  cur_epoch,   \* buffer head of m_current_epoch, None while it is nullptr
  prev_epoch   \* buffer head of m_previous_epoch, None while it is nullptr

atomics == <<m_tail, m_head, m_old_head, m_data, m_tscnt>>
writerVars == <<wpc, old_value, wts>>
viewerVars == <<vpc, target, vtail, vtscnt, pinned>>
flushVars == <<fpc, new_head, cur_hd, cur_epoch, prev_epoch>>
vars == <<m_tail, m_head, m_old_head, m_data, m_tscnt, wpc, old_value, wts,
          vpc, target, vtail, vtscnt, pinned, fpc, new_head, cur_hd,
          cur_epoch, prev_epoch>>

Slot == [rec : {None} \cup 0..MaxTail, ts : BOOLEAN, vis : BOOLEAN]
BufferHead == [idx : Nat, refcnt : Nat]

\* Fault: the reference is added in both directions.
AddReferenceAlways(hd, n) == [idx |-> hd.idx, refcnt |-> hd.refcnt + 1]

\* Fault: the count says only that there is a view.
AddReferenceFlag(hd, n) == [idx |-> hd.idx, refcnt |-> IF n = 1 THEN 1 ELSE hd.refcnt + n]

\* the new_hd of a compare-exchange on a head: {cur_hd.head_idx, cur_hd.refcnt +- 1}
AddReference(hd, n) == [idx |-> hd.idx, refcnt |-> hd.refcnt + n]

(***************************************************************************)
(* The constructor: old_head starts at the high watermark with no          *)
(* references, a head no view can have yet.                                *)
(***************************************************************************)
Init ==
  /\ m_tail = 0
  /\ m_head = [idx |-> 0, refcnt |-> 0]
  /\ m_old_head = [idx |-> HWM, refcnt |-> 0]
  /\ m_data = [p \in 0..(Cap - 1) |-> [rec |-> None, ts |-> FALSE, vis |-> FALSE]]
  /\ m_tscnt = 0
  /\ wpc = [w \in Writers |-> "idle"]
  /\ old_value = [w \in Writers |-> 0]
  /\ wts = [w \in Writers |-> FALSE]
  /\ vpc = [v \in Viewers |-> "idle"]
  /\ target = [v \in Viewers |-> 0]
  /\ vtail = [v \in Viewers |-> 0]
  /\ vtscnt = [v \in Viewers |-> 0]
  /\ pinned = [v \in Viewers |-> FALSE]
  /\ fpc = "idle"
  /\ new_head = 0
  /\ cur_hd = [idx |-> 0, refcnt |-> 0]
  /\ cur_epoch = 0
  /\ prev_epoch = None

-----------------------------------------------------------------------------
(***************************************************************************)
(* internal_append before its append: is_at_low_watermark, and the flag    *)
(* that lets one insert start a reconstruction.                            *)
(***************************************************************************)

\* get_record_count, first load: m_tail.load()
CountLoadTail(w) ==
  /\ wpc[w] = "idle"
  /\ m_tail < MaxTail
  /\ old_value' = [old_value EXCEPT ![w] = m_tail]
  /\ wpc' = [wpc EXCEPT ![w] = "lwm"]
  /\ UNCHANGED wts /\ UNCHANGED atomics
  /\ UNCHANGED viewerVars /\ UNCHANGED flushVars

\* get_record_count, second load: the unsigned difference to m_head is huge when the
\* head has passed the tail that was read.
AtLowWatermark(w) ==
  old_value[w] < m_head.idx \/ old_value[w] - m_head.idx >= LWM

CheckLowWatermark(w) ==
  /\ wpc[w] = "lwm"
  /\ wpc' = [wpc EXCEPT ![w] = IF AtLowWatermark(w) THEN "schedule" ELSE "append"]
  /\ old_value' = [old_value EXCEPT ![w] = 0]
  /\ UNCHANGED wts /\ UNCHANGED atomics
  /\ UNCHANGED viewerVars /\ UNCHANGED flushVars

\* The reconstruction reads the buffer through the epoch it builds, which is a
\* clone of the current one and starts with the same head.
FlushBegin ==
  /\ fpc' = "flush"
  /\ target' = [target EXCEPT ![Flusher] = cur_epoch]
  /\ vpc' = [vpc EXCEPT ![Flusher] = "acquire"]
  /\ UNCHANGED <<vtail, vtscnt, pinned, new_head, cur_hd, cur_epoch, prev_epoch>>

\* if (m_reconstruction_scheduled.compare_exchange_strong(old, true)) schedule_reconstruction();
\* the count that led here may be outdated by now.
ScheduleFlush(w) ==
  /\ wpc[w] = "schedule"
  /\ wpc' = [wpc EXCEPT ![w] = "append"]
  /\ \/ fpc = "idle" /\ FlushBegin
     \/ fpc # "idle" /\ UNCHANGED viewerVars /\ UNCHANGED flushVars
  /\ UNCHANGED <<old_value, wts>> /\ UNCHANGED atomics

(***************************************************************************)
(* append and try_advance_tail.                                            *)
(***************************************************************************)

\* append returns, and its locals are gone.
AppendReturn(w) ==
  /\ wpc' = [wpc EXCEPT ![w] = "idle"]
  /\ old_value' = [old_value EXCEPT ![w] = 0]
  /\ wts' = [wts EXCEPT ![w] = FALSE]

AppendGoto(w, pc) ==
  /\ wpc' = [wpc EXCEPT ![w] = pc]
  /\ UNCHANGED <<old_value, wts>>

\* size_t old_value = m_tail.load();
AppendLoadTail(w) ==
  /\ wpc[w] = "append"
  /\ \E ts \in Deletes : wts' = [wts EXCEPT ![w] = ts]
  /\ old_value' = [old_value EXCEPT ![w] = m_tail]
  /\ wpc' = [wpc EXCEPT ![w] = "check"]
  /\ UNCHANGED atomics
  /\ UNCHANGED viewerVars /\ UNCHANGED flushVars

\* Fault: full only above the high watermark.
LooksFullLate(w) ==
  old_value[w] < m_head.idx \/ old_value[w] - m_head.idx > HWM

\* The unsigned difference old_value - head wraps around, to something far
\* above the watermark, when the head has passed the index that was read.
LooksFull(w) ==
  old_value[w] < m_head.idx \/ old_value[w] - m_head.idx >= HWM

\* if (old_value - m_head.load().head_idx >= m_hwm) return -1;
AppendCheckFull(w) ==
  /\ wpc[w] = "check"
  /\ \/ LooksFull(w) /\ AppendReturn(w)
     \/ ~LooksFull(w) /\ AppendGoto(w, "cas")
  /\ UNCHANGED atomics
  /\ UNCHANGED viewerVars /\ UNCHANGED flushVars

\* Fault: a plain store in place of the exchange.
AppendCasBlind(w) ==
  /\ wpc[w] = "cas"
  /\ old_value[w] < MaxTail
  /\ m_tail' = old_value[w] + 1
  /\ wpc' = [wpc EXCEPT ![w] = "write"]
  /\ UNCHANGED <<old_value, wts, m_head, m_old_head, m_data, m_tscnt>>
  /\ UNCHANGED viewerVars /\ UNCHANGED flushVars

\* int32_t tail: an index whose low half is all ones is compared equal to -1, and
\* append returns 0 with the index claimed.
ReadsAsFailure(i) == i % IntModulus = IntModulus - 1

\* m_tail.compare_exchange_strong(old_value, old_value + 1); a failed exchange
\* leaves the value it found in old_value.
AppendCas(w) ==
  /\ wpc[w] = "cas"
  /\ \/ /\ m_tail = old_value[w]
        /\ m_tail < MaxTail
        /\ m_tail' = m_tail + 1
        /\ IF ReadsAsFailure(m_tail) THEN AppendReturn(w) ELSE AppendGoto(w, "write")
     \/ /\ m_tail # old_value[w]
        /\ old_value' = [old_value EXCEPT ![w] = m_tail]
        /\ wpc' = [wpc EXCEPT ![w] = "retry"]
        /\ UNCHANGED <<m_tail, wts>>
  /\ UNCHANGED <<m_head, m_old_head, m_data, m_tscnt>>
  /\ UNCHANGED viewerVars /\ UNCHANGED flushVars

\* the body of the loop: if (m_tail.load() >= m_hwm) return -1;
RetryLooksFull(w) == m_tail >= HWM

AppendRetry(w) ==
  /\ wpc[w] = "retry"
  /\ \/ RetryLooksFull(w) /\ AppendReturn(w)
     \/ ~RetryLooksFull(w) /\ AppendGoto(w, "cas")
  /\ UNCHANGED atomics
  /\ UNCHANGED viewerVars /\ UNCHANGED flushVars

\* Fault: the position is taken modulo the high watermark.
PosInWindow(i) == i % HWM

\* append keeps the int64_t result in an int32_t and takes it modulo m_cap as a
\* size_t: an index with the sign bit set comes back sign-extended.
Pos(i) ==
  LET low == i % IntModulus
  IN IF low < IntModulus \div 2 THEN low % Cap
     ELSE (SizeModulus - (IntModulus - low)) % Cap

\* m_data[pos] = wrec, whose header holds at most the tombstone bit.  (The
\* write-ahead log is written just before: module Durability.)
AppendWrite(w) ==
  /\ wpc[w] = "write"
  /\ m_data' = [m_data EXCEPT ![Pos(old_value[w])] =
                  [rec |-> old_value[w], ts |-> wts[w], vis |-> FALSE]]
  /\ AppendGoto(w, IF wts[w] THEN "count" ELSE "visible")
  /\ UNCHANGED <<m_tail, m_head, m_old_head, m_tscnt>>
  /\ UNCHANGED viewerVars /\ UNCHANGED flushVars

\* if (tombstone) m_tscnt.fetch_add(1);
AppendCountTombstone(w) ==
  /\ wpc[w] = "count"
  /\ m_tscnt' = m_tscnt + 1
  /\ AppendGoto(w, "visible")
  /\ UNCHANGED <<m_tail, m_head, m_old_head, m_data>>
  /\ UNCHANGED viewerVars /\ UNCHANGED flushVars

\* m_data[pos].set_visible(); return 1;
AppendSetVisible(w) ==
  /\ wpc[w] = "visible"
  /\ LET slot == m_data[Pos(old_value[w])]
     IN m_data' = [m_data EXCEPT ![Pos(old_value[w])] =
                     [rec |-> slot.rec, ts |-> slot.ts, vis |-> TRUE]]
  /\ AppendReturn(w)
  /\ UNCHANGED <<m_tail, m_head, m_old_head, m_tscnt>>
  /\ UNCHANGED viewerVars /\ UNCHANGED flushVars

-----------------------------------------------------------------------------
(***************************************************************************)
(* Views.  A query pins an epoch (get_active_epoch), takes a view on that  *)
(* epoch's head, reads it, and gives both up: async_query ends the job     *)
(* before its view is destroyed, get_record_count after.                   *)
(***************************************************************************)

\* Fault: no fallback while the current epoch is nullptr.
ActiveEpochUnchecked == cur_epoch

\* get_active_epoch: the current epoch, or the previous one while a transition has
\* the current one set to nullptr (its own steps are in module EpochManager).
ActiveEpoch == IF cur_epoch # None THEN cur_epoch ELSE prev_epoch

PinEpoch(v) ==
  /\ v \in Readers
  /\ vpc[v] = "idle"
  /\ target' = [target EXCEPT ![v] = ActiveEpoch]
  /\ pinned' = [pinned EXCEPT ![v] = TRUE]
  /\ vpc' = [vpc EXCEPT ![v] = "acquire"]
  /\ UNCHANGED <<vtail, vtscnt>> /\ UNCHANGED atomics
  /\ UNCHANGED writerVars /\ UNCHANGED flushVars

\* get_head, the choice of the head: the old one first, then the active one;
\* a target that is neither is tried again.
AcquireChoose(v) ==
  /\ vpc[v] = "acquire"
  /\ \/ /\ m_old_head.idx = target[v]
        /\ vpc' = [vpc EXCEPT ![v] = "acquire_old"]
     \/ /\ m_old_head.idx # target[v]
        /\ m_head.idx = target[v]
        /\ vpc' = [vpc EXCEPT ![v] = "acquire_cur"]
  /\ UNCHANGED <<target, vtail, vtscnt, pinned>> /\ UNCHANGED atomics
  /\ UNCHANGED writerVars /\ UNCHANGED flushVars

\* The exchange expects the head it loaded with head_idx set to target_head, so
\* it fails when the head has moved since it was chosen.
AcquireOld(v) ==
  /\ vpc[v] = "acquire_old"
  /\ \/ /\ m_old_head.idx = target[v]
        /\ m_old_head' = AddReference(m_old_head, 1)
        /\ vpc' = [vpc EXCEPT ![v] = "load_tail"]
     \/ /\ m_old_head.idx # target[v]
        /\ vpc' = [vpc EXCEPT ![v] = "acquire"]
        /\ UNCHANGED m_old_head
  /\ UNCHANGED <<target, vtail, vtscnt, pinned, m_tail, m_head, m_data, m_tscnt>>
  /\ UNCHANGED writerVars /\ UNCHANGED flushVars

AcquireCur(v) ==
  /\ vpc[v] = "acquire_cur"
  /\ \/ /\ m_head.idx = target[v]
        /\ m_head' = AddReference(m_head, 1)
        /\ vpc' = [vpc EXCEPT ![v] = "load_tail"]
     \/ /\ m_head.idx # target[v]
        /\ vpc' = [vpc EXCEPT ![v] = "acquire"]
        /\ UNCHANGED m_head
  /\ UNCHANGED <<target, vtail, vtscnt, pinned, m_tail, m_old_head, m_data, m_tscnt>>
  /\ UNCHANGED writerVars /\ UNCHANGED flushVars

\* get_buffer_view: the arguments m_tail.load() and m_tscnt.load() of the view.
ViewLoadTail(v) ==
  /\ vpc[v] = "load_tail"
  /\ vtail' = [vtail EXCEPT ![v] = m_tail]
  /\ vpc' = [vpc EXCEPT ![v] = "load_tscnt"]
  /\ UNCHANGED <<target, vtscnt, pinned>> /\ UNCHANGED atomics
  /\ UNCHANGED writerVars /\ UNCHANGED flushVars

ViewLoadTscnt(v) ==
  /\ vpc[v] = "load_tscnt"
  /\ vtscnt' = [vtscnt EXCEPT ![v] = m_tscnt]
  /\ vpc' = [vpc EXCEPT ![v] = "holding"]
  /\ UNCHANGED <<target, vtail, pinned>> /\ UNCHANGED atomics
  /\ UNCHANGED writerVars /\ UNCHANGED flushVars

\* end_job of a query, before or after its view is released.
EndJob(v) ==
  /\ pinned[v]
  /\ pinned' = [pinned EXCEPT ![v] = FALSE]
  /\ \/ vpc[v] = "holding" /\ UNCHANGED <<vpc, target>>
     \/ /\ vpc[v] = "released"
        /\ vpc' = [vpc EXCEPT ![v] = "idle"]
        /\ target' = [target EXCEPT ![v] = 0]
  /\ UNCHANGED <<vtail, vtscnt>> /\ UNCHANGED atomics
  /\ UNCHANGED writerVars /\ UNCHANGED flushVars

\* ~BufferView.  The flusher's view has been copied by then.
ReleaseBegin(v) ==
  /\ vpc[v] = "holding"
  /\ v = Flusher => fpc = "copied"
  /\ vpc' = [vpc EXCEPT ![v] = "release"]
  /\ UNCHANGED <<target, vtail, vtscnt, pinned>> /\ UNCHANGED atomics
  /\ UNCHANGED writerVars /\ UNCHANGED flushVars

\* release_head_reference: which of the two heads is decremented is decided on
\* the index of the old head alone.
ReleaseChoose(v) ==
  /\ vpc[v] = "release"
  /\ vpc' = [vpc EXCEPT ![v] =
               IF m_old_head.idx = target[v] THEN "release_old" ELSE "release_cur"]
  /\ UNCHANGED <<target, vtail, vtscnt, pinned>> /\ UNCHANGED atomics
  /\ UNCHANGED writerVars /\ UNCHANGED flushVars

\* The view is gone, and its fields with it.
Released(v) ==
  /\ vpc' = [vpc EXCEPT ![v] = IF pinned[v] THEN "released" ELSE "idle"]
  /\ target' = [target EXCEPT ![v] = IF pinned[v] THEN @ ELSE 0]
  /\ vtail' = [vtail EXCEPT ![v] = 0]
  /\ vtscnt' = [vtscnt EXCEPT ![v] = 0]

ReleaseOld(v) ==
  /\ vpc[v] = "release_old"
  /\ \/ /\ m_old_head.refcnt = 0
        /\ vpc' = [vpc EXCEPT ![v] = "release"]
        /\ UNCHANGED <<target, vtail, vtscnt, m_old_head>>
     \/ /\ m_old_head.refcnt > 0
        /\ m_old_head' = AddReference(m_old_head, -1)
        /\ Released(v)
  /\ UNCHANGED <<pinned, m_tail, m_head, m_data, m_tscnt>>
  /\ UNCHANGED writerVars /\ UNCHANGED flushVars

ReleaseCur(v) ==
  /\ vpc[v] = "release_cur"
  /\ \/ /\ m_head.refcnt = 0
        /\ vpc' = [vpc EXCEPT ![v] = "release"]
        /\ UNCHANGED <<target, vtail, vtscnt, m_head>>
     \/ /\ m_head.refcnt > 0
        /\ m_head' = AddReference(m_head, -1)
        /\ Released(v)
  /\ UNCHANGED <<pinned, m_tail, m_old_head, m_data, m_tscnt>>
  /\ UNCHANGED writerVars /\ UNCHANGED flushVars

-----------------------------------------------------------------------------
(***************************************************************************)
(* The flush: the reconstruction copies its view into a shard, drops it,   *)
(* waits for the jobs of the previous epoch, and advances the head.        *)
(***************************************************************************)

\* flush_buffer: every record of the view goes into the new shard.
FlushCopy ==
  /\ fpc = "flush"
  /\ vpc[Flusher] = "holding"
  /\ new_head' = vtail[Flusher]
  /\ fpc' = "copied"
  /\ UNCHANGED <<cur_hd, cur_epoch, prev_epoch>> /\ UNCHANGED atomics
  /\ UNCHANGED writerVars /\ UNCHANGED viewerVars

\* advance_epoch: retire_epoch waits until no job is left on the previous
\* epoch; the current one then becomes the previous one.
RetireEpoch ==
  /\ fpc = "copied"
  /\ vpc[Flusher] = "idle"
  /\ \A v \in Readers : pinned[v] => target[v] # prev_epoch
  /\ prev_epoch' = cur_epoch
  /\ cur_epoch' = None
  /\ fpc' = "advance"
  /\ UNCHANGED <<new_head, cur_hd>> /\ UNCHANGED atomics
  /\ UNCHANGED writerVars /\ UNCHANGED viewerVars

\* Fault: one reference is not enough to refuse.
MayAdvanceEarly == m_old_head.refcnt <= 1

\* Fault: the active head is looked at instead of the old one.
MayAdvanceWrongHead == m_head.refcnt = 0

\* advance_head refuses while the old head has references; advance_epoch calls
\* it again until it succeeds.
MayAdvance == m_old_head.refcnt = 0

\* assert(new_head > m_head.load().head_idx); assert(new_head <= m_tail.load());
AdvanceAssertion == m_head.idx < new_head /\ new_head <= m_tail

AdvanceCheck ==
  /\ fpc = "advance"
  /\ \/ AdvanceAssertion /\ MayAdvance /\ fpc' = "exchange"
     \/ ~AdvanceAssertion /\ fpc' = "aborted"
  /\ UNCHANGED <<new_head, cur_hd, cur_epoch, prev_epoch>>
  /\ UNCHANGED atomics /\ UNCHANGED writerVars /\ UNCHANGED viewerVars

\* replace the current head with the new one
AdvanceExchange ==
  /\ fpc = "exchange"
  /\ cur_hd' = m_head
  /\ m_head' = [idx |-> new_head, refcnt |-> 0]
  /\ fpc' = "store"
  /\ UNCHANGED <<new_head, cur_epoch, prev_epoch>>
  /\ UNCHANGED <<m_tail, m_old_head, m_data, m_tscnt>>
  /\ UNCHANGED writerVars /\ UNCHANGED viewerVars

\* move the current head into the old head
AdvanceStoreOld ==
  /\ fpc = "store"
  /\ m_old_head' = cur_hd
  /\ cur_hd' = [idx |-> 0, refcnt |-> 0]
  /\ fpc' = "install"
  /\ UNCHANGED <<new_head, cur_epoch, prev_epoch>>
  /\ UNCHANGED <<m_tail, m_head, m_data, m_tscnt>>
  /\ UNCHANGED writerVars /\ UNCHANGED viewerVars

\* m_current_epoch.store(m_next_epoch), and the end of the reconstruction, which
\* clears the flag.
InstallEpoch ==
  /\ fpc = "install"
  /\ cur_epoch' = new_head
  /\ fpc' = "idle"
  /\ new_head' = 0
  /\ UNCHANGED <<cur_hd, prev_epoch>> /\ UNCHANGED atomics
  /\ UNCHANGED writerVars /\ UNCHANGED viewerVars

-----------------------------------------------------------------------------
Append(w) ==
  \/ CountLoadTail(w) \/ CheckLowWatermark(w)
  \/ AppendLoadTail(w) \/ AppendCheckFull(w) \/ AppendCas(w) \/ AppendRetry(w)
  \/ AppendWrite(w) \/ AppendCountTombstone(w) \/ AppendSetVisible(w)

View(v) ==
  \/ PinEpoch(v) \/ AcquireChoose(v) \/ AcquireOld(v) \/ AcquireCur(v)
  \/ ViewLoadTail(v) \/ ViewLoadTscnt(v) \/ EndJob(v)
  \/ ReleaseBegin(v) \/ ReleaseChoose(v) \/ ReleaseOld(v) \/ ReleaseCur(v)

Flush ==
  \/ FlushCopy \/ RetireEpoch \/ AdvanceCheck
  \/ AdvanceExchange \/ AdvanceStoreOld \/ InstallEpoch

Running == fpc # "aborted"

\* The program has ended.
Aborted == ~Running /\ UNCHANGED vars

Next ==
  \/ Running /\ \E w \in Writers : Append(w) \/ ScheduleFlush(w)
  \/ Running /\ \E v \in Viewers : View(v)
  \/ Flush
  \/ Aborted

Spec == Init /\ [][Next]_vars

(***************************************************************************)
(* Every thread that is inside an operation keeps running, a query ends,   *)
(* and the reconstruction goes on; nobody is obliged to start a new append *)
(* or a new query.                                                         *)
(***************************************************************************)
ViewStep(v) == Running /\ View(v) /\ ~PinEpoch(v)

Fairness ==
  /\ \A v \in Viewers : WF_vars(ViewStep(v))
  /\ WF_vars(Flush)

FairSpec == Spec /\ Fairness
-----------------------------------------------------------------------------
(***************************************************************************)
(* Properties.                                                             *)
(***************************************************************************)

\* Viewers that own one reference on a head: from the exchange of get_head to
\* the exchange of release_head_reference.
Holding == {"load_tail", "load_tscnt", "holding", "release", "release_old", "release_cur"}
LiveViews == {v \in Viewers : vpc[v] \in Holding}
ViewsOn(h) == {v \in LiveViews : target[v] = h}

SharedType ==
  /\ m_tail \in Nat
  /\ m_tscnt \in Nat
  /\ m_head \in BufferHead
  /\ m_old_head \in BufferHead
  /\ m_data \in [0..(Cap - 1) -> Slot]

WriterType ==
  /\ wpc \in [Writers -> {"idle", "lwm", "schedule", "append", "check", "cas", "retry", "write", "count", "visible"}]
  /\ old_value \in [Writers -> Nat]
  /\ wts \in [Writers -> BOOLEAN]

ViewerType ==
  /\ vpc \in [Viewers -> Holding \cup
               {"idle", "acquire", "acquire_old", "acquire_cur", "released"}]
  /\ target \in [Viewers -> Nat]
  /\ vtail \in [Viewers -> Nat]
  /\ vtscnt \in [Viewers -> Nat]
  /\ pinned \in [Viewers -> BOOLEAN]

FlusherType ==
  /\ fpc \in {"idle", "flush", "copied", "advance", "exchange", "store", "install", "aborted"}
  /\ new_head \in Nat
  /\ cur_hd \in BufferHead
  /\ cur_epoch \in Nat \cup {None}
  /\ prev_epoch \in Nat \cup {None}

\* Every variable has the type the code declares for it; in particular a job never
\* gets a null epoch, and a view's head and tail are indices.
TypeOK == SharedType /\ WriterType /\ ViewerType /\ FlusherType

\* The buffer never holds more than the high watermark, whatever stale tail or
\* head a writer decided on: try_advance_tail checks one load of the tail
\* against one of the head, both outdated when the exchange happens.
Occupancy == m_head.idx <= m_tail /\ m_tail - m_head.idx <= HWM

\* Two appends never own the same index, and an index that is owned is below
\* the tail, so no two threads inside append write the same record.
UniqueClaims ==
  \A w \in Writers : wpc[w] \in {"write", "count", "visible"} =>
     /\ old_value[w] < m_tail
     /\ \A x \in Writers \ {w} :
          wpc[x] \in {"write", "count", "visible"} => old_value[x] # old_value[w]

\* References are never created or destroyed by the races between get_head,
\* release_head_reference and advance_head: the counts of the two heads (and
\* of the one advance_head carries between them) add up to the live views.
ReferencesConserved ==
  m_head.refcnt + m_old_head.refcnt + (IF fpc = "store" THEN cur_hd.refcnt ELSE 0)
    = Cardinality(LiveViews)

\* The old head counts at least the views that still read from it, so
\* advance_head, which waits for zero, never gives up a head in use.
OldHeadCovered ==
  fpc # "store" => Cardinality(ViewsOn(m_old_head.idx)) <= m_old_head.refcnt

\* A live view starts at one of the heads the buffer still knows.
ViewsProtected ==
  \A v \in LiveViews :
     target[v] \in {m_head.idx, m_old_head.idx} \cup (IF fpc = "store" THEN {cur_hd.idx} ELSE {})

\* No append writes over a slot that a live view can read: what a view finds at
\* index i is never a record of a later lap of the ring.
ViewNotOverwritten ==
  \A v \in LiveViews : vpc[v] \notin {"load_tail"} =>
     \A i \in target[v]..(vtail[v] - 1) : m_data[i % Cap].rec <= i

\* What a flush copies out of the buffer are the records of the indices that it
\* takes the head past.  A record that is not in its slot by then is in neither
\* the structure nor the buffer when its append returns 1.
FlushCopiesRecords ==
  fpc = "flush" /\ vpc[Flusher] = "holding" =>
     \A i \in target[Flusher]..(vtail[Flusher] - 1) : m_data[i % Cap].rec = i

\* advance_head gives up the old head only when no view reads from it any more,
\* although it stores over it two steps after it has looked at the count.
OldHeadReplacedUnused ==
  [][m_old_head'.idx # m_old_head.idx => ViewsOn(m_old_head.idx) = {}]_vars

\* A flush that has copied its records eventually advances the head, if no assertion
\* stops it: views are short-lived, and once they are gone nothing keeps the old head.
FlushCompletes == fpc = "copied" ~> fpc \in {"idle", "aborted"}

\* The buffer implements the window of module BufferWindow: appends take effect
\* when they claim an index, and flushes when they exchange the head.
Window == INSTANCE BufferWindow WITH head <- m_head.idx, tail <- m_tail

ImplementsWindow == Window!WindowSpec
=============================================================================
