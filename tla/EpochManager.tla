---------------------------- MODULE EpochManager ----------------------------
(***************************************************************************)
(* The versioning of DynamicExtension (framework/DynamicExtension.h):      *)
(* client threads pin an epoch, read its structure and its part of the     *)
(* buffer, and end their job; an insert at the low watermark clones the    *)
(* current epoch and schedules a reconstruction; the reconstruction        *)
(* flushes the buffer into the clone and makes it the current epoch,       *)
(* retiring the one before the previous.                                   *)
(*                                                                         *)
(* The buffer is the window of module BufferWindow together with the       *)
(* reference counts of its two heads (the races inside append, get_head    *)
(* and advance_head are in module MutableBuffer), and the content of an    *)
(* epoch's structure is the set of indices flushed into it (its levels are *)
(* in module ExtensionStructure).  One action is one access to the shared  *)
(* epoch pointers or to the counts; as in MutableBuffer a load and the     *)
(* compare-exchange that depends on it are one step.  A failed assertion   *)
(* ends the program: `aborted` names the function whose assertion failed.  *)
(***************************************************************************)
EXTENDS Integers, FiniteSets

CONSTANTS
  Clients,   \* application threads
  Modes      \* schedulers, calls and watermarks to consider

(***************************************************************************)
(* A mode: serial for SerialScheduler, which runs a job inside the call    *)
(* that submits it; ops, the calls that clients make; the watermarks of    *)
(* the buffer; and the bound max_tail, the number of admitted records      *)
(* after which no insert starts.                                           *)
(***************************************************************************)

AllOps == {"insert", "query", "count", "scan", "await"}

ASSUME EpochAssumption ==
  /\ IsFiniteSet(Clients)
  /\ \A m \in Modes :
       /\ m.serial \in BOOLEAN /\ m.ops \subseteq AllOps /\ m.max_tail \in Nat
       /\ m.hwm \in Nat \ {0} /\ m.lwm \in 1..m.hwm

Null == -1
NoView == -1

VARIABLES
  mode,
  m_current_epoch,             \* std::atomic<epoch_ptr>: [epoch, refcnt]
  m_previous_epoch,
  m_next_epoch,
  m_epoch_cnt,
  m_reconstruction_scheduled,
  cv_waiters,                  \* threads blocked on m_epoch_cv
  buffer_head,                 \* epoch |-> m_buffer_head of the Epoch object
  structure,                   \* epoch |-> indices in its shards
  freed,                       \* deleted Epoch objects
  b_head, b_old, b_tail,       \* the buffer: active head, old head, tail
  b_refcnt, b_old_refcnt,      \* the reference counts of the two heads
  cpc, op,                     \* client |-> where it is, in which call
  ep,                          \* client |-> the epoch it obtained
  ltail,                       \* client |-> the tail is_at_low_watermark read
  vhead, vtail,                \* client |-> the buffer view it holds
  rpc, new_head,               \* the reconstruction: where it is, its new_head
  swapped,                     \* advance_epoch's cur, between its two stores
  aborted

pointers == <<m_current_epoch, m_previous_epoch, m_next_epoch>>
epochs == <<buffer_head, structure, freed, m_epoch_cnt>>
buffer == <<b_head, b_old, b_tail, b_refcnt, b_old_refcnt>>
clientVars == <<cpc, op, ep, ltail, vhead, vtail>>
reconVars == <<rpc, new_head, swapped>>
vars == <<mode, m_current_epoch, m_previous_epoch, m_next_epoch, m_epoch_cnt,
          m_reconstruction_scheduled, cv_waiters, buffer_head, structure, freed,
          b_head, b_old, b_tail, b_refcnt, b_old_refcnt, cpc, op, ep, ltail, vhead,
          vtail, rpc, new_head, swapped, aborted>>

Serial == mode.serial
Ops == mode.ops
HWM == mode.hwm
LWM == mode.lwm
MaxTail == mode.max_tail

EpochPtr(e, n) == [epoch |-> e, refcnt |-> n]

\* The Epoch objects made so far.
EpochIds == 0..m_epoch_cnt

\* The constructor, without a checkpoint or a log to load.
Init ==
  /\ mode \in Modes
  /\ m_current_epoch = EpochPtr(0, 0)
  /\ m_previous_epoch = EpochPtr(Null, 0)
  /\ m_next_epoch = EpochPtr(Null, 0)
  /\ m_epoch_cnt = 0
  /\ m_reconstruction_scheduled = FALSE
  /\ cv_waiters = {}
  /\ buffer_head = [e \in {0} |-> 0]
  /\ structure = [e \in {0} |-> {}]
  /\ freed = {}
  /\ b_head = 0 /\ b_old = HWM /\ b_tail = 0
  /\ b_refcnt = 0 /\ b_old_refcnt = 0
  /\ cpc = [c \in Clients |-> "idle"]
  /\ op = [c \in Clients |-> "insert"]
  /\ ep = [c \in Clients |-> Null]
  /\ ltail = [c \in Clients |-> 0]
  /\ vhead = [c \in Clients |-> NoView]
  /\ vtail = [c \in Clients |-> 0]
  /\ rpc = "idle"
  /\ new_head = 0
  /\ swapped = EpochPtr(Null, 0)
  /\ aborted = "no"

-----------------------------------------------------------------------------
(***************************************************************************)
(* Calls.                                                                  *)
(***************************************************************************)

Goto(c, pc) == cpc' = [cpc EXCEPT ![c] = pc]

\* At the end of a call op has its initial value again.
OpAt(c, pc) == op' = [op EXCEPT ![c] = IF pc = "idle" THEN "insert" ELSE @]

\* An open range scan is a pinned epoch between two calls of the client.
InCall(c) == cpc[c] \notin {"idle", "open"}

Running == aborted = "no"
Abort(where) == aborted' = where

\* A failed assert aborts; what the rest of the step does is not seen any more.
AssertThat(condition, where) == aborted' = IF condition THEN aborted ELSE where

\* With SerialScheduler there is one thread, and a call runs to its end.
MayCall == Serial => \A c \in Clients : ~InCall(c)

FirstStep(o) ==
  CASE o = "insert" -> "load_tail"
    [] o = "await"  -> "await"
    [] OTHER        -> "get_epoch"

Call(c) ==
  /\ Running /\ cpc[c] = "idle" /\ MayCall
  /\ \E o \in Ops :
       /\ o = "insert" => b_tail < MaxTail
       /\ op' = [op EXCEPT ![c] = o]
       /\ Goto(c, FirstStep(o))
  /\ UNCHANGED <<ep, ltail, vhead, vtail, m_reconstruction_scheduled, cv_waiters, aborted>>
  /\ UNCHANGED pointers /\ UNCHANGED epochs /\ UNCHANGED buffer /\ UNCHANGED reconVars

\* ~RangeScanIterator.
CloseScan(c) ==
  /\ Running /\ cpc[c] = "open" /\ MayCall
  /\ Goto(c, "end_job")
  /\ UNCHANGED <<op, ep, ltail, vhead, vtail, m_reconstruction_scheduled, cv_waiters, aborted>>
  /\ UNCHANGED pointers /\ UNCHANGED epochs /\ UNCHANGED buffer /\ UNCHANGED reconVars


-----------------------------------------------------------------------------
(***************************************************************************)
(* internal_append.                                                        *)
(***************************************************************************)

\* is_at_low_watermark reads the tail and then the head.
LoadTail(c) ==
  /\ Running /\ cpc[c] = "load_tail"
  /\ ltail' = [ltail EXCEPT ![c] = b_tail]
  /\ Goto(c, "check_lwm")
  /\ UNCHANGED <<op, ep, vhead, vtail, m_reconstruction_scheduled, cv_waiters, aborted>>
  /\ UNCHANGED pointers /\ UNCHANGED epochs /\ UNCHANGED buffer /\ UNCHANGED reconVars

\* The unsigned difference is huge when the head has passed the tail that was read.
AtLowWatermark(c) == ltail[c] < b_head \/ ltail[c] - b_head >= LWM

CheckLowWatermark(c) ==
  /\ Running /\ cpc[c] = "check_lwm"
  /\ Goto(c, IF AtLowWatermark(c) THEN "claim" ELSE "append")
  /\ ltail' = [ltail EXCEPT ![c] = 0]
  /\ UNCHANGED <<op, ep, vhead, vtail, m_reconstruction_scheduled, cv_waiters, aborted>>
  /\ UNCHANGED pointers /\ UNCHANGED epochs /\ UNCHANGED buffer /\ UNCHANGED reconVars

\* Fault: the result of the exchange is ignored.
AfterClaimAlways == "create"

\* if (compare_exchange_strong(...)) schedule_reconstruction()
AfterClaim == IF m_reconstruction_scheduled THEN "append" ELSE "create"

\* m_reconstruction_scheduled.compare_exchange_strong(old, true)
ClaimReconstruction(c) ==
  /\ Running /\ cpc[c] = "claim"
  /\ m_reconstruction_scheduled' = TRUE
  /\ Goto(c, AfterClaim)
  /\ UNCHANGED <<op, ep, ltail, vhead, vtail, cv_waiters, aborted>>
  /\ UNCHANGED pointers /\ UNCHANGED epochs /\ UNCHANGED buffer /\ UNCHANGED reconVars

\* create_new_epoch: assert(m_next_epoch.load().epoch == nullptr)
CreateNewEpoch(c) ==
  /\ Running /\ cpc[c] = "create"
  /\ AssertThat(m_next_epoch.epoch = Null, "create_new_epoch")
  /\ Goto(c, "get_epoch")
  /\ UNCHANGED <<op, ep, ltail, vhead, vtail, m_reconstruction_scheduled, cv_waiters>>
  /\ UNCHANGED pointers /\ UNCHANGED epochs /\ UNCHANGED buffer /\ UNCHANGED reconVars

\* m_next_epoch.store({current_epoch->clone(m_epoch_cnt), 0}): the clone has the
\* structure and the buffer head of the epoch it copies.
CloneEpoch(c) ==
  /\ Running /\ cpc[c] = "clone"
  /\ LET e == m_epoch_cnt + 1
     IN /\ m_epoch_cnt' = e
        /\ m_next_epoch' = EpochPtr(e, 0)
        /\ structure' = [x \in 0..e |-> structure[IF x = e THEN ep[c] ELSE x]]
        /\ buffer_head' = [x \in 0..e |-> buffer_head[IF x = e THEN ep[c] ELSE x]]
  /\ Goto(c, "end_job")
  /\ UNCHANGED <<op, ep, ltail, vhead, vtail, m_reconstruction_scheduled, cv_waiters, aborted>>
  /\ UNCHANGED <<m_current_epoch, m_previous_epoch, freed>>
  /\ UNCHANGED buffer /\ UNCHANGED reconVars

\* schedule_job(reconstruction, ...): queued for the scheduler's threads, or run
\* before schedule_job returns.
SubmitReconstruction(c) ==
  /\ Running /\ cpc[c] = "submit"
  /\ rpc' = "flush"
  /\ Goto(c, IF Serial THEN "serial" ELSE "append")
  /\ UNCHANGED <<op, ep, ltail, vhead, vtail, m_reconstruction_scheduled, cv_waiters, aborted, new_head, swapped>>
  /\ UNCHANGED pointers /\ UNCHANGED epochs /\ UNCHANGED buffer

SerialReturn(c) ==
  /\ Running /\ cpc[c] = "serial" /\ rpc = "idle"
  /\ Goto(c, "append")
  /\ UNCHANGED <<op, ep, ltail, vhead, vtail, m_reconstruction_scheduled, cv_waiters, aborted>>
  /\ UNCHANGED pointers /\ UNCHANGED epochs /\ UNCHANGED buffer /\ UNCHANGED reconVars

\* m_buffer->append: fails at the high watermark.
AppendRecord(c) ==
  /\ Running /\ cpc[c] = "append"
  /\ b_tail' = IF b_tail - b_head < HWM THEN b_tail + 1 ELSE b_tail
  /\ Goto(c, "idle")
  /\ UNCHANGED <<op, ep, ltail, vhead, vtail, m_reconstruction_scheduled, cv_waiters, aborted, b_head, b_old, b_refcnt, b_old_refcnt>>
  /\ UNCHANGED pointers /\ UNCHANGED epochs /\ UNCHANGED reconVars

-----------------------------------------------------------------------------
(***************************************************************************)
(* get_active_epoch and end_job.                                           *)
(***************************************************************************)

GetEpochChoose(c) ==
  /\ Running /\ cpc[c] = "get_epoch"
  /\ Goto(c, IF m_current_epoch.epoch = Null THEN "get_prev" ELSE "get_cur")
  /\ UNCHANGED <<op, ep, ltail, vhead, vtail, m_reconstruction_scheduled, cv_waiters, aborted>>
  /\ UNCHANGED pointers /\ UNCHANGED epochs /\ UNCHANGED buffer /\ UNCHANGED reconVars

AfterGetEpoch(c) == IF op[c] = "insert" THEN "clone" ELSE "view"

\* Fault: taking and ending a job are swapped.
AddJobSwapped(p, n) == EpochPtr(p.epoch, p.refcnt - n)

\* Fault: the exchange stores the pointer it read.
AddJobLost(p, n) == p

\* new_ptr of a compare-exchange on an epoch pointer
AddJob(p, n) == EpochPtr(p.epoch, p.refcnt + n)

GetPrevious(c) ==
  /\ Running /\ cpc[c] = "get_prev"
  /\ \/ /\ m_previous_epoch.epoch # Null
        /\ m_previous_epoch' = AddJob(m_previous_epoch, 1)
        /\ ep' = [ep EXCEPT ![c] = m_previous_epoch.epoch]
        /\ Goto(c, AfterGetEpoch(c))
     \/ /\ m_previous_epoch.epoch = Null
        /\ Goto(c, "get_epoch")
        /\ UNCHANGED <<m_previous_epoch, ep>>
  /\ UNCHANGED <<op, ltail, vhead, vtail, m_reconstruction_scheduled, cv_waiters, aborted>>
  /\ UNCHANGED <<m_current_epoch, m_next_epoch>>
  /\ UNCHANGED epochs /\ UNCHANGED buffer /\ UNCHANGED reconVars

GetCurrent(c) ==
  /\ Running /\ cpc[c] = "get_cur"
  /\ \/ /\ m_current_epoch.epoch # Null
        /\ m_current_epoch' = AddJob(m_current_epoch, 1)
        /\ ep' = [ep EXCEPT ![c] = m_current_epoch.epoch]
        /\ Goto(c, AfterGetEpoch(c))
     \/ /\ m_current_epoch.epoch = Null
        /\ Goto(c, "get_epoch")
        /\ UNCHANGED <<m_current_epoch, ep>>
  /\ UNCHANGED <<op, ltail, vhead, vtail, m_reconstruction_scheduled, cv_waiters, aborted>>
  /\ UNCHANGED <<m_previous_epoch, m_next_epoch>>
  /\ UNCHANGED epochs /\ UNCHANGED buffer /\ UNCHANGED reconVars

\* Which pointer end_job decrements is decided on the previous epoch alone.
EndJobChoose(c) ==
  /\ Running /\ cpc[c] = "end_job"
  /\ Goto(c, IF m_previous_epoch.epoch = ep[c] THEN "end_prev" ELSE "end_cur")
  /\ UNCHANGED <<op, ep, ltail, vhead, vtail, m_reconstruction_scheduled, cv_waiters, aborted>>
  /\ UNCHANGED pointers /\ UNCHANGED epochs /\ UNCHANGED buffer /\ UNCHANGED reconVars

\* async_query's view is destroyed after end_job.
AfterEndJob(c) ==
  CASE op[c] = "insert" -> "submit"
    [] op[c] = "query"  -> "drop"
    [] OTHER            -> "idle"

JobEnded(c) ==
  /\ Goto(c, AfterEndJob(c))
  /\ OpAt(c, AfterEndJob(c))
  /\ ep' = [ep EXCEPT ![c] = Null]

EndPrevious(c) ==
  /\ Running /\ cpc[c] = "end_prev"
  /\ \/ /\ m_previous_epoch.epoch = Null
        /\ Goto(c, "end_job")
        /\ UNCHANGED <<m_previous_epoch, op, ep, aborted>>
     \/ /\ m_previous_epoch.epoch # Null /\ m_previous_epoch.refcnt = 0
        /\ Abort("end_job")
        /\ UNCHANGED <<m_previous_epoch, op, ep, cpc>>
     \/ /\ m_previous_epoch.epoch # Null /\ m_previous_epoch.refcnt > 0
        /\ m_previous_epoch' = AddJob(m_previous_epoch, -1)
        /\ JobEnded(c)
        /\ UNCHANGED aborted
  /\ UNCHANGED <<ltail, vhead, vtail, m_reconstruction_scheduled, cv_waiters>>
  /\ UNCHANGED <<m_current_epoch, m_next_epoch>>
  /\ UNCHANGED epochs /\ UNCHANGED buffer /\ UNCHANGED reconVars

EndCurrent(c) ==
  /\ Running /\ cpc[c] = "end_cur"
  /\ \/ /\ m_current_epoch.epoch = Null
        /\ Goto(c, "end_job")
        /\ UNCHANGED <<m_current_epoch, op, ep, aborted>>
     \/ /\ m_current_epoch.epoch # Null /\ m_current_epoch.refcnt = 0
        /\ Abort("end_job")
        /\ UNCHANGED <<m_current_epoch, op, ep, cpc>>
     \/ /\ m_current_epoch.epoch # Null /\ m_current_epoch.refcnt > 0
        /\ m_current_epoch' = AddJob(m_current_epoch, -1)
        /\ JobEnded(c)
        /\ UNCHANGED aborted
  /\ UNCHANGED <<ltail, vhead, vtail, m_reconstruction_scheduled, cv_waiters>>
  /\ UNCHANGED <<m_previous_epoch, m_next_epoch>>
  /\ UNCHANGED epochs /\ UNCHANGED buffer /\ UNCHANGED reconVars

-----------------------------------------------------------------------------
(***************************************************************************)
(* Reading: a query, get_record_count, the constructor of a range scan.    *)
(***************************************************************************)

\* Fault: the view starts at the buffer's active head, whatever the epoch.
ViewHeadActive(c) == b_head

\* m_buffer_head of the epoch
ViewHead(c) == buffer_head[ep[c]]

\* The count that get_head and release_head_reference use for head h: the old head's
\* if it has that index.
CountOf(h) == IF b_old = h THEN b_old_refcnt ELSE b_refcnt

AddReference(h, n) ==
  /\ b_old_refcnt' = IF b_old = h THEN b_old_refcnt + n ELSE b_old_refcnt
  /\ b_refcnt' = IF b_old = h THEN b_refcnt ELSE b_refcnt + n
  /\ UNCHANGED <<b_head, b_old, b_tail>>

\* epoch->get_buffer(): spins until the epoch's head is one the buffer knows.
TakeView(c) ==
  /\ Running /\ cpc[c] = "view"
  /\ ViewHead(c) \in {b_head, b_old}
  /\ vhead' = [vhead EXCEPT ![c] = ViewHead(c)]
  /\ vtail' = [vtail EXCEPT ![c] = b_tail]
  /\ AddReference(ViewHead(c), 1)
  /\ Goto(c, IF op[c] = "query" THEN "end_job" ELSE "drop")
  /\ UNCHANGED <<op, ep, ltail, m_reconstruction_scheduled, cv_waiters, aborted>>
  /\ UNCHANGED pointers /\ UNCHANGED epochs /\ UNCHANGED reconVars

AfterDrop(c) ==
  CASE op[c] = "count" -> "end_job"
    [] op[c] = "scan"  -> "open"
    [] OTHER           -> "idle"

\* ~BufferView: release_head_reference decides on the old head's index alone ...
DropView(c) ==
  /\ Running /\ cpc[c] = "drop"
  /\ Goto(c, IF b_old = vhead[c] THEN "drop_old" ELSE "drop_cur")
  /\ UNCHANGED <<op, ep, ltail, vhead, vtail, m_reconstruction_scheduled, cv_waiters, aborted>>
  /\ UNCHANGED pointers /\ UNCHANGED epochs /\ UNCHANGED buffer /\ UNCHANGED reconVars

Dropped(c) ==
  /\ vhead' = [vhead EXCEPT ![c] = NoView]
  /\ vtail' = [vtail EXCEPT ![c] = 0]
  /\ Goto(c, AfterDrop(c))
  /\ OpAt(c, AfterDrop(c))

\* ... and takes a reference off the head that it chose, whichever head that is by
\* then, or starts again when it has none.
DropOld(c) ==
  /\ Running /\ cpc[c] = "drop_old"
  /\ \/ /\ b_old_refcnt = 0
        /\ Goto(c, "drop")
        /\ UNCHANGED <<op, vhead, vtail, b_old_refcnt>>
     \/ /\ b_old_refcnt > 0
        /\ b_old_refcnt' = b_old_refcnt - 1
        /\ Dropped(c)
  /\ UNCHANGED <<ep, ltail, m_reconstruction_scheduled, cv_waiters, aborted>>
  /\ UNCHANGED <<b_head, b_old, b_tail, b_refcnt>>
  /\ UNCHANGED pointers /\ UNCHANGED epochs /\ UNCHANGED reconVars

DropCurrent(c) ==
  /\ Running /\ cpc[c] = "drop_cur"
  /\ \/ /\ b_refcnt = 0
        /\ Goto(c, "drop")
        /\ UNCHANGED <<op, vhead, vtail, b_refcnt>>
     \/ /\ b_refcnt > 0
        /\ b_refcnt' = b_refcnt - 1
        /\ Dropped(c)
  /\ UNCHANGED <<ep, ltail, m_reconstruction_scheduled, cv_waiters, aborted>>
  /\ UNCHANGED <<b_head, b_old, b_tail, b_old_refcnt>>
  /\ UNCHANGED pointers /\ UNCHANGED epochs /\ UNCHANGED reconVars

-----------------------------------------------------------------------------
(***************************************************************************)
(* await_next_epoch: the pointer is tested without the lock, and the wait  *)
(* has no predicate.                                                       *)
(***************************************************************************)
AwaitCheck(c) ==
  /\ Running /\ cpc[c] = "await"
  /\ LET pc == IF m_next_epoch.epoch = Null THEN "idle" ELSE "await_wait"
     IN Goto(c, pc) /\ OpAt(c, pc)
  /\ UNCHANGED <<ep, ltail, vhead, vtail, m_reconstruction_scheduled, cv_waiters, aborted>>
  /\ UNCHANGED pointers /\ UNCHANGED epochs /\ UNCHANGED buffer /\ UNCHANGED reconVars

AwaitWait(c) ==
  /\ Running /\ cpc[c] = "await_wait"
  /\ cv_waiters' = cv_waiters \cup {c}
  /\ Goto(c, "await_blocked")
  /\ UNCHANGED <<op, ep, ltail, vhead, vtail, m_reconstruction_scheduled, aborted>>
  /\ UNCHANGED pointers /\ UNCHANGED epochs /\ UNCHANGED buffer /\ UNCHANGED reconVars

AwaitWake(c) ==
  /\ Running /\ cpc[c] = "await_blocked" /\ c \notin cv_waiters
  /\ Goto(c, "await")
  /\ UNCHANGED <<op, ep, ltail, vhead, vtail, m_reconstruction_scheduled, cv_waiters, aborted>>
  /\ UNCHANGED pointers /\ UNCHANGED epochs /\ UNCHANGED buffer /\ UNCHANGED reconVars

-----------------------------------------------------------------------------
(***************************************************************************)
(* reconstruction and advance_epoch.                                       *)
(***************************************************************************)

\* The buffer view of the new epoch is flushed into its structure.
ReconFlush ==
  /\ Running /\ rpc = "flush"
  /\ LET e == m_next_epoch.epoch
     IN /\ buffer_head[e] \in {b_head, b_old}
        /\ structure' = [structure EXCEPT ![e] = @ \cup buffer_head[e]..(b_tail - 1)]
        /\ AddReference(buffer_head[e], 1)
  /\ new_head' = b_tail
  /\ rpc' = "drop"
  /\ UNCHANGED <<swapped, m_reconstruction_scheduled, cv_waiters, aborted, buffer_head, freed, m_epoch_cnt>>
  /\ UNCHANGED pointers /\ UNCHANGED clientVars

\* ~BufferView of the flushed view, which waits for a reference to take when a query
\* has taken it already.  Only the reconstruction itself moves the heads.
ReconDrop ==
  /\ Running /\ rpc = "drop"
  /\ LET h == buffer_head[m_next_epoch.epoch]
     IN CountOf(h) > 0 /\ AddReference(h, -1)
  /\ rpc' = "retire"
  /\ UNCHANGED <<swapped, new_head, m_reconstruction_scheduled, cv_waiters, aborted>>
  /\ UNCHANGED pointers /\ UNCHANGED epochs /\ UNCHANGED clientVars

\* Fault: the jobs on the epoch are not waited for.
RetirableAlways == TRUE

\* No active job is left on the previous epoch.
Retirable == m_previous_epoch.refcnt = 0

\* retire_epoch(m_previous_epoch.load().epoch)
RetirePrevious ==
  /\ Running /\ rpc = "retire"
  /\ \/ /\ m_previous_epoch.epoch = Null
        /\ rpc' = "swap"
        /\ UNCHANGED <<m_previous_epoch, freed, aborted>>
     \/ /\ m_previous_epoch.epoch # Null /\ Retirable
        /\ m_previous_epoch' = EpochPtr(Null, 0)
        /\ freed' = freed \cup {m_previous_epoch.epoch}
        /\ rpc' = "swap"
        /\ UNCHANGED aborted
     \/ /\ m_previous_epoch.epoch # Null /\ ~Retirable /\ Serial
        /\ Abort("retire_epoch")
        /\ UNCHANGED <<m_previous_epoch, freed, rpc>>
  /\ UNCHANGED <<swapped, m_reconstruction_scheduled, cv_waiters, new_head, m_current_epoch, m_next_epoch>>
  /\ UNCHANGED <<buffer_head, structure, m_epoch_cnt>> /\ UNCHANGED buffer /\ UNCHANGED clientVars

\* m_current_epoch.compare_exchange_strong(cur, {nullptr, 0})
SwapCurrent ==
  /\ Running /\ rpc = "swap"
  /\ swapped' = m_current_epoch
  /\ m_current_epoch' = EpochPtr(Null, 0)
  /\ rpc' = "store_prev"
  /\ UNCHANGED <<m_reconstruction_scheduled, cv_waiters, new_head, m_previous_epoch, m_next_epoch, aborted>>
  /\ UNCHANGED epochs /\ UNCHANGED buffer /\ UNCHANGED clientVars

\* m_previous_epoch.store(cur)
StorePrevious ==
  /\ Running /\ rpc = "store_prev"
  /\ m_previous_epoch' = swapped
  /\ swapped' = EpochPtr(Null, 0)
  /\ rpc' = "transition"
  /\ UNCHANGED <<m_reconstruction_scheduled, cv_waiters, new_head, m_current_epoch, m_next_epoch, aborted>>
  /\ UNCHANGED epochs /\ UNCHANGED buffer /\ UNCHANGED clientVars

\* advance_buffer_head, called until it succeeds: the buffer gives up its old head when
\* no reference is left on it.  The exchange of the head and the store of the old one
\* are one step: a view released in between finds no reference on the new head, which
\* no epoch has yet, and starts again.
AdvanceBuffer ==
  /\ Running /\ rpc = "transition"
  /\ \/ /\ ~(b_head < new_head /\ new_head <= b_tail)
        /\ Abort("advance_head")
        /\ UNCHANGED <<b_head, b_old, b_refcnt, b_old_refcnt, buffer_head, rpc>>
     \/ /\ b_head < new_head /\ new_head <= b_tail
        /\ b_old_refcnt = 0
        /\ b_old' = b_head /\ b_old_refcnt' = b_refcnt
        /\ b_head' = new_head /\ b_refcnt' = 0
        /\ buffer_head' = [buffer_head EXCEPT ![m_next_epoch.epoch] = new_head]
        /\ rpc' = "install"
        /\ UNCHANGED aborted
  /\ UNCHANGED <<swapped, m_reconstruction_scheduled, cv_waiters, new_head, b_tail, structure, freed, m_epoch_cnt>>
  /\ UNCHANGED pointers /\ UNCHANGED clientVars

InstallNext ==
  /\ Running /\ rpc = "install"
  /\ m_current_epoch' = m_next_epoch
  /\ rpc' = "clear_next"
  /\ UNCHANGED <<swapped, m_reconstruction_scheduled, cv_waiters, new_head, m_previous_epoch, m_next_epoch, aborted>>
  /\ UNCHANGED epochs /\ UNCHANGED buffer /\ UNCHANGED clientVars

ClearNext ==
  /\ Running /\ rpc = "clear_next"
  /\ m_next_epoch' = EpochPtr(Null, 0)
  /\ rpc' = "notify"
  /\ UNCHANGED <<swapped, m_reconstruction_scheduled, cv_waiters, new_head, m_previous_epoch, m_current_epoch, aborted>>
  /\ UNCHANGED epochs /\ UNCHANGED buffer /\ UNCHANGED clientVars

\* Fault: the threads that wait are not notified.
NotifyNobody ==
  /\ Running /\ rpc = "notify"
  /\ rpc' = "finish"
  /\ UNCHANGED <<swapped, m_reconstruction_scheduled, cv_waiters, new_head, aborted>>
  /\ UNCHANGED pointers /\ UNCHANGED epochs /\ UNCHANGED buffer /\ UNCHANGED clientVars

\* m_epoch_cv.notify_all()
NotifyWaiters ==
  /\ Running /\ rpc = "notify"
  /\ cv_waiters' = {}
  /\ rpc' = "finish"
  /\ UNCHANGED <<swapped, m_reconstruction_scheduled, new_head, aborted>>
  /\ UNCHANGED pointers /\ UNCHANGED epochs /\ UNCHANGED buffer /\ UNCHANGED clientVars

\* Fault: the flag is left set.
FinishWithoutReset ==
  /\ Running /\ rpc = "finish"
  /\ rpc' = "idle"
  /\ new_head' = 0
  /\ UNCHANGED <<swapped, cv_waiters, aborted, m_reconstruction_scheduled>>
  /\ UNCHANGED pointers /\ UNCHANGED epochs /\ UNCHANGED buffer /\ UNCHANGED clientVars

\* m_reconstruction_scheduled.store(false)
FinishReconstruction ==
  /\ Running /\ rpc = "finish"
  /\ m_reconstruction_scheduled' = FALSE
  /\ rpc' = "idle"
  /\ new_head' = 0
  /\ UNCHANGED <<swapped, cv_waiters, aborted>>
  /\ UNCHANGED pointers /\ UNCHANGED epochs /\ UNCHANGED buffer /\ UNCHANGED clientVars

-----------------------------------------------------------------------------
ClientStep(c) ==
  /\ \/ LoadTail(c) \/ CheckLowWatermark(c) \/ ClaimReconstruction(c) \/ CreateNewEpoch(c)
     \/ CloneEpoch(c) \/ SubmitReconstruction(c) \/ SerialReturn(c) \/ AppendRecord(c)
     \/ GetEpochChoose(c) \/ GetPrevious(c) \/ GetCurrent(c)
     \/ EndJobChoose(c) \/ EndPrevious(c) \/ EndCurrent(c)
     \/ TakeView(c) \/ DropView(c) \/ DropOld(c) \/ DropCurrent(c)
     \/ AwaitCheck(c) \/ AwaitWait(c) \/ AwaitWake(c)
  /\ UNCHANGED mode

ReconStep ==
  /\ \/ ReconFlush \/ ReconDrop \/ RetirePrevious \/ SwapCurrent \/ StorePrevious
     \/ AdvanceBuffer \/ InstallNext \/ ClearNext \/ NotifyWaiters \/ FinishReconstruction
  /\ UNCHANGED mode

Next ==
  \/ \E c \in Clients : (Call(c) \/ CloseScan(c)) /\ UNCHANGED mode
  \/ \E c \in Clients : ClientStep(c)
  \/ ReconStep

Spec == Init /\ [][Next]_vars

(***************************************************************************)
(* A thread inside a call keeps running and the scheduler runs what it was *)
(* given; clients need not make further calls, or close a scan.            *)
(***************************************************************************)
FairSpec ==
  /\ Spec
  /\ \A c \in Clients : WF_vars(ClientStep(c))
  /\ WF_vars(ReconStep)

-----------------------------------------------------------------------------
(***************************************************************************)
(* Properties.                                                             *)
(***************************************************************************)

\* Clients that hold a job on an epoch, from get_active_epoch to end_job.
Pinned == {c \in Clients : ep[c] # Null}

\* Inserts between winning the flag and handing over to the reconstruction.
Scheduling ==
  {c \in Clients : op[c] = "insert" /\
     cpc[c] \in {"create", "get_epoch", "get_prev", "get_cur", "clone",
                "end_job", "end_prev", "end_cur", "submit"}}

Pointer == [epoch : EpochIds \cup {Null}, refcnt : Nat]

ClientPcs ==
  {"idle", "load_tail", "check_lwm", "claim", "create", "clone", "submit", "serial", "append",
   "get_epoch", "get_prev", "get_cur", "end_job", "end_prev", "end_cur", "view", "drop",
   "drop_old", "drop_cur", "open", "await", "await_wait", "await_blocked"}

ReconPcs ==
  {"idle", "flush", "drop", "retire", "swap", "store_prev", "transition", "install", "clear_next",
   "notify", "finish"}

SharedType ==
  /\ mode \in Modes
  /\ m_current_epoch \in Pointer /\ m_previous_epoch \in Pointer /\ m_next_epoch \in Pointer
  /\ m_epoch_cnt \in Nat
  /\ m_reconstruction_scheduled \in BOOLEAN
  /\ cv_waiters \subseteq Clients
  /\ buffer_head \in [EpochIds -> Nat]
  /\ structure \in [EpochIds -> SUBSET Nat]
  /\ freed \subseteq EpochIds
  /\ b_head \in Nat /\ b_old \in Nat /\ b_tail \in Nat
  /\ b_refcnt \in Nat /\ b_old_refcnt \in Nat
  /\ aborted \in {"no", "create_new_epoch", "end_job", "retire_epoch", "advance_head"}

LocalType ==
  /\ cpc \in [Clients -> ClientPcs] /\ op \in [Clients -> AllOps]
  /\ ep \in [Clients -> EpochIds \cup {Null}]
  /\ ltail \in [Clients -> Nat]
  /\ vhead \in [Clients -> Nat \cup {NoView}] /\ vtail \in [Clients -> Nat]
  /\ rpc \in ReconPcs /\ new_head \in Nat /\ swapped \in Pointer

\* Every variable has the type the code declares for it, and an epoch pointer, a job
\* or the set of deleted epochs names only epochs that were created.
TypeOK == SharedType /\ LocalType

\* At most one reconstruction exists, between the insert that wins the flag and
\* the end of the job, and the flag is set all along.  create_new_epoch relies on
\* it ("only one reconstruction will be able to trigger at a time").
OneReconstruction ==
  /\ Cardinality(Scheduling) + (IF rpc = "idle" THEN 0 ELSE 1) <= 1
  /\ Scheduling # {} \/ rpc # "idle" => m_reconstruction_scheduled
  /\ aborted # "create_new_epoch"

\* An epoch that a client has pinned is not deleted, whatever transitions happen
\* between its steps.
PinnedNotFreed == \A c \in Pinned : ep[c] \notin freed

\* Job references are neither created nor lost by the transitions.
JobsConserved ==
  m_current_epoch.refcnt + m_previous_epoch.refcnt + swapped.refcnt = Cardinality(Pinned)

\* get_buffer of a pinned epoch finds its head in the buffer, so the loop of
\* get_head ("will loop infinitely" for any other head) ends.
PinnedHeadKnown ==
  \A c \in Pinned : cpc[c] = "view" => buffer_head[ep[c]] \in {b_head, b_old}

\* What a job reads is a consistent snapshot: its epoch's structure and its view
\* of the buffer have no record in common and miss none up to the view's tail.
SnapshotExact ==
  \A c \in Pinned : vhead[c] # NoView =>
     LET view == vhead[c]..(vtail[c] - 1)
     IN /\ structure[ep[c]] \cap view = {}
        /\ structure[ep[c]] \cup view = 0..(vtail[c] - 1)

\* With one thread a reconstruction that was scheduled ends and clears the flag,
\* unless retire_epoch's assertion ends the program, which takes a range scan that is
\* open.  No other assertion can stop it.
ReconstructionFinishes ==
  Serial /\ m_reconstruction_scheduled ~>
    \/ ~m_reconstruction_scheduled
    \/ aborted = "retire_epoch" /\ \E c \in Clients : cpc[c] = "open"

\* The views that start at the old head, and the jobs on the previous epoch.
ViewsOnOld == {c \in Clients : vhead[c] = b_old}
JobsOnPrevious == {c \in Pinned : ep[c] = m_previous_epoch.epoch}

\* await_next_epoch returns once the transition is over, if it waits before the
\* notification, unless the program aborts or the transition waits for something that
\* need not happen: a range scan that stays open, a reference of the old head that was
\* taken off the active one (DropCurrent), or a job of the previous epoch that was
\* taken off the current one (EndCurrent; it takes a third client, for with two the
\* assertion of end_job fails instead).  A wait that begins after the notification
\* is not covered: the pointer was tested without the lock, and nobody notifies again.
AwaitReturns ==
  (cv_waiters # {} /\ rpc \notin {"idle", "finish"}) ~>
    \/ cv_waiters = {} \/ aborted # "no"
    \/ \E c \in Clients : cpc[c] = "open"
    \/ b_old_refcnt > Cardinality(ViewsOnOld)
    \/ m_previous_epoch.refcnt > Cardinality(JobsOnPrevious)
=============================================================================
