------------------------- MODULE EpochManagerProofs -------------------------
(***************************************************************************)
(* Proofs about EpochManager for any finite number of clients, any calls   *)
(* and any schedulers, watermarks and bounds.                              *)
(***************************************************************************)
EXTENDS EpochManager, FiniteSetTheorems, TLAPS

AfterClone == {"end_job", "end_prev", "end_cur", "submit"}

\* The epochs a client can have pinned: current, previous, or on its way from the
\* one to the other.
LiveEpochs ==
  {m_current_epoch.epoch, m_previous_epoch.epoch, swapped.epoch} \ {Null}

\* The next epoch exists and is not current yet.
Building ==
  \/ rpc \in {"flush", "drop", "retire", "swap", "store_prev", "transition", "install"}
  \/ \E c \in Scheduling : cpc[c] \in AfterClone

\* Where in a call a client has a job, and where it has a buffer view.
HoldsJob(c) ==
  \/ cpc[c] \in {"clone", "view", "end_job", "end_prev", "end_cur", "open"}
  \/ cpc[c] \in {"drop", "drop_old", "drop_cur"} /\ op[c] # "query"

HoldsView(c) ==
  \/ cpc[c] \in {"drop", "drop_old", "drop_cur"}
  \/ op[c] = "query" /\ cpc[c] \in {"end_job", "end_prev", "end_cur"}

\* What the position of a client in the code says about its call and its locals.
ShapeOf(c) ==
  /\ ep[c] # Null <=> HoldsJob(c)
  /\ vhead[c] # NoView => HoldsView(c)
  /\ cpc[c] \in {"load_tail", "check_lwm", "claim", "create", "clone", "submit", "serial",
                 "append"} => op[c] = "insert"
  /\ cpc[c] \in {"view", "drop", "drop_old", "drop_cur", "open"} => op[c] \in {"query", "count", "scan"}
  /\ cpc[c] \in {"get_epoch", "get_prev", "get_cur", "end_job", "end_prev", "end_cur"} =>
       op[c] # "await"

CallShape == \A c \in Clients : ShapeOf(c)

\* There is one reconstruction, with the flag set from the exchange that claims it to
\* its end; its insert finds the current epoch, and finds it unchanged.
OneAtATime ==
  /\ \A c, d \in Scheduling : c = d
  /\ rpc # "idle" => Scheduling = {}
  /\ Scheduling # {} \/ rpc # "idle" => m_reconstruction_scheduled
  /\ aborted # "create_new_epoch"
  /\ \A c \in Scheduling :
       /\ cpc[c] # "get_prev"
       /\ ep[c] # Null => ep[c] = m_current_epoch.epoch

\* Which of the epoch pointers are null, at each step of a transition.
PointerPhases ==
  /\ rpc \in {"store_prev", "transition", "install"} <=> m_current_epoch.epoch = Null
  /\ rpc = "store_prev" <=> swapped.epoch # Null
  /\ rpc \in {"swap", "store_prev"} => m_previous_epoch.epoch = Null
  /\ Building => m_next_epoch.epoch = m_epoch_cnt
  /\ ~Building /\ rpc # "clear_next" => m_next_epoch.epoch = Null
  /\ m_next_epoch.refcnt = 0
  /\ m_current_epoch.epoch = Null => m_current_epoch.refcnt = 0
  /\ m_previous_epoch.epoch = Null => m_previous_epoch.refcnt = 0
  /\ swapped.epoch = Null => swapped.refcnt = 0

\* Epochs are used in the order in which they were created.
EpochOrder ==
  /\ m_previous_epoch.epoch # Null /\ m_current_epoch.epoch # Null =>
       m_previous_epoch.epoch < m_current_epoch.epoch
  /\ \A f \in freed : \A e \in LiveEpochs : f < e
  /\ Building => /\ \A e \in LiveEpochs : e < m_epoch_cnt
                 /\ \A f \in freed : f < m_epoch_cnt

\* The buffer head of every epoch that can be pinned is one of the buffer's two.
EpochHeads ==
  /\ m_current_epoch.epoch # Null => buffer_head[m_current_epoch.epoch] = b_head
  /\ swapped.epoch # Null => buffer_head[swapped.epoch] = b_head
  /\ m_previous_epoch.epoch # Null =>
       buffer_head[m_previous_epoch.epoch] = IF rpc = "transition" THEN b_head ELSE b_old
  /\ Building => buffer_head[m_epoch_cnt] = b_head

\* An epoch's structure has what has left the buffer before its head; that of the next
\* epoch is ahead of its head between the flush and the advance.
EpochStructures ==
  /\ \A e \in LiveEpochs : structure[e] = 0..(buffer_head[e] - 1) /\ buffer_head[e] <= b_tail
  /\ Building =>
       structure[m_epoch_cnt] =
         0..((IF rpc \in {"drop", "retire", "swap", "store_prev", "transition"} THEN new_head ELSE b_head) - 1)
  /\ b_head <= b_tail

PinnedOn(e) == {c \in Pinned : ep[c] = e}

\* A job is on an epoch that is not retired: the previous epoch counts at least its
\* jobs, and a job that ends on the previous epoch is one of them.
JobsCovered ==
  /\ \A c \in Pinned : ep[c] \in LiveEpochs
  /\ \A c \in Clients : cpc[c] = "end_prev" => ep[c] = m_previous_epoch.epoch
  /\ m_previous_epoch.epoch # Null =>
       Cardinality(PinnedOn(m_previous_epoch.epoch)) <= m_previous_epoch.refcnt

\* A view that belongs to a job starts at the head of the job's epoch.
ViewsFit ==
  \A c \in Pinned : vhead[c] # NoView =>
    vhead[c] = buffer_head[ep[c]] /\ vhead[c] <= vtail[c]

IInv ==
  /\ TypeOK
  /\ CallShape
  /\ OneAtATime
  /\ PointerPhases
  /\ EpochOrder
  /\ EpochHeads
  /\ EpochStructures
  /\ JobsCovered
  /\ JobsConserved
  /\ ViewsFit

-----------------------------------------------------------------------------
\* Sets of clients are finite, so counting jobs gives natural numbers.
LEMMA ClientsFinite ==
  \A S \in SUBSET Clients : IsFiniteSet(S) /\ Cardinality(S) \in Nat
  BY EpochAssumption, FS_Subset, FS_CardinalityType

\* The initial state has one epoch, no job and an empty buffer.
LEMMA InitIInv == Init => IInv
  <1> SUFFICES ASSUME Init PROVE IInv
    OBVIOUS
  <1> USE EpochAssumption DEF Init, EpochPtr, Null, NoView
  <1>1. TypeOK
    <2>1. EpochIds = {0}
      BY DEF EpochIds
    <2>2. /\ m_current_epoch \in Pointer /\ m_previous_epoch \in Pointer
          /\ m_next_epoch \in Pointer /\ swapped \in Pointer
      BY <2>1 DEF Pointer
    <2>3. SharedType
      BY <2>1, <2>2 DEF SharedType, HWM
    <2>4. LocalType
      BY <2>1, <2>2 DEF LocalType, ClientPcs, ReconPcs, AllOps
    <2>5. QED
      BY <2>3, <2>4 DEF TypeOK
  <1>2. CallShape
    BY DEF CallShape, ShapeOf, HoldsJob, HoldsView
  <1>3. Scheduling = {} /\ ~Building /\ LiveEpochs = {0}
    BY DEF Scheduling, Building, LiveEpochs
  <1>4. Pinned = {}
    BY DEF Pinned
  <1>5. OneAtATime /\ PointerPhases /\ EpochOrder /\ EpochHeads /\ ViewsFit
    BY <1>3, <1>4 DEF OneAtATime, PointerPhases, EpochOrder, EpochHeads, ViewsFit
  <1>6. EpochStructures
    BY <1>3 DEF EpochStructures
  <1>7. JobsCovered
    BY <1>4 DEF JobsCovered
  <1>8. JobsConserved
    <2>1. Cardinality(Pinned) = 0
      BY <1>4, FS_EmptySet
    <2>2. QED
      BY <2>1 DEF JobsConserved
  <1>9. QED
    BY <1>1, <1>2, <1>5, <1>6, <1>7, <1>8 DEF IInv

-----------------------------------------------------------------------------
(***************************************************************************)
(* Types.                                                                  *)
(***************************************************************************)

\* A client that has a job has it on an epoch that was created.
LEMMA JobEpochType ==
  ASSUME TypeOK, CallShape, NEW c \in Clients, cpc[c] \in {"clone", "view"}
  PROVE  ep[c] \in EpochIds
  BY DEF TypeOK, LocalType, CallShape, ShapeOf, HoldsJob

\* Taking and ending a job keep the pointer a pointer.
LEMMA AddJobType ==
  ASSUME NEW p \in Pointer
  PROVE  AddJob(p, 1) \in Pointer /\ (p.refcnt > 0 => AddJob(p, -1) \in Pointer)
  BY DEF AddJob, EpochPtr, Pointer

\* The calls, and the steps of a client that touch nothing shared.
LEMMA LocalStepType ==
  ASSUME TypeOK, NEW c \in Clients, UNCHANGED mode,
         \/ Call(c) \/ CloseScan(c) \/ LoadTail(c) \/ CheckLowWatermark(c) \/ SerialReturn(c)
         \/ GetEpochChoose(c) \/ EndJobChoose(c) \/ DropView(c)
         \/ AwaitCheck(c) \/ AwaitWait(c) \/ AwaitWake(c)
  PROVE  TypeOK'
  <1> USE EpochAssumption DEF TypeOK
  <1>1. SharedType'
    BY DEF SharedType, Pointer, EpochIds, Call, CloseScan, LoadTail, CheckLowWatermark, SerialReturn,
           GetEpochChoose, EndJobChoose, DropView, AwaitCheck, AwaitWait, AwaitWake,
           pointers, epochs, buffer
  <1>2. UNCHANGED <<ep, rpc, new_head, swapped, m_epoch_cnt>>
    BY DEF Call, CloseScan, LoadTail, CheckLowWatermark, SerialReturn,
           GetEpochChoose, EndJobChoose, DropView, AwaitCheck, AwaitWait, AwaitWake,
           epochs, reconVars
  <1>3. ltail' \in [Clients -> Nat] /\ vhead' \in [Clients -> Nat \cup {NoView}]
          /\ vtail' \in [Clients -> Nat]
    BY DEF SharedType, LocalType, Call, CloseScan, LoadTail, CheckLowWatermark, SerialReturn,
           GetEpochChoose, EndJobChoose, DropView, AwaitCheck, AwaitWait, AwaitWake
  <1>4. op' \in [Clients -> AllOps]
    BY DEF LocalType, Call, CloseScan, LoadTail, CheckLowWatermark, SerialReturn,
           GetEpochChoose, EndJobChoose, DropView, AwaitCheck, OpAt, AwaitWait, AwaitWake,
           Ops, AllOps, SharedType
  <1>5. cpc' \in [Clients -> ClientPcs]
    BY DEF LocalType, Call, CloseScan, LoadTail, CheckLowWatermark, SerialReturn,
           GetEpochChoose, EndJobChoose, DropView, AwaitCheck, AwaitWait, AwaitWake,
           Goto, FirstStep, AfterDrop, ClientPcs
  <1>6. QED
    BY <1>1, <1>2, <1>3, <1>4, <1>5 DEF LocalType, Pointer, EpochIds

\* The other steps of a client, each with what it changes.
LEMMA ClientStepType ==
  ASSUME TypeOK, CallShape, NEW c \in Clients, ClientStep(c)
  PROVE  TypeOK'
  <1> USE EpochAssumption DEF TypeOK
  <1>1. CASE ClaimReconstruction(c) \/ CreateNewEpoch(c)
    BY <1>1 DEF ClientStep, ClaimReconstruction, CreateNewEpoch, AssertThat, Goto, AfterClaim, SharedType,
         LocalType, Pointer, EpochIds, ClientPcs, pointers, epochs, buffer, reconVars
  <1>2. CASE CloneEpoch(c)
    <2>1. /\ m_epoch_cnt' = m_epoch_cnt + 1 /\ m_epoch_cnt \in Nat
          /\ EpochIds' = 0..(m_epoch_cnt + 1) /\ EpochIds = 0..m_epoch_cnt /\ ep[c] \in EpochIds
      BY <1>2, JobEpochType DEF CloneEpoch, SharedType, EpochIds
    <2>2. buffer_head' \in [EpochIds' -> Nat] /\ structure' \in [EpochIds' -> SUBSET Nat]
      BY <1>2, <2>1 DEF CloneEpoch, SharedType
    <2>3. /\ m_next_epoch' \in Pointer' /\ m_current_epoch' \in Pointer'
          /\ m_previous_epoch' \in Pointer' /\ swapped' \in Pointer'
      BY <1>2, <2>1 DEF CloneEpoch, SharedType, LocalType, Pointer, EpochPtr, reconVars
    <2>4. freed' \subseteq EpochIds' /\ ep' \in [Clients -> EpochIds' \cup {Null}]
      BY <1>2, <2>1 DEF CloneEpoch, SharedType, LocalType
    <2>5. QED
      BY <1>2, <2>1, <2>2, <2>3, <2>4 DEF ClientStep, CloneEpoch, Goto, SharedType, LocalType,
           ClientPcs, buffer, reconVars
  <1>3. CASE SubmitReconstruction(c)
    BY <1>3 DEF ClientStep, SubmitReconstruction, Goto, SharedType, LocalType, Pointer, EpochIds,
         ClientPcs, ReconPcs, pointers, epochs, buffer
  <1>4. CASE AppendRecord(c)
    <2>1. /\ UNCHANGED <<mode, m_current_epoch, m_previous_epoch, m_next_epoch, buffer_head, structure,
                          freed, m_epoch_cnt, rpc, new_head, swapped, op, vhead, vtail,
                          m_reconstruction_scheduled, cv_waiters, aborted, b_head, b_old,
                          b_refcnt, b_old_refcnt>>
          /\ EpochIds' = EpochIds /\ Pointer' = Pointer
      BY <1>4 DEF ClientStep, AppendRecord, pointers, epochs, reconVars, Pointer, EpochIds
    <2>2. b_tail' \in Nat
      BY <1>4 DEF AppendRecord, SharedType
    <2>3. /\ cpc' \in [Clients -> ClientPcs] /\ ep' \in [Clients -> EpochIds \cup {Null}]
          /\ ltail' \in [Clients -> Nat]
      BY <1>4 DEF AppendRecord, Goto, LocalType, ClientPcs
    <2>4. SharedType'
      BY <2>1, <2>2 DEF SharedType
    <2>5. LocalType'
      BY <2>1, <2>3 DEF LocalType
    <2>6. QED
      BY <2>4, <2>5
  <1>5. CASE GetPrevious(c) \/ GetCurrent(c)
    <2>1. /\ m_previous_epoch' \in Pointer /\ m_current_epoch' \in Pointer
          /\ m_epoch_cnt' = m_epoch_cnt /\ Pointer' = Pointer /\ EpochIds' = EpochIds
      <3>1. m_previous_epoch' \in Pointer /\ m_current_epoch' \in Pointer
        BY <1>5, AddJobType DEF GetPrevious, GetCurrent, SharedType
      <3>2. m_epoch_cnt' = m_epoch_cnt
        BY <1>5 DEF GetPrevious, GetCurrent, epochs
      <3>3. QED
        BY <3>1, <3>2 DEF Pointer, EpochIds
    <2>2. SharedType'
      BY <1>5, <2>1 DEF ClientStep, GetPrevious, GetCurrent, SharedType, epochs, buffer
    <2>3. ep' \in [Clients -> EpochIds \cup {Null}]
      BY <1>5 DEF GetPrevious, GetCurrent, SharedType, LocalType, Pointer
    <2>4. cpc' \in [Clients -> ClientPcs]
      BY <1>5 DEF GetPrevious, GetCurrent, AfterGetEpoch, Goto, LocalType, ClientPcs
    <2>5. QED
      BY <1>5, <2>1, <2>2, <2>3, <2>4 DEF GetPrevious, GetCurrent, LocalType, reconVars
  <1>6. CASE EndPrevious(c) \/ EndCurrent(c)
    <2>1. /\ m_previous_epoch' \in Pointer /\ m_current_epoch' \in Pointer
          /\ m_epoch_cnt' = m_epoch_cnt /\ Pointer' = Pointer /\ EpochIds' = EpochIds
      <3>1. m_previous_epoch' \in Pointer /\ m_current_epoch' \in Pointer
        BY <1>6, AddJobType DEF EndPrevious, EndCurrent, SharedType
      <3>2. m_epoch_cnt' = m_epoch_cnt
        BY <1>6 DEF EndPrevious, EndCurrent, epochs
      <3>3. QED
        BY <3>1, <3>2 DEF Pointer, EpochIds
    <2>2. SharedType'
      BY <1>6, <2>1 DEF ClientStep, EndPrevious, EndCurrent, Abort, SharedType, epochs, buffer
    <2>3. ep' \in [Clients -> EpochIds \cup {Null}]
      BY <1>6 DEF EndPrevious, EndCurrent, JobEnded, LocalType
    <2>4. cpc' \in [Clients -> ClientPcs]
      BY <1>6 DEF EndPrevious, EndCurrent, JobEnded, OpAt, AfterEndJob, Goto, LocalType, ClientPcs
    <2>5. op' \in [Clients -> AllOps]
      BY <1>6 DEF EndPrevious, EndCurrent, JobEnded, OpAt, LocalType, AllOps
    <2>6. QED
      BY <1>6, <2>1, <2>2, <2>3, <2>4, <2>5 DEF EndPrevious, EndCurrent, LocalType, reconVars
  <1>7. CASE TakeView(c)
    <2>1. ViewHead(c) \in Nat
      BY <1>7, JobEpochType DEF TakeView, ViewHead, SharedType
    <2>2. b_refcnt' \in Nat /\ b_old_refcnt' \in Nat
      BY <1>7 DEF TakeView, AddReference, SharedType
    <2>3. UNCHANGED <<b_head, b_old, b_tail>>
      BY <1>7 DEF TakeView, AddReference
    <2>4. QED
      BY <1>7, <2>1, <2>2, <2>3 DEF ClientStep, TakeView, Goto, SharedType, LocalType, Pointer,
           EpochIds, ClientPcs, pointers, epochs, reconVars
  <1>8. CASE \/ LoadTail(c) \/ CheckLowWatermark(c) \/ SerialReturn(c) \/ GetEpochChoose(c)
             \/ EndJobChoose(c) \/ DropView(c) \/ AwaitCheck(c) \/ AwaitWait(c) \/ AwaitWake(c)
    BY <1>8, LocalStepType DEF ClientStep
  <1>9. CASE DropOld(c) \/ DropCurrent(c)
    <2>1. b_refcnt' \in Nat /\ b_old_refcnt' \in Nat
      BY <1>9 DEF DropOld, DropCurrent, SharedType
    <2>2. SharedType'
      BY <1>9, <2>1 DEF ClientStep, DropOld, DropCurrent, SharedType, Pointer, EpochIds, pointers, epochs
    <2>3. cpc' \in [Clients -> ClientPcs]
      BY <1>9 DEF DropOld, DropCurrent, Dropped, OpAt, AfterDrop, Goto, LocalType, ClientPcs
    <2>4. vhead' \in [Clients -> Nat \cup {NoView}] /\ vtail' \in [Clients -> Nat]
      BY <1>9 DEF DropOld, DropCurrent, Dropped, OpAt, LocalType
    <2>5. op' \in [Clients -> AllOps]
      BY <1>9 DEF DropOld, DropCurrent, Dropped, OpAt, LocalType, AllOps
    <2>6. QED
      BY <1>9, <2>2, <2>3, <2>4, <2>5 DEF DropOld, DropCurrent, LocalType, Pointer, EpochIds, epochs, reconVars
  <1>10. QED
    BY <1>1, <1>2, <1>3, <1>4, <1>5, <1>6, <1>7, <1>8, <1>9 DEF ClientStep

\* The steps of the reconstruction.
LEMMA ReconStepType ==
  ASSUME TypeOK, PointerPhases, ReconStep
  PROVE  TypeOK'
  <1> USE EpochAssumption DEF TypeOK
  <1>1. /\ UNCHANGED clientVars /\ UNCHANGED <<mode, m_epoch_cnt, b_tail>>
    BY DEF ReconStep, ReconFlush, ReconDrop, AddReference, RetirePrevious, SwapCurrent, StorePrevious, AdvanceBuffer,
           InstallNext, ClearNext, NotifyWaiters, FinishReconstruction, epochs, buffer
  <1>2. b_refcnt' \in Nat /\ b_old_refcnt' \in Nat
    BY DEF ReconStep, ReconFlush, ReconDrop, AddReference, CountOf, RetirePrevious, SwapCurrent, StorePrevious,
           AdvanceBuffer, InstallNext, ClearNext, NotifyWaiters, FinishReconstruction, buffer, SharedType
  <1>3. rpc \in {"flush", "transition"} => m_next_epoch.epoch \in EpochIds
    BY DEF PointerPhases, Building, SharedType, EpochIds
  <1>4. m_reconstruction_scheduled' \in BOOLEAN
    BY DEF ReconStep, ReconFlush, ReconDrop, AddReference, RetirePrevious, SwapCurrent, StorePrevious, AdvanceBuffer,
           InstallNext, ClearNext, NotifyWaiters, FinishReconstruction, SharedType
  <1>5. /\ rpc' \in ReconPcs /\ new_head' \in Nat /\ b_head' \in Nat /\ b_old' \in Nat
        /\ cv_waiters' \subseteq Clients
        /\ aborted' \in {"no", "create_new_epoch", "end_job", "retire_epoch", "advance_head"}
    BY DEF ReconStep, ReconFlush, ReconDrop, AddReference, RetirePrevious, SwapCurrent, StorePrevious, AdvanceBuffer,
           InstallNext, ClearNext, NotifyWaiters, FinishReconstruction, buffer, Abort,
           SharedType, LocalType, ReconPcs
  <1>6. EpochPtr(Null, 0) \in Pointer
    BY DEF EpochPtr, Pointer
  <1>7. m_previous_epoch.epoch # Null => m_previous_epoch.epoch \in EpochIds
    BY DEF SharedType, Pointer
  <1>8. /\ m_current_epoch' \in Pointer /\ m_previous_epoch' \in Pointer
        /\ m_next_epoch' \in Pointer /\ swapped' \in Pointer /\ freed' \subseteq EpochIds
    BY <1>6, <1>7 DEF ReconStep, ReconFlush, ReconDrop, AddReference, RetirePrevious, SwapCurrent, StorePrevious, AdvanceBuffer,
           InstallNext, ClearNext, NotifyWaiters, FinishReconstruction, pointers, epochs,
           SharedType, LocalType
  <1>9. buffer_head' \in [EpochIds -> Nat]
    BY <1>3 DEF ReconStep, ReconFlush, ReconDrop, AddReference, RetirePrevious, SwapCurrent, StorePrevious, AdvanceBuffer,
           InstallNext, ClearNext, NotifyWaiters, FinishReconstruction, epochs, SharedType, LocalType
  <1>10. structure' \in [EpochIds -> SUBSET Nat]
    <2>1. CASE ReconFlush
      <3> DEFINE e == m_next_epoch.epoch
      <3>1. e \in EpochIds /\ buffer_head[e] \in Nat /\ b_tail \in Nat
        BY <1>3, <2>1 DEF ReconFlush, SharedType
      <3>2. structure[e] \cup buffer_head[e]..(b_tail - 1) \in SUBSET Nat
        BY <3>1 DEF SharedType
      <3>3. structure' = [structure EXCEPT ![e] = structure[e] \cup buffer_head[e]..(b_tail - 1)]
        BY <2>1 DEF ReconFlush
      <3> HIDE DEF e
      <3>4. QED
        BY <3>1, <3>2, <3>3 DEF SharedType
    <2>2. CASE ~ReconFlush
      BY <2>2 DEF ReconStep, ReconDrop, RetirePrevious, SwapCurrent, StorePrevious, AdvanceBuffer,
           InstallNext, ClearNext, NotifyWaiters, FinishReconstruction, epochs, SharedType
    <2>3. QED
      BY <2>1, <2>2
  <1>11. Pointer' = Pointer /\ EpochIds' = EpochIds
    BY <1>1 DEF Pointer, EpochIds
  <1>12. QED
    BY <1>1, <1>5, <1>8, <1>9, <1>10, <1>11, <1>4, <1>2 DEF SharedType, LocalType, clientVars

-----------------------------------------------------------------------------
(***************************************************************************)
(* Calls.                                                                  *)
(***************************************************************************)

\* A step of a thread of the application: the start of a call, or a step inside one.
ClientMove(c) == ((Call(c) \/ CloseScan(c)) /\ UNCHANGED mode) \/ ClientStep(c)

\* What the step of one client leaves alone.
LEMMA ClientFrame ==
  ASSUME TypeOK, NEW c \in Clients, ClientMove(c)
  PROVE  /\ UNCHANGED <<mode, freed, b_head, b_old, new_head, swapped>>
         /\ \A d \in Clients \ {c} : /\ cpc'[d] = cpc[d] /\ op'[d] = op[d] /\ ep'[d] = ep[d]
                                     /\ vhead'[d] = vhead[d] /\ vtail'[d] = vtail[d]
  <1>1. UNCHANGED <<mode, freed, b_head, b_old, new_head, swapped>>
    BY DEF ClientMove, ClientStep, Call, CloseScan, LoadTail, CheckLowWatermark, ClaimReconstruction,
           CreateNewEpoch, CloneEpoch, SubmitReconstruction, SerialReturn, AppendRecord,
           GetEpochChoose, GetPrevious, GetCurrent, EndJobChoose, EndPrevious, EndCurrent,
           TakeView, AddReference, DropView, DropOld, DropCurrent, Dropped, OpAt, AwaitCheck, AwaitWait, AwaitWake, epochs, buffer, reconVars
  <1> USE DEF TypeOK, LocalType
  <1>2. ASSUME NEW d \in Clients \ {c}
        PROVE  cpc'[d] = cpc[d] /\ op'[d] = op[d]
    BY DEF ClientMove, ClientStep, Call, CloseScan, LoadTail, CheckLowWatermark, ClaimReconstruction,
           CreateNewEpoch, CloneEpoch, SubmitReconstruction, SerialReturn, AppendRecord,
           GetEpochChoose, GetPrevious, GetCurrent, EndJobChoose, EndPrevious, EndCurrent,
           TakeView, AddReference, DropView, DropOld, DropCurrent, Dropped, OpAt, AwaitCheck, AwaitWait, AwaitWake, Goto, JobEnded, OpAt
  <1>3. ASSUME NEW d \in Clients \ {c}
        PROVE  ep'[d] = ep[d]
    BY DEF ClientMove, ClientStep, Call, CloseScan, LoadTail, CheckLowWatermark, ClaimReconstruction,
           CreateNewEpoch, CloneEpoch, SubmitReconstruction, SerialReturn, AppendRecord,
           GetEpochChoose, GetPrevious, GetCurrent, EndJobChoose, EndPrevious, EndCurrent,
           TakeView, AddReference, DropView, DropOld, DropCurrent, Dropped, OpAt, AwaitCheck, AwaitWait, AwaitWake, JobEnded
  <1>4. ASSUME NEW d \in Clients \ {c}
        PROVE  vhead'[d] = vhead[d] /\ vtail'[d] = vtail[d]
    BY DEF ClientMove, ClientStep, Call, CloseScan, LoadTail, CheckLowWatermark, ClaimReconstruction,
           CreateNewEpoch, CloneEpoch, SubmitReconstruction, SerialReturn, AppendRecord,
           GetEpochChoose, GetPrevious, GetCurrent, EndJobChoose, EndPrevious, EndCurrent,
           TakeView, AddReference, DropView, DropOld, DropCurrent, Dropped, OpAt, AwaitCheck, AwaitWait, AwaitWake
  <1>5. QED
    BY <1>1, <1>2, <1>3, <1>4

\* Every step of a client leads to a place in the code that fits its call.
LEMMA ClientStepShape ==
  ASSUME TypeOK, CallShape, NEW c \in Clients, ClientMove(c)
  PROVE  CallShape'
  <1>1. \A d \in Clients \ {c} : ShapeOf(d)'
    BY ClientFrame DEF CallShape, ShapeOf, HoldsJob, HoldsView
  <1> SUFFICES ShapeOf(c)'
    BY <1>1 DEF CallShape
  <1> USE EpochAssumption DEF TypeOK, LocalType, CallShape, ShapeOf, HoldsJob, HoldsView, Goto, AllOps
  <1>2. CASE Call(c)
    BY <1>2 DEF Call, FirstStep
  <1>3. CASE CloseScan(c) \/ LoadTail(c) \/ CheckLowWatermark(c) \/ ClaimReconstruction(c)
    BY <1>3 DEF CloseScan, LoadTail, CheckLowWatermark, ClaimReconstruction, AfterClaim
  <1>4. CASE CreateNewEpoch(c) \/ CloneEpoch(c) \/ SubmitReconstruction(c) \/ SerialReturn(c)
    BY <1>4 DEF CreateNewEpoch, CloneEpoch, SubmitReconstruction, SerialReturn
  <1>5. CASE AppendRecord(c) \/ GetEpochChoose(c) \/ EndJobChoose(c)
    BY <1>5 DEF AppendRecord, GetEpochChoose, EndJobChoose
  <1>6. CASE GetPrevious(c) \/ GetCurrent(c)
    BY <1>6 DEF GetPrevious, GetCurrent, AfterGetEpoch
  <1>7. CASE EndPrevious(c) \/ EndCurrent(c)
    BY <1>7 DEF EndPrevious, EndCurrent, JobEnded, OpAt, AfterEndJob
  <1>8. CASE TakeView(c) \/ DropView(c) \/ DropOld(c) \/ DropCurrent(c)
    BY <1>8 DEF TakeView, AddReference, DropView, DropOld, DropCurrent, Dropped, OpAt, AfterDrop
  <1>9. CASE AwaitCheck(c) \/ AwaitWait(c) \/ AwaitWake(c)
    BY <1>9 DEF AwaitCheck, AwaitWait, AwaitWake
  <1>10. QED
    BY <1>2, <1>3, <1>4, <1>5, <1>6, <1>7, <1>8, <1>9 DEF ClientMove, ClientStep

-----------------------------------------------------------------------------
(***************************************************************************)
(* One reconstruction at a time.                                           *)
(***************************************************************************)

\* The steps of a client change which epoch a pointer names only in CloneEpoch, for
\* the next epoch; the phase of the reconstruction only when it is submitted; and the
\* flag only when it is claimed.
LEMMA ClientShared ==
  ASSUME NEW c \in Clients, ClientMove(c)
  PROVE  /\ m_current_epoch'.epoch = m_current_epoch.epoch
         /\ m_previous_epoch'.epoch = m_previous_epoch.epoch
         /\ ~SubmitReconstruction(c) => rpc' = rpc
         /\ ~ClaimReconstruction(c) => m_reconstruction_scheduled' = m_reconstruction_scheduled
         /\ ~CloneEpoch(c) => UNCHANGED <<m_next_epoch, m_epoch_cnt, buffer_head, structure>>
  <1> USE DEF ClientMove, ClientStep, Call, CloseScan, LoadTail, CheckLowWatermark, ClaimReconstruction,
           CreateNewEpoch, CloneEpoch, SubmitReconstruction, SerialReturn, AppendRecord,
           GetEpochChoose, GetPrevious, GetCurrent, EndJobChoose, EndPrevious, EndCurrent,
           TakeView, AddReference, DropView, DropOld, DropCurrent, Dropped, OpAt, AwaitCheck, AwaitWait, AwaitWake
  <1>1. /\ m_current_epoch'.epoch = m_current_epoch.epoch
        /\ m_previous_epoch'.epoch = m_previous_epoch.epoch
    BY DEF AddJob, EpochPtr, pointers
  <1>2. /\ ~SubmitReconstruction(c) => rpc' = rpc
        /\ ~ClaimReconstruction(c) => m_reconstruction_scheduled' = m_reconstruction_scheduled
    BY DEF reconVars
  <1>3. ~CloneEpoch(c) => UNCHANGED <<m_next_epoch, m_epoch_cnt, buffer_head, structure>>
    BY DEF pointers, epochs
  <1>4. QED
    BY <1>1, <1>2, <1>3

\* An insert that is scheduling a reconstruction has the only one, and nothing moves
\* the current epoch meanwhile.
LEMMA SchedulerAlone ==
  ASSUME OneAtATime, PointerPhases, NEW c \in Scheduling
  PROVE  /\ rpc = "idle" /\ m_reconstruction_scheduled /\ Scheduling = {c}
         /\ m_current_epoch.epoch # Null
         /\ cpc[c] \in AfterClone <=> Building
         /\ cpc[c] \notin AfterClone => m_next_epoch.epoch = Null
  BY DEF OneAtATime, PointerPhases, Building

\* Of the steps of a client only the exchange on the flag makes it a scheduler.
LEMMA ClientScheduling ==
  ASSUME TypeOK, CallShape, OneAtATime, PointerPhases, NEW c \in Clients, ClientMove(c)
  PROVE  /\ \A d \in Clients \ {c} : d \in Scheduling' <=> d \in Scheduling
         /\ c \in Scheduling' => \/ c \in Scheduling
                                 \/ ClaimReconstruction(c) /\ ~m_reconstruction_scheduled
         /\ c \in Scheduling' => /\ cpc'[c] # "get_prev"
                                 /\ ep'[c] # Null => ep'[c] = m_current_epoch.epoch
         /\ c \in Scheduling /\ c \notin Scheduling' => SubmitReconstruction(c)
  <1>1. \A d \in Clients \ {c} : d \in Scheduling' <=> d \in Scheduling
    BY ClientFrame DEF Scheduling
  <1>2. /\ c \in Scheduling' => \/ c \in Scheduling
                                \/ ClaimReconstruction(c) /\ ~m_reconstruction_scheduled
        /\ c \in Scheduling' => /\ cpc'[c] # "get_prev"
                                /\ ep'[c] # Null => ep'[c] = m_current_epoch.epoch
        /\ c \in Scheduling /\ c \notin Scheduling' => SubmitReconstruction(c)
    <2> USE EpochAssumption DEF TypeOK, LocalType, Scheduling, CallShape, ShapeOf, HoldsJob, Goto
    <2>1. c \in Scheduling => /\ m_current_epoch.epoch # Null /\ cpc[c] # "get_prev"
                              /\ ep[c] # Null => ep[c] = m_current_epoch.epoch
      BY SchedulerAlone DEF OneAtATime
    <2>2. CASE Call(c)
      BY <2>2 DEF Call, FirstStep, AllOps
    <2>3. CASE CloseScan(c) \/ LoadTail(c) \/ CheckLowWatermark(c) \/ ClaimReconstruction(c)
      BY <2>3 DEF CloseScan, LoadTail, CheckLowWatermark, ClaimReconstruction, AfterClaim
    <2>4. CASE CreateNewEpoch(c) \/ CloneEpoch(c) \/ SubmitReconstruction(c) \/ SerialReturn(c)
      BY <2>1, <2>4 DEF CreateNewEpoch, CloneEpoch, SubmitReconstruction, SerialReturn
    <2>5. CASE AppendRecord(c) \/ GetEpochChoose(c) \/ EndJobChoose(c)
      BY <2>1, <2>5 DEF AppendRecord, GetEpochChoose, EndJobChoose
    <2>6. CASE GetPrevious(c) \/ GetCurrent(c)
      BY <2>1, <2>6 DEF GetPrevious, GetCurrent, AfterGetEpoch
    <2>7. CASE EndPrevious(c) \/ EndCurrent(c)
      BY <2>1, <2>7 DEF EndPrevious, EndCurrent, JobEnded, OpAt, AfterEndJob
    <2>8. CASE TakeView(c) \/ DropView(c) \/ DropOld(c) \/ DropCurrent(c)
      BY <2>8 DEF TakeView, AddReference, DropView, DropOld, DropCurrent, Dropped, OpAt, AfterDrop
    <2>9. CASE AwaitCheck(c) \/ AwaitWait(c) \/ AwaitWake(c)
      BY <2>9 DEF AwaitCheck, AwaitWait, AwaitWake
    <2>10. QED
      BY <2>2, <2>3, <2>4, <2>5, <2>6, <2>7, <2>8, <2>9 DEF ClientMove, ClientStep
  <1>3. QED
    BY <1>1, <1>2

\* A client never starts a second reconstruction, and create_new_epoch's assertion
\* holds when it is reached.
LEMMA ClientOneAtATime ==
  ASSUME TypeOK, CallShape, OneAtATime, PointerPhases, NEW c \in Clients, ClientMove(c)
  PROVE  OneAtATime'
  <1> DEFINE S == Scheduling
  <1>1. S \subseteq Clients /\ S' \subseteq Clients
    BY DEF Scheduling
  <1>2. aborted' # "create_new_epoch"
    <2>1. CASE CreateNewEpoch(c)
      <3>1. c \in Scheduling /\ cpc[c] \notin AfterClone
        BY <2>1 DEF CreateNewEpoch, CallShape, ShapeOf, Scheduling, AfterClone
      <3>2. QED
        BY <2>1, <3>1, SchedulerAlone DEF CreateNewEpoch, AssertThat, OneAtATime
    <2>2. CASE ~CreateNewEpoch(c)
      BY <2>2 DEF OneAtATime, ClientMove, ClientStep, Call, CloseScan, LoadTail, CheckLowWatermark, ClaimReconstruction,
           CloneEpoch, SubmitReconstruction, SerialReturn, AppendRecord,
           GetEpochChoose, GetPrevious, GetCurrent, EndJobChoose, EndPrevious, EndCurrent,
           TakeView, AddReference, DropView, DropOld, DropCurrent, Dropped, OpAt, AwaitCheck, AwaitWait, AwaitWake, Abort
    <2>3. QED
      BY <2>1, <2>2
  <1>3. \A d \in S' \ {c} : d \in S /\ cpc'[d] = cpc[d] /\ ep'[d] = ep[d]
    BY <1>1, ClientScheduling, ClientFrame
  <1>4. \A d \in S' : cpc'[d] # "get_prev" /\ (ep'[d] # Null => ep'[d] = m_current_epoch'.epoch)
    BY <1>3, ClientScheduling, ClientShared DEF OneAtATime
  <1>5. CASE ClaimReconstruction(c) /\ ~m_reconstruction_scheduled
    <2>1. S = {} /\ rpc = "idle"
      BY <1>5 DEF OneAtATime
    <2>2. S' \subseteq {c} /\ rpc' = "idle" /\ m_reconstruction_scheduled'
      BY <1>3, <1>5, <2>1 DEF ClaimReconstruction, reconVars
    <2>3. QED
      BY <1>2, <1>4, <2>2 DEF OneAtATime
  <1>6. CASE SubmitReconstruction(c)
    <2>1. c \in S /\ c \notin S'
      BY <1>6 DEF SubmitReconstruction, CallShape, ShapeOf, Scheduling, Goto, TypeOK, LocalType
    <2>2. S' = {} /\ m_reconstruction_scheduled'
      BY <1>3, <1>6, <2>1, SchedulerAlone, ClientShared DEF SubmitReconstruction
    <2>3. QED
      BY <1>2, <2>2 DEF OneAtATime
  <1>7. CASE ~(ClaimReconstruction(c) /\ ~m_reconstruction_scheduled) /\ ~SubmitReconstruction(c)
    <2>1. S' = S
      BY <1>1, <1>7, ClientScheduling
    <2>2. rpc' = rpc /\ (m_reconstruction_scheduled => m_reconstruction_scheduled')
      BY <1>7, ClientShared DEF ClaimReconstruction
    <2>3. QED
      BY <1>2, <1>4, <2>1, <2>2 DEF OneAtATime
  <1>8. QED
    BY <1>5, <1>6, <1>7

\* The steps of the reconstruction keep the flag until the last one clears it.
LEMMA ReconOneAtATime ==
  ASSUME TypeOK, OneAtATime, ReconStep
  PROVE  OneAtATime' /\ Scheduling = {} /\ Scheduling' = {} /\ rpc # "idle"
  <1>1. UNCHANGED clientVars /\ rpc # "idle"
    BY DEF ReconStep, ReconFlush, ReconDrop, AddReference, RetirePrevious, SwapCurrent, StorePrevious, AdvanceBuffer,
           InstallNext, ClearNext, NotifyWaiters, FinishReconstruction
  <1>2. Scheduling = {} /\ Scheduling' = {}
    BY <1>1 DEF OneAtATime, Scheduling, clientVars
  <1>3. /\ rpc' # "idle" => m_reconstruction_scheduled'
        /\ aborted' # "create_new_epoch"
    BY DEF OneAtATime, ReconStep, ReconFlush, ReconDrop, AddReference, RetirePrevious, SwapCurrent, StorePrevious, AdvanceBuffer,
           InstallNext, ClearNext, NotifyWaiters, FinishReconstruction, Abort
  <1>4. QED
    BY <1>1, <1>2, <1>3 DEF OneAtATime

-----------------------------------------------------------------------------
(***************************************************************************)
(* The steps of clients and the epoch pointers.                            *)
(***************************************************************************)

\* The next epoch begins with CloneEpoch, and no client ends it.
LEMMA ClientBuilding ==
  ASSUME TypeOK, CallShape, OneAtATime, PointerPhases, NEW c \in Clients, ClientMove(c)
  PROVE  /\ Building' <=> Building \/ CloneEpoch(c)
         /\ CloneEpoch(c) => c \in Scheduling /\ ~Building /\ rpc = "idle"
         /\ SubmitReconstruction(c) => Building /\ rpc = "idle" /\ rpc' = "flush"
  <1> DEFINE Late(d) == d \in Scheduling /\ cpc[d] \in AfterClone
  <1>1. \A d \in Clients \ {c} : Late(d)' <=> Late(d)
    BY ClientFrame DEF Scheduling
  <1>2. CloneEpoch(c) => c \in Scheduling /\ ~Building /\ rpc = "idle"
    <2>1. CloneEpoch(c) => c \in Scheduling /\ cpc[c] \notin AfterClone
      BY DEF CloneEpoch, CallShape, ShapeOf, Scheduling, AfterClone
    <2>2. QED
      BY <2>1, SchedulerAlone
  <1>3. SubmitReconstruction(c) => Building /\ Building' /\ rpc = "idle" /\ rpc' = "flush"
    <2>1. SubmitReconstruction(c) => c \in Scheduling /\ cpc[c] \in AfterClone
      BY DEF SubmitReconstruction, CallShape, ShapeOf, Scheduling, AfterClone
    <2>2. SubmitReconstruction(c) => rpc' = "flush"
      BY DEF SubmitReconstruction
    <2>3. rpc' = "flush" => Building'
      BY DEF Building
    <2>4. QED
      BY <2>1, <2>2, <2>3, SchedulerAlone
  <1>4. ~SubmitReconstruction(c) => (Late(c)' <=> Late(c) \/ CloneEpoch(c))
    <2> SUFFICES ASSUME ~SubmitReconstruction(c) PROVE Late(c)' <=> Late(c) \/ CloneEpoch(c)
      OBVIOUS
    <2> USE EpochAssumption DEF TypeOK, LocalType, Scheduling, CallShape, ShapeOf, HoldsJob, Goto, AfterClone
    <2>1. CASE Call(c)
      BY <2>1 DEF Call, FirstStep, AllOps, CloneEpoch
    <2>2. CASE CloseScan(c) \/ LoadTail(c) \/ CheckLowWatermark(c) \/ ClaimReconstruction(c)
      BY <2>2 DEF CloseScan, LoadTail, CheckLowWatermark, ClaimReconstruction, AfterClaim, CloneEpoch
    <2>3. CASE CreateNewEpoch(c) \/ CloneEpoch(c) \/ SerialReturn(c)
      BY <2>3 DEF CreateNewEpoch, CloneEpoch, SerialReturn
    <2>4. CASE AppendRecord(c) \/ GetEpochChoose(c) \/ EndJobChoose(c)
      BY <2>4 DEF AppendRecord, GetEpochChoose, EndJobChoose, CloneEpoch
    <2>5. CASE GetPrevious(c) \/ GetCurrent(c)
      BY <2>5 DEF GetPrevious, GetCurrent, AfterGetEpoch, CloneEpoch
    <2>6. CASE EndPrevious(c) \/ EndCurrent(c)
      BY <2>6 DEF EndPrevious, EndCurrent, JobEnded, OpAt, AfterEndJob, CloneEpoch
    <2>7. CASE TakeView(c) \/ DropView(c) \/ DropOld(c) \/ DropCurrent(c)
      BY <2>7 DEF TakeView, AddReference, DropView, DropOld, DropCurrent, Dropped, OpAt, AfterDrop, CloneEpoch
    <2>8. CASE AwaitCheck(c) \/ AwaitWait(c) \/ AwaitWake(c)
      BY <2>8 DEF AwaitCheck, OpAt, AwaitWait, AwaitWake, CloneEpoch
    <2>9. QED
      BY <2>1, <2>2, <2>3, <2>4, <2>5, <2>6, <2>7, <2>8 DEF ClientMove, ClientStep
  <1>5. /\ Building <=> \/ rpc \in {"flush", "drop", "retire", "swap", "store_prev", "transition", "install"}
                        \/ \E d \in Clients : Late(d)
        /\ Building' <=> \/ rpc' \in {"flush", "drop", "retire", "swap", "store_prev", "transition", "install"}
                         \/ \E d \in Clients : Late(d)'
    BY DEF Building, Scheduling
  <1> HIDE DEF Late
  <1>6. ~SubmitReconstruction(c) => (Building' <=> Building \/ CloneEpoch(c))
    BY <1>1, <1>4, <1>5, ClientShared
  <1>7. SubmitReconstruction(c) => ~CloneEpoch(c)
    BY DEF SubmitReconstruction, CloneEpoch
  <1>8. QED
    BY <1>2, <1>3, <1>6, <1>7

\* A client changes the number of jobs only of a pointer that is not null.
LEMMA ClientRefcnt ==
  ASSUME NEW c \in Clients, ClientMove(c)
  PROVE  /\ m_current_epoch.epoch = Null => m_current_epoch' = m_current_epoch
         /\ m_previous_epoch.epoch = Null => m_previous_epoch' = m_previous_epoch
  BY DEF ClientMove, ClientStep, Call, CloseScan, LoadTail, CheckLowWatermark, ClaimReconstruction,
           CreateNewEpoch, CloneEpoch, SubmitReconstruction, SerialReturn, AppendRecord,
           GetEpochChoose, GetPrevious, GetCurrent, EndJobChoose, EndPrevious, EndCurrent,
           TakeView, AddReference, DropView, DropOld, DropCurrent, Dropped, OpAt, AwaitCheck, AwaitWait, AwaitWake, pointers

\* No client nulls a pointer or sets one, except the next epoch.
LEMMA ClientPhases ==
  ASSUME TypeOK, CallShape, OneAtATime, PointerPhases, NEW c \in Clients, ClientMove(c)
  PROVE  PointerPhases'
  <1>1. /\ swapped' = swapped
        /\ m_current_epoch'.epoch = m_current_epoch.epoch
        /\ m_previous_epoch'.epoch = m_previous_epoch.epoch
        /\ m_current_epoch.epoch = Null => m_current_epoch'.refcnt = m_current_epoch.refcnt
        /\ m_previous_epoch.epoch = Null => m_previous_epoch'.refcnt = m_previous_epoch.refcnt
    BY ClientFrame, ClientShared, ClientRefcnt
  <1>2. CASE CloneEpoch(c)
    <2>1. /\ m_next_epoch'.epoch = m_epoch_cnt' /\ m_next_epoch'.refcnt = 0
          /\ rpc' = rpc
      BY <1>2 DEF CloneEpoch, EpochPtr, reconVars
    <2>2. Building'
      BY <1>2, ClientBuilding
    <2>3. QED
      BY <1>1, <2>1, <2>2 DEF PointerPhases
  <1>3. CASE SubmitReconstruction(c)
    <2>1. /\ Building' /\ Building /\ rpc = "idle" /\ rpc' = "flush"
          /\ UNCHANGED <<m_next_epoch, m_epoch_cnt>>
      BY <1>3, ClientBuilding, ClientShared DEF SubmitReconstruction, CloneEpoch
    <2>2. QED
      BY <1>1, <2>1 DEF PointerPhases
  <1>4. CASE ~CloneEpoch(c) /\ ~SubmitReconstruction(c)
    <2>1. Building' = Building /\ rpc' = rpc /\ UNCHANGED <<m_next_epoch, m_epoch_cnt>>
      BY <1>4, ClientBuilding, ClientShared DEF Building
    <2>2. QED
      BY <1>1, <2>1 DEF PointerPhases
  <1>5. QED
    BY <1>2, <1>3, <1>4

\* What a client leaves of the epochs that exist: their heads and structures.
LEMMA ClientEpochs ==
  ASSUME TypeOK, CallShape, OneAtATime, PointerPhases, NEW c \in Clients, ClientMove(c)
  PROVE  /\ LiveEpochs' = LiveEpochs /\ LiveEpochs \subseteq EpochIds
         /\ \A e \in EpochIds : buffer_head'[e] = buffer_head[e] /\ structure'[e] = structure[e]
         /\ b_tail \in Nat /\ b_tail' \in Nat /\ b_tail <= b_tail'
         /\ m_epoch_cnt \in Nat /\ freed \subseteq EpochIds
         /\ CloneEpoch(c) => /\ m_epoch_cnt' = m_epoch_cnt + 1
                             /\ ep[c] = m_current_epoch.epoch /\ ep[c] \in LiveEpochs
                             /\ buffer_head'[m_epoch_cnt'] = buffer_head[ep[c]]
                             /\ structure'[m_epoch_cnt'] = structure[ep[c]]
  <1>1. LiveEpochs' = LiveEpochs
    BY ClientFrame, ClientShared DEF LiveEpochs
  <1>2. LiveEpochs \subseteq EpochIds /\ m_epoch_cnt \in Nat /\ freed \subseteq EpochIds /\ b_tail \in Nat
    BY DEF LiveEpochs, TypeOK, SharedType, LocalType, Pointer
  <1>3. b_tail' \in Nat /\ b_tail <= b_tail'
    <2>1. AppendRecord(c) \/ b_tail' = b_tail
      BY DEF ClientMove, ClientStep, Call, CloseScan, LoadTail, CheckLowWatermark, ClaimReconstruction,
           CreateNewEpoch, CloneEpoch, SubmitReconstruction, SerialReturn,
           GetEpochChoose, GetPrevious, GetCurrent, EndJobChoose, EndPrevious, EndCurrent,
           TakeView, AddReference, DropView, DropOld, DropCurrent, Dropped, OpAt, AwaitCheck, AwaitWait, AwaitWake, buffer
    <2>2. QED
      BY <1>2, <2>1 DEF AppendRecord
  <1>4. CASE CloneEpoch(c)
    <2>1. c \in Scheduling /\ ep[c] # Null /\ ep[c] \in EpochIds
      BY <1>4, ClientBuilding, JobEpochType DEF CloneEpoch, CallShape, ShapeOf, HoldsJob
    <2>2. ep[c] = m_current_epoch.epoch /\ ep[c] \in LiveEpochs
      BY <2>1 DEF OneAtATime, LiveEpochs
    <2>3. /\ m_epoch_cnt' = m_epoch_cnt + 1
          /\ m_epoch_cnt' \in 0..m_epoch_cnt'
          /\ buffer_head' = [x \in 0..m_epoch_cnt' |-> buffer_head[IF x = m_epoch_cnt' THEN ep[c] ELSE x]]
          /\ structure' = [x \in 0..m_epoch_cnt' |-> structure[IF x = m_epoch_cnt' THEN ep[c] ELSE x]]
      BY <1>2, <1>4 DEF CloneEpoch
    <2>4. /\ buffer_head'[m_epoch_cnt'] = buffer_head[ep[c]]
          /\ structure'[m_epoch_cnt'] = structure[ep[c]]
      BY <2>3
    <2>5. \A e \in EpochIds : buffer_head'[e] = buffer_head[e] /\ structure'[e] = structure[e]
      BY <1>2, <2>3 DEF EpochIds
    <2>6. QED
      BY <1>1, <1>2, <1>3, <2>2, <2>3, <2>4, <2>5
  <1>5. CASE ~CloneEpoch(c)
    BY <1>1, <1>2, <1>3, <1>5, ClientShared
  <1>6. QED
    BY <1>4, <1>5

\* A client keeps the order, the heads and the contents of the epochs: the clone is
\* the newest epoch and has the head and the structure of the current one.
LEMMA ClientKeepsEpochs ==
  ASSUME TypeOK, CallShape, OneAtATime, PointerPhases, EpochOrder, EpochHeads, EpochStructures,
         NEW c \in Clients, ClientMove(c)
  PROVE  EpochOrder' /\ EpochHeads' /\ EpochStructures'
  <1>1. /\ UNCHANGED <<freed, b_head, b_old, new_head, swapped>>
        /\ m_current_epoch'.epoch = m_current_epoch.epoch
        /\ m_previous_epoch'.epoch = m_previous_epoch.epoch
    BY ClientFrame, ClientShared
  <1>2. /\ LiveEpochs' = LiveEpochs /\ LiveEpochs \subseteq EpochIds
        /\ \A e \in EpochIds : buffer_head'[e] = buffer_head[e] /\ structure'[e] = structure[e]
        /\ b_tail \in Nat /\ b_tail' \in Nat /\ b_tail <= b_tail'
        /\ m_epoch_cnt \in Nat /\ freed \subseteq EpochIds /\ b_head \in Nat
        /\ \A e \in EpochIds : buffer_head[e] \in Nat
    BY ClientEpochs DEF TypeOK, SharedType
  <1>3. \A p \in {m_current_epoch.epoch, m_previous_epoch.epoch, swapped.epoch} :
          p # Null => p \in LiveEpochs /\ buffer_head'[p] = buffer_head[p]
    BY <1>2 DEF LiveEpochs
  <1>4. \A e \in LiveEpochs : structure'[e] = 0..(buffer_head'[e] - 1) /\ buffer_head'[e] <= b_tail'
    BY <1>2 DEF EpochStructures
  <1>5. b_head <= b_tail'
    BY <1>2 DEF EpochStructures
  <1>6. CASE CloneEpoch(c)
    <2>1. /\ m_epoch_cnt' = m_epoch_cnt + 1 /\ ep[c] = m_current_epoch.epoch /\ ep[c] \in LiveEpochs
          /\ buffer_head'[m_epoch_cnt'] = buffer_head[ep[c]]
          /\ structure'[m_epoch_cnt'] = structure[ep[c]]
          /\ rpc = "idle" /\ rpc' = "idle"
      BY <1>6, ClientEpochs, ClientBuilding DEF CloneEpoch, reconVars
    <2>2. buffer_head[ep[c]] = b_head
      BY <2>1 DEF EpochHeads, LiveEpochs
    <2>3. \A e \in EpochIds : e < m_epoch_cnt'
      BY <1>2, <2>1 DEF EpochIds
    <2>4. EpochOrder'
      BY <1>1, <1>2, <2>3 DEF EpochOrder
    <2>5. EpochHeads'
      BY <1>1, <1>3, <2>1, <2>2 DEF EpochHeads
    <2>6. structure'[m_epoch_cnt'] = 0..(b_head - 1)
      BY <2>1, <2>2 DEF EpochStructures
    <2>7. EpochStructures'
      BY <1>1, <1>2, <1>4, <1>5, <2>1, <2>6 DEF EpochStructures
    <2>8. QED
      BY <2>4, <2>5, <2>7
  <1>7. CASE ~CloneEpoch(c)
    <2>1. /\ Building' <=> Building
          /\ rpc' = rpc \/ (rpc = "idle" /\ rpc' = "flush")
          /\ UNCHANGED <<m_epoch_cnt, buffer_head, structure>>
      BY <1>7, ClientBuilding, ClientShared
    <2>2. EpochOrder'
      BY <1>1, <1>2, <2>1 DEF EpochOrder
    <2>3. EpochHeads'
      BY <1>1, <2>1 DEF EpochHeads
    <2>4. EpochStructures'
      BY <1>1, <1>2, <1>4, <1>5, <2>1 DEF EpochStructures
    <2>5. QED
      BY <2>2, <2>3, <2>4
  <1>8. QED
    BY <1>6, <1>7

-----------------------------------------------------------------------------
(***************************************************************************)
(* The steps of clients and the jobs.                                      *)
(***************************************************************************)

Began(c, e) == ep[c] = Null /\ e # Null /\ ep' = [ep EXCEPT ![c] = e]
Ended(c) == ep[c] # Null /\ ep' = [ep EXCEPT ![c] = Null]

\* A step of a client begins a job on the current or the previous epoch, or ends its
\* job on one of them, or changes neither its job nor a count.
LEMMA ClientJobs ==
  ASSUME TypeOK, CallShape, NEW c \in Clients, ClientMove(c)
  PROVE  \/ /\ Began(c, m_current_epoch.epoch) /\ m_current_epoch' = AddJob(m_current_epoch, 1)
            /\ m_previous_epoch' = m_previous_epoch
         \/ /\ Began(c, m_previous_epoch.epoch) /\ m_previous_epoch' = AddJob(m_previous_epoch, 1)
            /\ m_current_epoch' = m_current_epoch
         \/ /\ Ended(c) /\ m_current_epoch' = AddJob(m_current_epoch, -1)
            /\ m_previous_epoch' = m_previous_epoch /\ m_current_epoch.refcnt > 0
         \/ /\ Ended(c) /\ m_previous_epoch' = AddJob(m_previous_epoch, -1)
            /\ m_current_epoch' = m_current_epoch /\ m_previous_epoch.refcnt > 0
            /\ cpc[c] = "end_prev"
         \/ UNCHANGED <<m_current_epoch, m_previous_epoch, ep>>
  <1> USE DEF CallShape, ShapeOf, HoldsJob, Began, Ended
  <1>1. CASE GetPrevious(c) \/ GetCurrent(c)
    BY <1>1 DEF GetPrevious, GetCurrent
  <1>2. CASE EndPrevious(c) \/ EndCurrent(c)
    BY <1>2 DEF EndPrevious, EndCurrent, JobEnded
  <1>3. CASE AppendRecord(c)
    BY <1>3 DEF AppendRecord, pointers, TypeOK, LocalType
  <1>4. CASE ~(GetPrevious(c) \/ GetCurrent(c) \/ EndPrevious(c) \/ EndCurrent(c) \/ AppendRecord(c))
    BY <1>4 DEF ClientMove, ClientStep, Call, CloseScan, LoadTail, CheckLowWatermark, ClaimReconstruction,
           CreateNewEpoch, CloneEpoch, SubmitReconstruction, SerialReturn,
           GetEpochChoose, EndJobChoose, TakeView, AddReference, DropView, DropOld, DropCurrent, Dropped, OpAt, AwaitCheck, AwaitWait, AwaitWake, pointers
  <1>5. QED
    BY <1>1, <1>2, <1>3, <1>4

\* A client that is about to end its job on the previous epoch has it there.
LEMMA ClientEndPrev ==
  ASSUME TypeOK, CallShape, JobsCovered, NEW c \in Clients, ClientMove(c)
  PROVE  \A d \in Clients : cpc'[d] = "end_prev" => ep'[d] = m_previous_epoch'.epoch
  <1>1. \A d \in Clients \ {c} : cpc'[d] = "end_prev" => ep'[d] = m_previous_epoch'.epoch
    BY ClientFrame, ClientShared DEF JobsCovered
  <1> SUFFICES ASSUME cpc'[c] = "end_prev" PROVE ep'[c] = m_previous_epoch.epoch
    BY <1>1, ClientShared
  <1>2. EndJobChoose(c) \/ (cpc[c] = "end_prev" /\ ep' = ep)
    <2> USE EpochAssumption DEF TypeOK, LocalType, Goto
    <2>1. CASE Call(c)
      BY <2>1 DEF Call, FirstStep
    <2>2. CASE CloseScan(c) \/ LoadTail(c) \/ CheckLowWatermark(c) \/ ClaimReconstruction(c)
      BY <2>2 DEF CloseScan, LoadTail, CheckLowWatermark, ClaimReconstruction, AfterClaim
    <2>3. CASE CreateNewEpoch(c) \/ CloneEpoch(c) \/ SerialReturn(c) \/ SubmitReconstruction(c)
      BY <2>3 DEF CreateNewEpoch, CloneEpoch, SerialReturn, SubmitReconstruction
    <2>4. CASE AppendRecord(c) \/ GetEpochChoose(c) \/ EndJobChoose(c)
      BY <2>4 DEF AppendRecord, GetEpochChoose
    <2>5. CASE GetPrevious(c) \/ GetCurrent(c)
      BY <2>5 DEF GetPrevious, GetCurrent, AfterGetEpoch
    <2>6. CASE EndPrevious(c) \/ EndCurrent(c)
      BY <2>6 DEF EndPrevious, EndCurrent, JobEnded, OpAt, AfterEndJob
    <2>7. CASE TakeView(c) \/ DropView(c) \/ DropOld(c) \/ DropCurrent(c)
      BY <2>7 DEF TakeView, AddReference, DropView, DropOld, DropCurrent, Dropped, OpAt, AfterDrop
    <2>8. CASE AwaitCheck(c) \/ AwaitWait(c) \/ AwaitWake(c)
      BY <2>8 DEF AwaitCheck, OpAt, AwaitWait, AwaitWake
    <2>9. QED
      BY <2>1, <2>2, <2>3, <2>4, <2>5, <2>6, <2>7, <2>8 DEF ClientMove, ClientStep
  <1>3. CASE EndJobChoose(c)
    BY <1>3 DEF EndJobChoose, Goto, TypeOK, LocalType
  <1>4. CASE cpc[c] = "end_prev" /\ ep' = ep
    BY <1>4 DEF JobsCovered
  <1>5. QED
    BY <1>2, <1>3, <1>4

\* How the sets of clients with a job change.
LEMMA BeginCount ==
  ASSUME TypeOK, NEW c \in Clients, NEW e, Began(c, e)
  PROVE  /\ Pinned' = Pinned \cup {c}
         /\ Cardinality(Pinned') = Cardinality(Pinned) + 1
         /\ \A x : x # e => PinnedOn(x)' = PinnedOn(x)
         /\ Cardinality(PinnedOn(e)') = Cardinality(PinnedOn(e)) + 1
  <1> USE DEF Began, TypeOK, LocalType
  <1>1. Pinned' = Pinned \cup {c} /\ c \notin Pinned
    BY DEF Pinned
  <1>2. \A x : x # e => PinnedOn(x)' = PinnedOn(x)
    BY <1>1 DEF PinnedOn, Pinned
  <1>3. PinnedOn(e)' = PinnedOn(e) \cup {c} /\ c \notin PinnedOn(e)
    BY <1>1 DEF PinnedOn, Pinned
  <1>4. IsFiniteSet(Pinned) /\ IsFiniteSet(PinnedOn(e))
    BY ClientsFinite DEF Pinned, PinnedOn
  <1>5. QED
    BY <1>1, <1>2, <1>3, <1>4, FS_AddElement

\* A client that ends its job leaves the clients on its epoch, and no others.
LEMMA EndCount ==
  ASSUME TypeOK, NEW c \in Clients, Ended(c)
  PROVE  /\ Pinned' = Pinned \ {c}
         /\ Cardinality(Pinned') = Cardinality(Pinned) - 1
         /\ \A e : Cardinality(PinnedOn(e)') =
                     IF e = ep[c] THEN Cardinality(PinnedOn(e)) - 1 ELSE Cardinality(PinnedOn(e))
  <1> USE DEF Ended, TypeOK, LocalType
  <1>1. Pinned' = Pinned \ {c} /\ c \in Pinned
    BY DEF Pinned
  <1>2. \A e : PinnedOn(e)' = IF e = ep[c] THEN PinnedOn(e) \ {c} ELSE PinnedOn(e)
    BY <1>1 DEF PinnedOn, Pinned
  <1>3. c \in PinnedOn(ep[c])
    BY <1>1 DEF PinnedOn
  <1>4. IsFiniteSet(Pinned) /\ IsFiniteSet(PinnedOn(ep[c]))
    BY ClientsFinite DEF Pinned, PinnedOn
  <1>5. /\ Cardinality(Pinned \ {c}) = Cardinality(Pinned) - 1
        /\ Cardinality(PinnedOn(ep[c]) \ {c}) = Cardinality(PinnedOn(ep[c])) - 1
    BY <1>1, <1>3, <1>4, FS_RemoveElement
  <1>6. QED
    BY <1>1, <1>2, <1>5

\* A client ends only a job it began, and where it ends it the counts still cover the
\* jobs: end_job may decrement the current epoch for a job on the previous one, which
\* leaves the count of the previous epoch too large and never too small.
LEMMA ClientKeepsJobs ==
  ASSUME TypeOK, CallShape, OneAtATime, PointerPhases, EpochOrder, JobsCovered, JobsConserved,
         NEW c \in Clients, ClientMove(c)
  PROVE  JobsCovered' /\ JobsConserved'
  <1>1. PICK q : q = m_previous_epoch.epoch
    OBVIOUS
  <1>2. PICK r : r = m_current_epoch.epoch
    OBVIOUS
  <1> USE <1>1, <1>2
  <1>3. /\ LiveEpochs' = LiveEpochs /\ m_previous_epoch'.epoch = q /\ swapped' = swapped
        /\ \A d \in Clients \ {c} : ep'[d] = ep[d]
    BY ClientFrame, ClientShared, ClientEpochs
  <1>4. /\ m_current_epoch.refcnt \in Nat /\ m_previous_epoch.refcnt \in Nat /\ swapped.refcnt \in Nat
        /\ Cardinality(Pinned) \in Nat /\ Cardinality(PinnedOn(q)) \in Nat
        /\ q # Null => q \in Nat
        /\ r # Null => r \in Nat
    <2>1. Pinned \in SUBSET Clients /\ PinnedOn(q) \in SUBSET Clients
      BY DEF Pinned, PinnedOn
    <2>2. Cardinality(Pinned) \in Nat /\ Cardinality(PinnedOn(q)) \in Nat
      BY <2>1, ClientsFinite
    <2>3. m_epoch_cnt \in Nat /\ m_current_epoch \in Pointer /\ m_previous_epoch \in Pointer /\ swapped \in Pointer
      BY DEF TypeOK, SharedType, LocalType
    <2>4. QED
      BY <2>2, <2>3 DEF Pointer, EpochIds
  <1>5. \A d \in Clients : cpc'[d] = "end_prev" => ep'[d] = m_previous_epoch'.epoch
    BY ClientEndPrev
  <1>6. Pinned \subseteq Clients /\ Pinned' \subseteq Clients
    BY DEF Pinned
  <1>7. /\ r # Null => r \in LiveEpochs
        /\ q # Null => q \in LiveEpochs
    BY DEF LiveEpochs
  <1> SUFFICES /\ \A d \in Pinned' : ep'[d] \in LiveEpochs
               /\ q # Null => Cardinality(PinnedOn(q)') <= m_previous_epoch'.refcnt
               /\ JobsConserved'
    <2>1. PinnedOn(m_previous_epoch.epoch)' = PinnedOn(q)'
      BY <1>3 DEF PinnedOn
    <2>2. QED
      BY <1>3, <1>5, <2>1 DEF JobsCovered
  <1>8. CASE /\ Began(c, m_current_epoch.epoch) /\ m_current_epoch' = AddJob(m_current_epoch, 1)
             /\ m_previous_epoch' = m_previous_epoch
    <2>1. m_current_epoch'.refcnt = m_current_epoch.refcnt + 1
      BY <1>8 DEF AddJob, EpochPtr
    <2>2. Began(c, r)
      BY <1>8
    <2>3. Pinned' = Pinned \cup {c} /\ Cardinality(Pinned') = Cardinality(Pinned) + 1
      BY <2>2, BeginCount
    <2>4. q # Null => q # r
      BY <1>4, <2>2 DEF Began, EpochOrder
    <2>5. q # Null => PinnedOn(q)' = PinnedOn(q)
      BY <2>2, <2>4, BeginCount
    <2>6. ep'[c] = r /\ r # Null
      BY <2>2 DEF Began, TypeOK, LocalType
    <2>7. QED
      BY <1>3, <1>4, <1>6, <1>7, <1>8, <2>1, <2>3, <2>5, <2>6 DEF JobsCovered, JobsConserved
  <1>9. CASE /\ Began(c, m_previous_epoch.epoch) /\ m_previous_epoch' = AddJob(m_previous_epoch, 1)
             /\ m_current_epoch' = m_current_epoch
    <2>1. m_previous_epoch'.refcnt = m_previous_epoch.refcnt + 1
      BY <1>9 DEF AddJob, EpochPtr
    <2>2. /\ Pinned' = Pinned \cup {c} /\ Cardinality(Pinned') = Cardinality(Pinned) + 1
          /\ Cardinality(PinnedOn(q)') = Cardinality(PinnedOn(q)) + 1
      <3>1. Began(c, q)
        BY <1>9
      <3>2. QED
        BY <3>1, BeginCount
    <2>3. ep'[c] = q /\ q # Null
      BY <1>9 DEF Began, TypeOK, LocalType
    <2>4. QED
      BY <1>3, <1>4, <1>6, <1>7, <1>9, <2>1, <2>2, <2>3 DEF JobsCovered, JobsConserved
  <1>10. CASE /\ Ended(c) /\ m_current_epoch' = AddJob(m_current_epoch, -1)
             /\ m_previous_epoch' = m_previous_epoch /\ m_current_epoch.refcnt > 0
    <2>1. m_current_epoch'.refcnt = m_current_epoch.refcnt - 1
      BY <1>4, <1>10 DEF AddJob, EpochPtr
    <2>2. /\ Pinned' = Pinned \ {c} /\ Cardinality(Pinned') = Cardinality(Pinned) - 1
          /\ Cardinality(PinnedOn(q)') =
               IF q = ep[c] THEN Cardinality(PinnedOn(q)) - 1 ELSE Cardinality(PinnedOn(q))
      BY <1>10, EndCount
    <2>3. QED
      BY <1>3, <1>4, <1>6, <1>10, <2>1, <2>2 DEF JobsCovered, JobsConserved
  <1>11. CASE /\ Ended(c) /\ m_previous_epoch' = AddJob(m_previous_epoch, -1)
             /\ m_current_epoch' = m_current_epoch /\ m_previous_epoch.refcnt > 0
             /\ cpc[c] = "end_prev"
    <2>1. m_previous_epoch'.refcnt = m_previous_epoch.refcnt - 1
      BY <1>4, <1>11 DEF AddJob, EpochPtr
    <2>2. ep[c] = q
      BY <1>11 DEF JobsCovered
    <2>3. /\ Pinned' = Pinned \ {c} /\ Cardinality(Pinned') = Cardinality(Pinned) - 1
          /\ Cardinality(PinnedOn(q)') = Cardinality(PinnedOn(q)) - 1
      BY <1>11, <2>2, EndCount
    <2>4. QED
      BY <1>3, <1>4, <1>6, <1>11, <2>1, <2>3 DEF JobsCovered, JobsConserved
  <1>12. CASE UNCHANGED <<m_current_epoch, m_previous_epoch, ep>>
    <2>1. Pinned' = Pinned /\ PinnedOn(q)' = PinnedOn(q)
      BY <1>12 DEF Pinned, PinnedOn
    <2>2. QED
      BY <1>3, <1>6, <1>12, <2>1 DEF JobsCovered, JobsConserved
  <1>13. QED
    BY <1>8, <1>9, <1>10, <1>11, <1>12, ClientJobs

\* A view is taken at the head of the epoch of the job that takes it, and a job ends
\* or keeps its epoch while the view is held.
LEMMA ClientKeepsViews ==
  ASSUME TypeOK, CallShape, OneAtATime, PointerPhases, EpochStructures, JobsCovered, ViewsFit,
         NEW c \in Clients, ClientMove(c)
  PROVE  ViewsFit'
  <1>1. \A e \in EpochIds : buffer_head'[e] = buffer_head[e]
    BY ClientEpochs
  <1>2. \A d \in Clients : ep[d] # Null => ep[d] \in EpochIds /\ d \in Pinned
    BY DEF TypeOK, LocalType, Pinned
  <1>3. \A d \in Clients \ {c} : ep'[d] = ep[d] /\ vhead'[d] = vhead[d] /\ vtail'[d] = vtail[d]
    BY ClientFrame
  <1> SUFFICES ASSUME ep'[c] # Null, vhead'[c] # NoView
               PROVE  vhead'[c] = buffer_head'[ep'[c]] /\ vhead'[c] <= vtail'[c]
    BY <1>1, <1>2, <1>3 DEF ViewsFit, Pinned
  <1>4. CASE TakeView(c)
    <2>1. ep[c] # Null /\ ep' = ep
      BY <1>4 DEF TakeView, CallShape, ShapeOf, HoldsJob
    <2>2. vhead'[c] = buffer_head[ep[c]] /\ vtail'[c] = b_tail
      BY <1>4 DEF TakeView, ViewHead, TypeOK, LocalType
    <2>3. ep[c] \in LiveEpochs
      BY <1>2, <2>1 DEF JobsCovered
    <2>4. QED
      BY <1>1, <1>2, <2>1, <2>2, <2>3 DEF EpochStructures
  <1>5. CASE ~TakeView(c)
    <2>1. ep'[c] = ep[c] /\ vhead'[c] = vhead[c] /\ vtail'[c] = vtail[c]
      <3> USE DEF TypeOK, LocalType, CallShape, ShapeOf, HoldsView, HoldsJob
      <3>1. CASE GetPrevious(c) \/ GetCurrent(c)
        BY <3>1 DEF GetPrevious, GetCurrent
      <3>2. CASE EndPrevious(c) \/ EndCurrent(c)
        BY <3>2 DEF EndPrevious, EndCurrent, JobEnded
      <3>3. CASE AppendRecord(c) \/ DropView(c) \/ DropOld(c) \/ DropCurrent(c)
        BY <3>3 DEF AppendRecord, DropView, DropOld, DropCurrent, Dropped, OpAt, Goto, AfterDrop
      <3>4. CASE ~(GetPrevious(c) \/ GetCurrent(c) \/ EndPrevious(c) \/ EndCurrent(c) \/ AppendRecord(c) \/ DropView(c) \/ DropOld(c) \/ DropCurrent(c))
        BY <1>5, <3>4 DEF ClientMove, ClientStep, Call, CloseScan, LoadTail, CheckLowWatermark, ClaimReconstruction,
           CreateNewEpoch, CloneEpoch, SubmitReconstruction, SerialReturn,
           GetEpochChoose, EndJobChoose, AwaitCheck, AwaitWait, AwaitWake
      <3>5. QED
        BY <3>1, <3>2, <3>3, <3>4
    <2>2. QED
      BY <1>1, <1>2, <2>1 DEF ViewsFit
  <1>6. QED
    BY <1>4, <1>5

-----------------------------------------------------------------------------
(***************************************************************************)
(* The steps of the reconstruction.                                        *)
(***************************************************************************)

\* What the invariant says while a reconstruction runs, when no insert is scheduling
\* another one, and what none of its steps touch.
LEMMA ReconFacts ==
  ASSUME IInv, ReconStep
  PROVE  /\ Building <=> rpc \in {"flush", "drop", "retire", "swap", "store_prev", "transition", "install"}
         /\ Building' <=> rpc' \in {"flush", "drop", "retire", "swap", "store_prev", "transition", "install"}
         /\ UNCHANGED <<cpc, op, ep, ltail, vhead, vtail, m_epoch_cnt, b_tail>>
         /\ Pinned' = Pinned /\ Pinned \subseteq Clients
         /\ \A e : PinnedOn(e)' = PinnedOn(e)
         /\ m_epoch_cnt \in EpochIds /\ m_epoch_cnt \in Nat /\ EpochIds = 0..m_epoch_cnt
         /\ LiveEpochs \subseteq EpochIds /\ freed \subseteq EpochIds
         /\ b_head \in Nat /\ b_tail \in Nat /\ new_head \in Nat
         /\ \A e \in EpochIds : buffer_head[e] \in Nat
         /\ \A c \in Pinned : ep[c] \in LiveEpochs
         /\ \A c \in Clients : cpc[c] = "end_prev" => ep[c] # Null
  <1> USE DEF IInv
  <1>1. Scheduling = {} /\ Scheduling' = {}
    BY ReconOneAtATime
  <1>2. UNCHANGED <<cpc, op, ep, ltail, vhead, vtail, m_epoch_cnt, b_tail>>
    BY DEF ReconStep, ReconFlush, ReconDrop, AddReference, RetirePrevious, SwapCurrent, StorePrevious, AdvanceBuffer,
           InstallNext, ClearNext, NotifyWaiters, FinishReconstruction, clientVars, epochs, buffer
  <1>3. /\ Building <=> rpc \in {"flush", "drop", "retire", "swap", "store_prev", "transition", "install"}
        /\ Building' <=> rpc' \in {"flush", "drop", "retire", "swap", "store_prev", "transition", "install"}
    BY <1>1 DEF Building
  <1>4. Pinned' = Pinned /\ Pinned \subseteq Clients /\ \A e : PinnedOn(e)' = PinnedOn(e)
    BY <1>2 DEF Pinned, PinnedOn
  <1>5. /\ m_epoch_cnt \in EpochIds /\ m_epoch_cnt \in Nat /\ EpochIds = 0..m_epoch_cnt
        /\ freed \subseteq EpochIds
        /\ b_head \in Nat /\ b_tail \in Nat /\ new_head \in Nat
        /\ \A e \in EpochIds : buffer_head[e] \in Nat
    BY DEF TypeOK, SharedType, LocalType, EpochIds
  <1>6. LiveEpochs \subseteq EpochIds
    BY DEF LiveEpochs, TypeOK, SharedType, LocalType, Pointer
  <1>7. /\ \A c \in Pinned : ep[c] \in LiveEpochs
        /\ \A c \in Clients : cpc[c] = "end_prev" => ep[c] # Null
    BY DEF JobsCovered, CallShape, ShapeOf, HoldsJob
  <1>8. QED
    BY <1>2, <1>3, <1>4, <1>5, <1>6, <1>7

\* Which pointers are null after each step of the reconstruction.
LEMMA ReconPhases ==
  ASSUME IInv, ReconStep
  PROVE  PointerPhases'
  <1> USE ReconFacts DEF IInv, PointerPhases, EpochPtr
  <1>1. CASE ReconFlush \/ ReconDrop \/ NotifyWaiters \/ FinishReconstruction \/ AdvanceBuffer
    BY <1>1 DEF ReconFlush, ReconDrop, NotifyWaiters, FinishReconstruction, AdvanceBuffer, pointers
  <1>2. CASE RetirePrevious
    BY <1>2 DEF RetirePrevious, EpochPtr
  <1>3. CASE SwapCurrent
    BY <1>3 DEF SwapCurrent, EpochPtr
  <1>4. CASE StorePrevious
    BY <1>4 DEF StorePrevious, EpochPtr
  <1>5. CASE InstallNext \/ ClearNext
    BY <1>5 DEF InstallNext, ClearNext, EpochPtr, Null
  <1>6. QED
    BY <1>1, <1>2, <1>3, <1>4, <1>5 DEF ReconStep

\* The conjuncts about epochs and jobs.
EpochsAndJobs ==
  EpochOrder /\ EpochHeads /\ EpochStructures /\ JobsCovered /\ JobsConserved /\ ViewsFit

\* The flush fills the next epoch, which no job is on yet.
LEMMA FlushKeeps ==
  ASSUME IInv, ReconStep, ReconFlush
  PROVE  EpochsAndJobs'
  <1> USE DEF IInv
  <1>1. /\ UNCHANGED <<m_current_epoch, m_previous_epoch, m_next_epoch, swapped, b_head, b_old,
                       b_tail, buffer_head, freed, m_epoch_cnt>>
        /\ rpc = "flush" /\ rpc' = "drop" /\ new_head' = b_tail
        /\ structure' = [structure EXCEPT ![m_next_epoch.epoch] =
             structure[m_next_epoch.epoch] \cup buffer_head[m_next_epoch.epoch]..(b_tail - 1)]
    BY DEF ReconFlush, AddReference, pointers
  <1>2. Building /\ Building' /\ m_next_epoch.epoch = m_epoch_cnt
    BY <1>1, ReconFacts DEF PointerPhases
  <1>3. LiveEpochs' = LiveEpochs /\ \A e \in LiveEpochs : e < m_epoch_cnt
    BY <1>1, <1>2 DEF LiveEpochs, EpochOrder
  <1>4. structure'[m_epoch_cnt] = 0..(b_tail - 1)
    <2>1. structure[m_epoch_cnt] = 0..(b_head - 1) /\ buffer_head[m_epoch_cnt] = b_head /\ b_head <= b_tail
      BY <1>1, <1>2 DEF EpochStructures, EpochHeads
    <2>2. 0..(b_head - 1) \cup b_head..(b_tail - 1) = 0..(b_tail - 1)
      BY <2>1, ReconFacts
    <2>3. m_epoch_cnt \in DOMAIN structure
      BY ReconFacts DEF TypeOK, SharedType
    <2>4. QED
      BY <1>1, <1>2, <2>1, <2>2, <2>3
  <1>5. \A e \in LiveEpochs : structure'[e] = structure[e]
    BY <1>1, <1>2, <1>3, ReconFacts DEF TypeOK, SharedType
  <1>6. EpochOrder' /\ EpochHeads'
    BY <1>1, <1>2, <1>3 DEF EpochOrder, EpochHeads
  <1>7. EpochStructures'
    BY <1>1, <1>2, <1>3, <1>4, <1>5 DEF EpochStructures
  <1>8. JobsCovered' /\ JobsConserved' /\ ViewsFit'
    BY <1>1, <1>3, ReconFacts DEF JobsCovered, JobsConserved, ViewsFit
  <1>9. QED
    BY <1>6, <1>7, <1>8 DEF EpochsAndJobs

\* The view of the flush is released.
LEMMA ReleaseKeeps ==
  ASSUME IInv, ReconStep, ReconDrop
  PROVE  EpochsAndJobs'
  <1> USE DEF IInv
  <1>1. /\ UNCHANGED <<m_current_epoch, m_previous_epoch, m_next_epoch, swapped, b_head, b_old,
                       b_tail, buffer_head, structure, freed, new_head, m_epoch_cnt>>
        /\ rpc = "drop" /\ rpc' = "retire"
    BY DEF ReconDrop, AddReference, pointers, epochs
  <1>2. Building /\ Building'
    BY <1>1, ReconFacts
  <1>3. LiveEpochs' = LiveEpochs
    BY <1>1 DEF LiveEpochs
  <1>4. EpochOrder' /\ EpochHeads' /\ EpochStructures'
    BY <1>1, <1>2, <1>3 DEF EpochOrder, EpochHeads, EpochStructures
  <1>5. JobsCovered' /\ JobsConserved' /\ ViewsFit'
    BY <1>1, <1>3, ReconFacts DEF JobsCovered, JobsConserved, ViewsFit
  <1>6. QED
    BY <1>4, <1>5 DEF EpochsAndJobs

\* An epoch is retired when its count is zero, and then no job is on it.
LEMMA RetireKeeps ==
  ASSUME IInv, ReconStep, RetirePrevious
  PROVE  EpochsAndJobs'
  <1> USE DEF IInv
  <1>1. /\ UNCHANGED <<m_current_epoch, m_next_epoch, swapped, b_head, b_old,
                       b_tail, buffer_head, structure, new_head, m_epoch_cnt>>
        /\ rpc = "retire" /\ rpc' \in {"retire", "swap"}
    BY DEF RetirePrevious, buffer
  <1>2. Building /\ Building' /\ m_current_epoch.epoch # Null /\ swapped.epoch = Null /\ swapped.refcnt = 0
    BY <1>1, ReconFacts DEF PointerPhases
  <1>3. CASE UNCHANGED <<m_previous_epoch, freed>>
    <2>1. LiveEpochs' = LiveEpochs
      BY <1>1, <1>3 DEF LiveEpochs
    <2>2. EpochOrder' /\ EpochHeads' /\ EpochStructures'
      BY <1>1, <1>2, <1>3, <2>1 DEF EpochOrder, EpochHeads, EpochStructures
    <2>3. JobsCovered' /\ JobsConserved' /\ ViewsFit'
      BY <1>1, <1>3, <2>1, ReconFacts DEF JobsCovered, JobsConserved, ViewsFit
    <2>4. QED
      BY <2>2, <2>3 DEF EpochsAndJobs
  <1>4. CASE /\ m_previous_epoch.epoch # Null /\ Retirable
             /\ m_previous_epoch' = EpochPtr(Null, 0)
             /\ freed' = freed \cup {m_previous_epoch.epoch}
    <2>1. /\ m_previous_epoch.refcnt = 0 /\ m_previous_epoch'.epoch = Null
          /\ m_previous_epoch'.refcnt = 0
      BY <1>4 DEF Retirable, EpochPtr
    <2>2. LiveEpochs' = {m_current_epoch.epoch} /\ LiveEpochs = {m_current_epoch.epoch, m_previous_epoch.epoch}
      BY <1>1, <1>2, <1>4, <2>1 DEF LiveEpochs
    <2>3. m_previous_epoch.epoch < m_current_epoch.epoch
      BY <1>2, <1>4 DEF EpochOrder
    <2>4. PinnedOn(m_previous_epoch.epoch) = {}
      <3>1. Cardinality(PinnedOn(m_previous_epoch.epoch)) <= 0
        BY <1>4, <2>1 DEF JobsCovered
      <3>2. IsFiniteSet(PinnedOn(m_previous_epoch.epoch)) /\ Cardinality(PinnedOn(m_previous_epoch.epoch)) \in Nat
        BY ClientsFinite DEF PinnedOn, Pinned
      <3>3. QED
        BY <3>1, <3>2, FS_EmptySet
    <2>5. \A c \in Pinned : ep[c] = m_current_epoch.epoch
      BY <2>2, <2>4, ReconFacts DEF PinnedOn
    <2>6. \A c \in Clients : cpc[c] # "end_prev"
      BY <2>4, ReconFacts DEF JobsCovered, PinnedOn, Pinned
    <2>7. EpochOrder'
      BY <1>1, <1>2, <1>4, <2>1, <2>2, <2>3 DEF EpochOrder
    <2>8. EpochHeads' /\ EpochStructures'
      BY <1>1, <1>2, <2>1, <2>2 DEF EpochHeads, EpochStructures
    <2>9. JobsCovered' /\ ViewsFit'
      BY <1>1, <2>1, <2>2, <2>5, <2>6, ReconFacts DEF JobsCovered, ViewsFit
    <2>10. JobsConserved'
      BY <1>1, <2>1, ReconFacts DEF JobsConserved
    <2>11. QED
      BY <2>7, <2>8, <2>9, <2>10 DEF EpochsAndJobs
  <1>5. QED
    BY <1>3, <1>4 DEF RetirePrevious

\* advance_epoch takes the current epoch out and puts it back as the previous one: in
\* between every job is on the epoch it holds.
LEMMA SwapKeeps ==
  ASSUME IInv, ReconStep, SwapCurrent
  PROVE  EpochsAndJobs'
  <1> USE DEF IInv
  <1>1. /\ UNCHANGED <<m_previous_epoch, m_next_epoch, b_head, b_old, b_tail, buffer_head,
                       structure, freed, new_head, m_epoch_cnt>>
        /\ rpc = "swap" /\ rpc' = "store_prev" /\ swapped' = m_current_epoch
        /\ m_current_epoch'.epoch = Null /\ m_current_epoch'.refcnt = 0
    BY DEF SwapCurrent, epochs, buffer, EpochPtr
  <1>2. /\ Building /\ Building' /\ m_previous_epoch.epoch = Null
        /\ m_current_epoch.epoch # Null /\ swapped.epoch = Null /\ swapped.refcnt = 0
    BY <1>1, ReconFacts DEF PointerPhases
  <1>3. LiveEpochs' = LiveEpochs
    BY <1>1, <1>2 DEF LiveEpochs
  <1>4. EpochOrder' /\ EpochHeads' /\ EpochStructures'
    BY <1>1, <1>2, <1>3 DEF EpochOrder, EpochHeads, EpochStructures
  <1>5. JobsCovered' /\ ViewsFit'
    BY <1>1, <1>2, <1>3, ReconFacts DEF JobsCovered, ViewsFit
  <1>6. JobsConserved'
    BY <1>1, <1>2, ReconFacts DEF JobsConserved, TypeOK, SharedType, Pointer
  <1>7. QED
    BY <1>4, <1>5, <1>6 DEF EpochsAndJobs

\* The step that stores the previous epoch.
LEMMA StoreKeeps ==
  ASSUME IInv, ReconStep, StorePrevious
  PROVE  EpochsAndJobs'
  <1> USE DEF IInv
  <1>1. /\ UNCHANGED <<m_current_epoch, m_next_epoch, b_head, b_old, b_tail, buffer_head,
                       structure, freed, new_head, m_epoch_cnt>>
        /\ rpc = "store_prev" /\ rpc' = "transition" /\ m_previous_epoch' = swapped
        /\ swapped'.epoch = Null /\ swapped'.refcnt = 0
    BY DEF StorePrevious, epochs, buffer, EpochPtr
  <1>2. /\ Building /\ Building' /\ swapped.epoch # Null
        /\ m_previous_epoch.epoch = Null /\ m_previous_epoch.refcnt = 0
        /\ m_current_epoch.epoch = Null /\ m_current_epoch.refcnt = 0
    BY <1>1, ReconFacts DEF PointerPhases
  <1>3. LiveEpochs' = LiveEpochs /\ LiveEpochs = {swapped.epoch}
    BY <1>1, <1>2 DEF LiveEpochs
  <1>4. EpochOrder' /\ EpochHeads' /\ EpochStructures'
    BY <1>1, <1>2, <1>3 DEF EpochOrder, EpochHeads, EpochStructures
  <1>5. swapped.refcnt = Cardinality(Pinned)
    BY <1>2 DEF JobsConserved, TypeOK, LocalType, Pointer
  <1>6. \A c \in Clients : cpc[c] # "end_prev"
    BY <1>2, ReconFacts DEF JobsCovered
  <1>7. JobsCovered'
    <2>1. PICK e : e = swapped.epoch
      OBVIOUS
    <2>2. PinnedOn(e) = Pinned
      BY <1>3, <2>1, ReconFacts DEF PinnedOn
    <2>3. PinnedOn(m_previous_epoch.epoch)' = PinnedOn(e)'
      BY <1>1, <2>1 DEF PinnedOn
    <2>4. Cardinality(PinnedOn(m_previous_epoch.epoch)') <= m_previous_epoch'.refcnt
      BY <1>1, <1>5, <2>2, <2>3, ReconFacts DEF TypeOK, LocalType, Pointer
    <2>5. QED
      BY <1>1, <1>3, <1>6, <2>4, ReconFacts DEF JobsCovered
  <1>8. ViewsFit' /\ JobsConserved'
    BY <1>1, <1>2, ReconFacts DEF ViewsFit, JobsConserved, TypeOK, LocalType, Pointer
  <1>9. QED
    BY <1>4, <1>7, <1>8 DEF EpochsAndJobs

\* The buffer's active head becomes its old head, which is that of the previous
\* epoch, the only one with jobs.
LEMMA AdvanceKeeps ==
  ASSUME IInv, ReconStep, AdvanceBuffer
  PROVE  EpochsAndJobs'
  <1> USE DEF IInv
  <1>1. /\ UNCHANGED <<m_current_epoch, m_previous_epoch, m_next_epoch, swapped, b_tail,
                       structure, freed, new_head, m_epoch_cnt>>
        /\ rpc = "transition"
    BY DEF AdvanceBuffer, pointers
  <1>2. /\ Building /\ m_next_epoch.epoch = m_epoch_cnt
        /\ m_current_epoch.epoch = Null /\ swapped.epoch = Null
    BY <1>1, ReconFacts DEF PointerPhases
  <1>3. LiveEpochs' = LiveEpochs /\ \A e \in LiveEpochs : e < m_epoch_cnt
    BY <1>1, <1>2 DEF LiveEpochs, EpochOrder
  <1>4. CASE UNCHANGED <<b_head, b_old, buffer_head, rpc>>
    <2>1. Building'
      BY <1>1, <1>4, ReconFacts
    <2>2. EpochOrder' /\ EpochHeads' /\ EpochStructures'
      BY <1>1, <1>2, <1>3, <1>4, <2>1 DEF EpochOrder, EpochHeads, EpochStructures
    <2>3. JobsCovered' /\ JobsConserved' /\ ViewsFit'
      BY <1>1, <1>3, <1>4, ReconFacts DEF JobsCovered, JobsConserved, ViewsFit
    <2>4. QED
      BY <2>2, <2>3 DEF EpochsAndJobs
  <1>5. CASE /\ b_head < new_head /\ new_head <= b_tail
             /\ b_old' = b_head /\ b_head' = new_head /\ rpc' = "install"
             /\ buffer_head' = [buffer_head EXCEPT ![m_next_epoch.epoch] = new_head]
    <2>1. Building'
      BY <1>5, ReconFacts
    <2>2. /\ buffer_head'[m_epoch_cnt] = new_head
          /\ \A e \in LiveEpochs : buffer_head'[e] = buffer_head[e] /\ e \in EpochIds
      BY <1>2, <1>3, <1>5, ReconFacts DEF TypeOK, SharedType
    <2>3. EpochOrder'
      BY <1>1, <1>2, <1>3, <2>1 DEF EpochOrder
    <2>4. EpochHeads'
      <3>1. m_previous_epoch.epoch # Null =>
              m_previous_epoch.epoch \in LiveEpochs /\ buffer_head[m_previous_epoch.epoch] = b_head
        BY <1>1 DEF LiveEpochs, EpochHeads
      <3>2. QED
        BY <1>1, <1>2, <1>5, <2>2, <3>1 DEF EpochHeads
    <2>5. EpochStructures'
      BY <1>1, <1>2, <1>3, <1>5, <2>2 DEF EpochStructures
    <2>6. JobsCovered' /\ JobsConserved'
      BY <1>1, <1>3, ReconFacts DEF JobsCovered, JobsConserved
    <2>7. ViewsFit'
      BY <2>2, ReconFacts DEF ViewsFit
    <2>8. QED
      BY <2>3, <2>4, <2>5, <2>6, <2>7 DEF EpochsAndJobs
  <1>6. QED
    BY <1>4, <1>5 DEF AdvanceBuffer

\* The next epoch becomes the current one without a job.
LEMMA InstallKeeps ==
  ASSUME IInv, ReconStep, InstallNext
  PROVE  EpochsAndJobs'
  <1> USE DEF IInv
  <1>1. /\ UNCHANGED <<m_previous_epoch, m_next_epoch, swapped, b_head, b_old, b_tail,
                       buffer_head, structure, freed, new_head, m_epoch_cnt>>
        /\ rpc = "install" /\ rpc' = "clear_next" /\ m_current_epoch' = m_next_epoch
    BY DEF InstallNext, epochs, buffer
  <1>2. /\ Building /\ ~Building' /\ m_next_epoch.epoch = m_epoch_cnt /\ m_next_epoch.refcnt = 0
        /\ m_current_epoch.epoch = Null /\ m_current_epoch.refcnt = 0 /\ swapped.epoch = Null
        /\ m_epoch_cnt # Null
    BY <1>1, ReconFacts DEF PointerPhases, Null
  <1>3. /\ LiveEpochs' = LiveEpochs \cup {m_epoch_cnt}
        /\ m_previous_epoch.epoch # Null => m_previous_epoch.epoch \in LiveEpochs
    BY <1>1, <1>2 DEF LiveEpochs
  <1>4. EpochOrder'
    BY <1>1, <1>2, <1>3 DEF EpochOrder
  <1>5. EpochHeads'
    BY <1>1, <1>2 DEF EpochHeads
  <1>6. EpochStructures'
    BY <1>1, <1>2, <1>3 DEF EpochStructures, EpochHeads
  <1>7. JobsCovered' /\ JobsConserved' /\ ViewsFit'
    BY <1>1, <1>2, <1>3, ReconFacts DEF JobsCovered, JobsConserved, ViewsFit
  <1>8. QED
    BY <1>4, <1>5, <1>6, <1>7 DEF EpochsAndJobs

\* The end of the reconstruction.
LEMMA FinishKeeps ==
  ASSUME IInv, ReconStep, ClearNext \/ NotifyWaiters \/ FinishReconstruction
  PROVE  EpochsAndJobs'
  <1> USE DEF IInv
  <1>1. /\ UNCHANGED <<m_current_epoch, m_previous_epoch, swapped, b_head, b_old, b_tail,
                       buffer_head, structure, freed, m_epoch_cnt>>
        /\ rpc \in {"clear_next", "notify", "finish"} /\ rpc' \in {"notify", "finish", "idle"}
    BY DEF ClearNext, NotifyWaiters, FinishReconstruction, pointers, epochs, buffer
  <1>2. ~Building /\ ~Building'
    BY <1>1, ReconFacts
  <1>3. LiveEpochs' = LiveEpochs
    BY <1>1 DEF LiveEpochs
  <1>4. EpochOrder' /\ EpochHeads' /\ EpochStructures'
    BY <1>1, <1>2, <1>3 DEF EpochOrder, EpochHeads, EpochStructures
  <1>5. JobsCovered' /\ JobsConserved' /\ ViewsFit'
    BY <1>1, <1>3, ReconFacts DEF JobsCovered, JobsConserved, ViewsFit
  <1>6. QED
    BY <1>4, <1>5 DEF EpochsAndJobs

-----------------------------------------------------------------------------
(***************************************************************************)
(* The invariant and what it implies.                                      *)
(***************************************************************************)

\* Every step keeps the invariant.
LEMMA NextIInv == IInv /\ [Next]_vars => IInv'
  <1> SUFFICES ASSUME IInv, [Next]_vars PROVE IInv'
    OBVIOUS
  <1>1. ASSUME NEW c \in Clients, ClientMove(c)
        PROVE  IInv'
    <2>1. TypeOK'
      BY <1>1, ClientStepType, LocalStepType DEF IInv, ClientMove
    <2>2. CallShape' /\ OneAtATime' /\ PointerPhases'
      BY <1>1, ClientStepShape, ClientOneAtATime, ClientPhases DEF IInv
    <2>3. EpochOrder' /\ EpochHeads' /\ EpochStructures'
      BY <1>1, ClientKeepsEpochs DEF IInv
    <2>4. JobsCovered' /\ JobsConserved' /\ ViewsFit'
      BY <1>1, ClientKeepsJobs, ClientKeepsViews DEF IInv
    <2>5. QED
      BY <2>1, <2>2, <2>3, <2>4 DEF IInv
  <1>2. ASSUME ReconStep
        PROVE  IInv'
    <2>1. TypeOK' /\ OneAtATime' /\ PointerPhases'
      BY <1>2, ReconStepType, ReconOneAtATime, ReconPhases DEF IInv
    <2>2. CallShape'
      BY <1>2, ReconFacts DEF IInv, CallShape, ShapeOf, HoldsJob, HoldsView
    <2>3. EpochsAndJobs'
      BY <1>2, FlushKeeps, ReleaseKeeps, RetireKeeps, SwapKeeps, StoreKeeps, AdvanceKeeps, InstallKeeps, FinishKeeps
         DEF ReconStep
    <2>4. QED
      BY <2>1, <2>2, <2>3 DEF IInv, EpochsAndJobs
  <1>3. CASE UNCHANGED vars
    <2>1. /\ EpochIds' = EpochIds /\ Pointer' = Pointer /\ Pinned' = Pinned
          /\ Scheduling' = Scheduling /\ LiveEpochs' = LiveEpochs
      BY <1>3 DEF vars, EpochIds, Pointer, Pinned, Scheduling, LiveEpochs
    <2>2. Building' <=> Building
      BY <1>3, <2>1 DEF vars, Building
    <2>3. TypeOK'
      BY <1>3, <2>1 DEF IInv, vars, TypeOK, SharedType, LocalType
    <2>4. CallShape' /\ OneAtATime' /\ PointerPhases'
      BY <1>3, <2>1, <2>2 DEF IInv, vars, CallShape, ShapeOf, HoldsJob, HoldsView, OneAtATime, PointerPhases
    <2>5. EpochOrder' /\ EpochHeads' /\ EpochStructures'
      BY <1>3, <2>1, <2>2 DEF IInv, vars, EpochOrder, EpochHeads, EpochStructures
    <2>6. JobsCovered' /\ JobsConserved' /\ ViewsFit'
      BY <1>3, <2>1 DEF IInv, vars, JobsCovered, JobsConserved, ViewsFit, PinnedOn
    <2>7. QED
      BY <2>3, <2>4, <2>5, <2>6 DEF IInv
  <1>4. QED
    BY <1>1, <1>2, <1>3 DEF Next, ClientMove

\* The invariant holds in every reachable state.
LEMMA Invariance == Spec => []IInv
  BY InitIInv, NextIInv, PTL DEF Spec

\* Pointers, jobs and deleted epochs name epochs that were created, and every count is
\* a natural number: no end_job takes a count below zero.
THEOREM TypeCorrect == Spec => []TypeOK
  BY Invariance, PTL DEF IInv

\* The flag admits one reconstruction: from the exchange in internal_append to the
\* last store of reconstruction there is never a second one, and the assertion of
\* create_new_epoch never fails.
THEOREM ReconstructionsAreSerial == Spec => []OneReconstruction
  <1>1. IInv => OneReconstruction
    <2> SUFFICES ASSUME IInv PROVE OneReconstruction
      OBVIOUS
    <2> USE DEF IInv, OneAtATime
    <2>1. CASE Scheduling = {}
      <3>1. Cardinality(Scheduling) = 0
        BY <2>1, FS_EmptySet
      <3>2. QED
        BY <2>1, <3>1 DEF OneReconstruction
    <2>2. CASE Scheduling # {}
      <3>1. PICK c \in Scheduling : Scheduling = {c}
        BY <2>2
      <3>2. Cardinality(Scheduling) = 1 /\ rpc = "idle"
        BY <3>1, FS_Singleton
      <3>3. QED
        BY <3>2 DEF OneReconstruction
    <2>3. QED
      BY <2>1, <2>2
  <1>2. QED
    BY <1>1, Invariance, PTL

\* retire_epoch deletes an epoch only when no client is between get_active_epoch and
\* end_job on it.
THEOREM PinnedEpochsLive == Spec => []PinnedNotFreed
  <1>1. IInv => PinnedNotFreed
    <2> SUFFICES ASSUME IInv, NEW c \in Pinned, ep[c] \in freed PROVE FALSE
      BY DEF PinnedNotFreed
    <2>1. ep[c] \in LiveEpochs /\ ep[c] \in Nat
      BY DEF IInv, JobsCovered, TypeOK, LocalType, EpochIds, SharedType, Pinned
    <2>2. ep[c] < ep[c]
      BY <2>1 DEF IInv, EpochOrder
    <2>3. QED
      BY <2>1, <2>2
  <1>2. QED
    BY <1>1, Invariance, PTL

\* advance_epoch moves the counted references from one pointer to the next without
\* losing one, while jobs begin and end.
THEOREM JobsAreConserved == Spec => []JobsConserved
  BY Invariance, PTL DEF IInv

\* get_buffer of an epoch that a job holds names a head the buffer still has, so the
\* spin in get_head ends at once.
THEOREM PinnedHeadsAreKnown == Spec => []PinnedHeadKnown
  <1>1. IInv => PinnedHeadKnown
    <2> SUFFICES ASSUME IInv, NEW c \in Pinned PROVE buffer_head[ep[c]] \in {b_head, b_old}
      BY DEF PinnedHeadKnown
    <2>1. ep[c] \in LiveEpochs
      BY DEF IInv, JobsCovered
    <2>2. QED
      BY <2>1 DEF IInv, EpochHeads, LiveEpochs
  <1>2. QED
    BY <1>1, Invariance, PTL

\* A query sees every record up to its view's tail exactly once: the structure of its
\* epoch ends where the view begins.
THEOREM SnapshotsAreExact == Spec => []SnapshotExact
  <1>1. IInv => SnapshotExact
    <2> SUFFICES ASSUME IInv, NEW c \in Pinned, vhead[c] # NoView
                 PROVE  /\ structure[ep[c]] \cap vhead[c]..(vtail[c] - 1) = {}
                        /\ structure[ep[c]] \cup vhead[c]..(vtail[c] - 1) = 0..(vtail[c] - 1)
      BY DEF SnapshotExact
    <2>1. structure[ep[c]] = 0..(vhead[c] - 1) /\ vhead[c] <= vtail[c]
      BY DEF IInv, JobsCovered, EpochStructures, ViewsFit
    <2>2. vhead[c] \in Nat /\ vtail[c] \in Nat
      BY DEF IInv, TypeOK, LocalType, Pinned
    <2>3. QED
      BY <2>1, <2>2
  <1>2. QED
    BY <1>1, Invariance, PTL
=============================================================================
