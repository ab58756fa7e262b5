------------------------ MODULE MutableBufferProofs ------------------------
(***************************************************************************)
(* Proofs about MutableBuffer for any number of writers and readers, any   *)
(* watermarks, capacity and bound.                                         *)
(***************************************************************************)
EXTENDS MutableBuffer, TLAPS

\* The slots hold what some append wrote, and no append is beyond the bound.
DataBound == m_tail <= MaxTail

\* What a writer inside try_advance_tail knows of the tail and of the head: the
\* tail it read is not ahead of the tail, and once it has passed the check it is
\* below the watermark of the head, which only moves up.
WriterKnows ==
  \A w \in Writers :
    /\ wpc[w] \in {"check", "cas", "retry"} => old_value[w] <= m_tail
    /\ wpc[w] = "cas" => old_value[w] < m_head.idx + HWM

\* What the reconstruction knows when it exchanges the head: advance_head has
\* asserted it, and nobody else moves the head.
FlusherKnows ==
  fpc = "exchange" => m_head.idx < new_head /\ new_head <= m_tail

\* There is a current epoch, except in the transition that has just made it the
\* previous one.
EpochThere ==
  /\ fpc \in {"idle", "flush", "copied"} => cur_epoch # None
  /\ cur_epoch = None => prev_epoch # None

IInv ==
  /\ TypeOK
  /\ DataBound
  /\ Occupancy
  /\ WriterKnows
  /\ UniqueClaims
  /\ FlusherKnows
  /\ EpochThere

-----------------------------------------------------------------------------
\* The initial state satisfies the inductive invariant.
LEMMA InitIInv == Init => IInv
  <1> SUFFICES ASSUME Init PROVE IInv
    OBVIOUS
  <1> USE BufferAssumption DEF Init
  <1>1. TypeOK
    BY DEF TypeOK, SharedType, WriterType, ViewerType, FlusherType,
           BufferHead, Slot, None, Holding, Viewers
  <1>2. DataBound /\ Occupancy /\ WriterKnows /\ UniqueClaims /\ FlusherKnows /\ EpochThere
    BY DEF DataBound, Occupancy, WriterKnows, UniqueClaims, FlusherKnows, EpochThere, None
  <1>3. QED
    BY <1>1, <1>2 DEF IInv

\* The two ways an append goes on, to its return or to a later line, keep the
\* types of its locals.
LEMMA ReturnType ==
  ASSUME WriterType, NEW w \in Writers, AppendReturn(w)
  PROVE  WriterType'
  <1>1. wpc' \in [Writers -> {"idle", "lwm", "schedule", "append", "check", "cas", "retry",
                            "write", "count", "visible"}]
    BY DEF WriterType, AppendReturn
  <1>2. old_value' \in [Writers -> Nat]
    BY DEF WriterType, AppendReturn
  <1>3. wts' \in [Writers -> BOOLEAN]
    BY Zenon DEF WriterType, AppendReturn
  <1>4. QED
    BY <1>1, <1>2, <1>3 DEF WriterType

\* The same for an append that only moves on to its next line.
LEMMA GotoType ==
  ASSUME WriterType, NEW w \in Writers,
         NEW pc \in {"cas", "write", "count", "visible"}, AppendGoto(w, pc)
  PROVE  WriterType'
  BY DEF WriterType, AppendGoto

\* A step of append keeps the types; the bound keeps the records it writes
\* within those the slots can hold.
LEMMA WriterStepType ==
  ASSUME TypeOK, DataBound, UniqueClaims, NEW w \in Writers, Append(w)
  PROVE  TypeOK'
  <1> USE BufferAssumption DEF TypeOK
  <1>1. ViewerType' /\ FlusherType'
    BY DEF Append, CountLoadTail, CheckLowWatermark, AppendLoadTail, AppendCheckFull, AppendCas,
           AppendRetry, AppendWrite, AppendCountTombstone, AppendSetVisible, viewerVars, flushVars,
           ViewerType, FlusherType
  <1>2. WriterType'
    <2>1. CASE AppendLoadTail(w)
      <3>1. wts' \in [Writers -> BOOLEAN]
        BY <2>1, Zenon DEF AppendLoadTail, WriterType, BufferAssumption
      <3>2. QED
        BY <2>1, <3>1 DEF AppendLoadTail, WriterType, SharedType
    <2>2. CASE AppendCheckFull(w)
      BY <2>2, ReturnType, GotoType DEF AppendCheckFull
    <2>3. CASE AppendCas(w)
      <3>1. CASE m_tail = old_value[w]
        BY <2>3, <3>1, ReturnType, GotoType DEF AppendCas
      <3>2. CASE m_tail # old_value[w]
        BY <2>3, <3>2 DEF AppendCas, WriterType, SharedType
      <3>3. QED
        BY <3>1, <3>2
    <2>4. CASE AppendRetry(w)
      BY <2>4, ReturnType, GotoType DEF AppendRetry
    <2>5. CASE CountLoadTail(w)
      BY <2>5 DEF CountLoadTail, WriterType, SharedType
    <2>6. CASE CheckLowWatermark(w)
      BY <2>6 DEF CheckLowWatermark, WriterType
    <2>7. CASE AppendWrite(w)
      BY <2>7, GotoType DEF AppendWrite
    <2>8. CASE AppendCountTombstone(w)
      BY <2>8, GotoType DEF AppendCountTombstone
    <2>9. CASE AppendSetVisible(w)
      BY <2>9, ReturnType DEF AppendSetVisible
    <2>10. QED
      BY <2>1, <2>2, <2>3, <2>4, <2>7, <2>8, <2>9, <2>5, <2>6 DEF Append
  <1>3. SharedType'
    <2>1. CASE AppendWrite(w)
      <3>1. old_value[w] \in 0..MaxTail /\ wts[w] \in BOOLEAN
        BY <2>1 DEF AppendWrite, UniqueClaims, DataBound, WriterType, SharedType
      <3>2. [rec |-> old_value[w], ts |-> wts[w], vis |-> FALSE] \in Slot
        BY <3>1 DEF Slot
      <3>3. QED
        BY <2>1, <3>2 DEF AppendWrite, SharedType
    <2>2. CASE AppendSetVisible(w)
      <3> DEFINE p == Pos(old_value[w])
                 slot == [rec |-> m_data[p].rec, ts |-> m_data[p].ts, vis |-> TRUE]
      <3>1. p \in 0..(Cap - 1) => slot \in Slot
        BY DEF SharedType, Slot
      <3>2. m_data' = [m_data EXCEPT ![p] = slot]
        BY <2>2 DEF AppendSetVisible
      <3> HIDE DEF p, slot
      <3>3. QED
        BY <2>2, <3>1, <3>2 DEF AppendSetVisible, SharedType
    <2>3. QED
      BY <2>1, <2>2 DEF Append, CountLoadTail, CheckLowWatermark, AppendLoadTail, AppendCheckFull,
           AppendCas, AppendRetry, AppendCountTombstone, atomics, SharedType
  <1>4. QED
    BY <1>1, <1>2, <1>3

\* A step of a view keeps the types; a query finds an epoch to pin because only
\* the reconstruction takes the current one away, and leaves the previous one.
LEMMA ViewerStepType ==
  ASSUME TypeOK, EpochThere, NEW v \in Viewers, View(v)
  PROVE  TypeOK'
  <1> USE BufferAssumption DEF TypeOK
  <1>1. WriterType' /\ FlusherType'
    BY DEF View, PinEpoch, ActiveEpoch, AcquireChoose, AcquireOld, AcquireCur, ViewLoadTail,
           ViewLoadTscnt, EndJob, ReleaseBegin, ReleaseChoose, ReleaseOld, ReleaseCur,
           writerVars, flushVars, WriterType, FlusherType
  <1>2. SharedType'
    <2>1. CASE AcquireOld(v) \/ AcquireCur(v)
      BY <2>1 DEF AcquireOld, AcquireCur, AddReference, SharedType, BufferHead
    <2>2. CASE ReleaseOld(v) \/ ReleaseCur(v)
      BY <2>2 DEF ReleaseOld, ReleaseCur, AddReference, SharedType, BufferHead
    <2>3. QED
      BY <2>1, <2>2 DEF View, PinEpoch, ActiveEpoch, AcquireChoose, ViewLoadTail, ViewLoadTscnt,
           EndJob, ReleaseBegin, ReleaseChoose, atomics, SharedType
  <1>3. ViewerType'
    <2> USE DEF ViewerType
    <2>1. CASE PinEpoch(v)
      BY <2>1 DEF PinEpoch, ActiveEpoch, FlusherType, EpochThere, None
    <2>2. CASE AcquireChoose(v)
      BY <2>2 DEF AcquireChoose
    <2>3. CASE AcquireOld(v)
      BY <2>3 DEF AcquireOld, Holding
    <2>4. CASE AcquireCur(v)
      BY <2>4 DEF AcquireCur, Holding
    <2>5. CASE ViewLoadTail(v)
      BY <2>5 DEF ViewLoadTail, Holding, SharedType
    <2>6. CASE ViewLoadTscnt(v)
      BY <2>6 DEF ViewLoadTscnt, Holding, SharedType
    <2>7. CASE EndJob(v)
      BY <2>7 DEF EndJob
    <2>8. CASE ReleaseBegin(v)
      BY <2>8 DEF ReleaseBegin, Holding
    <2>9. CASE ReleaseChoose(v)
      BY <2>9 DEF ReleaseChoose, Holding
    <2>10. CASE ReleaseOld(v)
      BY <2>10 DEF ReleaseOld, Released, Holding
    <2>11. CASE ReleaseCur(v)
      BY <2>11 DEF ReleaseCur, Released, Holding
    <2>12. QED
      BY <2>1, <2>2, <2>3, <2>4, <2>5, <2>7, <2>8, <2>9, <2>10, <2>11, <2>6 DEF View
  <1>4. QED
    BY <1>1, <1>2, <1>3

\* A step of the reconstruction keeps the types.
LEMMA FlusherStepType ==
  ASSUME TypeOK, EpochThere, Flush
  PROVE  TypeOK'
  <1> USE BufferAssumption DEF TypeOK
  <1>1. Flusher \in Viewers
    BY DEF Viewers
  <1>2. WriterType'
    BY DEF Flush, FlushCopy, RetireEpoch, AdvanceCheck, AdvanceExchange,
           AdvanceStoreOld, InstallEpoch, writerVars, WriterType
  <1>3. SharedType'
    BY DEF Flush, FlushCopy, RetireEpoch, AdvanceCheck, AdvanceExchange,
           AdvanceStoreOld, InstallEpoch, atomics, SharedType, FlusherType, BufferHead
  <1>4. ViewerType'
    BY DEF Flush, FlushCopy, RetireEpoch, AdvanceCheck, AdvanceExchange, AdvanceStoreOld,
           InstallEpoch, viewerVars, ViewerType
  <1>5. FlusherType'
    <2> USE DEF FlusherType
    <2>1. CASE RetireEpoch \/ AdvanceCheck
      BY <2>1 DEF RetireEpoch, AdvanceCheck
    <2>2. CASE FlushCopy
      BY <1>1, <2>2 DEF FlushCopy, ViewerType
    <2>3. CASE AdvanceExchange
      BY <2>3 DEF AdvanceExchange, SharedType
    <2>4. CASE AdvanceStoreOld \/ InstallEpoch
      BY <2>4 DEF AdvanceStoreOld, InstallEpoch, BufferHead
    <2>5. QED
      BY <2>1, <2>2, <2>3, <2>4 DEF Flush
  <1>6. QED
    BY <1>2, <1>3, <1>4, <1>5

\* The exchange on the flag starts a reconstruction, or finds one.
LEMMA ScheduleStep ==
  ASSUME IInv, NEW w \in Writers, ScheduleFlush(w)
  PROVE  IInv'
  <1> USE BufferAssumption DEF IInv
  <1>1. Flusher \in Viewers
    BY DEF Viewers
  <1>2. UNCHANGED atomics /\ UNCHANGED <<old_value, wts, new_head, cur_hd, cur_epoch, prev_epoch>>
    BY DEF ScheduleFlush, FlushBegin, flushVars
  <1>3. /\ wpc' = [wpc EXCEPT ![w] = "append"]
        /\ fpc' = fpc \/ (fpc = "idle" /\ fpc' = "flush")
    BY DEF ScheduleFlush, FlushBegin, flushVars
  <1>4. TypeOK'
    <2> USE DEF TypeOK
    <2>1. SharedType'
      BY <1>2 DEF SharedType, atomics
    <2>2. WriterType'
      BY <1>2, <1>3 DEF WriterType
    <2>3. FlusherType'
      BY <1>2, <1>3 DEF FlusherType
    <2>4. ViewerType'
      <3>1. CASE fpc = "idle"
        BY <1>1, <3>1 DEF ScheduleFlush, FlushBegin, ViewerType, FlusherType, EpochThere, None
      <3>2. CASE fpc # "idle"
        BY <3>2 DEF ScheduleFlush, viewerVars, ViewerType
      <3>3. QED
        BY <3>1, <3>2
    <2>5. QED
      BY <2>1, <2>2, <2>3, <2>4
  <1>5. DataBound' /\ Occupancy' /\ FlusherKnows' /\ EpochThere'
    BY <1>2, <1>3 DEF DataBound, Occupancy, FlusherKnows, EpochThere, atomics
  <1>6. WriterKnows' /\ UniqueClaims'
    BY <1>2, <1>3 DEF WriterKnows, UniqueClaims, atomics, TypeOK, WriterType
  <1>7. QED
    BY <1>4, <1>5, <1>6

\* Neither the types nor anything else change when nothing does.
LEMMA StutterIInv ==
  ASSUME IInv, UNCHANGED vars
  PROVE  IInv'
  BY DEF IInv, vars, TypeOK, SharedType, WriterType, ViewerType, FlusherType, DataBound,
         Occupancy, WriterKnows, UniqueClaims, FlusherKnows, EpochThere

-----------------------------------------------------------------------------
\* A step of append keeps what the inductive invariant says beyond the types.
LEMMA WriterStep ==
  ASSUME IInv, NEW w \in Writers, Append(w)
  PROVE  IInv'
  <1> USE BufferAssumption DEF IInv
  <1>1. TypeOK'
    BY WriterStepType
  <1>2. m_head' = m_head /\ m_tail' \in {m_tail, m_tail + 1} /\ UNCHANGED viewerVars /\ UNCHANGED flushVars
    BY DEF Append, CountLoadTail, CheckLowWatermark, AppendLoadTail, AppendCheckFull, AppendCas,
           AppendReturn, AppendGoto, AppendRetry, AppendWrite, AppendCountTombstone,
           AppendSetVisible, atomics
  <1>3. FlusherKnows' /\ EpochThere'
    <2>1. m_tail \in Nat /\ m_head.idx \in Nat /\ new_head \in Nat
      BY DEF TypeOK, SharedType, FlusherType, BufferHead
    <2>2. QED
      BY <1>2, <2>1 DEF FlusherKnows, EpochThere, flushVars
  <1>4. DataBound' /\ Occupancy'
    <2>1. m_tail \in Nat /\ m_head.idx \in Nat /\ old_value[w] \in Nat
      BY DEF TypeOK, SharedType, WriterType, BufferHead
    <2>2. \/ m_tail' = m_tail
          \/ /\ wpc[w] = "cas" /\ m_tail = old_value[w]
             /\ m_tail < MaxTail /\ m_tail' = m_tail + 1
      BY DEF Append, CountLoadTail, CheckLowWatermark, AppendLoadTail, AppendCheckFull, AppendCas,
             AppendRetry, AppendWrite, AppendCountTombstone, AppendSetVisible, atomics
    <2>3. wpc[w] = "cas" => old_value[w] < m_head.idx + HWM
      BY DEF WriterKnows
    <2>4. QED
      BY <1>2, <2>1, <2>2, <2>3 DEF DataBound, Occupancy
  <1>5. WriterKnows' /\ UniqueClaims'
    <2>1. /\ m_tail \in Nat /\ m_head.idx \in Nat
          /\ \A x \in Writers : old_value[x] \in Nat
          /\ DOMAIN wpc = Writers /\ DOMAIN old_value = Writers
      BY DEF TypeOK, SharedType, WriterType, BufferHead
    <2> USE <2>1 DEF WriterKnows, UniqueClaims
    <2>2. CASE AppendLoadTail(w)
      BY <2>2 DEF AppendLoadTail, atomics
    <2>3. CASE AppendCheckFull(w)
      BY <2>3 DEF AppendCheckFull, LooksFull, AppendReturn, AppendGoto, atomics
    <2>4. CASE AppendCas(w)
      BY <2>4 DEF AppendCas, AppendReturn, AppendGoto
    <2>5. CASE CountLoadTail(w)
      BY <2>5 DEF CountLoadTail, atomics
    <2>6. CASE CheckLowWatermark(w)
      BY <2>6 DEF CheckLowWatermark, atomics
    <2>7. CASE AppendRetry(w)
      BY <2>7 DEF AppendRetry, RetryLooksFull, AppendReturn, AppendGoto, atomics
    <2>8. CASE AppendWrite(w)
      BY <2>8 DEF AppendWrite, AppendGoto
    <2>9. CASE AppendCountTombstone(w)
      BY <2>9 DEF AppendCountTombstone, AppendGoto
    <2>10. CASE AppendSetVisible(w)
      BY <2>10 DEF AppendSetVisible, AppendReturn
    <2>11. QED
      BY <2>2, <2>3, <2>4, <2>7, <2>8, <2>9, <2>10, <2>5, <2>6 DEF Append
  <1>6. QED
    BY <1>1, <1>4, <1>5, <1>3

\* A step of a view moves no index of the buffer.
LEMMA ViewerStep ==
  ASSUME IInv, NEW v \in Viewers, View(v)
  PROVE  IInv'
  <1> USE BufferAssumption DEF IInv
  <1>1. TypeOK'
    BY ViewerStepType
  <1>2. m_head'.idx = m_head.idx /\ m_tail' = m_tail /\ UNCHANGED writerVars /\ UNCHANGED flushVars
    BY DEF View, PinEpoch, ActiveEpoch, AcquireChoose, AcquireOld, AcquireCur, ViewLoadTail,
           ViewLoadTscnt, EndJob, ReleaseBegin, ReleaseChoose, ReleaseOld, ReleaseCur,
           AddReference, atomics
  <1>3. DataBound' /\ Occupancy' /\ WriterKnows' /\ UniqueClaims' /\ FlusherKnows' /\ EpochThere'
    BY <1>2 DEF writerVars, flushVars, DataBound, Occupancy, WriterKnows, UniqueClaims,
         FlusherKnows, EpochThere
  <1>4. QED
    BY <1>1, <1>3

\* A step of the reconstruction moves the head forward, never past the tail.
LEMMA FlusherStep ==
  ASSUME IInv, Flush
  PROVE  IInv'
  <1> USE BufferAssumption DEF IInv
  <1>1. TypeOK'
    BY FlusherStepType
  <1>2. m_tail' = m_tail /\ UNCHANGED writerVars
    BY DEF Flush, FlushCopy, RetireEpoch, AdvanceCheck, AdvanceExchange,
           AdvanceStoreOld, InstallEpoch, atomics
  <1>3. m_head'.idx \in Nat /\ m_head.idx <= m_head'.idx /\ m_head'.idx <= m_tail
    BY DEF Flush, FlushCopy, RetireEpoch, AdvanceCheck, AdvanceExchange,
           AdvanceStoreOld, InstallEpoch, atomics, FlusherKnows, Occupancy,
           TypeOK, SharedType, FlusherType, BufferHead
  <1>4. DataBound' /\ Occupancy'
    BY <1>2, <1>3 DEF DataBound, Occupancy, TypeOK, SharedType, BufferHead
  <1>5. WriterKnows' /\ UniqueClaims'
    BY <1>2, <1>3 DEF WriterKnows, UniqueClaims, writerVars, TypeOK, SharedType, WriterType, BufferHead
  <1>6. EpochThere'
    BY DEF Flush, FlushCopy, RetireEpoch, AdvanceCheck, AdvanceExchange,
           AdvanceStoreOld, InstallEpoch, EpochThere, TypeOK, FlusherType, None
  <1>7. FlusherKnows'
    <2>1. CASE AdvanceCheck
      BY <2>1 DEF AdvanceCheck, AdvanceAssertion, FlusherKnows, atomics
    <2>2. QED
      BY <2>1 DEF Flush, FlushCopy, RetireEpoch, AdvanceExchange, AdvanceStoreOld, InstallEpoch,
           FlusherKnows
  <1>8. QED
    BY <1>1, <1>4, <1>5, <1>6, <1>7

\* The inductive invariant holds in every reachable state.
LEMMA Invariance == Spec => []IInv
  <1>1. IInv /\ [Next]_vars => IInv'
    BY WriterStep, ScheduleStep, ViewerStep, FlusherStep, StutterIInv DEF Next, Aborted
  <1>2. QED
    BY InitIInv, <1>1, PTL DEF Spec

-----------------------------------------------------------------------------
\* Every variable of the buffer keeps its type.
THEOREM TypeCorrect == Spec => []TypeOK
  BY Invariance, PTL DEF IInv

\* However many threads append, with whatever delays between their loads and
\* their exchanges, the buffer never holds more than the high watermark, and the
\* head never passes the tail.
THEOREM OccupancyBounded == Spec => []Occupancy
  BY Invariance, PTL DEF IInv

\* No two appends in progress own the same index.
THEOREM ClaimsUnique == Spec => []UniqueClaims
  BY Invariance, PTL DEF IInv

\* The buffer implements the window specification: each step of any thread
\* admits one record below the watermark, drops a prefix, or changes neither end.
THEOREM Refinement == Spec => ImplementsWindow
  <1>1. Init => Window!WindowInit
    BY DEF Init, Window!WindowInit
  <1>2. IInv /\ [Next]_vars => [Window!WindowNext]_(Window!window)
    <2> SUFFICES ASSUME IInv, [Next]_vars
                 PROVE  Window!Admit \/ Window!Drop \/ UNCHANGED <<m_head.idx, m_tail>>
      BY DEF Window!WindowNext, Window!window
    <2> USE DEF IInv, TypeOK, SharedType, BufferHead
    <2>1. ASSUME NEW w \in Writers, Append(w)
          PROVE  Window!Admit \/ UNCHANGED <<m_head.idx, m_tail>>
      BY <2>1, BufferAssumption DEF Append, CountLoadTail, CheckLowWatermark, AppendLoadTail,
           AppendCheckFull, AppendCas, AppendRetry, AppendWrite, AppendCountTombstone, AppendSetVisible, atomics, WriterKnows,
           WriterType, Window!Admit
    <2>2. ASSUME NEW v \in Viewers, View(v)
          PROVE  UNCHANGED <<m_head.idx, m_tail>>
      BY <2>2 DEF View, PinEpoch, ActiveEpoch, AcquireChoose, AcquireOld, AcquireCur, ViewLoadTail,
           ViewLoadTscnt, EndJob, ReleaseBegin, ReleaseChoose, ReleaseOld, ReleaseCur,
           AddReference, atomics
    <2>3. ASSUME Flush
          PROVE  Window!Drop \/ UNCHANGED <<m_head.idx, m_tail>>
      BY <2>3 DEF Flush, FlushCopy, RetireEpoch, AdvanceCheck, AdvanceExchange,
           AdvanceStoreOld, InstallEpoch, atomics, FlusherKnows, FlusherType, Window!Drop
    <2>4. ASSUME NEW w \in Writers, ScheduleFlush(w)
          PROVE  UNCHANGED <<m_head.idx, m_tail>>
      BY <2>4 DEF ScheduleFlush, atomics
    <2>5. QED
      BY <2>1, <2>2, <2>3, <2>4 DEF Next, Aborted, vars
  <1>3. QED
    BY <1>1, <1>2, Invariance, PTL DEF Spec, ImplementsWindow, Window!WindowSpec
=============================================================================
