------------------------- MODULE BufferViewProofs -------------------------
(***************************************************************************)
(* Proofs about the references of buffer views in MutableBuffer, for any   *)
(* finite number of readers and any number of writers: get_head,           *)
(* release_head_reference and advance_head race on two reference counts,   *)
(* and still no view loses the head it reads from.                         *)
(***************************************************************************)
EXTENDS MutableBufferProofs, FiniteSetTheorems

Acquiring == {"acquire", "acquire_old", "acquire_cur"}

\* The heads of the two epochs are the two heads of the buffer, whatever step of
\* the transition the reconstruction is at.
EpochHeads ==
  /\ fpc \in {"idle", "flush", "copied"} =>
       cur_epoch = m_head.idx /\ prev_epoch \in {None, m_old_head.idx}
  /\ fpc \in {"advance", "exchange", "store", "install"} => cur_epoch = None
  /\ fpc \in {"advance", "exchange"} => prev_epoch = m_head.idx
  /\ fpc = "store" => prev_epoch = cur_hd.idx
  /\ fpc = "install" => prev_epoch = m_old_head.idx
  /\ fpc \in {"store", "install"} => m_head.idx = new_head

\* The head that is followed: the old one, or the one advance_head carries from
\* the active to the old head.
TrailingHead == IF fpc = "store" THEN cur_hd.idx ELSE m_old_head.idx

\* Two heads never have the same index, and the active head is at most one buffer
\* ahead of the one before it.
HeadsApart ==
  /\ TrailingHead # m_head.idx
  /\ m_head.idx <= TrailingHead + HWM
  /\ fpc = "store" => cur_hd.idx # m_old_head.idx

\* The reconstruction has a view on the active head while it flushes, and none
\* while it moves the heads.
FlusherHolds ==
  /\ ~pinned[Flusher]
  /\ fpc \notin {"flush", "copied"} => vpc[Flusher] = "idle"
  /\ vpc[Flusher] # "idle" => target[Flusher] = m_head.idx

\* A reader that asks for a view has pinned an epoch, and one that has pinned an
\* epoch knows the head of the current or of the previous one.
PinsKnown ==
  \A v \in Readers :
    /\ vpc[v] \in Acquiring => pinned[v]
    /\ pinned[v] => target[v] \in {cur_epoch, prev_epoch}

\* release_head_reference, once it has chosen the old head, finds the same old
\* head in its exchange.
ReleaseChoice ==
  \A v \in Viewers : vpc[v] = "release_old" => target[v] = m_old_head.idx

\* What advance_head found in its test of the old head's count stays true until it
\* stores over the old head; between its two stores every view is on the head it
\* carries.
AdvanceSafe ==
  /\ fpc \in {"exchange", "store"} => m_old_head.refcnt = 0
  /\ fpc = "store" => m_head.refcnt = 0 /\ \A v \in LiveViews : target[v] = cur_hd.idx

ViewInv ==
  /\ EpochHeads
  /\ HeadsApart
  /\ FlusherHolds
  /\ PinsKnown
  /\ ReleaseChoice
  /\ AdvanceSafe
  /\ ViewsProtected
  /\ OldHeadCovered
  /\ ReferencesConserved

-----------------------------------------------------------------------------
\* Sets of viewers are finite, so the counts compared with reference counts are
\* natural numbers.
LEMMA ViewersFinite ==
  \A S \in SUBSET Viewers : IsFiniteSet(S) /\ Cardinality(S) \in Nat
  <1>1. IsFiniteSet(Viewers)
    BY BufferAssumption, FS_AddElement DEF Viewers
  <1>2. QED
    BY <1>1, FS_Subset, FS_CardinalityType

\* One viewer more.
LEMMA CountAdd ==
  ASSUME NEW S \in SUBSET Viewers, NEW T, NEW v, v \notin S, T = S \cup {v}
  PROVE  Cardinality(T) = Cardinality(S) + 1
  BY ViewersFinite, FS_AddElement

\* One viewer less.
LEMMA CountRemove ==
  ASSUME NEW S \in SUBSET Viewers, NEW T, NEW v, v \in S, T = S \ {v}
  PROVE  Cardinality(T) = Cardinality(S) - 1
  BY ViewersFinite, FS_RemoveElement

\* The initial state has no views, and its old head is one no epoch has.
LEMMA InitViewInv == Init => ViewInv
  <1> SUFFICES ASSUME Init PROVE ViewInv
    OBVIOUS
  <1> USE BufferAssumption DEF Init
  <1>1. LiveViews = {}
    BY DEF LiveViews, Holding
  <1>2. \A h : ViewsOn(h) = {}
    BY <1>1 DEF ViewsOn
  <1>3. EpochHeads /\ HeadsApart /\ FlusherHolds /\ PinsKnown /\ ReleaseChoice
    BY DEF EpochHeads, HeadsApart, TrailingHead, FlusherHolds, PinsKnown, ReleaseChoice,
           Acquiring, Viewers, None
  <1>4. AdvanceSafe /\ ViewsProtected
    BY <1>1 DEF AdvanceSafe, ViewsProtected
  <1>5. Cardinality(LiveViews) = 0 /\ Cardinality(ViewsOn(m_old_head.idx)) = 0
    BY <1>1, <1>2, FS_EmptySet
  <1>6. OldHeadCovered /\ ReferencesConserved
    BY <1>5 DEF OldHeadCovered, ReferencesConserved
  <1>7. QED
    BY <1>3, <1>4, <1>6 DEF ViewInv

\* A step that changes neither the heads, nor the transition, nor who holds a view on
\* what, keeps all that is said of heads and counts.
LEMMA QuietStep ==
  ASSUME ViewInv, m_head' = m_head, m_old_head' = m_old_head, UNCHANGED flushVars,
         LiveViews' = LiveViews, \A x \in LiveViews : target'[x] = target[x]
  PROVE  /\ EpochHeads' /\ HeadsApart' /\ AdvanceSafe' /\ ViewsProtected'
         /\ OldHeadCovered' /\ ReferencesConserved'
  <1> USE DEF flushVars, ViewInv
  <1>1. EpochHeads' /\ HeadsApart'
    BY DEF EpochHeads, HeadsApart, TrailingHead
  <1>2. AdvanceSafe' /\ ViewsProtected'
    BY DEF AdvanceSafe, ViewsProtected
  <1>3. ViewsOn(m_old_head.idx)' = ViewsOn(m_old_head.idx)
    BY DEF ViewsOn
  <1>4. OldHeadCovered' /\ ReferencesConserved'
    BY <1>3 DEF OldHeadCovered, ReferencesConserved
  <1>5. QED
    BY <1>1, <1>2, <1>4

\* Appends do not touch the heads or the views.
LEMMA WriterKeepsViews ==
  ASSUME ViewInv, NEW w \in Writers, Append(w)
  PROVE  ViewInv'
  <1>1. UNCHANGED <<m_head, m_old_head>> /\ UNCHANGED viewerVars /\ UNCHANGED flushVars
    BY DEF Append, CountLoadTail, CheckLowWatermark, AppendLoadTail, AppendCheckFull, AppendCas, AppendRetry, AppendWrite,
           AppendCountTombstone, AppendSetVisible, atomics
  <1>2. LiveViews' = LiveViews
    BY <1>1 DEF LiveViews, viewerVars
  <1>3. FlusherHolds' /\ PinsKnown' /\ ReleaseChoice'
    BY <1>1 DEF ViewInv, viewerVars, flushVars, FlusherHolds, PinsKnown, ReleaseChoice
  <1>4. QED
    BY <1>1, <1>2, <1>3, QuietStep DEF ViewInv, viewerVars

-----------------------------------------------------------------------------
\* What every step of a view leaves alone.
LEMMA ViewerFrame ==
  ASSUME NEW v \in Viewers, View(v), TypeOK
  PROVE  /\ UNCHANGED flushVars /\ UNCHANGED writerVars
         /\ m_head'.idx = m_head.idx /\ m_old_head'.idx = m_old_head.idx
         /\ m_tail' = m_tail /\ m_data' = m_data
         /\ \A x \in Viewers \ {v} : /\ vpc'[x] = vpc[x] /\ target'[x] = target[x]
                                     /\ pinned'[x] = pinned[x] /\ vtail'[x] = vtail[x]
  <1> USE DEF TypeOK, ViewerType
  <1>1. CASE PinEpoch(v) \/ AcquireChoose(v)
    BY <1>1 DEF PinEpoch, AcquireChoose, atomics
  <1>2. CASE AcquireOld(v) \/ AcquireCur(v)
    BY <1>2 DEF AcquireOld, AcquireCur, AddReference
  <1>3. CASE ViewLoadTail(v) \/ ViewLoadTscnt(v) \/ EndJob(v)
    BY <1>3 DEF ViewLoadTail, ViewLoadTscnt, EndJob, atomics
  <1>4. CASE ReleaseBegin(v) \/ ReleaseChoose(v)
    BY <1>4 DEF ReleaseBegin, ReleaseChoose, atomics
  <1>5. CASE ReleaseOld(v) \/ ReleaseCur(v)
    BY <1>5 DEF ReleaseOld, ReleaseCur, Released, AddReference
  <1>6. QED
    BY <1>1, <1>2, <1>3, <1>4, <1>5 DEF View

\* A step of a view by which no view begins or ends changes no count.
LEMMA NoViewChanges ==
  ASSUME TypeOK, ViewInv, NEW v \in Viewers, View(v),
         vpc[v] \in Holding <=> vpc'[v] \in Holding,
         vpc[v] \in Holding => target'[v] = target[v],
         m_head' = m_head, m_old_head' = m_old_head
  PROVE  /\ EpochHeads' /\ HeadsApart' /\ AdvanceSafe' /\ ViewsProtected'
         /\ OldHeadCovered' /\ ReferencesConserved'
  <1>1. LiveViews' = LiveViews
    BY ViewerFrame DEF LiveViews
  <1>2. \A x \in LiveViews : target'[x] = target[x]
    BY ViewerFrame DEF LiveViews
  <1>3. QED
    BY <1>1, <1>2, ViewerFrame, QuietStep

\* The steps of a view keep what is known of its target: a reader's is the head of an
\* epoch it has pinned, the reconstruction's the active head.
LEMMA ViewerKeepsTargets ==
  ASSUME IInv, ViewInv, NEW v \in Viewers, View(v)
  PROVE  FlusherHolds' /\ PinsKnown' /\ ReleaseChoice'
  <1> USE BufferAssumption DEF ViewInv, IInv
  <1>1. Flusher \in Viewers /\ Flusher \notin Readers /\ Readers \subseteq Viewers
    BY DEF Viewers
  <1>2. /\ UNCHANGED flushVars
        /\ m_head'.idx = m_head.idx /\ m_old_head'.idx = m_old_head.idx
        /\ \A x \in Viewers \ {v} : vpc'[x] = vpc[x] /\ target'[x] = target[x] /\ pinned'[x] = pinned[x]
    BY ViewerFrame
  <1>3. /\ v = Flusher => /\ ~pinned'[v] /\ vpc[v] # "idle"
                          /\ vpc'[v] # "idle" => target'[v] = target[v]
        /\ v \in Readers => /\ vpc'[v] \in Acquiring => pinned'[v]
                            /\ pinned'[v] => target'[v] \in {cur_epoch, prev_epoch}
        /\ vpc'[v] = "release_old" => target'[v] = m_old_head.idx
    <2> USE <1>1 DEF TypeOK, ViewerType, FlusherHolds, PinsKnown, ReleaseChoice, Acquiring
    <2>1. CASE PinEpoch(v)
      BY <2>1 DEF PinEpoch, ActiveEpoch, EpochThere
    <2>2. CASE AcquireChoose(v)
      BY <2>2 DEF AcquireChoose
    <2>3. CASE AcquireOld(v) \/ AcquireCur(v)
      BY <2>3 DEF AcquireOld, AcquireCur
    <2>4. CASE ViewLoadTail(v) \/ ViewLoadTscnt(v)
      BY <2>4 DEF ViewLoadTail, ViewLoadTscnt
    <2>5. CASE EndJob(v)
      BY <2>5 DEF EndJob
    <2>6. CASE ReleaseBegin(v)
      BY <2>6 DEF ReleaseBegin
    <2>7. CASE ReleaseChoose(v)
      BY <2>7 DEF ReleaseChoose
    <2>8. CASE ReleaseOld(v) \/ ReleaseCur(v)
      BY <2>8 DEF ReleaseOld, ReleaseCur, Released
    <2>9. QED
      BY <2>1, <2>2, <2>3, <2>4, <2>5, <2>6, <2>7, <2>8 DEF View
  <1>4. FlusherHolds'
    BY <1>1, <1>2, <1>3 DEF FlusherHolds, flushVars
  <1>5. PinsKnown'
    BY <1>1, <1>2, <1>3 DEF PinsKnown, flushVars
  <1>6. ReleaseChoice'
    BY <1>2, <1>3 DEF ReleaseChoice
  <1>7. QED
    BY <1>4, <1>5, <1>6

\* A viewer that is about to take a reference wants the active head, or the trailing
\* one; the trailing one only while advance_head has not looked at its count.
LEMMA AcquiredHead ==
  ASSUME IInv, ViewInv, NEW v \in Viewers, vpc[v] \in Acquiring
  PROVE  /\ fpc = "store" => target[v] \notin {m_head.idx, m_old_head.idx}
         /\ fpc = "exchange" => target[v] # m_old_head.idx
  <1>1. CASE v = Flusher
    BY <1>1 DEF ViewInv, FlusherHolds, Acquiring
  <1>2. CASE v \in Readers
    <2>1. target[v] \in {cur_epoch, prev_epoch} /\ target[v] # None
      BY <1>2, BufferAssumption DEF ViewInv, PinsKnown, IInv, TypeOK, ViewerType, None, Viewers
    <2>2. QED
      BY <2>1 DEF ViewInv, EpochHeads, HeadsApart, TrailingHead
  <1>3. QED
    BY <1>1, <1>2 DEF Viewers

\* get_head takes its reference on the head that it chose.
LEMMA AcquireKeepsViews ==
  ASSUME IInv, ViewInv, NEW v \in Viewers, AcquireOld(v) \/ AcquireCur(v), vpc'[v] = "load_tail"
  PROVE  /\ EpochHeads' /\ HeadsApart' /\ AdvanceSafe' /\ ViewsProtected'
         /\ OldHeadCovered' /\ ReferencesConserved'
  <1>1. TypeOK /\ View(v)
    BY DEF IInv, View
  <1>2. /\ UNCHANGED flushVars
        /\ m_head'.idx = m_head.idx /\ m_old_head'.idx = m_old_head.idx
        /\ \A x \in Viewers \ {v} : vpc'[x] = vpc[x] /\ target'[x] = target[x]
    BY <1>1, ViewerFrame
  <1>3. /\ vpc[v] \in Acquiring /\ target'[v] = target[v]
        /\ m_head.refcnt \in Nat /\ m_old_head.refcnt \in Nat /\ cur_hd.refcnt \in Nat
        /\ vpc[v] \notin Holding /\ vpc'[v] \in Holding
    BY <1>1 DEF AcquireOld, AcquireCur, Acquiring, Holding, TypeOK, ViewerType, SharedType,
                FlusherType, BufferHead
  <1>4. \/ /\ target[v] = m_old_head.idx /\ m_head' = m_head
           /\ m_old_head'.refcnt = m_old_head.refcnt + 1
        \/ /\ target[v] = m_head.idx /\ m_old_head' = m_old_head
           /\ m_head'.refcnt = m_head.refcnt + 1
    BY <1>1, <1>3 DEF AcquireOld, AcquireCur, AddReference, TypeOK, ViewerType
  <1>5. /\ fpc # "store"
        /\ fpc = "exchange" => m_old_head' = m_old_head
    BY <1>3, <1>4, AcquiredHead
  <1>6. LiveViews' = LiveViews \cup {v} /\ v \notin LiveViews /\ LiveViews \subseteq Viewers
    BY <1>2, <1>3 DEF LiveViews
  <1>7. EpochHeads' /\ HeadsApart'
    BY <1>2 DEF ViewInv, EpochHeads, HeadsApart, TrailingHead, flushVars
  <1>8. AdvanceSafe'
    BY <1>2, <1>5 DEF ViewInv, AdvanceSafe, flushVars
  <1>9. ViewsProtected'
    BY <1>2, <1>3, <1>4, <1>6 DEF ViewInv, ViewsProtected, flushVars, LiveViews
  <1>10. ReferencesConserved'
    <2>1. Cardinality(LiveViews') = Cardinality(LiveViews) + 1
      BY <1>6, CountAdd
    <2>2. QED
      BY <2>1, <1>2, <1>3, <1>4, <1>5 DEF ViewInv, ReferencesConserved, flushVars
  <1>11. OldHeadCovered'
    <2> DEFINE S == ViewsOn(m_old_head.idx)
    <2>1. S \subseteq Viewers /\ Cardinality(S) \in Nat /\ v \notin S
      BY <1>6, ViewersFinite DEF ViewsOn
    <2>2. CASE target[v] = m_old_head.idx /\ m_old_head'.refcnt = m_old_head.refcnt + 1
      <3>1. S' = S \cup {v}
        BY <1>2, <1>3, <1>6, <2>2 DEF ViewsOn, LiveViews
      <3>2. Cardinality(S') = Cardinality(S) + 1
        BY <2>1, <3>1, CountAdd
      <3>3. QED
        BY <1>2, <1>3, <2>1, <2>2, <3>2 DEF ViewInv, OldHeadCovered, flushVars
    <2>3. CASE target[v] = m_head.idx /\ m_old_head' = m_old_head
      <3>1. m_head.idx # m_old_head.idx
        BY <1>5 DEF ViewInv, HeadsApart, TrailingHead
      <3>2. S' = S
        BY <1>2, <1>3, <1>6, <2>3, <3>1 DEF ViewsOn, LiveViews
      <3>3. QED
        BY <1>2, <2>3, <3>2 DEF ViewInv, OldHeadCovered, flushVars
    <2>4. QED
      BY <1>4, <2>2, <2>3
  <1>12. QED
    BY <1>7, <1>8, <1>9, <1>10, <1>11

\* release_head_reference gives one reference back, on the head it chose.  When the
\* active head has moved since the choice this is not the head the view was on; the
\* old head then keeps one reference too many, and never one too few.
LEMMA ReleaseKeepsViews ==
  ASSUME IInv, ViewInv, NEW v \in Viewers, ReleaseOld(v) \/ ReleaseCur(v), vpc'[v] # "release"
  PROVE  /\ EpochHeads' /\ HeadsApart' /\ AdvanceSafe' /\ ViewsProtected'
         /\ OldHeadCovered' /\ ReferencesConserved'
  <1>1. TypeOK /\ View(v)
    BY DEF IInv, View
  <1>2. /\ UNCHANGED flushVars
        /\ m_head'.idx = m_head.idx /\ m_old_head'.idx = m_old_head.idx
        /\ \A x \in Viewers \ {v} : vpc'[x] = vpc[x] /\ target'[x] = target[x]
    BY <1>1, ViewerFrame
  <1>3. /\ vpc[v] \in Holding /\ vpc'[v] \notin Holding
        /\ m_head.refcnt \in Nat /\ m_old_head.refcnt \in Nat /\ cur_hd.refcnt \in Nat
    BY <1>1 DEF ReleaseOld, ReleaseCur, Released, Holding, TypeOK, ViewerType, SharedType,
                FlusherType, BufferHead
  <1>4. \/ /\ target[v] = m_old_head.idx /\ m_head' = m_head
           /\ m_old_head.refcnt > 0
           /\ m_old_head'.refcnt = m_old_head.refcnt - 1
        \/ /\ m_old_head' = m_old_head
           /\ m_head.refcnt > 0
           /\ m_head'.refcnt = m_head.refcnt - 1
    BY <1>1 DEF ReleaseOld, ReleaseCur, AddReference, TypeOK, ViewerType, SharedType, BufferHead,
                ViewInv, ReleaseChoice
  <1>5. /\ fpc # "store"
        /\ fpc = "exchange" => m_old_head' = m_old_head
    BY <1>4 DEF ViewInv, AdvanceSafe
  <1>6. LiveViews' = LiveViews \ {v} /\ v \in LiveViews /\ LiveViews \subseteq Viewers
    BY <1>2, <1>3 DEF LiveViews
  <1>7. EpochHeads' /\ HeadsApart'
    BY <1>2 DEF ViewInv, EpochHeads, HeadsApart, TrailingHead, flushVars
  <1>8. AdvanceSafe'
    BY <1>2, <1>5 DEF ViewInv, AdvanceSafe, flushVars
  <1>9. ViewsProtected'
    BY <1>2, <1>6 DEF ViewInv, ViewsProtected, flushVars, LiveViews
  <1>10. ReferencesConserved'
    <2>1. Cardinality(LiveViews') = Cardinality(LiveViews) - 1
      BY <1>6, CountRemove
    <2>2. Cardinality(LiveViews) \in Nat
      BY <1>6, ViewersFinite
    <2>3. QED
      BY <2>1, <2>2, <1>2, <1>3, <1>4, <1>5 DEF ViewInv, ReferencesConserved, flushVars
  <1>11. OldHeadCovered'
    <2> DEFINE S == ViewsOn(m_old_head.idx)
    <2>1. S \subseteq Viewers /\ Cardinality(S) \in Nat
      BY <1>6, ViewersFinite DEF ViewsOn
    <2>2. S' = S \ {v}
      BY <1>2, <1>6 DEF ViewsOn, LiveViews
    <2>3. Cardinality(S') = IF v \in S THEN Cardinality(S) - 1 ELSE Cardinality(S)
      BY <2>1, <2>2, ViewersFinite, FS_RemoveElement
    <2>4. target[v] = m_old_head.idx => v \in S
      BY <1>6 DEF ViewsOn
    <2> HIDE DEF S
    <2>5. Cardinality(S') <= m_old_head'.refcnt
      BY <1>3, <1>4, <1>5, <2>1, <2>3, <2>4 DEF ViewInv, OldHeadCovered, S
    <2>6. QED
      BY <2>5 DEF OldHeadCovered, S
  <1>12. QED
    BY <1>7, <1>8, <1>9, <1>10, <1>11

\* No step of a view breaks the invariant.
LEMMA ViewerKeepsViews ==
  ASSUME IInv, ViewInv, NEW v \in Viewers, View(v)
  PROVE  ViewInv'
  <1> DEFINE Counts == /\ EpochHeads /\ HeadsApart /\ AdvanceSafe /\ ViewsProtected
                       /\ OldHeadCovered /\ ReferencesConserved
  <1>1. TypeOK
    BY DEF IInv
  <1> SUFFICES Counts'
    BY ViewerKeepsTargets DEF ViewInv
  <1>2. CASE AcquireOld(v) \/ AcquireCur(v)
    <2>1. CASE vpc'[v] = "load_tail"
      BY <1>2, <2>1, AcquireKeepsViews
    <2>2. CASE vpc'[v] # "load_tail"
      <3>1. /\ vpc[v] \notin Holding /\ vpc'[v] \notin Holding
            /\ m_head' = m_head /\ m_old_head' = m_old_head
        BY <1>1, <1>2, <2>2 DEF AcquireOld, AcquireCur, Holding, TypeOK, ViewerType
      <3>2. QED
        BY <1>1, <3>1, NoViewChanges
    <2>3. QED
      BY <2>1, <2>2
  <1>3. CASE ReleaseOld(v) \/ ReleaseCur(v)
    <2>1. CASE vpc'[v] # "release"
      BY <1>3, <2>1, ReleaseKeepsViews
    <2>2. CASE vpc'[v] = "release"
      <3>1. /\ vpc[v] \in Holding /\ vpc'[v] \in Holding /\ target'[v] = target[v]
            /\ m_head' = m_head /\ m_old_head' = m_old_head
        BY <1>1, <1>3, <2>2 DEF ReleaseOld, ReleaseCur, Released, Holding, TypeOK, ViewerType
      <3>2. QED
        BY <1>1, <3>1, NoViewChanges
    <2>3. QED
      BY <2>1, <2>2
  <1>4. CASE PinEpoch(v) \/ AcquireChoose(v) \/ ViewLoadTail(v) \/ ViewLoadTscnt(v)
               \/ EndJob(v) \/ ReleaseBegin(v) \/ ReleaseChoose(v)
    <2>1. /\ vpc[v] \in Holding <=> vpc'[v] \in Holding
          /\ vpc[v] \in Holding => target'[v] = target[v]
          /\ m_head' = m_head /\ m_old_head' = m_old_head
      BY <1>1, <1>4 DEF PinEpoch, AcquireChoose, ViewLoadTail, ViewLoadTscnt, EndJob, ReleaseBegin,
           ReleaseChoose, atomics, Holding, TypeOK, ViewerType
    <2>2. QED
      BY <1>1, <2>1, NoViewChanges
  <1>5. QED
    BY <1>2, <1>3, <1>4 DEF View

-----------------------------------------------------------------------------
\* When advance_head exchanges the head, no view is on the old one, so every view is
\* on the head that it takes.
LEMMA ViewsOnActiveHead ==
  ASSUME IInv, ViewInv, fpc = "exchange"
  PROVE  \A v \in LiveViews : target[v] = m_head.idx
  <1>1. ViewsOn(m_old_head.idx) \subseteq Viewers
    BY DEF ViewsOn, LiveViews
  <1>2. Cardinality(ViewsOn(m_old_head.idx)) = 0
    <2>1. Cardinality(ViewsOn(m_old_head.idx)) <= m_old_head.refcnt /\ m_old_head.refcnt = 0
      BY DEF ViewInv, OldHeadCovered, AdvanceSafe
    <2>2. Cardinality(ViewsOn(m_old_head.idx)) \in Nat
      BY <1>1, ViewersFinite
    <2>3. QED
      BY <2>1, <2>2
  <1>3. ViewsOn(m_old_head.idx) = {}
    BY <1>1, <1>2, ViewersFinite, FS_EmptySet
  <1>4. QED
    BY <1>3 DEF ViewsOn, ViewInv, ViewsProtected

\* A reconstruction starts, whichever insert won the flag.
StartFlush == fpc = "idle" /\ FlushBegin /\ UNCHANGED atomics

\* The steps of the reconstruction before it moves the heads, and the last one.
LEMMA PlanKeepsViews ==
  ASSUME IInv, ViewInv, StartFlush \/ FlushCopy \/ RetireEpoch \/ AdvanceCheck \/ InstallEpoch
  PROVE  ViewInv'
  <1> USE BufferAssumption DEF ViewInv
  <1>1. /\ Flusher \in Viewers /\ Flusher \notin Readers /\ Readers \subseteq Viewers
        /\ vpc \in [Viewers -> Holding \cup
                     {"idle", "acquire", "acquire_old", "acquire_cur", "released"}]
        /\ target \in [Viewers -> Nat]
    BY DEF Viewers, IInv, TypeOK, ViewerType
  <1>2. /\ UNCHANGED <<m_head, m_old_head, cur_hd, pinned>>
        /\ \A x \in Viewers \ {Flusher} : vpc'[x] = vpc[x] /\ target'[x] = target[x]
        /\ fpc # "store" /\ fpc' # "store"
    BY <1>1 DEF StartFlush, FlushBegin, FlushCopy, RetireEpoch, AdvanceCheck, InstallEpoch, atomics, viewerVars
  <1>3. /\ vpc'[Flusher] = vpc[Flusher] \/ (vpc[Flusher] = "idle" /\ vpc'[Flusher] = "acquire")
        /\ vpc[Flusher] = "idle" \/ target'[Flusher] = target[Flusher]
    BY <1>1 DEF StartFlush, FlushBegin, FlushCopy, RetireEpoch, AdvanceCheck, InstallEpoch, viewerVars,
                FlusherHolds
  <1>4. LiveViews' = LiveViews /\ \A x \in LiveViews : target'[x] = target[x]
    BY <1>2, <1>3 DEF LiveViews, Holding
  <1>5. EpochHeads' /\ HeadsApart'
    BY <1>2 DEF StartFlush, FlushBegin, FlushCopy, RetireEpoch, AdvanceCheck, InstallEpoch, EpochHeads,
                HeadsApart, TrailingHead, None
  <1>6. FlusherHolds'
    BY <1>1, <1>2 DEF StartFlush, FlushBegin, FlushCopy, RetireEpoch, AdvanceCheck, InstallEpoch, FlusherHolds,
                EpochHeads, viewerVars
  <1>7. PinsKnown'
    <2>1. \A v \in Readers : /\ vpc'[v] = vpc[v] /\ pinned'[v] = pinned[v]
                             /\ target'[v] = target[v] /\ target[v] \in Nat
      BY <1>1, <1>2
    <2>2. \A v \in Readers : pinned[v] => target[v] \in {cur_epoch', prev_epoch'}
      BY <2>1 DEF StartFlush, FlushBegin, FlushCopy, RetireEpoch, AdvanceCheck, InstallEpoch, PinsKnown, None,
                  EpochHeads
    <2>3. QED
      BY <2>1, <2>2 DEF PinsKnown
  <1>8. ReleaseChoice'
    BY <1>1, <1>2, <1>3 DEF ReleaseChoice
  <1>9. AdvanceSafe'
    BY <1>2 DEF AdvanceSafe, StartFlush, FlushBegin, FlushCopy, RetireEpoch, AdvanceCheck, MayAdvance, InstallEpoch
  <1>10. ViewsProtected'
    BY <1>2, <1>4 DEF ViewsProtected
  <1>11. ViewsOn(m_old_head.idx)' = ViewsOn(m_old_head.idx)
    BY <1>2, <1>4 DEF ViewsOn
  <1>12. OldHeadCovered' /\ ReferencesConserved'
    BY <1>2, <1>4, <1>11 DEF OldHeadCovered, ReferencesConserved
  <1>13. QED
    BY <1>5, <1>6, <1>7, <1>8, <1>9, <1>10, <1>12

\* The insert that wins the flag starts the reconstruction, the others change nothing
\* of heads and views.
LEMMA ScheduleKeepsViews ==
  ASSUME IInv, ViewInv, NEW w \in Writers, ScheduleFlush(w)
  PROVE  ViewInv'
  <1>1. CASE fpc = "idle"
    BY <1>1, PlanKeepsViews DEF ScheduleFlush, StartFlush
  <1>2. CASE fpc # "idle"
    <2>1. UNCHANGED <<m_head, m_old_head>> /\ UNCHANGED viewerVars /\ UNCHANGED flushVars
      BY <1>2 DEF ScheduleFlush, atomics
    <2>2. LiveViews' = LiveViews
      BY <2>1 DEF LiveViews, viewerVars
    <2>3. FlusherHolds' /\ PinsKnown' /\ ReleaseChoice'
      BY <2>1 DEF ViewInv, viewerVars, flushVars, FlusherHolds, PinsKnown, ReleaseChoice
    <2>4. QED
      BY <2>1, <2>2, <2>3, QuietStep DEF ViewInv, viewerVars
  <1>3. QED
    BY <1>1, <1>2

\* advance_head takes the active head away from under every view at once.
LEMMA ExchangeKeepsViews ==
  ASSUME IInv, ViewInv, AdvanceExchange
  PROVE  ViewInv'
  <1> USE BufferAssumption DEF ViewInv
  <1>1. /\ fpc = "exchange" /\ fpc' = "store" /\ cur_hd' = m_head
        /\ m_head' = [idx |-> new_head, refcnt |-> 0]
        /\ UNCHANGED <<m_old_head, new_head, cur_epoch, prev_epoch>> /\ UNCHANGED viewerVars
    BY DEF AdvanceExchange
  <1>2. LiveViews' = LiveViews /\ \A v \in LiveViews : target'[v] = cur_hd'.idx
    BY <1>1, ViewsOnActiveHead DEF LiveViews, viewerVars
  <1>3. /\ m_head.idx \in Nat /\ new_head \in Nat /\ m_tail \in Nat /\ HWM \in Nat
        /\ m_head.idx < new_head /\ new_head <= m_tail /\ m_tail - m_head.idx <= HWM
        /\ m_head.refcnt \in Nat /\ m_old_head.refcnt = 0
    BY <1>1 DEF IInv, TypeOK, SharedType, FlusherType, BufferHead, FlusherKnows, Occupancy, AdvanceSafe
  <1>4. EpochHeads' /\ HeadsApart'
    BY <1>1, <1>3 DEF EpochHeads, HeadsApart, TrailingHead
  <1>5. FlusherHolds' /\ PinsKnown' /\ ReleaseChoice'
    BY <1>1 DEF FlusherHolds, PinsKnown, ReleaseChoice, viewerVars
  <1>6. AdvanceSafe' /\ ViewsProtected'
    BY <1>1, <1>2, <1>3 DEF AdvanceSafe, ViewsProtected
  <1>7. OldHeadCovered' /\ ReferencesConserved'
    BY <1>1, <1>2, <1>3 DEF OldHeadCovered, ReferencesConserved
  <1>8. QED
    BY <1>4, <1>5, <1>6, <1>7

\* ... and stores it, with all the references there are, as the old head.
LEMMA StoreKeepsViews ==
  ASSUME IInv, ViewInv, AdvanceStoreOld
  PROVE  ViewInv'
  <1> USE BufferAssumption DEF ViewInv
  <1>1. /\ fpc = "store" /\ fpc' = "install" /\ m_old_head' = cur_hd
        /\ UNCHANGED <<m_head, new_head, cur_epoch, prev_epoch>> /\ UNCHANGED viewerVars
    BY DEF AdvanceStoreOld
  <1>2. LiveViews' = LiveViews /\ \A v \in LiveViews : target'[v] = m_old_head'.idx
    BY <1>1 DEF LiveViews, viewerVars, AdvanceSafe
  <1>3. /\ m_head.refcnt = 0 /\ m_old_head.refcnt = 0 /\ cur_hd.refcnt \in Nat
        /\ cur_hd.refcnt = Cardinality(LiveViews)
    BY <1>1 DEF AdvanceSafe, IInv, TypeOK, FlusherType, BufferHead, ReferencesConserved
  <1>4. EpochHeads' /\ HeadsApart'
    BY <1>1 DEF EpochHeads, HeadsApart, TrailingHead
  <1>5. FlusherHolds' /\ PinsKnown'
    BY <1>1 DEF FlusherHolds, PinsKnown, viewerVars
  <1>6. ReleaseChoice'
    <2>1. \A v \in Viewers : vpc[v] = "release_old" => v \in LiveViews
      BY DEF LiveViews, Holding
    <2>2. QED
      BY <1>1, <1>2, <2>1 DEF ReleaseChoice, viewerVars
  <1>7. AdvanceSafe' /\ ViewsProtected'
    BY <1>1, <1>2 DEF AdvanceSafe, ViewsProtected
  <1>8. ViewsOn(m_old_head.idx)' = LiveViews
    BY <1>2 DEF ViewsOn
  <1>9. OldHeadCovered' /\ ReferencesConserved'
    BY <1>1, <1>2, <1>3, <1>8 DEF OldHeadCovered, ReferencesConserved
  <1>10. QED
    BY <1>4, <1>5, <1>6, <1>7, <1>9

\* The invariant of heads, epochs and references holds in every reachable state.
LEMMA ViewInvariance == Spec => []ViewInv
  <1>1. ASSUME IInv, ViewInv, [Next]_vars
        PROVE  ViewInv'
    <2>1. CASE UNCHANGED vars
      <3>1. UNCHANGED <<m_head, m_old_head>> /\ UNCHANGED viewerVars /\ UNCHANGED flushVars
        BY <2>1 DEF vars, viewerVars, flushVars
      <3>2. LiveViews' = LiveViews
        BY <3>1 DEF LiveViews, viewerVars
      <3>3. FlusherHolds' /\ PinsKnown' /\ ReleaseChoice'
        BY <1>1, <3>1 DEF ViewInv, viewerVars, flushVars, FlusherHolds, PinsKnown, ReleaseChoice
      <3>4. QED
        BY <1>1, <3>1, <3>2, <3>3, QuietStep DEF ViewInv, viewerVars
    <2>2. CASE Next
      <3>1. CASE Aborted
        BY <2>1, <3>1 DEF Aborted
      <3>2. QED
        BY <1>1, <2>2, <3>1, WriterKeepsViews, ScheduleKeepsViews, ViewerKeepsViews, PlanKeepsViews,
           ExchangeKeepsViews, StoreKeepsViews DEF Next, Flush
    <2>3. QED
      BY <1>1, <2>1, <2>2
  <1>2. QED
    BY InitViewInv, Invariance, <1>1, PTL DEF Spec

-----------------------------------------------------------------------------
\* References on heads are neither created nor lost by the races of get_head,
\* release_head_reference and advance_head.
THEOREM ReferencesAreConserved == Spec => []ReferencesConserved
  BY ViewInvariance, PTL DEF ViewInv

\* The old head counts at least the views that read from it, although a release
\* may give its reference back on the wrong head.
THEOREM OldHeadIsCovered == Spec => []OldHeadCovered
  BY ViewInvariance, PTL DEF ViewInv

\* A live view starts at a head that the buffer still knows.
THEOREM ViewsAreProtected == Spec => []ViewsProtected
  BY ViewInvariance, PTL DEF ViewInv

\* advance_head stores over the old head only when no view reads from it.
THEOREM OldHeadReplacedOnlyUnused == Spec => OldHeadReplacedUnused
  <1>1. ASSUME IInv, ViewInv, [Next]_vars, m_old_head'.idx # m_old_head.idx
        PROVE  ViewsOn(m_old_head.idx) = {}
    <2>1. ~ \E w \in Writers : Append(w)
      BY <1>1 DEF Append, CountLoadTail, CheckLowWatermark, AppendLoadTail, AppendCheckFull, AppendCas, AppendRetry, AppendWrite,
           AppendCountTombstone, AppendSetVisible, atomics
    <2>2. ~ \E v \in Viewers : View(v)
      BY <1>1, ViewerFrame DEF IInv
    <2>3. ~ \E w \in Writers : ScheduleFlush(w)
      BY <1>1 DEF ScheduleFlush, atomics
    <2>4. AdvanceStoreOld
      BY <1>1, <2>1, <2>2, <2>3 DEF Next, Aborted, vars, Flush, FlushCopy, RetireEpoch, AdvanceCheck,
           AdvanceExchange, InstallEpoch, atomics
    <2>5. QED
      BY <1>1, <2>4 DEF AdvanceStoreOld, ViewInv, AdvanceSafe, HeadsApart, ViewsOn
  <1>2. QED
    BY Invariance, ViewInvariance, <1>1, PTL DEF Spec, OldHeadReplacedUnused

-----------------------------------------------------------------------------
(***************************************************************************)
(* The ring.  DynamicExtension gives the buffer no capacity of its own, so *)
(* it has twice the high watermark; the position of an append is its index *)
(* modulo the capacity as long as the index is not truncated to something  *)
(* else by append's int32_t.                                               *)
(***************************************************************************)
RingLargeEnough == Cap >= 2 * HWM

PositionsExact == \A i \in 0..MaxTail : Pos(i) = i % Cap

\* An index below 2^31 is not changed by the int32_t.
LEMMA SmallIndicesExact ==
  ASSUME MaxTail < IntModulus \div 2
  PROVE  PositionsExact
  <1> SUFFICES ASSUME NEW i \in 0..MaxTail PROVE Pos(i) = i % Cap
    BY DEF PositionsExact
  <1>1. i \in Nat /\ i < IntModulus \div 2 /\ i < IntModulus
    BY BufferAssumption
  <1>2. i % IntModulus = i
    BY <1>1, BufferAssumption
  <1>3. QED
    BY <1>1, <1>2 DEF Pos

\* The quotient and the remainder of an index.
LEMMA Division ==
  ASSUME NEW c \in Nat \ {0}, NEW i \in Nat
  PROVE  i \div c \in Nat /\ i % c \in Nat /\ i = c * (i \div c) + (i % c)
  <1>1. i \div c \in Nat
    OBVIOUS
  <1>2. i % c \in Nat
    OBVIOUS
  <1>3. i = c * (i \div c) + (i % c)
    OBVIOUS
  <1>4. QED
    BY <1>1, <1>2, <1>3

\* Two indices that share a slot are at least one lap of the ring apart.
LEMMA LapsApart ==
  ASSUME NEW c \in Nat \ {0}, NEW i \in Nat, NEW j \in Nat, i % c = j % c, j < i + c
  PROVE  j <= i
  <1>1. PICK q \in Nat, p \in Nat, r \in Nat : i = c * q + r /\ j = c * p + r
    <2>1. i \div c \in Nat /\ i % c \in Nat /\ i = c * (i \div c) + (i % c)
      BY Division
    <2>2. j \div c \in Nat /\ j = c * (j \div c) + (i % c)
      BY Division
    <2>3. QED
      BY <2>1, <2>2, Zenon
  <1>2. c * q \in Nat /\ c * p \in Nat
    BY <1>1
  <1>3. CASE p <= q
    <2>1. c * p <= c * q
      BY <1>1, <1>3
    <2>2. QED
      BY <1>1, <1>2, <2>1
  <1>4. CASE q + 1 <= p
    <2>1. c * (q + 1) <= c * p
      BY <1>1, <1>4
    <2>2. c * (q + 1) = c * q + c
      BY <1>1
    <2>3. c * q + c <= c * p
      BY <2>1, <2>2
    <2>4. QED
      BY <1>1, <1>2, <2>3
  <1>5. QED
    BY <1>1, <1>3, <1>4

\* A slot is fresh, or holds the record of an index that was claimed and that belongs
\* in this slot.
SlotsOwned ==
  \A p \in 0..(Cap - 1) :
    m_data[p].rec = None \/ (m_data[p].rec < m_tail /\ m_data[p].rec % Cap = p)

\* Only the write of an append puts a record into a slot, and it is its own.
LEMMA SlotsStayOwned ==
  ASSUME PositionsExact, IInv, SlotsOwned, [Next]_vars
  PROVE  SlotsOwned'
  <1> USE BufferAssumption
  <1>1. /\ m_tail \in Nat /\ m_data \in [0..(Cap - 1) -> Slot]
        /\ \A p \in 0..(Cap - 1) : m_data[p].rec \in {None} \cup 0..MaxTail
    BY DEF IInv, TypeOK, SharedType, Slot
  <1>2. ASSUME m_data' = m_data, m_tail' \in Nat, m_tail <= m_tail'
        PROVE  SlotsOwned'
    BY <1>1, <1>2 DEF SlotsOwned, None
  <1>3. ASSUME NEW w \in Writers, Append(w)
        PROVE  SlotsOwned'
    <2>1. CASE AppendWrite(w)
      <3>1. /\ old_value[w] \in 0..MaxTail /\ old_value[w] < m_tail
            /\ Pos(old_value[w]) = old_value[w] % Cap
        BY <2>1 DEF AppendWrite, IInv, UniqueClaims, DataBound, TypeOK, SharedType, WriterType,
             PositionsExact
      <3>2. m_tail' = m_tail /\ m_data' = [m_data EXCEPT ![old_value[w] % Cap] =
               [rec |-> old_value[w], ts |-> wts[w], vis |-> FALSE]]
        BY <2>1, <3>1 DEF AppendWrite
      <3>3. QED
        BY <1>1, <3>1, <3>2 DEF SlotsOwned
    <2>2. CASE AppendSetVisible(w)
      <3> DEFINE p == Pos(old_value[w])
      <3>1. m_tail' = m_tail /\ m_data' = [m_data EXCEPT ![p] =
               [rec |-> m_data[p].rec, ts |-> m_data[p].ts, vis |-> TRUE]]
        BY <2>2 DEF AppendSetVisible
      <3> HIDE DEF p
      <3>2. \A q \in 0..(Cap - 1) : m_data'[q].rec = m_data[q].rec
        BY <1>1, <3>1
      <3>3. QED
        BY <3>1, <3>2 DEF SlotsOwned
    <2>3. CASE CountLoadTail(w) \/ CheckLowWatermark(w) \/ AppendLoadTail(w) \/ AppendCheckFull(w) \/ AppendCas(w) \/ AppendRetry(w)
                 \/ AppendCountTombstone(w)
      <3>1. m_data' = m_data /\ m_tail' \in Nat /\ m_tail <= m_tail'
        BY <1>1, <2>3 DEF CountLoadTail, CheckLowWatermark, AppendLoadTail, AppendCheckFull, AppendCas, AppendRetry,
             AppendCountTombstone, atomics
      <3>2. QED
        BY <1>2, <3>1
    <2>4. QED
      BY <1>3, <2>1, <2>2, <2>3 DEF Append
  <1>4. ASSUME NEW v \in Viewers, View(v)
        PROVE  SlotsOwned'
    BY <1>1, <1>2, <1>4, ViewerFrame DEF IInv
  <1>5. ASSUME Flush \/ UNCHANGED vars
        PROVE  SlotsOwned'
    <2>1. m_data' = m_data /\ m_tail' = m_tail
      BY <1>5 DEF Flush, FlushCopy, RetireEpoch, AdvanceCheck, AdvanceExchange,
           AdvanceStoreOld, InstallEpoch, atomics, vars
    <2>2. QED
      BY <1>1, <1>2, <2>1
  <1>6. ASSUME NEW w \in Writers, ScheduleFlush(w)
        PROVE  SlotsOwned'
    BY <1>1, <1>2, <1>6 DEF ScheduleFlush, atomics
  <1>7. QED
    BY <1>3, <1>4, <1>5, <1>6 DEF Next, Aborted

\* The tail is never more than two buffers ahead of where a live view starts.
LEMMA ViewsWithinTwoBuffers ==
  ASSUME IInv, ViewInv, NEW v \in LiveViews
  PROVE  m_tail <= target[v] + 2 * HWM
  <1>1. /\ m_tail \in Nat /\ m_head.idx \in Nat /\ m_old_head.idx \in Nat /\ cur_hd.idx \in Nat
        /\ HWM \in Nat /\ m_tail - m_head.idx <= HWM
    BY BufferAssumption DEF IInv, TypeOK, SharedType, FlusherType, BufferHead, Occupancy
  <1>2. target[v] \in {m_head.idx, TrailingHead}
    BY DEF ViewInv, ViewsProtected, AdvanceSafe, TrailingHead
  <1>3. m_head.idx <= TrailingHead + HWM /\ TrailingHead \in Nat
    BY <1>1 DEF ViewInv, HeadsApart, TrailingHead
  <1>4. QED
    BY <1>1, <1>2, <1>3

\* In the ring that the framework builds, no append writes over a slot of a live view,
\* however far the writers get ahead of a query that keeps its view.
THEOREM ViewsAreNotOverwritten ==
  ASSUME RingLargeEnough, PositionsExact
  PROVE  Spec => []ViewNotOverwritten
  <1> USE BufferAssumption
  <1>1. Init => SlotsOwned
    BY DEF Init, SlotsOwned
  <1>2. IInv /\ SlotsOwned /\ [Next]_vars => SlotsOwned'
    BY SlotsStayOwned
  <1>3. IInv /\ ViewInv /\ SlotsOwned => ViewNotOverwritten
    <2> SUFFICES ASSUME IInv, ViewInv, SlotsOwned, NEW v \in LiveViews,
                        NEW i \in target[v]..(vtail[v] - 1)
                 PROVE  m_data[i % Cap].rec <= i
      BY DEF ViewNotOverwritten
    <2>1. v \in Viewers /\ target[v] \in Nat /\ vtail[v] \in Nat /\ i \in Nat /\ target[v] <= i
      BY DEF LiveViews, IInv, TypeOK, ViewerType
    <2>2. i % Cap \in 0..(Cap - 1)
      BY <2>1
    <2> DEFINE j == m_data[i % Cap].rec
    <2>3. j \in {None} \cup 0..MaxTail
      BY <2>2 DEF IInv, TypeOK, SharedType, Slot
    <2>4. CASE j = None
      BY <2>1, <2>4 DEF None
    <2>5. CASE j # None
      <3>1. j \in Nat /\ j < m_tail /\ j % Cap = i % Cap
        BY <2>2, <2>3, <2>5 DEF SlotsOwned
      <3>2. j < i + Cap
        <4>1. m_tail <= target[v] + 2 * HWM /\ m_tail \in Nat
          BY ViewsWithinTwoBuffers DEF IInv, TypeOK, SharedType
        <4> HIDE DEF j
        <4>2. QED
          BY <2>1, <3>1, <4>1 DEF RingLargeEnough
      <3> HIDE DEF j
      <3>3. j <= i
        <4>1. Cap \in Nat \ {0}
          OBVIOUS
        <4>2. QED
          BY <2>1, <3>1, <3>2, <4>1, LapsApart, Zenon
      <3>4. QED
        BY <3>3 DEF j
    <2>6. QED
      BY <2>4, <2>5
  <1>4. QED
    BY <1>1, <1>2, <1>3, Invariance, ViewInvariance, PTL DEF Spec
=============================================================================
