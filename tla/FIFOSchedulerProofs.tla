------------------------ MODULE FIFOSchedulerProofs ------------------------
(***************************************************************************)
(* Proofs about FIFOScheduler for any finite pool and any number of jobs.  *)
(***************************************************************************)
EXTENDS FIFOScheduler, FiniteSetTheorems, SequenceTheorems, TLAPS

Busy == {w \in Workers : worker[w] \notin States}

\* The timestamp of the oldest job that is neither started nor lost.
Oldest == Len(started) + Cardinality(dropped)

\* The pool is stopped only once, and nothing is lost before.
StopOrder ==
  IF owner \in {"up", "stop", "join pool"}
    THEN dropped = {}
    ELSE \A w \in Workers : worker[w] = Exited

\* Jobs move in the order of their timestamps: those started, then those lost with the
\* pool, then those in its queue, then those in m_task_queue.
InOrder ==
  /\ \A i \in DOMAIN started : started[i] = i - 1
  /\ dropped = Len(started)..(Oldest - 1)
  /\ \A i \in DOMAIN pool_queue : pool_queue[i] = Oldest + i - 1
  /\ Oldest + Len(pool_queue) <= m_counter
  /\ m_task_queue = (Oldest + Len(pool_queue))..(m_counter - 1)

\* A job that was started runs in one thread, or is done.
StartedOnce ==
  /\ Running \cup done = 0..(Len(started) - 1)
  /\ Running \cap done = {}
  /\ \A v, w \in Busy : worker[v] = worker[w] => v = w
  /\ Cardinality(Busy) + Cardinality(done) = Len(started)

IInv == TypeOK /\ StopOrder /\ InOrder /\ StartedOnce

-----------------------------------------------------------------------------
\* The first of the waiting jobs is the one that schedule_next takes.
LEMMA MinOfInterval ==
  ASSUME NEW a \in Int, NEW b \in Int, a <= b
  PROVE  Min(a..b) = a
  BY DEF Min

\* The elements of a sequence that counts up from a.
LEMMA CountingSeq ==
  ASSUME NEW T, NEW s \in Seq(T), NEW a \in Nat, \A i \in DOMAIN s : s[i] = a + i - 1
  PROVE  ToSet(s) = a..(a + Len(s) - 1)
  <1>1. Len(s) \in Nat /\ DOMAIN s = 1..Len(s)
    BY LenProperties
  <1>2. ASSUME NEW x \in ToSet(s)
        PROVE  x \in a..(a + Len(s) - 1)
    <2>1. PICK i \in DOMAIN s : x = s[i]
      BY DEF ToSet
    <2>2. QED
      BY <1>1, <2>1
  <1>3. ASSUME NEW x \in a..(a + Len(s) - 1)
        PROVE  x \in ToSet(s)
    <2>1. (x - a) + 1 \in 1..Len(s)
      BY <1>1
    <2>2. s[(x - a) + 1] = x
      BY <1>1, <2>1
    <2>3. QED
      BY <1>1, <2>1, <2>2 DEF ToSet
  <1>4. QED
    BY <1>2, <1>3

\* The size of an interval that may be empty but is no shorter.
LEMMA IntervalSize ==
  ASSUME NEW a \in Nat, NEW b \in Nat, a <= b
  PROVE  Cardinality(a..(b - 1)) = b - a
  <1>1. b - 1 \in Int /\ a \in Int
    OBVIOUS
  <1>2. Cardinality(a..(b - 1)) = IF a > b - 1 THEN 0 ELSE (b - 1) - a + 1
    BY <1>1, FS_Interval
  <1>3. QED
    BY <1>2

\* The sets of jobs and threads are finite.
LEMMA SetsFinite ==
  ASSUME TypeOK
  PROVE  /\ IsFiniteSet(done) /\ Cardinality(done) \in Nat
         /\ IsFiniteSet(dropped) /\ Cardinality(dropped) \in Nat
         /\ IsFiniteSet(Busy) /\ Cardinality(Busy) \in Nat
  <1>1. IsFiniteSet(Tasks)
    BY SchedulerAssumption, FS_Interval DEF Tasks
  <1>2. done \subseteq Tasks /\ dropped \subseteq Tasks /\ Busy \subseteq Workers
    BY DEF TypeOK, Busy
  <1>3. QED
    BY <1>1, <1>2, SchedulerAssumption, FS_Subset, FS_CardinalityType

\* An idle pool with an empty queue satisfies the invariant.
LEMMA InitIInv == Init => IInv
  <1> SUFFICES ASSUME Init PROVE IInv
    OBVIOUS
  <1> USE SchedulerAssumption DEF Init
  <1>1. TypeOK
    <2>1. worker \in [Workers -> States \cup Tasks]
      BY DEF States
    <2>2. pool_queue \in Seq(Tasks) /\ started \in Seq(Tasks)
      BY EmptySeq
    <2>3. 0 \in 0..MaxTasks
      OBVIOUS
    <2>4. QED
      BY <2>1, <2>2, <2>3 DEF TypeOK
  <1>2. Busy = {} /\ Running = {} /\ Len(started) = 0 /\ Len(pool_queue) = 0
    BY DEF Busy, Running, States
  <1>3. Cardinality(Busy) = 0 /\ Cardinality(done) = 0 /\ Cardinality(dropped) = 0
    BY <1>2, FS_EmptySet
  <1>4. Oldest = 0
    BY <1>2, <1>3 DEF Oldest
  <1>5. InOrder
    BY <1>2, <1>4 DEF InOrder
  <1>6. StartedOnce /\ StopOrder
    BY <1>2, <1>3 DEF StartedOnce, StopOrder
  <1>7. QED
    BY <1>1, <1>5, <1>6 DEF IInv

-----------------------------------------------------------------------------
(***************************************************************************)
(* Facts about the state that the steps use.                               *)
(***************************************************************************)

\* The numbers the steps count with.
LEMMA Basics ==
  ASSUME IInv
  PROVE  /\ Len(started) \in Nat /\ Len(pool_queue) \in Nat /\ Cardinality(dropped) \in Nat
         /\ Oldest \in Nat /\ m_counter \in Nat /\ m_counter <= MaxTasks /\ MaxTasks \in Nat
         /\ DOMAIN started = 1..Len(started) /\ DOMAIN pool_queue = 1..Len(pool_queue)
         /\ dropped = {} => Oldest = Len(started)
  <1>1. /\ Len(started) \in Nat /\ DOMAIN started = 1..Len(started)
        /\ Len(pool_queue) \in Nat /\ DOMAIN pool_queue = 1..Len(pool_queue)
    BY LenProperties DEF IInv, TypeOK
  <1>2. m_counter \in Nat /\ m_counter <= MaxTasks /\ MaxTasks \in Nat
    <2>1. m_counter \in 0..MaxTasks
      BY DEF IInv, TypeOK
    <2>2. QED
      BY <2>1, SchedulerAssumption
  <1>3. Cardinality(dropped) \in Nat /\ (dropped = {} => Cardinality(dropped) = 0)
    BY SetsFinite, FS_EmptySet DEF IInv
  <1>4. QED
    BY <1>1, <1>2, <1>3 DEF Oldest

\* Threads run only while the pool is not stopped, and then the head of the pool's
\* queue is the next job in order.
LEMMA WorkerFacts ==
  ASSUME IInv, NEW w \in Workers, worker[w] # Exited
  PROVE  /\ dropped = {} /\ Oldest = Len(started)
         /\ owner \in {"up", "stop", "join pool"}
         /\ pool_queue # <<>> => Head(pool_queue) = Len(started) /\ Len(pool_queue) > 0
  <1>1. dropped = {} /\ owner \in {"up", "stop", "join pool"}
    BY DEF IInv, StopOrder
  <1>2. Oldest = Len(started)
    BY <1>1, Basics
  <1>3. ASSUME pool_queue # <<>>
        PROVE  Head(pool_queue) = Len(started) /\ Len(pool_queue) > 0
    <2>1. Len(pool_queue) > 0 /\ 1 \in DOMAIN pool_queue /\ Head(pool_queue) = pool_queue[1]
      <3>1. pool_queue \in Seq(Tasks)
        BY DEF IInv, TypeOK
      <3>2. Len(pool_queue) \in Nat \ {0}
        BY <1>3, <3>1, EmptySeq
      <3>3. QED
        BY <3>1, <3>2, LenProperties
    <2>2. pool_queue[1] = Oldest
      BY <2>1, Basics DEF IInv, InOrder
    <2>3. QED
      BY <1>2, <2>1, <2>2
  <1>4. QED
    BY <1>1, <1>2, <1>3

\* Steps of run, periodic_wakeup and shutdown that move no job.
LEMMA QuietStep ==
  ASSUME IInv,
         \/ RunWait \/ RunSpurious \/ RunWoken \/ RunLoop \/ RunCheck
         \/ PeriodicNotify \/ PeriodicCheck \/ StoreFlag \/ StopPool \/ NotifyAll \/ Destroy
  PROVE  IInv'
  <1> USE DEF IInv
  <1>1. UNCHANGED <<m_counter, m_task_queue, pool_queue, worker, done, dropped, started>>
    BY DEF RunWait, RunSpurious, RunWoken, RunLoop, RunCheck, PeriodicNotify, PeriodicCheck,
           StoreFlag, StopPool, NotifyAll, Destroy, pool, history
  <1>2. /\ m_shutdown' \in BOOLEAN
        /\ run' \in {"lock", "waiting", "woken", "loop", "next", "check", "exited"}
        /\ wakeup' \in {"sleep", "check", "exited"}
        /\ owner' \in {"up", "stop", "join pool", "notify", "join", "gone"}
        /\ run' = "next" => m_task_queue # {}
    BY DEF RunWait, RunSpurious, RunWoken, RunLoop, RunCheck, PeriodicNotify, PeriodicCheck,
           StoreFlag, StopPool, NotifyAll, Destroy, Notified, TypeOK
  <1>3. TypeOK'
    BY <1>1, <1>2 DEF TypeOK
  <1>4. StopOrder'
    BY <1>1 DEF StopOrder, RunWait, RunSpurious, RunWoken, RunLoop, RunCheck, PeriodicNotify, PeriodicCheck,
           StoreFlag, StopPool, NotifyAll, Destroy
  <1>5. InOrder' /\ StartedOnce'
    BY <1>1 DEF InOrder, Oldest, StartedOnce, Busy, Running
  <1>6. QED
    BY <1>3, <1>4, <1>5

\* schedule_job queues the newest job behind all the others.
LEMMA ScheduleJobKeeps ==
  ASSUME IInv, ScheduleJob
  PROVE  IInv'
  <1> USE DEF IInv
  <1>1. /\ UNCHANGED <<m_shutdown, wakeup, owner, pool_queue, worker, done, dropped, started>>
        /\ m_counter < MaxTasks /\ m_counter' = m_counter + 1
        /\ m_task_queue' = m_task_queue \cup {m_counter} /\ run' = Notified
    BY DEF ScheduleJob, pool, history
  <1>2. m_counter' \in 0..MaxTasks /\ m_counter \in Tasks
    BY <1>1, Basics DEF Tasks
  <1>3. TypeOK'
    BY <1>1, <1>2 DEF TypeOK, Notified
  <1>4. StopOrder' /\ StartedOnce'
    BY <1>1 DEF StopOrder, StartedOnce, Busy, Running
  <1>5. Oldest' = Oldest
    BY <1>1 DEF Oldest
  <1>6. m_task_queue' = (Oldest + Len(pool_queue))..(m_counter' - 1)
    BY <1>1, Basics DEF InOrder
  <1>7. InOrder'
    BY <1>1, <1>5, <1>6, Basics DEF InOrder
  <1>8. QED
    BY <1>3, <1>4, <1>7

\* schedule_next moves the oldest waiting job to the end of the pool's queue.
LEMMA ScheduleNextKeeps ==
  ASSUME IInv, ScheduleNext
  PROVE  IInv'
  <1> USE DEF IInv
  <1> DEFINE lo == Oldest + Len(pool_queue)
  <1>1. /\ UNCHANGED <<m_counter, m_shutdown, wakeup, owner, worker, done, dropped, started>>
        /\ run = "next" /\ run' = "loop"
        /\ m_task_queue' = m_task_queue \ {Min(m_task_queue)}
        /\ pool_queue' = Append(pool_queue, Min(m_task_queue))
    BY DEF ScheduleNext, history
  <1>2. /\ m_task_queue = lo..(m_counter - 1) /\ lo <= m_counter - 1
        /\ lo \in Nat /\ m_counter \in Nat
    <2>1. m_task_queue # {} /\ m_task_queue = lo..(m_counter - 1)
      BY <1>1 DEF TypeOK, InOrder
    <2>2. QED
      BY <2>1, Basics
  <1>3. Min(m_task_queue) = lo /\ lo \in Tasks
    <2>1. Min(m_task_queue) = lo
      BY <1>2, MinOfInterval
    <2>2. lo \in m_task_queue
      BY <1>2
    <2>3. QED
      BY <2>1, <2>2 DEF TypeOK
  <1>4. pool_queue' = Append(pool_queue, lo) /\ m_task_queue' = (lo + 1)..(m_counter - 1)
    BY <1>1, <1>2, <1>3
  <1>5. TypeOK'
    <2>1. pool_queue' \in Seq(Tasks)
      BY <1>3, <1>4, AppendProperties DEF TypeOK
    <2>2. m_task_queue' \subseteq Tasks
      BY <1>1 DEF TypeOK
    <2>3. QED
      BY <1>1, <2>1, <2>2 DEF TypeOK
  <1>6. StopOrder' /\ StartedOnce'
    BY <1>1 DEF StopOrder, StartedOnce, Busy, Running
  <1>7. Oldest' = Oldest
    BY <1>1 DEF Oldest
  <1>8. /\ Len(pool_queue') = Len(pool_queue) + 1
        /\ DOMAIN pool_queue' = 1..(Len(pool_queue) + 1)
        /\ \A i \in DOMAIN pool_queue' : pool_queue'[i] = Oldest + i - 1
    <2>1. /\ Len(pool_queue') = Len(pool_queue) + 1
          /\ DOMAIN pool_queue' = 1..(Len(pool_queue) + 1)
          /\ pool_queue'[Len(pool_queue) + 1] = lo
          /\ \A i \in 1..Len(pool_queue) : pool_queue'[i] = pool_queue[i]
      <3>1. pool_queue \in Seq(Tasks)
        BY DEF TypeOK
      <3> HIDE DEF lo
      <3>2. QED
        BY <1>3, <1>4, <3>1, AppendProperties, LenProperties
    <2>2. \A i \in 1..Len(pool_queue) : pool_queue'[i] = Oldest + i - 1
      BY <2>1, Basics DEF InOrder
    <2>3. pool_queue'[Len(pool_queue) + 1] = Oldest + (Len(pool_queue) + 1) - 1
      BY <2>1, Basics
    <2>4. Len(pool_queue) \in Nat
      BY Basics
    <2>5. QED
      BY <2>1, <2>2, <2>3, <2>4
  <1>9. InOrder'
    <2>1. Oldest' + Len(pool_queue') = lo + 1
      BY <1>7, <1>8, Basics
    <2>2. Oldest' + Len(pool_queue') <= m_counter'
      BY <1>1, <1>2, <2>1
    <2>3. m_task_queue' = (Oldest' + Len(pool_queue'))..(m_counter' - 1)
      BY <1>1, <1>4, <2>1
    <2>4. QED
      BY <1>1, <1>7, <1>8, <2>2, <2>3 DEF InOrder
  <1>10. QED
    BY <1>5, <1>6, <1>9

-----------------------------------------------------------------------------
(***************************************************************************)
(* The pool.                                                               *)
(***************************************************************************)

\* A task is not mistaken for the state of a thread.
LEMMA TaskIsNoState ==
  /\ Tasks \cap States = {} /\ Idle \in States /\ Starting \in States /\ Exited \in States
  /\ Idle # Exited /\ Starting # Exited
  BY SchedulerAssumption DEF Tasks, States, Idle, Starting, Exited

\* What a thread that is not running a job changes when it starts or exits: nothing
\* about jobs.
LEMMA WorkerStateKeeps ==
  ASSUME IInv, NEW w \in Workers, WorkerStart(w) \/ WorkerExit(w)
  PROVE  IInv'
  <1> USE TaskIsNoState DEF IInv
  <1>1. PICK v \in States :
          /\ worker[w] \in States /\ worker[w] # Exited /\ worker' = [worker EXCEPT ![w] = v]
          /\ UNCHANGED <<m_counter, m_task_queue, m_shutdown, run, wakeup, owner, pool_queue,
                         done, dropped, started>>
    BY DEF WorkerStart, WorkerExit, threads, history
  <1>2. TypeOK'
    BY <1>1 DEF TypeOK
  <1>3. StopOrder'
    BY <1>1, WorkerFacts DEF StopOrder
  <1>4. InOrder'
    BY <1>1 DEF InOrder, Oldest
  <1>5. Busy' = Busy /\ \A x \in Busy : worker'[x] = worker[x]
    BY <1>1 DEF Busy, TypeOK
  <1>6. Running = {worker[x] : x \in Busy} /\ Running' = {worker'[x] : x \in Busy'}
    BY DEF Running, Busy
  <1>7. Running' = Running
    BY <1>5, <1>6
  <1>8. StartedOnce'
    BY <1>1, <1>5, <1>7 DEF StartedOnce
  <1>9. QED
    BY <1>2, <1>3, <1>4, <1>8

\* A thread takes the head of the pool's queue: the next job in order, which no thread
\* has run or runs.
LEMMA TakeNext ==
  ASSUME IInv, NEW w \in Workers, worker[w] # Exited, pool_queue # <<>>,
         started' = Append(started, Head(pool_queue)), pool_queue' = Tail(pool_queue),
         UNCHANGED <<m_counter, m_task_queue, dropped>>
  PROVE  /\ InOrder' /\ started' \in Seq(Tasks) /\ pool_queue' \in Seq(Tasks)
         /\ Len(started') = Len(started) + 1
         /\ Head(pool_queue) = Len(started) /\ Len(started) \in Tasks
  <1> USE DEF IInv
  <1>1. /\ dropped = {} /\ Oldest = Len(started) /\ Head(pool_queue) = Len(started)
        /\ Len(pool_queue) > 0
    BY WorkerFacts
  <1>2. pool_queue \in Seq(Tasks) /\ started \in Seq(Tasks)
    BY DEF TypeOK
  <1>3. /\ Len(started) \in Tasks /\ pool_queue' \in Seq(Tasks)
        /\ Len(pool_queue') = Len(pool_queue) - 1
        /\ \A i \in 1..Len(pool_queue') : pool_queue'[i] = pool_queue[i + 1]
    BY <1>1, <1>2, HeadTailProperties
  <1>4. /\ started' \in Seq(Tasks) /\ Len(started') = Len(started) + 1
        /\ \A i \in 1..Len(started) : started'[i] = started[i]
        /\ started'[Len(started) + 1] = Len(started)
    BY <1>1, <1>2, <1>3, AppendProperties
  <1>5. /\ DOMAIN started' = 1..(Len(started) + 1)
        /\ DOMAIN pool_queue' = 1..(Len(pool_queue) - 1)
    BY <1>3, <1>4, LenProperties
  <1>6. Oldest' = Oldest + 1
    BY <1>4, Basics DEF Oldest
  <1>7. InOrder'
    <2>0. Len(started) \in Nat /\ Len(pool_queue) \in Nat /\ Oldest \in Nat /\ m_counter \in Nat
      BY Basics
    <2>1. \A i \in DOMAIN started' : started'[i] = i - 1
      <3>1. \A i \in 1..Len(started) : started'[i] = i - 1
        BY <1>4, Basics DEF InOrder
      <3>2. QED
        BY <1>4, <1>5, <2>0, <3>1
    <2>2. dropped' = Len(started')..(Oldest' - 1)
      BY <1>1, <1>4, <1>6, <2>0
    <2>3. \A i \in DOMAIN pool_queue' : pool_queue'[i] = Oldest' + i - 1
      <3>1. \A i \in 1..Len(pool_queue) : pool_queue[i] = Oldest + i - 1
        BY Basics DEF InOrder
      <3>2. QED
        BY <1>3, <1>5, <1>6, <2>0, <3>1
    <2>4. Oldest' + Len(pool_queue') = Oldest + Len(pool_queue)
      BY <1>3, <1>6, <2>0
    <2>5. QED
      BY <2>1, <2>2, <2>3, <2>4 DEF InOrder
  <1>8. QED
    BY <1>1, <1>3, <1>4, <1>7

\* The tasks that run are the ones the busy workers hold.
LEMMA BusyFacts ==
  ASSUME IInv
  PROVE  /\ Busy \subseteq Workers /\ \A w \in Busy : worker[w] \in Tasks /\ worker[w] # Exited
         /\ Running = {worker[x] : x \in Busy} /\ Running' = {worker'[x] : x \in Busy'}
         /\ \A x \in Running \cup done : x < Len(started)
         /\ Len(started) \in Nat
  <1>1. Busy \subseteq Workers /\ \A w \in Busy : worker[w] \in Tasks /\ worker[w] # Exited
    BY TaskIsNoState DEF IInv, TypeOK, Busy
  <1>2. Running = {worker[x] : x \in Busy} /\ Running' = {worker'[x] : x \in Busy'}
    BY DEF Running, Busy
  <1>3. Len(started) \in Nat /\ Running \cup done = 0..(Len(started) - 1)
    BY Basics DEF IInv, StartedOnce
  <1>4. \A x \in Running \cup done : x < Len(started)
    BY <1>3
  <1>5. QED
    BY <1>1, <1>2, <1>3, <1>4

\* An idle thread begins the next job.
LEMMA WorkerBeginKeeps ==
  ASSUME IInv, NEW w \in Workers, WorkerBegin(w)
  PROVE  IInv'
  <1> USE DEF IInv
  <1>1. /\ worker[w] = Idle /\ pool_queue # <<>>
        /\ worker' = [worker EXCEPT ![w] = Head(pool_queue)]
        /\ started' = Append(started, Head(pool_queue)) /\ pool_queue' = Tail(pool_queue)
        /\ UNCHANGED <<m_counter, m_task_queue, m_shutdown, run, wakeup, owner, done, dropped>>
    BY DEF WorkerBegin, threads
  <1>2. /\ InOrder' /\ started' \in Seq(Tasks) /\ pool_queue' \in Seq(Tasks)
        /\ Len(started') = Len(started) + 1
        /\ Head(pool_queue) = Len(started) /\ Len(started) \in Tasks
    BY <1>1, TakeNext, TaskIsNoState
  <1>3. TypeOK'
    BY <1>1, <1>2 DEF TypeOK
  <1>4. StopOrder'
    BY <1>1, WorkerFacts, TaskIsNoState DEF StopOrder
  <1>5. /\ Busy' = Busy \cup {w} /\ w \notin Busy /\ worker'[w] = Len(started)
        /\ \A x \in Busy : worker'[x] = worker[x]
    BY <1>1, <1>2, TaskIsNoState DEF Busy, TypeOK
  <1>6. Running' = Running \cup {Len(started)}
    BY <1>5, BusyFacts
  <1>7. StartedOnce'
    <2>1. Running' \cup done' = 0..(Len(started') - 1)
      <3>1. Running \cup done = 0..(Len(started) - 1)
        BY DEF StartedOnce
      <3>2. Running' \cup done' = (0..(Len(started) - 1)) \cup {Len(started)}
        BY <1>1, <1>6, <3>1
      <3>3. Len(started) \in Nat
        BY BusyFacts
      <3>4. QED
        BY <1>2, <3>2, <3>3
    <2>2. Running' \cap done' = {}
      BY <1>1, <1>6, BusyFacts DEF StartedOnce
    <2>3. \A v, x \in Busy' : worker'[v] = worker'[x] => v = x
      <3>1. \A x \in Busy : worker[x] # Len(started)
        <4>1. \A x \in Running : x < Len(started)
          BY BusyFacts
        <4>2. \A x \in Busy : worker[x] \in Running
          BY BusyFacts
        <4>3. \A x \in Busy : worker[x] < Len(started)
          BY <4>1, <4>2
        <4>4. Len(started) \in Nat
          BY BusyFacts
        <4>5. QED
          BY <4>3, <4>4
      <3>2. QED
        BY <1>5, <3>1 DEF StartedOnce
    <2>4. Cardinality(Busy') = Cardinality(Busy) + 1
      BY <1>5, SetsFinite, FS_AddElement
    <2>5. Cardinality(Busy') + Cardinality(done') = Len(started')
      BY <1>1, <1>2, <2>4, SetsFinite, BusyFacts DEF StartedOnce
    <2>6. QED
      BY <2>1, <2>2, <2>3, <2>5 DEF StartedOnce
  <1>8. QED
    BY <1>2, <1>3, <1>4, <1>7

\* A thread ends its job, and begins the next one if the pool has one.
LEMMA WorkerEndKeeps ==
  ASSUME IInv, NEW w \in Workers, WorkerEnd(w)
  PROVE  IInv'
  <1> USE DEF IInv
  <1>1. /\ w \in Busy /\ done' = done \cup {worker[w]}
        /\ UNCHANGED <<m_counter, m_task_queue, m_shutdown, run, wakeup, owner, dropped>>
    BY DEF WorkerEnd, threads, Busy
  <1>2. /\ worker[w] \in Tasks /\ worker[w] # Exited /\ worker[w] \in Running /\ worker[w] \notin done
    <2>1. worker[w] \in Running
      BY <1>1, BusyFacts
    <2>2. QED
      BY <1>1, <2>1, BusyFacts DEF StartedOnce
  <1>3. Cardinality(done') = Cardinality(done) + 1 /\ done' \subseteq Tasks
    BY <1>1, <1>2, SetsFinite, FS_AddElement DEF TypeOK
  <1>4. StopOrder'
    BY <1>1, <1>2, WorkerFacts DEF StopOrder
  <1>5. \A x \in Busy \ {w} : worker[x] # worker[w]
    BY <1>1 DEF StartedOnce
  <1>6. Running \cup done = 0..(Len(started) - 1) /\ Running \cap done = {}
    BY DEF StartedOnce
  <1>7. CASE pool_queue = <<>>
    <2>1. /\ worker' = [worker EXCEPT ![w] = Idle] /\ UNCHANGED <<pool_queue, started>>
      BY <1>7 DEF WorkerEnd
    <2>2. TypeOK'
      BY <1>1, <1>3, <2>1, TaskIsNoState DEF TypeOK
    <2>3. InOrder'
      BY <1>1, <2>1 DEF InOrder, Oldest
    <2>4. Busy' = Busy \ {w} /\ \A x \in Busy \ {w} : worker'[x] = worker[x]
      BY <2>1, TaskIsNoState DEF Busy, TypeOK
    <2>5. Running' = Running \ {worker[w]}
      <3>1. Running = {worker[x] : x \in Busy} /\ Running' = {worker'[x] : x \in Busy'}
        BY BusyFacts
      <3>2. QED
        BY <1>1, <1>5, <2>4, <3>1
    <2>6. Running' \cup done' = 0..(Len(started') - 1) /\ Running' \cap done' = {}
      BY <1>1, <1>2, <1>6, <2>1, <2>5
    <2>7. Cardinality(Busy') = Cardinality(Busy) - 1
      BY <1>1, <2>4, SetsFinite, FS_RemoveElement
    <2>8. Cardinality(Busy') + Cardinality(done') = Len(started')
      BY <1>3, <2>1, <2>7, SetsFinite DEF StartedOnce
    <2>9. StartedOnce'
      BY <2>4, <2>6, <2>8 DEF StartedOnce
    <2>10. QED
      BY <1>4, <2>2, <2>3, <2>9
  <1>8. CASE pool_queue # <<>>
    <2>1. /\ worker' = [worker EXCEPT ![w] = Head(pool_queue)]
          /\ started' = Append(started, Head(pool_queue)) /\ pool_queue' = Tail(pool_queue)
      BY <1>8 DEF WorkerEnd
    <2>2. /\ InOrder' /\ started' \in Seq(Tasks) /\ pool_queue' \in Seq(Tasks)
          /\ Len(started') = Len(started) + 1
          /\ Head(pool_queue) = Len(started) /\ Len(started) \in Tasks
      BY <1>1, <1>2, <1>8, <2>1, TakeNext
    <2>3. TypeOK'
      BY <1>1, <1>3, <2>1, <2>2 DEF TypeOK
    <2>4. /\ Busy' = Busy /\ worker'[w] = Len(started)
          /\ \A x \in Busy \ {w} : worker'[x] = worker[x]
      BY <1>1, <2>1, <2>2, TaskIsNoState DEF Busy, TypeOK
    <2>5. Running' = (Running \ {worker[w]}) \cup {Len(started)}
      <3>1. Running = {worker[x] : x \in Busy} /\ Running' = {worker'[x] : x \in Busy'}
        BY BusyFacts
      <3>2. QED
        BY <1>1, <1>5, <2>4, <3>1
    <2>6. Len(started) \in Nat /\ \A x \in Running \cup done : x # Len(started)
      <3>1. Len(started) \in Nat /\ \A x \in Running \cup done : x < Len(started)
        BY BusyFacts
      <3>2. QED
        BY <3>1
    <2>7. Running' \cup done' = 0..(Len(started') - 1)
      <3>1. Running' \cup done' = (0..(Len(started) - 1)) \cup {Len(started)}
        BY <1>1, <1>2, <1>6, <2>5
      <3>2. QED
        BY <2>2, <2>6, <3>1
    <2>8. Running' \cap done' = {}
      BY <1>1, <1>2, <1>6, <2>5, <2>6
    <2>9. \A v, x \in Busy' : worker'[v] = worker'[x] => v = x
      <3>1. \A x \in Busy : worker[x] \in Running
        BY BusyFacts
      <3>2. \A x \in Busy \ {w} : worker'[x] # Len(started)
        BY <2>4, <2>6, <3>1
      <3>3. QED
        BY <1>1, <2>4, <3>2 DEF StartedOnce
    <2>10. Cardinality(Busy') + Cardinality(done') = Len(started')
      BY <1>3, <2>2, <2>4, SetsFinite DEF StartedOnce
    <2>11. StartedOnce'
      BY <2>7, <2>8, <2>9, <2>10 DEF StartedOnce
    <2>12. QED
      BY <1>4, <2>2, <2>3, <2>11
  <1>9. QED
    BY <1>7, <1>8

\* The queue of a stopped pool is lost: the jobs after those that were started.
LEMMA JoinPoolKeeps ==
  ASSUME IInv, JoinPool
  PROVE  IInv'
  <1> USE DEF IInv
  <1>1. /\ owner = "join pool" /\ owner' = "notify" /\ \A w \in Workers : worker[w] = Exited
        /\ dropped' = dropped \cup ToSet(pool_queue) /\ pool_queue' = <<>>
        /\ UNCHANGED <<m_counter, m_task_queue, m_shutdown, run, wakeup, worker, done, started>>
    BY DEF JoinPool
  <1>2. /\ dropped = {} /\ Oldest = Len(started)
        /\ Len(started) \in Nat /\ Len(pool_queue) \in Nat /\ m_counter \in Nat
    BY <1>1, Basics DEF StopOrder
  <1>3. ToSet(pool_queue) = Len(started)..(Len(started) + Len(pool_queue) - 1)
    <2>1. \A i \in DOMAIN pool_queue : pool_queue[i] = Len(started) + i - 1
      BY <1>2 DEF InOrder
    <2>2. QED
      BY <1>2, <2>1, CountingSeq DEF TypeOK
  <1>4. dropped' = Len(started)..(Len(started) + Len(pool_queue) - 1)
    BY <1>1, <1>2, <1>3
  <1>5. Cardinality(dropped') = Len(pool_queue)
    <2>1. PICK b \in Nat : b = Len(started) + Len(pool_queue)
      BY <1>2
    <2>2. Cardinality(Len(started)..(b - 1)) = b - Len(started)
      BY <1>2, <2>1, IntervalSize
    <2>3. QED
      BY <1>2, <1>4, <2>1, <2>2
  <1>6. Oldest' = Oldest + Len(pool_queue) /\ Len(pool_queue') = 0 /\ pool_queue' \in Seq(Tasks)
    BY <1>1, <1>2, <1>5, EmptySeq DEF Oldest
  <1>7. TypeOK'
    <2>1. ToSet(pool_queue) \subseteq Tasks
      <3>1. pool_queue \in Seq(Tasks)
        BY DEF TypeOK
      <3>2. \A i \in DOMAIN pool_queue : pool_queue[i] \in Tasks
        BY <3>1, LenProperties, ElementOfSeq
      <3>3. QED
        BY <3>2 DEF ToSet
    <2>2. QED
      BY <1>1, <1>6, <2>1 DEF TypeOK
  <1>8. StopOrder' /\ StartedOnce'
    BY <1>1 DEF StopOrder, StartedOnce, Busy, Running
  <1>9. InOrder'
    <2>1. DOMAIN pool_queue' = {}
      BY <1>6, LenProperties
    <2>2. Oldest' + Len(pool_queue') = Oldest + Len(pool_queue)
      BY <1>2, <1>6
    <2>3. dropped' = Len(started')..(Oldest' - 1)
      <3>1. started' = started /\ Oldest' = Len(started) + Len(pool_queue)
        BY <1>1, <1>2, <1>6
      <3>2. QED
        BY <1>4, <3>1
    <2>4. /\ \A i \in DOMAIN started : started[i] = i - 1
          /\ Oldest + Len(pool_queue) <= m_counter
          /\ m_task_queue = (Oldest + Len(pool_queue))..(m_counter - 1)
      BY DEF InOrder
    <2>5. QED
      BY <1>1, <2>1, <2>2, <2>3, <2>4 DEF InOrder
  <1>10. QED
    BY <1>7, <1>8, <1>9

-----------------------------------------------------------------------------
\* Every step keeps the invariant.
LEMMA NextIInv == IInv /\ [Next]_vars => IInv'
  <1> SUFFICES ASSUME IInv, [Next]_vars PROVE IInv'
    OBVIOUS
  <1>1. CASE ScheduleJob \/ ScheduleNext \/ JoinPool
    BY <1>1, ScheduleJobKeeps, ScheduleNextKeeps, JoinPoolKeeps
  <1>2. CASE \/ RunWait \/ RunSpurious \/ RunWoken \/ RunLoop \/ RunCheck
             \/ PeriodicNotify \/ PeriodicCheck \/ StoreFlag \/ StopPool \/ NotifyAll \/ Destroy
    BY <1>2, QuietStep
  <1>3. CASE \E w \in Workers : Worker(w)
    BY <1>3, WorkerStateKeeps, WorkerBeginKeeps, WorkerEndKeeps DEF Worker
  <1>4. CASE UNCHANGED vars
    <2>1. UNCHANGED <<m_counter, m_task_queue, m_shutdown, run, wakeup, owner, pool_queue, worker,
                      done, dropped, started>>
      BY <1>4 DEF vars, threads, pool, history
    <2>2. TypeOK' /\ StopOrder'
      BY <2>1 DEF IInv, TypeOK, StopOrder
    <2>3. InOrder' /\ StartedOnce'
      BY <2>1 DEF IInv, InOrder, Oldest, StartedOnce, Busy, Running
    <2>4. QED
      BY <2>2, <2>3 DEF IInv
  <1>5. QED
    BY <1>1, <1>2, <1>3, <1>4 DEF Next, Run, PeriodicWakeup, Shutdown

\* The invariant holds in every reachable state.
LEMMA Invariance == Spec => []IInv
  BY InitIInv, NextIInv, PTL DEF Spec

\* Threads, queues and timestamps keep their types, and the assertion of schedule_next
\* holds: the queue that run tested is not emptied by anybody else.
THEOREM TypeCorrect == Spec => []TypeOK
  BY Invariance, PTL DEF IInv

\* Every job that was scheduled is in exactly one place, and jobs are started in the
\* order of schedule_job without a gap, whatever the size of the pool, whatever n_idle
\* said, and wherever a shutdown falls.
THEOREM JobsRunOnceInOrder == Spec => []RunOnceInOrder
  <1>1. IInv => RunOnceInOrder
    <2> SUFFICES ASSUME IInv PROVE RunOnceInOrder
      OBVIOUS
    <2> DEFINE S == Len(started)
               P == Len(pool_queue)
    <2>1. S \in Nat /\ P \in Nat /\ Oldest \in Nat /\ m_counter \in Nat /\ S <= Oldest
      BY Basics DEF Oldest
    <2>2. /\ dropped = S..(Oldest - 1) /\ m_task_queue = (Oldest + P)..(m_counter - 1)
          /\ Oldest + P <= m_counter /\ Running \cup done = 0..(S - 1)
          /\ Cardinality(Busy) + Cardinality(done) = S
      BY DEF IInv, InOrder, StartedOnce
    <2>3. ToSet(pool_queue) = Oldest..(Oldest + P - 1)
      BY <2>1, CountingSeq DEF IInv, InOrder, TypeOK
    <2>4. Cardinality(m_task_queue) = m_counter - (Oldest + P) /\ Cardinality(dropped) = Oldest - S
      <3>1. PICK lo \in Nat : lo = Oldest + P
        BY <2>1
      <3>2. Cardinality(lo..(m_counter - 1)) = m_counter - lo
        BY <2>1, <2>2, <3>1, IntervalSize
      <3>3. QED
        BY <2>1, <2>2, <3>1, <3>2, IntervalSize
    <2>5. Cardinality({w \in Workers : worker[w] \notin States}) = Cardinality(Busy)
      BY DEF Busy
    <2>6. 0..(m_counter - 1) =
            m_task_queue \cup ToSet(pool_queue) \cup Running \cup done \cup dropped
      <3> HIDE DEF S, P
      <3>1. 0..(m_counter - 1) =
              ((Oldest + P)..(m_counter - 1)) \cup (Oldest..(Oldest + P - 1)) \cup (0..(S - 1))
                \cup (S..(Oldest - 1))
        BY <2>1, <2>2
      <3>2. QED
        BY <2>2, <2>3, <3>1
    <2>7. m_counter = Cardinality(m_task_queue) + P + Cardinality(Busy) + Cardinality(done)
                        + Cardinality(dropped)
      <3>1. Cardinality(Busy) \in Nat /\ Cardinality(done) \in Nat
        BY SetsFinite DEF IInv
      <3> HIDE DEF S, P
      <3>2. QED
        BY <2>1, <2>2, <2>4, <3>1
    <2>8. QED
      BY <2>5, <2>6, <2>7 DEF RunOnceInOrder, EachTaskOnce, IInv, InOrder
  <1>2. QED
    BY <1>1, Invariance, PTL
=============================================================================
