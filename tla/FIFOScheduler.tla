---------------------------- MODULE FIFOScheduler ----------------------------
(***************************************************************************)
(* framework/scheduling/FIFOScheduler.h: jobs wait in a queue ordered by   *)
(* timestamp until the thread of `run` hands them to a pool of threads.    *)
(* `run` sleeps on a condition variable without a predicate, and a second  *)
(* thread wakes it up periodically until the scheduler is shut down.       *)
(*                                                                         *)
(* The pool is the library ctpl, modelled from its use here: push, n_idle, *)
(* resize and stop(true), which lets the threads finish what the pool has  *)
(* and joins them.  A task is its timestamp.                               *)
(***************************************************************************)
EXTENDS Integers, Sequences, FiniteSets, SequencesExt

CONSTANTS
  Workers,    \* the threads of the pool
  MaxTasks    \* bound: jobs scheduled

ASSUME SchedulerAssumption == Workers # {} /\ IsFiniteSet(Workers) /\ MaxTasks \in Nat

VARIABLES
  m_counter,      \* the next timestamp
  m_task_queue,   \* timestamps waiting for a thread
  m_shutdown,
  run,            \* the thread of run: what it does next, or "waiting"
  wakeup,         \* the thread of periodic_wakeup
  owner,          \* who shuts the scheduler down: the next step of it
  pool_queue,     \* tasks pushed to the pool, oldest first
  worker,         \* worker |-> Starting, Idle, Exited, or the task it runs
  done,           \* history: tasks that were run
  dropped,        \* history: tasks the pool was destroyed with
  started         \* history: tasks in the order in which they were started

threads == <<run, wakeup, owner>>
pool == <<pool_queue, worker>>
history == <<done, dropped, started>>
vars == <<m_counter, m_task_queue, m_shutdown, threads, pool, history>>

Starting == -1
Idle == -2
Exited == -3
States == {Starting, Idle, Exited}

NIdle == Cardinality({w \in Workers : worker[w] = Idle})

Running == {worker[w] : w \in {v \in Workers : worker[v] \notin States}}

Init ==
  /\ m_counter = 0 /\ m_task_queue = {} /\ m_shutdown = FALSE
  /\ run = "lock" /\ wakeup = "sleep" /\ owner = "up"
  /\ pool_queue = <<>> /\ worker = [w \in Workers |-> Starting]
  /\ done = {} /\ dropped = {} /\ started = <<>>

\* m_cv.notify_all(): only a thread that already waits is woken.
Notified == IF run = "waiting" THEN "woken" ELSE run

\* m_cv_lock, which run holds between two waits.
LockFree == run \notin {"loop", "next"}

\* schedule_job, under m_cv_lock
ScheduleJob ==
  /\ owner = "up" /\ LockFree /\ m_counter < MaxTasks
  /\ m_counter' = m_counter + 1
  /\ m_task_queue' = m_task_queue \cup {m_counter}
  /\ run' = Notified
  /\ UNCHANGED <<m_shutdown, wakeup, owner, pool, history>>

-----------------------------------------------------------------------------
(***************************************************************************)
(* run.                                                                    *)
(***************************************************************************)

\* The lock is taken, and given up by the wait.
RunWait ==
  /\ run = "lock" /\ run' = "waiting"
  /\ UNCHANGED <<m_counter, m_task_queue, m_shutdown, wakeup, owner, pool, history>>

RunSpurious ==
  /\ run = "waiting" /\ run' = "woken"
  /\ UNCHANGED <<m_counter, m_task_queue, m_shutdown, wakeup, owner, pool, history>>

RunWoken ==
  /\ run = "woken" /\ run' = "loop"
  /\ UNCHANGED <<m_counter, m_task_queue, m_shutdown, wakeup, owner, pool, history>>

\* Fault: only the idle threads are tested.
RunLoopIdle ==
  /\ run = "loop"
  /\ run' = IF NIdle > 0 THEN "next" ELSE "check"
  /\ UNCHANGED <<m_counter, m_task_queue, m_shutdown, wakeup, owner, pool, history>>

\* The condition of the inner loop; the lock is released before the outer one.
RunLoop ==
  /\ run = "loop"
  /\ run' = IF m_task_queue # {} /\ NIdle > 0 THEN "next" ELSE "check"
  /\ UNCHANGED <<m_counter, m_task_queue, m_shutdown, wakeup, owner, pool, history>>

\* Fault: a task that is not the oldest is taken.
ScheduleNextAny ==
  /\ run = "next" /\ run' = "loop"
  /\ \E t \in m_task_queue :
       /\ m_task_queue' = m_task_queue \ {t}
       /\ pool_queue' = Append(pool_queue, t)
  /\ UNCHANGED <<m_counter, m_shutdown, wakeup, owner, worker, history>>

\* schedule_next
ScheduleNext ==
  /\ run = "next" /\ run' = "loop"
  /\ m_task_queue' = m_task_queue \ {Min(m_task_queue)}
  /\ pool_queue' = Append(pool_queue, Min(m_task_queue))
  /\ UNCHANGED <<m_counter, m_shutdown, wakeup, owner, worker, history>>

RunCheck ==
  /\ run = "check" /\ run' = IF m_shutdown THEN "exited" ELSE "lock"
  /\ UNCHANGED <<m_counter, m_task_queue, m_shutdown, wakeup, owner, pool, history>>

-----------------------------------------------------------------------------
\* Fault: the periodic thread only watches the flag.
PeriodicSilent ==
  /\ wakeup = "sleep" /\ wakeup' = "check"
  /\ UNCHANGED <<m_counter, m_task_queue, m_shutdown, run, owner, pool, history>>

\* periodic_wakeup, after its sleep: the lock is not taken.
PeriodicNotify ==
  /\ wakeup = "sleep" /\ wakeup' = "check"
  /\ run' = Notified
  /\ UNCHANGED <<m_counter, m_task_queue, m_shutdown, owner, pool, history>>

PeriodicCheck ==
  /\ wakeup = "check" /\ wakeup' = IF m_shutdown THEN "exited" ELSE "sleep"
  /\ UNCHANGED <<m_counter, m_task_queue, m_shutdown, run, owner, pool, history>>

-----------------------------------------------------------------------------
(***************************************************************************)
(* The pool.                                                               *)
(***************************************************************************)

\* resize: the thread looks for a task as soon as it runs.
WorkerStart(w) ==
  /\ worker[w] = Starting
  /\ worker' = [worker EXCEPT ![w] = Idle]
  /\ UNCHANGED <<m_counter, m_task_queue, m_shutdown, threads, pool_queue, history>>

\* Task::operator() is entered.
WorkerBegin(w) ==
  /\ worker[w] = Idle /\ pool_queue # <<>>
  /\ worker' = [worker EXCEPT ![w] = Head(pool_queue)]
  /\ started' = Append(started, Head(pool_queue))
  /\ pool_queue' = Tail(pool_queue)
  /\ UNCHANGED <<m_counter, m_task_queue, m_shutdown, threads, done, dropped>>

\* Its job returns, and the thread takes the next task if there is one.
WorkerEnd(w) ==
  /\ worker[w] \notin States
  /\ done' = done \cup {worker[w]}
  /\ IF pool_queue = <<>>
       THEN /\ worker' = [worker EXCEPT ![w] = Idle]
            /\ UNCHANGED <<pool_queue, started>>
       ELSE /\ worker' = [worker EXCEPT ![w] = Head(pool_queue)]
            /\ started' = Append(started, Head(pool_queue))
            /\ pool_queue' = Tail(pool_queue)
  /\ UNCHANGED <<m_counter, m_task_queue, m_shutdown, threads, dropped>>

\* The pool is stopping and has nothing left.
WorkerExit(w) ==
  /\ worker[w] = Idle /\ owner = "join pool" /\ pool_queue = <<>>
  /\ worker' = [worker EXCEPT ![w] = Exited]
  /\ UNCHANGED <<m_counter, m_task_queue, m_shutdown, threads, pool_queue, history>>

-----------------------------------------------------------------------------
(***************************************************************************)
(* shutdown and the destructor.                                            *)
(***************************************************************************)
StoreFlag ==
  /\ owner = "up" /\ owner' = "stop"
  /\ m_shutdown' = TRUE
  /\ UNCHANGED <<m_counter, m_task_queue, run, wakeup, pool, history>>

\* m_thrd_pool.stop(true) tells the threads to finish.
StopPool ==
  /\ owner = "stop" /\ owner' = "join pool"
  /\ UNCHANGED <<m_counter, m_task_queue, m_shutdown, run, wakeup, pool, history>>

\* It returns when they have, and clears the queue of the pool.
JoinPool ==
  /\ owner = "join pool" /\ owner' = "notify"
  /\ \A w \in Workers : worker[w] = Exited
  /\ dropped' = dropped \cup ToSet(pool_queue)
  /\ pool_queue' = <<>>
  /\ UNCHANGED <<m_counter, m_task_queue, m_shutdown, run, wakeup, worker, done, started>>

\* Fault: shutdown does not notify.
NotifyNobody ==
  /\ owner = "notify" /\ owner' = "join"
  /\ UNCHANGED <<m_counter, m_task_queue, m_shutdown, run, wakeup, pool, history>>

NotifyAll ==
  /\ owner = "notify" /\ owner' = "join"
  /\ run' = Notified
  /\ UNCHANGED <<m_counter, m_task_queue, m_shutdown, wakeup, pool, history>>

\* ~FIFOScheduler joins both threads.
Destroy ==
  /\ owner = "join" /\ owner' = "gone"
  /\ run = "exited" /\ wakeup = "exited"
  /\ UNCHANGED <<m_counter, m_task_queue, m_shutdown, run, wakeup, pool, history>>

Run == RunWait \/ RunWoken \/ RunLoop \/ ScheduleNext \/ RunCheck
PeriodicWakeup == PeriodicNotify \/ PeriodicCheck
Worker(w) == WorkerStart(w) \/ WorkerBegin(w) \/ WorkerEnd(w) \/ WorkerExit(w)
Shutdown == StopPool \/ JoinPool \/ NotifyAll \/ Destroy

Next ==
  \/ ScheduleJob \/ StoreFlag
  \/ Run \/ RunSpurious \/ PeriodicWakeup \/ Shutdown
  \/ \E w \in Workers : Worker(w)

Spec == Init /\ [][Next]_vars

(***************************************************************************)
(* Every thread runs: the operating system schedules it and the locks it   *)
(* takes are held for a few steps only.  The jobs return.  A caller need   *)
(* never shut the scheduler down, and a wait need never end by itself.     *)
(***************************************************************************)
Fairness ==
  /\ WF_vars(Run) /\ WF_vars(PeriodicWakeup) /\ WF_vars(Shutdown)
  /\ \A w \in Workers : WF_vars(Worker(w))

FairSpec == Spec /\ Fairness

-----------------------------------------------------------------------------
(***************************************************************************)
(* Properties.                                                             *)
(***************************************************************************)
Tasks == 0..(MaxTasks - 1)

\* Type invariant of the scheduler and its pool, with the assertion of schedule_next:
\* the queue that run tested one step earlier is not empty.
TypeOK ==
  /\ m_counter \in 0..MaxTasks /\ m_task_queue \subseteq Tasks /\ m_shutdown \in BOOLEAN
  /\ run \in {"lock", "waiting", "woken", "loop", "next", "check", "exited"}
  /\ wakeup \in {"sleep", "check", "exited"}
  /\ owner \in {"up", "stop", "join pool", "notify", "join", "gone"}
  /\ pool_queue \in Seq(Tasks) /\ worker \in [Workers -> States \cup Tasks]
  /\ done \subseteq Tasks /\ dropped \subseteq Tasks /\ started \in Seq(Tasks)
  /\ run = "next" => m_task_queue # {}

\* A job that was scheduled is in exactly one place: m_task_queue, the pool's queue, a
\* thread, or finished (or lost with a pool that was stopped).
EachTaskOnce ==
  /\ 0..(m_counter - 1) =
       m_task_queue \cup ToSet(pool_queue) \cup Running \cup done \cup dropped
  /\ m_counter =
       Cardinality(m_task_queue) + Len(pool_queue)
         + Cardinality({w \in Workers : worker[w] \notin States})
         + Cardinality(done) + Cardinality(dropped)

\* Jobs run once and are started in the order in which schedule_job was called, without
\* a gap, by however many threads: a stale n_idle hands out more than can run, and a
\* shutdown at any point neither repeats nor overtakes one.
RunOnceInOrder ==
  /\ EachTaskOnce
  /\ \A i \in DOMAIN started : started[i] = i - 1

\* A scheduled job is started, unless the scheduler is shut down: a notification that
\* finds run busy is lost, and the periodic one makes up for it.
QueuedIsStarted ==
  \A t \in Tasks : t \in m_task_queue ~> (t \in ToSet(started) \/ m_shutdown)

\* The destructor returns when run waits for a notification that is still to come, of
\* shutdown or of the periodic thread.  A wait that begins after both is not covered:
\* run tested the flag before it was stored, and the destructor then hangs in join.
ShutdownEnds ==
  (m_shutdown /\ run = "waiting" /\ (owner # "join" \/ wakeup = "sleep")) ~> owner = "gone"
=============================================================================
