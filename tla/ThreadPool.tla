------------------------------ MODULE ThreadPool ------------------------------
(***************************************************************************)
(* thread_pool/thread_pool.cpp: workers that take tasks from one queue,    *)
(* threads that put tasks into it, and the destructor.  A worker that has  *)
(* nothing to do sleeps on a condition variable; enqueue() notifies one    *)
(* sleeper after it has let go of the mutex, so other steps come between.  *)
(*                                                                         *)
(* Threads that call enqueue() are supposed to be done with the pool when  *)
(* its destructor returns.                                                 *)
(***************************************************************************)
EXTENDS Integers, Sequences, FiniteSets

CONSTANTS
    Worker,  \* THREAD_POOL_SIZE of them, 10 in the source
    Task,    \* the calls of enqueue()
    None     \* no task

ASSUME PoolAssumption == IsFiniteSet(Worker) /\ Worker # {} /\ None \notin Task

VARIABLES
    tasks,      \* the queue
    stop,
    state,      \* of each worker: about to lock queue_mutex, asleep in wait(),
                \* running a task, or returned
    task,       \* the task each worker runs
    notifying,  \* calls of enqueue() that have yet to notify_one()
    pool,       \* the destructor: not called, about to notify_all(), joining, done
    accepted,   \* history: tasks put into the queue, oldest first
    rejected,   \* history: calls of enqueue() that threw
    started,    \* history: tasks taken from the queue, oldest first
    finished    \* history: tasks that have been run

workerVars == <<state, task, started, finished>>
vars == <<tasks, stop, workerVars, notifying, pool, accepted, rejected>>

In(s) == {w \in Worker : state[w] = s}

Init ==
    /\ tasks = <<>>
    /\ stop = FALSE
    /\ state = [w \in Worker |-> "ready"]
    /\ task = [w \in Worker |-> None]
    /\ notifying = {}
    /\ pool = "alive"
    /\ accepted = <<>>
    /\ rejected = {}
    /\ started = <<>>
    /\ finished = {}

-------------------------------------------------------------------------------
(* enqueue().                                                                 *)

Called(t) == rejected \cup {accepted[i] : i \in 1..Len(accepted)}

Enqueue(t) ==
    /\ pool # "joined"
    /\ t \notin Called(t)
    /\ ~stop
    /\ tasks' = Append(tasks, t)
    /\ accepted' = Append(accepted, t)
    /\ notifying' = notifying \cup {t}
    /\ UNCHANGED <<stop, workerVars, pool, rejected>>

EnqueueThrows(t) ==
    /\ pool # "joined"
    /\ t \notin Called(t)
    /\ stop
    /\ rejected' = rejected \cup {t}
    /\ UNCHANGED <<tasks, stop, workerVars, notifying, pool, accepted>>

\* Mutant: notifies only when the queue had been empty.
NotifyIfFirst(t) ==
    /\ t \in notifying
    /\ notifying' = notifying \ {t}
    /\ IF In("waiting") = {} \/ Len(tasks) # 1
       THEN UNCHANGED state
       ELSE \E w \in In("waiting") : state' = [state EXCEPT ![w] = "ready"]
    /\ UNCHANGED <<tasks, stop, task, started, finished, pool, accepted, rejected>>

NotifyOne(t) ==
    /\ t \in notifying
    /\ notifying' = notifying \ {t}
    /\ IF In("waiting") = {}
       THEN UNCHANGED state
       ELSE \E w \in In("waiting") : state' = [state EXCEPT ![w] = "ready"]
    /\ UNCHANGED <<tasks, stop, task, started, finished, pool, accepted, rejected>>

-------------------------------------------------------------------------------
(* A worker.                                                                  *)

\* Mutant: whoever wakes takes a task without asking whether there is one.
TakeTaskUnasked(w) ==
    LET first == IF tasks = <<>> THEN None ELSE Head(tasks)
    IN  /\ state[w] = "ready"
        /\ state' = [state EXCEPT ![w] = "running"]
        /\ task' = [task EXCEPT ![w] = first]
        /\ started' = Append(started, first)
        /\ tasks' = SubSeq(tasks, 2, Len(tasks))
        /\ UNCHANGED <<stop, finished, notifying, pool, accepted, rejected>>

\* Mutant: the newest task first.
TakeTaskNewest(w) ==
    /\ state[w] = "ready"
    /\ tasks # <<>>
    /\ state' = [state EXCEPT ![w] = "running"]
    /\ task' = [task EXCEPT ![w] = tasks[Len(tasks)]]
    /\ started' = Append(started, tasks[Len(tasks)])
    /\ tasks' = SubSeq(tasks, 1, Len(tasks) - 1)
    /\ UNCHANGED <<stop, finished, notifying, pool, accepted, rejected>>

\* Mutant: front() without pop().
TakeTaskKeeps(w) ==
    /\ state[w] = "ready"
    /\ tasks # <<>>
    /\ Len(started) < Cardinality(Task) + 1
    /\ state' = [state EXCEPT ![w] = "running"]
    /\ task' = [task EXCEPT ![w] = Head(tasks)]
    /\ started' = Append(started, Head(tasks))
    /\ UNCHANGED <<tasks, stop, finished, notifying, pool, accepted, rejected>>

TakeTask(w) ==
    /\ state[w] = "ready"
    /\ tasks # <<>>
    /\ state' = [state EXCEPT ![w] = "running"]
    /\ task' = [task EXCEPT ![w] = Head(tasks)]
    /\ started' = Append(started, Head(tasks))
    /\ tasks' = Tail(tasks)
    /\ UNCHANGED <<stop, finished, notifying, pool, accepted, rejected>>

Sleep(w) ==
    /\ state[w] = "ready"
    /\ tasks = <<>>
    /\ ~stop
    /\ state' = [state EXCEPT ![w] = "waiting"]
    /\ UNCHANGED <<tasks, stop, task, started, finished, notifying, pool, accepted,
                   rejected>>

\* wait() may return although nobody notified.
WakeUp(w) ==
    /\ state[w] = "waiting"
    /\ state' = [state EXCEPT ![w] = "ready"]
    /\ UNCHANGED <<tasks, stop, task, started, finished, notifying, pool, accepted,
                   rejected>>

\* Mutant: returns as soon as stop is set, with tasks still in the queue.
ReturnAtOnce(w) ==
    /\ state[w] = "ready"
    /\ stop
    /\ state' = [state EXCEPT ![w] = "returned"]
    /\ UNCHANGED <<tasks, stop, task, started, finished, notifying, pool, accepted,
                   rejected>>

Return(w) ==
    /\ state[w] = "ready"
    /\ stop
    /\ tasks = <<>>
    /\ state' = [state EXCEPT ![w] = "returned"]
    /\ UNCHANGED <<tasks, stop, task, started, finished, notifying, pool, accepted,
                   rejected>>

\* What the task throws stays in its future.
Finish(w) ==
    /\ state[w] = "running"
    /\ state' = [state EXCEPT ![w] = "ready"]
    /\ task' = [task EXCEPT ![w] = None]
    /\ finished' = finished \cup {task[w]}
    /\ UNCHANGED <<tasks, stop, started, notifying, pool, accepted, rejected>>

-------------------------------------------------------------------------------
(* The destructor.                                                            *)

Stop ==
    /\ pool = "alive"
    /\ stop' = TRUE
    /\ pool' = "stopping"
    /\ UNCHANGED <<tasks, workerVars, notifying, accepted, rejected>>

\* Mutant: one of the sleepers is told of the end, the others are not.
NotifyAnyone ==
    /\ pool = "stopping"
    /\ IF In("waiting") = {}
       THEN UNCHANGED state
       ELSE \E w \in In("waiting") : state' = [state EXCEPT ![w] = "ready"]
    /\ pool' = "joining"
    /\ UNCHANGED <<tasks, stop, task, started, finished, notifying, accepted, rejected>>

NotifyAll ==
    /\ pool = "stopping"
    /\ state' = [w \in Worker |-> IF state[w] = "waiting" THEN "ready" ELSE state[w]]
    /\ pool' = "joining"
    /\ UNCHANGED <<tasks, stop, task, started, finished, notifying, accepted, rejected>>

Join ==
    /\ pool = "joining"
    /\ In("returned") = Worker
    /\ pool' = "joined"
    /\ UNCHANGED <<tasks, stop, workerVars, notifying, accepted, rejected>>

-------------------------------------------------------------------------------
WorkerStep(w) == TakeTask(w) \/ Sleep(w) \/ Return(w) \/ Finish(w)

Next ==
    \/ \E t \in Task : Enqueue(t) \/ EnqueueThrows(t) \/ NotifyOne(t)
    \/ \E w \in Worker : WorkerStep(w) \/ WakeUp(w)
    \/ Stop \/ NotifyAll \/ Join

Spec == Init /\ [][Next]_vars

\* Every thread goes on as long as it can; tasks end, for the two kinds the
\* server enqueues do not wait for anything.
Fairness ==
    /\ \A w \in Worker : WF_vars(WorkerStep(w))
    /\ \A t \in Task : WF_vars(NotifyOne(t))
    /\ WF_vars(NotifyAll)
    /\ WF_vars(Join)

FairSpec == Spec /\ Fairness

-------------------------------------------------------------------------------
TypeOK ==
    /\ tasks \in Seq(Task)
    /\ stop \in BOOLEAN
    /\ state \in [Worker -> {"ready", "waiting", "running", "returned"}]
    /\ task \in [Worker -> Task \cup {None}]
    /\ notifying \in SUBSET Task
    /\ pool \in {"alive", "stopping", "joining", "joined"}
    /\ accepted \in Seq(Task)
    /\ rejected \in SUBSET Task
    /\ started \in Seq(Task)
    /\ finished \in SUBSET Task

\* Tasks start in the order they were accepted and none is lost or taken twice:
\* what was started, then what is queued, is what was accepted; what was started
\* is finished or in the hands of exactly one worker.
EachTaskOnce ==
    /\ accepted = started \o tasks
    /\ \A i \in 1..Len(started) :
           LET holders == {w \in Worker : state[w] = "running" /\ task[w] = started[i]}
           IN  Cardinality(holders) = IF started[i] \in finished THEN 0 ELSE 1

\* While a worker sleeps, every queued task has a notification on its way or a
\* worker about to look: no wake-up is lost.
NoLostWakeup ==
    In("waiting") # {} => Len(tasks) <= Cardinality(notifying) + Cardinality(In("ready"))

\* When the destructor returns every accepted task has been run.
JoinedIsDrained ==
    pool = "joined" => \A i \in 1..Len(accepted) : accepted[i] \in finished

\* A task that was accepted is run.
AcceptedIsRun ==
    \A t \in Task : (\E i \in 1..Len(accepted) : accepted[i] = t) ~> t \in finished

\* The destructor returns.
StopEnds == (pool = "stopping") ~> (pool = "joined")

\* The abstract executor, and that the pool implements it: the lock, the sleepers
\* and the notifications never show, except as tasks that start in turn.
Abstract == INSTANCE Executor WITH
                Parallel <- Cardinality(Worker),
                accepted <- accepted, started <- started, finished <- finished,
                gone <- (pool = "joined")
ExecutorSpec == Abstract!FairSpec
===============================================================================
