----------------------------- MODULE ThreadPool -----------------------------
(***************************************************************************)
(* utils::ThreadPool (src/utils/global_utils.cpp): a queue of tasks under  *)
(* queue_mutex, a condition variable, worker threads that loop over it,    *)
(* addTask, and the destructor that stops, wakes and joins the workers.    *)
(*                                                                         *)
(* A critical section is one step: nothing between lock and unlock can be  *)
(* seen by another thread.  What the code does outside the mutex is a step *)
(* of its own: running the task, notify_one after a push, notify_all after *)
(* stop, each join.  packaged_task keeps what a task throws in its future, *)
(* so a task that throws finishes like any other here.                     *)
(***************************************************************************)
EXTENDS Naturals, Sequences, FiniteSets

CONSTANTS
  PoolTasks,  \* the tasks that may be handed to the pool, each at most once
  Threads,    \* the worker threads (num_threads of the constructor)
  Clients     \* the threads that call enqueue

ASSUME ThreadsAssumption == IsFiniteSet(Threads) /\ Threads # {}
ASSUME ClientsAssumption == IsFiniteSet(Clients)
ASSUME TasksAssumption == IsFiniteSet(PoolTasks)

VARIABLES
  tasks,    \* Impl::tasks
  stop,     \* Impl::stop
  worker,   \* [Threads -> {"ready", "waiting", "running", "returned"}]
  task,     \* [Threads -> SUBSET PoolTasks]: the local variable task of the loop
  client,   \* [Clients -> {"idle", "notify"}]: inside addTask, past the push?
  dtor,     \* "alive", "notifyAll", "join", "gone": progress of ~Impl
  finished, \* tasks that have run to completion (history)
  refused   \* tasks whose addTask threw "enqueue on stopped ThreadPool"

threadVars == <<tasks, stop, worker, task, client, dtor, finished, refused>>

In(state)  == {w \in Threads : worker[w] = state}
Notifying  == {c \in Clients : client[c] = "notify"}
Queued     == {tasks[i] : i \in 1..Len(tasks)}
Executing  == UNION {task[w] : w \in Threads}
Accepted   == Queued \union Executing \union finished

PoolInit ==
  /\ tasks = <<>>
  /\ stop = FALSE
  /\ worker = [w \in Threads |-> "ready"]
  /\ task = [w \in Threads |-> {}]
  /\ client = [c \in Clients |-> "idle"]
  /\ dtor = "alive"
  /\ finished = {}
  /\ refused = {}

-----------------------------------------------------------------------------
(* addTask: push under the lock, then notify_one without it.               *)

(* Fault: the push is not followed by notify_one.                          *)
AddTaskSilently(c, t) ==
  /\ dtor # "gone" /\ ~stop
  /\ t \notin Accepted \union refused
  /\ tasks' = Append(tasks, t)
  /\ UNCHANGED <<stop, worker, task, client, dtor, finished, refused>>

AddTask(c, t) ==
  /\ client[c] = "idle"
  /\ dtor # "gone"
  /\ t \notin Accepted \union refused
  /\ IF stop
     THEN /\ refused' = refused \union {t}
          /\ UNCHANGED <<tasks, client>>
     ELSE /\ tasks' = Append(tasks, t)
          /\ client' = [client EXCEPT ![c] = "notify"]
          /\ UNCHANGED refused
  /\ UNCHANGED <<stop, worker, task, dtor, finished>>

NotifyOne(c) ==
  /\ client[c] = "notify"
  /\ client' = [client EXCEPT ![c] = "idle"]
  /\ IF In("waiting") = {}
     THEN UNCHANGED worker
     ELSE \E w \in In("waiting") : worker' = [worker EXCEPT ![w] = "ready"]
  /\ UNCHANGED <<tasks, stop, task, dtor, finished, refused>>

-----------------------------------------------------------------------------
(* The worker loop.  A worker that is "ready" is about to take the mutex,  *)
(* on its first turn, after a task, or after a wake-up; the wait's         *)
(* predicate is evaluated under the mutex in every case.                   *)

(* Fault: the newest task first.                                           *)
TakeNewest(w) ==
  /\ worker[w] = "ready" /\ tasks # <<>>
  /\ worker' = [worker EXCEPT ![w] = "running"]
  /\ task' = [task EXCEPT ![w] = {tasks[Len(tasks)]}]
  /\ tasks' = SubSeq(tasks, 1, Len(tasks) - 1)
  /\ UNCHANGED <<stop, client, dtor, finished, refused>>

Take(w) ==
  /\ worker[w] = "ready"
  /\ tasks # <<>>
  /\ worker' = [worker EXCEPT ![w] = "running"]
  /\ task' = [task EXCEPT ![w] = {Head(tasks)}]
  /\ tasks' = Tail(tasks)
  /\ UNCHANGED <<stop, client, dtor, finished, refused>>

(* Fault: a wait without predicate.                                        *)
WaitUnconditionally(w) ==
  /\ worker[w] = "ready" /\ ~stop
  /\ worker' = [worker EXCEPT ![w] = "waiting"]
  /\ UNCHANGED <<tasks, stop, task, client, dtor, finished, refused>>

Wait(w) ==
  /\ worker[w] = "ready"
  /\ tasks = <<>>
  /\ ~stop
  /\ worker' = [worker EXCEPT ![w] = "waiting"]
  /\ UNCHANGED <<tasks, stop, task, client, dtor, finished, refused>>

LeaveLoop(w) ==
  /\ worker[w] = "ready"
  /\ tasks = <<>>
  /\ stop
  /\ worker' = [worker EXCEPT ![w] = "returned"]
  /\ UNCHANGED <<tasks, stop, task, client, dtor, finished, refused>>

RunTask(w) ==
  /\ worker[w] = "running"
  /\ worker' = [worker EXCEPT ![w] = "ready"]
  /\ task' = [task EXCEPT ![w] = {}]
  /\ finished' = finished \union task[w]
  /\ UNCHANGED <<tasks, stop, client, dtor, refused>>

(* condition_variable::wait may return without a notification.             *)
SpuriousWakeup(w) ==
  /\ worker[w] = "waiting"
  /\ worker' = [worker EXCEPT ![w] = "ready"]
  /\ UNCHANGED <<tasks, stop, task, client, dtor, finished, refused>>

-----------------------------------------------------------------------------
(* ~Impl: stop under the lock, notify_all without it, join every worker.   *)

SetStop ==
  /\ dtor = "alive"
  /\ stop' = TRUE
  /\ dtor' = "notifyAll"
  /\ UNCHANGED <<tasks, worker, task, client, finished, refused>>

(* Fault: one worker is woken.                                             *)
NotifyOnlyOne ==
  /\ dtor = "notifyAll"
  /\ dtor' = "join"
  /\ \E w \in Threads :
       worker' = [worker EXCEPT ![w] = IF @ = "waiting" THEN "ready" ELSE @]
  /\ UNCHANGED <<tasks, stop, task, client, finished, refused>>

NotifyAll ==
  /\ dtor = "notifyAll"
  /\ dtor' = "join"
  /\ worker' = [w \in Threads |->
                  IF worker[w] = "waiting" THEN "ready" ELSE worker[w]]
  /\ UNCHANGED <<tasks, stop, task, client, finished, refused>>

JoinAll ==
  /\ dtor = "join"
  /\ \A w \in Threads : worker[w] = "returned"
  /\ dtor' = "gone"
  /\ UNCHANGED <<tasks, stop, worker, task, client, finished, refused>>

-----------------------------------------------------------------------------
WorkerStep(w) == Take(w) \/ Wait(w) \/ LeaveLoop(w) \/ RunTask(w)

PoolNext ==
  \/ \E c \in Clients, t \in PoolTasks : AddTask(c, t)
  \/ \E c \in Clients : NotifyOne(c)
  \/ \E w \in Threads : WorkerStep(w) \/ SpuriousWakeup(w)
  \/ SetStop
  \/ NotifyAll
  \/ JoinAll

(* Threads that are not blocked are scheduled.  Nobody has to submit, to   *)
(* destroy the pool or to be woken spuriously.                             *)
Fairness ==
  /\ \A w \in Threads : WF_threadVars(WorkerStep(w))
  /\ \A c \in Clients : WF_threadVars(NotifyOne(c))
  /\ WF_threadVars(NotifyAll)
  /\ WF_threadVars(JoinAll)

SafeSpec == PoolInit /\ [][PoolNext]_threadVars
FairSpec == SafeSpec /\ Fairness

-----------------------------------------------------------------------------
(* Each variable stays within its type; a worker holds a task exactly      *)
(* while it runs one.                                                      *)
TypeOK ==
  /\ tasks \in Seq(PoolTasks)
  /\ stop \in BOOLEAN
  /\ worker \in [Threads -> {"ready", "waiting", "running", "returned"}]
  /\ task \in [Threads -> SUBSET PoolTasks]
  /\ client \in [Clients -> {"idle", "notify"}]
  /\ dtor \in {"alive", "notifyAll", "join", "gone"}
  /\ finished \in SUBSET PoolTasks
  /\ refused \in SUBSET PoolTasks
  /\ \A w \in Threads : (task[w] # {}) <=> (worker[w] = "running")

(* No lost wake-up: while a worker sleeps, every queued task is covered by *)
(* a worker about to look at the queue or by a notify_one still to come,   *)
(* although addTask notifies after it has released the mutex.              *)
NoStrandedTask ==
  In("waiting") # {} =>
    Len(tasks) <= Cardinality(In("ready")) + Cardinality(Notifying)

(* No worker sleeps through shutdown: once stop is set a worker can be     *)
(* waiting only if the destructor still has its notify_all ahead.          *)
StopWakesAll == (stop /\ In("waiting") # {}) => dtor = "notifyAll"

(* A worker leaves its loop only on an empty queue that stays empty: tasks *)
(* accepted before the stop are never abandoned.                           *)
NoAbandonedTask == In("returned") # {} => stop /\ tasks = <<>>

(* The destructor has drained the pool when it returns: nothing is queued  *)
(* and nothing runs.                                                       *)
DrainedAtJoin == dtor = "gone" => tasks = <<>> /\ Executing = {}

(* A task is in one place: queued once, or held by one worker, or done, or *)
(* refused; so it can never run twice.                                     *)
OncePlaced ==
  /\ \A i, j \in 1..Len(tasks) : tasks[i] = tasks[j] => i = j
  /\ \A w, v \in Threads : w # v => task[w] \intersect task[v] = {}
  /\ Queued \intersect Executing = {}
  /\ (Queued \union Executing) \intersect finished = {}
  /\ Accepted \intersect refused = {}

(* Every task addTask accepted is eventually run, spurious wake-ups and a  *)
(* destructor that starts at any moment included.                          *)
EveryTaskRuns == \A t \in PoolTasks : (t \in Accepted) ~> (t \in finished)

(* A destructor that has set stop returns.                                 *)
DestructorReturns == stop ~> (dtor = "gone")

Abstract == INSTANCE TaskQueue
  WITH Tasks <- PoolTasks, Workers <- Threads, queue <- tasks, running <- task,
       done <- finished, closed <- stop, joined <- (dtor = "gone")

(* The pool implements the queue the rest of the system relies on.         *)
Implements == Abstract!Spec
=============================================================================
