------------------------ MODULE ParallelSearchProofs ------------------------
(***************************************************************************)
(* First the pool, for every finite set of tasks, threads and clients:     *)
(* ShutdownInv is the inductive strengthening behind the shutdown          *)
(* properties, the lost wake-up proof counts threads, and the pool is      *)
(* shown to implement TaskQueue.                                           *)
(*                                                                         *)
(* Then the dispatches that rely on it, for every number of threads,       *)
(* actions and planning steps: search_fn is captured by reference          *)
(* (dispatchParallelSearch), so a task that outlives the frame of its      *)
(* dispatch must belong to one that an exception has left.                 *)
(***************************************************************************)
EXTENDS ThreadPool, ParallelSearch, DataLemmas, SequenceTheorems

(* The worker states that stop and the destructor's progress allow.        *)
ShutdownInv ==
  /\ (dtor = "alive") <=> ~stop
  /\ stop /\ In("waiting") # {} => dtor = "notifyAll"
  /\ In("returned") # {} => stop /\ tasks = <<>>
  /\ dtor = "gone" => \A w \in Threads : worker[w] = "returned"

(* Every variable keeps its type, and a worker holds a task exactly while  *)
(* it is running one.                                                      *)
THEOREM TypeCorrect == SafeSpec => []TypeOK
<1>1. PoolInit => TypeOK
  <2> SUFFICES ASSUME PoolInit PROVE TypeOK
    OBVIOUS
  <2>1. tasks \in Seq(PoolTasks)
    BY DEF PoolInit
  <2>2. /\ stop \in BOOLEAN
        /\ worker \in [Threads -> {"ready", "waiting", "running", "returned"}]
        /\ task \in [Threads -> SUBSET PoolTasks]
        /\ client \in [Clients -> {"idle", "notify"}]
        /\ dtor \in {"alive", "notifyAll", "join", "gone"}
    BY DEF PoolInit
  <2>3. \A w \in Threads : task[w] = {} /\ worker[w] = "ready"
    BY DEF PoolInit
  <2> QED BY <2>1, <2>2, <2>3 DEF PoolInit, TypeOK
<1>2. TypeOK /\ [PoolNext]_threadVars => TypeOK'
  <2> SUFFICES ASSUME TypeOK, [PoolNext]_threadVars PROVE TypeOK'
    OBVIOUS
  <2> USE DEF TypeOK
  <2>1. ASSUME NEW c \in Clients, NEW t \in PoolTasks, AddTask(c, t) PROVE TypeOK'
    <3>1. CASE stop
      BY <2>1, <3>1 DEF AddTask
    <3>2. CASE ~stop
      <4>1. tasks' \in Seq(PoolTasks)
        BY <2>1, <3>2 DEF AddTask
      <4> QED BY <2>1, <3>2, <4>1 DEF AddTask
    <3> QED BY <3>1, <3>2
  <2>2. ASSUME NEW c \in Clients, NotifyOne(c) PROVE TypeOK'
    <3>1. CASE In("waiting") = {}
      BY <2>2, <3>1 DEF NotifyOne
    <3>2. CASE In("waiting") # {}
      <4>1. PICK w \in In("waiting") : worker' = [worker EXCEPT ![w] = "ready"]
        BY <2>2, <3>2 DEF NotifyOne
      <4> QED BY <2>2, <4>1 DEF NotifyOne, In
    <3> QED BY <3>1, <3>2
  <2>3. ASSUME NEW w \in Threads, Take(w) PROVE TypeOK'
    <3>1. Head(tasks) \in PoolTasks /\ Tail(tasks) \in Seq(PoolTasks)
      BY <2>3 DEF Take
    <3> QED BY <2>3, <3>1 DEF Take
  <2>4. ASSUME NEW w \in Threads, Wait(w) PROVE TypeOK'
    BY <2>4 DEF Wait
  <2>5. ASSUME NEW w \in Threads, LeaveLoop(w) PROVE TypeOK'
    BY <2>5 DEF LeaveLoop
  <2>6. ASSUME NEW w \in Threads, RunTask(w) PROVE TypeOK'
    BY <2>6 DEF RunTask
  <2>7. ASSUME NEW w \in Threads, SpuriousWakeup(w) PROVE TypeOK'
    BY <2>7 DEF SpuriousWakeup
  <2>8. CASE SetStop
    BY <2>8 DEF SetStop
  <2>9. CASE NotifyAll
    BY <2>9 DEF NotifyAll
  <2>10. CASE JoinAll
    BY <2>10 DEF JoinAll
  <2>11. CASE UNCHANGED threadVars
    BY <2>11 DEF threadVars
  <2> QED
    BY <2>1, <2>2, <2>3, <2>4, <2>5, <2>6, <2>7, <2>8, <2>9, <2>10, <2>11
    DEF PoolNext, WorkerStep
<1> QED BY <1>1, <1>2, PTL DEF SafeSpec

-----------------------------------------------------------------------------
(* Shutdown: nobody sleeps through stop, a worker returns only on an empty *)
(* queue of a stopped pool, and the destructor waits for all of them.      *)
THEOREM ShutdownCorrect == SafeSpec => []ShutdownInv
<1>1. PoolInit => ShutdownInv
  BY DEF PoolInit, ShutdownInv, In
<1>2. TypeOK /\ ShutdownInv /\ [PoolNext]_threadVars => ShutdownInv'
  <2> SUFFICES ASSUME TypeOK, ShutdownInv, [PoolNext]_threadVars PROVE ShutdownInv'
    OBVIOUS
  <2> USE DEF TypeOK, ShutdownInv, In
  <2>1. ASSUME NEW c \in Clients, NEW t \in PoolTasks, AddTask(c, t)
        PROVE ShutdownInv'
    BY <2>1 DEF AddTask
  <2>2. ASSUME NEW c \in Clients, NotifyOne(c) PROVE ShutdownInv'
    BY <2>2 DEF NotifyOne
  <2>3. ASSUME NEW w \in Threads, Take(w) PROVE ShutdownInv'
    BY <2>3 DEF Take
  <2>4. ASSUME NEW w \in Threads, Wait(w) PROVE ShutdownInv'
    BY <2>4 DEF Wait
  <2>5. ASSUME NEW w \in Threads, LeaveLoop(w) PROVE ShutdownInv'
    BY <2>5 DEF LeaveLoop
  <2>6. ASSUME NEW w \in Threads, RunTask(w) PROVE ShutdownInv'
    BY <2>6 DEF RunTask
  <2>7. ASSUME NEW w \in Threads, SpuriousWakeup(w) PROVE ShutdownInv'
    BY <2>7 DEF SpuriousWakeup
  <2>8. CASE SetStop
    BY <2>8 DEF SetStop
  <2>9. CASE NotifyAll
    BY <2>9 DEF NotifyAll
  <2>10. CASE JoinAll
    BY <2>10 DEF JoinAll
  <2>11. CASE UNCHANGED threadVars
    BY <2>11 DEF threadVars
  <2> QED
    BY <2>1, <2>2, <2>3, <2>4, <2>5, <2>6, <2>7, <2>8, <2>9, <2>10, <2>11
    DEF PoolNext, WorkerStep
<1> QED BY <1>1, <1>2, TypeCorrect, PTL DEF SafeSpec

(* stop reaches every sleeping worker through the destructor's notify_all. *)
THEOREM StopWakesAllHolds == SafeSpec => []StopWakesAll
<1>1. ShutdownInv => StopWakesAll
  BY DEF ShutdownInv, StopWakesAll
<1> QED BY <1>1, ShutdownCorrect, PTL

(* Tasks accepted before the stop are never left behind by the workers.    *)
THEOREM NoAbandonedTaskHolds == SafeSpec => []NoAbandonedTask
<1>1. ShutdownInv => NoAbandonedTask
  BY DEF ShutdownInv, NoAbandonedTask
<1> QED BY <1>1, ShutdownCorrect, PTL

(* When the destructor has returned the queue is empty and no task runs.   *)
THEOREM DrainedAtJoinHolds == SafeSpec => []DrainedAtJoin
<1>1. TypeOK /\ ShutdownInv => DrainedAtJoin
  <2> SUFFICES ASSUME TypeOK, ShutdownInv, dtor = "gone"
               PROVE  tasks = <<>> /\ Executing = {}
    BY DEF DrainedAtJoin
  <2>1. \A w \in Threads : worker[w] = "returned" /\ task[w] = {}
    BY DEF TypeOK, ShutdownInv
  <2>2. tasks = <<>>
    BY <2>1, ThreadsAssumption DEF ShutdownInv, In
  <2> QED BY <2>1, <2>2 DEF Executing
<1> QED BY <1>1, TypeCorrect, ShutdownCorrect, PTL
-----------------------------------------------------------------------------
(* The counted sets are finite, so their cardinalities are numbers.        *)
LEMMA CountsAreNaturals ==
  /\ \A x : IsFiniteSet(In(x)) /\ Cardinality(In(x)) \in Nat
  /\ IsFiniteSet(Notifying) /\ Cardinality(Notifying) \in Nat
<1>1. \A x : In(x) \in SUBSET Threads
  BY DEF In
<1>2. Notifying \in SUBSET Clients
  BY DEF Notifying
<1> QED
  BY <1>1, <1>2, FS_Subset, FS_CardinalityType, ThreadsAssumption, ClientsAssumption

(* Counting: one more, one fewer.                                          *)
LEMMA AddOne ==
  ASSUME NEW S, NEW x, IsFiniteSet(S), x \notin S, NEW T, T = S \union {x}
  PROVE  Cardinality(T) = Cardinality(S) + 1 /\ Cardinality(T) \in Nat
BY FS_AddElement, FS_CardinalityType

LEMMA RemoveOne ==
  ASSUME NEW S, NEW x, IsFiniteSet(S), x \in S, NEW T, T = S \ {x}
  PROVE  Cardinality(T) = Cardinality(S) - 1 /\ Cardinality(T) \in Nat
BY FS_RemoveElement, FS_CardinalityType

(* No wake-up is lost: a sleeping worker implies that every queued task is *)
(* matched by a worker about to look or a notification still to be sent.   *)
THEOREM NoStrandedTaskHolds == SafeSpec => []NoStrandedTask
<1>1. PoolInit => NoStrandedTask
  BY DEF PoolInit, NoStrandedTask, In
<1>2. TypeOK /\ NoStrandedTask /\ [PoolNext]_threadVars => NoStrandedTask'
  <2> SUFFICES ASSUME TypeOK, NoStrandedTask, [PoolNext]_threadVars,
                      (In("waiting"))' # {}
               PROVE  (Len(tasks) <= Cardinality(In("ready"))
                                       + Cardinality(Notifying))'
    BY DEF NoStrandedTask
  <2> DEFINE ready == In("ready")
  <2>a. /\ IsFiniteSet(ready) /\ Cardinality(ready) \in Nat
        /\ IsFiniteSet(Notifying) /\ Cardinality(Notifying) \in Nat
        /\ Len(tasks) \in Nat
    BY CountsAreNaturals, LenProperties DEF TypeOK
  <2>b. In("waiting") # {} =>
           Len(tasks) <= Cardinality(ready) + Cardinality(Notifying)
    BY DEF NoStrandedTask
  <2>1. ASSUME NEW c \in Clients, NEW t \in PoolTasks, AddTask(c, t)
        PROVE  (Len(tasks) <= Cardinality(ready) + Cardinality(Notifying))'
    <3>1. In("waiting") # {} /\ ready' = ready
      BY <2>1 DEF AddTask, In
    <3>2. CASE stop
      <4>1. tasks' = tasks /\ Notifying' = Notifying
        BY <2>1, <3>2 DEF AddTask, Notifying
      <4> QED BY <2>a, <2>b, <3>1, <4>1
    <3>3. CASE ~stop
      <4>1. c \notin Notifying /\ Notifying' = Notifying \union {c}
        BY <2>1, <3>3 DEF AddTask, Notifying, TypeOK
      <4>2. Cardinality(Notifying') = Cardinality(Notifying) + 1
        BY <2>a, <4>1, AddOne
      <4>3. Len(tasks') = Len(tasks) + 1
        BY <2>1, <3>3 DEF AddTask, TypeOK
      <4> QED BY <2>a, <2>b, <3>1, <4>2, <4>3
    <3> QED BY <3>2, <3>3
  <2>2. ASSUME NEW c \in Clients, NotifyOne(c)
        PROVE  (Len(tasks) <= Cardinality(ready) + Cardinality(Notifying))'
    <3>1. In("waiting") # {}
      BY <2>2 DEF NotifyOne, In
    <3>2. PICK w \in In("waiting") : worker' = [worker EXCEPT ![w] = "ready"]
      BY <2>2, <3>1 DEF NotifyOne
    <3>3. w \notin ready /\ ready' = ready \union {w}
      BY <3>2 DEF In, TypeOK
    <3>4. c \in Notifying /\ Notifying' = Notifying \ {c}
      BY <2>2 DEF NotifyOne, Notifying, TypeOK
    <3>5. Cardinality(ready') = Cardinality(ready) + 1
      BY <2>a, <3>3, AddOne
    <3>6. Cardinality(Notifying') = Cardinality(Notifying) - 1
      BY <2>a, <3>4, RemoveOne
    <3>7. tasks' = tasks
      BY <2>2 DEF NotifyOne
    <3> QED BY <2>a, <2>b, <3>1, <3>5, <3>6, <3>7
  <2>3. ASSUME NEW w \in Threads, Take(w)
        PROVE  (Len(tasks) <= Cardinality(ready) + Cardinality(Notifying))'
    <3>1. In("waiting") # {} /\ Notifying' = Notifying
      BY <2>3 DEF Take, In, Notifying, TypeOK
    <3>2. w \in ready /\ ready' = ready \ {w}
      BY <2>3 DEF Take, In, TypeOK
    <3>3. Cardinality(ready') = Cardinality(ready) - 1
      BY <2>a, <3>2, RemoveOne
    <3>4. Len(tasks') = Len(tasks) - 1
      BY <2>3, HeadTailProperties DEF Take, TypeOK
    <3> QED BY <2>a, <2>b, <3>1, <3>3, <3>4
  <2>4. ASSUME NEW w \in Threads, Wait(w) \/ LeaveLoop(w)
        PROVE  (Len(tasks) <= Cardinality(ready) + Cardinality(Notifying))'
    <3>1. tasks' = <<>> /\ Notifying' = Notifying
      BY <2>4 DEF Wait, LeaveLoop, Notifying
    <3>2. ready' \in SUBSET ready
      BY <2>4 DEF Wait, LeaveLoop, In, TypeOK
    <3>3. Cardinality(ready') \in Nat
      BY <2>a, <3>2, FS_Subset, FS_CardinalityType
    <3>4. Len(tasks') = 0
      BY <3>1
    <3> QED BY <2>a, <3>1, <3>3, <3>4
  <2>5. ASSUME NEW w \in Threads, RunTask(w) \/ SpuriousWakeup(w)
        PROVE  (Len(tasks) <= Cardinality(ready) + Cardinality(Notifying))'
    <3>1. In("waiting") # {} /\ Notifying' = Notifying /\ tasks' = tasks
      BY <2>5 DEF RunTask, SpuriousWakeup, In, Notifying, TypeOK
    <3>2. w \notin ready /\ ready' = ready \union {w}
      BY <2>5 DEF RunTask, SpuriousWakeup, In, TypeOK
    <3>3. Cardinality(ready') = Cardinality(ready) + 1
      BY <2>a, <3>2, AddOne
    <3> QED BY <2>a, <2>b, <3>1, <3>3
  <2>6. CASE NotifyAll
    <3>1. (In("waiting"))' = {}
      BY <2>6 DEF NotifyAll, In
    <3> QED BY <3>1
  <2>7. CASE SetStop \/ JoinAll \/ UNCHANGED threadVars
    <3>1. UNCHANGED <<tasks, worker, client>>
      BY <2>7 DEF SetStop, JoinAll, threadVars
    <3>2. In("waiting") # {} /\ ready' = ready /\ Notifying' = Notifying
      BY <3>1 DEF In, Notifying
    <3> QED BY <2>b, <3>1, <3>2
  <2> QED
    BY <2>1, <2>2, <2>3, <2>4, <2>5, <2>6, <2>7 DEF PoolNext, WorkerStep
<1> QED BY <1>1, <1>2, TypeCorrect, PTL DEF SafeSpec
-----------------------------------------------------------------------------
(* A task is never in two places, hence never run twice.                   *)
THEOREM OncePlacedHolds == SafeSpec => []OncePlaced
<1>1. PoolInit => OncePlaced
  BY DEF PoolInit, OncePlaced, Queued, Executing, Accepted
<1>2. TypeOK /\ OncePlaced /\ [PoolNext]_threadVars => OncePlaced'
  <2> SUFFICES ASSUME TypeOK, OncePlaced, [PoolNext]_threadVars PROVE OncePlaced'
    OBVIOUS
  <2> USE DEF TypeOK
  <2>a. Len(tasks) \in Nat
    BY LenProperties
  <2>1. ASSUME NEW c \in Clients, NEW t \in PoolTasks, AddTask(c, t)
        PROVE  OncePlaced'
    <3>1. t \notin Queued /\ t \notin Executing /\ t \notin finished /\ t \notin refused
      BY <2>1 DEF AddTask, Accepted
    <3>2. Executing' = Executing /\ finished' = finished /\ task' = task
      BY <2>1 DEF AddTask, Executing
    <3>3. CASE stop
      <4>1. Queued' = Queued /\ tasks' = tasks /\ refused' = refused \union {t}
        BY <2>1, <3>3 DEF AddTask, Queued
      <4> QED BY <3>1, <3>2, <4>1 DEF OncePlaced, Accepted
    <3>4. CASE ~stop
      <4>1. tasks' = Append(tasks, t) /\ refused' = refused
        BY <2>1, <3>4 DEF AddTask
      <4>2. Len(tasks') = Len(tasks) + 1
        BY <4>1
      <4>3. \A i \in 1..Len(tasks') :
               tasks'[i] = IF i = Len(tasks) + 1 THEN t ELSE tasks[i]
        BY <4>1, <4>2, <2>a
      <4>4. Queued' = Queued \union {t}
        BY <4>2, <4>3, <2>a DEF Queued
      <4>5. \A i \in 1..Len(tasks) : tasks[i] # t
        BY <3>1 DEF Queued
      <4>6. \A i, j \in 1..Len(tasks') : tasks'[i] = tasks'[j] => i = j
        BY <4>2, <4>3, <4>5, <2>a DEF OncePlaced
      <4>7. \A w, v \in Threads : w # v => task'[w] \intersect task'[v] = {}
        BY <3>2 DEF OncePlaced
      <4>8. /\ Queued' \intersect Executing' = {}
            /\ (Queued' \union Executing') \intersect finished' = {}
            /\ Accepted' \intersect refused' = {}
        BY <3>1, <3>2, <4>1, <4>4 DEF OncePlaced, Accepted
      <4> QED BY <4>6, <4>7, <4>8 DEF OncePlaced
    <3> QED BY <3>3, <3>4
  <2>2. ASSUME NEW w \in Threads, Take(w) PROVE OncePlaced'
    <3> DEFINE h == Head(tasks)
    <3>1. /\ task' = [task EXCEPT ![w] = {h}] /\ tasks' = Tail(tasks)
          /\ finished' = finished /\ refused' = refused /\ task[w] = {}
      BY <2>2 DEF Take
    <3>2. /\ Len(tasks') = Len(tasks) - 1 /\ Len(tasks) > 0 /\ h = tasks[1]
          /\ \A i \in 1..Len(tasks') : tasks'[i] = tasks[i + 1]
      BY <2>2, <2>a, HeadTailProperties DEF Take
    <3>3. h \in Queued
      BY <3>2, <2>a DEF Queued
    <3>4. \A i \in 1..Len(tasks') : tasks'[i] # h
      BY <3>2, <2>a DEF OncePlaced
    <3>5. Queued' = Queued \ {h}
      <4>1. ASSUME NEW x \in Queued, x # h PROVE x \in Queued'
        <5>1. PICK i \in 1..Len(tasks) : x = tasks[i]
          BY <4>1 DEF Queued
        <5>2. i - 1 \in 1..Len(tasks') /\ tasks'[i - 1] = x
          BY <5>1, <4>1, <3>2, <2>a
        <5> QED BY <5>2 DEF Queued
      <4>2. ASSUME NEW x \in Queued' PROVE x \in Queued /\ x # h
        BY <4>2, <3>2, <3>4, <2>a DEF Queued
      <4> QED BY <4>1, <4>2
    <3>6. Executing' = Executing \union {h}
      BY <3>1 DEF Executing
    <3>7. \A i, j \in 1..Len(tasks') : tasks'[i] = tasks'[j] => i = j
      BY <3>2, <2>a DEF OncePlaced
    <3>8. \A u, v \in Threads : u # v => task'[u] \intersect task'[v] = {}
      <4>1. h \notin Executing
        BY <3>3 DEF OncePlaced
      <4>2. \A v \in Threads : h \notin task[v]
        BY <4>1 DEF Executing
      <4> QED BY <3>1, <4>2 DEF OncePlaced
    <3>9. /\ Queued' \intersect Executing' = {}
          /\ (Queued' \union Executing') \intersect finished' = {}
          /\ Accepted' \intersect refused' = {}
      BY <3>1, <3>3, <3>5, <3>6 DEF OncePlaced, Accepted
    <3> QED BY <3>7, <3>8, <3>9 DEF OncePlaced
  <2>3. ASSUME NEW w \in Threads, RunTask(w) PROVE OncePlaced'
    <3>1. /\ task' = [task EXCEPT ![w] = {}] /\ tasks' = tasks
          /\ finished' = finished \union task[w] /\ refused' = refused
      BY <2>3 DEF RunTask
    <3>2. Executing' = Executing \ task[w]
      BY <3>1 DEF Executing, OncePlaced
    <3>3. task[w] \subseteq Executing
      BY DEF Executing
    <3>4. Queued' = Queued
      BY <3>1 DEF Queued
    <3>5. \A u, v \in Threads : u # v => task'[u] \intersect task'[v] = {}
      BY <3>1 DEF OncePlaced
    <3> QED BY <3>1, <3>2, <3>3, <3>4, <3>5 DEF OncePlaced, Accepted
  <2>4. ASSUME UNCHANGED <<tasks, task, finished, refused>> PROVE OncePlaced'
    BY <2>4 DEF OncePlaced, Queued, Executing, Accepted
  <2> QED
    BY <2>1, <2>2, <2>3, <2>4 DEF PoolNext, WorkerStep, NotifyOne, Wait, LeaveLoop,
       SpuriousWakeup, SetStop, NotifyAll, JoinAll, threadVars
<1> QED BY <1>1, <1>2, TypeCorrect, PTL DEF SafeSpec

-----------------------------------------------------------------------------
(* The pool implements TaskQueue: every step of a worker, a client or the  *)
(* destructor is a step of the abstract queue or leaves it alone.          *)
THEOREM PoolImplementsQueue == SafeSpec => Implements
<1>1. PoolInit => Abstract!Init
  BY DEF PoolInit, Abstract!Init
<1>2. TypeOK /\ ShutdownInv /\ ShutdownInv' /\ TypeOK' /\ DrainedAtJoin'
        /\ [PoolNext]_threadVars => [Abstract!Next]_(Abstract!vars)
  <2> SUFFICES ASSUME TypeOK, ShutdownInv, ShutdownInv', TypeOK',
                      DrainedAtJoin', [PoolNext]_threadVars
               PROVE  [Abstract!Next]_(Abstract!vars)
    OBVIOUS
  <2>1. ASSUME NEW c \in Clients, NEW t \in PoolTasks, AddTask(c, t)
        PROVE  [Abstract!Next]_(Abstract!vars)
    <3>1. CASE stop
      BY <2>1, <3>1 DEF AddTask, Abstract!vars
    <3>2. CASE ~stop
      <4>1. Abstract!Accept(t)
        BY <2>1, <3>2 DEF AddTask, Abstract!Accept, Abstract!Accepted,
           Abstract!Queued, Abstract!Started, Accepted, Queued, Executing
      <4> QED BY <4>1 DEF Abstract!Next
    <3> QED BY <3>1, <3>2
  <2>2. ASSUME NEW w \in Threads, Take(w) PROVE [Abstract!Next]_(Abstract!vars)
    <3>1. Abstract!Start(w)
      BY <2>2 DEF Take, Abstract!Start, TypeOK
    <3> QED BY <3>1 DEF Abstract!Next
  <2>3. ASSUME NEW w \in Threads, RunTask(w)
        PROVE  [Abstract!Next]_(Abstract!vars)
    <3>1. Abstract!Finish(w)
      BY <2>3 DEF RunTask, Abstract!Finish, TypeOK
    <3> QED BY <3>1 DEF Abstract!Next
  <2>4. CASE SetStop
    <3>1. Abstract!Close
      BY <2>4 DEF SetStop, Abstract!Close, ShutdownInv
    <3> QED BY <3>1 DEF Abstract!Next
  <2>5. CASE JoinAll
    <3>1. Abstract!Join
      BY <2>5 DEF JoinAll, Abstract!Join, Abstract!Started, DrainedAtJoin,
         ShutdownInv, Executing
    <3> QED BY <3>1 DEF Abstract!Next
  <2>6. ASSUME NEW c \in Clients, NotifyOne(c)
        PROVE  UNCHANGED Abstract!vars
    BY <2>6 DEF NotifyOne, Abstract!vars
  <2>7. ASSUME NEW w \in Threads, Wait(w) \/ LeaveLoop(w) \/ SpuriousWakeup(w)
        PROVE  UNCHANGED Abstract!vars
    BY <2>7 DEF Wait, LeaveLoop, SpuriousWakeup, Abstract!vars
  <2>8. CASE NotifyAll
    BY <2>8 DEF NotifyAll, Abstract!vars
  <2>9. CASE UNCHANGED threadVars
    BY <2>9 DEF threadVars, Abstract!vars
  <2> QED
    BY <2>1, <2>2, <2>3, <2>4, <2>5, <2>6, <2>7, <2>8, <2>9 DEF PoolNext, WorkerStep
<1> QED
  BY <1>1, <1>2, TypeCorrect, ShutdownCorrect, DrainedAtJoinHolds, PTL
  DEF SafeSpec, Implements, Abstract!Spec

-----------------------------------------------------------------------------
Names    == Nat \X Instances
Outcomes == Results \union {Pending, Threw}

Typed ==
  /\ queue \in Seq(Names) /\ running \in [Workers -> SUBSET Names]
  /\ threads \in 1..MaxThreads /\ next \in Nat \ {0} /\ dispatch \in Nat
  /\ main \in {"idle", "inline", "submit", "collect", "choose", "read", "destroyed"}
  /\ result \in [Instances -> Outcomes]
  /\ unwound \subseteq 1..dispatch

(* A task is in one place: no two of the queue, in the hands of one worker *)
(* at most, and not both.                                                  *)
InQueue == {queue[k] : k \in 1..Len(queue)}

OnePlace ==
  /\ \A j, k \in 1..Len(queue) : queue[j] = queue[k] => j = k
  /\ \A w \in Workers : running[w] \intersect InQueue = {}
  /\ \A w, v \in Workers : w # v => running[w] \intersect running[v] = {}
  /\ \A w \in Workers : \A t, u \in running[w] : t = u

(* A task of the present dispatch has been submitted and its future is not *)
(* ready, which is why the loop over the futures cannot pass it.           *)
Current(t) ==
  /\ t[1] = dispatch /\ t[2] \in 1..threads /\ result[t[2]] = Pending
  /\ main = "collect" \/ (main = "submit" /\ t[2] < next)

Live == \A t \in Unfinished : t[1] \in unwound \/ Current(t)

(* What the loops of the dispatching thread have behind and before them.   *)
Loops ==
  /\ main \in {"submit", "collect"} => next <= threads
  /\ main = "submit" => \A i \in next..threads : result[i] = Pending
  /\ main = "collect" => \A i \in 1..(next - 1) : result[i] # Pending
  /\ main \notin {"idle", "destroyed"} => dispatch # 0 /\ dispatch \notin unwound

CaptureInv == Typed /\ OnePlace /\ Live /\ Loops

LEMMA UnfinishedParts == Unfinished = InQueue \union UNION {running[w] : w \in Workers}
BY DEF Unfinished, InQueue

LEMMA UnfinishedNames ==
  ASSUME Typed
  PROVE  Unfinished \subseteq Names
BY DEF Typed, Unfinished

LEMMA PendingIsNone ==
  /\ Pending \notin Results /\ Pending \in Outcomes /\ Threw \in Outcomes
  /\ Results \subseteq Outcomes
BY ParallelAssumption DEF Outcomes

LEMMA CaptureInit == Init => CaptureInv
<1> SUFFICES ASSUME Init PROVE CaptureInv
  OBVIOUS
<1>1. queue = <<>> /\ running = [w \in Workers |-> {}]
  BY DEF Init, Pool!Init
<1>2. Typed
  BY <1>1, PendingIsNone DEF Init, Typed
<1>3. OnePlace /\ Live
  BY <1>1 DEF OnePlace, Live, InQueue, Unfinished
<1>4. Loops
  BY DEF Init, Loops
<1> QED
  BY <1>2, <1>3, <1>4 DEF CaptureInv

(* Accepting a task that is nowhere puts it in one place.                  *)
LEMMA AcceptKeeps ==
  ASSUME Typed, OnePlace, NEW t \in Names, Pool!Accept(t)
  PROVE  /\ queue' \in Seq(Names) /\ running' = running
         /\ OnePlace' /\ Unfinished' = Unfinished \union {t}
<1>1. /\ queue' = Append(queue, t) /\ running' = running
      /\ t \notin InQueue /\ \A w \in Workers : t \notin running[w]
  BY DEF Pool!Accept, Pool!Accepted, Pool!Queued, Pool!Started, InQueue
<1>2. /\ queue' \in Seq(Names) /\ Len(queue') = Len(queue) + 1
      /\ queue'[Len(queue) + 1] = t
      /\ \A k \in 1..Len(queue) : queue'[k] = queue[k]
      /\ Len(queue) \in Nat
  BY <1>1 DEF Typed
<1>3. InQueue' = InQueue \union {t}
  BY <1>2 DEF InQueue
<1>4. \A j, k \in 1..Len(queue') : queue'[j] = queue'[k] => j = k
  BY <1>1, <1>2 DEF OnePlace, InQueue
<1>5. OnePlace'
  BY <1>1, <1>3, <1>4 DEF OnePlace
<1> QED
  BY <1>1, <1>2, <1>3, <1>5 DEF Unfinished, InQueue

(* Starting a task moves it from the queue into a worker's hands.          *)
LEMMA StartKeeps ==
  ASSUME Typed, OnePlace, NEW w \in Workers, Pool!Start(w)
  PROVE  /\ queue' \in Seq(Names) /\ running' \in [Workers -> SUBSET Names]
         /\ OnePlace' /\ Unfinished' = Unfinished
<1> DEFINE t == Head(queue)
<1>1. /\ queue # <<>> /\ running[w] = {} /\ queue' = Tail(queue)
      /\ running' = [running EXCEPT ![w] = {t}]
  BY DEF Pool!Start
<1>2. /\ queue' \in Seq(Names) /\ Len(queue) \in Nat \ {0}
      /\ Len(queue') = Len(queue) - 1 /\ t = queue[1] /\ t \in Names
      /\ \A k \in 1..Len(queue') : queue'[k] = queue[k + 1]
  BY <1>1 DEF Typed
<1> HIDE DEF t
<1>3. running' \in [Workers -> SUBSET Names] /\ running'[w] = {t}
      /\ \A v \in Workers \ {w} : running'[v] = running[v]
  BY <1>1, <1>2 DEF Typed
<1>4. InQueue = InQueue' \union {t} /\ t \notin InQueue'
  <2>1. \A x \in InQueue : x \in InQueue' \union {t}
    <3> SUFFICES ASSUME NEW k \in 1..Len(queue), queue[k] # t PROVE queue[k] \in InQueue'
      BY DEF InQueue
    <3>1. k - 1 \in 1..Len(queue') /\ queue'[k - 1] = queue[k]
      BY <1>2
    <3> QED
      BY <3>1 DEF InQueue
  <2>2. \A x \in InQueue' : x \in InQueue /\ x # t
    <3> SUFFICES ASSUME NEW k \in 1..Len(queue') PROVE queue'[k] \in InQueue /\ queue'[k] # t
      BY DEF InQueue
    <3>1. k + 1 \in 1..Len(queue) /\ 1 \in 1..Len(queue) /\ k + 1 # 1
      BY <1>2
    <3> QED
      BY <1>2, <3>1 DEF InQueue, OnePlace
  <2>3. t \in InQueue
    BY <1>2 DEF InQueue
  <2> QED
    BY <2>1, <2>2, <2>3
<1>5. \A j, k \in 1..Len(queue') : queue'[j] = queue'[k] => j = k
  <2> SUFFICES ASSUME NEW j \in 1..Len(queue'), NEW k \in 1..Len(queue'), queue'[j] = queue'[k]
               PROVE  j = k
    OBVIOUS
  <2>1. j + 1 \in 1..Len(queue) /\ k + 1 \in 1..Len(queue)
    BY <1>2
  <2>2. j + 1 = k + 1
    BY <1>2, <2>1 DEF OnePlace
  <2> QED
    BY <1>2, <2>2
<1>6. \A v \in Workers : t \notin running[v]
  BY <1>4 DEF OnePlace
<1>7. OnePlace'
  BY <1>3, <1>4, <1>5, <1>6 DEF OnePlace
<1>8. UNION {running'[v] : v \in Workers} = (UNION {running[v] : v \in Workers}) \union {t}
  BY <1>1, <1>3
<1> QED
  BY <1>2, <1>3, <1>4, <1>7, <1>8, UnfinishedParts DEF Unfinished, InQueue

(* Finishing a task removes it from everywhere.                            *)
LEMMA FinishKeeps ==
  ASSUME Typed, OnePlace, NEW w \in Workers, NEW t \in running[w], Pool!Finish(w)
  PROVE  /\ queue' = queue /\ running' \in [Workers -> SUBSET Names]
         /\ OnePlace' /\ Unfinished' = Unfinished \ {t}
<1>1. queue' = queue /\ running' = [running EXCEPT ![w] = {}]
  BY DEF Pool!Finish
<1>2. running' \in [Workers -> SUBSET Names] /\ running'[w] = {}
      /\ \A v \in Workers \ {w} : running'[v] = running[v]
  BY <1>1 DEF Typed
<1>3. running[w] = {t} /\ t \notin InQueue /\ \A v \in Workers \ {w} : t \notin running[v]
  BY DEF OnePlace
<1>4. InQueue' = InQueue
  BY <1>1 DEF InQueue
<1>5. OnePlace'
  BY <1>1, <1>2, <1>4 DEF OnePlace
<1> QED
  BY <1>1, <1>2, <1>3, <1>4, <1>5 DEF Unfinished, InQueue

LEMMA PoolStill ==
  ASSUME CaptureInv, UNCHANGED <<queue, running>>
  PROVE  /\ queue' \in Seq(Names) /\ running' \in [Workers -> SUBSET Names]
         /\ OnePlace' /\ Unfinished' = Unfinished
BY DEF CaptureInv, Typed, OnePlace, Unfinished, InQueue

(* Outside of the two loops only tasks of dispatches that were left live.  *)
LEMMA LeftOnly ==
  ASSUME CaptureInv, main \notin {"submit", "collect"}, NEW t \in Unfinished
  PROVE  t[1] \in unwound
BY DEF CaptureInv, Live, Current

LEMMA CaptureDispatch == CaptureInv /\ Dispatch => CaptureInv'
<1> SUFFICES ASSUME CaptureInv, Dispatch PROVE CaptureInv'
  OBVIOUS
<1>1. /\ main = "idle" /\ dispatch' = dispatch + 1 /\ unwound' = unwound /\ threads' = threads
      /\ result' = [i \in Instances |-> Pending] /\ next' = 1
      /\ main' \in {"inline", "submit"} /\ UNCHANGED <<queue, running>>
  BY DEF Dispatch, poolVars
<1>2. Typed'
  BY <1>1, PoolStill, PendingIsNone DEF CaptureInv, Typed
<1>3. Live'
  BY <1>1, PoolStill, LeftOnly DEF Live
<1>4. MaxThreads \in Nat /\ threads \in 1..MaxThreads /\ dispatch \in Nat /\ unwound \subseteq 1..dispatch
  BY ParallelAssumption DEF CaptureInv, Typed
<1>5. \A i \in next'..threads' : result'[i] = Pending
  BY <1>1, <1>4 DEF Instances
<1>6. next' <= threads' /\ dispatch' # 0 /\ dispatch' \notin unwound'
  BY <1>1, <1>4
<1>7. Loops'
  BY <1>1, <1>5, <1>6 DEF Loops
<1> QED
  BY <1>1, <1>2, <1>3, <1>7, PoolStill DEF CaptureInv

LEMMA CaptureEnqueue == CaptureInv /\ Enqueue => CaptureInv'
<1> SUFFICES ASSUME CaptureInv, Enqueue PROVE CaptureInv'
  OBVIOUS
<1> DEFINE t == <<dispatch, next>>
<1>1. /\ main = "submit" /\ Pool!Accept(t)
      /\ UNCHANGED <<threads, dispatch, result, unwound>>
      /\ \/ next < threads /\ next' = next + 1 /\ main' = "submit"
         \/ ~(next < threads) /\ next' = 1 /\ main' = "collect"
  BY DEF Enqueue
<1>2. /\ next \in 1..threads /\ threads \in 1..MaxThreads /\ threads \in Nat /\ MaxThreads \in Nat
      /\ t \in Names /\ result[next] = Pending /\ dispatch \notin unwound
  BY <1>1, ParallelAssumption DEF CaptureInv, Typed, Loops, Names, Instances
<1>3. /\ queue' \in Seq(Names) /\ running' = running
      /\ OnePlace' /\ Unfinished' = Unfinished \union {t}
  BY <1>1, <1>2, AcceptKeeps DEF CaptureInv
<1>4. Typed'
  BY <1>1, <1>2, <1>3 DEF CaptureInv, Typed
<1>5. Live'
  <2> SUFFICES ASSUME NEW u \in Unfinished' PROVE u[1] \in unwound \/ Current(u)'
    BY <1>1 DEF Live
  <2>1. CASE u = t
    BY <1>1, <1>2, <2>1 DEF Current
  <2>2. CASE u \in Unfinished
    <3>1. u[1] \in unwound \/ (Current(u) /\ u[2] < next)
      BY <1>1, <2>2 DEF CaptureInv, Live, Current
    <3>2. u[2] \in Nat
      BY <2>2, UnfinishedNames DEF CaptureInv, Names, Instances
    <3> QED
      BY <1>1, <1>2, <3>1, <3>2 DEF Current
  <2> QED
    BY <1>3, <2>1, <2>2
<1>6. Loops'
  BY <1>1, <1>2 DEF CaptureInv, Loops
<1> QED
  BY <1>3, <1>4, <1>5, <1>6 DEF CaptureInv

(* Leaving a dispatch, by Unwind.                                          *)
LEMMA CaptureUnwind ==
  ASSUME CaptureInv, Unwind, main \in {"inline", "collect"},
         UNCHANGED <<queue, running, threads, dispatch, result>>, dispatch # 0
  PROVE  CaptureInv'
<1>1. unwound' = unwound \union {dispatch} /\ main' = "idle" /\ next' = 1
  BY DEF Unwind
<1>2. Typed'
  BY <1>1, PoolStill DEF CaptureInv, Typed
<1>3. Live'
  BY <1>1, PoolStill DEF CaptureInv, Live, Current
<1>4. Loops'
  BY <1>1 DEF Loops
<1> QED
  BY <1>2, <1>3, <1>4, PoolStill DEF CaptureInv

LEMMA CaptureGet == CaptureInv /\ GetResult => CaptureInv'
<1> SUFFICES ASSUME CaptureInv, GetResult PROVE CaptureInv'
  OBVIOUS
<1>1. /\ main = "collect" /\ result[next] # Pending
      /\ UNCHANGED <<queue, running, threads, dispatch, result>>
  BY DEF GetResult, poolVars
<1>2. /\ next <= threads /\ threads \in Nat /\ next \in Nat \ {0}
      /\ dispatch # 0 /\ dispatch \notin unwound
      /\ \A i \in 1..(next - 1) : result[i] # Pending
  BY <1>1, ParallelAssumption DEF CaptureInv, Typed, Loops
<1>3. \A i \in 1..next : result[i] # Pending
  BY <1>1, <1>2
<1>4. CASE Unwind
  BY <1>1, <1>2, <1>4, CaptureUnwind
<1>5. ASSUME next < threads, next' = next + 1, main' = main, unwound' = unwound
      PROVE  CaptureInv'
  <2>1. Typed' /\ Live'
    BY <1>1, <1>2, <1>5, PoolStill DEF CaptureInv, Typed, Live, Current
  <2>2. next' <= threads' /\ next' - 1 = next
    BY <1>1, <1>2, <1>5
  <2>3. Loops'
    BY <1>1, <1>2, <1>3, <1>5, <2>2 DEF Loops
  <2> QED
    BY <1>1, <2>1, <2>3, PoolStill DEF CaptureInv
<1>6. ASSUME ~(next < threads), next' = 1, main' = "choose", unwound' = unwound
      PROVE  CaptureInv'
  <2>1. next = threads
    BY <1>2, <1>6
  <2>2. \A t \in Unfinished : t[1] \in unwound
    BY <1>3, <2>1 DEF CaptureInv, Live, Current
  <2>3. Typed' /\ Live'
    BY <1>1, <1>6, <2>2, PoolStill DEF CaptureInv, Typed, Live
  <2>4. Loops'
    BY <1>1, <1>2, <1>6 DEF Loops
  <2> QED
    BY <1>1, <2>3, <2>4, PoolStill DEF CaptureInv
<1> QED
  BY <1>4, <1>5, <1>6 DEF GetResult

LEMMA CaptureInline == CaptureInv /\ RunInline => CaptureInv'
<1> SUFFICES ASSUME CaptureInv, RunInline PROVE CaptureInv'
  OBVIOUS
<1>1. /\ main = "inline" /\ UNCHANGED <<queue, running, threads, dispatch>>
      /\ dispatch # 0 /\ dispatch \notin unwound
  BY DEF RunInline, poolVars, CaptureInv, Loops
<1>2. CASE Unwind /\ UNCHANGED <<result, tree>>
  BY <1>1, <1>2, CaptureUnwind
<1>3. ASSUME NEW r \in Results, result' = [result EXCEPT ![1] = r], main' = "choose",
             UNCHANGED <<next, unwound>>
      PROVE  CaptureInv'
  <2>1. Typed'
    BY <1>1, <1>3, PoolStill, PendingIsNone DEF CaptureInv, Typed
  <2>2. Live'
    BY <1>1, <1>3, PoolStill, LeftOnly DEF Live
  <2>3. Loops'
    BY <1>1, <1>3 DEF Loops
  <2> QED
    BY <1>1, <2>1, <2>2, <2>3, PoolStill DEF CaptureInv
<1> QED
  BY <1>2, <1>3 DEF RunInline

(* Steps of the dispatching thread outside of its two loops.               *)
LEMMA CaptureOutside ==
  ASSUME CaptureInv, main \notin {"submit", "collect"},
         main' \in {"idle", "read", "destroyed"},
         main \in {"idle", "destroyed"} => main' # "read",
         UNCHANGED <<queue, running, threads, next, dispatch, result, unwound>>
  PROVE  CaptureInv'
<1>1. Typed'
  BY PoolStill DEF CaptureInv, Typed
<1>2. Live'
  BY PoolStill, LeftOnly DEF Live
<1>3. Loops'
  BY DEF CaptureInv, Loops
<1> QED
  BY <1>1, <1>2, <1>3, PoolStill DEF CaptureInv

LEMMA CaptureStart == CaptureInv /\ (\E w \in Workers : StartTask(w)) => CaptureInv'
<1> SUFFICES ASSUME CaptureInv, NEW w \in Workers, StartTask(w) PROVE CaptureInv'
  OBVIOUS
<1>1. Pool!Start(w) /\ UNCHANGED <<threads, main, next, dispatch, result, unwound>>
  BY DEF StartTask, mainVars
<1>2. /\ queue' \in Seq(Names) /\ running' \in [Workers -> SUBSET Names]
      /\ OnePlace' /\ Unfinished' = Unfinished
  BY <1>1, StartKeeps DEF CaptureInv
<1>3. Typed' /\ Live' /\ Loops'
  BY <1>1, <1>2 DEF CaptureInv, Typed, Live, Current, Loops
<1> QED
  BY <1>2, <1>3 DEF CaptureInv

(* Only the future of the task itself becomes ready, and only if that task *)
(* belongs to the present dispatch.                                        *)
LEMMA CaptureFinish == CaptureInv /\ (\E w \in Workers : FinishTask(w)) => CaptureInv'
<1> SUFFICES ASSUME CaptureInv, NEW w \in Workers, FinishTask(w) PROVE CaptureInv'
  OBVIOUS
<1>1. Pool!Finish(w) /\ UNCHANGED <<threads, main, next, dispatch, unwound>>
  BY DEF FinishTask
<1>2. PICK t \in running[w], r \in Results \union {Threw} :
        result' = IF t[1] = dispatch /\ t[1] \notin unwound
                  THEN [result EXCEPT ![t[2]] = r] ELSE result
  BY DEF FinishTask
<1>3. /\ queue' = queue /\ running' \in [Workers -> SUBSET Names]
      /\ OnePlace' /\ Unfinished' = Unfinished \ {t}
  BY <1>1, FinishKeeps DEF CaptureInv
<1>4. t \in Unfinished /\ t \in Names /\ t[2] \in Instances
  BY UnfinishedParts, UnfinishedNames DEF CaptureInv, Names
<1>5. result' \in [Instances -> Outcomes]
  BY <1>2, <1>4, PendingIsNone DEF CaptureInv, Typed
<1>6. Typed'
  BY <1>1, <1>3, <1>5 DEF CaptureInv, Typed
<1>7. \A i \in Instances : i # t[2] => result'[i] = result[i]
  BY <1>2, <1>4 DEF CaptureInv, Typed
<1>8. ~Current(t) => result' = result
  BY <1>2, <1>4 DEF CaptureInv, Live
<1>9. Live'
  <2> SUFFICES ASSUME NEW u \in Unfinished, u # t, u[1] \notin unwound PROVE Current(u)'
    BY <1>1, <1>3 DEF Live
  <2>1. Current(u) /\ u \in Names
    BY UnfinishedNames DEF CaptureInv, Live
  <2>2. u[1] # t[1] \/ u[2] # t[2]
    BY <1>4, <2>1 DEF Names
  <2>3. u[2] \in Instances
    BY <2>1 DEF Names
  <2>4. result'[u[2]] = Pending
    BY <1>2, <1>7, <2>1, <2>2, <2>3 DEF Current
  <2> QED
    BY <1>1, <2>1, <2>4 DEF Current
<1>10. Loops'
  <2>1. threads \in Nat /\ 1..threads \subseteq Instances /\ next \in Nat \ {0}
    BY ParallelAssumption DEF CaptureInv, Typed, Instances
  <2>2. ASSUME main = "submit", NEW i \in next..threads PROVE result'[i] = Pending
    <3>1. result[i] = Pending /\ i \in Instances
      BY <2>1, <2>2 DEF CaptureInv, Loops
    <3>2. CASE Current(t)
      BY <1>7, <2>1, <2>2, <3>1, <3>2 DEF Current
    <3> QED
      BY <1>8, <3>1, <3>2
  <2>3. ASSUME main = "collect", NEW i \in 1..(next - 1) PROVE result'[i] # Pending
    <3>1. result[i] # Pending /\ i \in Instances
      BY <2>1, <2>3 DEF CaptureInv, Loops
    <3>2. CASE Current(t)
      BY <1>7, <3>1, <3>2 DEF Current
    <3> QED
      BY <1>8, <3>1, <3>2
  <2> QED
    BY <1>1, <2>2, <2>3 DEF CaptureInv, Loops
<1> QED
  BY <1>3, <1>6, <1>9, <1>10 DEF CaptureInv, Typed

LEMMA CaptureStep == CaptureInv /\ [Next]_vars => CaptureInv'
<1> SUFFICES ASSUME CaptureInv, [Next]_vars PROVE CaptureInv'
  OBVIOUS
<1>1. CASE Choose \/ Return
  BY <1>1, CaptureOutside DEF Choose, Return, poolVars
<1>2. CASE Destroy
  BY <1>2, CaptureOutside DEF Destroy, Pool!Close
<1>3. CASE JoinPool
  BY <1>3, CaptureOutside DEF JoinPool, Pool!Join, mainVars
<1>4. CASE UNCHANGED vars
  BY <1>4, PoolStill DEF vars, poolVars, mainVars, CaptureInv, Typed, Live, Current, Loops
<1> QED
  BY <1>1, <1>2, <1>3, <1>4, CaptureDispatch, CaptureEnqueue, CaptureGet, CaptureInline,
     CaptureStart, CaptureFinish DEF Next, InDispatch

(* search_fn outlives every task that may still call it: a task that is    *)
(* queued or runs belongs to the dispatch whose frame is on the stack, or  *)
(* to one that an exception has left, for any pool and number of steps.    *)
THEOREM CaptureAliveHolds == Spec => []CaptureAlive
<1>1. CaptureInv => CaptureAlive
  BY DEF CaptureInv, Live, Current, CaptureAlive
<1> QED
  BY <1>1, CaptureInit, CaptureStep, PTL DEF Spec

LEMMA CaptureAlways == Spec => []CaptureInv
BY CaptureInit, CaptureStep, PTL DEF Spec

(* A worker instance, with its node pool and generators, serves one task   *)
(* at a time over all dispatches, tasks of left dispatches apart: two live *)
(* tasks of one instance are current, and so the same task.                *)
THEOREM OneTaskPerInstanceHolds == Spec => []OneTaskPerInstance
<1>1. CaptureInv => OneTaskPerInstance
  <2> SUFFICES ASSUME CaptureInv, NEW w \in Workers, NEW v \in Workers,
                      NEW t \in running[w], NEW u \in running[v], t # u, t[2] = u[2],
                      t[1] \notin unwound, u[1] \notin unwound
               PROVE  FALSE
    BY DEF OneTaskPerInstance
  <2>1. t \in Unfinished /\ u \in Unfinished /\ t \in Names /\ u \in Names
    BY UnfinishedParts, UnfinishedNames DEF CaptureInv
  <2>2. t[1] = dispatch /\ u[1] = dispatch
    BY <2>1 DEF CaptureInv, Live, Current
  <2> QED
    BY <2>1, <2>2 DEF Names
<1> QED
  BY <1>1, CaptureAlways, PTL

-----------------------------------------------------------------------------
(* While no dispatch was left by an exception, a worker's result stands    *)
(* for a finished tree of this dispatch, and the loop over the futures has *)
(* a result of every worker behind it.                                     *)
TreeInv ==
  /\ tree \in [Instances -> Nat]
  /\ main = "inline" => threads = 1
  /\ (unwound = {} /\ main \notin {"idle", "destroyed"}) =>
        /\ \A i \in Instances : result[i] \in Results => tree[i] = dispatch
        /\ main = "collect" => \A i \in 1..(next - 1) : result[i] \in Results
        /\ main \in {"choose", "read"} => \A i \in 1..threads : result[i] \in Results

LEMMA TreeGet == CaptureInv /\ TreeInv /\ GetResult => TreeInv'
<1> SUFFICES ASSUME CaptureInv, TreeInv, GetResult PROVE TreeInv'
  OBVIOUS
<1>1. /\ main = "collect" /\ result[next] # Pending
      /\ UNCHANGED <<threads, dispatch, result, tree>>
  BY DEF GetResult, instVars
<1>2. /\ next \in 1..threads /\ threads \in Nat /\ next \in Instances
      /\ result[next] \in Outcomes
  BY <1>1, ParallelAssumption DEF CaptureInv, Typed, Loops, Instances
<1>3. CASE Unwind
  BY <1>1, <1>3 DEF Unwind, TreeInv
<1>4. ASSUME result[next] # Threw, unwound' = unwound,
             IF next < threads THEN next' = next + 1 /\ main' = main
                               ELSE next' = 1 /\ main' = "choose"
      PROVE  TreeInv'
  <2>1. result[next] \in Results
    BY <1>1, <1>2, <1>4 DEF Outcomes
  <2>2. unwound = {} => \A i \in 1..next : result[i] \in Results
    BY <1>1, <1>2, <2>1 DEF TreeInv
  <2>3. CASE next < threads
    <3>1. next' = next + 1 /\ main' = "collect" /\ next' - 1 = next
      BY <1>1, <1>2, <1>4, <2>3
    <3> QED
      BY <1>1, <1>4, <2>2, <3>1 DEF TreeInv
  <2>4. CASE ~(next < threads)
    <3>1. next = threads /\ main' = "choose"
      BY <1>2, <1>4, <2>4
    <3> QED
      BY <1>1, <1>4, <2>2, <3>1 DEF TreeInv
  <2> QED
    BY <2>3, <2>4
<1> QED
  BY <1>3, <1>4 DEF GetResult

LEMMA TreeStart == CaptureInv /\ TreeInv /\ (\E w \in Workers : StartTask(w)) => TreeInv'
<1> SUFFICES ASSUME CaptureInv, TreeInv, NEW w \in Workers, StartTask(w) PROVE TreeInv'
  OBVIOUS
<1> DEFINE t == Head(queue)
<1>1. /\ queue # <<>> /\ tree' = [tree EXCEPT ![t[2]] = 0]
      /\ UNCHANGED <<threads, main, next, dispatch, result, unwound>>
  BY DEF StartTask, Pool!Start, mainVars
<1>2. t \in Unfinished /\ t \in Names
  <2>1. 1 \in 1..Len(queue) /\ t = queue[1]
    BY <1>1 DEF CaptureInv, Typed
  <2> QED
    BY <2>1, UnfinishedNames DEF CaptureInv, Unfinished
<1>3. unwound = {} => result[t[2]] \notin Results
  BY <1>2, PendingIsNone DEF CaptureInv, Live, Current
<1>4. t[2] \in Instances
  BY <1>2 DEF Names
<1> HIDE DEF t
<1>5. /\ tree' \in [Instances -> Nat]
      /\ \A i \in Instances : i # t[2] => tree'[i] = tree[i]
  BY <1>1, <1>4 DEF TreeInv
<1> QED
  BY <1>1, <1>3, <1>5 DEF TreeInv

LEMMA TreeFinish == CaptureInv /\ TreeInv /\ (\E w \in Workers : FinishTask(w)) => TreeInv'
<1> SUFFICES ASSUME CaptureInv, TreeInv, NEW w \in Workers, FinishTask(w) PROVE TreeInv'
  OBVIOUS
<1>1. UNCHANGED <<threads, main, next, dispatch, unwound>>
  BY DEF FinishTask
<1>2. PICK t \in running[w], r \in Results \union {Threw} :
        /\ result' = IF t[1] = dispatch /\ t[1] \notin unwound
                     THEN [result EXCEPT ![t[2]] = r] ELSE result
        /\ tree' = [tree EXCEPT ![t[2]] = IF r = Threw THEN 0 ELSE t[1]]
  BY DEF FinishTask
<1>3. t \in Unfinished /\ t[1] \in Nat /\ t[2] \in Instances
  BY UnfinishedParts, UnfinishedNames DEF CaptureInv, Names
<1>4. tree' \in [Instances -> Nat] /\ \A i \in Instances : i # t[2] => tree'[i] = tree[i]
  BY <1>2, <1>3 DEF TreeInv
<1>5. ASSUME unwound = {}, main \notin {"idle", "destroyed"}
      PROVE  /\ \A i \in Instances : result'[i] \in Results => tree'[i] = dispatch
             /\ main = "collect" => \A i \in 1..(next - 1) : result'[i] \in Results
             /\ main \in {"choose", "read"} => \A i \in 1..threads : result'[i] \in Results
  <2>1. Current(t)
    BY <1>3, <1>5 DEF CaptureInv, Live
  <2>2. result' = [result EXCEPT ![t[2]] = r] /\ result \in [Instances -> Outcomes]
    BY <1>2, <1>5, <2>1 DEF Current, CaptureInv, Typed
  <2>3. \A i \in Instances : i # t[2] => result'[i] = result[i]
    BY <2>2
  <2>4. r \in Results => tree'[t[2]] = dispatch
    BY <1>2, <1>3, <2>1, ParallelAssumption DEF TreeInv, Current
  <2>5. \A i \in Instances : result'[i] \in Results => tree'[i] = dispatch
    BY <1>3, <1>4, <1>5, <2>2, <2>3, <2>4 DEF TreeInv
  <2>6. ASSUME main = "collect", NEW i \in 1..(next - 1) PROVE result'[i] \in Results
    <3>1. next <= threads /\ next \in Nat /\ threads \in 1..MaxThreads /\ MaxThreads \in Nat
      BY <2>6, ParallelAssumption DEF CaptureInv, Typed, Loops
    <3>2. i \in Instances /\ result[i] \in Results
      BY <1>5, <2>6, <3>1 DEF TreeInv, Instances
    <3> QED
      BY <2>1, <2>3, <3>2, PendingIsNone DEF Current
  <2> QED
    BY <2>1, <2>5, <2>6 DEF Current
<1> QED
  BY <1>1, <1>4, <1>5 DEF TreeInv

LEMMA TreeStep == CaptureInv /\ TreeInv /\ [Next]_vars => TreeInv'
<1> SUFFICES ASSUME CaptureInv, TreeInv, [Next]_vars PROVE TreeInv'
  OBVIOUS
<1>1. CASE Dispatch
  <2>1. /\ main' = IF threads = 1 THEN "inline" ELSE "submit"
        /\ result' = [i \in Instances |-> Pending] /\ UNCHANGED <<threads, tree>>
    BY <1>1 DEF Dispatch, instVars
  <2> QED
    BY <2>1, PendingIsNone DEF TreeInv
<1>2. CASE Enqueue
  <2>1. /\ main = "submit" /\ UNCHANGED <<threads, dispatch, result, unwound, tree>>
        /\ \/ main' = "submit"
           \/ main' = "collect" /\ next' = 1
    BY <1>2 DEF Enqueue, instVars
  <2> QED
    BY <2>1 DEF TreeInv
<1>3. CASE RunInline
  <2>1. /\ main = "inline" /\ UNCHANGED <<threads, dispatch>> /\ 1 \in Instances
        /\ dispatch \in Nat /\ threads = 1
    BY <1>3, ParallelAssumption DEF RunInline, Instances, CaptureInv, Typed, TreeInv
  <2>2. CASE Unwind /\ UNCHANGED <<result, tree>>
    BY <2>1, <2>2 DEF Unwind, TreeInv
  <2>3. ASSUME NEW r \in Results, result' = [result EXCEPT ![1] = r], main' = "choose",
               tree' = [tree EXCEPT ![1] = dispatch], UNCHANGED unwound
        PROVE  TreeInv'
    <3>1. result'[1] = r /\ \A i \in Instances : i # 1 => result'[i] = result[i]
      BY <2>1, <2>3 DEF CaptureInv, Typed
    <3>2. /\ tree' \in [Instances -> Nat] /\ tree'[1] = dispatch
          /\ \A i \in Instances : i # 1 => tree'[i] = tree[i]
      BY <2>1, <2>3 DEF TreeInv
    <3>3. \A i \in 1..threads : i = 1
      BY <2>1
    <3> QED
      BY <2>1, <2>3, <3>1, <3>2, <3>3 DEF TreeInv
  <2> QED
    BY <1>3, <2>2, <2>3 DEF RunInline
<1>4. CASE Choose \/ Return
  BY <1>4 DEF Choose, Return, instVars, TreeInv
<1>5. CASE Destroy
  BY <1>5 DEF Destroy, instVars, TreeInv
<1>6. CASE JoinPool \/ UNCHANGED vars
  BY <1>6 DEF JoinPool, mainVars, instVars, vars, TreeInv
<1> QED
  BY <1>1, <1>2, <1>3, <1>4, <1>5, <1>6, TreeGet, TreeStart, TreeFinish DEF Next, InDispatch

(* The trees the caller reads after a dispatch (getSecondBestAction) are   *)
(* finished ones of that dispatch and nobody writes to them, provided no   *)
(* dispatch has been left by an exception.                                 *)
THEOREM TreesQuietHolds == Spec => []TreesQuiet
<1>1. Init => TreeInv
  BY DEF Init, TreeInv
<1>2. CaptureInv /\ TreeInv => TreesQuiet
  <2> SUFFICES ASSUME CaptureInv, TreeInv, main \in {"choose", "read"}, unwound = {},
                      NEW i \in 1..threads
               PROVE  tree[i] = dispatch /\ \A t \in Unfinished : t[2] # i
    BY DEF TreesQuiet
  <2>1. i \in Instances
    BY ParallelAssumption DEF CaptureInv, Typed, Instances
  <2> QED
    BY <2>1, LeftOnly DEF TreeInv
<1> QED
  BY <1>1, <1>2, TreeStep, CaptureAlways, PTL DEF Spec

-----------------------------------------------------------------------------
(* The aggregate.  While the futures are read, counts and sums stand for   *)
(* the workers behind the loop, and a result that has been read does not   *)
(* change any more.                                                        *)
Visitors(R, a, k) == {i \in 1..k : R[i][a] # None}

Tallied(R, a, k) ==
  /\ counts[a] = Cardinality(Visitors(R, a, k))
  /\ sums[a] = SumOf(R, a, Visitors(R, a, k))

Behind == IF main = "collect" THEN next - 1
                              ELSE IF main \in {"choose", "read"} THEN threads ELSE 0

AggInv ==
  /\ counts \in [Actions -> Nat] /\ sums \in [Actions -> Nat]
  /\ main = "inline" => threads = 1
  /\ main \notin {"idle", "destroyed"} =>
       /\ \A i \in 1..Behind : result[i] \in Results
       /\ \A a \in Actions : Tallied(result, a, Behind)

LEMMA VisitorsFinite == \A R, a : \A k \in Nat : IsFiniteSet(Visitors(R, a, k))
<1> SUFFICES ASSUME NEW R, NEW a, NEW k \in Nat PROVE IsFiniteSet(Visitors(R, a, k))
  OBVIOUS
<1>1. IsFiniteSet(1..k)
  BY FS_Interval
<1> QED
  BY <1>1, FS_Subset DEF Visitors

LEMMA Scores ==
  ASSUME NEW r \in Results, NEW a \in Actions, r[a] # None
  PROVE  r[a] \in Nat
BY ParallelAssumption DEF Results

(* What one more worker adds.                                              *)
LEMMA OneMore ==
  ASSUME NEW R, NEW k \in Nat, NEW a \in Actions, \A i \in 1..(k + 1) : R[i] \in Results
  PROVE  /\ Cardinality(Visitors(R, a, k + 1)) =
               Cardinality(Visitors(R, a, k)) + (IF R[k + 1][a] = None THEN 0 ELSE 1)
         /\ SumOf(R, a, Visitors(R, a, k + 1)) =
               SumOf(R, a, Visitors(R, a, k)) + (IF R[k + 1][a] = None THEN 0 ELSE R[k + 1][a])
<1> DEFINE V == Visitors(R, a, k)
           W == Visitors(R, a, k + 1)
<1>1. IsFiniteSet(V) /\ IsFiniteSet(W) /\ Cardinality(V) \in Nat
  BY VisitorsFinite, FS_CardinalityType
<1>2. \A i \in W : R[i][a] \in Int
  <2> SUFFICES ASSUME NEW i \in 1..(k + 1), R[i][a] # None PROVE R[i][a] \in Int
    BY DEF Visitors
  <2>1. R[i] \in Results
    OBVIOUS
  <2>2. R[i][a] \in Nat
    BY <2>1, Scores
  <2> QED
    BY <2>2
<1>3. \A i \in V : R[i][a] \in Int
  <2>1. V \subseteq W
    BY DEF Visitors
  <2> HIDE DEF V, W
  <2> QED
    BY <1>2, <2>1
<1>4. SumOf(R, a, V) \in Int
  BY <1>1, <1>3, SumOfType
<1>5. CASE R[k + 1][a] = None
  <2>1. W = V
    BY <1>5 DEF Visitors
  <2> HIDE DEF V, W
  <2>2. Cardinality(W) = Cardinality(V) + 0 /\ SumOf(R, a, W) = SumOf(R, a, V) + 0
    BY <1>1, <1>4, <2>1
  <2> QED
    BY <1>5, <2>2 DEF V, W
<1>6. CASE R[k + 1][a] # None
  <2>1. k + 1 \in W /\ k + 1 \notin V /\ W = V \union {k + 1} /\ V = W \ {k + 1}
    BY <1>6 DEF Visitors
  <2> HIDE DEF V, W
  <2>2. SumOf(R, a, W) = R[k + 1][a] + SumOf(R, a, V)
    BY <1>1, <1>2, <2>1, SumOfRemove
  <2>3. Cardinality(W) = Cardinality(V) + 1
    BY <1>1, <2>1, FS_AddElement
  <2>4. R[k + 1][a] \in Int
    BY <1>2, <2>1
  <2>5. SumOf(R, a, W) = SumOf(R, a, V) + R[k + 1][a]
    BY <1>4, <2>2, <2>4
  <2> QED
    BY <1>6, <2>3, <2>5 DEF V, W
<1> QED
  BY <1>5, <1>6

LEMMA NobodyYet ==
  ASSUME NEW R, NEW a
  PROVE  Cardinality(Visitors(R, a, 0)) = 0 /\ SumOf(R, a, Visitors(R, a, 0)) = 0
<1>1. Visitors(R, a, 0) = {}
  BY DEF Visitors
<1> QED
  BY <1>1, SumOfEmpty, FS_EmptySet

(* The tally looks at no result but those of the first k workers.          *)
LEMMA TallyOfSame ==
  ASSUME NEW R, NEW Q, NEW a, NEW k \in Nat, \A i \in 1..k : R[i] = Q[i], Tallied(R, a, k)
  PROVE  Tallied(Q, a, k)
<1>1. Visitors(Q, a, k) = Visitors(R, a, k)
  BY DEF Visitors
<1>2. SumOf(Q, a, Visitors(R, a, k)) = SumOf(R, a, Visitors(R, a, k))
  <2>1. \A i \in Visitors(R, a, k) : Q[i][a] = R[i][a]
    BY DEF Visitors
  <2> QED
    BY <2>1, VisitorsFinite, SumOfSame
<1> QED
  BY <1>1, <1>2 DEF Tallied

(* Add brings the tally from the first k workers to the first k + 1.       *)
LEMMA AddTallies ==
  ASSUME NEW R, NEW k \in Nat, \A i \in 1..(k + 1) : R[i] \in Results,
         counts \in [Actions -> Nat], sums \in [Actions -> Nat],
         \A a \in Actions : Tallied(R, a, k), Add(R[k + 1])
  PROVE  /\ counts' \in [Actions -> Nat] /\ sums' \in [Actions -> Nat]
         /\ \A a \in Actions :
              /\ counts'[a] = Cardinality(Visitors(R, a, k + 1))
              /\ sums'[a] = SumOf(R, a, Visitors(R, a, k + 1))
<1>1. \A a \in Actions :
        /\ counts'[a] = counts[a] + (IF R[k + 1][a] = None THEN 0 ELSE 1)
        /\ sums'[a] = sums[a] + (IF R[k + 1][a] = None THEN 0 ELSE R[k + 1][a])
  BY DEF Add
<1>2. R[k + 1] \in Results
  OBVIOUS
<1>3. \A a \in Actions : R[k + 1][a] # None => R[k + 1][a] \in Nat
  BY <1>2, ParallelAssumption DEF Results
<1>4. \A a \in Actions : counts'[a] \in Nat /\ sums'[a] \in Nat
  BY <1>1, <1>3
<1>5. counts' \in [Actions -> Nat] /\ sums' \in [Actions -> Nat]
  BY <1>4 DEF Add
<1>6. ASSUME NEW a \in Actions
      PROVE  /\ counts'[a] = Cardinality(Visitors(R, a, k + 1))
             /\ sums'[a] = SumOf(R, a, Visitors(R, a, k + 1))
  BY <1>1, OneMore DEF Tallied
<1> QED
  BY <1>5, <1>6

LEMMA BehindFact ==
  ASSUME CaptureInv
  PROVE  Behind \in Nat /\ Behind <= threads /\ threads \in Nat /\ 1..threads \subseteq Instances
<1>1. /\ threads \in 1..MaxThreads /\ MaxThreads \in Nat /\ next \in Nat \ {0}
      /\ main = "collect" => next <= threads
  BY ParallelAssumption DEF CaptureInv, Typed, Loops
<1> QED
  BY <1>1 DEF Behind, Instances

LEMMA AggQuiet ==
  ASSUME CaptureInv, AggInv, UNCHANGED <<threads, main, next, counts, sums>>,
         \A i \in 1..Behind : result'[i] = result[i]
  PROVE  AggInv'
<1>1. Behind' = Behind /\ Behind \in Nat
  BY BehindFact DEF Behind
<1>2. main \notin {"idle", "destroyed"} => \A a \in Actions : Tallied(result, a, Behind)'
  <2> SUFFICES ASSUME main \notin {"idle", "destroyed"}, NEW a \in Actions
               PROVE  Tallied(result, a, Behind)'
    OBVIOUS
  <2>1. Tallied(result, a, Behind)
    BY DEF AggInv
  <2>2. Tallied(result', a, Behind)
    BY <1>1, <2>1, TallyOfSame
  <2> QED
    BY <1>1, <2>2 DEF Tallied
<1>3. main \notin {"idle", "destroyed"} => \A i \in 1..Behind : result'[i] \in Results
  BY DEF AggInv
<1> QED
  BY <1>1, <1>2, <1>3 DEF AggInv

LEMMA AggGet == CaptureInv /\ AggInv /\ GetResult => AggInv'
<1> SUFFICES ASSUME CaptureInv, AggInv, GetResult PROVE AggInv'
  OBVIOUS
<1>1. /\ main = "collect" /\ result[next] # Pending
      /\ UNCHANGED <<threads, dispatch, result>>
  BY DEF GetResult
<1>2. /\ next \in 1..threads /\ threads \in Nat /\ next \in Instances
      /\ result[next] \in Outcomes /\ next - 1 \in Nat /\ (next - 1) + 1 = next
  BY <1>1, ParallelAssumption DEF CaptureInv, Typed, Loops, Instances
<1>3. CASE Unwind
  BY <1>1, <1>3 DEF Unwind, AggInv
<1>4. ASSUME result[next] # Threw, Add(result[next]),
             IF next < threads THEN next' = next + 1 /\ main' = main
                               ELSE next' = 1 /\ main' = "choose"
      PROVE  AggInv'
  <2>1. result[next] \in Results
    BY <1>1, <1>2, <1>4 DEF Outcomes
  <2>2. /\ Behind = next - 1 /\ \A i \in 1..(next - 1) : result[i] \in Results
        /\ \A a \in Actions : Tallied(result, a, next - 1)
        /\ counts \in [Actions -> Nat] /\ sums \in [Actions -> Nat]
    BY <1>1 DEF Behind, AggInv
  <2>3. \A i \in 1..((next - 1) + 1) : result[i] \in Results
    BY <1>2, <2>1, <2>2
  <2>4. Add(result[(next - 1) + 1])
    BY <1>2, <1>4
  <2>5. /\ counts' \in [Actions -> Nat] /\ sums' \in [Actions -> Nat]
        /\ \A a \in Actions :
             /\ counts'[a] = Cardinality(Visitors(result, a, (next - 1) + 1))
             /\ sums'[a] = SumOf(result, a, Visitors(result, a, (next - 1) + 1))
    BY <1>2, <2>2, <2>3, <2>4, AddTallies
  <2>6. Behind' = next /\ main' \in {"collect", "choose"}
    <3>1. CASE next < threads
      BY <1>1, <1>2, <1>4, <3>1 DEF Behind
    <3>2. CASE ~(next < threads)
      BY <1>1, <1>2, <1>4, <3>2 DEF Behind
    <3> QED
      BY <3>1, <3>2
  <2>7. \A a \in Actions : Tallied(result, a, Behind)'
    BY <1>1, <1>2, <2>5, <2>6 DEF Tallied
  <2> QED
    BY <1>1, <1>2, <2>3, <2>5, <2>6, <2>7 DEF AggInv
<1> QED
  BY <1>3, <1>4 DEF GetResult

LEMMA AggInline == CaptureInv /\ AggInv /\ RunInline => AggInv'
<1> SUFFICES ASSUME CaptureInv, AggInv, RunInline PROVE AggInv'
  OBVIOUS
<1>1. /\ main = "inline" /\ threads = 1 /\ threads' = threads /\ Behind = 0 /\ 1 \in Instances
      /\ counts \in [Actions -> Nat] /\ sums \in [Actions -> Nat]
      /\ \A a \in Actions : Tallied(result, a, 0)
  BY ParallelAssumption DEF RunInline, AggInv, Behind, Instances
<1>2. CASE Unwind
  BY <1>1, <1>2 DEF Unwind, AggInv
<1>3. ASSUME NEW r \in Results, Add(r), result' = [result EXCEPT ![1] = r], main' = "choose"
      PROVE  AggInv'
  <2>1. result'[1] = r
    BY <1>1, <1>3 DEF CaptureInv, Typed
  <2>2. \A a \in Actions : Tallied(result', a, 0)
    BY <1>1, TallyOfSame
  <2>3. \A i \in 1..(0 + 1) : result'[i] \in Results
    BY <2>1
  <2>4. Add(result'[0 + 1])
    BY <1>3, <2>1
  <2>5. /\ counts' \in [Actions -> Nat] /\ sums' \in [Actions -> Nat]
        /\ \A a \in Actions :
             /\ counts'[a] = Cardinality(Visitors(result', a, 0 + 1))
             /\ sums'[a] = SumOf(result', a, Visitors(result', a, 0 + 1))
    BY <1>1, <2>2, <2>3, <2>4, AddTallies
  <2>6. Behind' = 0 + 1
    BY <1>1, <1>3 DEF Behind
  <2> QED
    BY <1>3, <2>3, <2>5, <2>6 DEF AggInv, Tallied
<1> QED
  BY <1>2, <1>3 DEF RunInline

LEMMA AggFinish == CaptureInv /\ AggInv /\ (\E w \in Workers : FinishTask(w)) => AggInv'
<1> SUFFICES ASSUME CaptureInv, AggInv, NEW w \in Workers, FinishTask(w) PROVE AggInv'
  OBVIOUS
<1>1. UNCHANGED <<threads, main, next, dispatch, counts, sums, unwound>>
  BY DEF FinishTask
<1>2. CASE main \in {"idle", "destroyed"}
  BY <1>1, <1>2 DEF AggInv
<1>3. CASE main \notin {"idle", "destroyed"}
  <2>1. PICK t \in running[w], r \in Results \union {Threw} :
          result' = IF t[1] = dispatch /\ t[1] \notin unwound
                    THEN [result EXCEPT ![t[2]] = r] ELSE result
    BY DEF FinishTask
  <2>2. t \in Unfinished /\ t[2] \in Instances
    BY UnfinishedParts, UnfinishedNames DEF CaptureInv, Names
  <2>3. CASE t[1] \in unwound
    BY <1>1, <2>1, <2>3, AggQuiet
  <2>4. CASE Current(t)
    <3>1. result[t[2]] = Pending
      BY <2>4 DEF Current
    <3>2. \A i \in 1..Behind : i # t[2] /\ i \in Instances
      BY <1>3, <3>1, PendingIsNone, BehindFact DEF AggInv
    <3>3. \A i \in 1..Behind : result'[i] = result[i]
      BY <2>1, <3>2 DEF CaptureInv, Typed
    <3> QED
      BY <1>1, <3>3, AggQuiet
  <2> QED
    BY <2>2, <2>3, <2>4 DEF CaptureInv, Live
<1> QED
  BY <1>2, <1>3

LEMMA AggStep == CaptureInv /\ AggInv /\ [Next]_vars => AggInv'
<1> SUFFICES ASSUME CaptureInv, AggInv, [Next]_vars PROVE AggInv'
  OBVIOUS
<1>1. CASE Dispatch
  <2>1. /\ main' = IF threads = 1 THEN "inline" ELSE "submit"
        /\ counts' = [a \in Actions |-> 0] /\ sums' = [a \in Actions |-> 0]
        /\ threads' = threads
    BY <1>1 DEF Dispatch
  <2>2. Behind' = 0
    BY <2>1 DEF Behind
  <2>3. \A a \in Actions : Tallied(result, a, Behind)'
    BY <2>1, <2>2, NobodyYet DEF Tallied
  <2>4. counts' \in [Actions -> Nat] /\ sums' \in [Actions -> Nat]
    BY <2>1
  <2> QED
    BY <2>1, <2>2, <2>3, <2>4 DEF AggInv
<1>2. CASE Enqueue
  <2>1. /\ main = "submit" /\ UNCHANGED <<threads, result, counts, sums>>
        /\ \/ main' = "submit"
           \/ main' = "collect" /\ next' = 1
    BY <1>2 DEF Enqueue
  <2>2. Behind = 0 /\ Behind' = 0
    BY <2>1 DEF Behind
  <2> QED
    BY <2>1, <2>2 DEF AggInv, Tallied
<1>3. CASE Choose
  <2>1. main = "choose" /\ main' = "read" /\ UNCHANGED <<threads, result, counts, sums>>
    BY <1>3 DEF Choose
  <2>2. Behind' = Behind
    BY <2>1 DEF Behind
  <2> QED
    BY <2>1, <2>2 DEF AggInv, Tallied
<1>4. CASE Return \/ Destroy
  BY <1>4 DEF Return, Destroy, AggInv
<1>5. CASE JoinPool \/ (\E w \in Workers : StartTask(w)) \/ UNCHANGED vars
  <2>1. UNCHANGED mainVars
    BY <1>5 DEF JoinPool, StartTask, vars
  <2> QED
    BY <2>1, AggQuiet DEF mainVars
<1> QED
  BY <1>1, <1>2, <1>3, <1>4, <1>5, AggGet, AggInline, AggFinish DEF Next, InDispatch

LEMMA AggAlways == Spec => [](CaptureInv /\ AggInv)
<1>1. Init => AggInv
  BY DEF Init, AggInv
<1> QED
  BY <1>1, AggStep, CaptureAlways, PTL DEF Spec

(* What is averaged after a dispatch is the sum over this dispatch's       *)
(* workers, each once, whatever the order in which their tasks finish,     *)
(* whatever the buffers held and whatever earlier dispatches left running. *)
THEOREM AggregateExactHolds == Spec => []AggregateExact
<1>1. CaptureInv /\ AggInv => AggregateExact
  <2> SUFFICES ASSUME AggInv, main \in {"choose", "read"}, NEW a \in Actions
               PROVE  /\ counts[a] = Cardinality(Visitors(result, a, threads))
                      /\ sums[a] = MapThenSumSet(LAMBDA i : result[i][a], Visitors(result, a, threads))
    BY Zenon DEF AggregateExact, Visitors
  <2>1. Tallied(result, a, threads)
    BY DEF AggInv, Behind
  <2> QED
    BY Zenon, <2>1 DEF Tallied, SumOf
<1> QED
  BY <1>1, AggAlways, PTL

-----------------------------------------------------------------------------
(* The choice.  To be Better is a strict weak order, for averages compared *)
(* by cross-multiplication and actions nobody visited below all others, so *)
(* that a first maximum exists.                                            *)
Numbers == counts \in [Actions -> Nat] /\ sums \in [Actions -> Nat]

LEMMA CrossMultiply ==
  ASSUME NEW x \in Nat, NEW y \in Nat, NEW z \in Nat,
         NEW p \in Nat \ {0}, NEW q \in Nat \ {0}, NEW r \in Nat \ {0},
         ~(x * q > y * p), ~(y * r > z * q)
  PROVE  ~(x * r > z * p)
<1>1. x * q <= y * p /\ y * r <= z * q
  OBVIOUS
<1>2. (x * q) * r <= (y * p) * r
  BY <1>1
<1>3. (y * r) * p <= (z * q) * p
  BY <1>1
<1>4. (x * r) * q <= (z * p) * q
  BY <1>2, <1>3
<1> QED
  BY <1>4

(* If a is not better than b, nor b than c, then a is not better than c.   *)
LEMMA NotBetterTransitive ==
  ASSUME Numbers, NEW bonus \in {0, 1}, NEW a \in Actions, NEW b \in Actions, NEW c \in Actions,
         ~Better(a, b, bonus), ~Better(b, c, bonus)
  PROVE  ~Better(a, c, bonus)
<1> DEFINE total(x) == sums[x] + (IF x = Sense THEN bonus * counts[x] ELSE 0)
<1>1. \A x \in Actions : total(x) \in Nat /\ counts[x] \in Nat
  BY DEF Numbers
<1>2. \A x, y \in Actions :
        Better(x, y, bonus) <=>
          counts[x] > 0 /\ (counts[y] > 0 => total(x) * counts[y] > total(y) * counts[x])
  BY Zenon DEF Better
<1> HIDE DEF total
<1>3. SUFFICES ASSUME counts[a] > 0 PROVE ~Better(a, c, bonus)
  BY <1>2
<1>4. counts[b] > 0 /\ ~(total(a) * counts[b] > total(b) * counts[a])
  BY <1>2, <1>3
<1>5. counts[c] > 0 /\ ~(total(b) * counts[c] > total(c) * counts[b])
  BY <1>2, <1>4
<1>6. ~(total(a) * counts[c] > total(c) * counts[a])
  <2>1. /\ counts[a] \in Nat \ {0} /\ counts[b] \in Nat \ {0} /\ counts[c] \in Nat \ {0}
        /\ total(a) \in Nat /\ total(b) \in Nat /\ total(c) \in Nat
    BY <1>1, <1>3, <1>4, <1>5
  <2> QED
    BY <1>4, <1>5, <2>1, CrossMultiply
<1> QED
  BY <1>2, <1>5, <1>6

LEMMA BetterAsymmetric ==
  ASSUME Numbers, NEW bonus \in {0, 1}, NEW a \in Actions, NEW b \in Actions,
         Better(a, b, bonus)
  PROVE  ~Better(b, a, bonus)
<1> DEFINE total(x) == sums[x] + (IF x = Sense THEN bonus * counts[x] ELSE 0)
<1>1. \A x \in Actions : total(x) \in Nat /\ counts[x] \in Nat
  BY DEF Numbers
<1>2. \A x, y \in Actions :
        Better(x, y, bonus) <=>
          counts[x] > 0 /\ (counts[y] > 0 => total(x) * counts[y] > total(y) * counts[x])
  BY Zenon DEF Better
<1> HIDE DEF total
<1>3. CASE counts[b] > 0
  <2>1. total(a) * counts[b] > total(b) * counts[a] /\ counts[a] > 0
    BY <1>2, <1>3
  <2>2. total(a) * counts[b] \in Nat /\ total(b) * counts[a] \in Nat
    BY <1>1
  <2>3. ~(total(b) * counts[a] > total(a) * counts[b])
    BY <2>1, <2>2
  <2> QED
    BY <1>2, <2>1, <2>3
<1>4. CASE ~(counts[b] > 0)
  BY <1>2, <1>4
<1> QED
  BY <1>3, <1>4

FirstBest(a, n, bonus) ==
  \A b \in 0..n : ~Better(b, a, bonus) /\ (b < a => Better(a, b, bonus))

LEMMA FirstBestExists ==
  ASSUME Numbers, NEW bonus \in {0, 1}
  PROVE  \E a \in Actions : \A b \in Actions :
           ~Better(b, a, bonus) /\ (b < a => Better(a, b, bonus))
<1> DEFINE I == {n \in Nat : n < NumActions => \E a \in 0..n : FirstBest(a, n, bonus)}
<1>1. NumActions \in Nat \ {0}
  BY ParallelAssumption
<1>2. \A n \in Nat : n < NumActions => 0..n \subseteq Actions
  BY <1>1 DEF Actions
<1>3. \A a \in Actions : ~Better(a, a, bonus)
  BY BetterAsymmetric
<1>4. 0 \in I
  <2>1. 0 \in Actions /\ 0 \in 0..0 /\ \A b \in 0..0 : b = 0
    BY <1>1 DEF Actions
  <2>2. FirstBest(0, 0, bonus)
    BY <1>3, <2>1 DEF FirstBest
  <2> QED
    BY <2>1, <2>2
<1>5. \A n \in Nat : n \in I => n + 1 \in I
  <2> SUFFICES ASSUME NEW n \in Nat, n \in I, n + 1 < NumActions
               PROVE  \E a \in 0..(n + 1) : FirstBest(a, n + 1, bonus)
    OBVIOUS
  <2>1. PICK m \in 0..n : FirstBest(m, n, bonus)
    BY <1>1
  <2>2. /\ \A b \in 0..(n + 1) : b \in Actions /\ (b \in 0..n \/ b = n + 1)
        /\ m \in Actions /\ n + 1 \in Actions /\ m \in 0..(n + 1) /\ n + 1 \in 0..(n + 1)
        /\ m < n + 1
    BY <1>1 DEF Actions
  <2>3. CASE Better(n + 1, m, bonus)
    <3>1. ASSUME NEW b \in 0..n PROVE Better(n + 1, b, bonus)
      <4>1. b \in Actions /\ ~Better(b, m, bonus)
        BY <1>1, <2>1 DEF FirstBest, Actions
      <4> QED
        BY <2>2, <2>3, <4>1, NotBetterTransitive
    <3>2. \A b \in 0..n : ~Better(b, n + 1, bonus)
      BY <2>2, <3>1, BetterAsymmetric
    <3>3. FirstBest(n + 1, n + 1, bonus)
      BY <1>3, <2>2, <3>1, <3>2 DEF FirstBest
    <3> QED
      BY <2>2, <3>3
  <2>4. CASE ~Better(n + 1, m, bonus)
    <3>1. FirstBest(m, n + 1, bonus)
      BY <2>1, <2>2, <2>4 DEF FirstBest
    <3> QED
      BY <2>2, <3>1
  <2> QED
    BY <2>3, <2>4
<1> HIDE DEF I
<1>6. \A n \in Nat : n \in I
  BY <1>4, <1>5, SetInduction
<1>7. NumActions - 1 \in Nat /\ NumActions - 1 < NumActions /\ NumActions - 1 \in I
  BY <1>1, <1>6
<1> QED
  BY <1>7 DEF I, FirstBest, Actions

(* Of an action that is best only if none was visited.                     *)
LEMMA ChosenVisited ==
  ASSUME Numbers, NEW bonus \in {0, 1}, NEW a \in Actions,
         \A b \in Actions : ~Better(b, a, bonus), counts[a] = 0
  PROVE  \A b \in Actions : counts[b] = 0
<1> SUFFICES ASSUME NEW b \in Actions, counts[b] # 0 PROVE FALSE
  OBVIOUS
<1>1. counts[b] \in Nat
  BY DEF Numbers
<1>2. counts[b] > 0 /\ ~(counts[a] > 0)
  BY <1>1
<1>3. Better(b, a, bonus)
  BY Zenon, <1>2 DEF Better
<1> QED
  BY <1>3

BestInv == main = "read" => best \in Actions /\ BestActionVisited

LEMMA BestChoose == CaptureInv /\ AggInv /\ Choose => BestInv'
<1> SUFFICES ASSUME CaptureInv, AggInv, Choose PROVE BestInv'
  OBVIOUS
<1>1. main = "choose" /\ main' = "read" /\ UNCHANGED <<threads, result>>
  BY DEF Choose
<1>2. Numbers
  BY DEF AggInv, Numbers
<1>3. PICK bonus \in {0, 1} :
        best' = CHOOSE a \in Actions : \A b \in Actions :
                  /\ ~Better(b, a, bonus)
                  /\ b < a => Better(a, b, bonus)
  BY DEF Choose
<1>4. best' \in Actions /\ \A b \in Actions : ~Better(b, best', bonus)
  BY <1>2, <1>3, FirstBestExists
<1>5. \A a \in Actions : counts[a] = Cardinality(Visitors(result, a, threads))
  BY <1>1 DEF AggInv, Tallied, Behind
<1>6. /\ threads \in Nat
      /\ \A a \in Actions : counts[a] = 0 <=> Visitors(result, a, threads) = {}
  <2>1. threads \in Nat
    BY BehindFact
  <2> QED
    BY <1>5, <2>1, VisitorsFinite, FS_EmptySet
<1>7. CASE counts[best'] = 0
  <2>1. \A b \in Actions : counts[b] = 0
    BY <1>2, <1>4, <1>7, ChosenVisited
  <2>2. \A i \in 1..threads, a \in Actions : result[i][a] = None
    BY <1>6, <2>1 DEF Visitors
  <2> QED
    BY <1>1, <1>4, <2>2 DEF BestInv, BestActionVisited
<1>8. CASE counts[best'] # 0
  <2>1. PICK i \in 1..threads : result[i][best'] # None
    BY <1>4, <1>6, <1>8 DEF Visitors
  <2> QED
    BY <1>1, <1>4, <2>1 DEF BestInv, BestActionVisited
<1> QED
  BY <1>7, <1>8

LEMMA BestFinish == CaptureInv /\ AggInv /\ BestInv /\ (\E w \in Workers : FinishTask(w)) => BestInv'
<1> SUFFICES ASSUME CaptureInv, AggInv, BestInv, NEW w \in Workers, FinishTask(w), main = "read"
             PROVE  BestInv'
  BY DEF BestInv, FinishTask
<1>1. UNCHANGED <<threads, main, best>>
  BY DEF FinishTask
<1>2. PICK t \in running[w], r \in Results \union {Threw} :
        result' = IF t[1] = dispatch /\ t[1] \notin unwound
                  THEN [result EXCEPT ![t[2]] = r] ELSE result
  BY DEF FinishTask
<1>3. t[1] \in unwound
  BY LeftOnly, UnfinishedParts
<1> QED
  BY <1>1, <1>2, <1>3 DEF BestInv, BestActionVisited

LEMMA BestStep == CaptureInv /\ AggInv /\ BestInv /\ [Next]_vars => BestInv'
<1> SUFFICES ASSUME CaptureInv, AggInv, BestInv, [Next]_vars PROVE BestInv'
  OBVIOUS
<1>1. CASE Dispatch \/ Enqueue \/ GetResult \/ RunInline \/ Return \/ Destroy
  <2>1. main' # "read"
    BY <1>1 DEF Dispatch, Enqueue, GetResult, Unwind, RunInline, Return, Destroy
  <2> QED
    BY <2>1 DEF BestInv
<1>2. CASE JoinPool \/ (\E w \in Workers : StartTask(w)) \/ UNCHANGED vars
  BY <1>2 DEF JoinPool, StartTask, vars, mainVars, BestInv, BestActionVisited
<1> QED
  BY <1>1, <1>2, BestChoose, BestFinish DEF Next, InDispatch

(* getBestAction never answers with an action no worker visited, while one *)
(* did visit some: neither the sentinel average nor the entropy bonus can  *)
(* promote it, for any number of actions and values.                       *)
THEOREM BestActionVisitedHolds == Spec => []BestActionVisited
<1>1. Init => BestInv
  BY DEF Init, BestInv
<1>2. BestInv => BestActionVisited
  BY DEF BestInv, BestActionVisited
<1> QED
  BY <1>1, <1>2, BestStep, AggAlways, PTL DEF Spec
=============================================================================
