----------------------------- MODULE TaskQueue -----------------------------
(***************************************************************************)
(* What the rest of VecQMDP is promised by utils::ThreadPool: a task that  *)
(* was accepted is started once, in the order of acceptance, by some       *)
(* worker; tasks are refused once the destructor has run its first line;   *)
(* the destructor returns only when every accepted task is finished.       *)
(* Locks, the condition variable and the individual worker loops are       *)
(* hidden: ThreadPool.tla adds them and is shown to implement this module. *)
(***************************************************************************)
EXTENDS Naturals, Sequences

CONSTANTS
  Tasks,    \* the tasks that may be handed to the pool, each at most once
  Workers   \* the worker threads

VARIABLES
  queue,    \* accepted tasks that no worker has started
  running,  \* [Workers -> SUBSET Tasks]: the task a worker is inside, or {}
  done,     \* tasks that have run to completion
  closed,   \* the pool refuses new tasks
  joined    \* the destructor has returned

vars == <<queue, running, done, closed, joined>>

Queued  == {queue[i] : i \in 1..Len(queue)}
Started == UNION {running[w] : w \in Workers}
Accepted == Queued \union Started \union done

Init ==
  /\ queue = <<>>
  /\ running = [w \in Workers |-> {}]
  /\ done = {}
  /\ closed = FALSE
  /\ joined = FALSE

Accept(t) ==
  /\ ~closed
  /\ t \notin Accepted
  /\ queue' = Append(queue, t)
  /\ UNCHANGED <<running, done, closed, joined>>

Start(w) ==
  /\ queue # <<>>
  /\ running[w] = {}
  /\ running' = [running EXCEPT ![w] = {Head(queue)}]
  /\ queue' = Tail(queue)
  /\ UNCHANGED <<done, closed, joined>>

Finish(w) ==
  /\ running[w] # {}
  /\ done' = done \union running[w]
  /\ running' = [running EXCEPT ![w] = {}]
  /\ UNCHANGED <<queue, closed, joined>>

Close ==
  /\ ~closed
  /\ closed' = TRUE
  /\ UNCHANGED <<queue, running, done, joined>>

Join ==
  /\ closed
  /\ ~joined
  /\ queue = <<>>
  /\ Started = {}
  /\ joined' = TRUE
  /\ UNCHANGED <<queue, running, done, closed>>

Next ==
  \/ \E t \in Tasks : Accept(t)
  \/ \E w \in Workers : Start(w) \/ Finish(w)
  \/ Close
  \/ Join

Spec == Init /\ [][Next]_vars
=============================================================================
