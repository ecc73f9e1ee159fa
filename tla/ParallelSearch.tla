--------------------------- MODULE ParallelSearch ---------------------------
(***************************************************************************)
(* dispatchParallelSearch of both back-ends (vec_qmdp_dynamic.cpp,         *)
(* vec_qmdp_static.cpp) with its caller parallelBeliefTreeSearch: one task *)
(* per worker instance goes to the pool, the futures are read in order,    *)
(* and the per-action sums become averages, a best action and, while the   *)
(* workers rest, reads of their trees.  The pool is TaskQueue, which       *)
(* ThreadPool implements; DynSearch is what one task does inside.          *)
(*                                                                         *)
(* A task may throw (its vectors allocate): the future rethrows in the     *)
(* dispatching thread, which leaves while other tasks still run.           *)
(***************************************************************************)
EXTENDS Naturals, Sequences, FiniteSets, FiniteSetsExt

CONSTANTS
  MaxThreads,     \* bound on the constructor's num_threads
  NumActions,     \* num_actions_
  Sense,          \* the action that applyEntropyBonuses raises
  Values,         \* Q values of a root action in one worker
  MaxDispatches,  \* bound: planning steps
  None,           \* instead of a value: the action was never visited
  Pending,        \* instead of a result: the future is not ready
  Threw           \* instead of a result: the task threw

Actions   == 0..(NumActions - 1)
Instances == 1..MaxThreads
Workers   == 1..MaxThreads
Tasks     == (1..MaxDispatches) \X Instances   \* <<dispatch, instance>>

Results == [Actions -> Values \union {None}]   \* one worker's root actions

ASSUME ParallelAssumption ==
  /\ MaxThreads \in Nat \ {0} /\ NumActions \in Nat \ {0}
  /\ Sense \in Actions /\ Values \subseteq Nat /\ MaxDispatches \in Nat
  /\ None \notin Values /\ {Pending, Threw} \intersect Results = {}

VARIABLES
  queue, running, done, closed, joined,   \* the pool: see TaskQueue
  threads,    \* num_worker_threads_
  main,       \* where the dispatching thread stands
  next,       \* the i of its loop over instances or futures
  dispatch,   \* number of the dispatch, counted from 1
  result,     \* [Instances -> outcome]: the futures of this dispatch
  counts, sums,   \* aggregated_action_counts_, aggregated_action_values_
  best,       \* what getBestAction returned
  tree,       \* [Instances -> dispatch whose finished tree it holds, or 0]
  draws,      \* [Instances -> searches its generators have served]
  scenarios,  \* [Instances -> the scenario set of its latest search]
  unwound     \* dispatches left by an exception (history)

poolVars == <<queue, running, done, closed, joined>>
mainVars == <<threads, main, next, dispatch, result, counts, sums, best, unwound>>
instVars == <<tree, draws, scenarios>>
vars     == <<poolVars, mainVars, instVars>>

Pool == INSTANCE TaskQueue

(* initParallelInfrastructure, with any number of threads.                 *)
Init ==
  /\ Pool!Init
  /\ threads \in 1..MaxThreads
  /\ main = "idle" /\ next = 1 /\ dispatch = 0
  /\ result = [i \in Instances |-> Pending]
  /\ counts = [a \in Actions |-> 0] /\ sums = [a \in Actions |-> 0]
  /\ best = 0
  /\ tree = [i \in Instances |-> 0] /\ draws = [i \in Instances |-> 0]
  /\ scenarios = [i \in Instances |-> <<0, 0>>]
  /\ unwound = {}

-----------------------------------------------------------------------------
(* The dispatching thread.                                                 *)

(* Entry: the aggregation buffers are cleared.  One thread means no pool:  *)
(* the search runs on the object itself, as instance 1 here.               *)
Dispatch ==
  /\ main = "idle"
  /\ dispatch < MaxDispatches
  /\ dispatch' = dispatch + 1
  /\ counts' = [a \in Actions |-> 0] /\ sums' = [a \in Actions |-> 0]
  /\ result' = [i \in Instances |-> Pending]
  /\ next' = 1
  /\ main' = IF threads = 1 THEN "inline" ELSE "submit"
  /\ UNCHANGED <<poolVars, threads, best, unwound, instVars>>

(* Fault: one task too few is submitted.                                   *)
EnqueueTooFew ==
  /\ main = "submit"
  /\ Pool!Accept(<<dispatch, next>>)
  /\ IF next < threads - 1 THEN next' = next + 1 /\ main' = main
                           ELSE next' = 1 /\ main' = "collect"
  /\ UNCHANGED <<threads, dispatch, result, counts, sums, best, unwound, instVars>>

Enqueue ==
  /\ main = "submit"
  /\ Pool!Accept(<<dispatch, next>>)
  /\ IF next < threads THEN next' = next + 1 /\ main' = main
                       ELSE next' = 1 /\ main' = "collect"
  /\ UNCHANGED <<threads, dispatch, result, counts, sums, best, unwound, instVars>>

(* Fault: a worker counts for the actions it has not visited, too.         *)
AddBlindly(r) ==
  /\ counts' = [a \in Actions |-> counts[a] + 1]
  /\ sums' = [a \in Actions |-> sums[a] + (IF r[a] = None THEN 0 ELSE r[a])]

Add(r) ==
  /\ counts' = [a \in Actions |-> counts[a] + (IF r[a] = None THEN 0 ELSE 1)]
  /\ sums' = [a \in Actions |-> sums[a] + (IF r[a] = None THEN 0 ELSE r[a])]

Unwind ==
  /\ unwound' = unwound \union {dispatch}
  /\ main' = "idle" /\ next' = 1
  /\ UNCHANGED <<counts, sums>>

(* Faults: a future is passed over while it is not ready; the last one is  *)
(* not read.                                                               *)
PollResult ==
  /\ main = "collect"
  /\ IF result[next] \in {Pending, Threw} THEN UNCHANGED <<counts, sums>>
                                          ELSE Add(result[next])
  /\ IF next < threads THEN next' = next + 1 /\ main' = main
                       ELSE next' = 1 /\ main' = "choose"
  /\ UNCHANGED <<poolVars, threads, dispatch, result, best, unwound, instVars>>

GetAllButLast ==
  /\ main = "collect"
  /\ result[next] \notin {Pending, Threw}
  /\ Add(result[next])
  /\ IF next < threads - 1 THEN next' = next + 1 /\ main' = main
                           ELSE next' = 1 /\ main' = "choose"
  /\ UNCHANGED <<poolVars, threads, dispatch, result, best, unwound, instVars>>

(* f.get(): blocks until the task is finished; then its result, or throw.  *)
GetResult ==
  /\ main = "collect"
  /\ result[next] # Pending
  /\ IF result[next] = Threw
     THEN Unwind
     ELSE /\ Add(result[next])
          /\ IF next < threads THEN next' = next + 1 /\ main' = main
                               ELSE next' = 1 /\ main' = "choose"
          /\ UNCHANGED unwound
  /\ UNCHANGED <<poolVars, threads, dispatch, result, best, instVars>>

(* sampleScenarios of RockSampleVecQMDP: generator s of an instance is     *)
(* seeded from s alone, so the n-th search of an instance draws the n-th   *)
(* set of one and the same stream.                                         *)
Seed(i) == 0

SampleScenarios(i) ==
  /\ draws' = [draws EXCEPT ![i] = @ + 1]
  /\ scenarios' = [scenarios EXCEPT ![i] = <<Seed(i), draws[i]>>]

RunInline ==
  /\ main = "inline"
  /\ SampleScenarios(1)
  /\ \E r \in Results \union {Threw} :
       IF r = Threw
       THEN Unwind /\ UNCHANGED <<result, tree>>
       ELSE /\ Add(r)
            /\ result' = [result EXCEPT ![1] = r]
            /\ tree' = [tree EXCEPT ![1] = dispatch]
            /\ main' = "choose" /\ UNCHANGED <<next, unwound>>
  /\ UNCHANGED <<poolVars, threads, dispatch, best>>

(* Averages, with the sentinel -1e7 for an action nobody visited; the      *)
(* entropy bonus, skipped for such an action; and the first maximum.       *)
(* Fault: no sentinel, an action nobody visited has the average 0.         *)
BetterThanZero(a, b, bonus) ==
  LET total(x) == sums[x] + (IF x = Sense THEN bonus * counts[x] ELSE 0)
      number(x) == IF counts[x] = 0 THEN 1 ELSE counts[x]
  IN total(a) * number(b) > total(b) * number(a)

Better(a, b, bonus) ==
  LET total(x) == sums[x] + (IF x = Sense THEN bonus * counts[x] ELSE 0) IN
  /\ counts[a] > 0
  /\ counts[b] > 0 => total(a) * counts[b] > total(b) * counts[a]

Choose ==
  /\ main = "choose"
  /\ \E bonus \in {0, 1} :
       best' = CHOOSE a \in Actions : \A b \in Actions :
                 /\ ~Better(b, a, bonus)
                 /\ b < a => Better(a, b, bonus)
  /\ main' = "read"
  /\ UNCHANGED <<poolVars, threads, next, dispatch, result, counts, sums, unwound,
                 instVars>>

(* The caller reads the workers' trees (getSecondBestAction) and returns.  *)
Return ==
  /\ main = "read"
  /\ main' = "idle"
  /\ UNCHANGED <<poolVars, threads, next, dispatch, result, counts, sums, best,
                 unwound, instVars>>

(* The destructor: the members go in reverse order of declaration, so the  *)
(* instances are freed before the pool stops and joins its threads.        *)
Destroy ==
  /\ main = "idle"
  /\ main' = "destroyed"
  /\ Pool!Close
  /\ UNCHANGED <<threads, next, dispatch, result, counts, sums, best, unwound,
                 instVars>>

JoinPool ==
  /\ main = "destroyed"
  /\ Pool!Join
  /\ UNCHANGED <<mainVars, instVars>>

-----------------------------------------------------------------------------
(* The pool's threads.                                                     *)

StartTask(w) ==
  /\ w <= threads
  /\ Pool!Start(w)
  /\ LET i == Head(queue)[2] IN
       /\ SampleScenarios(i)
       /\ tree' = [tree EXCEPT ![i] = 0]
  /\ UNCHANGED mainVars

(* The future of a dispatch that was left is gone; its outcome is dropped. *)
FinishTask(w) ==
  /\ Pool!Finish(w)
  /\ \E t \in running[w], r \in Results \union {Threw} :
       /\ result' = IF t[1] = dispatch /\ t[1] \notin unwound
                    THEN [result EXCEPT ![t[2]] = r] ELSE result
       /\ tree' = [tree EXCEPT ![t[2]] = IF r = Threw THEN 0 ELSE t[1]]
  /\ UNCHANGED <<threads, main, next, dispatch, counts, sums, best, unwound,
                 draws, scenarios>>

-----------------------------------------------------------------------------
InDispatch == Enqueue \/ GetResult \/ RunInline \/ Choose \/ Return

Next ==
  \/ Dispatch \/ InDispatch \/ Destroy \/ JoinPool
  \/ \E w \in Workers : StartTask(w) \/ FinishTask(w)

(* Nobody has to plan or to destroy the solver; threads inside do run, and *)
(* a task ends (SearchEnds of DynSearch).                                  *)
Spec ==
  /\ Init /\ [][Next]_vars
  /\ WF_vars(InDispatch)
  /\ \A w \in Workers : WF_vars(StartTask(w) \/ FinishTask(w))

-----------------------------------------------------------------------------
Unfinished == {queue[k] : k \in 1..Len(queue)} \union UNION {running[w] : w \in Workers}

(* The aggregate of a dispatch is the sum over its own workers, each once, *)
(* whatever the order in which they finish and whatever earlier dispatches *)
(* left in the buffers.                                                    *)
AggregateExact ==
  main \in {"choose", "read"} =>
    \A a \in Actions :
      LET visitors == {i \in 1..threads : result[i][a] # None} IN
      /\ counts[a] = Cardinality(visitors)
      /\ sums[a] = MapThenSumSet(LAMBDA i : result[i][a], visitors)

(* The best action was visited by some worker of this dispatch, unless no  *)
(* action was: neither the sentinel nor the bonus promotes another one.    *)
BestActionVisited ==
  main = "read" =>
    \/ \E i \in 1..threads : result[i][best] # None
    \/ \A i \in 1..threads, a \in Actions : result[i][a] = None

(* search_fn is captured by reference: no task outlives the frame that     *)
(* holds it, unless an exception has left that frame.                      *)
CaptureAlive ==
  \A t \in Unfinished :
    t[1] \in unwound \/ (t[1] = dispatch /\ main \in {"submit", "collect"})

(* A worker instance serves one task at a time, over all dispatches,       *)
(* unless the earlier task belongs to a dispatch left by an exception.     *)
OneTaskPerInstance ==
  \A w, v \in Workers :
    \A t \in running[w], u \in running[v] :
      (t # u /\ t[2] = u[2]) => {t[1], u[1]} \intersect unwound # {}

(* The trees the caller reads after the dispatch are finished trees of     *)
(* this very dispatch, and no thread is writing to one.                    *)
TreesQuiet ==
  (main \in {"choose", "read"} /\ unwound = {}) =>
    \A i \in 1..threads :
      tree[i] = dispatch /\ \A t \in Unfinished : t[2] # i

(* A dispatch returns, by a result or by an exception.                     *)
DispatchReturns == (main # "idle") ~> (main \in {"idle", "destroyed"})

(* The documentation gives each worker "its own scenario set".             *)
OwnScenarioSets ==
  main = "read" =>
    \A i, j \in 1..threads : scenarios[i] = scenarios[j] => i = j
=============================================================================
