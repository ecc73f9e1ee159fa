-------------------------- MODULE ForwardStepProofs --------------------------
(***************************************************************************)
(* What is proved of ForwardStep.  The loops of StepBatch and of the       *)
(* rollout phase are recursive functions: each is shown to exist by        *)
(* induction on the number of turns, and a turn is followed lane by lane.  *)
(***************************************************************************)
EXTENDS ForwardStep, DataLemmas

LEMMA Sizes ==
  /\ NumScenarios \in Nat \ {0} /\ StepTime \in Nat \ {0} /\ TreeHeight \in Nat
  /\ Pred \in Nat /\ LookTime \in Nat /\ LookSteps \in Nat /\ N \in Nat \ {0}
  /\ TreeHeight * StepTime < Pred
BY SizesAssumption DEF N

-----------------------------------------------------------------------------
(* The loops.                                                              *)
LEMMA EachIs ==
  ASSUME NEW f
  PROVE  Each(f) = [s \in Scenarios |-> f[s]]
<1> DEFINE e == CHOOSE g : g = [k \in 0..NumScenarios |-> IF k = 0 THEN <<>> ELSE Append(g[k - 1], f[k])]
<1>1. Each(f) = e[NumScenarios]
  BY DEF Each
<1>2. e[NumScenarios] = [k \in 1..NumScenarios |-> f[k]]
  BY Sizes, AppendLoop
<1> QED
  BY <1>1, <1>2 DEF Scenarios

(* StepBatch's turns over the time steps of one tree step.                 *)
Turns(lanes, g, n) ==
  g = [k \in 0..n |-> IF k = 0 THEN Each([s \in Scenarios |-> Begin(lanes[s])])
                                ELSE SubSteps(g[k - 1])]

LEMMA TurnsExist ==
  ASSUME NEW lanes
  PROVE  \A n \in Nat : \E g : Turns(lanes, g, n)
<1> DEFINE T == {n \in Nat : \E g : Turns(lanes, g, n)}
<1>1. 0 \in T
  <2> DEFINE g == [k \in 0..0 |-> Each([s \in Scenarios |-> Begin(lanes[s])])]
  <2>1. g = [k \in 0..0 |-> IF k = 0 THEN Each([s \in Scenarios |-> Begin(lanes[s])])
                                      ELSE SubSteps(g[k - 1])]
    OBVIOUS
  <2>2. Turns(lanes, g, 0)
    BY <2>1 DEF Turns
  <2> QED
    BY <2>2
<1>2. \A n \in Nat : n \in T => n + 1 \in T
  <2> SUFFICES ASSUME NEW n \in Nat, NEW g, Turns(lanes, g, n)
               PROVE  \E h : Turns(lanes, h, n + 1)
    OBVIOUS
  <2> DEFINE h == [k \in 0..(n + 1) |-> IF k <= n THEN g[k] ELSE SubSteps(g[n])]
  <2>1. \A k \in 0..(n + 1) :
           h[k] = IF k = 0 THEN Each([s \in Scenarios |-> Begin(lanes[s])])
                           ELSE SubSteps(h[k - 1])
    <3> TAKE k \in 0..(n + 1)
    <3>1. CASE k <= n
      <4>1. k \in 0..n /\ h[k] = g[k] /\ (k # 0 => h[k - 1] = g[k - 1])
        BY <3>1
      <4> HIDE DEF h
      <4> QED
        BY <4>1 DEF Turns
    <3>2. CASE k = n + 1
      <4>1. h[k] = SubSteps(g[n]) /\ h[k - 1] = g[n] /\ k # 0
        BY <3>2
      <4> QED
        BY <4>1
    <3> QED
      BY <3>1, <3>2
  <2>2. h = [k \in 0..(n + 1) |-> h[k]]
    OBVIOUS
  <2> HIDE DEF h
  <2>3. Turns(lanes, h, n + 1)
    BY <2>1, <2>2 DEF Turns
  <2> QED
    BY <2>3
<1> HIDE DEF T
<1>3. \A n \in Nat : n \in T
  BY <1>1, <1>2, SetInduction
<1> QED
  BY <1>3 DEF T

After(lanes) == CHOOSE g : Turns(lanes, g, StepTime)

LEMMA StepBatchDef ==
  ASSUME NEW lanes
  PROVE  /\ StepBatch(lanes) = IF ~AnyRunning(lanes) \/ \A s \in Scenarios : lanes[s].t + StepTime >= Pred
                               THEN lanes ELSE After(lanes)[StepTime]
         /\ After(lanes)[0] = [s \in Scenarios |-> Begin(lanes[s])]
         /\ \A k \in 1..StepTime : After(lanes)[k] = SubSteps(After(lanes)[k - 1])
<1>1. StepBatch(lanes) = IF ~AnyRunning(lanes) \/ \A s \in Scenarios : lanes[s].t + StepTime >= Pred
                         THEN lanes ELSE After(lanes)[StepTime]
  BY Zenon DEF StepBatch, After, Turns
<1>2. Turns(lanes, After(lanes), StepTime)
  BY TurnsExist, Sizes DEF After
<1>3. After(lanes)[0] = Each([s \in Scenarios |-> Begin(lanes[s])])
  BY <1>2, Sizes DEF Turns
<1>4. \A k \in 1..StepTime : After(lanes)[k] = SubSteps(After(lanes)[k - 1])
  BY <1>2, Sizes DEF Turns
<1>5. Each([s \in Scenarios |-> Begin(lanes[s])]) = [s \in Scenarios |-> Begin(lanes[s])]
  <2> DEFINE f == [s \in Scenarios |-> Begin(lanes[s])]
  <2>1. Each(f) = [s \in Scenarios |-> f[s]]
    BY EachIs
  <2> QED
    BY <2>1
<1> QED
  BY <1>1, <1>3, <1>4, <1>5

LEMMA SubStepsIs ==
  ASSUME NEW lanes
  PROVE  SubSteps(lanes) = IF AnyRunning(lanes) THEN [s \in Scenarios |-> SubStep(s, lanes[s])] ELSE lanes
<1> DEFINE f == [s \in Scenarios |-> SubStep(s, lanes[s])]
<1>1. Each(f) = [s \in Scenarios |-> f[s]]
  BY EachIs
<1> QED
  BY <1>1 DEF SubSteps, GoesOn

(* The rollout's turns over the layers.                                    *)
Layers(picks, stepped, g, n) ==
  g = [k \in 0..n |-> IF k = 0 THEN Begun(picks, stepped)
                               ELSE StepBatch(Layer(picks, g[k - 1], k))]

LEMMA LayersExist ==
  ASSUME NEW picks, NEW stepped
  PROVE  \A n \in Nat : \E g : Layers(picks, stepped, g, n)
<1> DEFINE T == {n \in Nat : \E g : Layers(picks, stepped, g, n)}
<1>1. 0 \in T
  <2> DEFINE g == [k \in 0..0 |-> Begun(picks, stepped)]
  <2>1. g = [k \in 0..0 |-> IF k = 0 THEN Begun(picks, stepped)
                                     ELSE StepBatch(Layer(picks, g[k - 1], k))]
    OBVIOUS
  <2>2. Layers(picks, stepped, g, 0)
    BY <2>1 DEF Layers
  <2> QED
    BY <2>2
<1>2. \A n \in Nat : n \in T => n + 1 \in T
  <2> SUFFICES ASSUME NEW n \in Nat, NEW g, Layers(picks, stepped, g, n)
               PROVE  \E h : Layers(picks, stepped, h, n + 1)
    OBVIOUS
  <2> DEFINE h == [k \in 0..(n + 1) |-> IF k <= n THEN g[k]
                                                  ELSE StepBatch(Layer(picks, g[n], n + 1))]
  <2>1. \A k \in 0..(n + 1) :
           h[k] = IF k = 0 THEN Begun(picks, stepped) ELSE StepBatch(Layer(picks, h[k - 1], k))
    <3> TAKE k \in 0..(n + 1)
    <3>1. CASE k <= n
      <4>1. k \in 0..n /\ h[k] = g[k] /\ (k # 0 => h[k - 1] = g[k - 1])
        BY <3>1
      <4> HIDE DEF h
      <4> QED
        BY <4>1 DEF Layers
    <3>2. CASE k = n + 1
      <4>1. h[k] = StepBatch(Layer(picks, g[n], k)) /\ h[k - 1] = g[n] /\ k # 0
        BY <3>2
      <4> QED
        BY <4>1
    <3> QED
      BY <3>1, <3>2
  <2>2. h = [k \in 0..(n + 1) |-> h[k]]
    OBVIOUS
  <2> HIDE DEF h
  <2>3. Layers(picks, stepped, h, n + 1)
    BY <2>1, <2>2 DEF Layers
  <2> QED
    BY <2>3
<1> HIDE DEF T
<1>3. \A n \in Nat : n \in T
  BY <1>1, <1>2, SetInduction
<1> QED
  BY <1>3 DEF T

Rolled(picks, stepped) == CHOOSE g : Layers(picks, stepped, g, TreeHeight)

LEMMA RolloutDef ==
  ASSUME NEW picks, NEW stepped
  PROVE  /\ Rollout(picks, stepped) = Rolled(picks, stepped)[TreeHeight]
         /\ Rolled(picks, stepped)[0] = Begun(picks, stepped)
         /\ \A k \in 1..TreeHeight :
              Rolled(picks, stepped)[k] = StepBatch(Layer(picks, Rolled(picks, stepped)[k - 1], k))
<1>1. Rollout(picks, stepped) = Rolled(picks, stepped)[TreeHeight]
  BY Zenon DEF Rollout, Rolled, Layers
<1>2. Layers(picks, stepped, Rolled(picks, stepped), TreeHeight)
  BY LayersExist, Sizes DEF Rolled
<1> QED
  BY <1>1, <1>2, Sizes DEF Layers

(* The actions on the way from the root.                                   *)
LEMMA ParentBelow ==
  ASSUME NEW n \in Nat \ {0}
  PROVE  ParentOf(n) \in 0..(n - 1) /\ ActionOf(n) \in 1..N
<1>1. N \in Nat \ {0}
  BY Sizes
<1> HIDE DEF N
<1> QED
  BY <1>1 DEF ParentOf, ActionOf

LEMMA ChildFact ==
  ASSUME NEW n \in Nat, NEW a \in 1..N
  PROVE  Child(n, a) \in Nat \ {0} /\ ParentOf(Child(n, a)) = n /\ ActionOf(Child(n, a)) = a
<1>1. N \in Nat \ {0}
  BY Sizes
<1> HIDE DEF N
<1>2. n * N \in Nat
  BY <1>1
<1>3. Child(n, a) \in Nat \ {0}
  BY <1>1, <1>2 DEF Child
<1>4. (Child(n, a) - 1) \div N = n /\ (Child(n, a) - 1) % N = a - 1
  BY <1>1 DEF Child
<1> QED
  BY <1>1, <1>3, <1>4 DEF ParentOf, ActionOf

Way(g, n) ==
  g = [m \in 0..n |-> IF m = 0 THEN <<>> ELSE Append(g[ParentOf(m)], ActionOf(m))]

LEMMA WayExists == \A n \in Nat : \E g : Way(g, n)
<1> DEFINE T == {n \in Nat : \E g : Way(g, n)}
<1>1. 0 \in T
  <2> DEFINE g == [m \in 0..0 |-> <<>>]
  <2>1. g = [m \in 0..0 |-> IF m = 0 THEN <<>> ELSE Append(g[ParentOf(m)], ActionOf(m))]
    OBVIOUS
  <2>2. Way(g, 0)
    BY <2>1 DEF Way
  <2> QED
    BY <2>2
<1>2. \A n \in Nat : n \in T => n + 1 \in T
  <2> SUFFICES ASSUME NEW n \in Nat, NEW g, Way(g, n)
               PROVE  \E h : Way(h, n + 1)
    OBVIOUS
  <2> DEFINE h == [m \in 0..(n + 1) |->
                     IF m <= n THEN g[m] ELSE Append(g[ParentOf(n + 1)], ActionOf(n + 1))]
  <2>1. \A m \in 0..(n + 1) :
           h[m] = IF m = 0 THEN <<>> ELSE Append(h[ParentOf(m)], ActionOf(m))
    <3> TAKE m \in 0..(n + 1)
    <3>1. m # 0 => ParentOf(m) \in 0..(m - 1)
      BY ParentBelow
    <3>2. m # 0 => h[ParentOf(m)] = g[ParentOf(m)]
      BY <3>1
    <3>3. CASE m <= n
      <4>1. m \in 0..n /\ h[m] = g[m]
        BY <3>3
      <4> HIDE DEF h
      <4> QED
        BY <3>2, <4>1 DEF Way
    <3>4. CASE m = n + 1
      <4>1. h[m] = Append(g[ParentOf(m)], ActionOf(m)) /\ m # 0
        BY <3>4
      <4> QED
        BY <3>2, <4>1
    <3> QED
      BY <3>3, <3>4
  <2>2. h = [m \in 0..(n + 1) |-> h[m]]
    OBVIOUS
  <2> HIDE DEF h
  <2>3. Way(h, n + 1)
    BY <2>1, <2>2 DEF Way
  <2> QED
    BY <2>3
<1> HIDE DEF T
<1>3. \A n \in Nat : n \in T
  BY <1>1, <1>2, SetInduction
<1> QED
  BY <1>3 DEF T

WayTo(n) == CHOOSE g : Way(g, n)

LEMMA WaysAgree ==
  ASSUME NEW n \in Nat, NEW m \in 0..n
  PROVE  \A i \in 0..m : WayTo(n)[i] = WayTo(m)[i]
<1>1. Way(WayTo(n), n) /\ Way(WayTo(m), m)
  BY WayExists DEF WayTo
<1> DEFINE T == {i \in Nat : i <= m => WayTo(n)[i] = WayTo(m)[i]}
<1>2. \A i \in Nat : (\A j \in 0..(i - 1) : j \in T) => i \in T
  <2> SUFFICES ASSUME NEW i \in Nat, i <= m, \A j \in 0..(i - 1) : j \in T
               PROVE  WayTo(n)[i] = WayTo(m)[i]
    OBVIOUS
  <2>1. i \in 0..n /\ i \in 0..m
    OBVIOUS
  <2>2. i # 0 => WayTo(n)[ParentOf(i)] = WayTo(m)[ParentOf(i)]
    BY ParentBelow
  <2> HIDE DEF T
  <2> QED
    BY <1>1, <2>1, <2>2 DEF Way
<1> HIDE DEF T
<1>3. \A i \in Nat : i \in T
  BY <1>2, StrongInduction
<1> QED
  BY <1>3 DEF T

LEMMA ActionsToDef ==
  /\ ActionsTo[0] = <<>>
  /\ \A n \in Nat \ {0} : ActionsTo[n] = Append(ActionsTo[ParentOf(n)], ActionOf(n))
<1> DEFINE Rec(f) == f = [n \in Nat |-> IF n = 0 THEN <<>> ELSE Append(f[ParentOf(n)], ActionOf(n))]
           w == [n \in Nat |-> WayTo(n)[n]]
<1>1. Rec(w)
  <2>1. \A n \in Nat : w[n] = IF n = 0 THEN <<>> ELSE Append(w[ParentOf(n)], ActionOf(n))
    <3> TAKE n \in Nat
    <3>1. Way(WayTo(n), n)
      BY WayExists DEF WayTo
    <3>2. n # 0 => /\ ParentOf(n) \in 0..n /\ ParentOf(n) \in Nat
                   /\ WayTo(n)[ParentOf(n)] = WayTo(ParentOf(n))[ParentOf(n)]
      BY ParentBelow, WaysAgree
    <3>3. n # 0 => w[ParentOf(n)] = WayTo(n)[ParentOf(n)]
      BY <3>2
    <3>4. n \in 0..n /\ w[n] = WayTo(n)[n]
      OBVIOUS
    <3> HIDE DEF w
    <3> QED
      BY <3>1, <3>3, <3>4 DEF Way
  <2>2. w = [n \in Nat |-> w[n]]
    OBVIOUS
  <2> HIDE DEF w
  <2> QED
    BY <2>1, <2>2
<1>2. ActionsTo = CHOOSE f : Rec(f)
  BY DEF ActionsTo
<1>3. Rec(ActionsTo)
  <2> HIDE DEF Rec
  <2> QED
    BY <1>1, <1>2
<1> QED
  BY <1>3

LEMMA ActionsToType == \A n \in Nat : ActionsTo[n] \in Seq(1..N)
<1> DEFINE T == {n \in Nat : ActionsTo[n] \in Seq(1..N)}
<1>1. \A n \in Nat : (\A m \in 0..(n - 1) : m \in T) => n \in T
  <2> SUFFICES ASSUME NEW n \in Nat, \A m \in 0..(n - 1) : m \in T
               PROVE  ActionsTo[n] \in Seq(1..N)
    OBVIOUS
  <2>1. CASE n = 0
    BY <2>1, ActionsToDef
  <2>2. CASE n # 0
    <3>1. ActionsTo[ParentOf(n)] \in Seq(1..N) /\ ActionOf(n) \in 1..N
      BY <2>2, ParentBelow
    <3>2. ActionsTo[n] = Append(ActionsTo[ParentOf(n)], ActionOf(n))
      BY <2>2, ActionsToDef
    <3> QED
      BY <3>1, <3>2, AppendFact
  <2> QED
    BY <2>1, <2>2
<1> HIDE DEF T
<1>2. \A n \in Nat : n \in T
  BY <1>1, StrongInduction
<1> QED
  BY <1>2 DEF T

LEMMA DepthFact ==
  /\ Depth(0) = 0
  /\ \A n \in Nat : Depth(n) \in Nat
  /\ \A n \in Nat, a \in 1..N : /\ Depth(Child(n, a)) = Depth(n) + 1
                                /\ ActionsTo[Child(n, a)] = Append(ActionsTo[n], a)
<1>1. \A n \in Nat : Depth(n) \in Nat
  BY ActionsToType DEF Depth
<1>2. \A n \in Nat, a \in 1..N : ActionsTo[Child(n, a)] = Append(ActionsTo[n], a)
  BY ChildFact, ActionsToDef
<1>3. \A n \in Nat, a \in 1..N : Depth(Child(n, a)) = Depth(n) + 1
  <2> TAKE n \in Nat, a \in 1..N
  <2>1. ActionsTo[n] \in Seq(1..N)
    BY ActionsToType
  <2> QED
    BY <1>2, <2>1, AppendFact DEF Depth
<1>4. Depth(0) = 0
  BY ActionsToDef DEF Depth
<1> QED
  BY <1>1, <1>2, <1>3, <1>4
-----------------------------------------------------------------------------
(* One lane.                                                               *)
LaneFields ==
  {"s", "y", "h", "v", "a", "path", "off", "out", "active", "t", "end", "l", "tgt", "toff",
   "steering", "cost", "later", "missed", "read"}

(* A lane that is active has not come further than b, and has read nothing *)
(* past the horizon.                                                       *)
Lane(c, b) ==
  /\ DOMAIN c = LaneFields /\ c.active \in BOOLEAN /\ c.t \in Nat
  /\ c.read \in Nat /\ c.read < Pred
  /\ c.active => c.t <= b

LEMMA MaxOfTwo ==
  ASSUME NEW a \in Nat, NEW b \in Nat
  PROVE  Max({a, b}) \in {a, b} /\ Max({a, b}) >= a /\ Max({a, b}) >= b
<1>1. {a, b} \in SUBSET Int /\ {a, b} # {} /\ a + b \in Int /\ \A x \in {a, b} : x <= a + b
  OBVIOUS
<1> QED
  BY <1>1, MaxFact

LEMMA SwitchIfKeeps ==
  ASSUME NEW c, DOMAIN c = LaneFields, NEW reached
  PROVE  LET d == SwitchIf(c, reached) IN
         DOMAIN d = LaneFields /\ d.t = c.t /\ d.active = c.active /\ d.read = c.read
BY DEF SwitchIf, LaneFields

LEMMA BeginLane ==
  ASSUME NEW c, NEW b \in Nat, Lane(c, b)
  PROVE  Lane(Begin(c), b) /\ (Begin(c).active <=> c.active) /\ Begin(c).t = c.t
<1> DEFINE d == IF c.active THEN SwitchIf(c, Reached(c, c.y)) ELSE c
<1>1. DOMAIN d = LaneFields /\ d.t = c.t /\ d.active = c.active /\ d.read = c.read
  BY SwitchIfKeeps DEF Lane
<1>2. Begin(c) = [d EXCEPT !.l = c.y - Base[d.path], !.end = c.t + StepTime]
  BY DEF Begin
<1> HIDE DEF d
<1>3. /\ DOMAIN Begin(c) = LaneFields /\ Begin(c).t = d.t
      /\ Begin(c).active = d.active /\ Begin(c).read = d.read
  BY <1>1, <1>2 DEF LaneFields
<1> QED
  BY <1>1, <1>3 DEF Lane

(* The look-ahead ends with the horizon.                                   *)
LEMMA ReadWithin ==
  ASSUME NEW fleet, NEW out, NEW p, NEW t \in Nat, t < Pred, NEW s, NEW v, NEW off
  PROVE  LET r == Intersected(fleet, indexed, out, p, t, s, v, off).read
         IN r \in Nat /\ r < Pred
<1> DEFINE at(k) == t + k * LookTime
           reach == Max({v, Slow}) * LookTime
           meets(i, k) ==
             /\ i \in indexed \ out
             /\ 2 * Abs(S(fleet[i], at(k)) - (s + k * reach)) <= reach + 2 * (EgoLong + fleet[i].long)
             /\ Abs(L(fleet[i], p, at(k)) - off) <= EgoWide + fleet[i].wide
             /\ Along(fleet[i]) <= MaxV
             /\ S(fleet[i], t) - (s - RearMargin) > -RearMargin
           looks  == {k \in 1..LookSteps : InHorizon(at(k))}
           finds  == {k \in looks : {i \in DOMAIN fleet : meets(i, k)} # {}}
           stop == IF finds = {} THEN looks ELSE {k \in looks : k <= Min(finds)}
           r == Intersected(fleet, indexed, out, p, t, s, v, off).read
<1>1. r = IF stop = {} THEN t ELSE at(Max(stop))
  BY DEF Intersected
<1>2. \A k \in looks : k \in Nat /\ k <= LookSteps /\ at(k) \in Nat /\ at(k) < Pred
  BY Sizes DEF InHorizon
<1>3. stop \subseteq looks
  OBVIOUS
<1> HIDE DEF looks, stop
<1>4. CASE stop = {}
  BY <1>1, <1>4
<1>5. CASE stop # {}
  <2>1. stop \in SUBSET Int /\ LookSteps \in Int /\ \A k \in stop : k <= LookSteps
    BY <1>2, <1>3, Sizes
  <2>2. Max(stop) \in stop
    BY <1>5, <2>1, MaxFact
  <2> QED
    BY <1>1, <1>2, <1>3, <1>5, <2>2
<1> QED
  BY <1>4, <1>5

LEMMA UpdateStateKeeps ==
  ASSUME NEW c, DOMAIN c = LaneFields, NEW acc, NEW steering
  PROVE  LET d == UpdateState(c, acc, steering) IN
         DOMAIN d = LaneFields /\ d.t = c.t /\ d.active = c.active /\ d.read = c.read
BY DEF UpdateState, LaneFields

LEMMA CommandFact ==
  ASSUME NEW c, DOMAIN c = LaneFields, NEW lc, NEW gap
  PROVE  LET d == Command(c, lc, gap) IN
         DOMAIN d = LaneFields /\ d.t = c.t + 1
<1> DEFINE to == IF lc.go THEN Base[c.tgt] + c.toff ELSE Base[c.path] + c.off
           steering == Stanley(to - c.y, c.h)
           u == UpdateState(c, IDM(gap.v, c.v, gap.dist - SafeDiff, Limit[c.path]), steering)
<1>1. DOMAIN u = LaneFields /\ u.t = c.t
  BY UpdateStateKeeps
<1>2. Command(c, lc, gap) = [u EXCEPT !.t = @ + 1, !.steering = steering]
  BY DEF Command
<1> HIDE DEF u
<1> QED
  BY <1>1, <1>2 DEF LaneFields

LEMMA SwitchKeeps ==
  ASSUME NEW was, NEW c, DOMAIN c = LaneFields
  PROVE  DOMAIN Switch(was, c) = LaneFields /\ Switch(was, c).t = c.t
<1> DEFINE nearer == c.path # c.tgt /\ Abs(c.y - Base[c.path]) - Abs(c.y - Base[c.tgt]) > 0
           b == SwitchIf(c, nearer \/ Reached(c, c.y))
           side == IF c.y >= Base[b.path] THEN 1 ELSE -1
<1>1. DOMAIN b = LaneFields /\ b.t = c.t
  BY SwitchIfKeeps
<1>2. Switch(was, c) = [b EXCEPT !.l = IF size > 0 THEN Abs(c.y - Base[was.path]) * side
                                       ELSE c.y - Base[b.path]]
  BY DEF Switch
<1> HIDE DEF b, side
<1> QED
  BY <1>1, <1>2 DEF LaneFields

LEMMA MovedFact ==
  ASSUME NEW c, DOMAIN c = LaneFields, NEW fleet, NEW read
  PROVE  LET m == Moved(c, fleet, read) IN
         /\ DOMAIN m.c = LaneFields /\ m.c.active \in BOOLEAN /\ m.c.t = c.t
         /\ m.read = Max({read, c.t})
<1> DEFINE hit == IF size > 0 THEN HasCollision(c, fleet)
                  ELSE [crash |-> FALSE, dismissed |-> {}, missed |-> FALSE]
<1>1. hit.crash \in BOOLEAN
  BY DEF HasCollision
<1>2. Moved(c, fleet, read) = Struck(c, read, hit)
  BY DEF Moved
<1> HIDE DEF hit
<1> DEFINE d == [c EXCEPT !.active = ~hit.crash, !.out = @ \union hit.dismissed]
           m == Struck(c, read, hit)
<1>3. DOMAIN d = LaneFields /\ d.active \in BOOLEAN /\ d.t = c.t
  BY <1>1 DEF LaneFields
<1>4. m.c = d /\ m.read = Max({read, c.t})
  BY DEF Struck
<1> HIDE DEF d, m
<1>5. Moved(c, fleet, read) = m
  BY <1>2 DEF m
<1> QED
  BY <1>3, <1>4, <1>5

LEMMA AdvanceFact ==
  ASSUME NEW c, DOMAIN c = LaneFields, c.t \in Nat, c.t + 1 < Pred, NEW fleet
  PROVE  LET m == Advance(c, fleet) IN
         /\ DOMAIN m.c = LaneFields /\ m.c.active \in BOOLEAN /\ m.c.t = c.t + 1
         /\ m.read \in Nat /\ m.read < Pred
<1> DEFINE e == [c EXCEPT !.off = EdgeOf(c)]
           lc == Allowance(e, fleet)
           cut == Cut(e, fleet, lc)
           d == Command(e, lc, Follow(e, lc, cut))
           m == Moved(Switch(e, d), fleet, cut.read)
<1>1. DOMAIN e = LaneFields /\ e.t = c.t
  BY DEF LaneFields
<1>2. Advance(c, fleet) = m
  BY DEF Advance, Edged, Allowed, Driven
<1> HIDE DEF e, lc
<1>3. cut.read \in Nat /\ cut.read < Pred
  <2>1. CASE lc.go
    BY <1>1, <2>1, Sizes DEF Cut
  <2>2. CASE ~lc.go
    <3>1. e.t \in Nat /\ e.t < Pred
      BY <1>1, Sizes
    <3>2. cut = Intersected(fleet, indexed, e.out, e.path, e.t, e.s, e.v, e.off)
      BY <2>2 DEF Cut
    <3> QED
      BY <3>1, <3>2, ReadWithin
  <2> QED
    BY <2>1, <2>2
<1> HIDE DEF cut
<1>4. DOMAIN d = LaneFields /\ d.t = c.t + 1
  BY <1>1, CommandFact
<1> HIDE DEF d
<1>5. DOMAIN Switch(e, d) = LaneFields /\ Switch(e, d).t = c.t + 1
  BY <1>4, SwitchKeeps
<1>6. /\ DOMAIN m.c = LaneFields /\ m.c.active \in BOOLEAN /\ m.c.t = c.t + 1
      /\ m.read = Max({cut.read, c.t + 1})
  BY <1>5, MovedFact
<1>7. m.read \in {cut.read, c.t + 1}
  BY <1>3, <1>6, MaxOfTwo
<1> QED
  BY <1>2, <1>3, <1>6, <1>7
LEMMA ChargeFact ==
  ASSUME NEW c, NEW b \in Nat, Lane(c, b), NEW m, NEW n \in Nat,
         DOMAIN m.c = LaneFields, m.c.active \in BOOLEAN, m.c.t \in Nat, m.c.t <= n,
         m.read \in Nat, m.read < Pred
  PROVE  Lane(Charge(c, m), n) /\ Charge(c, m).t = m.c.t /\ Charge(c, m).active = m.c.active
<1> DEFINE rest == IF m.crash = 0 THEN 0 ELSE Rest(m)
           cost == c.cost + m.crash + m.move + m.goal + m.steer + rest * (c.end - m.c.t)
           later == c.later + rest * (Pred - 1 - c.end)
           lost == c.missed \/ m.missed
           read == Max({c.read, m.read})
           d == [m.c EXCEPT !.cost = cost, !.later = later, !.missed = lost, !.read = read]
<1>1. Charge(c, m) = d
  BY DEF Charge
<1>2. read \in Nat /\ read < Pred
  <2>1. c.read \in Nat /\ c.read < Pred
    BY DEF Lane
  <2>2. read \in {c.read, m.read}
    BY <2>1, MaxOfTwo
  <2> QED
    BY <2>1, <2>2
<1> HIDE DEF cost, later, lost, read
<1>3. DOMAIN d = LaneFields /\ d.active = m.c.active /\ d.t = m.c.t /\ d.read = read
  BY DEF LaneFields
<1> HIDE DEF d
<1> QED
  BY <1>1, <1>2, <1>3 DEF Lane

LEMMA SubStepFact ==
  ASSUME NEW s \in Scenarios, NEW c, NEW b \in Nat, Lane(c, b), c.active => b + 1 < Pred
  PROVE  Lane(SubStep(s, c), b + 1) /\ (SubStep(s, c).active => c.active)
<1>1. CASE c.active
  <2> DEFINE m == Advance(c, exo[s])
  <2>1. DOMAIN c = LaneFields /\ c.t \in Nat /\ c.t <= b /\ c.t + 1 < Pred
    BY <1>1, Sizes DEF Lane
  <2>2. /\ DOMAIN m.c = LaneFields /\ m.c.active \in BOOLEAN /\ m.c.t = c.t + 1
        /\ m.read \in Nat /\ m.read < Pred
    BY <2>1, AdvanceFact
  <2>3. SubStep(s, c) = Charge(c, m)
    BY <1>1 DEF SubStep
  <2> HIDE DEF m
  <2>4. m.c.t \in Nat /\ m.c.t <= b + 1 /\ b + 1 \in Nat
    BY <2>1, <2>2
  <2>5. Lane(Charge(c, m), b + 1)
    BY <2>2, <2>4, ChargeFact
  <2> QED
    BY <1>1, <2>3, <2>5
<1>2. CASE ~c.active
  <2> DEFINE d == [c EXCEPT !.t = @ + 1]
  <2>1. SubStep(s, c) = d
    BY <1>2 DEF SubStep
  <2>2. DOMAIN d = LaneFields /\ d.active = c.active /\ d.t = c.t + 1 /\ d.read = c.read
    BY DEF Lane, LaneFields
  <2> HIDE DEF d
  <2> QED
    BY <1>2, <2>1, <2>2 DEF Lane
<1> QED
  BY <1>1, <1>2

LEMMA LaneWeaken ==
  ASSUME NEW c, NEW b \in Nat, Lane(c, b), NEW d \in Nat, c.active => b <= d
  PROVE  Lane(c, d)
BY DEF Lane

(* A tree step takes a lane no further than its time steps.                *)
LEMMA StepBatchFact ==
  ASSUME NEW lanes, NEW b, \A s \in Scenarios : b[s] \in Nat /\ Lane(lanes[s], b[s]),
         \A s \in Scenarios : lanes[s].active => b[s] + StepTime < Pred
  PROVE  \A s \in Scenarios : /\ Lane(StepBatch(lanes)[s], b[s] + StepTime)
                              /\ StepBatch(lanes)[s].active => lanes[s].active
<1> DEFINE g == After(lanes)
           Good(k) == \A s \in Scenarios : /\ Lane(g[k][s], b[s] + k)
                                           /\ g[k][s].active => lanes[s].active
           T == {k \in Nat : k <= StepTime => Good(k)}
<1>0. StepTime \in Nat /\ Pred \in Nat
  BY Sizes
<1>1. Good(0)
  <2> TAKE s \in Scenarios
  <2>1. g[0][s] = Begin(lanes[s])
    <3>1. g[0] = [r \in Scenarios |-> Begin(lanes[r])]
      BY StepBatchDef
    <3> HIDE DEF g
    <3> QED
      BY <3>1
  <2>2. b[s] \in Nat /\ b[s] + 0 = b[s] /\ Lane(lanes[s], b[s])
    OBVIOUS
  <2> QED
    BY <2>1, <2>2, BeginLane
<1>2. ASSUME NEW k \in Nat, k + 1 <= StepTime, Good(k)
      PROVE  Good(k + 1)
  <2>1. g[k + 1] = SubSteps(g[k])
    <3>1. k + 1 \in 1..StepTime /\ (k + 1) - 1 = k
      BY <1>0, <1>2
    <3> QED
      BY <3>1, StepBatchDef
  <2>2. CASE ~AnyRunning(g[k])
    <3> SUFFICES ASSUME NEW s \in Scenarios
                 PROVE  /\ Lane(g[k + 1][s], b[s] + (k + 1))
                        /\ g[k + 1][s].active => lanes[s].active
      OBVIOUS
    <3>1. g[k + 1][s] = g[k][s]
      BY <2>1, <2>2, SubStepsIs
    <3>2. Lane(g[k][s], b[s] + k) /\ b[s] + k \in Nat /\ b[s] + (k + 1) \in Nat
      BY <1>2
    <3>3. b[s] + k <= b[s] + (k + 1)
      OBVIOUS
    <3>4. Lane(g[k][s], b[s] + (k + 1))
      BY <3>2, <3>3, LaneWeaken
    <3> QED
      BY <1>2, <3>1, <3>4
  <2>3. CASE AnyRunning(g[k])
    <3> SUFFICES ASSUME NEW s \in Scenarios
                 PROVE  /\ Lane(g[k + 1][s], b[s] + (k + 1))
                        /\ g[k + 1][s].active => lanes[s].active
      OBVIOUS
    <3>1. g[k + 1][s] = SubStep(s, g[k][s])
      BY <2>1, <2>3, SubStepsIs
    <3>2. Lane(g[k][s], b[s] + k) /\ b[s] + k \in Nat /\ g[k][s].active => lanes[s].active
      BY <1>2
    <3>3. g[k][s].active => (b[s] + k) + 1 < Pred
      <4>1. b[s] \in Nat /\ (lanes[s].active => b[s] + StepTime < Pred)
        OBVIOUS
      <4> HIDE DEF g
      <4> QED
        BY <1>0, <1>2, <4>1
    <3>4. b[s] \in Nat /\ b[s] + k \in Nat /\ (b[s] + k) + 1 = b[s] + (k + 1)
      OBVIOUS
    <3> HIDE DEF g
    <3>5. /\ Lane(SubStep(s, g[k][s]), b[s] + (k + 1))
          /\ SubStep(s, g[k][s]).active => g[k][s].active
      BY <1>2, <3>3, <3>4, SubStepFact
    <3> QED
      BY <1>2, <3>1, <3>5
  <2> QED
    BY <2>2, <2>3
<1> HIDE DEF Good
<1>3. 0 \in T
  BY <1>1
<1>4. \A k \in Nat : k \in T => k + 1 \in T
  BY <1>0, <1>2
<1> HIDE DEF T
<1>5. \A k \in Nat : k \in T
  BY <1>3, <1>4, SetInduction
<1>6. Good(StepTime)
  BY <1>0, <1>5 DEF T
<1> SUFFICES ASSUME NEW s \in Scenarios
             PROVE  /\ Lane(StepBatch(lanes)[s], b[s] + StepTime)
                    /\ StepBatch(lanes)[s].active => lanes[s].active
  OBVIOUS
<1>7. CASE ~AnyRunning(lanes) \/ \A r \in Scenarios : lanes[r].t + StepTime >= Pred
  <2>1. StepBatch(lanes) = lanes
    BY <1>7, StepBatchDef
  <2>2. b[s] \in Nat /\ b[s] + StepTime \in Nat /\ b[s] <= b[s] + StepTime /\ Lane(lanes[s], b[s])
    BY <1>0
  <2> QED
    BY <2>1, <2>2, LaneWeaken
<1>8. CASE ~(~AnyRunning(lanes) \/ \A r \in Scenarios : lanes[r].t + StepTime >= Pred)
  <2>1. StepBatch(lanes) = g[StepTime]
    BY <1>8, StepBatchDef
  <2> QED
    BY <1>6, <2>1 DEF Good
<1> QED
  BY <1>7, <1>8
-----------------------------------------------------------------------------
(* The nodes that a call expands: their layers and what is gathered.       *)
NodesPicked(picks) ==
  \A s \in Scenarios : picks[s][1] \in Nat /\ picks[s][1] \in DOMAIN nodes[s] /\ picks[s][2] \in 1..N

TimeOf(d) == d * StepTime

LEMMA TimeFact ==
  /\ \A d \in Nat : TimeOf(d) \in Nat /\ TimeOf(d + 1) = TimeOf(d) + StepTime
  /\ \A d \in Nat : d <= TreeHeight => TimeOf(d) < Pred
<1>1. ASSUME NEW d \in Nat
      PROVE  TimeOf(d) \in Nat /\ TimeOf(d + 1) = TimeOf(d) + StepTime
  BY Sizes DEF TimeOf
<1>2. ASSUME NEW d \in Nat, d <= TreeHeight
      PROVE  TimeOf(d) < Pred
  <2>1. d * StepTime <= TreeHeight * StepTime /\ d * StepTime \in Nat /\ TreeHeight * StepTime \in Nat
    BY <1>2, Sizes
  <2> QED
    BY <2>1, Sizes DEF TimeOf
<1> QED
  BY <1>1, <1>2

LEMMA AimFact ==
  ASSUME NEW node, NEW t, NEW a, NEW active
  PROVE  /\ Aim(node, t, a, active).t = t /\ Aim(node, t, a, active).active = active
BY DEF Aim

LEMMA GatherIs ==
  ASSUME NEW picks, NEW s \in Scenarios
  PROVE  LET n == picks[s][1] IN
         Gather(picks)[s] = Aim(nodes[s][n], Depth(n) * StepTime, picks[s][2], MayStep(nodes[s][n], n))
<1> DEFINE f == [r \in Scenarios |->
                   Aim(nodes[r][picks[r][1]], Depth(picks[r][1]) * StepTime, picks[r][2],
                       MayStep(nodes[r][picks[r][1]], picks[r][1]))]
<1>1. Each(f) = [r \in Scenarios |-> f[r]]
  BY EachIs
<1>2. Gather(picks) = Each(f)
  BY DEF Gather
<1> QED
  BY <1>1, <1>2

LEMMA GatherLane ==
  ASSUME NEW picks, NodesPicked(picks), NEW s \in Scenarios
  PROVE  /\ Lane(Gather(picks)[s], TimeOf(Depth(picks[s][1])))
         /\ Gather(picks)[s].active => Depth(picks[s][1]) < TreeHeight
<1> DEFINE n == picks[s][1]
           node == nodes[s][n]
           may == MayStep(node, n)
           c == Aim(node, TimeOf(Depth(n)), picks[s][2], may)
<1>1. Gather(picks)[s] = c
  BY GatherIs DEF TimeOf
<1>2. Depth(n) \in Nat /\ TimeOf(Depth(n)) \in Nat
  BY DepthFact, TimeFact DEF NodesPicked
<1>3. may \in BOOLEAN /\ (may => Depth(n) < TreeHeight)
  BY DEF MayStep
<1> HIDE DEF n, may, node
<1>4. /\ DOMAIN c = LaneFields /\ c.t = TimeOf(Depth(n)) /\ c.active = may /\ c.read = 0
  BY DEF Aim, LaneFields
<1>5. 0 < Pred /\ 0 \in Nat
  <2>1. TreeHeight * StepTime \in Nat
    BY Sizes
  <2> QED
    BY <2>1, Sizes
<1> HIDE DEF c
<1>6. Lane(c, TimeOf(Depth(n)))
  BY <1>2, <1>3, <1>4, <1>5 DEF Lane
<1> QED
  BY <1>1, <1>3, <1>4, <1>6 DEF n

LEMMA SteppedLane ==
  ASSUME NEW picks, NodesPicked(picks), NEW s \in Scenarios
  PROVE  LET c == StepBatch(Gather(picks))[s]
             d == Depth(picks[s][1])
         IN Lane(c, TimeOf(d + 1)) /\ (c.active => d < TreeHeight /\ nodes[s][picks[s][1]].active)
<1> DEFINE lanes == Gather(picks)
           b == [r \in Scenarios |-> TimeOf(Depth(picks[r][1]))]
<1>1. \A r \in Scenarios : Depth(picks[r][1]) \in Nat
  BY DepthFact DEF NodesPicked
<1>2. \A r \in Scenarios : b[r] \in Nat /\ Lane(lanes[r], b[r])
  BY <1>1, TimeFact, GatherLane
<1>3. \A r \in Scenarios : lanes[r].active => b[r] + StepTime < Pred
  <2> TAKE r \in Scenarios
  <2> HAVE lanes[r].active
  <2>1. Depth(picks[r][1]) + 1 \in Nat /\ Depth(picks[r][1]) + 1 <= TreeHeight
    BY <1>1, GatherLane, Sizes
  <2>2. b[r] + StepTime = TimeOf(Depth(picks[r][1]) + 1)
    BY <1>1, TimeFact
  <2> QED
    BY <2>1, <2>2, TimeFact
<1>4. b[s] + StepTime = TimeOf(Depth(picks[s][1]) + 1)
  BY <1>1, TimeFact
<1>5. lanes[s].active => Depth(picks[s][1]) < TreeHeight /\ nodes[s][picks[s][1]].active
  <2> DEFINE n == picks[s][1]
             node == nodes[s][n]
             may == MayStep(node, n)
  <2>1. lanes[s] = Aim(node, TimeOf(Depth(n)), picks[s][2], may)
    BY GatherIs DEF TimeOf
  <2>2. may => node.active
    BY DEF MayStep
  <2> HIDE DEF may, node, lanes
  <2>3. lanes[s].active = may
    BY <2>1, AimFact
  <2> QED
    BY <2>2, <2>3, GatherLane DEF node, lanes
<1> HIDE DEF lanes, b
<1>6. Lane(StepBatch(lanes)[s], b[s] + StepTime) /\ (StepBatch(lanes)[s].active => lanes[s].active)
  BY <1>2, <1>3, StepBatchFact
<1> QED
  BY <1>4, <1>5, <1>6 DEF lanes

(* The two ways in which a lane is prepared for a turn of the rollout.     *)
Fresh(c, on) == [c EXCEPT !.cost = 0, !.later = 0, !.active = @ /\ on]
Kept(c, on) == [c EXCEPT !.active = @ /\ on]

Prepared(d, c, on) ==
  DOMAIN d = LaneFields /\ d.active = (c.active /\ on) /\ d.t = c.t /\ d.read = c.read

LEMMA FreshFact ==
  ASSUME NEW c, DOMAIN c = LaneFields, NEW on \in BOOLEAN
  PROVE  Prepared(Fresh(c, on), c, on) /\ Prepared(Kept(c, on), c, on)
BY DEF Fresh, Kept, LaneFields, Prepared

LEMMA BegunIs ==
  ASSUME NEW picks, NEW stepped, NEW s \in Scenarios
  PROVE  Begun(picks, stepped)[s] = Fresh(stepped[s], Depth(picks[s][1]) < TreeHeight)
<1> DEFINE f == [r \in Scenarios |-> Fresh(stepped[r], Depth(picks[r][1]) < TreeHeight)]
<1>1. Each(f) = [r \in Scenarios |-> f[r]]
  BY EachIs
<1>2. Begun(picks, stepped) = Each(f)
  BY DEF Begun, Fresh
<1> QED
  BY <1>1, <1>2

LEMMA LayerIs ==
  ASSUME NEW picks, NEW lanes, NEW k, NEW s \in Scenarios
  PROVE  Layer(picks, lanes, k)[s] = Kept(lanes[s], k <= RolloutLen(picks[s][1]))
<1> DEFINE f == [r \in Scenarios |-> Kept(lanes[r], k <= RolloutLen(picks[r][1]))]
<1>1. Each(f) = [r \in Scenarios |-> f[r]]
  BY EachIs
<1>2. Layer(picks, lanes, k) = Each(f)
  BY DEF Layer, Kept
<1> QED
  BY <1>1, <1>2

(* A rollout ends with the tree's last layer.                              *)
LEMMA RolledLane ==
  ASSUME NEW picks, NodesPicked(picks), NEW stepped,
         \A s \in Scenarios : Lane(stepped[s], TimeOf(Depth(picks[s][1]) + 1))
  PROVE  \A s \in Scenarios : \E b \in Nat : Lane(Rollout(picks, stepped)[s], b)
<1> DEFINE g == Rolled(picks, stepped)
           d(s) == Depth(picks[s][1])
           Good(k) == \A s \in Scenarios : Lane(g[k][s], TimeOf(d(s) + k + 1))
           T == {k \in Nat : k <= TreeHeight => Good(k)}
<1>0. \A s \in Scenarios : d(s) \in Nat
  BY DepthFact DEF NodesPicked
<1>1. Good(0)
  <2> TAKE s \in Scenarios
  <2>1. g[0] = Begun(picks, stepped)
    BY RolloutDef
  <2> HIDE DEF g
  <2>2. g[0][s] = Fresh(stepped[s], Depth(picks[s][1]) < TreeHeight)
    BY <2>1, BegunIs
  <2>3. Lane(stepped[s], TimeOf(d(s) + 1)) /\ d(s) + 0 + 1 = d(s) + 1
    BY <1>0
  <2>4. DOMAIN stepped[s] = LaneFields /\ stepped[s].active \in BOOLEAN
    BY <2>3 DEF Lane
  <2>5. Prepared(g[0][s], stepped[s], d(s) < TreeHeight)
    <3> DEFINE on == d(s) < TreeHeight
    <3>1. on \in BOOLEAN
      BY <1>0, Sizes
    <3>2. g[0][s] = Fresh(stepped[s], on)
      BY <2>2
    <3> HIDE DEF on
    <3> QED
      BY <2>4, <3>1, <3>2, FreshFact DEF on
  <2> HIDE DEF d
  <2> QED
    BY <2>3, <2>4, <2>5 DEF Lane, Prepared
<1>2. ASSUME NEW k \in Nat, k + 1 <= TreeHeight, Good(k)
      PROVE  Good(k + 1)
  <2> DEFINE lanes == Layer(picks, g[k], k + 1)
             b == [s \in Scenarios |-> TimeOf(d(s) + k + 1)]
  <2>1. g[k + 1] = StepBatch(lanes)
    <3>1. k + 1 \in 1..TreeHeight /\ (k + 1) - 1 = k
      BY <1>2, Sizes
    <3> QED
      BY <3>1, RolloutDef
  <2>2. \A s \in Scenarios : /\ b[s] \in Nat /\ Lane(lanes[s], b[s])
                             /\ lanes[s].active => b[s] + StepTime < Pred
    <3> TAKE s \in Scenarios
    <3>1. lanes[s] = Kept(g[k][s], k + 1 <= RolloutLen(picks[s][1]))
      BY LayerIs
    <3>2. Lane(g[k][s], b[s])
      BY <1>2
    <3>3. DOMAIN g[k][s] = LaneFields /\ g[k][s].active \in BOOLEAN
      BY <3>2 DEF Lane
    <3>4. b[s] \in Nat /\ b[s] + StepTime = TimeOf(d(s) + k + 2)
      <4>1. d(s) + k + 1 \in Nat /\ (d(s) + k + 1) + 1 = d(s) + k + 2
        BY <1>0
      <4>2. b[s] = TimeOf(d(s) + k + 1)
        OBVIOUS
      <4> HIDE DEF d, b
      <4> QED
        BY <4>1, <4>2, TimeFact
    <3> HIDE DEF lanes, g
    <3>5. Prepared(lanes[s], g[k][s], k + 1 <= RolloutLen(picks[s][1]))
      <4> DEFINE on == k + 1 <= RolloutLen(picks[s][1])
      <4>1. on \in BOOLEAN
        BY <1>0, Sizes DEF RolloutLen
      <4>2. lanes[s] = Kept(g[k][s], on)
        BY <3>1
      <4> HIDE DEF on
      <4> QED
        BY <3>3, <4>1, <4>2, FreshFact DEF on
    <3>6. Lane(lanes[s], b[s])
      <4> HIDE DEF b
      <4> QED
        BY <3>2, <3>3, <3>5 DEF Lane, Prepared
    <3>7. ASSUME lanes[s].active PROVE b[s] + StepTime < Pred
      <4>1. k + 1 <= TreeHeight - d(s) - 1
        BY <3>5, <3>7 DEF RolloutLen, Prepared
      <4>2. d(s) \in Nat
        BY <1>0
      <4> HIDE DEF d
      <4>3. d(s) + k + 2 \in Nat /\ d(s) + k + 2 <= TreeHeight
        BY <4>1, <4>2, Sizes
      <4> QED
        BY <3>4, <4>3, TimeFact
    <3> QED
      BY <3>4, <3>6, <3>7
  <2> HIDE DEF lanes
  <2>3. \A s \in Scenarios : Lane(StepBatch(lanes)[s], b[s] + StepTime)
    <3> HIDE DEF b
    <3> QED
      BY <2>2, StepBatchFact
  <2> SUFFICES ASSUME NEW s \in Scenarios
               PROVE  Lane(g[k + 1][s], TimeOf(d(s) + (k + 1) + 1))
    OBVIOUS
  <2>4. b[s] + StepTime = TimeOf(d(s) + (k + 1) + 1)
    <3>1. d(s) + k + 1 \in Nat /\ (d(s) + k + 1) + 1 = d(s) + (k + 1) + 1
      BY <1>0
    <3>2. b[s] = TimeOf(d(s) + k + 1)
      OBVIOUS
    <3> HIDE DEF d, b
    <3> QED
      BY <3>1, <3>2, TimeFact
  <2> QED
    BY <2>1, <2>3, <2>4
<1> HIDE DEF Good
<1>3. 0 \in T
  BY <1>1
<1>4. \A k \in Nat : k \in T => k + 1 \in T
  BY <1>2, Sizes
<1> HIDE DEF T
<1>5. \A k \in Nat : k \in T
  BY <1>3, <1>4, SetInduction
<1>6. Good(TreeHeight)
  BY <1>5, Sizes DEF T
<1>7. Rollout(picks, stepped) = g[TreeHeight]
  BY RolloutDef
<1> SUFFICES ASSUME NEW s \in Scenarios
             PROVE  \E b \in Nat : Lane(Rollout(picks, stepped)[s], b)
  OBVIOUS
<1>8. TimeOf(d(s) + TreeHeight + 1) \in Nat
  <2>1. d(s) + TreeHeight + 1 \in Nat
    BY <1>0, Sizes
  <2> QED
    BY <2>1, TimeFact
<1> QED
  BY <1>6, <1>7, <1>8 DEF Good
-----------------------------------------------------------------------------
(* The inductive invariant of the horizon: what was read lies within it,   *)
(* and nodes are numbers, so that they have a layer.                       *)
HorizonInv ==
  /\ furthest \in Nat /\ furthest < Pred
  /\ \A s \in Scenarios : DOMAIN nodes[s] \subseteq Nat

LEMMA HorizonInit ==
  ASSUME Init
  PROVE  HorizonInv
<1>1. 0 < Pred
  <2>1. TreeHeight * StepTime \in Nat
    BY Sizes
  <2> QED
    BY <2>1, Sizes
<1>2. \A s \in Scenarios : DOMAIN nodes[s] \subseteq Nat
  BY DEF Init, OnlyRoot
<1> QED
  BY <1>1, <1>2, Sizes DEF Init, HorizonInv

(* A call's picks, and what they are simulated to.                         *)
IsPick(picks) ==
  /\ picks \in [Scenarios -> UNION {Picks(s) : s \in Scenarios}]
  /\ \A s \in Scenarios : picks[s] \in Picks(s)

Written(picks, stepped, rolled, s) ==
  IF Depth(picks[s][1]) = TreeHeight THEN nodes[s]
  ELSE WithNode(nodes[s], Child(picks[s][1], picks[s][2]), WrittenChild(stepped[s], rolled[s]))

LEMMA ExpandDef ==
  ASSUME expandNodesBatch
  PROVE  \E picks : LET stepped == StepBatch(Gather(picks))
                        rolled == Rollout(picks, stepped)
                    IN /\ IsPick(picks)
                       /\ nodes' = [s \in Scenarios |-> Written(picks, stepped, rolled, s)]
                       /\ furthest' = Max({furthest} \union {rolled[s].read : s \in Scenarios})
<1>1. PICK picks \in {f \in [Scenarios -> UNION {Picks(s) : s \in Scenarios}] :
                        \A s \in Scenarios : f[s] \in Picks(s)} :
        \E stepped \in {StepBatch(Gather(picks))} :
        \E rolled \in {Rollout(picks, stepped)} :
          /\ nodes' = [s \in Scenarios |-> Written(picks, stepped, rolled, s)]
          /\ furthest' = Max({furthest} \union {rolled[s].read : s \in Scenarios})
  BY Zenon DEF expandNodesBatch, Written
<1>2. IsPick(picks)
  BY DEF IsPick
<1> DEFINE stepped == StepBatch(Gather(picks))
           rolled == Rollout(picks, stepped)
<1>3. /\ nodes' = [s \in Scenarios |-> Written(picks, stepped, rolled, s)]
      /\ furthest' = Max({furthest} \union {rolled[s].read : s \in Scenarios})
  BY <1>1
<1> WITNESS picks
<1> QED
  BY <1>2, <1>3

LEMMA PicksFact ==
  ASSUME NEW picks, IsPick(picks), NEW s \in Scenarios, DOMAIN nodes[s] \subseteq Nat
  PROVE  LET n == picks[s][1]
             a == picks[s][2]
         IN /\ n \in Nat /\ n \in DOMAIN nodes[s] /\ a \in 1..N
            /\ Depth(n) \in Nat /\ Depth(n) <= TreeHeight
            /\ Depth(n) # TreeHeight => Child(n, a) \notin DOMAIN nodes[s]
<1>1. picks[s] \in Picks(s)
  BY DEF IsPick
<1>2. PICK p \in (DOMAIN nodes[s]) \X (1..N) :
        /\ picks[s] = p
        /\ \/ Depth(p[1]) < TreeHeight /\ Child(p[1], p[2]) \notin DOMAIN nodes[s]
           \/ Depth(p[1]) = TreeHeight /\ p[2] = ActionOf(p[1])
  BY <1>1 DEF Picks
<1>3. p[1] \in DOMAIN nodes[s] /\ p[2] \in 1..N /\ p[1] \in Nat
  BY <1>2
<1>4. Depth(p[1]) \in Nat
  BY <1>3, DepthFact
<1> QED
  BY <1>2, <1>3, <1>4, Sizes

LEMMA HorizonStep ==
  ASSUME HorizonInv, [Next]_vars
  PROVE  HorizonInv'
<1>1. CASE sampleScenarios
  <2>1. furthest' = furthest
    BY <1>1 DEF sampleScenarios
  <2>2. \A s \in Scenarios : DOMAIN nodes'[s] = {0}
    BY <1>1 DEF sampleScenarios, OnlyRoot
  <2> QED
    BY <2>1, <2>2 DEF HorizonInv
<1>2. CASE expandNodesBatch
  <2>1. PICK picks : LET stepped == StepBatch(Gather(picks))
                         rolled == Rollout(picks, stepped)
                     IN /\ IsPick(picks)
                        /\ nodes' = [s \in Scenarios |-> Written(picks, stepped, rolled, s)]
                        /\ furthest' = Max({furthest} \union {rolled[s].read : s \in Scenarios})
    BY <1>2, ExpandDef
  <2> DEFINE stepped == StepBatch(Gather(picks))
             rolled == Rollout(picks, stepped)
             reads == {furthest} \union {rolled[s].read : s \in Scenarios}
  <2>2. NodesPicked(picks)
    BY <2>1, PicksFact DEF NodesPicked, HorizonInv
  <2>3. \A s \in Scenarios : Lane(stepped[s], TimeOf(Depth(picks[s][1]) + 1))
    BY <2>2, SteppedLane
  <2> HIDE DEF stepped
  <2>4. \A s \in Scenarios : \E b \in Nat : Lane(rolled[s], b)
    BY <2>2, <2>3, RolledLane
  <2> HIDE DEF rolled
  <2>5. \A s \in Scenarios : rolled[s].read \in Nat /\ rolled[s].read < Pred
    BY <2>4 DEF Lane
  <2>6. \A x \in reads : x \in Nat /\ x < Pred
    BY <2>5 DEF HorizonInv
  <2>7. furthest' \in Nat /\ furthest' < Pred
    <3>1. furthest' = Max(reads)
      BY <2>1 DEF rolled, stepped
    <3>2. reads # {}
      OBVIOUS
    <3> HIDE DEF reads
    <3>3. reads \in SUBSET Int /\ Pred \in Int /\ \A x \in reads : x <= Pred
      BY <2>6, Sizes
    <3>4. Max(reads) \in reads
      BY <3>2, <3>3, MaxFact
    <3> QED
      BY <2>6, <3>1, <3>4
  <2>8. \A s \in Scenarios : DOMAIN nodes'[s] \subseteq Nat
    <3> TAKE s \in Scenarios
    <3>1. nodes'[s] = Written(picks, stepped, rolled, s)
      BY <2>1 DEF rolled, stepped
    <3>2. Child(picks[s][1], picks[s][2]) \in Nat /\ DOMAIN nodes[s] \subseteq Nat
      BY <2>2, ChildFact DEF NodesPicked, HorizonInv
    <3> QED
      BY <3>1, <3>2 DEF Written, WithNode
  <2> QED
    BY <2>7, <2>8 DEF HorizonInv
<1>3. CASE UNCHANGED vars
  BY <1>3 DEF vars, HorizonInv
<1> QED
  BY <1>1, <1>2, <1>3 DEF Next

(* No lane and no look-ahead reads a future beyond its last sample, however *)
(* many scenarios are stepped together and whichever nodes the search       *)
(* picks: a lane only moves while it is active, and it is only active while *)
(* the layers it has left fit into the horizon (WithinHorizon).             *)
THEOREM WithinHorizonHolds == Spec => []WithinHorizon
<1>1. HorizonInv => WithinHorizon
  BY DEF HorizonInv, WithinHorizon
<1> QED
  BY <1>1, HorizonInit, HorizonStep, PTL DEF Spec

-----------------------------------------------------------------------------
(* Two lanes that time steps cannot tell apart: what a lane has been       *)
(* charged, what it has read and where its tree step ends do not matter.   *)
Near(c, d) ==
  /\ DOMAIN c = LaneFields /\ DOMAIN d = LaneFields
  /\ c.s = d.s /\ c.y = d.y /\ c.h = d.h /\ c.v = d.v /\ c.a = d.a
  /\ c.path = d.path /\ c.off = d.off /\ c.out = d.out /\ c.t = d.t
  /\ c.tgt = d.tgt /\ c.toff = d.toff

Alike(c, d) == Near(c, d) /\ c.l = d.l

LEMMA SwitchIfNear ==
  ASSUME NEW c, NEW d, Near(c, d), NEW reached
  PROVE  Near(SwitchIf(c, reached), SwitchIf(d, reached))
BY DEF SwitchIf, Near, LaneFields

LEMMA ReachedSame ==
  ASSUME NEW c, NEW d, Near(c, d)
  PROVE  \A y : Reached(c, y) = Reached(d, y)
BY DEF Reached, Near

LEMMA BeginAlike ==
  ASSUME NEW c, NEW d, Near(c, d), c.active, d.active
  PROVE  Alike(Begin(c), Begin(d)) /\ (Begin(c).active <=> c.active) /\ (Begin(d).active <=> d.active)
<1> DEFINE p == SwitchIf(c, Reached(c, c.y))
           q == SwitchIf(d, Reached(d, d.y))
<1>1. Reached(c, c.y) = Reached(d, d.y)
  BY ReachedSame DEF Near
<1>2. Near(p, q)
  BY <1>1, SwitchIfNear
<1>3. p.active = c.active /\ q.active = d.active
  BY SwitchIfKeeps DEF Near
<1>4. /\ Begin(c) = [p EXCEPT !.l = c.y - Base[p.path], !.end = c.t + StepTime]
      /\ Begin(d) = [q EXCEPT !.l = d.y - Base[q.path], !.end = d.t + StepTime]
  BY DEF Begin
<1>5. c.y = d.y /\ c.t = d.t
  BY DEF Near
<1> HIDE DEF p, q
<1>6. Near(Begin(c), p) /\ Begin(c).l = c.y - Base[p.path] /\ Begin(c).active = p.active
  BY <1>2, <1>4 DEF Near, LaneFields
<1>7. Near(Begin(d), q) /\ Begin(d).l = d.y - Base[q.path] /\ Begin(d).active = q.active
  BY <1>2, <1>4 DEF Near, LaneFields
<1> QED
  BY <1>2, <1>3, <1>5, <1>6, <1>7 DEF Near, Alike

LEMMA EdgeSame ==
  ASSUME NEW c, NEW d, Alike(c, d)
  PROVE  Turn(c) = Turn(d) /\ EdgeOf(c) = EdgeOf(d)
<1>1. Turn(c) = Turn(d)
  BY DEF Turn, Alike, Near
<1> QED
  BY <1>1, Zenon DEF EdgeOf, Alike, Near

LEMMA AllowanceSame ==
  ASSUME NEW c, NEW d, Alike(c, d), NEW fleet
  PROVE  Allowance(c, fleet) = Allowance(d, fleet)
BY EdgeSame, Zenon DEF Allowance, Alike, Near

LEMMA CutSame ==
  ASSUME NEW c, NEW d, Alike(c, d), NEW fleet, NEW lc
  PROVE  Cut(c, fleet, lc) = Cut(d, fleet, lc)
BY DEF Cut, Alike, Near

LEMMA FollowSame ==
  ASSUME NEW c, NEW d, Alike(c, d), NEW lc, NEW cut
  PROVE  Follow(c, lc, cut) = Follow(d, lc, cut)
BY DEF Follow, AtLight, Alike, Near

LEMMA UpdateStateNear ==
  ASSUME NEW c, NEW d, Near(c, d), NEW acc, NEW steering
  PROVE  Near(UpdateState(c, acc, steering), UpdateState(d, acc, steering))
BY DEF UpdateState, Near, LaneFields

LEMMA CommandNear ==
  ASSUME NEW c, NEW d, Near(c, d), NEW lc, NEW gap
  PROVE  Near(Command(c, lc, gap), Command(d, lc, gap))
<1> DEFINE steering(b) == Stanley((IF lc.go THEN Base[b.tgt] + b.toff ELSE Base[b.path] + b.off) - b.y, b.h)
           acc(b) == IDM(gap.v, b.v, gap.dist - SafeDiff, Limit[b.path])
           u(b) == UpdateState(b, acc(b), steering(b))
<1>1. steering(c) = steering(d) /\ acc(c) = acc(d)
  BY DEF Near
<1>2. \A b \in {c, d} : Command(b, lc, gap) = [u(b) EXCEPT !.t = @ + 1, !.steering = steering(b)]
  BY DEF Command
<1> HIDE DEF steering, acc
<1>3. Near(u(c), u(d))
  BY <1>1, UpdateStateNear
<1> HIDE DEF u
<1>4. Near([u(c) EXCEPT !.t = @ + 1, !.steering = steering(c)],
           [u(d) EXCEPT !.t = @ + 1, !.steering = steering(d)])
  BY <1>3 DEF Near, LaneFields
<1> QED
  BY <1>2, <1>4

LEMMA SwitchAlike ==
  ASSUME NEW was, NEW old, was.path = old.path, NEW c, NEW d, Near(c, d)
  PROVE  Alike(Switch(was, c), Switch(old, d))
<1> DEFINE closer(b) == b.path # b.tgt /\ Abs(b.y - Base[b.path]) - Abs(b.y - Base[b.tgt]) > 0
           n(b) == SwitchIf(b, closer(b) \/ Reached(b, b.y))
           side(b) == IF b.y >= Base[n(b).path] THEN 1 ELSE -1
           lat(w, b) == IF size > 0 THEN Abs(b.y - Base[w.path]) * side(b) ELSE b.y - Base[n(b).path]
<1>1. (closer(c) \/ Reached(c, c.y)) = (closer(d) \/ Reached(d, d.y))
  BY ReachedSame DEF Near
<1>2. Near(n(c), n(d))
  <2> HIDE DEF closer
  <2> QED
    BY <1>1, SwitchIfNear
<1>3. /\ Switch(was, c) = [n(c) EXCEPT !.l = lat(was, c)]
      /\ Switch(old, d) = [n(d) EXCEPT !.l = lat(old, d)]
  BY DEF Switch
<1> HIDE DEF n
<1>4. lat(was, c) = lat(old, d)
  BY <1>2 DEF Near
<1> HIDE DEF lat
<1> QED
  BY <1>2, <1>3, <1>4 DEF Near, Alike, LaneFields

LEMMA HasCollisionSame ==
  ASSUME NEW c, NEW d, Alike(c, d), NEW fleet
  PROVE  HasCollision(c, fleet) = HasCollision(d, fleet)
<1>1. Candidates(c, fleet) = Candidates(d, fleet)
  BY DEF Candidates, Found, Alike, Near
<1>2. Touching(c, fleet) = Touching(d, fleet)
  BY DEF Touching, Alike, Near
<1>3. \A i : Behind(c, fleet[i]) = Behind(d, fleet[i])
  BY DEF Behind, Alike, Near
<1> DEFINE hits(b) == Touching(b, fleet) \cap Candidates(b, fleet)
           fault(b) == {i \in hits(b) : ~Behind(b, fleet[i])}
<1>4. hits(c) = hits(d) /\ fault(c) = fault(d)
  BY <1>1, <1>2, <1>3
<1>5. \A b \in {c, d} : HasCollision(b, fleet) =
        [crash |-> fault(b) # {},
         dismissed |-> {i \in hits(b) \ fault(b) : \A j \in fault(b) : i < j},
         missed |-> ~(Touching(b, fleet) \subseteq Candidates(b, fleet))]
  BY DEF HasCollision
<1> HIDE DEF hits, fault
<1> QED
  BY <1>1, <1>2, <1>4, <1>5

LEMMA MovedAlike ==
  ASSUME NEW c, NEW d, Alike(c, d), NEW fleet, NEW read, NEW look
  PROVE  LET m == Moved(c, fleet, read)
             n == Moved(d, fleet, look)
         IN Alike(m.c, n.c) /\ m.c.active = n.c.active
<1> DEFINE hit(b) == IF size > 0 THEN HasCollision(b, fleet)
                     ELSE [crash |-> FALSE, dismissed |-> {}, missed |-> FALSE]
           after(b) == [b EXCEPT !.active = ~hit(b).crash, !.out = @ \union hit(b).dismissed]
<1>1. hit(c) = hit(d)
  BY HasCollisionSame
<1>2. /\ Moved(c, fleet, read).c = after(c)
      /\ Moved(d, fleet, look).c = after(d)
  BY DEF Moved, Struck
<1> HIDE DEF hit
<1>3. Alike(after(c), after(d)) /\ after(c).active = after(d).active
  BY <1>1 DEF Alike, Near, LaneFields
<1> HIDE DEF after
<1> QED
  BY <1>2, <1>3

LEMMA AdvanceAlike ==
  ASSUME NEW c, NEW d, Alike(c, d), NEW fleet
  PROVE  /\ Alike(Advance(c, fleet).c, Advance(d, fleet).c)
         /\ Advance(c, fleet).c.active = Advance(d, fleet).c.active
<1> DEFINE e(b) == [b EXCEPT !.off = EdgeOf(b)]
           lc(b) == Allowance(e(b), fleet)
           cut(b) == Cut(e(b), fleet, lc(b))
           gap(b) == Follow(e(b), lc(b), cut(b))
           moving(b) == Command(e(b), lc(b), gap(b))
<1>1. EdgeOf(c) = EdgeOf(d)
  BY EdgeSame
<1>2. Alike(e(c), e(d))
  BY <1>1 DEF Alike, Near, LaneFields
<1>3. \A b \in {c, d} : Advance(b, fleet) = Moved(Switch(e(b), moving(b)), fleet, cut(b).read)
  BY DEF Advance, Edged, Allowed, Driven
<1> HIDE DEF e
<1>4. lc(c) = lc(d)
  BY <1>2, AllowanceSame
<1> HIDE DEF lc
<1>5. cut(c) = cut(d)
  BY <1>2, <1>4, CutSame
<1> HIDE DEF cut
<1>6. gap(c) = gap(d)
  BY <1>2, <1>4, <1>5, FollowSame
<1> HIDE DEF gap
<1>7. Near(moving(c), moving(d))
  BY <1>2, <1>4, <1>6, CommandNear DEF Alike
<1> HIDE DEF moving
<1>8. Alike(Switch(e(c), moving(c)), Switch(e(d), moving(d)))
  <2>1. e(c).path = e(d).path
    BY <1>2 DEF Alike, Near
  <2> QED
    BY <1>7, <2>1, SwitchAlike
<1> QED
  BY <1>3, <1>8, MovedAlike

LEMMA SameEnvironment ==
  ASSUME UNCHANGED <<frame, indexed, size>>
  PROVE  \A c, fleet : Advance(c, fleet)' = Advance(c, fleet)
<1>1. \A c, fleet : Candidates(c, fleet)' = Candidates(c, fleet)
  BY DEF Candidates, Found
<1>2. \A c, fleet : Touching(c, fleet)' = Touching(c, fleet)
  BY DEF Touching
<1>3. \A c, fleet : HasCollision(c, fleet)' = HasCollision(c, fleet)
  BY <1>1, <1>2 DEF HasCollision
<1>4. \A c : Goal(c)' = Goal(c)
  BY DEF Goal
<1>5. \A c, read, hit : Struck(c, read, hit)' = Struck(c, read, hit)
  BY <1>4 DEF Struck
<1>6. \A c, fleet, read : Moved(c, fleet, read)' = Moved(c, fleet, read)
  BY <1>3, <1>5 DEF Moved
<1>7. \A was, c : Switch(was, c)' = Switch(was, c)
  BY DEF Switch
<1>8. \A c, fleet, lc, cut : Driven(c, fleet, lc, cut)' = Driven(c, fleet, lc, cut)
  BY <1>6, <1>7 DEF Driven
<1>9. \A c, fleet, lc : Cut(c, fleet, lc)' = Cut(c, fleet, lc)
  BY DEF Cut
<1>10. \A c, fleet, lc : Allowed(c, fleet, lc)' = Allowed(c, fleet, lc)
  BY <1>8, <1>9 DEF Allowed
<1> QED
  BY <1>10 DEF Advance, Edged

-----------------------------------------------------------------------------
(* The reference simulation.                                               *)
IsAlone(s, acts, g, n) ==
  g = [k \in 0..n |-> IF k = 0 THEN AloneStart(s, acts) ELSE AloneStep(s, acts, g[k - 1], k - 1)]

LEMMA AloneExists ==
  ASSUME NEW s, NEW acts
  PROVE  \A n \in Nat : \E g : IsAlone(s, acts, g, n)
<1> DEFINE T == {n \in Nat : \E g : IsAlone(s, acts, g, n)}
<1>1. 0 \in T
  <2> DEFINE g == [k \in 0..0 |-> AloneStart(s, acts)]
  <2>1. g = [k \in 0..0 |-> IF k = 0 THEN AloneStart(s, acts)
                                     ELSE AloneStep(s, acts, g[k - 1], k - 1)]
    OBVIOUS
  <2>2. IsAlone(s, acts, g, 0)
    BY <2>1 DEF IsAlone
  <2> QED
    BY <2>2
<1>2. \A n \in Nat : n \in T => n + 1 \in T
  <2> SUFFICES ASSUME NEW n \in Nat, NEW g, IsAlone(s, acts, g, n)
               PROVE  \E h : IsAlone(s, acts, h, n + 1)
    OBVIOUS
  <2> DEFINE h == [k \in 0..(n + 1) |-> IF k <= n THEN g[k] ELSE AloneStep(s, acts, g[n], n)]
  <2>1. \A k \in 0..(n + 1) :
           h[k] = IF k = 0 THEN AloneStart(s, acts) ELSE AloneStep(s, acts, h[k - 1], k - 1)
    <3> TAKE k \in 0..(n + 1)
    <3>1. CASE k <= n
      <4>1. k \in 0..n /\ h[k] = g[k] /\ (k # 0 => h[k - 1] = g[k - 1])
        BY <3>1
      <4> HIDE DEF h
      <4> QED
        BY <4>1 DEF IsAlone
    <3>2. CASE k = n + 1
      <4>1. h[k] = AloneStep(s, acts, g[n], n) /\ h[k - 1] = g[n] /\ k # 0 /\ k - 1 = n
        BY <3>2
      <4> QED
        BY <4>1
    <3> QED
      BY <3>1, <3>2
  <2>2. h = [k \in 0..(n + 1) |-> h[k]]
    OBVIOUS
  <2> HIDE DEF h
  <2>3. IsAlone(s, acts, h, n + 1)
    BY <2>1, <2>2 DEF IsAlone
  <2> QED
    BY <2>3
<1> HIDE DEF T
<1>3. \A n \in Nat : n \in T
  BY <1>1, <1>2, SetInduction
<1> QED
  BY <1>3 DEF T

LEMMA PredPositive == Pred - 1 \in Nat /\ \A d \in Nat : d <= TreeHeight => TimeOf(d) \in 0..(Pred - 1)
<1>1. \A d \in Nat : d <= TreeHeight => TimeOf(d) \in Nat /\ TimeOf(d) < Pred
  BY TimeFact
<1>2. 0 \in Nat /\ 0 <= TreeHeight
  BY Sizes
<1>3. Pred \in Nat /\ 0 < Pred
  <2>1. TimeOf(0) \in Nat /\ TimeOf(0) < Pred
    BY <1>1, <1>2
  <2> QED
    BY <2>1, Sizes
<1> QED
  BY <1>1, <1>3

LEMMA AloneIs ==
  ASSUME NEW s, NEW acts
  PROVE  IsAlone(s, acts, Alone(s, acts), Pred - 1)
<1>1. \E g : IsAlone(s, acts, g, Pred - 1)
  BY AloneExists, PredPositive
<1>2. Alone(s, acts) = CHOOSE g : IsAlone(s, acts, g, Pred - 1)
  BY Zenon DEF Alone, IsAlone
<1> QED
  BY <1>1, <1>2

LEMMA AloneTurn ==
  ASSUME NEW s, NEW acts
  PROVE  /\ Alone(s, acts)[0] = AloneStart(s, acts)
         /\ \A k \in Nat : k + 1 < Pred =>
              Alone(s, acts)[k + 1] = AloneStep(s, acts, Alone(s, acts)[k], k)
<1> DEFINE g == Alone(s, acts)
<1>0. IsAlone(s, acts, g, Pred - 1)
  BY AloneIs
<1> HIDE DEF g
<1>1. \A k \in 0..(Pred - 1) :
        g[k] = IF k = 0 THEN AloneStart(s, acts) ELSE AloneStep(s, acts, g[k - 1], k - 1)
  BY <1>0 DEF IsAlone
<1>2. g[0] = AloneStart(s, acts)
  BY <1>1, PredPositive
<1>3. ASSUME NEW k \in Nat, k + 1 < Pred
      PROVE  g[k + 1] = AloneStep(s, acts, g[k], k)
  <2>1. k + 1 \in 0..(Pred - 1) /\ k + 1 # 0 /\ (k + 1) - 1 = k
    BY <1>3, Sizes
  <2> QED
    BY <1>1, <2>1
<1> QED
  BY <1>2, <1>3 DEF g

(* What it starts from stays for as long as the frame is planned.          *)
LEMMA AloneSame ==
  ASSUME UNCHANGED <<frame, exo, indexed, size>>, NEW s, nodes'[s][0] = nodes[s][0]
  PROVE  \A acts : Alone(s, acts)' = Alone(s, acts)
<1> SUFFICES ASSUME NEW acts
             PROVE  Alone(s, acts)' = Alone(s, acts)
  OBVIOUS
<1>1. AloneStart(s, acts)' = AloneStart(s, acts)
  BY DEF AloneStart
<1>2. \A r, k : AloneStep(s, acts, r, k)' = AloneStep(s, acts, r, k)
  BY SameEnvironment DEF AloneStep, Charged, Rest
<1>3. \A g, n : IsAlone(s, acts, g, n)' <=> IsAlone(s, acts, g, n)
  BY <1>1, <1>2 DEF IsAlone
<1>4. Alone(s, acts) = CHOOSE g : IsAlone(s, acts, g, Pred - 1)
  BY Zenon DEF Alone, IsAlone
<1>5. Alone(s, acts)' = CHOOSE g : IsAlone(s, acts, g, Pred - 1)'
  BY Zenon DEF Alone, IsAlone
<1> QED
  BY <1>3, <1>4, <1>5

LEMMA TimeSlots ==
  ASSUME NEW d \in Nat, NEW k \in 0..(StepTime - 1)
  PROVE  /\ (TimeOf(d) + k) \div StepTime = d
         /\ (TimeOf(d) + k) % StepTime = k
<1>1. StepTime \in Nat \ {0}
  BY Sizes
<1> QED
  BY <1>1 DEF TimeOf

LEMMA SlotBelow ==
  ASSUME NEW d \in Nat, NEW k \in Nat, k < TimeOf(d)
  PROVE  k \div StepTime \in Nat /\ k \div StepTime < d
<1>1. StepTime \in Nat \ {0}
  BY Sizes
<1> QED
  BY <1>1 DEF TimeOf

LEMMA MinOfTwo ==
  ASSUME NEW a \in Nat, NEW b \in Nat, a <= b
  PROVE  Min({a, b}) = a
<1>1. {a, b} \in SUBSET Int /\ a \in {a, b} /\ \A x \in {a, b} : a <= x
  OBVIOUS
<1> QED
  BY <1>1, MinIs

(* What an action aims at.                                                 *)
AimedAt(c, act) == [c EXCEPT !.tgt = act.path, !.toff = act.off]

LEMMA AimedIs ==
  ASSUME NEW c, NEW acts \in Seq(1..N), NEW k \in Nat, k \div StepTime \in Nat,
         k \div StepTime < Len(acts)
  PROVE  Aimed(c, acts, k) = IF k % StepTime = 0
                             THEN Begin(AimedAt(c, Actions[acts[k \div StepTime + 1]])) ELSE c
<1>1. Len(acts) \in Nat /\ k \div StepTime + 1 \in Nat /\ k \div StepTime + 1 <= Len(acts)
  BY Sizes
<1>2. Min({k \div StepTime + 1, Len(acts)}) = k \div StepTime + 1
  BY <1>1, MinOfTwo
<1> QED
  BY <1>2 DEF Aimed, AimedAt

LEMMA AimedKeeps ==
  ASSUME NEW c, DOMAIN c = LaneFields, NEW acts, NEW k
  PROVE  LET d == Aimed(c, acts, k) IN
         DOMAIN d = LaneFields /\ d.t = c.t /\ d.active = c.active
<1> DEFINE act == Actions[acts[Min({k \div StepTime + 1, Len(acts)})]]
           d == AimedAt(c, act)
           e == IF d.active THEN SwitchIf(d, Reached(d, d.y)) ELSE d
<1>1. Aimed(c, acts, k) = IF k % StepTime = 0 THEN Begin(d) ELSE c
  BY DEF Aimed, AimedAt
<1>2. DOMAIN d = LaneFields /\ d.t = c.t /\ d.active = c.active
  BY DEF AimedAt, LaneFields
<1> HIDE DEF d
<1>3. DOMAIN e = LaneFields /\ e.t = c.t /\ e.active = c.active
  BY <1>2, SwitchIfKeeps
<1>4. Begin(d) = [e EXCEPT !.l = d.y - Base[e.path], !.end = d.t + StepTime]
  BY DEF Begin
<1> HIDE DEF e
<1>5. DOMAIN Begin(d) = LaneFields /\ Begin(d).t = c.t /\ Begin(d).active = c.active
  BY <1>3, <1>4 DEF LaneFields
<1> QED
  BY <1>1, <1>5

LEMMA StartFact ==
  ASSUME NEW s, NEW acts
  PROVE  LET c == AloneStart(s, acts).c IN
         /\ DOMAIN c = LaneFields /\ c.active = TRUE /\ c.t = 0
         /\ c = Aim(nodes[s][0], 0, acts[1], TRUE)
BY DEF AloneStart, Aim, LaneFields

(* Alone, a scenario that is still active has come as far as the turns     *)
(* say, and it was active all the way.                                     *)
LEMMA AloneLane ==
  ASSUME NEW s, NEW acts
  PROVE  \A k \in Nat : k < Pred =>
           LET c == Alone(s, acts)[k].c IN
           /\ DOMAIN c = LaneFields /\ c.active \in BOOLEAN
           /\ c.active => c.t = k
<1> DEFINE g == Alone(s, acts)
           Good(k) == /\ DOMAIN g[k].c = LaneFields /\ g[k].c.active \in BOOLEAN
                      /\ g[k].c.active => g[k].c.t = k
           T == {k \in Nat : k < Pred => Good(k)}
<1>1. g[0] = AloneStart(s, acts) /\ \A k \in Nat : k + 1 < Pred => g[k + 1] = AloneStep(s, acts, g[k], k)
  BY AloneTurn
<1> HIDE DEF g
<1>2. 0 \in T
  BY <1>1, StartFact
<1>3. ASSUME NEW k \in Nat, k + 1 < Pred, Good(k)
      PROVE  Good(k + 1)
  <2>1. g[k + 1] = AloneStep(s, acts, g[k], k)
    BY <1>1, <1>3
  <2>2. CASE g[k].c.active
    <3> DEFINE d == Aimed(g[k].c, acts, k)
               m == Advance(d, exo[s])
    <3>1. g[k + 1].c = m.c
      BY <2>1, <2>2 DEF AloneStep, Charged
    <3>2. DOMAIN d = LaneFields /\ d.t = k
      BY <1>3, <2>2, AimedKeeps
    <3> HIDE DEF d
    <3>3. DOMAIN m.c = LaneFields /\ m.c.active \in BOOLEAN /\ m.c.t = k + 1
      BY <1>3, <3>2, AdvanceFact
    <3> QED
      BY <3>1, <3>3
  <2>3. CASE ~g[k].c.active
    <3>1. g[k + 1] = [g[k] EXCEPT !.total = @ + g[k].rest]
      BY <2>1, <2>3 DEF AloneStep
    <3>2. g[k + 1].c = g[k].c
      BY <3>1
    <3> QED
      BY <1>3, <2>3, <3>2
  <2> QED
    BY <2>2, <2>3
<1> HIDE DEF Good
<1>4. \A k \in Nat : k \in T => k + 1 \in T
  BY <1>3, Sizes
<1> HIDE DEF T
<1>5. \A k \in Nat : k \in T
  BY <1>2, <1>4, SetInduction
<1> QED
  BY <1>5 DEF T, Good, g

(* A further action changes nothing before its turn.                       *)
LEMMA AlonePrefix ==
  ASSUME NEW s, NEW acts \in Seq(1..N), acts # <<>>, NEW a \in 1..N
  PROVE  \A k \in Nat : (k < Pred /\ k <= TimeOf(Len(acts))) =>
           Alone(s, Append(acts, a))[k] = Alone(s, acts)[k]
<1> DEFINE more == Append(acts, a)
           g == Alone(s, acts)
           h == Alone(s, more)
           T == {k \in Nat : (k < Pred /\ k <= TimeOf(Len(acts))) => h[k] = g[k]}
<1>1. more \in Seq(1..N) /\ Len(more) = Len(acts) + 1 /\ Len(acts) \in Nat \ {0}
  BY AppendFact
<1>2. \A i \in 1..Len(acts) : more[i] = acts[i]
  OBVIOUS
<1>3. g[0] = AloneStart(s, acts) /\ \A k \in Nat : k + 1 < Pred => g[k + 1] = AloneStep(s, acts, g[k], k)
  BY AloneTurn
<1>4. h[0] = AloneStart(s, more) /\ \A k \in Nat : k + 1 < Pred => h[k + 1] = AloneStep(s, more, h[k], k)
  BY AloneTurn
<1> HIDE DEF more, g, h
<1>5. 0 \in T
  <2>1. more[1] = acts[1]
    BY <1>1, <1>2
  <2> QED
    BY <1>3, <1>4, <2>1 DEF AloneStart
<1>6. ASSUME NEW k \in Nat, k + 1 < Pred, k + 1 <= TimeOf(Len(acts)), h[k] = g[k]
      PROVE  h[k + 1] = g[k + 1]
  <2>1. k < TimeOf(Len(acts))
    BY <1>1, <1>6, TimeFact
  <2>2. k \div StepTime \in Nat /\ k \div StepTime < Len(acts) /\ k \div StepTime < Len(more)
    BY <1>1, <2>1, SlotBelow
  <2>3. more[k \div StepTime + 1] = acts[k \div StepTime + 1]
    BY <1>1, <1>2, <2>2
  <2>4. \A c : Aimed(c, more, k) = Aimed(c, acts, k)
    BY <1>1, <2>2, <2>3, AimedIs
  <2>5. \A r : AloneStep(s, more, r, k) = AloneStep(s, acts, r, k)
    BY <2>4 DEF AloneStep
  <2> QED
    BY <1>3, <1>4, <1>6, <2>5
<1>7. \A k \in Nat : k \in T => k + 1 \in T
  <2>1. TimeOf(Len(acts)) \in Nat /\ Pred \in Nat
    BY <1>1, TimeFact, Sizes
  <2> QED
    BY <1>6, <2>1
<1> HIDE DEF T
<1>8. \A k \in Nat : k \in T
  BY <1>5, <1>7, SetInduction
<1> QED
  BY <1>8 DEF T, g, h, more

(* A node that holds what a lane has come to.                              *)
Holds(node, c) ==
  /\ c.active /\ node.s = c.s /\ node.y = c.y /\ node.h = c.h /\ node.v = c.v /\ node.a = c.a
  /\ node.path = c.path /\ node.off = c.off /\ node.out = c.out

LEMMA AimedIn ==
  ASSUME NEW c, NEW acts \in Seq(1..N), NEW d \in Nat, d < Len(acts), NEW j \in 0..(StepTime - 1)
  PROVE  Aimed(c, acts, TimeOf(d) + j) =
           IF j = 0 THEN Begin(AimedAt(c, Actions[acts[d + 1]])) ELSE c
<1> DEFINE k == TimeOf(d) + j
<1>1. k \div StepTime = d /\ k % StepTime = j
  BY TimeSlots
<1>2. k \in Nat
  <2>1. TimeOf(d) \in Nat /\ j \in Nat
    BY TimeFact, Sizes
  <2> QED
    BY <2>1
<1> HIDE DEF k
<1>3. Aimed(c, acts, k) = IF k % StepTime = 0
                          THEN Begin(AimedAt(c, Actions[acts[k \div StepTime + 1]])) ELSE c
  BY <1>1, <1>2, AimedIs
<1> QED
  BY <1>1, <1>3 DEF k

LEMMA AimedInLast ==
  ASSUME NEW acts \in Seq(1..N), NEW d \in Nat, Len(acts) = d + 1
  PROVE  /\ \A b : Aimed(b, acts, TimeOf(d)) = Begin(AimedAt(b, Actions[acts[d + 1]]))
         /\ \A b : \A j \in 1..(StepTime - 1) : Aimed(b, acts, TimeOf(d) + j) = b
<1>1. d < Len(acts) /\ 0 \in 0..(StepTime - 1) /\ TimeOf(d) + 0 = TimeOf(d)
  BY TimeFact, Sizes
<1>2. \A b : \A j \in 0..(StepTime - 1) :
        Aimed(b, acts, TimeOf(d) + j) = IF j = 0 THEN Begin(AimedAt(b, Actions[acts[d + 1]])) ELSE b
  BY <1>1, AimedIn
<1>3. \A b : Aimed(b, acts, TimeOf(d) + 0) = Begin(AimedAt(b, Actions[acts[d + 1]]))
  BY <1>1, <1>2
<1>4. \A j \in 1..(StepTime - 1) : j \in 0..(StepTime - 1) /\ j # 0
  BY Sizes
<1> QED
  BY <1>1, <1>2, <1>3, <1>4

LEMMA ChargeAlike ==
  ASSUME NEW c, NEW m, NEW d, Alike(m.c, d)
  PROVE  Alike(Charge(c, m), d) /\ Charge(c, m).active = m.c.active
<1> DEFINE rest == IF m.crash = 0 THEN 0 ELSE Rest(m)
           cost == c.cost + m.crash + m.move + m.goal + m.steer + rest * (c.end - m.c.t)
           later == c.later + rest * (Pred - 1 - c.end)
           lost == c.missed \/ m.missed
           read == Max({c.read, m.read})
           e == [m.c EXCEPT !.cost = cost, !.later = later, !.missed = lost, !.read = read]
<1>1. Charge(c, m) = e
  BY DEF Charge
<1> HIDE DEF cost, later, lost, read
<1>2. Alike(e, d) /\ e.active = m.c.active
  BY DEF Alike, Near, LaneFields
<1> HIDE DEF e
<1> QED
  BY <1>1, <1>2

(* The step that a lane takes among the others is the one that its         *)
(* scenario takes alone, from where the node is to where its child is.     *)
LEMMA SteppedAlone ==
  ASSUME NEW picks, NodesPicked(picks), NEW s \in Scenarios,
         NEW acts, acts = Append(ActionsTo[picks[s][1]], picks[s][2]),
         nodes[s][picks[s][1]].active =>
           Holds(nodes[s][picks[s][1]], Alone(s, acts)[TimeOf(Depth(picks[s][1]))].c)
  PROVE  LET c == StepBatch(Gather(picks))[s]
             d == Alone(s, acts)[TimeOf(Depth(picks[s][1]) + 1)].c
         IN c.active => Alike(c, d) /\ d.active
<1> DEFINE n == picks[s][1]
           a == picks[s][2]
           D == Depth(n)
           lanes == Gather(picks)
           g == After(lanes)
           A == Alone(s, acts)
           at(k) == TimeOf(D) + k
           Good(k) == g[k][s].active =>
                        /\ A[at(k)].c.active
                        /\ k = 0 => Alike(g[k][s], Aimed(A[at(k)].c, acts, at(k)))
                        /\ k > 0 => Alike(g[k][s], A[at(k)].c)
           T == {k \in Nat : k <= StepTime => Good(k)}
<1>1. n \in Nat /\ n \in DOMAIN nodes[s] /\ a \in 1..N /\ D \in Nat
  BY DepthFact DEF NodesPicked
<1>2. acts \in Seq(1..N) /\ Len(acts) = D + 1 /\ acts[D + 1] = a
  <2>1. ActionsTo[n] \in Seq(1..N) /\ D = Len(ActionsTo[n])
    BY <1>1, ActionsToType DEF Depth
  <2> QED
    BY <1>1, <2>1, AppendFact
<1>3. TimeOf(D) \in Nat /\ TimeOf(D + 1) = TimeOf(D) + StepTime
  BY <1>1, TimeFact
<1>4. StepTime \in Nat \ {0}
  BY Sizes
<1>5. SUFFICES ASSUME StepBatch(lanes)[s].active
               PROVE  /\ Alike(StepBatch(lanes)[s], A[TimeOf(D + 1)].c)
                      /\ A[TimeOf(D + 1)].c.active
  OBVIOUS
<1>6. D < TreeHeight /\ lanes[s].active /\ \A k \in 0..StepTime : at(k) \in Nat /\ at(k) < Pred
  <2>1. D < TreeHeight
    BY <1>5, SteppedLane
  <2>2. TimeOf(D + 1) < Pred
    <3>1. D + 1 \in Nat /\ D + 1 <= TreeHeight
      BY <1>1, <2>1, Sizes
    <3> QED
      BY <3>1, TimeFact
  <2>3. \A k \in 0..StepTime : at(k) \in Nat /\ at(k) < Pred
    <3> HIDE DEF D
    <3> QED
      BY <1>3, <1>4, <2>2, Sizes
  <2>4. lanes[s].active
    <3> DEFINE b == [r \in Scenarios |-> TimeOf(Depth(picks[r][1]))]
    <3>1. \A r \in Scenarios : b[r] \in Nat /\ Lane(lanes[r], b[r])
      BY TimeFact, DepthFact, GatherLane DEF NodesPicked
    <3>2. \A r \in Scenarios : lanes[r].active => b[r] + StepTime < Pred
      <4> TAKE r \in Scenarios
      <4> HAVE lanes[r].active
      <4>1. Depth(picks[r][1]) \in Nat
        BY DepthFact DEF NodesPicked
      <4>2. Depth(picks[r][1]) + 1 \in Nat /\ Depth(picks[r][1]) + 1 <= TreeHeight
        BY <4>1, GatherLane, Sizes
      <4>3. b[r] + StepTime = TimeOf(Depth(picks[r][1]) + 1)
        BY <4>1, TimeFact
      <4> QED
        BY <4>2, <4>3, TimeFact
    <3> HIDE DEF b, lanes
    <3> QED
      BY <1>5, <3>1, <3>2, StepBatchFact
  <2> QED
    BY <2>1, <2>3, <2>4
<1>7. /\ StepBatch(lanes) = g[StepTime]
      /\ g[0] = [r \in Scenarios |-> Begin(lanes[r])]
      /\ \A k \in 1..StepTime : g[k] = SubSteps(g[k - 1])
  <2>1. AnyRunning(lanes)
    BY <1>6 DEF AnyRunning
  <2>2. lanes[s].t = TimeOf(D)
    BY GatherIs, AimFact DEF TimeOf
  <2>3. ~(lanes[s].t + StepTime >= Pred)
    <3>1. at(StepTime) < Pred /\ at(StepTime) = TimeOf(D) + StepTime
      BY <1>4, <1>6
    <3> HIDE DEF D, lanes
    <3> QED
      BY <1>3, <1>4, <2>2, <3>1, Sizes
  <2> HIDE DEF lanes
  <2>4. StepBatch(lanes) = g[StepTime]
    BY <2>1, <2>3, StepBatchDef
  <2> QED
    BY <2>4, StepBatchDef
<1>8. A[0] = AloneStart(s, acts) /\ \A k \in Nat : k + 1 < Pred => A[k + 1] = AloneStep(s, acts, A[k], k)
  BY AloneTurn
<1>9. \A k \in Nat : k < Pred => /\ DOMAIN A[k].c = LaneFields /\ A[k].c.active \in BOOLEAN
                                 /\ A[k].c.active => A[k].c.t = k
  BY AloneLane
<1>10. Good(0)
  <2> SUFFICES Alike(g[0][s], Aimed(A[TimeOf(D)].c, acts, TimeOf(D))) /\ A[TimeOf(D)].c.active
    BY <1>3
  <2> DEFINE c == A[TimeOf(D)].c
             e == AimedAt(c, Actions[a])
             node == nodes[s][n]
  <2>1. lanes[s] = Aim(node, TimeOf(D), a, MayStep(node, n))
    BY GatherIs DEF TimeOf
  <2>2. node.active
    <3>1. lanes[s].active = MayStep(node, n)
      <4> HIDE DEF node, lanes
      <4> QED
        BY <2>1, AimFact
    <3> QED
      BY <1>6, <3>1 DEF MayStep
  <2>3. Holds(node, c)
    BY <2>2
  <2>4. TimeOf(D) < Pred
    BY <1>3, <1>4, <1>6
  <2>5. DOMAIN c = LaneFields /\ c.t = TimeOf(D) /\ c.active
    <3>1. DOMAIN c = LaneFields /\ (c.active => c.t = TimeOf(D))
      BY <1>3, <1>9, <2>4
    <3> QED
      BY <2>3, <3>1 DEF Holds
  <2>6. Aimed(c, acts, TimeOf(D)) = Begin(e)
    <3>1. \A b : Aimed(b, acts, TimeOf(D)) = Begin(AimedAt(b, Actions[acts[D + 1]]))
      BY <1>1, <1>2, AimedInLast
    <3> HIDE DEF D, c, a
    <3> QED
      BY <1>2, <3>1 DEF e
  <2> HIDE DEF c, node, D, a, n, A, Good, T, at, g
  <2>7. Near(lanes[s], e) /\ e.active
    BY <2>1, <2>3, <2>5 DEF Near, Holds, Aim, AimedAt, LaneFields
  <2> HIDE DEF e, lanes
  <2>8. Alike(Begin(lanes[s]), Begin(e))
    BY <1>6, <2>7, BeginAlike
  <2>9. g[0][s] = Begin(lanes[s])
    BY <1>7
  <2> QED
    BY <2>5, <2>6, <2>8, <2>9 DEF c
<1> HIDE DEF g, A, D, lanes
<1>11. ASSUME NEW k \in Nat, k + 1 <= StepTime, Good(k)
       PROVE  Good(k + 1)
  <2> SUFFICES ASSUME g[k + 1][s].active
               PROVE  A[at(k + 1)].c.active /\ Alike(g[k + 1][s], A[at(k + 1)].c)
    BY <1>11
  <2>1. g[k + 1] = SubSteps(g[k])
    <3>1. k + 1 \in 1..StepTime /\ (k + 1) - 1 = k
      BY <1>4, <1>11
    <3> QED
      BY <1>7, <3>1
  <2>2. AnyRunning(g[k])
    BY <2>1, SubStepsIs DEF AnyRunning
  <2>3. g[k + 1][s] = SubStep(s, g[k][s])
    BY <2>1, <2>2, SubStepsIs
  <2>4. g[k][s].active
    <3> SUFFICES ASSUME ~g[k][s].active PROVE FALSE
      OBVIOUS
    <3>1. g[k + 1][s] = [g[k][s] EXCEPT !.t = @ + 1]
      BY <2>3 DEF SubStep
    <3>2. g[k + 1][s].active = g[k][s].active
      BY <3>1
    <3> QED
      BY <3>2
  <2> DEFINE c == g[k][s]
             e == Aimed(A[at(k)].c, acts, at(k))
  <2>5. at(k) \in Nat /\ at(k) < Pred /\ at(k + 1) = at(k) + 1 /\ at(k) + 1 < Pred
    BY <1>3, <1>4, <1>6, <1>11
  <2>6. A[at(k)].c.active /\ Alike(c, e)
    <3>1. CASE k = 0
      BY <1>11, <2>4, <3>1
    <3>2. CASE k # 0
      <4>1. \A b : \A j \in 1..(StepTime - 1) : Aimed(b, acts, TimeOf(D) + j) = b
        BY <1>1, <1>2, AimedInLast
      <4>2. k \in 1..(StepTime - 1)
        BY <1>4, <1>11, <3>2
      <4>4. e = A[at(k)].c
        BY <4>1, <4>2
      <4>3. k > 0
        BY <3>2
      <4> QED
        BY <1>11, <2>4, <4>3, <4>4
    <3> QED
      BY <3>1, <3>2
  <2> DEFINE m == Advance(c, exo[s])
             w == Advance(e, exo[s])
  <2>7. g[k + 1][s] = Charge(c, m)
    BY <2>3, <2>4 DEF SubStep
  <2>8. A[at(k + 1)].c = w.c
    <3>1. A[at(k) + 1] = AloneStep(s, acts, A[at(k)], at(k))
      <4> HIDE DEF at
      <4> QED
        BY <1>8, <2>5
    <3> QED
      BY <2>5, <2>6, <3>1 DEF AloneStep, Charged
  <2> HIDE DEF c, e
  <2>9. Alike(m.c, w.c) /\ m.c.active = w.c.active
    BY <2>6, AdvanceAlike
  <2> HIDE DEF m, w
  <2>10. Alike(Charge(c, m), w.c) /\ Charge(c, m).active = m.c.active
    BY <2>9, ChargeAlike
  <2> QED
    BY <2>7, <2>8, <2>9, <2>10
<1> HIDE DEF Good
<1>12. 0 \in T
  BY <1>10
<1>13. \A k \in Nat : k \in T => k + 1 \in T
  BY <1>4, <1>11
<1> HIDE DEF T
<1>14. \A k \in Nat : k \in T
  BY <1>12, <1>13, SetInduction
<1>15. Good(StepTime)
  BY <1>4, <1>14 DEF T
<1> QED
  BY <1>3, <1>4, <1>5, <1>7, <1>15 DEF Good

(* A node of the tree against the reference simulation: the property's     *)
(* body, field by field.                                                   *)
Faithful(s, n) ==
  nodes[s][n].active =>
    LET c == Alone(s, ActionsTo[n])[TimeOf(Depth(n))].c IN
    AsNode([c EXCEPT !.cost = nodes[s][n].cost]) = nodes[s][n]

LEMMA FaithfulIs ==
  BranchesIndependent <=> \A s \in Scenarios : \A n \in (DOMAIN nodes[s]) \ {0} : Faithful(s, n)
BY Zenon DEF BranchesIndependent, Faithful, TimeOf

LEMMA FaithfulHolds ==
  ASSUME NEW s, NEW n, Faithful(s, n), nodes[s][n].active,
         DOMAIN Alone(s, ActionsTo[n])[TimeOf(Depth(n))].c = LaneFields
  PROVE  Holds(nodes[s][n], Alone(s, ActionsTo[n])[TimeOf(Depth(n))].c)
<1> DEFINE c == Alone(s, ActionsTo[n])[TimeOf(Depth(n))].c
           node == nodes[s][n]
           d == [c EXCEPT !.cost = node.cost]
<1>1. AsNode(d) = node /\ node.active
  BY DEF Faithful
<1>2. DOMAIN c = LaneFields
  OBVIOUS
<1> HIDE DEF c, node
<1>3. /\ d.s = c.s /\ d.y = c.y /\ d.h = c.h /\ d.v = c.v /\ d.a = c.a
      /\ d.path = c.path /\ d.off = c.off /\ d.out = c.out /\ d.active = c.active
  BY <1>2 DEF LaneFields
<1> HIDE DEF d
<1>4. Holds(node, c)
  BY <1>1, <1>3 DEF AsNode, Holds
<1> QED
  BY <1>4 DEF node, c

(* Where the lane of a pick starts is where the reference of the child is. *)
LEMMA PickHolds ==
  ASSUME HorizonInv, BranchesIndependent, NEW s \in Scenarios, NEW n \in DOMAIN nodes[s],
         NEW a \in 1..N, Depth(n) < TreeHeight, nodes[s][n].active
  PROVE  Holds(nodes[s][n], Alone(s, Append(ActionsTo[n], a))[TimeOf(Depth(n))].c)
<1> DEFINE acts == ActionsTo[n]
<1>0. n \in Nat
  BY DEF HorizonInv
<1>1. acts \in Seq(1..N) /\ Depth(n) = Len(acts) /\ Depth(n) \in Nat
  BY <1>0, ActionsToType, DepthFact DEF Depth
<1>2. TimeOf(Depth(n)) \in Nat /\ TimeOf(Depth(n)) < Pred
  <2>1. Depth(n) \in Nat /\ Depth(n) <= TreeHeight
    BY <1>1, Sizes
  <2> QED
    BY <2>1, TimeFact
<1>3. CASE n = 0
  <2> DEFINE A == Alone(s, Append(acts, a))
  <2>1. TimeOf(Depth(n)) = 0
    BY <1>3, DepthFact, Sizes DEF TimeOf
  <2>2. A[0].c = Aim(nodes[s][0], 0, Append(acts, a)[1], TRUE)
    <3>1. A[0] = AloneStart(s, Append(acts, a))
      BY AloneTurn
    <3>2. AloneStart(s, Append(acts, a)).c = Aim(nodes[s][0], 0, Append(acts, a)[1], TRUE)
      BY StartFact
    <3> QED
      BY <3>1, <3>2
  <2> DEFINE node == nodes[s][0]
             act == Append(acts, a)[1]
             c == A[0].c
  <2>3. c = Aim(node, 0, act, TRUE)
    BY <2>2
  <2> HIDE DEF c, node, act
  <2>4. Holds(node, c)
    BY <2>3 DEF Aim, Holds
  <2> QED
    BY <1>3, <2>1, <2>4 DEF node, c
<1>4. CASE n # 0
  <2>1. Faithful(s, n)
    BY <1>4, FaithfulIs
  <2>2. DOMAIN Alone(s, acts)[TimeOf(Depth(n))].c = LaneFields
    BY <1>2, AloneLane
  <2>3. Holds(nodes[s][n], Alone(s, acts)[TimeOf(Depth(n))].c)
    BY <2>1, <2>2, FaithfulHolds
  <2>4. acts # <<>>
    <3>0. n \in Nat \ {0}
      BY <1>0, <1>4
    <3>1. acts = Append(ActionsTo[ParentOf(n)], ActionOf(n))
      BY <3>0, ActionsToDef
    <3>2. ActionsTo[ParentOf(n)] \in Seq(1..N)
      <4>1. ParentOf(n) \in Nat
        BY <3>0, ParentBelow
      <4> QED
        BY <4>1, ActionsToType
    <3>3. Len(acts) = Len(ActionsTo[ParentOf(n)]) + 1
      BY <3>1, <3>2, AppendFact
    <3> QED
      BY <3>2, <3>3
  <2> HIDE DEF acts
  <2>5. Alone(s, Append(acts, a))[TimeOf(Depth(n))] = Alone(s, acts)[TimeOf(Depth(n))]
    BY <1>1, <1>2, <2>4, AlonePrefix
  <2> QED
    BY <2>3, <2>5 DEF acts
<1> QED
  BY <1>3, <1>4

LEMMA ChildFaithful ==
  ASSUME HorizonInv, BranchesIndependent, NEW picks, IsPick(picks), NEW s \in Scenarios,
         Depth(picks[s][1]) # TreeHeight
  PROVE  LET n == picks[s][1]
             a == picks[s][2]
             child == AsNode(StepBatch(Gather(picks))[s])
             c == Alone(s, ActionsTo[Child(n, a)])[TimeOf(Depth(Child(n, a)))].c
         IN child.active => AsNode([c EXCEPT !.cost = child.cost]) = child
<1> DEFINE n == picks[s][1]
           a == picks[s][2]
           acts == Append(ActionsTo[n], a)
           lane == StepBatch(Gather(picks))[s]
           c == Alone(s, acts)[TimeOf(Depth(n) + 1)].c
<1>1. NodesPicked(picks)
  BY PicksFact DEF NodesPicked, HorizonInv
<1>2. n \in Nat /\ n \in DOMAIN nodes[s] /\ a \in 1..N /\ Depth(n) \in Nat /\ Depth(n) < TreeHeight
  <2>1. DOMAIN nodes[s] \subseteq Nat
    BY DEF HorizonInv
  <2> QED
    BY <2>1, PicksFact, Sizes
<1>3. ActionsTo[Child(n, a)] = acts /\ Depth(Child(n, a)) = Depth(n) + 1
  BY <1>2, DepthFact
<1>4. nodes[s][n].active => Holds(nodes[s][n], Alone(s, acts)[TimeOf(Depth(n))].c)
  BY <1>2, PickHolds
<1>5. lane.active => Alike(lane, c) /\ c.active
  BY <1>1, <1>4, SteppedAlone
<1>6. lane.active \in BOOLEAN
  BY <1>1, SteppedLane DEF Lane
<1>7. c.active \in BOOLEAN
  <2>1. TimeOf(Depth(n) + 1) \in Nat /\ TimeOf(Depth(n) + 1) < Pred
    <3>1. Depth(n) + 1 \in Nat /\ Depth(n) + 1 <= TreeHeight
      BY <1>2, Sizes
    <3> QED
      BY <3>1, TimeFact
  <2> QED
    BY <2>1, AloneLane
<1> SUFFICES ASSUME AsNode(lane).active
             PROVE  AsNode([c EXCEPT !.cost = AsNode(lane).cost]) = AsNode(lane)
  BY <1>3
<1> HIDE DEF lane, c
<1>8. lane.active
  BY DEF AsNode
<1> QED
  BY <1>5, <1>6, <1>7, <1>8 DEF AsNode, Alike, Near, LaneFields

(* A tree always holds its root.                                           *)
RootInv == \A s \in Scenarios : 0 \in DOMAIN nodes[s]

LEMMA RootStep ==
  ASSUME RootInv, [Next]_vars
  PROVE  RootInv'
<1>1. CASE sampleScenarios
  BY <1>1 DEF sampleScenarios, OnlyRoot, RootInv
<1>2. CASE expandNodesBatch
  <2>1. PICK picks, stepped, rolled :
          nodes' = [s \in Scenarios |-> Written(picks, stepped, rolled, s)]
    BY <1>2, ExpandDef
  <2> QED
    BY <2>1 DEF RootInv, Written, WithNode
<1>3. CASE UNCHANGED vars
  BY <1>3 DEF vars, RootInv
<1> QED
  BY <1>1, <1>2, <1>3 DEF Next

(* A node that stays, of a tree whose frame stays, is as it was.           *)
LEMMA KeptFaithful ==
  ASSUME RootInv, BranchesIndependent, UNCHANGED <<frame, exo, indexed, size>>,
         NEW s \in Scenarios, NEW m \in (DOMAIN nodes[s]) \ {0},
         nodes'[s][0] = nodes[s][0], nodes'[s][m] = nodes[s][m]
  PROVE  Faithful(s, m)'
<1>1. Faithful(s, m)
  BY FaithfulIs
<1>2. \A acts : Alone(s, acts)' = Alone(s, acts)
  BY AloneSame
<1>3. Alone(s, ActionsTo[m])' = Alone(s, ActionsTo[m])
  BY <1>2
<1> QED
  BY <1>1, <1>3 DEF Faithful

LEMMA BranchesStep ==
  ASSUME HorizonInv, RootInv, BranchesIndependent, [Next]_vars
  PROVE  BranchesIndependent'
<1>1. CASE sampleScenarios
  <2>1. \A s \in Scenarios : DOMAIN nodes'[s] = {0}
    BY <1>1 DEF sampleScenarios, OnlyRoot
  <2> QED
    BY <2>1 DEF BranchesIndependent
<1> SUFFICES ASSUME ~sampleScenarios, NEW s \in Scenarios, NEW m \in (DOMAIN nodes'[s]) \ {0}
             PROVE  Faithful(s, m)'
  <2>1. BranchesIndependent' <=>
          \A s \in Scenarios : \A m \in (DOMAIN nodes'[s]) \ {0} : Faithful(s, m)'
    BY Zenon DEF BranchesIndependent, Faithful, TimeOf
  <2> QED
    BY <1>1, <2>1
<1>2. CASE expandNodesBatch
  <2>1. PICK picks : LET stepped == StepBatch(Gather(picks))
                         rolled == Rollout(picks, stepped)
                     IN /\ IsPick(picks)
                        /\ nodes' = [r \in Scenarios |-> Written(picks, stepped, rolled, r)]
                        /\ furthest' = Max({furthest} \union {rolled[r].read : r \in Scenarios})
    BY <1>2, ExpandDef
  <2> DEFINE stepped == StepBatch(Gather(picks))
             n == picks[s][1]
             a == picks[s][2]
             child == AsNode(stepped[s])
  <2>2. UNCHANGED <<frame, exo, indexed, size>>
    BY <1>2 DEF expandNodesBatch
  <2>3. nodes'[s] = IF Depth(n) = TreeHeight THEN nodes[s]
                    ELSE WithNode(nodes[s], Child(n, a), child)
    BY <2>1 DEF Written, WrittenChild
  <2>4. /\ n \in Nat /\ a \in 1..N /\ Depth(n) \in Nat
        /\ Depth(n) # TreeHeight => Child(n, a) \notin DOMAIN nodes[s]
    <3>1. DOMAIN nodes[s] \subseteq Nat
      BY DEF HorizonInv
    <3> QED
      BY <2>1, <3>1, PicksFact
  <2>5. ASSUME Depth(n) # TreeHeight
        PROVE  LET c == Alone(s, ActionsTo[Child(n, a)])[TimeOf(Depth(Child(n, a)))].c
               IN child.active => AsNode([c EXCEPT !.cost = child.cost]) = child
    BY <2>1, <2>5, ChildFaithful
  <2>6. Child(n, a) \in Nat \ {0}
    BY <2>4, ChildFact
  <2> HIDE DEF child, stepped, n, a
  <2>7. 0 \in DOMAIN nodes[s] /\ nodes'[s][0] = nodes[s][0]
    BY <2>3, <2>6 DEF RootInv, WithNode
  <2>8. CASE Depth(n) = TreeHeight \/ m # Child(n, a)
    <3>1. m \in (DOMAIN nodes[s]) \ {0} /\ nodes'[s][m] = nodes[s][m]
      BY <2>3, <2>8 DEF WithNode
    <3> QED
      BY <2>2, <2>7, <3>1, KeptFaithful
  <2>9. CASE Depth(n) # TreeHeight /\ m = Child(n, a)
    <3>1. nodes'[s][m] = child
      BY <2>3, <2>9 DEF WithNode
    <3>2. \A acts : Alone(s, acts)' = Alone(s, acts)
      BY <2>2, <2>7, AloneSame
    <3>3. Alone(s, ActionsTo[m])' = Alone(s, ActionsTo[m])
      BY <3>2
    <3>4. LET c == Alone(s, ActionsTo[m])[TimeOf(Depth(m))].c
          IN child.active => AsNode([c EXCEPT !.cost = child.cost]) = child
      BY <2>5, <2>9
    <3> QED
      BY <3>1, <3>3, <3>4 DEF Faithful
  <2> QED
    BY <2>8, <2>9
<1>3. CASE UNCHANGED vars
  <2>1. UNCHANGED <<frame, exo, indexed, size, nodes>>
    BY <1>3 DEF vars
  <2> QED
    BY <2>1, KeptFaithful
<1> QED
  BY <1>2, <1>3 DEF Next

(* Whatever the other lanes of a batch are doing, and whichever frame was  *)
(* planned before, the state that a tree writes for an active node is the  *)
(* one that its scenario comes to when it is simulated alone with the      *)
(* node's actions: expandNodesBatch gathers nodes of several layers,       *)
(* StepBatch steps them together and the rollout goes on from the same     *)
(* buffers, yet no lane's position, speed, path or dismissed agents leak   *)
(* into another's (BranchesIndependent).                                   *)
THEOREM BranchesIndependentHolds == Spec => []BranchesIndependent
<1>1. Init => HorizonInv /\ RootInv /\ BranchesIndependent
  <2> SUFFICES ASSUME Init PROVE HorizonInv /\ RootInv /\ BranchesIndependent
    OBVIOUS
  <2>1. \A s \in Scenarios : DOMAIN nodes[s] = {0}
    BY DEF Init, OnlyRoot
  <2> QED
    BY <2>1, HorizonInit DEF RootInv, BranchesIndependent
<1>2. HorizonInv /\ RootInv /\ BranchesIndependent /\ [Next]_vars
        => (HorizonInv /\ RootInv /\ BranchesIndependent)'
  BY HorizonStep, RootStep, BranchesStep
<1> QED
  BY <1>1, <1>2, PTL DEF Spec
-----------------------------------------------------------------------------
(* What a time step charges.                                               *)
SameCharges(m, n) ==
  m.crash = n.crash /\ m.move = n.move /\ m.goal = n.goal /\ m.steer = n.steer

LEMMA CommandSteering ==
  ASSUME NEW c, NEW d, Near(c, d), NEW lc, NEW gap
  PROVE  Command(c, lc, gap).steering = Command(d, lc, gap).steering
<1> DEFINE steering(b) == Stanley((IF lc.go THEN Base[b.tgt] + b.toff ELSE Base[b.path] + b.off) - b.y, b.h)
           u(b) == UpdateState(b, IDM(gap.v, b.v, gap.dist - SafeDiff, Limit[b.path]), steering(b))
<1>1. steering(c) = steering(d)
  BY DEF Near
<1>2. \A b \in {c, d} : Command(b, lc, gap) = [u(b) EXCEPT !.t = @ + 1, !.steering = steering(b)]
  BY DEF Command
<1>3. \A b \in {c, d} : DOMAIN u(b) = LaneFields
  BY UpdateStateKeeps DEF Near
<1> HIDE DEF u, steering
<1>4. \A b \in {c, d} : Command(b, lc, gap).steering = steering(b)
  BY <1>2, <1>3 DEF LaneFields
<1> QED
  BY <1>1, <1>4

LEMMA SwitchSteering ==
  ASSUME NEW was, NEW c, DOMAIN c = LaneFields
  PROVE  Switch(was, c).steering = c.steering
<1> DEFINE nearer == c.path # c.tgt /\ Abs(c.y - Base[c.path]) - Abs(c.y - Base[c.tgt]) > 0
           b == SwitchIf(c, nearer \/ Reached(c, c.y))
           side == IF c.y >= Base[b.path] THEN 1 ELSE -1
           lat == IF size > 0 THEN Abs(c.y - Base[was.path]) * side ELSE c.y - Base[b.path]
<1>1. Switch(was, c) = [b EXCEPT !.l = lat]
  BY DEF Switch
<1>2. b.steering = c.steering /\ DOMAIN b = LaneFields
  BY DEF SwitchIf, LaneFields
<1> HIDE DEF b, lat
<1> QED
  BY <1>1, <1>2 DEF LaneFields

LEMMA MovedCharges ==
  ASSUME NEW c, NEW d, Alike(c, d), c.steering = d.steering, NEW fleet, NEW read, NEW look
  PROVE  SameCharges(Moved(c, fleet, read), Moved(d, fleet, look))
<1> DEFINE hit(b) == IF size > 0 THEN HasCollision(b, fleet)
                     ELSE [crash |-> FALSE, dismissed |-> {}, missed |-> FALSE]
<1>1. hit(c) = hit(d)
  BY HasCollisionSame
<1>2. Goal(c) = Goal(d) /\ Steer(c) = Steer(d) /\ Move(c.v) = Move(d.v)
  BY DEF Goal, Steer, Alike, Near
<1>3. /\ Moved(c, fleet, read) = Struck(c, read, hit(c))
      /\ Moved(d, fleet, look) = Struck(d, look, hit(d))
  BY DEF Moved
<1> HIDE DEF hit
<1> QED
  BY <1>1, <1>2, <1>3 DEF Struck, SameCharges

LEMMA AdvanceCharges ==
  ASSUME NEW c, NEW d, Alike(c, d), NEW fleet
  PROVE  SameCharges(Advance(c, fleet), Advance(d, fleet))
<1> DEFINE e(b) == [b EXCEPT !.off = EdgeOf(b)]
           lc(b) == Allowance(e(b), fleet)
           cut(b) == Cut(e(b), fleet, lc(b))
           gap(b) == Follow(e(b), lc(b), cut(b))
           moving(b) == Command(e(b), lc(b), gap(b))
<1>1. EdgeOf(c) = EdgeOf(d)
  BY EdgeSame
<1>2. Alike(e(c), e(d))
  BY <1>1 DEF Alike, Near, LaneFields
<1>3. \A b \in {c, d} : Advance(b, fleet) = Moved(Switch(e(b), moving(b)), fleet, cut(b).read)
  BY DEF Advance, Edged, Allowed, Driven
<1> HIDE DEF e
<1>4. lc(c) = lc(d)
  BY <1>2, AllowanceSame
<1> HIDE DEF lc
<1>5. cut(c) = cut(d)
  BY <1>2, <1>4, CutSame
<1> HIDE DEF cut
<1>6. gap(c) = gap(d)
  BY <1>2, <1>4, <1>5, FollowSame
<1> HIDE DEF gap
<1>7. Near(moving(c), moving(d)) /\ moving(c).steering = moving(d).steering
  BY <1>2, <1>4, <1>6, CommandNear, CommandSteering DEF Alike
<1> HIDE DEF moving
<1>8. Alike(Switch(e(c), moving(c)), Switch(e(d), moving(d)))
  <2>1. e(c).path = e(d).path
    BY <1>2 DEF Alike, Near
  <2> QED
    BY <1>7, <2>1, SwitchAlike
<1>9. Switch(e(c), moving(c)).steering = Switch(e(d), moving(d)).steering
  BY <1>7, SwitchSteering DEF Near
<1> QED
  BY <1>3, <1>8, <1>9, MovedCharges

(* What it charges is a number, and what the lane aims at stays.           *)
Ranged(c) == c.v \in Int /\ c.a \in Int /\ c.path \in DOMAIN Base /\ c.tgt \in DOMAIN Base

SameAim(c, d) == c.tgt = d.tgt /\ c.toff = d.toff /\ c.end = d.end

LEMMA ClampType ==
  ASSUME NEW n \in Int, NEW lo \in Int, NEW hi \in Int
  PROVE  Clamp(n, lo, hi) \in Int
<1>1. Min({n, hi}) \in {n, hi}
  <2>1. CASE n <= hi
    <3>1. {n, hi} \in SUBSET Int /\ n \in {n, hi} /\ \A x \in {n, hi} : n <= x
      BY <2>1
    <3> QED
      BY <3>1, MinIs
  <2>2. CASE hi <= n
    <3>1. {n, hi} \in SUBSET Int /\ hi \in {n, hi} /\ \A x \in {n, hi} : hi <= x
      BY <2>2
    <3> QED
      BY <3>1, MinIs
  <2> QED
    BY <2>1, <2>2
<1> DEFINE m == Min({n, hi})
<1>2. m \in Int
  BY <1>1
<1> HIDE DEF m
<1>3. Max({lo, m}) \in {lo, m}
  <2>1. CASE m <= lo
    <3>1. {lo, m} \in SUBSET Int /\ lo \in {lo, m} /\ \A x \in {lo, m} : x <= lo
      BY <1>2, <2>1
    <3> QED
      BY <3>1, MaxIs
  <2>2. CASE lo <= m
    <3>1. {lo, m} \in SUBSET Int /\ m \in {lo, m} /\ \A x \in {lo, m} : x <= m
      BY <1>2, <2>2
    <3> QED
      BY <3>1, MaxIs
  <2> QED
    BY <1>2, <2>1, <2>2
<1> QED
  BY <1>2, <1>3 DEF m, Clamp

LEMMA SwitchIfRanged ==
  ASSUME NEW c, DOMAIN c = LaneFields, Ranged(c), NEW reached
  PROVE  LET d == SwitchIf(c, reached) IN
         Ranged(d) /\ SameAim(d, c) /\ d.cost = c.cost /\ d.later = c.later
BY DEF SwitchIf, LaneFields, Ranged, SameAim

LEMMA UpdateStateRanged ==
  ASSUME NEW c, DOMAIN c = LaneFields, Ranged(c), NEW acc \in Int, NEW steering
  PROVE  Ranged(UpdateState(c, acc, steering)) /\ SameAim(UpdateState(c, acc, steering), c)
<1> DEFINE a == Clamp(acc, c.a - 1, c.a + 1)
           v == Clamp(c.v + a, 0, MaxV)
           h == IF v = 0 THEN c.h ELSE Clamp(c.h + steering, -2, 2)
           d == [c EXCEPT !.a = a, !.v = v, !.h = h, !.s = @ + v, !.y = IF v = 0 THEN @ ELSE @ + Sign(h)]
<1>1. a \in Int
  <2>1. c.a - 1 \in Int /\ c.a + 1 \in Int
    BY DEF Ranged
  <2> QED
    BY <2>1, ClampType
<1> HIDE DEF a
<1>2. v \in Int
  <2>1. c.v + a \in Int /\ 0 \in Int /\ MaxV \in Int
    BY <1>1 DEF Ranged, MaxV
  <2> QED
    BY <2>1, ClampType
<1>3. UpdateState(c, acc, steering) = d
  BY DEF UpdateState, a
<1> HIDE DEF v, h
<1> QED
  BY <1>1, <1>2, <1>3 DEF Ranged, SameAim, LaneFields

LEMMA CommandRanged ==
  ASSUME NEW c, DOMAIN c = LaneFields, Ranged(c), NEW lc, NEW gap
  PROVE  Ranged(Command(c, lc, gap)) /\ SameAim(Command(c, lc, gap), c)
<1> DEFINE steering == Stanley((IF lc.go THEN Base[c.tgt] + c.toff ELSE Base[c.path] + c.off) - c.y, c.h)
           acc == IDM(gap.v, c.v, gap.dist - SafeDiff, Limit[c.path])
           u == UpdateState(c, acc, steering)
<1>1. acc \in Int
  BY DEF IDM, MaxDec, ComfortDec
<1>2. Command(c, lc, gap) = [u EXCEPT !.t = @ + 1, !.steering = steering]
  BY DEF Command
<1> HIDE DEF acc, steering
<1>3. Ranged(u) /\ SameAim(u, c) /\ DOMAIN u = LaneFields
  BY <1>1, UpdateStateRanged, UpdateStateKeeps
<1> HIDE DEF u
<1> QED
  BY <1>2, <1>3 DEF Ranged, SameAim, LaneFields

LEMMA SwitchRanged ==
  ASSUME NEW was, NEW c, DOMAIN c = LaneFields, Ranged(c)
  PROVE  Ranged(Switch(was, c)) /\ SameAim(Switch(was, c), c)
<1> DEFINE nearer == c.path # c.tgt /\ Abs(c.y - Base[c.path]) - Abs(c.y - Base[c.tgt]) > 0
           b == SwitchIf(c, nearer \/ Reached(c, c.y))
           side == IF c.y >= Base[b.path] THEN 1 ELSE -1
           lat == IF size > 0 THEN Abs(c.y - Base[was.path]) * side ELSE c.y - Base[b.path]
<1>1. Switch(was, c) = [b EXCEPT !.l = lat]
  BY DEF Switch
<1>2. Ranged(b) /\ SameAim(b, c) /\ DOMAIN b = LaneFields
  BY SwitchIfRanged, SwitchIfKeeps
<1> HIDE DEF b, lat
<1> QED
  BY <1>1, <1>2 DEF LaneFields, Ranged, SameAim

(* A lane that crashes is charged for it, and only such a lane.            *)
Numbers(m) == m.crash \in Int /\ m.move \in Int /\ m.goal \in Int /\ m.steer \in Int

LEMMA GoalType ==
  ASSUME NEW c, c.path \in DOMAIN Base
  PROVE  Goal(c) \in Int
<1>1. MissGoal[c.path] \in Int
  BY ChargesAssumption
<1> DEFINE x == IF Approaching /\ frame.v > 0 THEN 2 ELSE 1
           y == IF Approaching /\ GoalAt[c.path] - c.s < GoalNear THEN 2 ELSE 1
<1>2. x \in Int /\ y \in Int
  OBVIOUS
<1>3. Goal(c) = MissGoal[c.path] * x * y
  BY DEF Goal
<1> HIDE DEF x, y
<1> QED
  BY <1>1, <1>2, <1>3

LEMMA MovedRanged ==
  ASSUME NEW c, DOMAIN c = LaneFields, Ranged(c), NEW fleet, NEW read
  PROVE  LET m == Moved(c, fleet, read) IN
         Ranged(m.c) /\ SameAim(m.c, c) /\ Numbers(m) /\ (m.c.active <=> m.crash = 0)
<1> DEFINE hit == IF size > 0 THEN HasCollision(c, fleet)
                  ELSE [crash |-> FALSE, dismissed |-> {}, missed |-> FALSE]
           d == [c EXCEPT !.active = ~hit.crash, !.out = @ \union hit.dismissed]
           m == Moved(c, fleet, read)
<1>1. hit.crash \in BOOLEAN
  BY DEF HasCollision
<1>2. Moved(c, fleet, read) = Struck(c, read, hit)
  BY DEF Moved
<1> HIDE DEF hit
<1>3. /\ m.c = d /\ m.crash = (IF hit.crash THEN Crash ELSE 0)
      /\ m.move = Move(c.v) /\ m.goal = Goal(c) /\ m.steer = Steer(c)
  BY <1>2 DEF Struck
<1>4. Ranged(d) /\ SameAim(d, c) /\ d.active = ~hit.crash
  BY DEF Ranged, SameAim, LaneFields
<1>5. Goal(c) \in Int /\ Move(c.v) \in Int /\ Steer(c) \in Int /\ Crash \in Int \ {0}
  BY GoalType, ChargesAssumption DEF Ranged, Move, MaxV, Steer
<1> HIDE DEF d, m
<1>6. Ranged(m.c) /\ SameAim(m.c, c)
  BY <1>3, <1>4
<1>7. Numbers(m)
  BY <1>1, <1>3, <1>5 DEF Numbers
<1>8. m.c.active = ~hit.crash
  BY <1>3, <1>4
<1>9. m.c.active <=> m.crash = 0
  BY <1>1, <1>3, <1>5, <1>8
<1> QED
  BY <1>6, <1>7, <1>9 DEF m

LEMMA AdvanceRanged ==
  ASSUME NEW c, DOMAIN c = LaneFields, Ranged(c), NEW fleet
  PROVE  LET m == Advance(c, fleet) IN
         Ranged(m.c) /\ SameAim(m.c, c) /\ Numbers(m) /\ (m.c.active <=> m.crash = 0)
<1> DEFINE e == [c EXCEPT !.off = EdgeOf(c)]
           lc == Allowance(e, fleet)
           cut == Cut(e, fleet, lc)
           d == Command(e, lc, Follow(e, lc, cut))
           f == Switch(e, d)
<1>1. DOMAIN e = LaneFields /\ Ranged(e) /\ SameAim(e, c)
  BY DEF LaneFields, Ranged, SameAim
<1>2. Advance(c, fleet) = Moved(f, fleet, cut.read)
  BY DEF Advance, Edged, Allowed, Driven
<1> HIDE DEF e, lc, cut
<1>3. DOMAIN d = LaneFields /\ Ranged(d) /\ SameAim(d, e)
  BY <1>1, CommandFact, CommandRanged
<1> HIDE DEF d
<1>4. DOMAIN f = LaneFields /\ Ranged(f) /\ SameAim(f, d)
  BY <1>3, SwitchKeeps, SwitchRanged
<1> HIDE DEF f
<1>5. LET m == Moved(f, fleet, cut.read) IN
      Ranged(m.c) /\ SameAim(m.c, f) /\ Numbers(m) /\ (m.c.active <=> m.crash = 0)
  BY <1>4, MovedRanged
<1> QED
  BY <1>1, <1>2, <1>3, <1>4, <1>5 DEF SameAim

LEMMA AloneFields ==
  ASSUME NEW s, NEW acts
  PROVE  \A k \in Nat : k < Pred => DOMAIN Alone(s, acts)[k] = {"c", "total", "rest"}
<1> DEFINE g == Alone(s, acts)
           T == {k \in Nat : k < Pred => DOMAIN g[k] = {"c", "total", "rest"}}
<1>1. g[0] = AloneStart(s, acts) /\ \A k \in Nat : k + 1 < Pred => g[k + 1] = AloneStep(s, acts, g[k], k)
  BY AloneTurn
<1> HIDE DEF g
<1>2. 0 \in T
  BY <1>1 DEF AloneStart
<1>3. ASSUME NEW k \in Nat, k + 1 < Pred, DOMAIN g[k] = {"c", "total", "rest"}
      PROVE  DOMAIN g[k + 1] = {"c", "total", "rest"}
  BY <1>1, <1>3 DEF AloneStep, Charged
<1>4. \A k \in Nat : k \in T => k + 1 \in T
  BY <1>3, Sizes
<1> HIDE DEF T
<1>5. \A k \in Nat : k \in T
  BY <1>2, <1>4, SetInduction
<1> QED
  BY <1>5 DEF T, g

(* After a crash every step is charged alike.                              *)
LEMMA AloneRest ==
  ASSUME NEW s, NEW acts, NEW k \in Nat, k < Pred, ~Alone(s, acts)[k].c.active,
         Alone(s, acts)[k].total \in Int, Alone(s, acts)[k].rest \in Int
  PROVE  Alone(s, acts)[Pred - 1].total
           = Alone(s, acts)[k].total + Alone(s, acts)[k].rest * (Pred - 1 - k)
<1> DEFINE g == Alone(s, acts)
           rest == g[k].rest
           total == g[k].total
           Good(j) == /\ ~g[k + j].c.active /\ g[k + j].rest = rest
                      /\ g[k + j].total = total + rest * j
           T == {j \in Nat : k + j < Pred => Good(j)}
<1>1. \A j \in Nat : j + 1 < Pred => g[j + 1] = AloneStep(s, acts, g[j], j)
  BY AloneTurn
<1>2. 0 \in T
  BY Sizes
<1>3. ASSUME NEW j \in Nat, k + j + 1 < Pred, Good(j)
      PROVE  Good(j + 1)
  <2>1. g[k + j + 1] = AloneStep(s, acts, g[k + j], k + j)
    <3>1. k + j \in Nat /\ (k + j) + 1 < Pred
      BY <1>3, Sizes
    <3> HIDE DEF g
    <3> QED
      BY <1>1, <3>1
  <2>2. g[k + j + 1] = [g[k + j] EXCEPT !.total = @ + g[k + j].rest]
    BY <1>3, <2>1 DEF AloneStep
  <2>8. DOMAIN g[k + j] = {"c", "total", "rest"}
    <3>1. k + j \in Nat /\ k + j < Pred
      BY <1>3, Sizes
    <3> QED
      BY <3>1, AloneFields
  <2>3. k + (j + 1) = k + j + 1
    OBVIOUS
  <2> HIDE DEF g
  <2>4. g[k + j + 1].c = g[k + j].c /\ g[k + j + 1].rest = rest
    BY <1>3, <2>2
  <2>5. g[k + j + 1].total = g[k + j].total + rest
    BY <1>3, <2>2, <2>8
  <2> DEFINE x == total
             y == rest
  <2>6. x \in Int /\ y \in Int
    BY DEF g
  <2>7. (x + y * j) + y = x + y * (j + 1)
    <3> HIDE DEF x, y
    <3> QED
      BY <2>6
  <2> QED
    BY <1>3, <2>3, <2>4, <2>5, <2>7
<1> HIDE DEF Good
<1>4. \A j \in Nat : j \in T => j + 1 \in T
  BY <1>3, Sizes
<1> HIDE DEF T
<1>5. \A j \in Nat : j \in T
  BY <1>2, <1>4, SetInduction
<1>6. Pred - 1 - k \in Nat /\ k + (Pred - 1 - k) = Pred - 1 /\ k + (Pred - 1 - k) < Pred
  BY Sizes
<1>7. Good(Pred - 1 - k)
  BY <1>5, <1>6 DEF T
<1> QED
  BY <1>6, <1>7 DEF Good

(* From its last action on, a scenario keeps aiming at it.                 *)
LastAction(acts) == Actions[acts[Len(acts)]]

LEMMA AimedLater ==
  ASSUME NEW acts \in Seq(1..N), acts # <<>>, NEW d \in Nat, d + 1 >= Len(acts)
  PROVE  /\ \A c : Aimed(c, acts, TimeOf(d)) = Begin(AimedAt(c, LastAction(acts)))
         /\ \A c : \A j \in 1..(StepTime - 1) : Aimed(c, acts, TimeOf(d) + j) = c
<1>1. Len(acts) \in Nat /\ StepTime \in Nat \ {0} /\ TimeOf(d) \in Nat
  <2>1. TimeOf(d) \in Nat
    BY TimeFact
  <2>2. Len(acts) \in Nat
    OBVIOUS
  <2> QED
    BY <2>1, <2>2, Sizes
<1>2. Min({d + 1, Len(acts)}) = Len(acts)
  <2>1. {d + 1, Len(acts)} \in SUBSET Int /\ Len(acts) \in {d + 1, Len(acts)}
    BY <1>1
  <2>2. \A x \in {d + 1, Len(acts)} : Len(acts) <= x
    BY <1>1
  <2> QED
    BY <2>1, <2>2, MinIs
<1>3. 0 \in 0..(StepTime - 1) /\ TimeOf(d) + 0 = TimeOf(d)
  BY <1>1
<1>4. TimeOf(d) \div StepTime = d /\ TimeOf(d) % StepTime = 0
  BY <1>3, TimeSlots
<1>5. \A c : Aimed(c, acts, TimeOf(d)) = Begin(AimedAt(c, LastAction(acts)))
  <2> TAKE c
  <2>1. Min({TimeOf(d) \div StepTime + 1, Len(acts)}) = Len(acts)
    BY <1>2, <1>4
  <2> QED
    BY <1>4, <2>1 DEF Aimed, AimedAt, LastAction
<1>6. ASSUME NEW c, NEW j \in 1..(StepTime - 1)
      PROVE  Aimed(c, acts, TimeOf(d) + j) = c
  <2>1. j \in 0..(StepTime - 1) /\ j # 0
    BY <1>1
  <2>2. (TimeOf(d) + j) % StepTime = j
    BY <2>1, TimeSlots
  <2> QED
    BY <2>1, <2>2 DEF Aimed
<1> QED
  BY <1>5, <1>6

(* What a lane that steps with the others has been charged, against its    *)
(* scenario alone: the same so far while it is active, and everything once *)
(* it is not.  base is what was charged before.                            *)
Square(c, s, acts, k, base) ==
  /\ DOMAIN c = LaneFields /\ c.active \in BOOLEAN /\ c.cost \in Int /\ c.later \in Int
  /\ c.active => /\ Alone(s, acts)[k].c.active /\ Ranged(c)
                 /\ c.tgt = LastAction(acts).path /\ c.toff = LastAction(acts).off
                 /\ base + c.cost = Alone(s, acts)[k].total /\ c.later = 0
  /\ ~c.active => base + c.cost + c.later = Alone(s, acts)[Pred - 1].total

LEMMA ChargeIs ==
  ASSUME NEW c, NEW m, DOMAIN m.c = LaneFields
  PROVE  LET rest == IF m.crash = 0 THEN 0 ELSE Rest(m)
             d == Charge(c, m) IN
         /\ DOMAIN d = LaneFields /\ d.active = m.c.active /\ (Ranged(m.c) => Ranged(d))
         /\ d.tgt = m.c.tgt /\ d.toff = m.c.toff /\ d.end = m.c.end
         /\ d.cost = c.cost + m.crash + m.move + m.goal + m.steer + rest * (c.end - m.c.t)
         /\ d.later = c.later + rest * (Pred - 1 - c.end)
<1> DEFINE rest == IF m.crash = 0 THEN 0 ELSE Rest(m)
           cost == c.cost + m.crash + m.move + m.goal + m.steer + rest * (c.end - m.c.t)
           later == c.later + rest * (Pred - 1 - c.end)
           lost == c.missed \/ m.missed
           read == Max({c.read, m.read})
           e == [m.c EXCEPT !.cost = cost, !.later = later, !.missed = lost, !.read = read]
<1>1. Charge(c, m) = e
  BY DEF Charge
<1> HIDE DEF cost, later, lost, read
<1>2. /\ DOMAIN e = LaneFields /\ e.active = m.c.active /\ e.tgt = m.c.tgt /\ e.toff = m.c.toff
      /\ e.end = m.c.end /\ e.cost = cost /\ e.later = later
      /\ e.v = m.c.v /\ e.a = m.c.a /\ e.path = m.c.path
  BY DEF LaneFields
<1> HIDE DEF e
<1>3. Ranged(m.c) => Ranged(e)
  BY <1>2 DEF Ranged
<1> QED
  BY <1>1, <1>2, <1>3 DEF cost, later

LEMMA RestType ==
  ASSUME NEW m, Numbers(m)
  PROVE  Rest(m) \in Int
BY DEF Rest, Numbers, Move, MaxV

(* One time step of it.                                                    *)
LEMMA StepSquare ==
  ASSUME NEW s \in Scenarios, NEW acts, NEW k \in Nat, k + 1 < Pred, NEW base \in Int,
         NEW c, Square(c, s, acts, k, base), c.active, c.end \in Int,
         Alike(c, Aimed(Alone(s, acts)[k].c, acts, k)), c.t = k
  PROVE  /\ Square(SubStep(s, c), s, acts, k + 1, base) /\ SubStep(s, c).end = c.end
         /\ SubStep(s, c).active => Alike(SubStep(s, c), Alone(s, acts)[k + 1].c)
<1> DEFINE r == Alone(s, acts)[k]
           q == Alone(s, acts)[k + 1]
           e == Aimed(r.c, acts, k)
           m == Advance(c, exo[s])
           w == Advance(e, exo[s])
           d == Charge(c, m)
<1>1. /\ DOMAIN c = LaneFields /\ r.c.active /\ Ranged(c) /\ c.later = 0 /\ c.cost \in Int
      /\ c.tgt = LastAction(acts).path /\ c.toff = LastAction(acts).off /\ base + c.cost = r.total
  BY DEF Square
<1>2. q = Charged(r, w)
  <2>1. q = AloneStep(s, acts, r, k)
    BY AloneTurn
  <2> QED
    BY <1>1, <2>1 DEF AloneStep
<1>3. SubStep(s, c) = d
  BY DEF SubStep
<1>4. Alike(m.c, w.c) /\ m.c.active = w.c.active /\ SameCharges(m, w)
  BY AdvanceAlike, AdvanceCharges
<1>5. Ranged(m.c) /\ SameAim(m.c, c) /\ Numbers(m) /\ (m.c.active <=> m.crash = 0)
  BY <1>1, AdvanceRanged
<1>6. DOMAIN m.c = LaneFields /\ m.c.active \in BOOLEAN /\ m.c.t = k + 1
  BY <1>1, AdvanceFact
<1> HIDE DEF m, w, e
<1>7. /\ q.c = w.c /\ q.rest = Rest(m)
      /\ q.total = r.total + m.crash + m.move + m.goal + m.steer
  BY <1>2, <1>4 DEF Charged, SameCharges, Rest
<1> HIDE DEF r, q, d
<1> DEFINE rest == IF m.crash = 0 THEN 0 ELSE Rest(m)
<1>8. /\ DOMAIN d = LaneFields /\ d.active = m.c.active /\ Ranged(d)
      /\ d.tgt = c.tgt /\ d.toff = c.toff /\ d.end = c.end
      /\ d.cost = c.cost + m.crash + m.move + m.goal + m.steer + rest * (c.end - (k + 1))
      /\ d.later = c.later + rest * (Pred - 1 - c.end)
  BY <1>5, <1>6, ChargeIs DEF d, SameAim
<1>9. Rest(m) \in Int /\ rest \in Int
  BY <1>5, RestType
<1>10. Pred \in Int /\ k + 1 \in Int
  BY Sizes
<1>11. CASE m.c.active
  <2>1. rest = 0
    BY <1>5, <1>11
  <2> HIDE DEF rest
  <2>2. /\ d.cost = c.cost + m.crash + m.move + m.goal + m.steer
        /\ d.later = 0
    BY <1>1, <1>5, <1>8, <1>10, <2>1 DEF Numbers
  <2>3. base + d.cost = q.total /\ d.cost \in Int
    BY <1>1, <1>5, <1>7, <2>2 DEF Numbers
  <2>4. Alike(d, w.c)
    BY <1>4, ChargeAlike DEF d
  <2>5. Square(d, s, acts, k + 1, base)
    BY <1>1, <1>4, <1>7, <1>8, <1>11, <2>2, <2>3 DEF Square, q
  <2> QED
    BY <1>3, <1>7, <1>8, <2>4, <2>5 DEF q
<1>12. CASE ~m.c.active
  <2>1. rest = Rest(m) /\ ~d.active
    BY <1>5, <1>8, <1>12
  <2> HIDE DEF rest
  <2> DEFINE x == m.crash + m.move + m.goal + m.steer
             y == Rest(m)
  <2>2. x \in Int /\ y \in Int
    BY <1>5, <1>9 DEF Numbers
  <2>3. q.total = r.total + x /\ q.rest = y /\ q.total \in Int /\ r.total \in Int
    BY <1>1, <1>5, <1>7 DEF Numbers
  <2>4. d.cost = c.cost + x + y * (c.end - (k + 1)) /\ d.later = y * (Pred - 1 - c.end)
    BY <1>1, <1>5, <1>8, <1>9, <1>10, <2>1 DEF Numbers
  <2>5. Alone(s, acts)[Pred - 1].total = q.total + y * (Pred - 1 - (k + 1))
    <3>1. ~q.c.active /\ k + 1 \in Nat
      BY <1>4, <1>7, <1>12
    <3> QED
      BY <2>2, <2>3, <3>1, AloneRest DEF q
  <2> HIDE DEF x, y
  <2>6. /\ d.cost \in Int /\ d.later \in Int
        /\ base + d.cost + d.later = q.total + y * (Pred - 1 - (k + 1))
    <3> DEFINE u == c.end - (k + 1)
               v == Pred - 1 - c.end
               yu == y * u
               yv == y * v
    <3>1. u \in Int /\ v \in Int /\ u + v = Pred - 1 - (k + 1)
      BY <1>10
    <3> HIDE DEF u, v
    <3>2. yu \in Int /\ yv \in Int /\ yu + yv = y * (u + v)
      BY <2>2, <3>1
    <3>3. d.cost = c.cost + x + yu /\ d.later = yv
      BY <2>4 DEF u, v
    <3> HIDE DEF yu, yv
    <3>4. /\ d.cost \in Int /\ d.later \in Int
          /\ base + d.cost + d.later = r.total + x + (yu + yv)
      BY <1>1, <2>2, <2>3, <3>2, <3>3
    <3> QED
      BY <2>3, <3>1, <3>2, <3>4
  <2>7. Square(d, s, acts, k + 1, base)
    BY <1>6, <1>8, <2>1, <2>5, <2>6 DEF Square
  <2> QED
    BY <1>3, <1>8, <2>1, <2>7
<1> QED
  BY <1>6, <1>11, <1>12

LEMMA BeginIs ==
  ASSUME NEW c, DOMAIN c = LaneFields, c.active => Ranged(c)
  PROVE  LET d == Begin(c) IN
         /\ DOMAIN d = LaneFields /\ d.active = c.active /\ d.t = c.t /\ d.end = c.t + StepTime
         /\ d.cost = c.cost /\ d.later = c.later /\ d.tgt = c.tgt /\ d.toff = c.toff
         /\ c.active => Ranged(d)
<1> DEFINE b == IF c.active THEN SwitchIf(c, Reached(c, c.y)) ELSE c
           lat == c.y - Base[b.path]
<1>1. /\ DOMAIN b = LaneFields /\ b.active = c.active /\ b.t = c.t /\ b.cost = c.cost
      /\ b.later = c.later /\ b.tgt = c.tgt /\ b.toff = c.toff /\ (c.active => Ranged(b))
  <2>1. CASE c.active
    BY <2>1, SwitchIfRanged, SwitchIfKeeps DEF SameAim
  <2>2. CASE ~c.active
    BY <2>2
  <2> QED
    BY <2>1, <2>2
<1>2. Begin(c) = [b EXCEPT !.l = lat, !.end = c.t + StepTime]
  BY DEF Begin
<1> HIDE DEF b, lat
<1> QED
  BY <1>1, <1>2 DEF LaneFields, Ranged

(* A lane about to take the turn of layer d.                               *)
Starts(c, s, acts, d, base) ==
  /\ Square(c, s, acts, TimeOf(d), base)
  /\ c.active => Near(c, AimedAt(Alone(s, acts)[TimeOf(d)].c, LastAction(acts)))

LEMMA BeginSquare ==
  ASSUME NEW s, NEW acts \in Seq(1..N), acts # <<>>, NEW d \in Nat, d < TreeHeight,
         d + 1 >= Len(acts), NEW base, NEW c, Starts(c, s, acts, d, base)
  PROVE  /\ Square(Begin(c), s, acts, TimeOf(d), base)
         /\ c.active => /\ Alike(Begin(c), Aimed(Alone(s, acts)[TimeOf(d)].c, acts, TimeOf(d)))
                        /\ Begin(c).end = TimeOf(d + 1) /\ Begin(c).t = TimeOf(d) /\ c.t = TimeOf(d)
<1> DEFINE r == Alone(s, acts)[TimeOf(d)]
           e == AimedAt(r.c, LastAction(acts))
<1>1. TimeOf(d) \in Nat /\ TimeOf(d) < Pred /\ TimeOf(d + 1) = TimeOf(d) + StepTime
  <2>1. d <= TreeHeight
    BY Sizes
  <2> QED
    BY <2>1, TimeFact
<1>2. DOMAIN r.c = LaneFields /\ (r.c.active => r.c.t = TimeOf(d))
  BY <1>1, AloneLane
<1>3. Aimed(r.c, acts, TimeOf(d)) = Begin(e)
  BY AimedLater
<1>4. c.active => r.c.active /\ Near(c, e)
  BY DEF Starts, Square
<1>5. e.t = r.c.t /\ e.active = r.c.active
  BY <1>2 DEF AimedAt, LaneFields
<1>6. DOMAIN c = LaneFields /\ (c.active => Ranged(c))
  BY DEF Starts, Square
<1> HIDE DEF e, r
<1>7. c.active => Alike(Begin(c), Begin(e))
  BY <1>4, <1>5, BeginAlike
<1>8. c.active => c.t = TimeOf(d)
  BY <1>2, <1>4, <1>5 DEF Near
<1>9. Square(Begin(c), s, acts, TimeOf(d), base)
  BY <1>6, BeginIs DEF Starts, Square
<1> QED
  BY <1>1, <1>3, <1>6, <1>7, <1>8, <1>9, BeginIs DEF r

LEMMA InactiveSquare ==
  ASSUME NEW s, NEW acts, NEW k, NEW j, NEW base, NEW c, Square(c, s, acts, k, base), ~c.active
  PROVE  Square(c, s, acts, j, base) /\ Square([c EXCEPT !.t = @ + 1], s, acts, j, base)
<1> DEFINE d == [c EXCEPT !.t = @ + 1]
<1>1. DOMAIN d = LaneFields /\ d.active = c.active /\ d.cost = c.cost /\ d.later = c.later
  BY DEF Square, LaneFields
<1> HIDE DEF d
<1>2. Square(d, s, acts, j, base) /\ Square(c, s, acts, j, base)
  BY <1>1 DEF Square
<1> QED
  BY <1>2 DEF d

(* A turn of the batch charges a lane what its scenario is charged alone.  *)
LEMMA TurnSquare ==
  ASSUME NEW s \in Scenarios, NEW acts \in Seq(1..N), acts # <<>>, NEW d \in Nat,
         d < TreeHeight, d + 1 >= Len(acts), NEW base \in Int,
         NEW lanes, Starts(lanes[s], s, acts, d, base)
  PROVE  LET c == StepBatch(lanes)[s] IN
         /\ Square(c, s, acts, TimeOf(d + 1), base)
         /\ c.active => Near(c, Alone(s, acts)[TimeOf(d + 1)].c)
         /\ ~lanes[s].active => ~c.active
<1>0. /\ Square(Begin(lanes[s]), s, acts, TimeOf(d), base)
      /\ lanes[s].active =>
           /\ Alike(Begin(lanes[s]), Aimed(Alone(s, acts)[TimeOf(d)].c, acts, TimeOf(d)))
           /\ Begin(lanes[s]).end = TimeOf(d + 1) /\ Begin(lanes[s]).t = TimeOf(d)
           /\ lanes[s].t = TimeOf(d)
  <2> DEFINE c == lanes[s]
  <2>1. Starts(c, s, acts, d, base)
    OBVIOUS
  <2> HIDE DEF c
  <2>2. /\ Square(Begin(c), s, acts, TimeOf(d), base)
        /\ c.active =>
             /\ Alike(Begin(c), Aimed(Alone(s, acts)[TimeOf(d)].c, acts, TimeOf(d)))
             /\ Begin(c).end = TimeOf(d + 1) /\ Begin(c).t = TimeOf(d) /\ c.t = TimeOf(d)
    BY <2>1, BeginSquare
  <2> QED
    BY <2>2 DEF c
<1> DEFINE g == After(lanes)
           A == Alone(s, acts)
           at(k) == TimeOf(d) + k
           Good(k) == /\ Square(g[k][s], s, acts, at(k), base)
                      /\ ~lanes[s].active => ~g[k][s].active
                      /\ g[k][s].active =>
                           /\ Alike(g[k][s], IF k = 0 THEN Aimed(A[at(k)].c, acts, at(k)) ELSE A[at(k)].c)
                           /\ g[k][s].end = TimeOf(d + 1) /\ g[k][s].t = at(k)
           T == {k \in Nat : k <= StepTime => Good(k)}
<1>1. TimeOf(d) \in Nat /\ TimeOf(d + 1) = TimeOf(d) + StepTime /\ TimeOf(d + 1) < Pred
  <2>1. d + 1 \in Nat /\ d + 1 <= TreeHeight
    BY Sizes
  <2> QED
    BY <2>1, TimeFact
<1>2. StepTime \in Nat \ {0} /\ Pred \in Nat
  BY Sizes
<1>3. Good(0)
  <2>1. g[0][s] = Begin(lanes[s])
    <3>1. g[0] = [r \in Scenarios |-> Begin(lanes[r])]
      BY StepBatchDef
    <3> HIDE DEF g
    <3> QED
      BY <3>1
  <2>2. at(0) = TimeOf(d)
    BY <1>1
  <2>3. Begin(lanes[s]).active = lanes[s].active
    BY BeginIs DEF Starts, Square
  <2> HIDE DEF g, at
  <2> QED
    BY <1>0, <2>1, <2>2, <2>3
<1>4. ASSUME NEW k \in Nat, k + 1 <= StepTime, Good(k)
      PROVE  Good(k + 1)
  <2>1. g[k + 1] = SubSteps(g[k])
    <3>1. k + 1 \in 1..StepTime /\ (k + 1) - 1 = k
      BY <1>2, <1>4
    <3> QED
      BY <3>1, StepBatchDef
  <2>2. at(k) \in Nat /\ at(k) < Pred /\ at(k + 1) = at(k) + 1 /\ at(k) + 1 < Pred /\ k + 1 # 0
    BY <1>1, <1>2, <1>4
  <2> DEFINE c == g[k][s]
  <2>3. Square(c, s, acts, at(k), base)
    BY <1>4
  <2>4. CASE c.active
    <3>1. g[k + 1][s] = SubStep(s, c)
      BY <2>1, <2>4, SubStepsIs DEF AnyRunning
    <3>2. Alike(c, Aimed(A[at(k)].c, acts, at(k)))
      <4>1. CASE k = 0
        BY <1>4, <2>4, <4>1
      <4>2. CASE k # 0
        <5>1. k \in 1..(StepTime - 1)
          BY <1>2, <1>4, <4>2
        <5>2. Aimed(A[at(k)].c, acts, at(k)) = A[at(k)].c
          BY <5>1, AimedLater
        <5> QED
          BY <1>4, <2>4, <4>2, <5>2
      <4> QED
        BY <4>1, <4>2
    <3>3. c.end = TimeOf(d + 1) /\ c.t = at(k) /\ c.end \in Int
      BY <1>1, <1>2, <1>4, <2>4
    <3> HIDE DEF c, g, at
    <3>4. /\ Square(SubStep(s, c), s, acts, at(k) + 1, base) /\ SubStep(s, c).end = c.end
          /\ SubStep(s, c).active => Alike(SubStep(s, c), A[at(k) + 1].c)
      BY <2>2, <2>3, <2>4, <3>2, <3>3, StepSquare
    <3>5. SubStep(s, c).active => SubStep(s, c).t = at(k) + 1
      <4>1. at(k) + 1 \in Nat
        BY <2>2
      <4>2. SubStep(s, c).active => A[at(k) + 1].c.active
        BY <3>4 DEF Square
      <4>3. SubStep(s, c).active => A[at(k) + 1].c.t = at(k) + 1
        BY <2>2, <4>1, <4>2, AloneLane
      <4> QED
        BY <3>4, <4>3 DEF Alike, Near
    <3>6. lanes[s].active
      BY <1>4, <2>4 DEF c
    <3> QED
      BY <2>2, <3>1, <3>3, <3>4, <3>5, <3>6
  <2>5. CASE ~c.active
    <3>1. g[k + 1][s] = c \/ g[k + 1][s] = [c EXCEPT !.t = @ + 1]
      <4>1. CASE AnyRunning(g[k])
        <5>1. g[k + 1][s] = SubStep(s, c)
          BY <2>1, <4>1, SubStepsIs
        <5> QED
          BY <2>5, <5>1 DEF SubStep
      <4>2. CASE ~AnyRunning(g[k])
        BY <2>1, <4>2, SubStepsIs
      <4> QED
        BY <4>1, <4>2
    <3> HIDE DEF c, g
    <3>2. Square(g[k + 1][s], s, acts, at(k + 1), base)
      BY <2>3, <2>5, <3>1, InactiveSquare
    <3>3. ~g[k + 1][s].active
      <4>1. DOMAIN c = LaneFields
        BY <2>3 DEF Square
      <4> QED
        BY <2>5, <3>1, <4>1 DEF LaneFields
    <3> QED
      BY <3>2, <3>3
  <2> QED
    BY <2>4, <2>5
<1> HIDE DEF Good
<1>5. 0 \in T
  BY <1>3
<1>6. \A k \in Nat : k \in T => k + 1 \in T
  BY <1>2, <1>4
<1> HIDE DEF T
<1>7. \A k \in Nat : k \in T
  BY <1>5, <1>6, SetInduction
<1>8. Good(StepTime)
  BY <1>2, <1>7 DEF T
<1>9. CASE ~AnyRunning(lanes) \/ \A r \in Scenarios : lanes[r].t + StepTime >= Pred
  <2>1. StepBatch(lanes) = lanes
    BY <1>9, StepBatchDef
  <2>2. ~lanes[s].active
    <3> SUFFICES ASSUME lanes[s].active PROVE FALSE
      OBVIOUS
    <3>1. lanes[s].t = TimeOf(d)
      BY <1>0
    <3>2. lanes[s].t + StepTime >= Pred
      BY <1>9 DEF AnyRunning
    <3> QED
      BY <1>1, <1>2, <3>1, <3>2
  <2>3. Square(lanes[s], s, acts, TimeOf(d), base)
    BY DEF Starts
  <2> QED
    BY <2>1, <2>2, <2>3, InactiveSquare
<1>10. CASE ~(~AnyRunning(lanes) \/ \A r \in Scenarios : lanes[r].t + StepTime >= Pred)
  <2>1. StepBatch(lanes) = g[StepTime]
    BY <1>10, StepBatchDef
  <2>2. at(StepTime) = TimeOf(d + 1) /\ StepTime # 0
    BY <1>1, <1>2
  <2> HIDE DEF g, A, at
  <2> QED
    BY <1>8, <2>1, <2>2 DEF Good, A, Alike
<1> QED
  BY <1>9, <1>10

LEMMA NextTurn ==
  ASSUME NEW s, NEW acts, NEW d, NEW base, NEW c,
         Square(c, s, acts, TimeOf(d), base),
         c.active => Near(c, Alone(s, acts)[TimeOf(d)].c)
  PROVE  Starts(c, s, acts, d, base)
<1> DEFINE b == Alone(s, acts)[TimeOf(d)].c
<1>1. c.active => c.tgt = LastAction(acts).path /\ c.toff = LastAction(acts).off
  BY DEF Square
<1>2. c.active => Near(c, AimedAt(b, LastAction(acts)))
  <2> SUFFICES ASSUME c.active PROVE Near(c, AimedAt(b, LastAction(acts)))
    OBVIOUS
  <2>1. Near(c, b)
    OBVIOUS
  <2> HIDE DEF b
  <2> QED
    BY <1>1, <2>1 DEF Near, AimedAt, LaneFields
<1> QED
  BY <1>2 DEF Starts

(* A lane that rides through the rollout, at the end of layer d; past the  *)
(* tree's last layer it is switched off.                                   *)
Rides(c, s, acts, d, base) ==
  IF d <= TreeHeight
  THEN /\ Square(c, s, acts, TimeOf(d), base)
       /\ c.active => Near(c, Alone(s, acts)[TimeOf(d)].c)
  ELSE Square(c, s, acts, 0, base) /\ ~c.active

LEMMA LastTime == TimeOf(TreeHeight) = Pred - 1
BY ChargesAssumption, Sizes DEF TimeOf

LEMMA KeptSquare ==
  ASSUME NEW s, NEW acts, NEW k, NEW base \in Int, NEW c, Square(c, s, acts, k, base)
  PROVE  /\ Square(Kept(c, TRUE), s, acts, k, base) /\ Kept(c, TRUE).active = c.active
         /\ \A d : Near(c, d) => Near(Kept(c, TRUE), d)
         /\ (k = Pred - 1 \/ ~c.active) => \A j : Square(Kept(c, FALSE), s, acts, j, base)
         /\ ~Kept(c, FALSE).active
<1> DEFINE on == Kept(c, TRUE)
           off == Kept(c, FALSE)
<1>1. DOMAIN c = LaneFields /\ c.active \in BOOLEAN
  BY DEF Square
<1>2. \A d \in {on, off} : /\ DOMAIN d = LaneFields /\ d.cost = c.cost /\ d.later = c.later
                           /\ d.s = c.s /\ d.y = c.y /\ d.h = c.h /\ d.v = c.v /\ d.a = c.a
                           /\ d.path = c.path /\ d.off = c.off /\ d.out = c.out /\ d.t = c.t
                           /\ d.tgt = c.tgt /\ d.toff = c.toff
  BY <1>1 DEF Kept, LaneFields
<1>3. on.active = c.active /\ off.active = FALSE
  BY <1>1 DEF Kept, LaneFields
<1> HIDE DEF on, off
<1>4. Square(on, s, acts, k, base)
  BY <1>2, <1>3 DEF Square, Ranged
<1>5. ASSUME NEW d, Near(c, d) PROVE Near(on, d)
  BY <1>2, <1>5 DEF Near
<1>6. ASSUME k = Pred - 1 \/ ~c.active, NEW j
      PROVE  Square(off, s, acts, j, base)
  <2>1. base + c.cost + c.later = Alone(s, acts)[Pred - 1].total
    <3>1. CASE ~c.active
      BY <3>1 DEF Square
    <3>2. CASE c.active
      <4>1. k = Pred - 1
        BY <1>6, <3>2
      <4>2. base + c.cost = Alone(s, acts)[Pred - 1].total /\ c.later = 0
        BY <3>2, <4>1 DEF Square
      <4> DEFINE x == base + c.cost
      <4>3. x \in Int
        BY DEF Square
      <4>4. x + 0 = x
        <5> HIDE DEF x
        <5> QED
          BY <4>3
      <4> QED
        BY <4>2, <4>4
    <3> QED
      BY <3>1, <3>2
  <2>2. c.cost \in Int /\ c.later \in Int
    BY DEF Square
  <2> QED
    BY <1>2, <1>3, <2>1, <2>2 DEF Square
<1> QED
  BY <1>3, <1>4, <1>5, <1>6 DEF on, off

LEMMA RidesOn ==
  ASSUME NEW s \in Scenarios, NEW acts \in Seq(1..N), acts # <<>>, NEW d \in Nat,
         d >= Len(acts), Len(acts) <= TreeHeight, NEW base \in Int,
         NEW c, Rides(c, s, acts, d, base), NEW lanes, lanes[s] = Kept(c, d < TreeHeight)
  PROVE  Rides(StepBatch(lanes)[s], s, acts, d + 1, base)
<1> DEFINE e == StepBatch(lanes)[s]
<1>1. Len(acts) \in Nat \ {0} /\ TreeHeight \in Nat
  <2>1. Len(acts) \in Nat
    OBVIOUS
  <2> QED
    BY <2>1, Sizes
<1>2. CASE d < TreeHeight
  <2> DEFINE b == Kept(c, TRUE)
  <2>1. lanes[s] = b
    <3>1. (d < TreeHeight) = TRUE
      BY <1>2
    <3> QED
      BY <3>1
  <2>2. Square(c, s, acts, TimeOf(d), base) /\ (c.active => Near(c, Alone(s, acts)[TimeOf(d)].c))
    <3>1. d <= TreeHeight
      BY <1>1, <1>2
    <3> QED
      BY <3>1 DEF Rides
  <2>3. /\ Square(b, s, acts, TimeOf(d), base)
        /\ b.active => Near(b, Alone(s, acts)[TimeOf(d)].c)
    <3> DEFINE k == TimeOf(d)
               a == Alone(s, acts)[k].c
    <3>1. Square(c, s, acts, k, base) /\ (c.active => Near(c, a))
      BY <2>2
    <3> HIDE DEF k, a
    <3>2. Square(b, s, acts, k, base) /\ b.active = c.active /\ (Near(c, a) => Near(b, a))
      BY <3>1, KeptSquare
    <3> HIDE DEF b
    <3>3. Square(b, s, acts, k, base) /\ (b.active => Near(b, a))
      BY <3>1, <3>2
    <3> QED
      BY <3>3 DEF k, a
  <2> HIDE DEF b
  <2>4. Starts(b, s, acts, d, base)
    BY <2>3, NextTurn
  <2>5. d + 1 >= Len(acts) /\ d + 1 <= TreeHeight
    BY <1>1, <1>2
  <2>6. /\ Square(e, s, acts, TimeOf(d + 1), base)
        /\ e.active => Near(e, Alone(s, acts)[TimeOf(d + 1)].c)
    <3>1. Starts(lanes[s], s, acts, d, base)
      BY <2>1, <2>4
    <3> QED
      BY <1>2, <2>5, <3>1, TurnSquare
  <2> QED
    BY <2>5, <2>6 DEF Rides
<1>3. CASE ~(d < TreeHeight)
  <2> DEFINE b == Kept(c, FALSE)
             h == TreeHeight - 1
  <2>1. lanes[s] = b
    <3>1. (d < TreeHeight) = FALSE
      BY <1>3
    <3> QED
      BY <3>1
  <2>2. \E k : Square(c, s, acts, k, base) /\ (k = Pred - 1 \/ ~c.active)
    <3>1. CASE d <= TreeHeight
      <4>1. d = TreeHeight
        BY <1>1, <1>3, <3>1
      <4>2. TimeOf(d) = Pred - 1
        BY <4>1, LastTime
      <4>3. Square(c, s, acts, TimeOf(d), base)
        BY <3>1 DEF Rides
      <4> QED
        BY <4>2, <4>3
    <3>2. CASE ~(d <= TreeHeight)
      BY <3>2 DEF Rides
    <3> QED
      BY <3>1, <3>2
  <2>3. ~b.active /\ \A j : Square(b, s, acts, j, base)
    BY <2>2, KeptSquare
  <2> HIDE DEF b
  <2>4. h \in Nat /\ h < TreeHeight /\ h + 1 >= Len(acts) /\ ~(d + 1 <= TreeHeight)
    BY <1>1, <1>3
  <2> HIDE DEF h
  <2>5. Starts(b, s, acts, h, base)
    BY <2>3 DEF Starts
  <2>6. Square(e, s, acts, TimeOf(h + 1), base) /\ ~e.active
    <3>1. Starts(lanes[s], s, acts, h, base) /\ ~lanes[s].active
      BY <2>1, <2>3, <2>5
    <3> QED
      BY <2>4, <3>1, TurnSquare
  <2>7. Square(e, s, acts, 0, base)
    BY <2>6, InactiveSquare
  <2> QED
    BY <2>4, <2>6, <2>7 DEF Rides
<1> QED
  BY <1>2, <1>3

(* The rollout charges an active child's lane what is left of the horizon. *)
LEMMA RolledSquare ==
  ASSUME NEW picks, NEW s \in Scenarios, NEW stepped, NEW acts \in Seq(1..N), acts # <<>>,
         Len(acts) = Depth(picks[s][1]) + 1, Depth(picks[s][1]) \in Nat,
         Depth(picks[s][1]) < TreeHeight, NEW base \in Int,
         Square(stepped[s], s, acts, TimeOf(Len(acts)), base), stepped[s].active,
         Near(stepped[s], Alone(s, acts)[TimeOf(Len(acts))].c)
  PROVE  LET c == Rollout(picks, stepped)[s] IN
         base + stepped[s].cost + (c.cost + c.later) = Alone(s, acts)[Pred - 1].total
<1> DEFINE D == Depth(picks[s][1])
           g == Rolled(picks, stepped)
           to == base + stepped[s].cost
           Good(k) == Rides(g[k][s], s, acts, D + 1 + k, to)
           T == {k \in Nat : k <= TreeHeight => Good(k)}
<1>1. to \in Int /\ stepped[s].cost \in Int
  BY DEF Square
<1>2. D \in Nat /\ TreeHeight \in Nat /\ D < TreeHeight /\ Len(acts) = D + 1
  BY Sizes
<1>3. Good(0)
  <2> DEFINE c == stepped[s]
             b == Fresh(c, TRUE)
  <2>1. g[0][s] = b
    <3>1. g[0] = Begun(picks, stepped)
      BY RolloutDef
    <3> HIDE DEF g
    <3>2. Begun(picks, stepped)[s] = Fresh(stepped[s], D < TreeHeight)
      BY BegunIs
    <3> QED
      BY <1>2, <3>1, <3>2
  <2>2. Square(c, s, acts, TimeOf(D + 1), base) /\ c.active /\ Near(c, Alone(s, acts)[TimeOf(D + 1)].c)
    BY <1>2
  <2> HIDE DEF c, D, g
  <2>3. DOMAIN c = LaneFields /\ c.active = TRUE
    BY <2>2 DEF Square
  <2>4. /\ DOMAIN b = LaneFields /\ b.cost = 0 /\ b.later = 0 /\ b.active = TRUE
        /\ b.s = c.s /\ b.y = c.y /\ b.h = c.h /\ b.v = c.v /\ b.a = c.a
        /\ b.path = c.path /\ b.off = c.off /\ b.out = c.out /\ b.t = c.t
        /\ b.tgt = c.tgt /\ b.toff = c.toff
    BY <2>3 DEF Fresh, LaneFields
  <2> HIDE DEF b
  <2>5. to = Alone(s, acts)[TimeOf(D + 1)].total
    BY <2>2 DEF Square, c
  <2> HIDE DEF to
  <2>6. Square(b, s, acts, TimeOf(D + 1), to)
    <3>1. to + 0 = to
      BY <1>1
    <3> QED
      BY <2>2, <2>4, <2>5, <3>1 DEF Square, Ranged
  <2>7. Near(b, Alone(s, acts)[TimeOf(D + 1)].c)
    BY <2>2, <2>4 DEF Near
  <2>8. D + 1 + 0 = D + 1 /\ D + 1 <= TreeHeight
    BY <1>2
  <2> QED
    BY <2>1, <2>6, <2>7, <2>8 DEF Rides
<1>4. ASSUME NEW k \in Nat, k + 1 <= TreeHeight, Good(k)
      PROVE  Good(k + 1)
  <2> DEFINE lanes == Layer(picks, g[k], k + 1)
             d == D + 1 + k
  <2>1. g[k + 1] = StepBatch(lanes)
    <3>1. k + 1 \in 1..TreeHeight /\ (k + 1) - 1 = k
      BY <1>2, <1>4
    <3> QED
      BY <3>1, RolloutDef
  <2>2. lanes[s] = Kept(g[k][s], k + 1 <= RolloutLen(picks[s][1]))
    BY LayerIs
  <2>3. (k + 1 <= RolloutLen(picks[s][1])) = (d < TreeHeight)
    <3>1. RolloutLen(picks[s][1]) = TreeHeight - D - 1
      BY DEF RolloutLen
    <3> HIDE DEF D
    <3> QED
      BY <1>2, <3>1
  <2>4. lanes[s] = Kept(g[k][s], d < TreeHeight)
    BY <2>2, <2>3
  <2>5. d \in Nat /\ d >= Len(acts) /\ Len(acts) <= TreeHeight /\ D + 1 + (k + 1) = d + 1
    BY <1>2
  <2>6. Rides(g[k][s], s, acts, d, to)
    BY <1>4
  <2> HIDE DEF lanes, d, g, to, D
  <2>7. Rides(StepBatch(lanes)[s], s, acts, d + 1, to)
    BY <1>1, <2>4, <2>5, <2>6, RidesOn
  <2> QED
    BY <2>1, <2>5, <2>7
<1> HIDE DEF Good
<1>5. 0 \in T
  BY <1>3
<1>6. \A k \in Nat : k \in T => k + 1 \in T
  BY <1>2, <1>4
<1> HIDE DEF T
<1>7. \A k \in Nat : k \in T
  BY <1>5, <1>6, SetInduction
<1>8. Rides(g[TreeHeight][s], s, acts, D + 1 + TreeHeight, to)
  BY <1>2, <1>7 DEF T, Good
<1>9. Rollout(picks, stepped) = g[TreeHeight]
  BY RolloutDef
<1> DEFINE c == g[TreeHeight][s]
<1>10. Square(c, s, acts, 0, to) /\ ~c.active
  <2>1. ~(D + 1 + TreeHeight <= TreeHeight)
    BY <1>2
  <2> HIDE DEF D, c
  <2> QED
    BY <1>8, <2>1 DEF Rides, c
<1>11. to + c.cost + c.later = Alone(s, acts)[Pred - 1].total /\ c.cost \in Int /\ c.later \in Int
  BY <1>10 DEF Square
<1> HIDE DEF c, to
<1>12. to + (c.cost + c.later) = Alone(s, acts)[Pred - 1].total
  BY <1>1, <1>11
<1> QED
  BY <1>9, <1>12 DEF c, to
-----------------------------------------------------------------------------
(* The rewards on the way from the root, of a tree.                        *)
Costs(tree, g, n) ==
  g = [k \in 0..n |-> IF k = 0 THEN 0 ELSE tree[k].cost + g[ParentOf(k)]]

CostOf(tree, n) == (CHOOSE g : Costs(tree, g, n))[n]

LEMMA CostToIs == \A s, n : CostTo(s, n) = CostOf(nodes[s], n)
BY Zenon DEF CostTo, CostOf, Costs

LEMMA CostsExist ==
  ASSUME NEW tree
  PROVE  \A n \in Nat : \E g : Costs(tree, g, n)
<1> DEFINE T == {n \in Nat : \E g : Costs(tree, g, n)}
<1>1. 0 \in T
  <2> DEFINE g == [k \in 0..0 |-> 0]
  <2>1. g = [k \in 0..0 |-> IF k = 0 THEN 0 ELSE tree[k].cost + g[ParentOf(k)]]
    OBVIOUS
  <2>2. Costs(tree, g, 0)
    BY <2>1 DEF Costs
  <2> QED
    BY <2>2
<1>2. \A n \in Nat : n \in T => n + 1 \in T
  <2> SUFFICES ASSUME NEW n \in Nat, NEW g, Costs(tree, g, n)
               PROVE  \E h : Costs(tree, h, n + 1)
    OBVIOUS
  <2> DEFINE h == [k \in 0..(n + 1) |->
                     IF k <= n THEN g[k] ELSE tree[n + 1].cost + g[ParentOf(n + 1)]]
  <2>1. \A k \in 0..(n + 1) : h[k] = IF k = 0 THEN 0 ELSE tree[k].cost + h[ParentOf(k)]
    <3> TAKE k \in 0..(n + 1)
    <3>1. k # 0 => ParentOf(k) \in 0..(k - 1)
      BY ParentBelow
    <3>2. k # 0 => h[ParentOf(k)] = g[ParentOf(k)]
      BY <3>1
    <3>3. CASE k <= n
      <4>1. k \in 0..n /\ h[k] = g[k]
        BY <3>3
      <4> HIDE DEF h
      <4> QED
        BY <3>2, <4>1 DEF Costs
    <3>4. CASE k = n + 1
      <4>1. h[k] = tree[k].cost + g[ParentOf(k)] /\ k # 0
        BY <3>4
      <4> HIDE DEF h
      <4> QED
        BY <3>2, <4>1
    <3> QED
      BY <3>3, <3>4
  <2>2. h = [k \in 0..(n + 1) |-> h[k]]
    OBVIOUS
  <2> HIDE DEF h
  <2>3. Costs(tree, h, n + 1)
    BY <2>1, <2>2 DEF Costs
  <2> QED
    BY <2>3
<1> HIDE DEF T
<1>3. \A n \in Nat : n \in T
  BY <1>1, <1>2, SetInduction
<1> QED
  BY <1>3 DEF T

(* The sums for two nodes, or of two trees, agree as far as the trees do.  *)
Common(tree, more, D) ==
  \A k \in D \ {0} : more[k].cost = tree[k].cost /\ ParentOf(k) \in D

LEMMA CostsAgree ==
  ASSUME NEW tree, NEW more, NEW g, NEW h, NEW n \in Nat, NEW p \in Nat,
         Costs(tree, g, n), Costs(more, h, p), NEW D, Common(tree, more, D)
  PROVE  \A k \in Nat : (k \in D /\ k <= n /\ k <= p) => h[k] = g[k]
<1> DEFINE T == {k \in Nat : (k \in D /\ k <= n /\ k <= p) => h[k] = g[k]}
<1>1. \A k \in Nat : (\A j \in 0..(k - 1) : j \in T) => k \in T
  <2> SUFFICES ASSUME NEW k \in Nat, k \in D, k <= n, k <= p, \A j \in 0..(k - 1) : j \in T
               PROVE  h[k] = g[k]
    OBVIOUS
  <2>1. k \in 0..n /\ k \in 0..p
    OBVIOUS
  <2>2. CASE k = 0
    BY <2>1, <2>2 DEF Costs
  <2>3. CASE k # 0
    <3> DEFINE j == ParentOf(k)
    <3>1. j \in 0..(k - 1) /\ j \in D
      BY <2>3, ParentBelow DEF Common
    <3>2. j \in Nat /\ j <= n /\ j <= p
      BY <3>1
    <3> HIDE DEF j
    <3>3. h[j] = g[j]
      BY <3>1, <3>2
    <3>4. g[k] = tree[k].cost + g[j] /\ h[k] = more[k].cost + h[j]
      BY <2>1, <2>3 DEF Costs, j
    <3> QED
      BY <2>3, <3>3, <3>4 DEF Common
  <2> QED
    BY <2>2, <2>3
<1> HIDE DEF T
<1>2. \A k \in Nat : k \in T
  BY <1>1, StrongInduction
<1> QED
  BY <1>2 DEF T

LEMMA CostOfDef ==
  ASSUME NEW tree
  PROVE  /\ CostOf(tree, 0) = 0
         /\ \A n \in Nat \ {0} : CostOf(tree, n) = tree[n].cost + CostOf(tree, ParentOf(n))
<1> DEFINE w(n) == CHOOSE g : Costs(tree, g, n)
<1>1. \A n \in Nat : Costs(tree, w(n), n)
  BY CostsExist
<1>2. \A n : CostOf(tree, n) = w(n)[n]
  BY DEF CostOf
<1> HIDE DEF w
<1>3. CostOf(tree, 0) = 0
  BY <1>1, <1>2 DEF Costs
<1>4. ASSUME NEW n \in Nat \ {0}
      PROVE  CostOf(tree, n) = tree[n].cost + CostOf(tree, ParentOf(n))
  <2> DEFINE p == ParentOf(n)
             g == w(n)
             h == w(p)
  <2>1. n \in Nat /\ p \in Nat /\ p <= n
    BY ParentBelow
  <2>2. Common(tree, tree, Nat)
    BY ParentBelow DEF Common
  <2>3. Costs(tree, g, n) /\ Costs(tree, h, p)
    BY <1>1, <2>1
  <2>4. g[n] = tree[n].cost + g[p]
    <3>1. n \in 0..n
      OBVIOUS
    <3> QED
      BY <2>3, <3>1 DEF Costs
  <2> HIDE DEF p, g, h
  <2>5. p <= p
    BY <2>1
  <2>6. h[p] = g[p]
    BY <2>1, <2>2, <2>3, <2>5, CostsAgree
  <2> QED
    BY <1>2, <2>4, <2>6 DEF p, g, h
<1> QED
  BY <1>3, <1>4

(* A tree holds the parents of its nodes; one that grows keeps their sums. *)
Closed(tree) == \A n \in (DOMAIN tree) \ {0} : ParentOf(n) \in DOMAIN tree

LEMMA CostOfSame ==
  ASSUME NEW tree, NEW more, Closed(tree), \A n \in DOMAIN tree : more[n] = tree[n],
         NEW n \in DOMAIN tree, n \in Nat
  PROVE  CostOf(more, n) = CostOf(tree, n)
<1> DEFINE g == CHOOSE f : Costs(tree, f, n)
           h == CHOOSE f : Costs(more, f, n)
           D == DOMAIN tree
<1>1. Costs(tree, g, n) /\ Costs(more, h, n)
  BY CostsExist
<1>2. CostOf(tree, n) = g[n] /\ CostOf(more, n) = h[n]
  BY DEF CostOf
<1>3. Common(tree, more, D)
  BY DEF Closed, Common
<1>4. n \in D /\ n <= n
  OBVIOUS
<1> HIDE DEF g, h, D
<1>5. h[n] = g[n]
  BY <1>1, <1>3, <1>4, CostsAgree
<1> QED
  BY <1>2, <1>5
-----------------------------------------------------------------------------
(* The inductive invariant of the charges: the trees are closed, a node    *)
(* that can be grown holds numbers and a path, and it has been charged     *)
(* what its scenario is charged alone on the way to it.                    *)
Grown(s, n) ==
  nodes[s][n].active =>
    /\ nodes[s][n].v \in Int /\ nodes[s][n].a \in Int /\ nodes[s][n].path \in DOMAIN Base

Paid(s, n) ==
  nodes[s][n].active =>
    /\ CostTo(s, n) \in Int
    /\ CostTo(s, n) = Alone(s, ActionsTo[n])[TimeOf(Depth(n))].total

ChargeInv ==
  /\ rounds \in Nat
  /\ \A s \in Scenarios : Closed(nodes[s])
  /\ rounds > 0 => \A s \in Scenarios : \A n \in DOMAIN nodes[s] : Grown(s, n)
  /\ \A s \in Scenarios : \A n \in (DOMAIN nodes[s]) \ {0} : Paid(s, n)

(* What a return says, for one of them.                                    *)
Matches(s, n, value) ==
  (n # 0 /\ ~CrashedAbove(s, n) /\ (nodes[s][n].active \/ Depth(n) < TreeHeight)) =>
    CostTo(s, n) + value = Alone(s, ActionsTo[n])[Pred - 1].total

LEMMA MatchesIs ==
  ReturnsMatchScalar <=> \A r \in returns : Matches(r.scenario, r.node, r.value)
BY Zenon DEF ReturnsMatchScalar, Matches

LEMMA ExpandReturns ==
  ASSUME expandNodesBatch
  PROVE  \E picks : LET stepped == StepBatch(Gather(picks))
                        rolled == Rollout(picks, stepped)
                    IN /\ IsPick(picks)
                       /\ nodes' = [s \in Scenarios |-> Written(picks, stepped, rolled, s)]
                       /\ returns' = {Return(s, picks[s], stepped[s], rolled[s]) : s \in Scenarios}
<1>1. PICK picks \in {f \in [Scenarios -> UNION {Picks(s) : s \in Scenarios}] :
                        \A s \in Scenarios : f[s] \in Picks(s)} :
        \E stepped \in {StepBatch(Gather(picks))} :
        \E rolled \in {Rollout(picks, stepped)} :
          /\ nodes' = [s \in Scenarios |-> Written(picks, stepped, rolled, s)]
          /\ returns' = {Return(s, picks[s], stepped[s], rolled[s]) : s \in Scenarios}
  BY Zenon DEF expandNodesBatch, Written
<1>2. IsPick(picks)
  BY DEF IsPick
<1> DEFINE stepped == StepBatch(Gather(picks))
           rolled == Rollout(picks, stepped)
<1>3. /\ nodes' = [s \in Scenarios |-> Written(picks, stepped, rolled, s)]
      /\ returns' = {Return(s, picks[s], stepped[s], rolled[s]) : s \in Scenarios}
  BY <1>1
<1> WITNESS picks
<1> QED
  BY <1>2, <1>3

(* The lane of a node that can be grown starts where its child's reference *)
(* has come to, and charged as much.                                       *)
LEMMA GatherStarts ==
  ASSUME HorizonInv, BranchesIndependent, ChargeInv, rounds > 0, NEW picks, NodesPicked(picks),
         NEW s \in Scenarios, NEW n, n = picks[s][1], NEW a, a = picks[s][2],
         Depth(n) < TreeHeight, nodes[s][n].active
  PROVE  /\ CostTo(s, n) \in Int
         /\ Starts(Gather(picks)[s], s, Append(ActionsTo[n], a), Depth(n), CostTo(s, n))
<1> DEFINE acts == Append(ActionsTo[n], a)
           t == TimeOf(Depth(n))
           r == Alone(s, acts)[t]
           node == nodes[s][n]
           c == Aim(node, t, a, TRUE)
<1>1. n \in Nat /\ n \in DOMAIN nodes[s] /\ a \in 1..N /\ Depth(n) \in Nat
  BY DepthFact DEF NodesPicked
<1>2. t \in Nat /\ t < Pred
  BY <1>1, TimeFact, Sizes
<1>3. Gather(picks)[s] = c
  <2>1. MayStep(node, n) = TRUE
    <3>1. MayStep(node, n) \in BOOLEAN /\ MayStep(node, n)
      BY DEF MayStep
    <3> QED
      BY <3>1
  <2> QED
    BY <2>1, GatherIs DEF TimeOf
<1>4. LastAction(acts) = Actions[a] /\ Actions[a].path \in DOMAIN Base
  <2>1. ActionsTo[n] \in Seq(1..N)
    BY <1>1, ActionsToType
  <2>2. acts[Len(acts)] = a
    BY <1>1, <2>1
  <2>3. Actions[a].path \in DOMAIN Base
    <3>1. a \in 1..Len(Actions)
      BY <1>1 DEF N
    <3> DEFINE R == [path : DOMAIN Base, off : Int]
    <3>2. Actions \in Seq(R)
      BY SizesAssumption
    <3> HIDE DEF R
    <3>3. Actions[a] \in R
      BY <3>1, <3>2
    <3> QED
      BY <3>3 DEF R
  <2> QED
    BY <2>2, <2>3 DEF LastAction
<1>5. Holds(node, r.c)
  BY <1>1, PickHolds
<1>6. DOMAIN r.c = LaneFields /\ r.c.t = t
  <2>1. DOMAIN r.c = LaneFields /\ (r.c.active => r.c.t = t)
    BY <1>2, AloneLane
  <2> QED
    BY <1>5, <2>1 DEF Holds
<1>7. node.v \in Int /\ node.a \in Int /\ node.path \in DOMAIN Base
  BY <1>1 DEF ChargeInv, Grown
<1>8. CostTo(s, n) \in Int /\ CostTo(s, n) = r.total
  <2>1. CASE n = 0
    <3>1. CostTo(s, n) = 0
      BY <2>1, CostToIs, CostOfDef
    <3>2. t = 0
      BY <2>1, DepthFact, Sizes DEF TimeOf
    <3>3. r = AloneStart(s, acts)
      BY <3>2, AloneTurn
    <3> HIDE DEF r, acts
    <3>4. r.total = 0
      BY <3>3 DEF AloneStart
    <3> QED
      BY <3>1, <3>4
  <2>2. CASE n # 0
    <3>1. Paid(s, n)
      BY <1>1, <2>2 DEF ChargeInv
    <3>2. CostTo(s, n) \in Int /\ CostTo(s, n) = Alone(s, ActionsTo[n])[t].total
      BY <3>1 DEF Paid
    <3> DEFINE path == ActionsTo[n]
    <3>3. path \in Seq(1..N) /\ path # <<>> /\ Len(path) = Depth(n)
      <4>1. n \in Nat \ {0}
        BY <1>1, <2>2
      <4>2. ParentOf(n) \in Nat
        BY <4>1, ParentBelow
      <4>3. path = Append(ActionsTo[ParentOf(n)], ActionOf(n)) /\ ActionsTo[ParentOf(n)] \in Seq(1..N)
        BY <4>1, <4>2, ActionsToDef, ActionsToType
      <4>4. Len(path) = Len(ActionsTo[ParentOf(n)]) + 1 /\ Len(ActionsTo[ParentOf(n)]) \in Nat
        BY <4>1, <4>3, AppendFact, ParentBelow
      <4>5. path \in Seq(1..N)
        BY <1>1, ActionsToType
      <4> QED
        BY <4>4, <4>5 DEF Depth
    <3> HIDE DEF path
    <3>4. \A k \in Nat : (k < Pred /\ k <= TimeOf(Len(path))) =>
             Alone(s, Append(path, a))[k] = Alone(s, path)[k]
      BY <1>1, <3>3, AlonePrefix
    <3>5. t <= TimeOf(Len(path))
      BY <1>2, <3>3
    <3>6. Alone(s, Append(path, a))[t] = Alone(s, path)[t]
      <4> HIDE DEF t
      <4> QED
        BY <1>2, <3>4, <3>5
    <3> QED
      BY <3>2, <3>6 DEF path
  <2> QED
    BY <2>1, <2>2
<1> DEFINE act == Actions[a]
           base == CostTo(s, n)
           k == t
<1>9. /\ DOMAIN c = LaneFields /\ c.active /\ c.active \in BOOLEAN /\ c.cost = 0 /\ c.later = 0 /\ Ranged(c)
      /\ c.tgt = act.path /\ c.toff = act.off
      /\ Near(c, AimedAt(r.c, act))
  <2>1. act.path \in DOMAIN Base
    BY <1>4
  <2> DEFINE d == r.c
  <2>2. DOMAIN d = LaneFields /\ d.t = t /\ Holds(node, d)
    BY <1>5, <1>6
  <2> HIDE DEF d, node, t, act, r
  <2>3. /\ DOMAIN c = LaneFields /\ c.active = TRUE /\ c.active \in BOOLEAN /\ c.cost = 0 /\ c.later = 0
        /\ c.tgt = act.path /\ c.toff = act.off /\ c.t = t
        /\ c.s = node.s /\ c.y = node.y /\ c.h = node.h /\ c.v = node.v /\ c.a = node.a
        /\ c.path = node.path /\ c.off = node.off /\ c.out = node.out
    BY DEF Aim, LaneFields, act
  <2> HIDE DEF c
  <2>4. Near(c, AimedAt(d, act))
    BY <2>2, <2>3 DEF Near, Holds, AimedAt, LaneFields
  <2> QED
    BY <1>7, <2>1, <2>3, <2>4 DEF Ranged, d
<1>10. r.c.active
  BY <1>5 DEF Holds
<1> HIDE DEF c, act
<1>11. Square(c, s, acts, t, base)
  <2>1. base + 0 = base
    BY <1>8
  <2>2. LastAction(acts).path = act.path /\ LastAction(acts).off = act.off
    BY <1>4 DEF act
  <2>3. c.active \in BOOLEAN /\ c.cost \in Int /\ c.later \in Int
    BY <1>9
  <2>4. base + c.cost = r.total
    BY <1>8, <1>9, <2>1
  <2> HIDE DEF acts, base, t
  <2> QED
    BY <1>9, <1>10, <2>2, <2>3, <2>4 DEF Square
<1>12. Near(c, AimedAt(r.c, LastAction(acts)))
  BY <1>4, <1>9 DEF act
<1>13. Starts(c, s, acts, Depth(n), base)
  BY <1>11, <1>12 DEF Starts
<1> QED
  BY <1>3, <1>8, <1>13

(* What is charged along a new node and backed up from it.                 *)
LEMMA ChildValue ==
  ASSUME HorizonInv, BranchesIndependent, ChargeInv, rounds > 0, NEW picks, NodesPicked(picks),
         NEW s \in Scenarios, NEW n, n = picks[s][1], NEW a, a = picks[s][2],
         Depth(n) < TreeHeight, nodes[s][n].active
  PROVE  LET stepped == StepBatch(Gather(picks))
             rolled == Rollout(picks, stepped)
             acts == Append(ActionsTo[n], a)
             value == Return(s, picks[s], stepped[s], rolled[s]).value
         IN /\ Square(stepped[s], s, acts, TimeOf(Depth(n) + 1), CostTo(s, n))
            /\ stepped[s].cost + CostTo(s, n) + value = Alone(s, acts)[Pred - 1].total
<1> DEFINE lanes == Gather(picks)
           stepped == StepBatch(lanes)
           rolled == Rollout(picks, stepped)
           acts == Append(ActionsTo[n], a)
           base == CostTo(s, n)
           value == Return(s, picks[s], stepped[s], rolled[s]).value
           total == Alone(s, acts)[Pred - 1].total
<1>1. n \in Nat /\ a \in 1..N /\ Depth(n) \in Nat
  BY DepthFact DEF NodesPicked
<1>2. acts \in Seq(1..N) /\ Len(acts) = Depth(n) + 1 /\ acts # <<>>
  <2>1. ActionsTo[n] \in Seq(1..N)
    BY <1>1, ActionsToType
  <2>2. acts \in Seq(1..N) /\ Len(acts) = Len(ActionsTo[n]) + 1 /\ Len(ActionsTo[n]) \in Nat
    BY <1>1, <2>1, AppendFact
  <2>3. Len(ActionsTo[n]) = Depth(n)
    BY DEF Depth
  <2> HIDE DEF acts
  <2> QED
    BY <1>1, <2>2, <2>3
<1>3. base \in Int /\ Starts(lanes[s], s, acts, Depth(n), base)
  BY GatherStarts
<1>4. Depth(n) # TreeHeight
  BY <1>1, Sizes
<1>5. value = IF stepped[s].active THEN rolled[s].cost + rolled[s].later ELSE stepped[s].later
  BY <1>4 DEF Return
<1> HIDE DEF lanes, acts, base, value
<1>6. /\ Square(stepped[s], s, acts, TimeOf(Depth(n) + 1), base)
      /\ stepped[s].active => Near(stepped[s], Alone(s, acts)[TimeOf(Depth(n) + 1)].c)
  <2>1. Depth(n) + 1 >= Len(acts)
    BY <1>1, <1>2
  <2> QED
    BY <1>1, <1>2, <1>3, <2>1, TurnSquare
<1> DEFINE c == stepped[s]
           e == rolled[s]
<1>7. c.cost \in Int /\ c.later \in Int
  BY <1>6 DEF Square
<1>8. CASE c.active
  <2>1. base + c.cost + (e.cost + e.later) = total
    <3>1. Square(stepped[s], s, acts, TimeOf(Len(acts)), base) /\ stepped[s].active
      BY <1>2, <1>6, <1>8
    <3>2. Near(stepped[s], Alone(s, acts)[TimeOf(Len(acts))].c)
      BY <1>2, <1>6, <1>8
    <3>3. Len(acts) = Depth(picks[s][1]) + 1 /\ Depth(picks[s][1]) \in Nat /\ Depth(picks[s][1]) < TreeHeight
      BY <1>1, <1>2
    <3> HIDE DEF stepped
    <3> QED
      BY <1>2, <1>3, <3>1, <3>2, <3>3, RolledSquare
  <2>2. value = e.cost + e.later
    BY <1>5, <1>8
  <2> HIDE DEF c, e
  <2>3. base + c.cost = c.cost + base
    BY <1>3, <1>7
  <2> QED
    BY <1>6, <2>1, <2>2, <2>3 DEF c, e, acts, base, value, lanes
<1>9. CASE ~c.active
  <2>1. base + c.cost + c.later = total
    BY <1>6, <1>9 DEF Square
  <2>2. value = c.later
    BY <1>5, <1>9
  <2> HIDE DEF c
  <2>3. base + c.cost = c.cost + base
    BY <1>3, <1>7
  <2> QED
    BY <1>6, <2>1, <2>2, <2>3 DEF c, acts, base, value, lanes
<1> QED
  BY <1>8, <1>9

(* A leaf picked again: nothing is left to be charged.                     *)
LEMMA LeafValue ==
  ASSUME HorizonInv, ChargeInv, NEW picks, NodesPicked(picks), NEW s \in Scenarios,
         NEW n, n = picks[s][1], n # 0, Depth(n) = TreeHeight, nodes[s][n].active
  PROVE  LET stepped == StepBatch(Gather(picks))
             rolled == Rollout(picks, stepped)
         IN CostTo(s, n) + Return(s, picks[s], stepped[s], rolled[s]).value
              = Alone(s, ActionsTo[n])[Pred - 1].total
<1> DEFINE lanes == Gather(picks)
           stepped == StepBatch(lanes)
           rolled == Rollout(picks, stepped)
           value == Return(s, picks[s], stepped[s], rolled[s]).value
           acts == ActionsTo[n]
           base == CostTo(s, n)
           total == Alone(s, acts)[Pred - 1].total
           h == TreeHeight - 1
<1>1. n \in Nat \ {0} /\ n \in DOMAIN nodes[s] /\ TreeHeight \in Nat
  BY Sizes DEF NodesPicked
<1>2. base \in Int /\ base = total
  <2>1. Paid(s, n)
    BY <1>1 DEF ChargeInv
  <2>2. TimeOf(Depth(n)) = Pred - 1
    BY LastTime
  <2> QED
    BY <2>1, <2>2 DEF Paid
<1>3. acts \in Seq(1..N) /\ Len(acts) = TreeHeight /\ acts # <<>> /\ TreeHeight # 0
  <2>1. ParentOf(n) \in Nat
    BY <1>1, ParentBelow
  <2>2. acts = Append(ActionsTo[ParentOf(n)], ActionOf(n)) /\ ActionsTo[ParentOf(n)] \in Seq(1..N)
    BY <1>1, <2>1, ActionsToDef, ActionsToType
  <2>3. Len(acts) = Len(ActionsTo[ParentOf(n)]) + 1 /\ Len(ActionsTo[ParentOf(n)]) \in Nat
    BY <1>1, <2>2, AppendFact, ParentBelow
  <2>4. acts \in Seq(1..N)
    BY <1>1, ActionsToType
  <2>5. Len(acts) = TreeHeight
    BY DEF Depth
  <2> HIDE DEF acts
  <2> QED
    BY <2>3, <2>4, <2>5
<1>4. LET c == lanes[s] IN
      DOMAIN c = LaneFields /\ c.active \in BOOLEAN /\ ~c.active /\ c.cost = 0 /\ c.later = 0
  <2> DEFINE may == MayStep(nodes[s][n], n)
             node == nodes[s][n]
             t == Depth(n) * StepTime
             a == picks[s][2]
             c == lanes[s]
  <2>1. c = Aim(node, t, a, may)
    BY GatherIs
  <2>2. may \in BOOLEAN /\ ~may
    <3>1. ~(Depth(n) < TreeHeight)
      BY <1>1
    <3> QED
      BY <3>1 DEF MayStep
  <2> HIDE DEF may, node, t, a, c
  <2>3. DOMAIN c = LaneFields /\ c.active = may /\ c.cost = 0 /\ c.later = 0
    BY <2>1 DEF Aim, LaneFields
  <2> QED
    BY <2>2, <2>3 DEF c
<1>5. value = stepped[s].cost + stepped[s].later
  <2> DEFINE c == stepped[s]
             e == rolled[s]
             pick == picks[s]
  <2>1. Depth(pick[1]) = TreeHeight
    OBVIOUS
  <2> HIDE DEF c, e, pick
  <2>2. Return(s, pick, c, e).value = c.cost + c.later
    BY <2>1 DEF Return
  <2> QED
    BY <2>2 DEF c, e, pick
<1> HIDE DEF lanes, acts, base, value
<1>6. h \in Nat /\ h < TreeHeight /\ h + 1 >= Len(acts)
  BY <1>1, <1>3
<1> HIDE DEF h
<1>7. Starts(lanes[s], s, acts, h, base)
  <2> DEFINE c == lanes[s]
  <2>1. c.active \in BOOLEAN /\ c.cost \in Int /\ c.later \in Int /\ ~c.active /\ DOMAIN c = LaneFields
    BY <1>4
  <2>2. base + c.cost + c.later = total
    <3>1. c.cost = 0 /\ c.later = 0
      BY <1>4
    <3> HIDE DEF c, total
    <3> QED
      BY <1>2, <3>1
  <2> HIDE DEF c
  <2>3. Starts(c, s, acts, h, base)
    BY <2>1, <2>2 DEF Starts, Square
  <2> QED
    BY <2>3 DEF c
<1>8. Square(stepped[s], s, acts, TimeOf(h + 1), base) /\ ~stepped[s].active
  <2>1. ~lanes[s].active
    BY <1>4
  <2> QED
    BY <1>2, <1>3, <1>6, <1>7, <2>1, TurnSquare
<1> DEFINE c == stepped[s]
<1>9. base + c.cost + c.later = total /\ c.cost \in Int /\ c.later \in Int
  BY <1>8 DEF Square
<1>10. value = c.cost + c.later
  BY <1>5
<1> HIDE DEF c, total
<1>11. base + value = total
  BY <1>2, <1>9, <1>10
<1> QED
  BY <1>11 DEF total, value, base, acts, lanes

(* A call adds a leaf to a tree, or leaves it.                             *)
Grows(s, n, a, child) ==
  /\ \A m \in DOMAIN nodes[s] : /\ m \in DOMAIN nodes'[s] /\ nodes'[s][m] = nodes[s][m]
                                /\ CostTo(s, m)' = CostTo(s, m)
  /\ Closed(nodes'[s])
  /\ Depth(n) = TreeHeight => DOMAIN nodes'[s] = DOMAIN nodes[s]
  /\ Depth(n) # TreeHeight =>
       /\ DOMAIN nodes'[s] = DOMAIN nodes[s] \union {Child(n, a)}
       /\ Child(n, a) \notin DOMAIN nodes[s]
       /\ nodes'[s][Child(n, a)] = child
       /\ CostTo(s, Child(n, a))' = child.cost + CostTo(s, n)

LEMMA Growth ==
  ASSUME HorizonInv, ChargeInv, NEW picks, IsPick(picks), NEW s \in Scenarios,
         NEW n, n = picks[s][1], NEW a, a = picks[s][2], NEW stepped, NEW rolled,
         nodes'[s] = Written(picks, stepped, rolled, s)
  PROVE  Grows(s, n, a, AsNode(stepped[s]))
<1> DEFINE tree == nodes[s]
           more == nodes'[s]
           m == Child(n, a)
           child == AsNode(stepped[s])
<1>1. /\ DOMAIN tree \subseteq Nat /\ n \in DOMAIN tree /\ n \in Nat /\ a \in 1..N
      /\ Depth(n) # TreeHeight => m \notin DOMAIN tree
  <2>1. DOMAIN nodes[s] \subseteq Nat
    BY DEF HorizonInv
  <2> QED
    BY <2>1, PicksFact
<1>2. m \in Nat \ {0} /\ ParentOf(m) = n
  BY <1>1, ChildFact
<1>3. more = IF Depth(n) = TreeHeight THEN tree ELSE WithNode(tree, m, child)
  BY DEF Written, WrittenChild
<1>4. Closed(tree)
  BY DEF ChargeInv
<1>5. \A i, j : CostTo(i, j) = CostOf(nodes[i], j)
  BY CostToIs
<1>6. \A i, j : CostTo(i, j)' = CostOf(nodes'[i], j)
  BY Zenon DEF CostTo, CostOf, Costs
<1>7. \A j : CostTo(s, j) = CostOf(tree, j) /\ CostTo(s, j)' = CostOf(more, j)
  BY <1>5, <1>6
<1> HIDE DEF m, child, tree, more
<1>8. \A j \in DOMAIN tree : j \in DOMAIN more /\ more[j] = tree[j]
  BY <1>1, <1>3 DEF WithNode
<1>9. \A j \in DOMAIN tree : CostOf(more, j) = CostOf(tree, j)
  <2> TAKE j \in DOMAIN tree
  <2>1. j \in Nat
    BY <1>1
  <2> QED
    BY <1>4, <1>8, <2>1, CostOfSame
<1>10. Closed(more)
  BY <1>1, <1>2, <1>3, <1>4 DEF Closed, WithNode
<1>11. ASSUME Depth(n) # TreeHeight
       PROVE  DOMAIN more = DOMAIN tree \union {m} /\ more[m] = child
  BY <1>3, <1>11 DEF WithNode
<1>12. ASSUME Depth(n) # TreeHeight
       PROVE  CostOf(more, m) = child.cost + CostOf(tree, n)
  <2>1. CostOf(more, m) = more[m].cost + CostOf(more, ParentOf(m))
    BY <1>2, CostOfDef
  <2> QED
    BY <1>1, <1>2, <1>9, <1>11, <1>12, <2>1
<1>13. Depth(n) = TreeHeight => DOMAIN more = DOMAIN tree
  BY <1>3
<1>14. \A j \in DOMAIN tree : CostTo(s, j)' = CostTo(s, j)
  BY <1>7, <1>9
<1>15. Depth(n) # TreeHeight => CostTo(s, m)' = child.cost + CostTo(s, n)
  BY <1>7, <1>12
<1> QED
  BY <1>1, <1>8, <1>10, <1>11, <1>13, <1>14, <1>15 DEF m, child, tree, more, Grows

(* The node that a call adds.                                              *)
LEMMA ChildPaid ==
  ASSUME HorizonInv, BranchesIndependent, ChargeInv, rounds > 0, NEW picks, NodesPicked(picks),
         NEW s \in Scenarios, NEW n, n = picks[s][1], NEW a, a = picks[s][2],
         Depth(n) < TreeHeight, NEW child, child = AsNode(StepBatch(Gather(picks))[s]), child.active
  PROVE  /\ child.v \in Int /\ child.a \in Int /\ child.path \in DOMAIN Base
         /\ child.cost + CostTo(s, n) \in Int
         /\ child.cost + CostTo(s, n)
              = Alone(s, ActionsTo[Child(n, a)])[TimeOf(Depth(Child(n, a)))].total
<1> DEFINE c == StepBatch(Gather(picks))[s]
           acts == Append(ActionsTo[n], a)
           base == CostTo(s, n)
           total == Alone(s, acts)[TimeOf(Depth(n) + 1)].total
<1>1. c.active /\ child.cost = c.cost /\ child.v = c.v /\ child.a = c.a /\ child.path = c.path
  <2> HIDE DEF c
  <2>1. child = AsNode(c)
    BY DEF c
  <2> QED
    BY <2>1 DEF AsNode
<1>2. nodes[s][n].active
  BY <1>1, SteppedLane
<1>3. base \in Int
  BY <1>2, GatherStarts
<1>4. Square(c, s, acts, TimeOf(Depth(n) + 1), base)
  BY <1>2, ChildValue
<1>5. ActionsTo[Child(n, a)] = acts /\ Depth(Child(n, a)) = Depth(n) + 1
  BY DepthFact DEF NodesPicked
<1> HIDE DEF c, acts, base
<1>6. Ranged(c) /\ base + c.cost = total /\ c.cost \in Int
  BY <1>1, <1>4 DEF Square
<1>7. c.cost + base = base + c.cost /\ c.cost + base \in Int
  BY <1>3, <1>6
<1> QED
  BY <1>1, <1>5, <1>6, <1>7 DEF Ranged, base

LEMMA ExpandCharges ==
  ASSUME HorizonInv, RootInv, BranchesIndependent, ChargeInv, expandNodesBatch
  PROVE  ChargeInv' /\ ReturnsMatchScalar'
<1>1. PICK picks, stepped, rolled :
        /\ stepped = StepBatch(Gather(picks)) /\ rolled = Rollout(picks, stepped) /\ IsPick(picks)
        /\ nodes' = [s \in Scenarios |-> Written(picks, stepped, rolled, s)]
        /\ returns' = {Return(s, picks[s], stepped[s], rolled[s]) : s \in Scenarios}
  BY ExpandReturns
<1> DEFINE at(s) == picks[s][1]
           by(s) == picks[s][2]
           value(s) == Return(s, picks[s], stepped[s], rolled[s]).value
<1>2. UNCHANGED <<frame, exo, indexed, size, rounds>> /\ rounds > 0
  BY DEF expandNodesBatch
<1>3. NodesPicked(picks)
  BY <1>1, PicksFact DEF NodesPicked, HorizonInv
<1>4. \A s \in Scenarios :
        /\ at(s) \in Nat /\ at(s) \in DOMAIN nodes[s] /\ by(s) \in 1..N
        /\ Depth(at(s)) \in Nat /\ (Depth(at(s)) < TreeHeight <=> Depth(at(s)) # TreeHeight)
        /\ Child(at(s), by(s)) \in Nat \ {0} /\ ParentOf(Child(at(s), by(s))) = at(s)
        /\ ActionsTo[Child(at(s), by(s))] = Append(ActionsTo[at(s)], by(s))
  <2> TAKE s \in Scenarios
  <2>1. DOMAIN nodes[s] \subseteq Nat
    BY DEF HorizonInv
  <2>2. /\ at(s) \in Nat /\ at(s) \in DOMAIN nodes[s] /\ by(s) \in 1..N
        /\ Depth(at(s)) \in Nat /\ Depth(at(s)) <= TreeHeight
    BY <1>1, <2>1, PicksFact
  <2> HIDE DEF at, by
  <2>3. Depth(at(s)) < TreeHeight <=> Depth(at(s)) # TreeHeight
    BY <2>2, Sizes
  <2> QED
    BY <2>2, <2>3, ChildFact, DepthFact
<1>5. \A s \in Scenarios : Grows(s, at(s), by(s), AsNode(stepped[s]))
  <2> TAKE s \in Scenarios
  <2> DEFINE n == at(s)
             a == by(s)
  <2>1. n = picks[s][1] /\ a = picks[s][2] /\ IsPick(picks)
    BY <1>1
  <2>2. nodes'[s] = Written(picks, stepped, rolled, s)
    BY <1>1
  <2> HIDE DEF n, a
  <2>3. Grows(s, n, a, AsNode(stepped[s]))
    BY <2>1, <2>2, Growth
  <2> QED
    BY <2>3 DEF n, a
<1>6. \A s \in Scenarios : \A acts : Alone(s, acts)' = Alone(s, acts)
  BY <1>2, <1>5, AloneSame DEF RootInv, Grows
<1>7. ASSUME NEW s \in Scenarios, NEW m \in DOMAIN nodes'[s]
      PROVE  Grown(s, m)' /\ (m # 0 => Paid(s, m)')
  <2>1. Alone(s, ActionsTo[m])' = Alone(s, ActionsTo[m])
    BY <1>6
  <2>2. CASE m \in DOMAIN nodes[s]
    <3>1. Grown(s, m) /\ (m # 0 => Paid(s, m))
      BY <1>2, <2>2 DEF ChargeInv
    <3>2. nodes'[s][m] = nodes[s][m] /\ CostTo(s, m)' = CostTo(s, m)
      BY <1>5, <2>2 DEF Grows
    <3> QED
      BY <2>1, <3>1, <3>2 DEF Grown, Paid
  <2>3. CASE m \notin DOMAIN nodes[s]
    <3> DEFINE child == AsNode(stepped[s])
    <3>1. /\ Depth(at(s)) < TreeHeight /\ m = Child(at(s), by(s)) /\ nodes'[s][m] = child
          /\ CostTo(s, m)' = child.cost + CostTo(s, at(s))
      BY <1>4, <1>5, <2>3 DEF Grows
    <3>2. child.active =>
            /\ child.v \in Int /\ child.a \in Int /\ child.path \in DOMAIN Base
            /\ child.cost + CostTo(s, at(s)) \in Int
            /\ child.cost + CostTo(s, at(s)) = Alone(s, ActionsTo[m])[TimeOf(Depth(m))].total
      BY <1>1, <1>2, <1>3, <3>1, ChildPaid
    <3> HIDE DEF child, at, by
    <3> QED
      BY <2>1, <3>1, <3>2 DEF Grown, Paid
  <2> QED
    BY <2>2, <2>3
<1>8. ChargeInv'
  BY <1>2, <1>5, <1>7 DEF ChargeInv, Grows
<1>9. ASSUME NEW s \in Scenarios, NEW r, r = Return(s, picks[s], stepped[s], rolled[s])
      PROVE  Matches(r.scenario, r.node, r.value)'
  <2> DEFINE m == IF Depth(at(s)) = TreeHeight THEN at(s) ELSE Child(at(s), by(s))
             v == r.value
  <2>1. r.scenario = s /\ r.node = m /\ v = value(s)
    BY <1>9 DEF Return
  <2>2. Alone(s, ActionsTo[m])' = Alone(s, ActionsTo[m])
    BY <1>6
  <2>3. ASSUME m # 0, ~CrashedAbove(s, m)', nodes'[s][m].active \/ Depth(m) < TreeHeight
        PROVE  CostTo(s, m)' + v = Alone(s, ActionsTo[m])[Pred - 1].total
    <3>1. CASE Depth(at(s)) = TreeHeight
      <4>1. m = at(s)
        BY <3>1
      <4>2. nodes[s][m].active /\ CostTo(s, m)' = CostTo(s, m)
        BY <1>4, <1>5, <2>3, <3>1, <4>1 DEF Grows
      <4> QED
        BY <1>1, <1>3, <2>1, <2>3, <3>1, <4>1, <4>2, LeafValue
    <3>2. CASE Depth(at(s)) # TreeHeight
      <4>1. m = Child(at(s), by(s)) /\ ParentOf(m) = at(s) /\ Depth(at(s)) < TreeHeight
        BY <1>4, <3>2
      <4>2. nodes[s][at(s)].active
        BY <1>4, <1>5, <2>3, <4>1 DEF CrashedAbove, Grows
      <4>3. CostTo(s, m)' = AsNode(stepped[s]).cost + CostTo(s, at(s))
        BY <1>5, <3>2, <4>1 DEF Grows
      <4>4. AsNode(stepped[s]).cost = stepped[s].cost
        BY DEF AsNode
      <4>5. stepped[s].cost + CostTo(s, at(s)) + v
              = Alone(s, Append(ActionsTo[at(s)], by(s)))[Pred - 1].total
        BY <1>1, <1>2, <1>3, <2>1, <4>1, <4>2, ChildValue
      <4> QED
        BY <1>4, <4>1, <4>3, <4>4, <4>5
    <3> QED
      BY <3>1, <3>2
  <2> HIDE DEF m, v
  <2>4. Matches(s, m, v)'
    BY <2>2, <2>3 DEF Matches
  <2> QED
    BY <2>1, <2>4 DEF v
<1>10. ReturnsMatchScalar' <=> \A r \in returns' : Matches(r.scenario, r.node, r.value)'
  BY Zenon DEF ReturnsMatchScalar, Matches
<1>11. \A r \in returns' : Matches(r.scenario, r.node, r.value)'
  BY <1>1, <1>9
<1> QED
  BY <1>8, <1>10, <1>11

LEMMA SampleCharges ==
  ASSUME ChargeInv, sampleScenarios
  PROVE  ChargeInv' /\ ReturnsMatchScalar'
<1>1. PICK f \in Frames :
        nodes' = [s \in Scenarios |->
                    OnlyRoot(RootOf(f, IF Len(f.fleet) = 0 THEN nodes[s][0].out
                                       ELSE Len(f.fleet) + 1..Slots))]
  BY DEF sampleScenarios
<1>2. rounds' \in Nat /\ returns' = {}
  BY DEF sampleScenarios, ChargeInv
<1>3. \A s \in Scenarios : DOMAIN nodes'[s] = {0}
  BY <1>1 DEF OnlyRoot
<1>4. ASSUME NEW s \in Scenarios
      PROVE  Grown(s, 0)'
  <2> DEFINE out == IF Len(f.fleet) = 0 THEN nodes[s][0].out ELSE Len(f.fleet) + 1..Slots
             root == RootOf(f, out)
  <2>1. nodes'[s] = OnlyRoot(root)
    BY <1>1
  <2>2. root.v = f.v /\ root.a = 0 /\ root.path = f.path
    <3> HIDE DEF out
    <3> QED
      BY DEF RootOf
  <2>3. nodes'[s][0] = root
    <3> HIDE DEF root
    <3> QED
      BY <2>1 DEF OnlyRoot
  <2>4. f.v \in Int /\ f.path \in DOMAIN Base
    BY ChargesAssumption
  <2> HIDE DEF root
  <2> QED
    BY <2>2, <2>3, <2>4 DEF Grown
<1>5. \A s \in Scenarios : Closed(nodes'[s])
  BY <1>3 DEF Closed
<1>6. ReturnsMatchScalar'
  BY <1>2 DEF ReturnsMatchScalar
<1> QED
  BY <1>2, <1>3, <1>4, <1>5, <1>6 DEF ChargeInv

LEMMA SameCharged ==
  ASSUME ChargeInv, ReturnsMatchScalar, UNCHANGED vars
  PROVE  ChargeInv' /\ ReturnsMatchScalar'
<1>1. UNCHANGED <<frame, exo, indexed, size, nodes, returns, rounds>>
  BY DEF vars
<1>2. \A s, acts : Alone(s, acts)' = Alone(s, acts)
  BY <1>1, AloneSame
<1>3. \A s, n : CostTo(s, n)' = CostTo(s, n)
  <2>1. \A s, n : CostTo(s, n)' = CostOf(nodes'[s], n)
    BY Zenon DEF CostTo, CostOf, Costs
  <2> QED
    BY <1>1, <2>1, CostToIs
<1>4. \A s, n : (Grown(s, n)' <=> Grown(s, n)) /\ (Paid(s, n)' <=> Paid(s, n))
  BY <1>1, <1>2, <1>3 DEF Grown, Paid
<1>5. ChargeInv'
  BY <1>1, <1>4 DEF ChargeInv
<1>6. \A s, n, value : Matches(s, n, value)' <=> Matches(s, n, value)
  BY <1>1, <1>2, <1>3 DEF Matches, CrashedAbove
<1>7. ReturnsMatchScalar' <=> \A r \in returns' : Matches(r.scenario, r.node, r.value)'
  BY Zenon DEF ReturnsMatchScalar, Matches
<1> QED
  BY <1>1, <1>5, <1>6, <1>7, MatchesIs

(* What expandNodesBatch backs up for an active node, added to the rewards *)
(* stored on the way to it, is what one vehicle alone would be charged if  *)
(* it drove the node's actions and went on with the last of them to the    *)
(* end of the horizon: whatever layer the other lanes of the batch are in, *)
(* whoever of them crashed, and although a crash is charged at once for    *)
(* the rest of the tree step (step_rewards) and of the horizon             *)
(* (rollout_rewards) where the reference charges it time step by time      *)
(* step (ReturnsMatchScalar).                                              *)
THEOREM ReturnsMatchScalarHolds == Spec => []ReturnsMatchScalar
<1> DEFINE IInv == HorizonInv /\ RootInv /\ BranchesIndependent /\ ChargeInv /\ ReturnsMatchScalar
<1>1. Init => IInv
  <2> SUFFICES ASSUME Init PROVE IInv
    OBVIOUS
  <2>1. \A s \in Scenarios : DOMAIN nodes[s] = {0}
    BY DEF Init, OnlyRoot
  <2>2. RootInv /\ BranchesIndependent
    BY <2>1 DEF RootInv, BranchesIndependent
  <2>3. ChargeInv
    BY <2>1 DEF ChargeInv, Closed, Init
  <2>4. ReturnsMatchScalar
    BY DEF Init, ReturnsMatchScalar
  <2> QED
    BY <2>2, <2>3, <2>4, HorizonInit
<1>2. IInv /\ [Next]_vars => IInv'
  <2> SUFFICES ASSUME IInv, [Next]_vars PROVE IInv'
    OBVIOUS
  <2>1. HorizonInv' /\ RootInv' /\ BranchesIndependent'
    BY HorizonStep, RootStep, BranchesStep
  <2>2. ChargeInv' /\ ReturnsMatchScalar'
    BY SampleCharges, ExpandCharges, SameCharged DEF Next
  <2> QED
    BY <2>1, <2>2
<1>3. IInv => ReturnsMatchScalar
  OBVIOUS
<1> QED
  BY <1>1, <1>2, <1>3, PTL DEF Spec
=============================================================================
