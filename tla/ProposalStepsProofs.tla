------------------------ MODULE ProposalStepsProofs ------------------------
(***************************************************************************)
(* What is proved of ProposalSteps: the two trajectories of a proposal are *)
(* the same, a lane moves without jumps, and once it is on its line it     *)
(* stays there.                                                            *)
(***************************************************************************)
EXTENDS ProposalSteps, DataLemmas

LEMMA Sizes ==
  /\ Rows \in Seq([off : Int, look : Int]) /\ Futures \in Nat \ {0}
  /\ Steps \in Nat /\ PathEnd \in Nat /\ HardBrake \in Int /\ EdgeOffset \in Int
  /\ ExactReach \in 0..2 /\ NumLanes \in Nat
<1>1. Len(Rows) \in Nat
  BY ProposalAssumption
<1> QED
  BY <1>1, ProposalAssumption DEF NumLanes

(* The loops over the lanes.                                               *)
LEMMA EachIs ==
  ASSUME NEW f
  PROVE  Each(f) = [k \in Lanes |-> f[k]]
<1> DEFINE e == CHOOSE g : g = [k \in 0..NumLanes |-> IF k = 0 THEN <<>> ELSE Append(g[k - 1], f[k])]
<1>1. Each(f) = e[NumLanes]
  BY DEF Each
<1>2. e[NumLanes] = [k \in 1..NumLanes |-> f[k]]
  BY Sizes, AppendLoop
<1> QED
  BY <1>1, <1>2 DEF Lanes

LEMMA Element ==
  ASSUME NEW V, NEW q \in Seq(V), NEW i \in 1..Len(q)
  PROVE  q[i] \in V
OBVIOUS

LEMMA RowFact ==
  ASSUME NEW k \in Lanes
  PROVE  Row(k).off \in Int
<1> DEFINE n == Len(Rows)
           q == (k - 1) \div Futures
<1>1. n \in Nat /\ Futures \in Nat /\ Futures > 0 /\ k - 1 \in Nat /\ k - 1 < n * Futures
  BY Sizes DEF Lanes, NumLanes
<1>2. q \in Nat /\ q * Futures <= k - 1
  BY <1>1
<1> HIDE DEF n, q
<1>3. q < n
  <2> SUFFICES ASSUME q >= n PROVE FALSE
    BY <1>1, <1>2
  <2>1. PICK d \in Nat : q = n + d
    <3>1. q - n \in Nat /\ q = n + (q - n)
      BY <1>1, <1>2
    <3> QED
      BY <3>1
  <2>2. q * Futures = n * Futures + d * Futures /\ d * Futures >= 0
    BY <1>1, <2>1
  <2>3. n * Futures \in Int /\ q * Futures \in Int /\ d * Futures \in Int
    BY <1>1, <1>2
  <2> QED
    BY <1>1, <1>2, <2>2, <2>3
<1>4. q + 1 \in 1..Len(Rows)
  BY <1>1, <1>2, <1>3, SMT DEF n
<1>5. Rows[q + 1] \in [off : Int, look : Int]
  <2> DEFINE R == [off : Int, look : Int]
  <2>1. Rows \in Seq(R)
    BY Sizes
  <2> HIDE DEF R
  <2>2. Rows[q + 1] \in R
    BY <1>4, <2>1, Element
  <2> QED
    BY <2>2 DEF R
<1> QED
  BY <1>5 DEF Row, q

-----------------------------------------------------------------------------
(* The laws of motion.                                                     *)
LEMMA ClampIs ==
  ASSUME NEW n \in Int, NEW lo \in Int, NEW hi \in Int, lo <= hi
  PROVE  Clamp(n, lo, hi) \in lo..hi
<1>1. Min({n, hi}) = IF n <= hi THEN n ELSE hi
  BY MinOf
<1> DEFINE m == Min({n, hi})
<1>2. m \in Int /\ m <= hi
  BY <1>1
<1> HIDE DEF m
<1>3. Max({lo, m}) = IF lo >= m THEN lo ELSE m
  BY <1>2, MaxOf
<1> QED
  BY <1>2, <1>3 DEF m, Clamp

LaneFields == {"s", "y", "h", "v", "a", "at", "curr", "on", "exact", "moved", "dist"}

(* A lane: numbers, and where it is once it is assumed on its line.        *)
Typed(c) ==
  /\ DOMAIN c = LaneFields
  /\ c.s \in Nat /\ c.y \in Int /\ c.h \in Int /\ c.v \in 0..MaxV /\ c.a \in Int
  /\ c.at \in Nat /\ c.exact \in BOOLEAN

LEMMA SpeedFact ==
  ASSUME NEW c, Typed(c), NEW acc \in Int
  PROVE  LET b == UpdateSpeed(c, acc) IN
         /\ Typed(b) /\ b.exact = c.exact /\ b.at = c.at /\ b.s = c.s /\ b.y = c.y
<1> DEFINE a == Clamp(acc, c.a - 1, c.a + 1)
           v == Clamp(c.v + a, 0, MaxV)
<1>1. a \in Int
  <2>1. c.a - 1 \in Int /\ c.a + 1 \in Int /\ c.a - 1 <= c.a + 1
    BY DEF Typed
  <2>2. a \in (c.a - 1)..(c.a + 1)
    BY <2>1, ClampIs
  <2> QED
    BY <2>1, <2>2
<1> HIDE DEF a
<1>2. v \in 0..MaxV
  <2>1. c.v + a \in Int /\ 0 \in Int /\ MaxV \in Int /\ 0 <= MaxV
    BY <1>1 DEF Typed, MaxV
  <2> QED
    BY <2>1, ClampIs
<1> HIDE DEF v
<1>3. UpdateSpeed(c, acc) = [c EXCEPT !.a = a, !.v = v]
  BY DEF UpdateSpeed, a, v
<1> QED
  BY <1>1, <1>2, <1>3 DEF Typed, LaneFields

(* Along the line: on it, and forward as far as the path goes.             *)
LEMMA CarriedFact ==
  ASSUME NEW c, Typed(c), NEW k \in Lanes, NEW acc \in Int, Line(k) \in Int
  PROVE  LET b == Carried(c, k, acc) IN
         /\ Typed(b) /\ b.exact = c.exact /\ b.s = b.at /\ b.y = Line(k)
         /\ b.at <= 2 * PathEnd
         /\ b.at <= c.at + MaxV
         /\ c.at <= 2 * PathEnd => b.at >= c.at
<1> DEFINE u == UpdateSpeed(c, acc)
           at == Min({c.at + u.v, 2 * PathEnd})
           b == [u EXCEPT !.at = at, !.s = at, !.y = Line(k), !.h = 0]
<1>1. Typed(u) /\ u.exact = c.exact
  BY SpeedFact
<1>2. Carried(c, k, acc) = b
  BY DEF Carried
<1> HIDE DEF u
<1>3. c.at \in Nat /\ u.v \in 0..MaxV /\ 2 * PathEnd \in Nat /\ MaxV \in Nat
  BY <1>1, Sizes DEF Typed, MaxV
<1>4. c.at + u.v \in Int /\ 2 * PathEnd \in Int
  BY <1>3
<1>5. at = IF c.at + u.v <= 2 * PathEnd THEN c.at + u.v ELSE 2 * PathEnd
  BY <1>4, MinOf
<1> HIDE DEF at
<1>6. /\ at \in Nat /\ at <= 2 * PathEnd /\ at <= c.at + MaxV
      /\ c.at <= 2 * PathEnd => at >= c.at
  BY <1>3, <1>5
<1>7. /\ DOMAIN b = LaneFields
      /\ b.at = at /\ b.s = at /\ b.y = Line(k) /\ b.h = 0
      /\ b.exact = u.exact /\ b.v = u.v /\ b.a = u.a
  BY <1>1 DEF Typed, LaneFields
<1> HIDE DEF b
<1>8. Typed(b)
  BY <1>1, <1>6, <1>7 DEF Typed
<1> QED
  BY <1>1, <1>2, <1>6, <1>7, <1>8

LEMMA StanleyFact ==
  ASSUME NEW e \in Int, NEW h \in Int
  PROVE  Stanley(e, h) \in Int
<1>0. -2 \in Int /\ 2 \in Int /\ -2 <= 2 /\ -1 \in Int /\ 1 \in Int /\ -1 <= 1
  OBVIOUS
<1>1. Clamp(e, -2, 2) \in (-2)..2
  BY <1>0, ClampIs
<1> DEFINE d == Clamp(e, -2, 2) - h
<1>2. d \in Int
  BY <1>1
<1> HIDE DEF d
<1>3. Clamp(d, -1, 1) \in (-1)..1
  BY <1>0, <1>2, ClampIs
<1> QED
  BY <1>3 DEF Stanley, d

(* Steered: one unit sideways at most, and no further than the speed.      *)
LEMMA SteeredFact ==
  ASSUME NEW c, Typed(c), NEW acc \in Int, NEW steering \in Int, NEW any \in BOOLEAN
  PROVE  LET b == Steered(c, acc, steering, any) IN
         /\ Typed(b) /\ b.exact = c.exact
         /\ b.s >= c.s /\ b.s <= c.s + MaxV
         /\ b.y - c.y \in (-1)..1
<1> DEFINE a == Clamp(acc, c.a - 1, c.a + 1)
           v == Clamp(c.v + a, 0, MaxV)
           h == IF v = 0 THEN c.h ELSE Clamp(c.h + steering, -2, 2)
           y == IF v = 0 THEN c.y ELSE c.y + Sign(h)
           u == [c EXCEPT !.a = a, !.v = v, !.h = h, !.s = @ + v, !.y = y]
           at == Min({c.at + v, 2 * PathEnd})
<1>1. a \in Int
  <2>1. c.a - 1 \in Int /\ c.a + 1 \in Int /\ c.a - 1 <= c.a + 1
    BY DEF Typed
  <2>2. a \in (c.a - 1)..(c.a + 1)
    BY <2>1, ClampIs
  <2> QED
    BY <2>1, <2>2
<1> HIDE DEF a
<1>2. v \in 0..MaxV
  <2>1. c.v + a \in Int /\ 0 \in Int /\ MaxV \in Int /\ 0 <= MaxV
    BY <1>1 DEF Typed, MaxV
  <2> QED
    BY <2>1, ClampIs
<1> HIDE DEF v
<1>3. h \in Int
  <2>1. c.h + steering \in Int /\ c.h \in Int
    BY DEF Typed
  <2>2. -2 \in Int /\ 2 \in Int /\ -2 <= 2
    OBVIOUS
  <2>3. Clamp(c.h + steering, -2, 2) \in (-2)..2
    BY <2>1, <2>2, ClampIs
  <2> QED
    BY <2>1, <2>3
<1> HIDE DEF h
<1>4. y \in Int /\ y - c.y \in (-1)..1
  BY <1>3 DEF Typed, Sign
<1> HIDE DEF y
<1>5. UpdateState(c, acc, steering) = u
  BY DEF UpdateState, a, v, h, y
<1>6. /\ DOMAIN u = LaneFields /\ u.a = a /\ u.v = v /\ u.h = h /\ u.s = c.s + v /\ u.y = y
      /\ u.at = c.at /\ u.exact = c.exact
  BY DEF Typed, LaneFields
<1> HIDE DEF u
<1>7. at \in Nat
  <2>1. c.at + v \in Nat /\ 2 * PathEnd \in Nat
    BY <1>2, Sizes DEF Typed, MaxV
  <2>2. at = IF c.at + v <= 2 * PathEnd THEN c.at + v ELSE 2 * PathEnd
    BY <2>1, MinOf
  <2> QED
    BY <2>1, <2>2
<1>8. Steered(c, acc, steering, any) = [u EXCEPT !.at = IF any THEN Min({u.at + u.v, 2 * PathEnd}) ELSE u.at]
  BY <1>5, <1>6 DEF Steered, LaneFields
<1>9. Steered(c, acc, steering, any) = [u EXCEPT !.at = IF any THEN at ELSE c.at]
  BY <1>6, <1>8
<1> HIDE DEF at
<1>10. c.at \in Nat /\ c.s \in Nat /\ MaxV \in Nat
  BY DEF Typed, MaxV
<1> DEFINE w == [u EXCEPT !.at = IF any THEN at ELSE c.at]
<1>11. /\ DOMAIN w = LaneFields /\ w.a = a /\ w.v = v /\ w.h = h /\ w.s = c.s + v /\ w.y = y
       /\ w.at \in Nat /\ w.exact = c.exact
  BY <1>6, <1>7, <1>10 DEF LaneFields
<1> HIDE DEF w
<1>12. Typed(w)
  BY <1>1, <1>2, <1>3, <1>4, <1>10, <1>11 DEF Typed, MaxV
<1> QED
  BY <1>2, <1>4, <1>9, <1>10, <1>11, <1>12 DEF w

(* A lane that is assumed on its line is there.                            *)
Good(c, k) ==
  /\ Typed(c)
  /\ c.exact => c.at = c.s /\ c.at <= 2 * PathEnd /\ c.y = Line(k)

(* From one published point to the next.                                   *)
Follows(b, c) == b.s >= c.s /\ b.s <= c.s + MaxV /\ b.y - c.y \in (-1)..1

LEMMA HalvesFact ==
  ASSUME NEW c, Typed(c), NEW k \in Lanes, NEW acc \in Int, NEW to \in Int, NEW any \in BOOLEAN,
         Line(k) \in Int
  PROVE  LET h == Halves(c, k, acc, to, any) IN
         /\ Good(h[1], k) /\ Good(h[2], k)
         /\ h[1].exact = c.exact /\ h[2].exact = c.exact
         /\ Follows(h[2], h[1])
         /\ ~c.exact => Follows(h[1], c)
         /\ c.exact => h[1].s <= c.at + MaxV
         /\ c.exact /\ c.at <= 2 * PathEnd => h[1].s >= c.at
<1> DEFINE steering == Stanley(to - c.y, c.h)
           half(b) == IF c.exact THEN Carried(b, k, acc) ELSE Steered(b, acc, steering, any)
           h == Halves(c, k, acc, to, any)
<1>1. steering \in Int
  <2>1. to - c.y \in Int /\ c.h \in Int
    BY DEF Typed
  <2> QED
    BY <2>1, StanleyFact
<1>2. h[1] = half(c) /\ h[2] = half(half(c))
  BY DEF Halves
<1> HIDE DEF steering, h
<1>3. CASE c.exact
  <2> DEFINE b == Carried(c, k, acc)
             d == Carried(b, k, acc)
  <2>1. h[1] = b /\ h[2] = d
    BY <1>2, <1>3
  <2>2. /\ Typed(b) /\ b.exact = c.exact /\ b.s = b.at /\ b.y = Line(k)
        /\ b.at <= 2 * PathEnd /\ b.at <= c.at + MaxV
        /\ c.at <= 2 * PathEnd => b.at >= c.at
    BY <1>3, CarriedFact
  <2> HIDE DEF b
  <2>3. /\ Typed(d) /\ d.exact = b.exact /\ d.s = d.at /\ d.y = Line(k)
        /\ d.at <= 2 * PathEnd /\ d.at <= b.at + MaxV /\ d.at >= b.at
    BY <2>2, CarriedFact
  <2> HIDE DEF d
  <2>4. Follows(d, b)
    BY <2>2, <2>3 DEF Follows
  <2> QED
    BY <1>3, <2>1, <2>2, <2>3, <2>4 DEF Good, h
<1>4. CASE ~c.exact
  <2> DEFINE b == Steered(c, acc, steering, any)
             d == Steered(b, acc, steering, any)
  <2>1. h[1] = b /\ h[2] = d
    BY <1>2, <1>4
  <2>2. Typed(b) /\ b.exact = c.exact /\ Follows(b, c)
    BY <1>1, SteeredFact DEF Follows
  <2> HIDE DEF b
  <2>3. Typed(d) /\ d.exact = b.exact /\ Follows(d, b)
    BY <1>1, <2>2, SteeredFact DEF Follows
  <2> HIDE DEF d
  <2> QED
    BY <1>4, <2>1, <2>2, <2>3 DEF Good, h
<1> QED
  BY <1>3, <1>4

-----------------------------------------------------------------------------
(* A call in progress, or just returned.                                   *)
Points == [s : Int, y : Int, v : Int]

Busy ==
  /\ {call.init, call.target} \subseteq DOMAIN Base
  /\ DOMAIN lanes = Lanes
  /\ \A k \in Lanes : Good(lanes[k], k)

LEMMA LineFact ==
  ASSUME Busy, NEW k \in Lanes
  PROVE  Line(k) \in Int
<1>1. Base[call.target] \in Int
  BY ProposalAssumption DEF Busy
<1> QED
  BY <1>1, RowFact DEF Line

(* What a step makes of a lane.                                            *)
OneStep(h, k) ==
  /\ Good(h[1], k) /\ Good(h[2], k) /\ h[2].exact = h[1].exact
  /\ Follows(h[2], h[1])
  /\ lanes[k].exact => h[1].exact
  /\ h[1].exact = lanes[k].exact => Follows(h[1], lanes[k])
  /\ h[1].exact # lanes[k].exact =>
       /\ h[1].s <= 2 * Index(lanes[k]) + MaxV
       /\ 2 * Index(lanes[k]) <= 2 * PathEnd => h[1].s >= 2 * Index(lanes[k])

(* How it may come to its line.                                            *)
Joins(k) == \/ lanes[k].y - Line(k) \in (-1)..1
            \/ LaneChange(call) /\ Immediate(call)

LEMMA LawFact ==
  ASSUME NEW lead, NEW v, NEW dist, NEW desired, NEW changing
  PROVE  CurveAndLaneChangeAwareIDM(lead, v, dist, desired, changing) \in Int
BY Sizes DEF CurveAndLaneChangeAwareIDM, IDM, MaxDec, ComfortDec

(* A lane goes on as it was, but for the distance it keeps account of.     *)
LEMMA Noted ==
  ASSUME NEW c, Typed(c), NEW d
  PROVE  LET b == [c EXCEPT !.dist = d] IN
         Typed(b) /\ b.s = c.s /\ b.y = c.y /\ b.at = c.at /\ b.exact = c.exact
BY DEF Typed, LaneFields

LEMMA FollowingStep ==
  ASSUME Busy, NEW k \in Lanes
  PROVE  OneStep(StepLF(lanes[k], k), k) /\ StepLF(lanes[k], k)[1].exact = lanes[k].exact
<1> DEFINE c == lanes[k]
           gap == RedLightLF(c, Nearer(CloseLF(c, k), CutLF(c, k)))
           acc == CurveAndLaneChangeAwareIDM(gap.v, c.v, gap.dist + CompensationLF(c.v, c.dist) - 1,
                                             Limit[call.target], FALSE)
           b == [c EXCEPT !.dist = Sideways(c)]
           h == Halves(b, k, acc, Line(k), TRUE)
<1>1. StepLF(c, k) = h
  BY DEF StepLF
<1>2. acc \in Int
  BY LawFact
<1>3. Good(c, k)
  BY DEF Busy
<1>4. Typed(b) /\ b.s = c.s /\ b.y = c.y /\ b.at = c.at /\ b.exact = c.exact
  BY <1>3, Noted DEF Good
<1>5. Line(k) \in Int
  BY LineFact
<1> HIDE DEF acc, b
<1>6. /\ Good(h[1], k) /\ Good(h[2], k)
      /\ h[1].exact = b.exact /\ h[2].exact = b.exact
      /\ Follows(h[2], h[1])
      /\ ~b.exact => Follows(h[1], b)
      /\ b.exact => h[1].s <= b.at + MaxV
      /\ b.exact /\ b.at <= 2 * PathEnd => h[1].s >= b.at
  BY <1>2, <1>4, <1>5, HalvesFact
<1> HIDE DEF h
<1>7. Follows(h[1], c)
  <2>1. CASE c.exact
    <3>1. c.at = c.s /\ c.at <= 2 * PathEnd /\ c.y = Line(k) /\ h[1].y = Line(k)
      BY <1>3, <1>4, <1>6, <2>1 DEF Good
    <3> QED
      BY <1>4, <1>5, <1>6, <2>1, <3>1 DEF Follows
  <2>2. CASE ~c.exact
    BY <1>4, <1>6, <2>2 DEF Follows
  <2> QED
    BY <2>1, <2>2
<1> QED
  BY <1>1, <1>4, <1>6, <1>7 DEF OneStep

LEMMA LatchedFact ==
  ASSUME NEW c, Typed(c), NEW line
  PROVE  LET b == [c EXCEPT !.exact = TRUE, !.dist = line, !.at = 2 * Index(c)] IN
         Typed(b) /\ b.s = c.s /\ b.y = c.y /\ b.exact /\ b.at = 2 * Index(c)
<1> DEFINE b == [c EXCEPT !.exact = TRUE, !.dist = line, !.at = 2 * Index(c)]
<1>1. 2 * Index(c) \in Nat
  BY DEF Typed, Index
<1>2. /\ DOMAIN b = LaneFields /\ b.s = c.s /\ b.y = c.y /\ b.h = c.h /\ b.v = c.v /\ b.a = c.a
      /\ b.at = 2 * Index(c) /\ b.exact = TRUE
  BY DEF Typed, LaneFields
<1> HIDE DEF b
<1> QED
  BY <1>1, <1>2 DEF Typed

(* A lane that measures the path is as far from its line as that says.     *)
LEMMA MeasuredFact ==
  ASSUME Busy, NEW k \in Lanes, ~lanes[k].exact, ToLine(lanes[k], k).line < ExactReach
  PROVE  lanes[k].y - Line(k) \in (-1)..1
<1> DEFINE c == lanes[k]
           b == Base[call.target]
           off == Row(k).off
           l == TargetDistance(c) * (IF c.y < b THEN -1 ELSE 1)
<1>1. c.y \in Int /\ b \in Int /\ off \in Int /\ ExactReach \in 0..2
  BY ProposalAssumption, RowFact DEF Busy, Good, Typed
<1>2. l = c.y - b
  <2>1. TargetDistance(c) = Abs(c.y - b)
    BY DEF TargetDistance
  <2> QED
    BY <1>1, <2>1 DEF Abs
<1>3. Abs(l - off) < ExactReach
  BY DEF ToLine
<1>4. Line(k) = b + off
  BY DEF Line
<1> HIDE DEF l, b, off
<1> QED
  BY <1>1, <1>2, <1>3, <1>4 DEF Abs

LEMMA LookedFact ==
  ASSUME Busy, LaneChange(call), NEW k \in Lanes
  PROVE  LET b == Looked(k).lane
             c == lanes[k]
         IN /\ Typed(b) /\ b.s = c.s /\ b.y = c.y
            /\ c.exact => b.exact /\ b.at = c.at
            /\ ~c.exact /\ b.exact => b.at = 2 * Index(c) /\ Joins(k)
<1> DEFINE c == lanes[k]
           d == ToLine(c, k)
           u == Latched(c, d.line < ExactReach, d.line)
           w == Located(k)
<1>1. Typed(c)
  BY DEF Busy, Good
<1>2. /\ Typed(u) /\ u.s = c.s /\ u.y = c.y
      /\ c.exact => u.exact /\ u.at = c.at
      /\ ~c.exact /\ u.exact => d.line < ExactReach /\ u.at = 2 * Index(c)
  <2>1. CASE d.line < ExactReach /\ ~c.exact
    <3> DEFINE v == [c EXCEPT !.exact = TRUE, !.dist = d.line, !.at = 2 * Index(c)]
    <3>1. u = v
      BY <2>1 DEF Latched
    <3>2. Typed(v) /\ v.s = c.s /\ v.y = c.y /\ v.exact /\ v.at = 2 * Index(c)
      BY <1>1, LatchedFact
    <3> HIDE DEF u, v
    <3> QED
      BY <2>1, <3>1, <3>2
  <2>2. CASE ~(d.line < ExactReach /\ ~c.exact)
    <3>1. u = c
      BY <2>2 DEF Latched
    <3> QED
      BY <1>1, <2>2, <3>1
  <2> QED
    BY <2>1, <2>2
<1>3. PICK curr, on, moved : w = [u EXCEPT !.curr = curr, !.on = on, !.moved = moved]
  BY DEF Located
<1> HIDE DEF u, w
<1>4. /\ DOMAIN w = LaneFields /\ w.s = u.s /\ w.y = u.y /\ w.h = u.h /\ w.v = u.v /\ w.a = u.a
      /\ w.at = u.at /\ w.exact = u.exact
  BY <1>2, <1>3 DEF Typed, LaneFields
<1>5. Typed(w)
  BY <1>2, <1>4 DEF Typed
<1>6. ~c.exact /\ u.exact => Joins(k)
  BY <1>2, MeasuredFact DEF Joins
<1> DEFINE b == Looked(k).lane
<1>7. PICK line : \/ b = w
                  \/ /\ Immediate(call) /\ ~w.exact
                     /\ b = [w EXCEPT !.exact = TRUE, !.dist = line, !.at = 2 * Index(w)]
  BY DEF Looked, Latched, w
<1> HIDE DEF b
<1>8. /\ Typed(b) /\ b.s = w.s /\ b.y = w.y
      /\ w.exact => b.exact /\ b.at = w.at
      /\ ~w.exact /\ b.exact => Immediate(call) /\ b.at = 2 * Index(w)
  <2>1. CASE b = w
    BY <1>5, <2>1
  <2>2. CASE b # w
    <3> DEFINE v == [w EXCEPT !.exact = TRUE, !.dist = line, !.at = 2 * Index(w)]
    <3>1. b = v /\ Immediate(call) /\ ~w.exact
      BY <1>7, <2>2
    <3>2. Typed(v) /\ v.s = w.s /\ v.y = w.y /\ v.exact /\ v.at = 2 * Index(w)
      BY <1>5, LatchedFact
    <3> HIDE DEF v
    <3> QED
      BY <3>1, <3>2
  <2> QED
    BY <2>1, <2>2
<1>9. Index(w) = Index(c)
  BY <1>2, <1>4 DEF Index
<1>10. ~w.exact /\ b.exact => Joins(k)
  BY <1>8 DEF Joins
<1> QED
  BY <1>2, <1>4, <1>6, <1>7, <1>8, <1>9, <1>10 DEF b

LEMMA ChangingStep ==
  ASSUME Busy, LaneChange(call), NEW k \in Lanes, NEW more, NEW any \in BOOLEAN
  PROVE  LET h == StepLC(Looked(k), k, more, any) IN
         /\ OneStep(h, k)
         /\ h[1].exact = Looked(k).lane.exact
         /\ h[1].exact # lanes[k].exact => Joins(k)
<1> DEFINE seen == Looked(k)
           c == lanes[k]
           b == seen.lane
           gap == GapLC(seen, more)
           acc == CurveAndLaneChangeAwareIDM(gap.v, b.v, gap.dist - 1, Limit[PathOf(b)],
                                             seen.go \/ (seen.trying /\ seen.lead))
           to == IF seen.trying THEN Base[call.init] + Shift ELSE Line(k)
           u == IF any /\ b.exact THEN [b EXCEPT !.dist = Sideways(b)] ELSE b
           h == Halves(u, k, acc, to, any)
<1>1. StepLC(seen, k, more, any) = h
  BY DEF StepLC
<1>2. acc \in Int
  BY LawFact
<1>3. Good(c, k)
  BY DEF Busy
<1>4. /\ Typed(b) /\ b.s = c.s /\ b.y = c.y
      /\ c.exact => b.exact /\ b.at = c.at
      /\ ~c.exact /\ b.exact => b.at = 2 * Index(c) /\ Joins(k)
  BY LookedFact
<1>5. Line(k) \in Int
  BY LineFact
<1>6. to \in Int
  <2>1. Base[call.init] \in Int
    BY ProposalAssumption DEF Busy
  <2>2. Shift \in Int
    BY Sizes DEF Shift, Side
  <2> QED
    BY <1>5, <2>1, <2>2
<1> HIDE DEF acc, b, to
<1>7. Typed(u) /\ u.s = b.s /\ u.y = b.y /\ u.at = b.at /\ u.exact = b.exact
  <2> DEFINE v == [b EXCEPT !.dist = Sideways(b)]
  <2>1. Typed(v) /\ v.s = b.s /\ v.y = b.y /\ v.at = b.at /\ v.exact = b.exact
    BY <1>4, Noted
  <2>2. u = v \/ u = b
    BY DEF u
  <2> HIDE DEF u, v
  <2> QED
    BY <1>4, <2>1, <2>2
<1> HIDE DEF u
<1>8. /\ Good(h[1], k) /\ Good(h[2], k)
      /\ h[1].exact = u.exact /\ h[2].exact = u.exact
      /\ Follows(h[2], h[1])
      /\ ~u.exact => Follows(h[1], u)
      /\ u.exact => h[1].s <= u.at + MaxV
      /\ u.exact /\ u.at <= 2 * PathEnd => h[1].s >= u.at
  BY <1>2, <1>5, <1>6, <1>7, HalvesFact
<1> HIDE DEF h
<1>9. h[1].exact = c.exact => Follows(h[1], c)
  <2>1. CASE c.exact
    <3>1. c.at = c.s /\ c.at <= 2 * PathEnd /\ c.y = Line(k) /\ h[1].y = Line(k)
      BY <1>3, <1>4, <1>7, <1>8, <2>1 DEF Good
    <3> QED
      BY <1>4, <1>5, <1>7, <1>8, <2>1, <3>1 DEF Follows
  <2>2. CASE ~c.exact
    BY <1>4, <1>7, <1>8, <2>2 DEF Follows
  <2> QED
    BY <2>1, <2>2
<1>10. b.exact \in BOOLEAN /\ c.exact \in BOOLEAN
  BY <1>3, <1>4 DEF Good, Typed
<1>11. OneStep(h, k)
  BY <1>4, <1>7, <1>8, <1>9, <1>10 DEF OneStep
<1>12. h[1].exact = b.exact /\ (h[1].exact # c.exact => Joins(k))
  BY <1>4, <1>7, <1>8, <1>10
<1> QED
  BY <1>1, <1>11, <1>12 DEF b

-----------------------------------------------------------------------------
(* The trajectories.                                                       *)

(* A proposal and what is published of it.                                 *)
Paired(stored, full) ==
  /\ stored \in Seq(Points) /\ full \in Seq(Points)
  /\ Len(stored) >= 1 /\ Len(full) = 2 * Len(stored) - 1
  /\ \A i \in 1..Len(stored) : full[2 * i - 1] = stored[i]

(* A call in progress, or just returned: every lane has its points, and    *)
(* the last of them is where it is.                                        *)
InCall ==
  /\ Busy
  /\ DOMAIN proposal = Lanes /\ DOMAIN published = Lanes
  /\ \A k \in Lanes :
       /\ Paired(proposal[k], published[k]) /\ Len(proposal[k]) = t + 1
       /\ published[k][Len(published[k])] = Point(lanes[k])

IndInv ==
  /\ t \in 0..Steps
  /\ \/ InCall
     \/ t = Steps /\ lanes = <<>> /\ proposal = <<>> /\ published = <<>>

LEMMA PointFact ==
  ASSUME NEW c, Typed(c)
  PROVE  Point(c) \in Points /\ Point(c).s = c.s /\ Point(c).y = c.y
BY DEF Typed, Point, Points

LEMMA AnchorFact ==
  ASSUME Busy, NEW k \in Lanes
  PROVE  LET q == Point(Anchor(k)) IN
         q \in Points /\ q.s = 2 * Index(lanes[k]) /\ q.y = Line(k)
<1> DEFINE c == lanes[k]
           b == [c EXCEPT !.s = 2 * Index(c), !.y = Line(k)]
<1>1. Typed(c)
  BY DEF Busy, Good
<1>2. Line(k) \in Int /\ 2 * Index(c) \in Int
  BY <1>1, LineFact DEF Typed, Index
<1>3. b.s = 2 * Index(c) /\ b.y = Line(k) /\ b.v = c.v
  BY <1>1 DEF Typed, LaneFields
<1>4. Anchor(k) = b
  BY DEF Anchor
<1> HIDE DEF b
<1>5. c.v \in Int
  BY <1>1 DEF Typed, MaxV
<1> QED
  BY <1>2, <1>3, <1>4, <1>5 DEF Point, Points

LEMMA PairStart ==
  ASSUME NEW p \in Points
  PROVE  Paired(<<p>>, <<p>>)
<1> DEFINE q == <<p>>
<1>1. q \in Seq(Points) /\ Len(q) = 1 /\ q[1] = p
  OBVIOUS
<1> HIDE DEF q
<1>2. \A i \in 1..Len(q) : q[2 * i - 1] = q[i]
  <2> TAKE i \in 1..Len(q)
  <2>1. i = 1 /\ 2 * i - 1 = 1
    BY <1>1
  <2> QED
    BY <2>1
<1>3. Paired(q, q)
  BY <1>1, <1>2 DEF Paired
<1> QED
  BY <1>3 DEF q

More(stored, q) == Append(stored, q)
Both(full, p, q) == Append(Append(full, p), q)

LEMMA PairNext ==
  ASSUME NEW stored, NEW full, Paired(stored, full), NEW p \in Points, NEW q \in Points
  PROVE  LET longer == Both(full, p, q) IN
         /\ Paired(More(stored, q), longer)
         /\ Len(More(stored, q)) = Len(stored) + 1
         /\ Len(longer) = Len(full) + 2
         /\ longer[Len(full) + 1] = p /\ longer[Len(full) + 2] = q
         /\ \A i \in 1..Len(full) : longer[i] = full[i]
<1> DEFINE more == Append(stored, q)
           mid == Append(full, p)
           longer == Append(mid, q)
           m == Len(stored)
           n == Len(full)
<1>1. /\ stored \in Seq(Points) /\ full \in Seq(Points)
      /\ m \in Nat /\ n \in Nat /\ m >= 1 /\ n = 2 * m - 1
      /\ \A i \in 1..m : full[2 * i - 1] = stored[i]
  BY DEF Paired
<1>2. /\ more \in Seq(Points) /\ Len(more) = m + 1 /\ more[m + 1] = q
      /\ \A i \in 1..m : more[i] = stored[i]
  BY <1>1
<1>3. /\ mid \in Seq(Points) /\ Len(mid) = n + 1 /\ mid[n + 1] = p
      /\ \A i \in 1..n : mid[i] = full[i]
  BY <1>1
<1> HIDE DEF more, mid
<1>4. /\ longer \in Seq(Points) /\ Len(longer) = n + 2 /\ longer[n + 2] = q
      /\ \A i \in 1..(n + 1) : longer[i] = mid[i]
  BY <1>1, <1>3
<1> HIDE DEF longer, m, n
<1>5. longer[n + 1] = p /\ \A i \in 1..n : longer[i] = full[i]
  BY <1>1, <1>3, <1>4
<1>6. \A i \in 1..Len(more) : longer[2 * i - 1] = more[i]
  <2> TAKE i \in 1..Len(more)
  <2>1. CASE i <= m
    <3>1. i \in 1..m /\ 2 * i - 1 \in 1..n
      BY <1>1, <1>2, <2>1
    <3> QED
      BY <1>1, <1>2, <1>5, <3>1
  <2>2. CASE i > m
    <3>1. i = m + 1 /\ 2 * i - 1 = n + 2
      BY <1>1, <1>2, <2>2
    <3> QED
      BY <1>2, <1>4, <3>1
  <2> QED
    BY <1>1, <1>2, <2>1, <2>2
<1>7. Paired(more, longer)
  BY <1>1, <1>2, <1>4, <1>6 DEF Paired
<1> QED
  BY <1>2, <1>4, <1>5, <1>7 DEF longer, more, mid, m, n, More, Both

(* What Publish makes of the trajectories of one lane.                     *)
First(anchored, k) == IF k \in anchored THEN <<Point(Anchor(k))>> ELSE published[k]

LEMMA FirstFact ==
  ASSUME InCall, NEW anchored, NEW k \in Lanes, k \in anchored => t = 0
  PROVE  /\ Paired(IF k \in anchored THEN <<Point(Anchor(k))>> ELSE proposal[k], First(anchored, k))
         /\ Len(IF k \in anchored THEN <<Point(Anchor(k))>> ELSE proposal[k]) = t + 1
<1>1. CASE k \in anchored
  <2>1. Point(Anchor(k)) \in Points
    BY AnchorFact DEF InCall
  <2>2. Paired(<<Point(Anchor(k))>>, <<Point(Anchor(k))>>)
    BY <2>1, PairStart
  <2> QED
    BY <1>1, <2>2 DEF First
<1>2. CASE k \notin anchored
  BY <1>2 DEF First, InCall
<1> QED
  BY <1>1, <1>2

LEMMA Published ==
  ASSUME IndInv, t < Steps, UNCHANGED call, NEW halves, NEW anchored, Publish(halves, anchored),
         \A k \in Lanes : OneStep(halves[k], k), anchored # {} => t = 0
  PROVE  /\ IndInv'
         /\ \A k \in Lanes :
              /\ lanes'[k] = halves[k][2]
              /\ published'[k] = Append(Append(First(anchored, k), Point(halves[k][1])), Point(halves[k][2]))
<1>1. InCall
  BY DEF IndInv
<1>2. t' = t + 1 /\ t' \in 0..Steps
  BY Sizes DEF IndInv, Publish
<1>3. /\ DOMAIN lanes' = Lanes /\ DOMAIN proposal' = Lanes /\ DOMAIN published' = Lanes
      /\ \A k \in Lanes :
           /\ lanes'[k] = halves[k][2]
           /\ published'[k] = Append(Append(First(anchored, k), Point(halves[k][1])), Point(halves[k][2]))
           /\ proposal'[k] = Append(IF k \in anchored THEN <<Point(Anchor(k))>> ELSE proposal[k],
                                    Point(halves[k][2]))
  BY DEF Publish, First
<1>4. ASSUME NEW k \in Lanes
      PROVE  /\ Good(lanes'[k], k)
             /\ Paired(proposal'[k], published'[k]) /\ Len(proposal'[k]) = t' + 1
             /\ published'[k][Len(published'[k])] = Point(lanes'[k])
  <2> DEFINE stored == IF k \in anchored THEN <<Point(Anchor(k))>> ELSE proposal[k]
             full == First(anchored, k)
             b == Point(halves[k][1])
             c == Point(halves[k][2])
  <2>1. Paired(stored, full) /\ Len(stored) = t + 1
    BY <1>1, FirstFact
  <2>2. Good(halves[k][1], k) /\ Good(halves[k][2], k)
    BY DEF OneStep
  <2>3. b \in Points /\ c \in Points
    BY <2>2, PointFact DEF Good
  <2>4. /\ lanes'[k] = halves[k][2]
        /\ published'[k] = Append(Append(full, b), c)
        /\ proposal'[k] = Append(stored, c)
    BY <1>3
  <2>5. c = Point(lanes'[k])
    BY <2>4
  <2> HIDE DEF stored, full, b, c
  <2> DEFINE longer == Both(full, b, c)
             more == More(stored, c)
  <2>6. /\ Paired(more, longer)
        /\ Len(more) = Len(stored) + 1
        /\ Len(longer) = Len(full) + 2
        /\ longer[Len(full) + 1] = b /\ longer[Len(full) + 2] = c
        /\ \A i \in 1..Len(full) : longer[i] = full[i]
    BY <2>1, <2>3, PairNext
  <2>7. published'[k] = longer /\ proposal'[k] = more
    BY <2>4 DEF More, Both
  <2> HIDE DEF longer, more
  <2> QED
    BY <1>2, <2>1, <2>2, <2>4, <2>5, <2>6, <2>7
<1>5. Busy'
  <2>1. \A k \in Lanes : Line(k)' = Line(k)
    BY DEF Line, Row
  <2>2. {call.init, call.target} \subseteq DOMAIN Base
    BY <1>1 DEF InCall, Busy
  <2> QED
    BY <1>3, <1>4, <2>1, <2>2 DEF Busy, Good, Lanes, NumLanes
<1>6. InCall'
  BY <1>3, <1>4, <1>5 DEF InCall, Point, Lanes, NumLanes
<1> QED
  BY <1>2, <1>3, <1>6 DEF IndInv

LEMMA FollowingFact ==
  ASSUME IndInv, LaneFollowing
  PROVE  /\ t < Steps /\ UNCHANGED call
         /\ \E halves : /\ Publish(halves, {})
                        /\ \A k \in Lanes : OneStep(halves[k], k) /\ halves[k][1].exact = lanes[k].exact
<1>1. PICK halves \in {Each([k \in Lanes |-> StepLF(lanes[k], k)])} : Publish(halves, {})
  BY DEF LaneFollowing
<1>2. t < Steps /\ UNCHANGED call
  BY DEF LaneFollowing
<1>3. Busy
  BY <1>2, Sizes DEF IndInv, InCall
<1>4. \A k \in Lanes : halves[k] = StepLF(lanes[k], k)
  BY <1>1, EachIs
<1>5. \A k \in Lanes : OneStep(halves[k], k) /\ halves[k][1].exact = lanes[k].exact
  BY <1>3, <1>4, FollowingStep
<1> QED
  BY <1>1, <1>2, <1>5

LEMMA ChangingFact ==
  ASSUME IndInv, LaneChanging
  PROVE  /\ t < Steps /\ UNCHANGED call
         /\ \E halves, anchored :
              /\ Publish(halves, anchored) /\ (anchored # {} => t = 0)
              /\ anchored \subseteq {k \in Lanes : halves[k][1].exact}
              /\ \A k \in Lanes :
                   /\ OneStep(halves[k], k)
                   /\ halves[k][1].exact # lanes[k].exact => Joins(k)
<1>1. PICK seen \in {Each([k \in Lanes |-> Looked(k)])} :
        LET any == \E k \in Lanes : seen[k].lane.exact
        IN \E more \in {IF any THEN Each([k \in Lanes |-> Compensation(seen[k].lane.v, seen[k].lane.dist)])
                        ELSE comp} :
             /\ comp' = more
             /\ \E halves \in {Each([k \in Lanes |-> StepLC(seen[k], k, more[k], any)])} :
                  Publish(halves, {k \in Lanes : t = 0 /\ seen[k].lane.exact})
  BY DEF LaneChanging
<1>2. t < Steps /\ LaneChange(call) /\ UNCHANGED call
  BY DEF LaneChanging
<1>3. Busy
  BY <1>2, Sizes DEF IndInv, InCall
<1>4. \A k \in Lanes : seen[k] = Looked(k)
  BY <1>1, EachIs
<1> DEFINE any == \E k \in Lanes : seen[k].lane.exact
           anchored == {k \in Lanes : t = 0 /\ seen[k].lane.exact}
<1>5. any \in BOOLEAN
  OBVIOUS
<1>6. PICK more, halves :
        /\ halves \in {Each([k \in Lanes |-> StepLC(seen[k], k, more[k], any)])}
        /\ Publish(halves, anchored)
  BY <1>1
<1> HIDE DEF any
<1>7. \A k \in Lanes : halves[k] = StepLC(seen[k], k, more[k], any)
  BY <1>6, EachIs
<1>8. ASSUME NEW k \in Lanes
      PROVE  /\ OneStep(halves[k], k)
             /\ halves[k][1].exact = seen[k].lane.exact
             /\ halves[k][1].exact # lanes[k].exact => Joins(k)
  <2>1. halves[k] = StepLC(Looked(k), k, more[k], any)
    BY <1>4, <1>7
  <2>2. /\ OneStep(halves[k], k)
        /\ halves[k][1].exact = Looked(k).lane.exact
        /\ halves[k][1].exact # lanes[k].exact => Joins(k)
    BY <1>2, <1>3, <1>5, <2>1, ChangingStep
  <2> QED
    BY <1>4, <2>2
<1>9. anchored # {} => t = 0
  OBVIOUS
<1>10. anchored \subseteq {k \in Lanes : halves[k][1].exact}
  BY <1>8
<1> QED
  BY <1>2, <1>6, <1>8, <1>9, <1>10

(* The start of a call.                                                    *)
LEMMA CalledFact ==
  ASSUME generateProposalTrajectory
  PROVE  /\ t = Steps /\ IndInv' /\ InCall' /\ t' = 0
         /\ \A k \in Lanes : /\ published'[k] = <<Point(lanes'[k])>>
                             /\ \E r \in Calls : lanes'[k].s = r.ego.s
<1>1. PICK asked \in Calls :
        LET lf == FollowsLane(asked)
            path == FollowedPath(asked)
            r == IF lf THEN [asked EXCEPT !.init = path, !.target = path] ELSE asked
            start == [k \in Lanes |-> IF lf THEN StartLF(r, k) ELSE StartLC(r)]
        IN /\ call' = r
           /\ lanes' = start
           /\ proposal' = [k \in Lanes |-> <<Point(start[k])>>]
           /\ published' = [k \in Lanes |-> <<Point(start[k])>>]
  BY DEF generateProposalTrajectory
<1> DEFINE lf == FollowsLane(asked)
           path == FollowedPath(asked)
           r == IF lf THEN [asked EXCEPT !.init = path, !.target = path] ELSE asked
<1>2. t = Steps /\ t' = 0
  BY DEF generateProposalTrajectory
<1>3. /\ {"init", "target", "ego"} \subseteq DOMAIN asked
      /\ {asked.init, asked.target} \subseteq DOMAIN Base
      /\ asked.ego \in [s : 0..(2 * PathEnd), y : Int, h : Int, v : 0..MaxV, a : Int]
  BY ProposalAssumption
<1>4. path \in {asked.init, asked.target}
  BY DEF FollowedPath
<1>5. {r.init, r.target} \subseteq DOMAIN Base /\ r.ego = asked.ego
  <2> HIDE DEF lf, path
  <2> QED
    BY <1>3, <1>4
<1> DEFINE start == [k \in Lanes |-> IF lf THEN StartLF(r, k) ELSE StartLC(r)]
<1>6. /\ call' = r /\ lanes' = start
      /\ proposal' = [k \in Lanes |-> <<Point(start[k])>>]
      /\ published' = [k \in Lanes |-> <<Point(start[k])>>]
  BY <1>1
<1> HIDE DEF r, lf, path
<1>7. Base[r.target] \in Int
  BY <1>5, ProposalAssumption
<1>8. ASSUME NEW k \in Lanes
      PROVE  /\ Typed(start[k]) /\ start[k].s = asked.ego.s
             /\ start[k].exact => /\ start[k].at = start[k].s /\ start[k].at <= 2 * PathEnd
                                  /\ start[k].y = Base[r.target] + Row(k).off
  <2> DEFINE e == asked.ego
  <2>1. /\ e.s \in Nat /\ e.s <= 2 * PathEnd /\ e.y \in Int /\ e.h \in Int
        /\ e.v \in 0..MaxV /\ e.a \in Int /\ r.ego = e
    BY <1>3, <1>5, Sizes
  <2>2. CASE lf
    <3> DEFINE y == Base[r.target] + Row(k).off
               c == [s |-> e.s, y |-> y, h |-> 0, v |-> e.v, a |-> e.a, at |-> e.s,
                     curr |-> 1, on |-> TRUE, exact |-> TRUE, moved |-> TRUE,
                     dist |-> Abs(e.y - y)]
    <3>1. start[k] = c
      BY <2>1, <2>2 DEF StartLF, Row
    <3>2. y \in Int
      BY <1>7, RowFact
    <3> HIDE DEF y, e
    <3>3. Typed(c)
      BY <2>1, <3>2 DEF Typed, LaneFields
    <3>4. c.s = e.s /\ c.at = e.s /\ c.y = y
      OBVIOUS
    <3> HIDE DEF c, start
    <3> QED
      BY <2>1, <3>1, <3>3, <3>4 DEF e, y
  <2>3. CASE ~lf
    <3> DEFINE c == [s |-> e.s, y |-> e.y, h |-> e.h, v |-> e.v, a |-> e.a,
                     at |-> 2 * (e.s \div 2), curr |-> 0, on |-> FALSE, exact |-> FALSE,
                     moved |-> FALSE, dist |-> 0]
    <3>1. start[k] = c
      BY <2>1, <2>3 DEF StartLC
    <3> HIDE DEF e
    <3>2. 2 * (e.s \div 2) \in Nat
      BY <2>1
    <3>3. Typed(c)
      BY <2>1, <3>2 DEF Typed, LaneFields
    <3>4. c.s = e.s /\ ~c.exact
      OBVIOUS
    <3> HIDE DEF c, start
    <3> QED
      BY <3>1, <3>3, <3>4 DEF e
  <2> QED
    BY <2>2, <2>3
<1>9. DOMAIN start = Lanes
  OBVIOUS
<1> HIDE DEF start
<1>10. \A k \in Lanes : Line(k)' = Base[r.target] + Row(k).off
  BY <1>6 DEF Line, Row
<1>11. Busy'
  BY <1>5, <1>6, <1>8, <1>9, <1>10 DEF Busy, Good, Lanes, NumLanes
<1>12. \A k \in Lanes : Point(start[k]) \in Points
  BY <1>8, PointFact
<1>13. ASSUME NEW k \in Lanes
       PROVE  /\ Paired(proposal'[k], published'[k]) /\ Len(proposal'[k]) = t' + 1
              /\ published'[k] = <<Point(lanes'[k])>>
              /\ published'[k][Len(published'[k])] = Point(lanes'[k])
  <2> DEFINE p == Point(start[k])
  <2>1. p \in Points /\ p = Point(lanes'[k])
    BY <1>6, <1>12
  <2>2. proposal'[k] = <<p>> /\ published'[k] = <<p>>
    BY <1>6
  <2> HIDE DEF p
  <2>3. Paired(<<p>>, <<p>>)
    BY <2>1, PairStart
  <2> QED
    BY <1>2, <2>1, <2>2, <2>3
<1>14. DOMAIN proposal' = Lanes /\ DOMAIN published' = Lanes
  BY <1>6
<1>15. InCall'
  BY <1>11, <1>13, <1>14 DEF InCall, Point, Lanes, NumLanes
<1>16. IndInv'
  BY <1>2, <1>15, Sizes DEF IndInv
<1>17. \A k \in Lanes : \E r1 \in Calls : lanes'[k].s = r1.ego.s
  BY <1>6, <1>8
<1> QED
  BY <1>2, <1>13, <1>15, <1>16, <1>17

-----------------------------------------------------------------------------
(* Every call leaves every lane with a proposal and a published trajectory *)
(* that belong together, of the points of its steps so far, and the lane   *)
(* where the last of them is; and a lane assumed on its line is on it.     *)
THEOREM Inductive == Spec => []IndInv
<1>1. Init => IndInv
  BY Sizes DEF Init, IndInv
<1>2. IndInv /\ [Next]_vars => IndInv'
  <2> SUFFICES ASSUME IndInv, [Next]_vars PROVE IndInv'
    OBVIOUS
  <2>1. CASE generateProposalTrajectory
    BY <2>1, CalledFact
  <2>2. CASE LaneFollowing
    <3>1. {} # {} => t = 0
      OBVIOUS
    <3> QED
      BY <2>2, <3>1, FollowingFact, Published
  <2>3. CASE LaneChanging
    BY <2>3, ChangingFact, Published
  <2>4. CASE UNCHANGED vars
    <3>1. UNCHANGED <<call, t, lanes, proposal, published>>
      BY <2>4 DEF vars
    <3>2. Busy' = Busy
      BY <3>1 DEF Busy, Good, Line, Row
    <3>3. InCall' = InCall
      BY <3>1, <3>2 DEF InCall
    <3> QED
      BY <3>1, <3>3 DEF IndInv
  <2> QED
    BY <2>1, <2>2, <2>3, <2>4 DEF Next
<1> QED
  BY <1>1, <1>2, PTL DEF Spec

(* The published trajectory has the points of the proposal at every other  *)
(* place, whatever a call does with its first points.                      *)
THEOREM PublishedAgreeHolds == Spec => []PublishedAgree
<1>1. IndInv => PublishedAgree
  BY DEF IndInv, InCall, Paired, PublishedAgree
<1> QED
  BY <1>1, Inductive, PTL

(* A lane that is assumed on its line stays there to the end of the call   *)
(* and does not go back along it.                                          *)
THEOREM OnLineForGoodHolds == Spec => OnLineForGood
<1> DEFINE Stays(k) ==
      t < Steps /\ lanes[k].exact =>
        lanes'[k].exact /\ lanes'[k].y = Line(k) /\ lanes'[k].s >= lanes[k].s
           A == \A k \in DOMAIN lanes : Stays(k)
<1>1. IndInv /\ [Next]_vars => [A]_vars
  <2> SUFFICES ASSUME IndInv, Next, NEW k \in DOMAIN lanes, t < Steps, lanes[k].exact
               PROVE  lanes'[k].exact /\ lanes'[k].y = Line(k) /\ lanes'[k].s >= lanes[k].s
    OBVIOUS
  <2>1. ~generateProposalTrajectory
    <3>1. generateProposalTrajectory => t = Steps
      BY CalledFact
    <3> QED
      BY <3>1, Sizes
  <2>2. InCall /\ k \in Lanes
    BY Sizes DEF IndInv, InCall, Busy
  <2>3. PICK halves, anchored :
          /\ UNCHANGED call /\ Publish(halves, anchored) /\ (anchored # {} => t = 0)
          /\ \A j \in Lanes : OneStep(halves[j], j)
    <3>1. CASE LaneFollowing
      <4>1. {} # {} => t = 0
        OBVIOUS
      <4> QED
        BY <3>1, <4>1, FollowingFact
    <3>2. CASE LaneChanging
      BY <3>2, ChangingFact
    <3> QED
      BY <2>1, <3>1, <3>2 DEF Next
  <2>4. lanes'[k] = halves[k][2]
    BY <2>2, <2>3 DEF Publish
  <2>5. OneStep(halves[k], k)
    BY <2>2, <2>3
  <2> DEFINE h1 == halves[k][1]
             h2 == halves[k][2]
  <2>6. /\ Good(h1, k) /\ Good(h2, k) /\ h1.exact /\ h2.exact = h1.exact
        /\ h2.s >= h1.s /\ (h1.exact = lanes[k].exact => h1.s >= lanes[k].s)
    BY <2>5 DEF OneStep, Follows
  <2>7. Good(lanes[k], k)
    BY <2>2 DEF InCall, Busy
  <2> HIDE DEF h1, h2
  <2>8. h1.exact = lanes[k].exact
    BY <2>6, <2>7 DEF Good, Typed
  <2>9. h1.s \in Int /\ h2.s \in Int /\ lanes[k].s \in Int
    BY <2>6, <2>7 DEF Good, Typed
  <2>10. h2.exact /\ h2.y = Line(k) /\ h2.s >= lanes[k].s
    BY <2>6, <2>8, <2>9 DEF Good
  <2> QED
    BY <2>4, <2>10 DEF h2
<1> QED
  BY <1>1, Inductive, PTL DEF Spec, OnLineForGood

-----------------------------------------------------------------------------
(* No sudden jump.  A lane that is not yet assumed on its line may only be *)
(* taken there at the index it has reached, so the path must be long       *)
(* enough for what the lane can still travel.                              *)
Smooth(p, q, k) ==
  /\ q.s - p.s \in (-1)..(MaxV + 1)
  /\ Beside(p, q) \/ (LaneChange(call) /\ Immediate(call) /\ q.y = Line(k))

Reaches(k) == lanes[k].exact \/ lanes[k].s + 2 * MaxV * (Steps - t) <= 2 * PathEnd

JumpInv ==
  \A k \in DOMAIN published :
    /\ \A i \in 1..(Len(published[k]) - 1) : Smooth(published[k][i], published[k][i + 1], k)
    /\ Reaches(k)

PathsReach == \A r \in Calls : r.ego.s + 2 * MaxV * Steps <= 2 * PathEnd

LEMMA IndexFact ==
  ASSUME NEW c, c.s \in Nat
  PROVE  2 * Index(c) \in Nat /\ 2 * Index(c) <= c.s /\ c.s <= 2 * Index(c) + 1
BY DEF Index

(* From the point before the step, or the first one where it is moved to,  *)
(* to that after the first half.                                           *)
LEMMA SmoothFirst ==
  ASSUME InCall, NEW h, NEW k \in Lanes, OneStep(h, k), lanes[k].s <= 2 * PathEnd \/ lanes[k].exact,
         NEW p, NEW moves \in BOOLEAN,
         p.s = (IF moves THEN 2 * Index(lanes[k]) ELSE lanes[k].s),
         p.y = (IF moves THEN Line(k) ELSE lanes[k].y),
         moves => h[1].exact,
         ~moves /\ h[1].exact # lanes[k].exact => Joins(k)
  PROVE  Smooth(p, Point(h[1]), k)
<1> DEFINE c == lanes[k]
           b == h[1]
           q == Point(b)
<1>1. /\ Good(c, k) /\ Good(b, k)
      /\ c.exact => b.exact
      /\ b.exact = c.exact => Follows(b, c)
      /\ b.exact # c.exact =>
           /\ b.s <= 2 * Index(c) + MaxV
           /\ 2 * Index(c) <= 2 * PathEnd => b.s >= 2 * Index(c)
  BY DEF InCall, Busy, OneStep
<1>2. q.s = b.s /\ q.y = b.y
  BY DEF Point
<1>3. /\ c.s \in Nat /\ b.s \in Nat /\ c.y \in Int /\ b.y \in Int
      /\ c.exact \in BOOLEAN /\ b.exact \in BOOLEAN
      /\ b.exact => b.y = Line(k)
      /\ c.exact => c.y = Line(k) /\ c.s <= 2 * PathEnd
  <2>1. c.exact => c.y = Line(k) /\ c.s <= 2 * PathEnd
    BY <1>1 DEF Good
  <2>2. b.exact => b.y = Line(k)
    BY <1>1 DEF Good
  <2> QED
    BY <1>1, <2>1, <2>2 DEF Good, Typed
<1>4. 2 * Index(c) \in Nat /\ 2 * Index(c) <= c.s /\ c.s <= 2 * Index(c) + 1
  BY <1>3, IndexFact
<1>5. Line(k) \in Int /\ PathEnd \in Nat
  BY LineFact, Sizes DEF InCall
<1> DEFINE n == 2 * Index(c)
           line == Line(k)
<1>6. /\ b.exact = c.exact => b.s >= c.s /\ b.s <= c.s + 2 /\ b.y - c.y \in (-1)..1
      /\ b.exact # c.exact => b.s >= n /\ b.s <= n + 2
  <2>1. n <= 2 * PathEnd
    BY <1>3, <1>4, <1>5
  <2> QED
    BY <1>1, <2>1 DEF Follows, MaxV
<1> HIDE DEF c, b, q, n
<1>7. p.s = (IF moves THEN n ELSE c.s) /\ p.y = (IF moves THEN line ELSE c.y)
  BY DEF n, c
<1>8. moves => b.exact
  BY DEF b
<1> HIDE DEF line
<1>9. n \in Nat /\ n <= c.s /\ c.s <= n + 1 /\ line \in Int
  BY <1>4, <1>5 DEF n, line
<1>10. b.s - p.s \in (-1)..3
  <2>1. CASE b.exact = c.exact
    BY <1>3, <1>6, <1>7, <1>9, <2>1
  <2>2. CASE b.exact # c.exact
    BY <1>3, <1>6, <1>7, <1>9, <2>2
  <2> QED
    BY <2>1, <2>2
<1>11. Beside(p, b) \/ (LaneChange(call) /\ Immediate(call) /\ b.y = line)
  <2>1. CASE moves
    <3>1. b.y = p.y /\ p.y \in Int
      BY <1>3, <1>7, <1>8, <1>9, <2>1 DEF line
    <3> QED
      BY <3>1 DEF Beside, Abs
  <2>2. CASE ~moves
    <3>1. p.y = c.y
      BY <1>7, <2>2
    <3>2. CASE b.exact = c.exact
      BY <1>3, <1>6, <3>1, <3>2 DEF Beside, Abs
    <3>3. CASE b.exact # c.exact
      <4>1. b.exact /\ b.y = line
        BY <1>1, <1>3, <3>3 DEF line, b, c
      <4>2. c.y - line \in (-1)..1 \/ (LaneChange(call) /\ Immediate(call))
        BY <2>2, <3>3 DEF Joins, b, c, line
      <4>3. CASE c.y - line \in (-1)..1
        BY <1>3, <1>9, <3>1, <4>1, <4>3 DEF Beside, Abs
      <4> QED
        BY <4>1, <4>2, <4>3
    <3> QED
      BY <3>2, <3>3
  <2> QED
    BY <2>1, <2>2
<1>12. q.s - p.s \in (-1)..(MaxV + 1)
  BY <1>2, <1>10 DEF MaxV, b, q
<1>13. Beside(p, q) \/ (LaneChange(call) /\ Immediate(call) /\ q.y = Line(k))
  BY <1>2, <1>11 DEF Beside, b, q, line
<1> QED
  BY <1>12, <1>13 DEF Smooth, b, q

LEMMA SmoothSecond ==
  ASSUME NEW h, NEW k, OneStep(h, k)
  PROVE  Smooth(Point(h[1]), Point(h[2]), k)
<1> DEFINE b == h[1]
           c == h[2]
<1>1. Typed(b) /\ Typed(c) /\ Follows(c, b)
  BY DEF OneStep, Good
<1>2. /\ b.s \in Nat /\ c.s \in Nat /\ b.y \in Int /\ c.y \in Int
      /\ c.s >= b.s /\ c.s <= b.s + 2 /\ c.y - b.y \in (-1)..1
  BY <1>1 DEF Typed, Follows, MaxV
<1> HIDE DEF b, c
<1>3. c.s - b.s \in (-1)..3 /\ Abs(c.y - b.y) <= 1
  BY <1>2 DEF Abs
<1>4. /\ Point(b).s = b.s /\ Point(b).y = b.y
      /\ Point(c).s = c.s /\ Point(c).y = c.y
  BY DEF Point
<1>5. Smooth(Point(b), Point(c), k)
  BY <1>3, <1>4 DEF Smooth, Beside, MaxV
<1> QED
  BY <1>5 DEF b, c

LEMMA JumpStep ==
  ASSUME IndInv, JumpInv, t < Steps, UNCHANGED call, NEW halves, NEW anchored,
         Publish(halves, anchored), anchored # {} => t = 0,
         anchored \subseteq {k \in Lanes : halves[k][1].exact},
         \A k \in Lanes : OneStep(halves[k], k),
         \A k \in Lanes \ anchored : halves[k][1].exact # lanes[k].exact => Joins(k)
  PROVE  JumpInv'
<1>1. InCall
  BY DEF IndInv
<1>2. DOMAIN published' = Lanes /\ t' = t + 1
  BY DEF Publish
<1>3. \A k \in Lanes :
        /\ lanes'[k] = halves[k][2]
        /\ published'[k] = Append(Append(First(anchored, k), Point(halves[k][1])), Point(halves[k][2]))
  BY Published
<1>4. ASSUME NEW k \in Lanes
      PROVE  /\ \A i \in 1..(Len(published'[k]) - 1) : Smooth(published'[k][i], published'[k][i + 1], k)
             /\ lanes'[k].exact \/ lanes'[k].s + 2 * MaxV * (Steps - t') <= 2 * PathEnd
  <2> DEFINE c == lanes[k]
             h == halves[k]
             full == First(anchored, k)
             b == Point(h[1])
             d == Point(h[2])
             longer == Both(full, b, d)
             n == Len(full)
  <2>1. /\ \A i \in 1..(Len(published[k]) - 1) : Smooth(published[k][i], published[k][i + 1], k)
        /\ c.exact \/ c.s + 2 * MaxV * (Steps - t) <= 2 * PathEnd
        /\ published[k][Len(published[k])] = Point(c)
        /\ Good(c, k)
    BY <1>1 DEF JumpInv, Reaches, InCall, Busy
  <2>2. t \in Nat /\ Steps \in Nat /\ PathEnd \in Nat /\ t < Steps
    BY Sizes DEF IndInv
  <2>3. c.s \in Nat /\ c.exact \in BOOLEAN
    BY <2>1 DEF Good, Typed
  <2>4. c.s <= 2 * PathEnd \/ c.exact
    <3>1. 2 * MaxV * (Steps - t) >= 0 /\ 2 * MaxV * (Steps - t) \in Int
      BY <2>2 DEF MaxV
    <3> QED
      BY <2>1, <2>2, <2>3, <3>1
  <2>5. OneStep(h, k)
    OBVIOUS
  <2>6. /\ Good(h[1], k) /\ Good(h[2], k) /\ h[2].exact = h[1].exact /\ (c.exact => h[1].exact)
        /\ Follows(h[2], h[1]) /\ (h[1].exact = c.exact => Follows(h[1], c))
    BY <2>5 DEF OneStep
  <2>7. b \in Points /\ d \in Points
    BY <2>6, PointFact DEF Good
  <2>8. full[n] = IF k \in anchored THEN Point(Anchor(k)) ELSE Point(c)
    <3>1. CASE k \in anchored
      <4>1. full = <<Point(Anchor(k))>>
        BY <3>1 DEF First
      <4> QED
        BY <3>1, <4>1
    <3>2. CASE k \notin anchored
      BY <2>1, <3>2 DEF First
    <3> QED
      BY <3>1, <3>2
  <2>9. Smooth(full[n], b, k)
    <3> DEFINE p == full[n]
               moves == k \in anchored
    <3>1. Point(c).s = c.s /\ Point(c).y = c.y
      BY DEF Point
    <3>2. Point(Anchor(k)).s = 2 * Index(c) /\ Point(Anchor(k)).y = Line(k)
      BY <1>1, AnchorFact DEF InCall
    <3>3. CASE k \in anchored
      <4>1. p.s = (IF TRUE THEN 2 * Index(c) ELSE c.s) /\ p.y = (IF TRUE THEN Line(k) ELSE c.y)
        BY <2>8, <3>2, <3>3
      <4>2. h[1].exact
        BY <3>3
      <4> HIDE DEF p, c, h, b
      <4>3. Smooth(p, Point(h[1]), k)
        BY <1>1, <2>4, <2>5, <4>1, <4>2, SmoothFirst DEF c
      <4> QED
        BY <4>3 DEF p, b
    <3>4. CASE k \notin anchored
      <4>1. p.s = (IF FALSE THEN 2 * Index(c) ELSE c.s) /\ p.y = (IF FALSE THEN Line(k) ELSE c.y)
        BY <2>8, <3>1, <3>4
      <4>2. h[1].exact # lanes[k].exact => Joins(k)
        BY <3>4
      <4> HIDE DEF p, c, h, b
      <4>3. Smooth(p, Point(h[1]), k)
        BY <1>1, <2>4, <2>5, <4>1, <4>2, SmoothFirst DEF c
      <4> QED
        BY <4>3 DEF p, b
    <3> QED
      BY <3>3, <3>4
  <2>10. Smooth(b, d, k)
    BY <2>5, SmoothSecond
  <2>11. n \in Nat /\ \A i \in 1..(n - 1) : Smooth(full[i], full[i + 1], k)
    <3>1. CASE k \in anchored
      <4>1. full = <<Point(Anchor(k))>>
        BY <3>1 DEF First
      <4>2. n = 1
        BY <4>1
      <4> QED
        BY <4>2
    <3>2. CASE k \notin anchored
      <4>1. full = published[k] /\ full \in Seq(Points)
        BY <1>1, <3>2 DEF First, InCall, Paired
      <4>2. n \in Nat
        BY <4>1
      <4>3. n = Len(published[k]) /\ \A i \in 1..(n - 1) : full[i] = published[k][i] /\ full[i + 1] = published[k][i + 1]
        BY <4>1
      <4> HIDE DEF full, n
      <4> QED
        BY <2>1, <4>2, <4>3
    <3> QED
      BY <3>1, <3>2
  <2>12. \E stored : Paired(stored, full)
    <3>1. k \in anchored => t = 0
      OBVIOUS
    <3> QED
      BY <1>1, <3>1, FirstFact
  <2>13. published'[k] = longer /\ lanes'[k] = h[2]
    BY <1>3 DEF Both
  <2> HIDE DEF full, b, d, n, h, c
  <2>14. PICK stored : Paired(stored, full)
    BY <2>12
  <2>15. /\ Paired(More(stored, d), longer)
         /\ Len(More(stored, d)) = Len(stored) + 1
         /\ Len(longer) = Len(full) + 2
         /\ longer[Len(full) + 1] = b /\ longer[Len(full) + 2] = d
         /\ \A i \in 1..Len(full) : longer[i] = full[i]
    BY <2>7, <2>14, PairNext
  <2> HIDE DEF longer
  <2>16. n >= 1
    BY <2>14 DEF n, Paired
  <2>17. /\ Len(longer) = n + 2 /\ longer[n + 1] = b /\ longer[n + 2] = d
         /\ \A i \in 1..n : longer[i] = full[i]
    BY <2>15 DEF n
  <2>18. \A i \in 1..(Len(longer) - 1) : Smooth(longer[i], longer[i + 1], k)
    <3> TAKE i \in 1..(Len(longer) - 1)
    <3>1. i \in 1..(n + 1)
      BY <2>11, <2>17
    <3>2. CASE i \in 1..(n - 1)
      <4>1. i \in 1..n /\ i + 1 \in 1..n
        BY <2>11, <3>2
      <4>2. longer[i] = full[i] /\ longer[i + 1] = full[i + 1]
        BY <2>17, <4>1
      <4> QED
        BY <2>11, <3>2, <4>2
    <3>3. CASE i = n
      <4>1. longer[i] = full[n] /\ longer[i + 1] = b
        BY <2>11, <2>16, <2>17, <3>3
      <4> QED
        BY <2>9, <4>1
    <3>4. CASE i = n + 1
      <4>1. i + 1 = n + 2
        BY <2>11, <3>4
      <4>2. longer[i] = b /\ longer[i + 1] = d
        BY <2>17, <3>4, <4>1
      <4> QED
        BY <2>10, <4>2
    <3> QED
      BY <2>11, <3>1, <3>2, <3>3, <3>4
  <2>19. h[2].exact \/ h[2].s + 2 * MaxV * (Steps - t') <= 2 * PathEnd
    <3> SUFFICES ASSUME ~h[2].exact PROVE h[2].s + 2 * MaxV * (Steps - t') <= 2 * PathEnd
      OBVIOUS
    <3>1. ~h[1].exact /\ ~c.exact
      BY <2>6
    <3>2. h[1].exact \in BOOLEAN
      BY <2>6 DEF Good, Typed
    <3>3. h[2].s <= h[1].s + MaxV /\ h[1].s <= c.s + MaxV
      BY <2>3, <2>6, <3>1, <3>2 DEF Follows
    <3>4. h[2].s \in Nat /\ h[1].s \in Nat
      BY <2>6 DEF Good, Typed
    <3>5. c.s + 2 * MaxV * (Steps - t) <= 2 * PathEnd
      BY <2>1, <3>1
    <3> QED
      BY <1>2, <2>2, <2>3, <3>3, <3>4, <3>5 DEF MaxV
  <2> QED
    BY <2>13, <2>18, <2>19
<1>5. \A p, q, k : Smooth(p, q, k)' <=> Smooth(p', q', k)
  <2>1. \A k : Line(k)' = Line(k)
    BY DEF Line, Row
  <2> QED
    BY <2>1 DEF Smooth
<1> QED
  BY <1>2, <1>4, <1>5 DEF JumpInv, Reaches

(* On paths that reach as far as the ego can get, no lane jumps: from one  *)
(* published point to the next it moves no further than it may drive, and  *)
(* sideways by a unit at most unless a whole change of lane is skipped.    *)
THEOREM NoSuddenJumpHolds ==
  ASSUME PathsReach
  PROVE  Spec => []NoSuddenJump
<1>1. Init => JumpInv
  BY DEF Init, JumpInv
<1>2. IndInv /\ JumpInv /\ [Next]_vars => JumpInv'
  <2> SUFFICES ASSUME IndInv, JumpInv, [Next]_vars PROVE JumpInv'
    OBVIOUS
  <2>1. CASE generateProposalTrajectory
    <3>1. /\ t' = 0 /\ DOMAIN published' = Lanes
          /\ \A k \in Lanes : /\ published'[k] = <<Point(lanes'[k])>>
                              /\ \E r \in Calls : lanes'[k].s = r.ego.s
      BY <2>1, CalledFact DEF InCall, Lanes, NumLanes
    <3>2. \A k \in Lanes : lanes'[k].s + 2 * MaxV * (Steps - t') <= 2 * PathEnd
      <4> TAKE k \in Lanes
      <4>1. PICK r \in Calls : lanes'[k].s = r.ego.s
        BY <3>1
      <4>2. r.ego.s + 2 * MaxV * Steps <= 2 * PathEnd
        BY DEF PathsReach
      <4>3. Steps - t' = Steps
        BY <3>1, Sizes
      <4> QED
        BY <4>1, <4>2, <4>3
    <3>3. \A p : Len(<<p>>) = 1 /\ 1..(1 - 1) = {}
      OBVIOUS
    <3>4. ASSUME NEW k \in Lanes
          PROVE  1..(Len(published'[k]) - 1) = {}
      <4>1. Len(published'[k]) = 1
        BY <3>1, <3>3
      <4> QED
        BY <3>3, <4>1
    <3> QED
      BY <3>1, <3>2, <3>4 DEF JumpInv, Reaches
  <2>2. CASE LaneFollowing
    <3>1. PICK halves : /\ Publish(halves, {})
                        /\ \A k \in Lanes : OneStep(halves[k], k) /\ halves[k][1].exact = lanes[k].exact
      BY <2>2, FollowingFact
    <3>2. t < Steps /\ UNCHANGED call
      BY <2>2, FollowingFact
    <3>3. /\ {} # {} => t = 0
          /\ {} \subseteq {k \in Lanes : halves[k][1].exact}
          /\ \A k \in Lanes \ {} : halves[k][1].exact # lanes[k].exact => Joins(k)
      BY <3>1
    <3> QED
      BY <3>1, <3>2, <3>3, JumpStep
  <2>3. CASE LaneChanging
    <3>1. PICK halves, anchored :
            /\ Publish(halves, anchored) /\ (anchored # {} => t = 0)
            /\ anchored \subseteq {k \in Lanes : halves[k][1].exact}
            /\ \A k \in Lanes :
                 /\ OneStep(halves[k], k)
                 /\ halves[k][1].exact # lanes[k].exact => Joins(k)
      BY <2>3, ChangingFact
    <3>2. t < Steps /\ UNCHANGED call
      BY <2>3, ChangingFact
    <3> QED
      BY <3>1, <3>2, JumpStep
  <2>4. CASE UNCHANGED vars
    <3>1. UNCHANGED <<call, t, lanes, published>>
      BY <2>4 DEF vars
    <3> QED
      BY <3>1 DEF JumpInv, Reaches, Smooth, Line, Row
  <2> QED
    BY <2>1, <2>2, <2>3, <2>4 DEF Next
<1>3. JumpInv => NoSuddenJump
  BY DEF JumpInv, Smooth, NoSuddenJump
<1> QED
  BY <1>1, <1>2, <1>3, Inductive, PTL DEF Spec
=============================================================================
