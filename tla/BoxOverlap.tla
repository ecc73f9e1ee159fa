---------------------------- MODULE BoxOverlap -----------------------------
(***************************************************************************)
(* Oriented boxes: the separating-axis tests of ContextQMDP, which box     *)
(* edge another box meets, and how a contact is classified.  A heading is  *)
(* <<cos, sin>> over the integer D, so every comparison is exact; a box is *)
(* [x, y, dir, wide, long] with its half extents.                          *)
(***************************************************************************)
EXTENDS Integers, Sequences

CONSTANTS
  D,             \* denominator of a heading's cosine and sine
  RearToCenter   \* REAR_TO_CENTER

ASSUME HeadingAssumption == D \in Nat \ {0} /\ RearToCenter \in Nat

Abs(n) == IF n < 0 THEN -n ELSE n
Dot(u, w) == u[1] * w[1] + u[2] * w[2]
Left(u) == <<-u[2], u[1]>>
From(a, b) == <<b.x - a.x, b.y - a.y>>

(* The tests that take the axes in the frame of the map, four of them with *)
(* the same verdict.  A box that only touches another collides with it.    *)
Reach(b, axis) == b.long * Abs(Dot(b.dir, axis)) + b.wide * Abs(Dot(Left(b.dir), axis))

Separated(ego, exo, axis) ==
  Reach(ego, axis) + Reach(exo, axis) < D * Abs(Dot(From(ego, exo), axis))

Axes(ego, exo) == {exo.dir, Left(exo.dir), ego.dir, Left(ego.dir)}

checkSATCollisionBatch1(ego, exo) == \A axis \in Axes(ego, exo) : ~Separated(ego, exo, axis)

(* The test of both HasCollisionBatch, in the frame of the ego box.        *)
checkSATCollisionLocal(ego, exo) ==
  LET d == From(ego, exo)
      x == Dot(d, ego.dir)
      y == Dot(d, Left(ego.dir))
      c == Dot(exo.dir, ego.dir)
      s == Dot(exo.dir, Left(ego.dir))
      onX == exo.long * Abs(c) + exo.wide * Abs(s)
      onY == exo.long * Abs(s) + exo.wide * Abs(c)
      alongExo  == ego.long * Abs(c) + ego.wide * Abs(s)
      acrossExo == ego.long * Abs(s) + ego.wide * Abs(c)
  IN  /\ D * Abs(x) <= D * D * ego.long + onX
      /\ D * Abs(y) <= D * D * ego.wide + onY
      /\ Abs(x * c + y * s) <= D * (D * D * exo.long + alongExo)
      /\ Abs(y * c - x * s) <= D * (D * D * exo.wide + acrossExo)

(* The angle of vec to the heading ref is below a threshold whose squared  *)
(* cosine is cos2[1] / cos2[2].                                            *)
IsAngleWithinThreshold(vec, ref, cos2) ==
  /\ Dot(vec, ref) > 0
  /\ cos2[2] * Dot(vec, ref) * Dot(vec, ref) > cos2[1] * Dot(vec, vec) * D * D

PI_1_3 == <<1, 4>>
PI_1_4 == <<1, 2>>
PI_1_6 == <<3, 4>>
COLLISION_REAR_THRESHOLD == <<97, 100>>

Neg(u) == <<-u[1], -u[2]>>

(* From the rear axle to the centre of the other box, times D.             *)
FromRear(ego, exo) ==
  <<D * (exo.x - ego.x) + RearToCenter * ego.dir[1],
    D * (exo.y - ego.y) + RearToCenter * ego.dir[2]>>

Behind(ego, exo, cos2) == IsAngleWithinThreshold(FromRear(ego, exo), Neg(ego.dir), cos2)

(* Corners and the middles of the long sides, times D, in the code's order: *)
(* front left, front right, rear left, rear right, left, right.            *)
computeEgoCornersBatch(ego) ==
  LET at(along, across) ==
        <<D * ego.x + along * ego.dir[1] - across * ego.dir[2],
          D * ego.y + along * ego.dir[2] + across * ego.dir[1]>>
  IN  <<at(ego.long, ego.wide), at(ego.long, -ego.wide), at(-ego.long, ego.wide),
        at(-ego.long, -ego.wide), at(0, ego.wide), at(0, -ego.wide)>>

(* A point (times D) in the frame of a box (times D * D).                  *)
InFrame(p, b) ==
  LET d == <<p[1] - D * b.x, p[2] - D * b.y>>
  IN  <<Dot(d, b.dir), Dot(d, Left(b.dir))>>

(* A segment, given in the frame of a box, meets the box.                  *)
MeetsBox(a, b, long, wide) ==
  LET inside(p) == Abs(p[1]) <= long /\ Abs(p[2]) <= wide
      beside(i, e) == (a[i] > e /\ b[i] > e) \/ (a[i] < -e /\ b[i] < -e)
      dx == b[1] - a[1]
      dy == b[2] - a[2]
  IN  \/ inside(a) \/ inside(b)
      \/ /\ ~beside(1, long) /\ ~beside(2, wide)
         /\ Abs(a[2] * dx - a[1] * dy) <= long * Abs(dy) + wide * Abs(dx)

checkIntersectionLineRectangle(p1, p2, exo) ==
  MeetsBox(InFrame(p1, exo), InFrame(p2, exo), D * D * exo.long, D * D * exo.wide)

(* The front edge of the ego meets a box.                                  *)
FrontMeets(exo, c) == checkIntersectionLineRectangle(c[1], c[2], exo)

(* How the contact with an expanded box counts; ego and exo carry their    *)
(* speed v.  A standing ego excuses itself after the first step only.      *)
GetCollisionType(ego, exo, iteration) ==
  LET sameWay(cos2) == IsAngleWithinThreshold(exo.dir, ego.dir, cos2)
      fromBehind == \/ Behind(ego, exo, PI_1_6) /\ sameWay(COLLISION_REAR_THRESHOLD)
                    \/ Behind(ego, exo, COLLISION_REAR_THRESHOLD) /\ sameWay(PI_1_6)
  IN  IF iteration > 0 /\ ego.v = 0 THEN "stopped ego"
      ELSE IF exo.v = 0 THEN "stopped track"
      ELSE IF fromBehind THEN "rear"
      ELSE IF FrontMeets(exo, computeEgoCornersBatch(ego)) THEN "front"
      ELSE "lateral"

(* Two closed boxes share a point: a corner of one lies in the other, or   *)
(* two of their edges cross.                                               *)
Around(c) == <<c[1], c[2], c[4], c[3]>>

Within(f, q) == Abs(f[1]) <= D * D * q.long /\ Abs(f[2]) <= D * D * q.wide

Turn(p, q, r) == (q[1] - p[1]) * (r[2] - p[2]) - (q[2] - p[2]) * (r[1] - p[1])

Cross(p, q, r, s) ==
  LET opposite(m, n) == (m > 0 /\ n < 0) \/ (m < 0 /\ n > 0)
  IN  /\ opposite(Turn(p, q, r), Turn(p, q, s))
      /\ opposite(Turn(r, s, p), Turn(r, s, q))

Share(a, b, ca, cb) ==
  \/ \E i \in 1..4 : Within(InFrame(ca[i], b), b) \/ Within(InFrame(cb[i], a), a)
  \/ \E i, j \in 1..4 : Cross(ca[i], ca[(i % 4) + 1], cb[j], cb[(j % 4) + 1])

Overlap(a, b) ==
  Share(a, b, Around(computeEgoCornersBatch(a)), Around(computeEgoCornersBatch(b)))
=============================================================================
