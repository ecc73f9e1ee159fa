------------------------------ MODULE DataLemmas ------------------------------
(***************************************************************************)
(* Facts about numbers and sets that the proofs of several components      *)
(* rest on.  Induction is stated for sets: what is to be shown of every    *)
(* number is that the set of the numbers it holds of has all of them, and  *)
(* that needs no operator as a parameter.                                  *)
(***************************************************************************)
EXTENDS Integers, Sequences, FiniteSetsExt, Functions, FiniteSetTheorems,
        WellFoundedInduction, TLAPS

LEMMA LeastNat ==
  ASSUME NEW T \in SUBSET Nat, T # {}
  PROVE  \E n \in T : \A m \in T : n <= m
<1> DEFINE R == OpToRel(<, Nat)
<1>1. IsWellFoundedOn(R, Nat)
  BY NatLessThanWellFounded
<1>2. \A x, y \in Nat : x < y => <<x, y>> \in R
  BY DEF OpToRel
<1> HIDE DEF R
<1>3. PICK n \in T : \A m \in T : ~(<<m, n>> \in R)
  BY <1>1, WFMin
<1>4. \A m \in T : n <= m
  <2> TAKE m \in T
  <2>1. n \in Nat /\ m \in Nat /\ ~(<<m, n>> \in R)
    BY <1>3
  <2>2. ~(m < n)
    BY <1>2, <2>1
  <2> QED
    BY <2>1, <2>2
<1> QED
  BY <1>4

(* A set that has 0 and with a number the next one has every number.       *)
LEMMA SetInduction ==
  ASSUME NEW S, 0 \in S, \A n \in Nat : n \in S => n + 1 \in S
  PROVE  \A n \in Nat : n \in S
<1> SUFFICES ASSUME Nat \ S # {} PROVE FALSE
  OBVIOUS
<1>1. PICK n \in Nat \ S : \A m \in Nat \ S : n <= m
  BY LeastNat
<1>2. n - 1 \in Nat
  BY <1>1
<1>3. n - 1 \in S /\ (n - 1) + 1 = n
  BY <1>1, <1>2
<1> QED
  BY <1>1, <1>2, <1>3

(* Course-of-values induction.                                             *)
LEMMA StrongInduction ==
  ASSUME NEW S, \A n \in Nat : (\A m \in 0..(n - 1) : m \in S) => n \in S
  PROVE  \A n \in Nat : n \in S
<1> SUFFICES ASSUME Nat \ S # {} PROVE FALSE
  OBVIOUS
<1>1. PICK n \in Nat \ S : \A m \in Nat \ S : n <= m
  BY LeastNat
<1>2. \A m \in 0..(n - 1) : m \in S
  BY <1>1
<1> QED
  BY <1>1, <1>2

-----------------------------------------------------------------------------
(* Min and Max of FiniteSetsExt.                                           *)
LEMMA MinFact ==
  ASSUME NEW b \in Int, NEW S \in SUBSET Int, S # {}, \A x \in S : b <= x
  PROVE  Min(S) \in S /\ \A x \in S : Min(S) <= x
<1> DEFINE T == {x - b : x \in S}
<1>1. T \in SUBSET Nat /\ T # {}
  <2>1. \A x \in S : x - b \in Nat
    OBVIOUS
  <2> QED
    BY <2>1
<1>2. PICK n \in T : \A m \in T : n <= m
  BY <1>1, LeastNat
<1>3. PICK y \in S : n = y - b
  OBVIOUS
<1>4. \A x \in S : y <= x
  <2> TAKE x \in S
  <2>1. x - b \in T
    OBVIOUS
  <2>2. y - b <= x - b /\ x \in Int /\ y \in Int
    BY <1>2, <1>3, <2>1
  <2> QED
    BY <2>2
<1> QED
  BY <1>3, <1>4 DEF Min

LEMMA MaxFact ==
  ASSUME NEW b \in Int, NEW S \in SUBSET Int, S # {}, \A x \in S : x <= b
  PROVE  Max(S) \in S /\ \A x \in S : Max(S) >= x
<1> DEFINE T == {b - x : x \in S}
<1>1. T \in SUBSET Nat /\ T # {}
  <2>1. \A x \in S : b - x \in Nat
    OBVIOUS
  <2> QED
    BY <2>1
<1>2. PICK n \in T : \A m \in T : n <= m
  BY <1>1, LeastNat
<1>3. PICK y \in S : n = b - y
  OBVIOUS
<1>4. \A x \in S : y >= x
  <2> TAKE x \in S
  <2>1. b - x \in T
    OBVIOUS
  <2>2. b - y <= b - x /\ x \in Int /\ y \in Int
    BY <1>2, <1>3, <2>1
  <2> QED
    BY <2>2
<1> QED
  BY <1>3, <1>4 DEF Max

LEMMA MinIs ==
  ASSUME NEW S \in SUBSET Int, NEW m \in S, \A x \in S : m <= x
  PROVE  Min(S) = m
<1>1. m \in Int /\ S # {}
  OBVIOUS
<1>2. Min(S) \in S /\ Min(S) <= m
  BY <1>1, MinFact
<1>3. m <= Min(S) /\ Min(S) \in Int
  BY <1>2
<1> QED
  BY <1>1, <1>2, <1>3

LEMMA MaxIs ==
  ASSUME NEW S \in SUBSET Int, NEW m \in S, \A x \in S : x <= m
  PROVE  Max(S) = m
<1>1. m \in Int /\ S # {}
  OBVIOUS
<1>2. Max(S) \in S /\ Max(S) >= m
  BY <1>1, MaxFact
<1>3. Max(S) <= m /\ Max(S) \in Int
  BY <1>2
<1> QED
  BY <1>1, <1>2, <1>3
-----------------------------------------------------------------------------
(* MapThenSumSet of FiniteSetsExt, for the values that the rows of a table *)
(* have at one index: the sum does not depend on the order of the fold.    *)
SumOf(R, a, S) == MapThenSumSet(LAMBDA i : R[i][a], S)

AnyOf(T) == CHOOSE x \in T : TRUE

SumStep(R, a, T, rest) == IF T = {} THEN 0 ELSE R[AnyOf(T)][a] + rest

SumsTo(g, R, a, D) == g = [T \in D |-> SumStep(R, a, T, g[T \ {AnyOf(T)}])]

UpToSize(S, n) == {T \in SUBSET S : Cardinality(T) <= n}

LEMMA AnyOfFact ==
  ASSUME NEW T, IsFiniteSet(T), T # {}
  PROVE  /\ AnyOf(T) \in T /\ IsFiniteSet(T \ {AnyOf(T)})
         /\ Cardinality(T) \in Nat \ {0} /\ Cardinality(T \ {AnyOf(T)}) = Cardinality(T) - 1
<1>1. AnyOf(T) \in T
  BY DEF AnyOf
<1>2. IsFiniteSet(T \ {AnyOf(T)}) /\ Cardinality(T \ {AnyOf(T)}) = Cardinality(T) - 1
  BY <1>1, FS_RemoveElement
<1> QED
  BY <1>1, <1>2, FS_CardinalityType, FS_EmptySet

LEMMA SumsExistUpTo ==
  ASSUME NEW R, NEW a, NEW S, IsFiniteSet(S)
  PROVE  \A n \in Nat : \E g : SumsTo(g, R, a, UpToSize(S, n))
<1> DEFINE I == {n \in Nat : \E g : SumsTo(g, R, a, UpToSize(S, n))}
<1>0. \A T \in SUBSET S : IsFiniteSet(T) /\ Cardinality(T) \in Nat
  BY FS_Subset, FS_CardinalityType
<1>1. 0 \in I
  <2> DEFINE g == [T \in UpToSize(S, 0) |-> 0]
  <2>1. \A T \in UpToSize(S, 0) : T = {}
    BY <1>0, FS_EmptySet DEF UpToSize
  <2>2. SumsTo(g, R, a, UpToSize(S, 0))
    BY <2>1 DEF SumsTo, SumStep
  <2> QED
    BY <2>2
<1>2. \A n \in Nat : n \in I => n + 1 \in I
  <2> SUFFICES ASSUME NEW n \in Nat, NEW g, SumsTo(g, R, a, UpToSize(S, n))
               PROVE  \E h : SumsTo(h, R, a, UpToSize(S, n + 1))
    OBVIOUS
  <2> DEFINE D == UpToSize(S, n)
             E == UpToSize(S, n + 1)
             h == [T \in E |-> IF T \in D THEN g[T] ELSE SumStep(R, a, T, g[T \ {AnyOf(T)}])]
  <2>1. \A T \in D : g[T] = SumStep(R, a, T, g[T \ {AnyOf(T)}])
    BY DEF SumsTo
  <2>2. \A T \in E : T # {} => T \ {AnyOf(T)} \in D
    <3> SUFFICES ASSUME NEW T \in E, T # {} PROVE T \ {AnyOf(T)} \in D
      OBVIOUS
    <3>1. T \in SUBSET S /\ IsFiniteSet(T) /\ Cardinality(T) <= n + 1
      BY <1>0 DEF UpToSize
    <3>2. Cardinality(T) \in Nat /\ Cardinality(T \ {AnyOf(T)}) = Cardinality(T) - 1
      BY <3>1, AnyOfFact
    <3> QED
      BY <3>1, <3>2 DEF UpToSize
  <2>3. D \subseteq E
    BY <1>0 DEF UpToSize
  <2> HIDE DEF D, E
  <2>4. \A T \in D : h[T] = g[T]
    BY <2>3
  <2>5. \A T \in E : h[T] = SumStep(R, a, T, h[T \ {AnyOf(T)}])
    <3> SUFFICES ASSUME NEW T \in E PROVE h[T] = SumStep(R, a, T, h[T \ {AnyOf(T)}])
      OBVIOUS
    <3>1. h[T] = SumStep(R, a, T, g[T \ {AnyOf(T)}])
      BY <2>1
    <3> QED
      BY <2>2, <2>4, <3>1 DEF SumStep
  <2>6. SumsTo(h, R, a, E)
    BY <2>5 DEF SumsTo
  <2> QED
    BY <2>6 DEF E
<1> HIDE DEF I
<1>3. \A n \in Nat : n \in I
  BY <1>1, <1>2, SetInduction
<1> QED
  BY <1>3 DEF I

LEMMA SumsExist ==
  ASSUME NEW R, NEW a, NEW S, IsFiniteSet(S)
  PROVE  \E g : SumsTo(g, R, a, SUBSET S) /\ SumOf(R, a, S) = g[S]
<1>1. UpToSize(S, Cardinality(S)) = SUBSET S
  BY FS_Subset DEF UpToSize
<1>2. PICK k : SumsTo(k, R, a, SUBSET S)
  <2>1. Cardinality(S) \in Nat
    BY FS_CardinalityType
  <2>2. \E k : SumsTo(k, R, a, UpToSize(S, Cardinality(S)))
    BY <2>1, SumsExistUpTo
  <2> QED
    BY <1>1, <2>2
<1> DEFINE g == CHOOSE g : SumsTo(g, R, a, SUBSET S)
<1>3. SumsTo(g, R, a, SUBSET S)
  BY <1>2
<1>4. SumOf(R, a, S) = g[S]
  BY Zenon DEF SumOf, MapThenSumSet, MapThenFoldSet, SumsTo, SumStep, AnyOf
<1> QED
  BY <1>3, <1>4

(* Two tables of sums agree on the sets both have.                         *)
LEMMA SumsAgree ==
  ASSUME NEW R, NEW a, NEW S, NEW U, IsFiniteSet(S), NEW g, NEW h,
         SumsTo(g, R, a, SUBSET S), SumsTo(h, R, a, SUBSET U)
  PROVE  \A T \in SUBSET S : T \in SUBSET U => g[T] = h[T]
<1> DEFINE I == {n \in Nat : \A T \in SUBSET S :
                   (T \in SUBSET U /\ Cardinality(T) = n) => g[T] = h[T]}
<1>1. \A T \in SUBSET S : g[T] = SumStep(R, a, T, g[T \ {AnyOf(T)}])
  BY DEF SumsTo
<1>2. \A T \in SUBSET U : h[T] = SumStep(R, a, T, h[T \ {AnyOf(T)}])
  BY DEF SumsTo
<1>3. \A T \in SUBSET S : IsFiniteSet(T) /\ Cardinality(T) \in Nat
  BY FS_Subset, FS_CardinalityType
<1>4. 0 \in I
  <2> SUFFICES ASSUME NEW T \in SUBSET S, T \in SUBSET U, Cardinality(T) = 0 PROVE g[T] = h[T]
    OBVIOUS
  <2>1. T = {}
    BY <1>3, FS_EmptySet
  <2> QED
    BY <1>1, <1>2, <2>1 DEF SumStep
<1>5. \A n \in Nat : n \in I => n + 1 \in I
  <2> SUFFICES ASSUME NEW n \in Nat, n \in I, NEW T \in SUBSET S, T \in SUBSET U,
                      Cardinality(T) = n + 1
               PROVE  g[T] = h[T]
    OBVIOUS
  <2> DEFINE W == T \ {AnyOf(T)}
  <2>1. T # {} /\ IsFiniteSet(T)
    <3>1. n + 1 # 0
      OBVIOUS
    <3> QED
      BY <1>3, <3>1, FS_EmptySet
  <2>2. Cardinality(W) = n
    <3>1. Cardinality(W) = (n + 1) - 1
      BY <2>1, AnyOfFact
    <3> QED
      BY <3>1
  <2>3. g[W] = h[W]
    <3>1. W \in SUBSET S /\ W \in SUBSET U
      OBVIOUS
    <3> HIDE DEF W
    <3> QED
      BY <2>2, <3>1
  <2> QED
    BY <1>1, <1>2, <2>3
<1> HIDE DEF I
<1>6. \A n \in Nat : n \in I
  BY <1>4, <1>5, SetInduction
<1> QED
  BY <1>3, <1>6 DEF I

LEMMA SumOfEmpty ==
  ASSUME NEW R, NEW a
  PROVE  SumOf(R, a, {}) = 0
<1>1. PICK g : SumsTo(g, R, a, SUBSET {}) /\ SumOf(R, a, {}) = g[{}]
  BY SumsExist, FS_EmptySet
<1> QED
  BY <1>1 DEF SumsTo, SumStep

LEMMA SumOfAny ==
  ASSUME NEW R, NEW a, NEW S, IsFiniteSet(S), S # {}
  PROVE  SumOf(R, a, S) = R[AnyOf(S)][a] + SumOf(R, a, S \ {AnyOf(S)})
<1> DEFINE W == S \ {AnyOf(S)}
<1>1. IsFiniteSet(W)
  BY AnyOfFact
<1>2. PICK g : SumsTo(g, R, a, SUBSET S) /\ SumOf(R, a, S) = g[S]
  BY SumsExist
<1>3. PICK h : SumsTo(h, R, a, SUBSET W) /\ SumOf(R, a, W) = h[W]
  BY <1>1, SumsExist
<1>4. W \in SUBSET S /\ W \in SUBSET W
  OBVIOUS
<1>5. g[S] = SumStep(R, a, S, g[W])
  BY <1>2 DEF SumsTo
<1> HIDE DEF W
<1>6. g[W] = h[W]
  BY <1>2, <1>3, <1>4, SumsAgree
<1>7. SumOf(R, a, S) = R[AnyOf(S)][a] + SumOf(R, a, W)
  BY <1>2, <1>3, <1>5, <1>6 DEF SumStep
<1> QED
  BY <1>7 DEF W

LEMMA SumOfType ==
  ASSUME NEW R, NEW a, NEW S, IsFiniteSet(S), NEW N \in {Nat, Int},
         \A i \in S : R[i][a] \in N
  PROVE  SumOf(R, a, S) \in N
<1> DEFINE I == {n \in Nat : \A T \in SUBSET S : Cardinality(T) = n => SumOf(R, a, T) \in N}
<1>0. 0 \in N /\ \A x, y \in N : x + y \in N
  OBVIOUS
<1>1. \A T \in SUBSET S : IsFiniteSet(T) /\ Cardinality(T) \in Nat
  BY FS_Subset, FS_CardinalityType
<1>2. 0 \in I
  <2> SUFFICES ASSUME NEW T \in SUBSET S, Cardinality(T) = 0 PROVE SumOf(R, a, T) \in N
    OBVIOUS
  <2>1. T = {}
    BY <1>1, FS_EmptySet
  <2> QED
    BY <1>0, <2>1, SumOfEmpty
<1>3. \A n \in Nat : n \in I => n + 1 \in I
  <2> SUFFICES ASSUME NEW n \in Nat, \A T \in SUBSET S : Cardinality(T) = n => SumOf(R, a, T) \in N,
                      NEW T \in SUBSET S, Cardinality(T) = n + 1
               PROVE  SumOf(R, a, T) \in N
    OBVIOUS
  <2>1. T # {} /\ IsFiniteSet(T)
    BY <1>1, FS_EmptySet
  <2>2. AnyOf(T) \in T /\ Cardinality(T \ {AnyOf(T)}) = (n + 1) - 1
    BY <2>1, AnyOfFact
  <2>3. SumOf(R, a, T \ {AnyOf(T)}) \in N
    BY <2>2
  <2>4. SumOf(R, a, T) = R[AnyOf(T)][a] + SumOf(R, a, T \ {AnyOf(T)})
    BY <2>1, SumOfAny
  <2> QED
    BY <1>0, <2>2, <2>3, <2>4
<1> HIDE DEF I
<1>4. \A n \in Nat : n \in I
  BY <1>2, <1>3, SetInduction
<1> QED
  BY <1>1, <1>4 DEF I

(* Any element may be taken out first.                                     *)
LEMMA SumOfRemove ==
  ASSUME NEW R, NEW a, NEW S, IsFiniteSet(S), \A i \in S : R[i][a] \in Int, NEW x \in S
  PROVE  SumOf(R, a, S) = R[x][a] + SumOf(R, a, S \ {x})
<1> DEFINE Good(T) == \A y \in T : SumOf(R, a, T) = R[y][a] + SumOf(R, a, T \ {y})
           I == {n \in Nat : \A T \in SUBSET S : Cardinality(T) = n => Good(T)}
<1>1. \A T \in SUBSET S : IsFiniteSet(T) /\ Cardinality(T) \in Nat
  BY FS_Subset, FS_CardinalityType
<1>2. \A T \in SUBSET S : SumOf(R, a, T) \in Int
  <2> TAKE T \in SUBSET S
  <2>1. IsFiniteSet(T) /\ \A i \in T : R[i][a] \in Int
    BY <1>1
  <2> QED
    BY <2>1, SumOfType
<1>3. 0 \in I
  BY <1>1, FS_EmptySet
<1>4. \A n \in Nat : n \in I => n + 1 \in I
  <2> SUFFICES ASSUME NEW n \in Nat, n \in I, NEW T \in SUBSET S, Cardinality(T) = n + 1
               PROVE  Good(T)
    <3> HIDE DEF Good
    <3> QED
      OBVIOUS
  <2> SUFFICES ASSUME NEW y \in T
               PROVE  SumOf(R, a, T) = R[y][a] + SumOf(R, a, T \ {y})
    OBVIOUS
  <2>1. T # {} /\ IsFiniteSet(T)
    BY <1>1
  <2>2. AnyOf(T) \in T /\ Cardinality(T \ {AnyOf(T)}) = (n + 1) - 1
    BY <2>1, AnyOfFact
  <2>3. SumOf(R, a, T) = R[AnyOf(T)][a] + SumOf(R, a, T \ {AnyOf(T)})
    BY <2>1, SumOfAny
  <2>4. PICK c \in T : /\ Cardinality(T \ {c}) = n
                       /\ SumOf(R, a, T) = R[c][a] + SumOf(R, a, T \ {c})
    <3>1. (n + 1) - 1 = n
      OBVIOUS
    <3> QED
      BY Zenon, <2>2, <2>3, <3>1
  <2>5. CASE y = c
    BY <2>4, <2>5
  <2>6. CASE y # c
    <3>1. /\ c \in T \ {y} /\ y \in T \ {c} /\ T \ {y} \in SUBSET S /\ T \ {c} \in SUBSET S
          /\ (T \ {y}) \ {c} = (T \ {c}) \ {y} /\ (T \ {c}) \ {y} \in SUBSET S
      BY <2>6
    <3>2. Cardinality(T \ {y}) = (n + 1) - 1
      BY <2>1, FS_RemoveElement
    <3>3. SumOf(R, a, T \ {y}) = R[c][a] + SumOf(R, a, (T \ {c}) \ {y})
      <4>1. Good(T \ {y})
        BY <3>1, <3>2
      <4> QED
        BY <3>1, <4>1
    <3>4. SumOf(R, a, T \ {c}) = R[y][a] + SumOf(R, a, (T \ {c}) \ {y})
      <4>1. Good(T \ {c})
        BY <2>4, <3>1
      <4> QED
        BY <3>1, <4>1
    <3>5. /\ SumOf(R, a, (T \ {c}) \ {y}) \in Int /\ R[y][a] \in Int /\ R[c][a] \in Int
          /\ SumOf(R, a, T \ {c}) \in Int /\ SumOf(R, a, T \ {y}) \in Int
      BY <1>2, <3>1
    <3> HIDE DEF Good
    <3> QED
      BY <2>4, <3>3, <3>4, <3>5
  <2> QED
    BY <2>5, <2>6
<1>5. \A n \in Nat : n \in I
  <2> HIDE DEF I
  <2> QED
    BY <1>3, <1>4, SetInduction
<1>6. Good(S)
  BY <1>1, <1>5
<1> QED
  BY <1>6

(* Tables that agree on a set have the same sum over it.                   *)
LEMMA SumOfSame ==
  ASSUME NEW R, NEW Q, NEW a, NEW S, IsFiniteSet(S), \A i \in S : R[i][a] = Q[i][a]
  PROVE  SumOf(R, a, S) = SumOf(Q, a, S)
<1> DEFINE I == {n \in Nat : \A T \in SUBSET S :
                   Cardinality(T) = n => SumOf(R, a, T) = SumOf(Q, a, T)}
<1>1. \A T \in SUBSET S : IsFiniteSet(T) /\ Cardinality(T) \in Nat
  BY FS_Subset, FS_CardinalityType
<1>2. 0 \in I
  <2> SUFFICES ASSUME NEW T \in SUBSET S, Cardinality(T) = 0
               PROVE  SumOf(R, a, T) = SumOf(Q, a, T)
    OBVIOUS
  <2>1. T = {}
    BY <1>1, FS_EmptySet
  <2> QED
    BY <2>1, SumOfEmpty
<1>3. \A n \in Nat : n \in I => n + 1 \in I
  <2> SUFFICES ASSUME NEW n \in Nat, n \in I, NEW T \in SUBSET S, Cardinality(T) = n + 1
               PROVE  SumOf(R, a, T) = SumOf(Q, a, T)
    OBVIOUS
  <2>1. T # {} /\ IsFiniteSet(T)
    BY <1>1, FS_EmptySet
  <2>2. AnyOf(T) \in T /\ Cardinality(T \ {AnyOf(T)}) = (n + 1) - 1
    BY <2>1, AnyOfFact
  <2>3. SumOf(R, a, T \ {AnyOf(T)}) = SumOf(Q, a, T \ {AnyOf(T)})
    BY <2>2
  <2>4. /\ SumOf(R, a, T) = R[AnyOf(T)][a] + SumOf(R, a, T \ {AnyOf(T)})
        /\ SumOf(Q, a, T) = Q[AnyOf(T)][a] + SumOf(Q, a, T \ {AnyOf(T)})
    BY <2>1, SumOfAny
  <2> QED
    BY <2>2, <2>3, <2>4
<1> HIDE DEF I
<1>4. \A n \in Nat : n \in I
  BY <1>2, <1>3, SetInduction
<1> QED
  BY <1>1, <1>4 DEF I

-----------------------------------------------------------------------------
(* FoldFunction with addition: the sum of a function's values, which is    *)
(* the sum over a table with one column.                                   *)
SumOver(f) == FoldFunction(LAMBDA x, y : x + y, 0, f)

Column(f) == [i \in DOMAIN f |-> [b \in {0} |-> f[i]]]

LEMMA SumOverIsSumOf ==
  ASSUME NEW D, IsFiniteSet(D), NEW V, NEW f \in [D -> V]
  PROVE  SumOver(f) = SumOf(Column(f), 0, D)
<1> DEFINE Same(g) == g = [T \in SUBSET D |-> IF T = {} THEN 0 ELSE f[AnyOf(T)] + g[T \ {AnyOf(T)}]]
<1>1. \A T \in SUBSET D : T # {} => Column(f)[AnyOf(T)][0] = f[AnyOf(T)]
  BY DEF Column, AnyOf
<1>2. \A g : Same(g) <=> SumsTo(g, Column(f), 0, SUBSET D)
  <2> TAKE g
  <2>1. \A T \in SUBSET D :
          SumStep(Column(f), 0, T, g[T \ {AnyOf(T)}]) =
            IF T = {} THEN 0 ELSE f[AnyOf(T)] + g[T \ {AnyOf(T)}]
    BY <1>1 DEF SumStep
  <2>2. [T \in SUBSET D |-> SumStep(Column(f), 0, T, g[T \ {AnyOf(T)}])] =
          [T \in SUBSET D |-> IF T = {} THEN 0 ELSE f[AnyOf(T)] + g[T \ {AnyOf(T)}]]
    BY <2>1
  <2> QED
    BY <2>2 DEF SumsTo
<1>3. SumOver(f) = (CHOOSE g : Same(g))[D]
  <2>1. DOMAIN f = D
    OBVIOUS
  <2> QED
    BY Zenon, <2>1 DEF SumOver, FoldFunction, FoldFunctionOnSet, MapThenFoldSet, AnyOf
<1>4. SumOf(Column(f), 0, D) = (CHOOSE g : SumsTo(g, Column(f), 0, SUBSET D))[D]
  BY Zenon DEF SumOf, MapThenSumSet, MapThenFoldSet, SumsTo, SumStep, AnyOf
<1> HIDE DEF Same
<1> QED
  BY <1>2, <1>3, <1>4

LEMMA SumOverZero ==
  ASSUME NEW D, IsFiniteSet(D), NEW f \in [D -> Int], \A i \in D : f[i] = 0
  PROVE  SumOver(f) = 0
<1> DEFINE I == {n \in Nat : \A T \in SUBSET D :
                   Cardinality(T) = n => SumOf(Column(f), 0, T) = 0}
<1>0. \A i \in D : Column(f)[i][0] = 0
  BY DEF Column
<1>1. \A T \in SUBSET D : IsFiniteSet(T) /\ Cardinality(T) \in Nat
  BY FS_Subset, FS_CardinalityType
<1>2. 0 \in I
  <2> SUFFICES ASSUME NEW T \in SUBSET D, Cardinality(T) = 0 PROVE SumOf(Column(f), 0, T) = 0
    OBVIOUS
  <2>1. T = {}
    BY <1>1, FS_EmptySet
  <2> QED
    BY <2>1, SumOfEmpty
<1>3. \A n \in Nat : n \in I => n + 1 \in I
  <2> SUFFICES ASSUME NEW n \in Nat, n \in I, NEW T \in SUBSET D, Cardinality(T) = n + 1
               PROVE  SumOf(Column(f), 0, T) = 0
    OBVIOUS
  <2>1. T # {} /\ IsFiniteSet(T)
    BY <1>1, FS_EmptySet
  <2>2. AnyOf(T) \in T /\ Cardinality(T \ {AnyOf(T)}) = (n + 1) - 1
    BY <2>1, AnyOfFact
  <2>3. SumOf(Column(f), 0, T \ {AnyOf(T)}) = 0
    BY <2>2
  <2>4. SumOf(Column(f), 0, T) = Column(f)[AnyOf(T)][0] + SumOf(Column(f), 0, T \ {AnyOf(T)})
    BY <2>1, SumOfAny
  <2> QED
    BY <1>0, <2>2, <2>3, <2>4
<1> HIDE DEF I
<1>4. \A n \in Nat : n \in I
  BY <1>2, <1>3, SetInduction
<1>5. SumOf(Column(f), 0, D) = 0
  BY <1>1, <1>4 DEF I
<1> QED
  BY <1>5, SumOverIsSumOf

LEMMA SumOverNat ==
  ASSUME NEW D, IsFiniteSet(D), NEW f \in [D -> Nat]
  PROVE  SumOver(f) \in Nat
<1>1. \A i \in D : Column(f)[i][0] \in Nat
  BY DEF Column
<1>2. SumOf(Column(f), 0, D) \in Nat
  BY <1>1, SumOfType
<1> QED
  BY <1>2, SumOverIsSumOf

(* Changing one value changes the sum by as much.                          *)
LEMMA SumOverBump ==
  ASSUME NEW D, IsFiniteSet(D), NEW f \in [D -> Int], NEW h \in [D -> Int], NEW x \in D,
         \A i \in D \ {x} : h[i] = f[i]
  PROVE  SumOver(h) = SumOver(f) + (h[x] - f[x]) /\ SumOver(f) \in Int
<1>1. /\ \A i \in D : Column(f)[i][0] = f[i] /\ f[i] \in Int
      /\ \A i \in D : Column(h)[i][0] = h[i] /\ h[i] \in Int
  BY DEF Column
<1>2. SumOf(Column(f), 0, D) = Column(f)[x][0] + SumOf(Column(f), 0, D \ {x})
  <2>1. \A i \in D : Column(f)[i][0] \in Int
    BY <1>1
  <2> QED
    BY <2>1, SumOfRemove
<1>3. SumOf(Column(h), 0, D) = Column(h)[x][0] + SumOf(Column(h), 0, D \ {x})
  <2>1. \A i \in D : Column(h)[i][0] \in Int
    BY <1>1
  <2> QED
    BY <2>1, SumOfRemove
<1>4. IsFiniteSet(D \ {x})
  BY FS_Subset
<1>5. SumOf(Column(h), 0, D \ {x}) = SumOf(Column(f), 0, D \ {x})
  <2>1. \A i \in D \ {x} : Column(h)[i][0] = Column(f)[i][0]
    BY <1>1
  <2> QED
    BY <1>4, <2>1, SumOfSame
<1>6. SumOf(Column(f), 0, D \ {x}) \in Int
  <2>1. \A i \in D \ {x} : Column(f)[i][0] \in Int
    BY <1>1
  <2> QED
    BY <1>4, <2>1, SumOfType
<1>7. SumOver(f) = SumOf(Column(f), 0, D) /\ SumOver(h) = SumOf(Column(h), 0, D)
  BY SumOverIsSumOf
<1>8. Column(f)[x][0] = f[x] /\ Column(h)[x][0] = h[x] /\ f[x] \in Int /\ h[x] \in Int
  BY <1>1
<1> HIDE DEF Column
<1> QED
  BY <1>2, <1>3, <1>5, <1>6, <1>7, <1>8

(* The smaller and the greater of two numbers.                             *)
LEMMA MinOf ==
  ASSUME NEW a \in Int, NEW b \in Int
  PROVE  Min({a, b}) = IF a <= b THEN a ELSE b
<1>1. CASE a <= b
  <2>1. {a, b} \in SUBSET Int /\ a \in {a, b} /\ \A x \in {a, b} : a <= x
    BY <1>1
  <2> QED
    BY <1>1, <2>1, MinIs
<1>2. CASE ~(a <= b)
  <2>1. {a, b} \in SUBSET Int /\ b \in {a, b} /\ \A x \in {a, b} : b <= x
    BY <1>2
  <2> QED
    BY <1>2, <2>1, MinIs
<1> QED
  BY <1>1, <1>2

LEMMA MaxOf ==
  ASSUME NEW a \in Int, NEW b \in Int
  PROVE  Max({a, b}) = IF a >= b THEN a ELSE b
<1>1. CASE a >= b
  <2>1. {a, b} \in SUBSET Int /\ a \in {a, b} /\ \A x \in {a, b} : x <= a
    BY <1>1
  <2> QED
    BY <1>1, <2>1, MaxIs
<1>2. CASE ~(a >= b)
  <2>1. {a, b} \in SUBSET Int /\ b \in {a, b} /\ \A x \in {a, b} : x <= b
    BY <1>2
  <2> QED
    BY <1>2, <2>1, MaxIs
<1> QED
  BY <1>1, <1>2

(* Append, by what it makes of a sequence.                                *)
LEMMA AppendFact ==
  ASSUME NEW V, NEW q \in Seq(V), NEW e \in V
  PROVE  Append(q, e) \in Seq(V) /\ Len(Append(q, e)) = Len(q) + 1
OBVIOUS

LEMMA AppendNext ==
  ASSUME NEW f, NEW k \in Nat
  PROVE  Append([s \in 1..k |-> f[s]], f[k + 1]) = [s \in 1..(k + 1) |-> f[s]]
<1> DEFINE V == {f[s] : s \in 1..(k + 1)}
           q == [s \in 1..k |-> f[s]]
<1>1. q \in Seq(V) /\ Len(q) = k /\ f[k + 1] \in V
  OBVIOUS
<1>2. /\ DOMAIN Append(q, f[k + 1]) = 1..(k + 1)
      /\ \A i \in 1..(k + 1) : Append(q, f[k + 1])[i] = f[i]
  <2>1. Len(Append(q, f[k + 1])) = k + 1 /\ Append(q, f[k + 1]) \in Seq(V)
    BY <1>1, AppendFact
  <2>2. \A i \in 1..k : Append(q, f[k + 1])[i] = q[i]
    BY <1>1
  <2>3. Append(q, f[k + 1])[k + 1] = f[k + 1]
    BY <1>1
  <2> QED
    BY <2>1, <2>2, <2>3
<1>3. Append(q, f[k + 1]) \in Seq(V)
  BY <1>1, AppendFact
<1> QED
  BY <1>2, <1>3

(* A loop that appends f for every k up to n.                              *)
LEMMA AppendLoop ==
  ASSUME NEW f, NEW n \in Nat
  PROVE  (CHOOSE g : g = [k \in 0..n |-> IF k = 0 THEN <<>> ELSE Append(g[k - 1], f[k])])[n]
           = [k \in 1..n |-> f[k]]
<1> DEFINE Rec(g) == g = [k \in 0..n |->
                            IF k = 0 THEN <<>> ELSE Append(g[k - 1], f[k])]
           j == [k \in 0..n |-> [s \in 1..k |-> f[s]]]
           e == CHOOSE g : Rec(g)
<1>1. j = [k \in 0..n |-> j[k]] /\ j[0] = <<>>
  OBVIOUS
<1>2. \A k \in Nat : k + 1 <= n => j[k + 1] = Append(j[k], f[k + 1])
  <2> TAKE k \in Nat
  <2> HAVE k + 1 <= n
  <2>1. Append([s \in 1..k |-> f[s]], f[k + 1]) = [s \in 1..(k + 1) |-> f[s]]
    BY AppendNext
  <2>2. /\ j[k] = [s \in 1..k |-> f[s]] /\ j[k + 1] = [s \in 1..(k + 1) |-> f[s]]
    OBVIOUS
  <2> QED
    BY <2>1, <2>2
<1>3. (CHOOSE g : g = [k \in 0..n |-> IF k = 0 THEN <<>> ELSE Append(g[k - 1], f[k])])[n] = e[n]
  OBVIOUS
<1>4. j[n] = [s \in 1..n |-> f[s]]
  OBVIOUS
<1> HIDE DEF j
<1>5. Rec(j)
  <2>1. \A k \in 0..n : j[k] = IF k = 0 THEN <<>> ELSE Append(j[k - 1], f[k])
    <3> TAKE k \in 0..n
    <3>1. CASE k = 0
      BY <1>1, <3>1
    <3>2. CASE k # 0
      <4>1. k - 1 \in Nat /\ (k - 1) + 1 = k /\ k <= n
        BY <3>2
      <4> QED
        BY <1>2, <3>2, <4>1
    <3> QED
      BY <3>1, <3>2
  <2> QED
    BY <1>1, <2>1
<1>6. Rec(e)
  <2> HIDE DEF Rec
  <2> QED
    BY <1>5
<1> HIDE DEF e
<1>7. e[0] = <<>> /\ \A k \in Nat : k + 1 <= n => e[k + 1] = Append(e[k], f[k + 1])
  <2>1. \A k \in 0..n : e[k] = IF k = 0 THEN <<>> ELSE Append(e[k - 1], f[k])
    BY <1>6
  <2>2. e[0] = <<>>
    BY <2>1
  <2>3. ASSUME NEW k \in Nat, k + 1 <= n
        PROVE  e[k + 1] = Append(e[k], f[k + 1])
    <3>1. k + 1 \in 0..n /\ k + 1 # 0 /\ (k + 1) - 1 = k
      BY <2>3
    <3> QED
      BY <2>1, <3>1
  <2> QED
    BY <2>2, <2>3
<1> DEFINE T == {k \in Nat : k <= n => e[k] = j[k]}
<1>8. 0 \in T
  BY <1>1, <1>7
<1>9. \A k \in Nat : k \in T => k + 1 \in T
  <2> TAKE k \in Nat
  <2> HAVE k \in T
  <2>1. ASSUME k + 1 <= n
        PROVE  e[k + 1] = j[k + 1]
    <3>1. e[k] = j[k]
      BY <2>1
    <3> QED
      BY <1>2, <1>7, <2>1, <3>1
  <2> QED
    BY <2>1
<1> HIDE DEF T
<1>10. \A k \in Nat : k \in T
  BY <1>8, <1>9, SetInduction
<1>11. n \in T
  BY <1>10
<1>12. e[n] = j[n]
  BY <1>11 DEF T
<1> QED
  BY <1>3, <1>4, <1>12

(* Different elements in different places, as many places as elements: no  *)
(* place is empty.                                                         *)
LEMMA OneToOneIsOnto ==
  ASSUME NEW S, IsFiniteSet(S), NEW f \in [S -> 1..Cardinality(S)],
         \A x, y \in S : f[x] = f[y] => x = y
  PROVE  \A k \in 1..Cardinality(S) : \E x \in S : f[x] = k
<1> DEFINE n == Cardinality(S)
<1>1. n \in Nat
  BY FS_CardinalityType
<1>2. IsFiniteSet(1..n) /\ Cardinality(1..n) = n
  BY <1>1, FS_Interval
<1>3. f \in Injection(S, 1..n)
  BY DEF Injection, IsInjective
<1> HIDE DEF n
<1>4. f \in Surjection(S, 1..n)
  <2>1. Cardinality(S) = Cardinality(1..n)
    BY <1>2 DEF n
  <2> QED BY <1>2, <1>3, <2>1, FS_Injection
<1> QED BY <1>4 DEF Surjection, n

(* Division of naturals rounds down.                                       *)
LEMMA Floors ==
  ASSUME NEW p \in Nat, NEW s \in Nat \ {0}
  PROVE  p \div s \in Nat /\ (p \div s) * s <= p /\ p < (p \div s) * s + s
OBVIOUS

(* Multiples of a positive number.                                         *)
LEMMA Products ==
  ASSUME NEW i \in Nat, NEW j \in Nat, NEW s \in Nat \ {0}
  PROVE  /\ i * s \in Nat
         /\ i <= j => i * s <= j * s
         /\ i < j => i * s + s <= j * s
         /\ i >= 1 => i * s >= 1
         /\ (i * s) % s = 0
OBVIOUS

(* A number without a rest is one.                                         *)
LEMMA Multiples ==
  ASSUME NEW b \in Nat, NEW s \in Nat \ {0}, b % s = 0
  PROVE  b = (b \div s) * s /\ b \div s \in Nat
OBVIOUS

(* A loop that does h[k] in its k-th pass has a value after every pass.    *)
LEMMA LoopExists ==
  ASSUME NEW V, NEW a \in V, NEW n \in Nat, NEW h \in [1..n -> [V -> V]]
  PROVE  \E g \in [0..n -> V] : g[0] = a /\ \A k \in 1..n : g[k] = h[k][g[k - 1]]
<1> DEFINE S == {m \in Nat : m <= n =>
                   \E g \in [0..m -> V] : g[0] = a /\ \A k \in 1..m : g[k] = h[k][g[k - 1]]}
<1>1. 0 \in S
  <2> DEFINE g == [k \in 0..0 |-> a]
  <2>1. g \in [0..0 -> V] /\ g[0] = a /\ \A k \in 1..0 : g[k] = h[k][g[k - 1]]
    OBVIOUS
  <2> HIDE DEF g
  <2> QED BY <2>1
<1>2. ASSUME NEW m \in Nat, m \in S PROVE m + 1 \in S
  <2>1. SUFFICES ASSUME m + 1 <= n
                 PROVE  \E g \in [0..(m + 1) -> V] :
                          g[0] = a /\ \A k \in 1..(m + 1) : g[k] = h[k][g[k - 1]]
    OBVIOUS
  <2>2. PICK f \in [0..m -> V] : f[0] = a /\ \A k \in 1..m : f[k] = h[k][f[k - 1]]
    BY <1>2, <2>1
  <2> DEFINE last == h[m + 1][f[m]]
             g == [k \in 0..(m + 1) |-> IF k <= m THEN f[k] ELSE last]
  <2>3. last \in V
    <3>1. h[m + 1] \in [V -> V] /\ f[m] \in V
      BY <2>1, <2>2
    <3> QED BY <3>1
  <2>4. g \in [0..(m + 1) -> V] /\ (\A k \in 0..m : g[k] = f[k]) /\ g[m + 1] = last
    <3> HIDE DEF last
    <3> QED BY <2>2, <2>3
  <2>5. \A k \in 1..(m + 1) : g[k] = h[k][g[k - 1]]
    <3> SUFFICES ASSUME NEW k \in 1..(m + 1) PROVE g[k] = h[k][g[k - 1]]
      OBVIOUS
    <3> HIDE DEF g
    <3>1. CASE k \in 1..m
      <4>1. k \in 0..m /\ k - 1 \in 0..m
        BY <3>1
      <4> QED BY <2>2, <2>4, <3>1, <4>1
    <3>2. CASE k = m + 1
      <4>1. k - 1 = m /\ m \in 0..m
        BY <3>2
      <4> QED BY <2>4, <3>2, <4>1
    <3> QED BY <3>1, <3>2
  <2>6. 0 \in 0..m
    OBVIOUS
  <2> HIDE DEF g
  <2> QED BY <2>2, <2>4, <2>5, <2>6
<1>3. \A m \in Nat : m \in S
  <2> HIDE DEF S
  <2> QED BY <1>1, <1>2, SetInduction
<1> QED BY <1>3

(* The same under one name, for loops whose body is a defined operator.    *)
HasLoop(V, a, n, h) ==
  \E g \in [0..n -> V] : g[0] = a /\ \A k \in 1..n : g[k] = h[k][g[k - 1]]

(* It is enough that the body stays in V.                                  *)
LEMMA LoopFound ==
  ASSUME NEW V, NEW a, NEW n, NEW h, n \in Nat /\ a \in V /\ h \in [1..n -> [V -> V]]
  PROVE  HasLoop(V, a, n, h)
BY LoopExists DEF HasLoop
=============================================================================
