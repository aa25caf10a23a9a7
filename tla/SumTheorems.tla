---------------------------- MODULE SumTheorems ----------------------------
(***************************************************************************)
(* Sums of integers over finite sets: the facts about SumFunctionOnSet of  *)
(* the community module Functions that the books of the store and of the   *)
(* backtester need.  The fold is a recursive function; its equation has a  *)
(* solution and only one, so members may be taken in any order.            *)
(***************************************************************************)
EXTENDS Functions, Integers, FiniteSetTheorems, WellFoundedInduction, TLAPS

(* Induction over the natural numbers, for a set instead of a predicate.   *)
LEMMA SetInduction ==
  ASSUME NEW S, 0 \in S, \A n \in Nat : n \in S => n + 1 \in S
  PROVE  \A n \in Nat : n \in S
<1> SUFFICES ASSUME Nat \ S # {} PROVE FALSE
  OBVIOUS
<1> DEFINE Less == OpToRel(<, Nat)
<1>1. PICK x \in Nat \ S : \A y \in Nat \ S : ~ (<<y, x>> \in Less)
  BY NatLessThanWellFounded, WFMin
<1>2. \A y \in Nat : y < x => <<y, x>> \in Less
  BY <1>1 DEF OpToRel
<1> HIDE DEF Less
<1>3. x \in Nat /\ x # 0 /\ x \notin S
  BY <1>1
<1>4. x - 1 \in Nat /\ x - 1 < x /\ (x - 1) + 1 = x
  BY <1>3
<1>5. x - 1 \in S
  BY <1>1, <1>2, <1>4
<1>6. QED
  BY <1>3, <1>4, <1>5

(* The element a fold takes first.                                         *)
Pick(T) == CHOOSE x \in T : TRUE

(* One step of a fold, and the equation of the function it defines.        *)
FoldStep(h, g, T) == IF T = {} THEN 0 ELSE g[Pick(T)] + h[T \ {Pick(T)}]
Folds(h, g, S) == h = [T \in SUBSET S |-> FoldStep(h, g, T)]

(* The sum over a set, one member taken at a time.                         *)
LEMMA SumIsChosen ==
  ASSUME NEW S, NEW g
  PROVE  SumFunctionOnSet(g, S) = (CHOOSE h : Folds(h, g, S))[S]
  BY DEF SumFunctionOnSet, FoldFunctionOnSet, MapThenFoldSet, Folds, FoldStep, Pick

(* The subset a fold goes on with is smaller by one.                       *)
LEMMA Smaller ==
  ASSUME NEW S, IsFiniteSet(S), NEW T \in SUBSET S
  PROVE  /\ IsFiniteSet(T) /\ Cardinality(T) \in Nat
         /\ T = {} <=> Cardinality(T) = 0
         /\ \A x \in T : /\ T \ {x} \in SUBSET S
                         /\ Cardinality(T \ {x}) = Cardinality(T) - 1
         /\ T # {} => Pick(T) \in T
<1>1. IsFiniteSet(T)
  BY FS_Subset
<1>2. Cardinality(T) \in Nat /\ (T = {} <=> Cardinality(T) = 0)
  BY <1>1, FS_CardinalityType, FS_EmptySet
<1>3. \A x \in T : Cardinality(T \ {x}) = Cardinality(T) - 1
  BY <1>1, FS_RemoveElement
<1>4. T # {} => Pick(T) \in T
  BY DEF Pick
<1>5. QED
  BY <1>1, <1>2, <1>3, <1>4

(* The equation has a solution, of integers.                               *)
LEMMA FoldExists ==
  ASSUME NEW S, IsFiniteSet(S), NEW g, \A x \in S : g[x] \in Int
  PROVE  \E h \in [SUBSET S -> Int] : Folds(h, g, S)
<1> DEFINE UpTo(h, n) == \A T \in SUBSET S : Cardinality(T) <= n => h[T] = FoldStep(h, g, T)
           Reached == {n \in Nat : \E h \in [SUBSET S -> Int] : UpTo(h, n)}
<1>1. 0 \in Reached
  <2> DEFINE zero == [T \in SUBSET S |-> 0]
  <2>1. ASSUME NEW T \in SUBSET S, Cardinality(T) <= 0 PROVE zero[T] = FoldStep(zero, g, T)
    BY <2>1, Smaller DEF FoldStep
  <2>2. zero \in [SUBSET S -> Int]
    OBVIOUS
  <2> HIDE DEF zero
  <2>3. UpTo(zero, 0)
    BY <2>1
  <2>4. QED
    BY <2>2, <2>3
<1>2. ASSUME NEW n \in Nat, n \in Reached PROVE n + 1 \in Reached
  <2>1. PICK h \in [SUBSET S -> Int] : UpTo(h, n)
    BY <1>2
  <2> DEFINE k == [T \in SUBSET S |-> IF Cardinality(T) <= n THEN h[T] ELSE FoldStep(h, g, T)]
  <2>2. ASSUME NEW T \in SUBSET S PROVE FoldStep(h, g, T) \in Int
    BY Smaller DEF FoldStep
  <2>3. k \in [SUBSET S -> Int]
    BY <2>2
  <2>4. ASSUME NEW T \in SUBSET S, Cardinality(T) <= n + 1
        PROVE  FoldStep(k, g, T) = FoldStep(h, g, T)
    <3>1. CASE T = {}
      BY <3>1 DEF FoldStep
    <3>2. CASE T # {}
      <4>1. Pick(T) \in T /\ T \ {Pick(T)} \in SUBSET S /\ Cardinality(T \ {Pick(T)}) <= n
        BY <2>4, <3>2, Smaller
      <4>2. k[T \ {Pick(T)}] = h[T \ {Pick(T)}]
        BY <4>1
      <4> HIDE DEF k
      <4>3. QED
        BY <3>2, <4>2 DEF FoldStep
    <3>3. QED
      BY <3>1, <3>2
  <2>5. ASSUME NEW T \in SUBSET S, Cardinality(T) <= n + 1
        PROVE  k[T] = FoldStep(k, g, T)
    <3>1. k[T] = FoldStep(h, g, T)
      BY <2>1
    <3>2. QED
      BY <2>4, <2>5, <3>1
  <2> HIDE DEF k
  <2>6. QED
    BY <2>3, <2>5
<1> HIDE DEF Reached
<1>3. Cardinality(S) \in Nat
  BY FS_CardinalityType
<1>4. Cardinality(S) \in Reached
  BY <1>1, <1>2, <1>3, SetInduction
<1>5. PICK h \in [SUBSET S -> Int] : UpTo(h, Cardinality(S))
  BY <1>4 DEF Reached
<1>6. ASSUME NEW T \in SUBSET S PROVE h[T] = FoldStep(h, g, T)
  BY <1>5, FS_Subset
<1>7. h = [T \in SUBSET S |-> FoldStep(h, g, T)]
  BY <1>6
<1>8. QED
  BY <1>7 DEF Folds

(* A solution for a set determines the sum over each of its subsets.       *)
LEMMA FoldIsSum ==
  ASSUME NEW S, IsFiniteSet(S), NEW g, \A x \in S : g[x] \in Int,
         NEW h, Folds(h, g, S), NEW U \in SUBSET S
  PROVE  SumFunctionOnSet(g, U) = h[U]
<1> DEFINE k == CHOOSE f : Folds(f, g, U)
<1>1. IsFiniteSet(U) /\ \A x \in U : g[x] \in Int
  BY Smaller
<1>2. Folds(k, g, U)
  BY <1>1, FoldExists
<1>3. SumFunctionOnSet(g, U) = k[U]
  BY SumIsChosen
<1> HIDE DEF k
<1> DEFINE Agreed == {n \in Nat : \A T \in SUBSET U : Cardinality(T) = n => k[T] = h[T]}
<1>4. ASSUME NEW T \in SUBSET U
      PROVE  k[T] = FoldStep(k, g, T) /\ h[T] = FoldStep(h, g, T)
  BY <1>2 DEF Folds
<1>5. 0 \in Agreed
  BY <1>1, <1>4, Smaller DEF FoldStep
<1>6. ASSUME NEW n \in Nat, n \in Agreed PROVE n + 1 \in Agreed
  <2> SUFFICES ASSUME NEW T \in SUBSET U, Cardinality(T) = n + 1 PROVE k[T] = h[T]
    OBVIOUS
  <2>1. T # {} /\ Pick(T) \in T /\ T \ {Pick(T)} \in SUBSET U
        /\ Cardinality(T \ {Pick(T)}) = n
    BY <1>1, Smaller
  <2>2. k[T \ {Pick(T)}] = h[T \ {Pick(T)}]
    BY <1>6, <2>1
  <2>3. QED
    BY <1>4, <2>1, <2>2 DEF FoldStep
<1> HIDE DEF Agreed
<1>7. Cardinality(U) \in Agreed
  BY <1>1, <1>5, <1>6, SetInduction, FS_CardinalityType
<1>8. QED
  BY <1>3, <1>7 DEF Agreed

(* The sum over the empty set.                                             *)
LEMMA SumEmpty == ASSUME NEW g PROVE SumFunctionOnSet(g, {}) = 0
<1>1. IsFiniteSet({})
  BY FS_EmptySet
<1>2. PICK h \in [SUBSET {} -> Int] : Folds(h, g, {})
  BY <1>1, FoldExists
<1>3. h[{}] = 0
  BY <1>2 DEF Folds, FoldStep
<1>4. QED
  BY <1>1, <1>2, <1>3, FoldIsSum

(* A sum of integers is one.                                               *)
LEMMA SumType ==
  ASSUME NEW S, IsFiniteSet(S), NEW g, \A x \in S : g[x] \in Int
  PROVE  SumFunctionOnSet(g, S) \in Int
<1>1. PICK h \in [SUBSET S -> Int] : Folds(h, g, S)
  BY FoldExists
<1>2. QED
  BY <1>1, FoldIsSum

(* Any element may be taken first.                                         *)
LEMMA SumTake ==
  ASSUME NEW S, IsFiniteSet(S), NEW g, \A x \in S : g[x] \in Int, NEW x \in S
  PROVE  SumFunctionOnSet(g, S) = g[x] + SumFunctionOnSet(g, S \ {x})
<1>1. PICK h \in [SUBSET S -> Int] : Folds(h, g, S)
  BY FoldExists
<1>2. ASSUME NEW T \in SUBSET S PROVE h[T] = FoldStep(h, g, T)
  BY <1>1 DEF Folds
<1> DEFINE Any == {n \in Nat : \A T \in SUBSET S : Cardinality(T) = n =>
                                 \A y \in T : h[T] = g[y] + h[T \ {y}]}
<1>3. 0 \in Any
  BY Smaller
<1>4. ASSUME NEW n \in Nat, n \in Any PROVE n + 1 \in Any
  <2> SUFFICES ASSUME NEW T \in SUBSET S, Cardinality(T) = n + 1, NEW y \in T
               PROVE  h[T] = g[y] + h[T \ {y}]
    OBVIOUS
  <2> DEFINE z == Pick(T)
  <2>1. z \in T /\ h[T] = g[z] + h[T \ {z}]
    BY <1>2, Smaller DEF FoldStep
  <2> HIDE DEF z
  <2>2. CASE y = z
    BY <2>1, <2>2
  <2>3. CASE y # z
    <3>1. /\ T \ {z} \in SUBSET S /\ Cardinality(T \ {z}) = n /\ y \in T \ {z}
          /\ T \ {y} \in SUBSET S /\ Cardinality(T \ {y}) = n /\ z \in T \ {y}
      BY <2>1, <2>3, Smaller
    <3>2. h[T \ {z}] = g[y] + h[(T \ {z}) \ {y}] /\ h[T \ {y}] = g[z] + h[(T \ {y}) \ {z}]
      BY <1>4, <3>1
    <3>3. (T \ {z}) \ {y} = (T \ {y}) \ {z} /\ (T \ {y}) \ {z} \in SUBSET S
      OBVIOUS
    <3>4. g[y] \in Int /\ g[z] \in Int /\ h[(T \ {y}) \ {z}] \in Int
      BY <1>1, <2>1, <3>3
    <3>5. h[T] = g[z] + (g[y] + h[(T \ {y}) \ {z}])
      BY <2>1, <3>2, <3>3
    <3>6. \A a, b, c \in Int : a + (b + c) = b + (a + c)
      OBVIOUS
    <3>7. QED
      BY <3>2, <3>4, <3>5, <3>6
  <2>4. QED
    BY <2>2, <2>3
<1> HIDE DEF Any
<1>5. Cardinality(S) \in Any
  BY <1>3, <1>4, SetInduction, FS_CardinalityType
<1>6. h[S] = g[x] + h[S \ {x}]
  BY <1>5 DEF Any
<1>7. QED
  BY <1>1, <1>6, FoldIsSum

(* A new element adds its value.                                           *)
LEMMA SumAdd ==
  ASSUME NEW S, IsFiniteSet(S), NEW g, NEW x, x \notin S, \A y \in S \cup {x} : g[y] \in Int
  PROVE  SumFunctionOnSet(g, S \cup {x}) = g[x] + SumFunctionOnSet(g, S)
<1>1. IsFiniteSet(S \cup {x})
  BY FS_AddElement
<1>2. (S \cup {x}) \ {x} = S
  OBVIOUS
<1>3. QED
  BY <1>1, <1>2, SumTake

(* The sum depends on the values of the set's elements only.               *)
LEMMA SumCongruent ==
  ASSUME NEW S, IsFiniteSet(S), NEW g, NEW k,
         \A x \in S : g[x] \in Int /\ k[x] = g[x]
  PROVE  SumFunctionOnSet(k, S) = SumFunctionOnSet(g, S)
<1>1. PICK h \in [SUBSET S -> Int] : Folds(h, g, S)
  BY FoldExists
<1>2. ASSUME NEW T \in SUBSET S PROVE FoldStep(h, k, T) = FoldStep(h, g, T)
  BY Smaller DEF FoldStep
<1>3. Folds(h, k, S)
  BY <1>1, <1>2 DEF Folds
<1>4. QED
  BY <1>1, <1>3, FoldIsSum

(* Changing one value changes the sum by the difference.                   *)
LEMMA SumChange ==
  ASSUME NEW S, IsFiniteSet(S), NEW g, NEW k, NEW x \in S,
         \A y \in S : g[y] \in Int /\ k[y] \in Int,
         \A y \in S \ {x} : k[y] = g[y]
  PROVE  SumFunctionOnSet(k, S) = SumFunctionOnSet(g, S) + k[x] - g[x]
<1>1. IsFiniteSet(S \ {x})
  BY FS_Subset
<1>2. SumFunctionOnSet(k, S \ {x}) = SumFunctionOnSet(g, S \ {x})
  BY <1>1, SumCongruent
<1>3. SumFunctionOnSet(g, S \ {x}) \in Int
  BY <1>1, SumType
<1>4. QED
  BY <1>2, <1>3, SumTake

(* A sum of nothing but zeros.                                             *)
LEMMA SumZero ==
  ASSUME NEW S, IsFiniteSet(S), NEW g, \A x \in S : g[x] = 0
  PROVE  SumFunctionOnSet(g, S) = 0
<1> DEFINE h == [T \in SUBSET S |-> 0]
<1>1. ASSUME NEW T \in SUBSET S PROVE FoldStep(h, g, T) = 0
  BY Smaller DEF FoldStep
<1>2. Folds(h, g, S)
  BY <1>1 DEF Folds
<1>3. h[S] = 0
  OBVIOUS
<1> HIDE DEF h
<1>4. QED
  BY <1>2, <1>3, FoldIsSum
=============================================================================
