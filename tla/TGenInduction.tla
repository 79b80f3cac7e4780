--------------------------- MODULE TGenInduction ----------------------------
(***************************************************************************)
(* Induction with sets in the place of predicates: the provers that check  *)
(* this project's proofs cannot instantiate a theorem with an operator, as *)
(* in NaturalsInduction, but they can instantiate one with a set.          *)
(***************************************************************************)
EXTENDS Integers, FiniteSets, FiniteSetTheorems, WellFoundedInduction, TLAPS

\* A set that holds 0, and with each number the next one, holds all numbers.
LEMMA NatInductionSet ==
  ASSUME NEW P, 0 \in P, \A n \in Nat : n \in P => n + 1 \in P
  PROVE  \A n \in Nat : n \in P
<1> DEFINE R == OpToRel(<, Nat)
           T == {n \in Nat : n \notin P}
<1> SUFFICES ASSUME T # {} PROVE FALSE
  OBVIOUS
<1>1. IsWellFoundedOn(R, Nat)
  BY NatLessThanWellFounded
<1>2. \A x, y \in Nat : x < y => <<x, y>> \in R
  BY DEF OpToRel
<1>3. PICK x \in T : \A y \in T : <<y, x>> \notin R
  <2> HIDE DEF R
  <2> QED
    BY <1>1, WFMin
<1>4. x \in Nat /\ x \notin P /\ x # 0
  OBVIOUS
<1>5. x - 1 \in Nat /\ x - 1 < x /\ (x - 1) + 1 = x
  BY <1>4
<1>6. x - 1 \in T
  BY <1>4, <1>5
<1> QED
  BY <1>2, <1>3, <1>4, <1>5, <1>6

\* The function h on 0 .. N whose first value is c, and whose others g gives from the ones
\* before.
DefinedBy(h, N, S, c, g) ==
  h \in [0 .. N -> S] /\ h[0] = c /\ \A i \in 1 .. N : h[i] = g[i][h[i - 1]]

\* Every such recursion defines a function.
LEMMA RecursionExists ==
  ASSUME NEW S, NEW c \in S, NEW g \in [Nat -> [S -> S]], NEW N \in Nat
  PROVE  \E h : DefinedBy(h, N, S, c, g)
<1> DEFINE Defined(n) == \E h \in [0 .. n -> S] :
                           h[0] = c /\ \A i \in 1 .. n : h[i] = g[i][h[i - 1]]
           P == {n \in Nat : Defined(n)}
<1>1. Defined(0)
  <2> DEFINE h == [i \in 0 .. 0 |-> c]
  <2>1. h \in [0 .. 0 -> S] /\ h[0] = c /\ \A i \in 1 .. 0 : h[i] = g[i][h[i - 1]]
    OBVIOUS
  <2> QED
    BY <2>1
<1>2. ASSUME NEW n \in Nat, Defined(n) PROVE Defined(n + 1)
  <2>1. PICK h \in [0 .. n -> S] : h[0] = c /\ \A i \in 1 .. n : h[i] = g[i][h[i - 1]]
    BY <1>2
  <2> DEFINE k == [i \in 0 .. n + 1 |-> IF i \in 0 .. n THEN h[i] ELSE g[n + 1][h[n]]]
  <2>2. g[n + 1][h[n]] \in S
    BY <2>1
  <2>3. k \in [0 .. n + 1 -> S]
    BY <2>1, <2>2
  <2>4. k[0] = c
    BY <2>1
  <2>5. ASSUME NEW i \in 1 .. n + 1 PROVE k[i] = g[i][k[i - 1]]
    <3>1. k[i - 1] = h[i - 1]
      OBVIOUS
    <3>2. CASE i = n + 1
      BY <3>1, <3>2
    <3>3. CASE i # n + 1
      BY <2>1, <3>1, <3>3
    <3> QED
      BY <3>2, <3>3
  <2> HIDE DEF k
  <2> QED
    BY <2>3, <2>4, <2>5
<1> HIDE DEF Defined
<1>3. \A n \in Nat : n \in P
  <2>1. 0 \in P
    BY <1>1
  <2>2. \A n \in Nat : n \in P => n + 1 \in P
    BY <1>2
  <2> HIDE DEF P
  <2> QED
    BY <2>1, <2>2, NatInductionSet
<1> QED
  BY <1>3 DEF Defined, DefinedBy

\* A set that holds the empty set, and with each subset of S every larger one by an element,
\* holds S if S is finite.
LEMMA SubsetInduction ==
  ASSUME NEW S, IsFiniteSet(S), NEW P, {} \in P,
         \A T \in SUBSET S : \A x \in S \ T : T \in P => T \cup {x} \in P
  PROVE  S \in P
<1> DEFINE N == {n \in Nat : \A T \in SUBSET S : Cardinality(T) = n => T \in P}
<1>1. \A T \in SUBSET S : IsFiniteSet(T) /\ Cardinality(T) \in Nat
  BY FS_Subset, FS_CardinalityType
<1>2. 0 \in N
  BY <1>1, FS_EmptySet
<1>3. \A n \in Nat : n \in N => n + 1 \in N
  <2> SUFFICES ASSUME NEW n \in Nat, n \in N, NEW T \in SUBSET S, Cardinality(T) = n + 1
               PROVE  T \in P
    OBVIOUS
  <2>1. T # {}
    <3>1. Cardinality({}) = 0 /\ n + 1 # 0
      BY FS_EmptySet
    <3> QED
      BY <3>1
  <2>2. PICK x \in T : TRUE
    BY <2>1
  <2>3. Cardinality(T \ {x}) = n
    BY <1>1, <2>2, FS_RemoveElement
  <2>4. T \ {x} \in P
    BY <2>3
  <2>5. (T \ {x}) \cup {x} = T
    BY <2>2
  <2> QED
    BY <2>2, <2>4, <2>5
<1> HIDE DEF N
<1>4. \A n \in Nat : n \in N
  BY <1>2, <1>3, NatInductionSet
<1> QED
  BY <1>1, <1>4 DEF N

\* The element of a set that the folds of the library take first.
AnyOf(T) == CHOOSE x \in T : TRUE

\* The function h on the subsets of S that folds their elements with g, from b on.
FoldedBy(h, S, b, g) ==
  \A T \in SUBSET S : h[T] = IF T = {} THEN b ELSE g[AnyOf(T)][h[T \ {AnyOf(T)}]]

LEMMA AnyOfIn ==
  ASSUME NEW T, T # {}
  PROVE  AnyOf(T) \in T
BY DEF AnyOf

\* Every such recursion defines a function.
LEMMA FoldExists ==
  ASSUME NEW S, IsFiniteSet(S), NEW X, NEW b \in X, NEW g \in [S -> [X -> X]]
  PROVE  \E h \in [SUBSET S -> X] : FoldedBy(h, S, b, g)
<1> DEFINE Small(n) == {T \in SUBSET S : Cardinality(T) <= n}
           Folded(n) == \E h \in [Small(n) -> X] :
                          \A T \in Small(n) :
                            h[T] = IF T = {} THEN b ELSE g[AnyOf(T)][h[T \ {AnyOf(T)}]]
           N == {n \in Nat : Folded(n)}
<1>1. \A T \in SUBSET S : IsFiniteSet(T) /\ Cardinality(T) \in Nat
  BY FS_Subset, FS_CardinalityType
<1>2. \A T \in SUBSET S : T # {} => AnyOf(T) \in T
  BY AnyOfIn
<1>3. \A T \in SUBSET S : T # {} => Cardinality(T \ {AnyOf(T)}) = Cardinality(T) - 1
  BY <1>1, <1>2, FS_RemoveElement
<1>4. \A T \in SUBSET S : Cardinality(T) = 0 <=> T = {}
  BY <1>1, FS_EmptySet
<1>5. Folded(0)
  <2> DEFINE h == [T \in Small(0) |-> b]
  <2>1. \A T \in Small(0) : T = {}
    BY <1>1, <1>4
  <2>2. h \in [Small(0) -> X]
    OBVIOUS
  <2>3. \A T \in Small(0) : h[T] = b
    OBVIOUS
  <2> HIDE DEF h
  <2> QED
    BY <2>1, <2>2, <2>3
<1>6. ASSUME NEW n \in Nat, Folded(n) PROVE Folded(n + 1)
  <2>1. PICK h \in [Small(n) -> X] :
          \A T \in Small(n) :
            h[T] = IF T = {} THEN b ELSE g[AnyOf(T)][h[T \ {AnyOf(T)}]]
    BY <1>6
  <2> DEFINE k == [T \in Small(n + 1) |->
                     IF T \in Small(n) THEN h[T] ELSE g[AnyOf(T)][h[T \ {AnyOf(T)}]]]
  <2>2. \A T \in Small(n + 1) : T # {} => T \ {AnyOf(T)} \in Small(n)
    BY <1>1, <1>3
  <2>3. \A T \in Small(n + 1) : T \in Small(n) \/ T # {}
    BY <1>1, <1>4
  <2>4. ASSUME NEW T \in Small(n + 1) PROVE k[T] \in X
    <3>1. CASE T \in Small(n)
      BY <2>1, <3>1
    <3>2. CASE T \notin Small(n)
      <4>1. T # {} /\ T \ {AnyOf(T)} \in Small(n)
        BY <2>2, <2>3, <3>2
      <4>2. h[T \ {AnyOf(T)}] \in X /\ AnyOf(T) \in S
        BY <1>2, <2>1, <4>1
      <4> QED
        BY <3>2, <4>2
    <3> QED
      BY <3>1, <3>2
  <2>5. k \in [Small(n + 1) -> X]
    BY <2>4
  <2>6. ASSUME NEW T \in Small(n + 1)
        PROVE  k[T] = IF T = {} THEN b ELSE g[AnyOf(T)][k[T \ {AnyOf(T)}]]
    <3>1. CASE T = {}
      <4>1. T \in Small(n)
        BY <1>4, <3>1
      <4> QED
        BY <2>1, <3>1, <4>1
    <3>2. CASE T # {}
      <4>1. T \ {AnyOf(T)} \in Small(n) /\ T \ {AnyOf(T)} \in Small(n + 1)
        BY <1>1, <2>2, <3>2
      <4>2. k[T \ {AnyOf(T)}] = h[T \ {AnyOf(T)}]
        BY <4>1
      <4>3. k[T] = g[AnyOf(T)][h[T \ {AnyOf(T)}]]
        BY <2>1, <3>2
      <4> QED
        BY <3>2, <4>2, <4>3
    <3> QED
      BY <3>1, <3>2
  <2> HIDE DEF k
  <2> QED
    BY <2>5, <2>6
<1> HIDE DEF Folded
<1>7. \A n \in Nat : n \in N
  <2>1. 0 \in N
    BY <1>5
  <2>2. \A n \in Nat : n \in N => n + 1 \in N
    BY <1>6
  <2> HIDE DEF N
  <2> QED
    BY <2>1, <2>2, NatInductionSet
<1>8. Folded(Cardinality(S)) /\ Cardinality(S) \in Nat
  BY <1>1, <1>7
<1>9. Small(Cardinality(S)) = SUBSET S
  <2>1. \A T \in SUBSET S : Cardinality(T) <= Cardinality(S)
    BY FS_Subset
  <2> QED
    BY <2>1
<1>10. \E h \in [SUBSET S -> X] :
         \A T \in SUBSET S : h[T] = IF T = {} THEN b ELSE g[AnyOf(T)][h[T \ {AnyOf(T)}]]
  BY <1>8, <1>9 DEF Folded
<1> QED
  BY <1>10 DEF FoldedBy

\* Two functions that are computed alike from that of a smaller set are equal.
LEMMA FoldsAgree ==
  ASSUME NEW S, IsFiniteSet(S), NEW h, NEW k, h[{}] = k[{}],
         \A T \in (SUBSET S) \ {{}} : h[T \ {AnyOf(T)}] = k[T \ {AnyOf(T)}] => h[T] = k[T]
  PROVE  \A T \in SUBSET S : h[T] = k[T]
<1> DEFINE N == {n \in Nat : \A T \in SUBSET S : Cardinality(T) = n => h[T] = k[T]}
<1>1. \A T \in SUBSET S : IsFiniteSet(T) /\ Cardinality(T) \in Nat
  BY FS_Subset, FS_CardinalityType
<1>2. 0 \in N
  BY <1>1, FS_EmptySet
<1>3. \A n \in Nat : n \in N => n + 1 \in N
  <2> SUFFICES ASSUME NEW n \in Nat, n \in N, NEW T \in SUBSET S, Cardinality(T) = n + 1
               PROVE  h[T] = k[T]
    OBVIOUS
  <2>1. T # {}
    <3>1. Cardinality({}) = 0 /\ n + 1 # 0
      BY FS_EmptySet
    <3> QED
      BY <3>1
  <2>2. AnyOf(T) \in T
    BY <2>1, AnyOfIn
  <2>3. Cardinality(T \ {AnyOf(T)}) = n
    BY <1>1, <2>2, FS_RemoveElement
  <2>4. h[T \ {AnyOf(T)}] = k[T \ {AnyOf(T)}]
    BY <2>3
  <2>5. T \in (SUBSET S) \ {{}}
    BY <2>1
  <2> QED
    BY <2>4, <2>5
<1> HIDE DEF N
<1>4. \A n \in Nat : n \in N
  BY <1>2, <1>3, NatInductionSet
<1> QED
  BY <1>1, <1>4 DEF N

\* The function h on the subsets of S, which is finite, adds up the numbers w of their
\* elements.
SumOn(h, S, w) ==
  /\ IsFiniteSet(S) /\ w \in [S -> Int] /\ h \in [SUBSET S -> Int]
  /\ \A T \in SUBSET S : h[T] = IF T = {} THEN 0 ELSE w[AnyOf(T)] + h[T \ {AnyOf(T)}]

\* There is such a function.
LEMMA SumExists ==
  ASSUME NEW S, IsFiniteSet(S), NEW w \in [S -> Int]
  PROVE  \E h : SumOn(h, S, w)
<1> DEFINE g == [i \in S |-> [n \in Int |-> w[i] + n]]
<1>1. g \in [S -> [Int -> Int]]
  OBVIOUS
<1>2. \A i \in S : \A n \in Int : g[i][n] = w[i] + n
  OBVIOUS
<1> HIDE DEF g
<1>3. 0 \in Int
  OBVIOUS
<1>4. PICK h \in [SUBSET S -> Int] : FoldedBy(h, S, 0, g)
  BY <1>1, <1>3, FoldExists
<1>5. ASSUME NEW T \in SUBSET S, T # {} PROVE h[T] = w[AnyOf(T)] + h[T \ {AnyOf(T)}]
  <2>1. AnyOf(T) \in S /\ h[T \ {AnyOf(T)}] \in Int
    BY <1>5, AnyOfIn
  <2>2. h[T] = g[AnyOf(T)][h[T \ {AnyOf(T)}]]
    BY <1>4, <1>5 DEF FoldedBy
  <2> QED
    BY <1>2, <2>1, <2>2
<1>6. h[{}] = 0
  BY <1>4 DEF FoldedBy
<1> QED
  BY <1>5, <1>6 DEF SumOn

\* What a sum promises: an element may be taken out, two sets that have nothing in common
\* may be added one by one, and a larger set has no smaller sum.
Takes(h, w, T, x) == h[T] = w[x] + h[T \ {x}]
Joins(h, A, B) == h[A \cup B] = h[A] + h[B]
NotNegative(w, S) == \A x \in S : w[x] >= 0
NoLess(h, A, B) == h[A] >= 0 /\ h[A] <= h[B]

\* It does not matter which element is taken first.
LEMMA SumTakes ==
  ASSUME NEW S, NEW w, NEW h, SumOn(h, S, w)
  PROVE  \A T \in SUBSET S : \A x \in T : Takes(h, w, T, x)
<1> DEFINE N == {n \in Nat : \A T \in SUBSET S : Cardinality(T) = n =>
                              \A x \in T : Takes(h, w, T, x)}
<1>0. IsFiniteSet(S) /\ w \in [S -> Int] /\ h \in [SUBSET S -> Int]
  BY DEF SumOn
<1>1. \A T \in SUBSET S : IsFiniteSet(T) /\ Cardinality(T) \in Nat
  BY <1>0, FS_Subset, FS_CardinalityType
<1>2. 0 \in N
  <2>1. \A T \in SUBSET S : Cardinality(T) = 0 => T = {}
    BY <1>1, FS_EmptySet
  <2> QED
    BY <2>1
<1>3. \A n \in Nat : n \in N => n + 1 \in N
  <2> SUFFICES ASSUME NEW n \in Nat, n \in N, NEW T \in SUBSET S, Cardinality(T) = n + 1,
                      NEW x \in T
               PROVE  Takes(h, w, T, x)
    OBVIOUS
  <2> DEFINE a == AnyOf(T)
             Rest == (T \ {a}) \ {x}
  <2>1. a \in T
    BY AnyOfIn
  <2>2. h[T] = w[a] + h[T \ {a}]
    BY DEF SumOn
  <2> HIDE DEF a
  <2>3. Cardinality(T \ {a}) = n /\ Cardinality(T \ {x}) = n
    <3>1. IsFiniteSet(T) /\ Cardinality(T) = n + 1 /\ (n + 1) - 1 = n
      BY <1>1
    <3>2. \A y \in T : Cardinality(T \ {y}) = (n + 1) - 1
      BY <3>1, FS_RemoveElement
    <3> QED
      BY <2>1, <3>1, <3>2
  <2>4. CASE x = a
    BY <2>2, <2>4 DEF Takes
  <2>5. CASE x # a
    <3>1. x \in T \ {a} /\ a \in T \ {x} /\ (T \ {x}) \ {a} = Rest
      BY <2>1, <2>5
    <3>2. T \ {a} \in SUBSET S /\ T \ {x} \in SUBSET S /\ Rest \in SUBSET S
      OBVIOUS
    <3>3. Takes(h, w, T \ {a}, x) /\ Takes(h, w, T \ {x}, a)
      BY <2>3, <3>1, <3>2
    <3>4. h[T \ {a}] = w[x] + h[Rest] /\ h[T \ {x}] = w[a] + h[Rest]
      BY <3>1, <3>3 DEF Takes
    <3>5. w[a] \in Int /\ w[x] \in Int /\ h[Rest] \in Int
      BY <1>0, <2>1, <3>2
    <3> HIDE DEF Rest
    <3>6. h[T] = w[x] + h[T \ {x}]
      BY <2>2, <3>4, <3>5
    <3> QED
      BY <3>6 DEF Takes
  <2> QED
    BY <2>4, <2>5
<1> HIDE DEF N
<1>4. \A n \in Nat : n \in N
  BY <1>2, <1>3, NatInductionSet
<1> QED
  BY <1>1, <1>4 DEF N

\* The sum over two sets that have nothing in common.
LEMMA SumUnion ==
  ASSUME NEW S, NEW w, NEW h, SumOn(h, S, w),
         NEW A \in SUBSET S, NEW B \in SUBSET S, A \cap B = {}
  PROVE  Joins(h, A, B)
<1> DEFINE P == {T \in SUBSET B : Joins(h, A, T)}
<1>1. IsFiniteSet(S) /\ w \in [S -> Int] /\ h \in [SUBSET S -> Int]
  BY DEF SumOn
<1>2. \A T \in SUBSET S : \A x \in T : Takes(h, w, T, x)
  BY SumTakes
<1>3. IsFiniteSet(B)
  BY <1>1, FS_Subset
<1>4. {} \in P
  <2>1. h[{}] = 0 /\ A \cup {} = A /\ h[A] \in Int
    BY <1>1 DEF SumOn
  <2>2. h[A \cup {}] = h[A] + h[{}]
    BY <2>1
  <2> QED
    BY <2>2 DEF Joins
<1>5. ASSUME NEW T \in SUBSET B, NEW x \in B \ T, T \in P PROVE T \cup {x} \in P
  <2>1. /\ (T \cup {x}) \ {x} = T /\ (A \cup (T \cup {x})) \ {x} = A \cup T
        /\ T \cup {x} \in SUBSET S /\ A \cup (T \cup {x}) \in SUBSET S
        /\ x \in T \cup {x} /\ x \in A \cup (T \cup {x})
    OBVIOUS
  <2>2. Takes(h, w, T \cup {x}, x) /\ Takes(h, w, A \cup (T \cup {x}), x)
    BY <1>2, <2>1
  <2>3. h[T \cup {x}] = w[x] + h[T] /\ h[A \cup (T \cup {x})] = w[x] + h[A \cup T]
    BY <2>1, <2>2 DEF Takes
  <2>4. Joins(h, A, T)
    BY <1>5
  <2>5. h[A \cup T] = h[A] + h[T] /\ h[A] \in Int /\ h[T] \in Int /\ w[x] \in Int
    BY <1>1, <2>4 DEF Joins
  <2>6. h[A \cup (T \cup {x})] = h[A] + h[T \cup {x}]
    BY <2>3, <2>5
  <2> QED
    BY <2>6 DEF Joins
<1> HIDE DEF P
<1>6. B \in P
  BY <1>3, <1>4, <1>5, SubsetInduction
<1> QED
  BY <1>6 DEF P

\* If no number is negative no sum is, and that over a larger set is not less.
LEMMA SumGrows ==
  ASSUME NEW S, NEW w, NEW h, SumOn(h, S, w), NotNegative(w, S),
         NEW B \in SUBSET S, NEW A \in SUBSET B
  PROVE  NoLess(h, A, B)
<1>1. IsFiniteSet(S) /\ w \in [S -> Int] /\ h \in [SUBSET S -> Int]
  BY DEF SumOn
<1>2. \A T \in SUBSET S : \A x \in T : Takes(h, w, T, x)
  BY SumTakes
<1>3. \A x \in S : w[x] >= 0
  BY DEF NotNegative
<1>4. ASSUME NEW U \in SUBSET S PROVE h[U] >= 0
  <2> DEFINE P == {T \in SUBSET U : h[T] >= 0}
  <2>1. IsFiniteSet(U)
    BY <1>1, FS_Subset
  <2>2. {} \in P
    <3>1. h[{}] = 0
      BY DEF SumOn
    <3> QED
      BY <3>1
  <2>3. ASSUME NEW T \in SUBSET U, NEW x \in U \ T, T \in P PROVE T \cup {x} \in P
    <3>1. (T \cup {x}) \ {x} = T /\ T \cup {x} \in SUBSET S /\ x \in T \cup {x}
      OBVIOUS
    <3>2. Takes(h, w, T \cup {x}, x)
      BY <1>2, <3>1
    <3>3. h[T] \in Int /\ h[T] >= 0 /\ w[x] \in Int /\ w[x] >= 0
      BY <1>1, <1>3, <2>3
    <3>4. h[T \cup {x}] = w[x] + h[T]
      BY <3>1, <3>2 DEF Takes
    <3>5. h[T \cup {x}] >= 0
      BY <3>3, <3>4
    <3> QED
      BY <3>5
  <2> HIDE DEF P
  <2>4. U \in P
    BY <2>1, <2>2, <2>3, SubsetInduction
  <2> QED
    BY <2>4 DEF P
<1>5. A \cup (B \ A) = B /\ A \cap (B \ A) = {} /\ A \in SUBSET S /\ B \ A \in SUBSET S
  OBVIOUS
<1>6. Joins(h, A, B \ A)
  BY <1>5, SumUnion
<1>7. h[B] = h[A] + h[B \ A]
  BY <1>5, <1>6 DEF Joins
<1>8. h[A] \in Int /\ h[B \ A] \in Int /\ h[A] >= 0 /\ h[B \ A] >= 0
  BY <1>1, <1>4, <1>5
<1>9. h[A] >= 0 /\ h[A] <= h[B]
  BY <1>7, <1>8
<1> QED
  BY <1>9 DEF NoLess

\* The functions h and k are computed alike from that of a smaller set.
Alike(h, k, S) ==
  /\ h[{}] = k[{}]
  /\ \A T \in (SUBSET S) \ {{}} : h[T \ {AnyOf(T)}] = k[T \ {AnyOf(T)}] => h[T] = k[T]

\* Then they are the same on S itself.
LEMMA FoldsMeet ==
  ASSUME NEW S, IsFiniteSet(S), NEW h, NEW k, Alike(h, k, S)
  PROVE  h[S] = k[S]
<1>1. \A T \in SUBSET S : h[T] = k[T]
  BY FoldsAgree DEF Alike
<1> QED
  BY <1>1
=============================================================================
