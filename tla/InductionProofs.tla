---------------------------- MODULE InductionProofs ---------------------------
(* Induction over the naturals without a predicate parameter: what is to be  *)
(* shown of every number is put as a set of numbers. From it, that a fold    *)
(* over 1..N written as a recursive function is the function it says it is,  *)
(* that so is a function that recurses over the parts of a tree, and that a  *)
(* sum over a finite set does not depend on the order in which its elements  *)
(* are chosen.                                                               *)
EXTENDS Integers, FiniteSetTheorems, WellFoundedInduction, TLAPS

(* Every non-empty set of naturals has a least element.                      *)
LEMMA LeastNumber ==
  ASSUME NEW S \in SUBSET Nat, S # {}
  PROVE  \E m \in S : \A n \in S : m <= n
<1>1. PICK m \in S : \A y \in S : ~ (<<y, m>> \in OpToRel(<, Nat))
  BY NatLessThanWellFounded, WFMin
<1>2. \A y \in S : ~(y < m)
  BY <1>1 DEF OpToRel
<1>3. \A y \in S : y \in Nat /\ m \in Nat
  OBVIOUS
<1>4. \A y \in S : m <= y
  BY <1>2, <1>3
<1> QED
  BY <1>4

(* And every non-empty set of naturals with a bound has a greatest.          *)
LEMMA GreatestNumber ==
  ASSUME NEW N \in Nat, NEW S \in SUBSET (0..N), S # {}
  PROVE  \E m \in S : \A n \in S : n <= m
<1> DEFINE T == {N - x : x \in S}
<1>0. \A x \in S : N - x \in Nat
  OBVIOUS
<1>1. T \in SUBSET Nat /\ T # {}
  BY <1>0
<1>2. PICK t \in T : \A n \in T : t <= n
  <2> HIDE DEF T
  <2> QED
    BY <1>1, LeastNumber
<1>3. PICK m \in S : t = N - m
  BY <1>2
<1>4. ASSUME NEW n \in S PROVE n <= m
  <2>1. N - n \in T /\ n \in 0..N /\ m \in 0..N
    OBVIOUS
  <2>2. N - m <= N - n
    BY <1>2, <1>3, <2>1
  <2> QED
    BY <2>1, <2>2
<1> QED
  BY <1>4

(* What holds of 0, and of n + 1 with n, holds up to N.                      *)
LEMMA UpTo ==
  ASSUME NEW N \in Nat, NEW S, 0 \in S,
         \A n \in 0..N - 1 : n \in S => n + 1 \in S
  PROVE  0..N \subseteq S
<1> SUFFICES ASSUME (0..N) \ S # {} PROVE FALSE
  OBVIOUS
<1>1. PICK m \in (0..N) \ S : \A n \in (0..N) \ S : m <= n
  <2>1. (0..N) \ S \in SUBSET Nat
    OBVIOUS
  <2> QED
    BY <2>1, LeastNumber
<1>2. m - 1 \in 0..N - 1 /\ (m - 1) + 1 = m
  BY <1>1
<1>3. m - 1 \in S
  BY <1>1, <1>2
<1> QED
  BY <1>1, <1>2, <1>3

(* A fold over 1..N: its steps, and the values it goes through.              *)
Steps(N, A) == [1..N -> [A -> A]]
IsFold(f, N, a, step) == f[0] = a /\ \A n \in 1..N : f[n] = step[n][f[n - 1]]

(* The function a fold asks for exists, whatever each of its steps makes of  *)
(* a value.                                                                  *)
LEMMA FoldExists ==
  ASSUME NEW N \in Nat, NEW A, NEW a \in A, NEW step \in Steps(N, A)
  PROVE  \E f \in [0..N -> A] : IsFold(f, N, a, step)
<1>0. step \in [1..N -> [A -> A]]
  BY DEF Steps
<1> DEFINE Partial(g, n) == g[0] = a /\ \A i \in 1..n : g[i] = step[i][g[i - 1]]
           S == {n \in 0..N : \E g \in [0..n -> A] : Partial(g, n)}
<1>1. 0 \in S
  <2> DEFINE g == [i \in 0..0 |-> a]
  <2>1. g \in [0..0 -> A] /\ Partial(g, 0) /\ 0 \in 0..N
    OBVIOUS
  <2> HIDE DEF g, Partial
  <2> QED
    BY <2>1
<1>2. ASSUME NEW n \in 0..N - 1, n \in S PROVE n + 1 \in S
  <2>1. PICK g \in [0..n -> A] : Partial(g, n)
    BY <1>2
  <2> DEFINE h == [i \in 0..n + 1 |-> IF i = n + 1 THEN step[n + 1][g[n]] ELSE g[i]]
  <2>2. n + 1 \in 1..N /\ n \in 0..n /\ n + 1 \in 0..N
    OBVIOUS
  <2>3. step[n + 1][g[n]] \in A
    BY <1>0, <2>1, <2>2
  <2>4. h \in [0..n + 1 -> A]
    BY <2>1, <2>3
  <2>5. h[0] = a /\ h[n] = g[n] /\ h[n + 1] = step[n + 1][g[n]]
    BY <2>1, <2>2
  <2>6. ASSUME NEW i \in 1..n PROVE h[i] = step[i][h[i - 1]]
    <3>1. h[i] = g[i] /\ h[i - 1] = g[i - 1]
      BY <2>2
    <3> QED
      BY <2>1, <3>1
  <2> HIDE DEF h
  <2>7. Partial(h, n + 1)
    BY <2>2, <2>5, <2>6
  <2> HIDE DEF Partial
  <2> QED
    BY <2>2, <2>4, <2>7
<1> HIDE DEF S
<1>3. 0..N \subseteq S
  BY <1>1, <1>2, UpTo
<1> QED
  BY <1>3 DEF S, IsFold

-----------------------------------------------------------------------------
(* One of a set has the least rank.                                          *)
LEMMA LeastRank ==
  ASSUME NEW S, S # {}, NEW h, \A x \in S : h[x] \in Nat
  PROVE  \E x \in S : \A y \in S : h[x] <= h[y]
<1> DEFINE T == {h[x] : x \in S}
<1>1. T \in SUBSET Nat /\ T # {}
  OBVIOUS
<1> HIDE DEF T
<1>2. PICK m \in T : \A n \in T : m <= n
  BY <1>1, LeastNumber
<1> QED
  BY <1>2 DEF T

(* What F makes of a function at x depends on its values at lower ranks only. *)
Local(F, D, R, h) ==
  \A f, g \in [D -> R] : \A x \in D :
    (\A y \in D : h[y] < h[x] => f[y] = g[y]) => F[f][x] = F[g][x]

(* Then the function that F leaves as it is exists: a function that recurses *)
(* over the parts of a tree, the depth of trees being bounded.               *)
Descends(F, D, R, h, N) == /\ N \in Nat /\ R # {} /\ h \in [D -> 0..N]
                           /\ F \in [[D -> R] -> [D -> R]] /\ Local(F, D, R, h)
Fixed(F, D, R) == \E f \in [D -> R] : F[f] = f

LEMMA FixedPoint ==
  ASSUME NEW N, NEW D, NEW R, NEW h, NEW F, Descends(F, D, R, h, N)
  PROVE  Fixed(F, D, R)
<1> /\ N \in Nat /\ R # {} /\ h \in [D -> 0..N]
    /\ F \in [[D -> R] -> [D -> R]] /\ Local(F, D, R, h)
  BY DEF Descends
<1> DEFINE A == [D -> R]
           M == N + 2
           step == [n \in 1..M |-> F]
<1>1. PICK a \in A : TRUE
  <2>1. PICK r \in R : TRUE
    OBVIOUS
  <2>2. [x \in D |-> r] \in A
    OBVIOUS
  <2> QED
    BY <2>2
<1>2. M \in Nat /\ step \in Steps(M, A)
  BY DEF Steps
<1>3. PICK f \in [0..M -> A] : IsFold(f, M, a, step)
  <2> HIDE DEF A, M, step
  <2> QED
    BY <1>1, <1>2, FoldExists
<1>4. \A n \in 1..M : f[n] = F[f[n - 1]]
  <2>1. \A n \in 1..M : step[n] = F
    OBVIOUS
  <2> HIDE DEF step
  <2> QED
    BY <1>3, <2>1 DEF IsFold
<1>5. \A n \in 0..M : f[n] \in A
  BY <1>3
<1> HIDE DEF step
<1> DEFINE Settled(n) == \A x \in D : h[x] < n => f[n][x] = f[n + 1][x]
           T == {n \in 0..N + 1 : Settled(n)}
<1>6. 0 \in T
  <2>1. \A x \in D : h[x] \in 0..N /\ ~(h[x] < 0)
    OBVIOUS
  <2> QED
    BY <2>1
<1>7. ASSUME NEW n \in 0..N, n \in T PROVE n + 1 \in T
  <2>1. /\ n + 1 \in 1..M /\ n + 2 \in 1..M /\ (n + 1) - 1 = n /\ (n + 2) - 1 = n + 1
        /\ n \in 0..M /\ n + 1 \in 0..M /\ n + 1 \in 0..N + 1 /\ (n + 1) + 1 = n + 2
    OBVIOUS
  <2>2. f[n] \in A /\ f[n + 1] \in A /\ f[n + 1] = F[f[n]] /\ f[n + 2] = F[f[n + 1]]
    BY <1>4, <1>5, <2>1
  <2>3. ASSUME NEW x \in D, h[x] < n + 1 PROVE f[n + 1][x] = f[n + 2][x]
    <3>1. \A y \in D : h[y] < h[x] => h[y] < n
      <4>1. \A y \in D : h[y] \in Nat
        OBVIOUS
      <4> QED
        BY <2>3, <4>1
    <3>2. \A y \in D : h[y] < h[x] => f[n][y] = f[n + 1][y]
      BY <1>7, <3>1
    <3>3. F[f[n]][x] = F[f[n + 1]][x]
      BY <2>2, <3>2 DEF Local
    <3> QED
      BY <2>2, <3>3
  <2>4. Settled(n + 1)
    BY <2>1, <2>3
  <2> HIDE DEF Settled
  <2> QED
    BY <2>1, <2>4
<1>8. N + 1 \in T
  <2> HIDE DEF T
  <2>1. \A n \in 0..(N + 1) - 1 : n \in T => n + 1 \in T
    BY <1>7
  <2>2. N + 1 \in Nat
    OBVIOUS
  <2>3. 0..N + 1 \subseteq T
    BY <1>6, <2>1, <2>2, UpTo
  <2> QED
    BY <2>2, <2>3
<1>9. /\ N + 1 \in 0..M /\ N + 2 \in 1..M /\ N + 2 \in 0..M
      /\ (N + 2) - 1 = N + 1 /\ (N + 1) + 1 = N + 2
      /\ \A x \in D : h[x] < N + 1
  OBVIOUS
<1>10. f[N + 1] \in A /\ f[N + 2] \in A /\ f[N + 2] = F[f[N + 1]]
  BY <1>4, <1>5, <1>9
<1>11. \A x \in D : f[N + 1][x] = f[N + 2][x]
  BY <1>8, <1>9
<1>12. f[N + 1] = f[N + 2]
  BY <1>10, <1>11
<1> QED
  BY <1>10, <1>12 DEF Fixed

-----------------------------------------------------------------------------
(* g is the sum of the weights w over the subsets of S, in the order the     *)
(* choice of an element of a set gives.                                      *)
Pick(T) == CHOOSE x \in T : TRUE
SumStep(g, w, T) == IF T = {} THEN 0 ELSE w[Pick(T)] + g[T \ {Pick(T)}]
IsSum(g, w, S) == g = [T \in SUBSET S |-> SumStep(g, w, T)]

LEMMA PickIn ==
  ASSUME NEW T, T # {}
  PROVE  Pick(T) \in T
BY DEF Pick

(* Sets within S of at most n elements.                                      *)
Small(S, n) == {T \in SUBSET S : Cardinality(T) <= n}

LEMMA SmallParts ==
  ASSUME NEW S, IsFiniteSet(S), NEW n \in Nat, NEW T \in Small(S, n + 1), NEW x \in T
  PROVE  T \ {x} \in Small(S, n)
<1>1. IsFiniteSet(T) /\ Cardinality(T) \in Nat /\ Cardinality(T) <= n + 1
  BY FS_Subset, FS_CardinalityType DEF Small
<1>2. Cardinality(T \ {x}) = Cardinality(T) - 1
  BY <1>1, FS_RemoveElement
<1> QED
  BY <1>1, <1>2 DEF Small

LEMMA SmallEmpty ==
  ASSUME NEW S, IsFiniteSet(S), NEW T \in Small(S, 0)
  PROVE  T = {}
<1>1. IsFiniteSet(T) /\ Cardinality(T) \in Nat /\ Cardinality(T) <= 0
  BY FS_Subset, FS_CardinalityType DEF Small
<1> QED
  BY <1>1, FS_EmptySet

LEMMA SmallAll ==
  ASSUME NEW S, IsFiniteSet(S)
  PROVE  Cardinality(S) \in Nat /\ Small(S, Cardinality(S)) = SUBSET S
BY FS_Subset, FS_CardinalityType DEF Small

(* The sum the definition asks for exists.                                   *)
LEMMA SumExists ==
  ASSUME NEW S, IsFiniteSet(S), NEW w \in [S -> Nat]
  PROVE  \E g \in [SUBSET S -> Nat] : IsSum(g, w, S)
<1> DEFINE N == Cardinality(S)
           Upto(n, g) == \A T \in Small(S, n) : g[T] = SumStep(g, w, T)
           R == {n \in 0..N : \E g \in [Small(S, n) -> Nat] : Upto(n, g)}
<1>0. N \in Nat
  BY SmallAll
<1>1. 0 \in R
  <2> DEFINE g == [T \in Small(S, 0) |-> 0]
  <2>1. g \in [Small(S, 0) -> Nat]
    OBVIOUS
  <2>2. \A T \in Small(S, 0) : T = {} /\ g[T] = 0
    BY SmallEmpty
  <2>3. Upto(0, g)
    BY <2>2 DEF SumStep
  <2> QED
    BY <1>0, <2>1, <2>3
<1>2. ASSUME NEW n \in 0..N - 1, n \in R PROVE n + 1 \in R
  <2>0. n \in Nat /\ n + 1 \in 0..N
    BY <1>0
  <2>1. PICK g \in [Small(S, n) -> Nat] : Upto(n, g)
    BY <1>2
  <2> DEFINE h == [T \in Small(S, n + 1) |-> SumStep(g, w, T)]
  <2>2. ASSUME NEW T \in Small(S, n + 1), T # {}
        PROVE  /\ Pick(T) \in S /\ w[Pick(T)] \in Nat
               /\ T \ {Pick(T)} \in Small(S, n) /\ T \ {Pick(T)} \in Small(S, n + 1)
               /\ g[T \ {Pick(T)}] \in Nat
    <3>1. Pick(T) \in T /\ Pick(T) \in S
      BY <2>2, PickIn DEF Small
    <3>2. T \ {Pick(T)} \in Small(S, n)
      BY <2>0, <3>1, SmallParts
    <3>3. IsFiniteSet(T \ {Pick(T)}) /\ Cardinality(T \ {Pick(T)}) \in Nat
      BY <3>2, FS_Subset, FS_CardinalityType DEF Small
    <3>4. T \ {Pick(T)} \in Small(S, n + 1)
      BY <2>0, <3>2, <3>3 DEF Small
    <3> QED
      BY <2>1, <3>1, <3>2, <3>4
  <2>3. h \in [Small(S, n + 1) -> Nat]
    <3>1. ASSUME NEW T \in Small(S, n + 1) PROVE SumStep(g, w, T) \in Nat
      BY <2>2 DEF SumStep
    <3> QED
      BY <3>1
  <2>4. ASSUME NEW T \in Small(S, n + 1) PROVE h[T] = SumStep(h, w, T)
    <3>1. CASE T = {}
      BY <3>1 DEF SumStep
    <3>2. CASE T # {}
      <4> DEFINE U == T \ {Pick(T)}
      <4>1. U \in Small(S, n) /\ U \in Small(S, n + 1)
        BY <2>2, <3>2
      <4> HIDE DEF U
      <4>2. h[U] = g[U]
        BY <2>1, <4>1
      <4>3. h[T] = w[Pick(T)] + g[U]
        BY <3>2 DEF SumStep, U
      <4> QED
        BY <3>2, <4>2, <4>3 DEF SumStep, U
    <3> QED
      BY <3>1, <3>2
  <2> HIDE DEF h
  <2>5. Upto(n + 1, h)
    BY <2>4
  <2> QED
    BY <2>0, <2>3, <2>5
<1> HIDE DEF R
<1>3. N \in R
  BY <1>0, <1>1, <1>2, UpTo
<1>4. PICK g \in [SUBSET S -> Nat] : Upto(N, g)
  BY <1>3, SmallAll DEF R
<1>5. \A T \in SUBSET S : g[T] = SumStep(g, w, T)
  BY <1>4, SmallAll
<1>6. g = [T \in SUBSET S |-> g[T]]
  BY <1>4
<1> QED
  BY <1>5, <1>6 DEF IsSum

(* Two sums agree on a set on which their weights do.                        *)
LEMMA SumsAgree ==
  ASSUME NEW S, IsFiniteSet(S), NEW w, NEW g, IsSum(g, w, S),
         NEW U, IsFiniteSet(U), NEW v, NEW h, IsSum(h, v, U),
         NEW T \in SUBSET (S \cap U), \A x \in T : w[x] = v[x]
  PROVE  g[T] = h[T]
<1> DEFINE N == Cardinality(T)
           R == {n \in 0..N : \A X \in Small(T, n) : g[X] = h[X]}
<1>0. IsFiniteSet(T) /\ N \in Nat /\ T \in Small(T, N)
  <2>1. IsFiniteSet(T)
    BY FS_Subset
  <2> QED
    BY <2>1, SmallAll
<1>1. ASSUME NEW X \in SUBSET T PROVE g[X] = SumStep(g, w, X) /\ h[X] = SumStep(h, v, X)
  BY DEF IsSum
<1>2. 0 \in R
  <2>1. ASSUME NEW X \in Small(T, 0) PROVE g[X] = h[X]
    <3>1. X = {} /\ X \in SUBSET T
      BY <1>0, SmallEmpty
    <3> QED
      BY <1>1, <3>1 DEF SumStep
  <2> QED
    BY <1>0, <2>1
<1>3. ASSUME NEW n \in 0..N - 1, n \in R PROVE n + 1 \in R
  <2>0. n \in Nat /\ n + 1 \in 0..N
    BY <1>0
  <2>1. ASSUME NEW X \in Small(T, n + 1) PROVE g[X] = h[X]
    <3>0. X \in SUBSET T
      BY DEF Small
    <3>1. CASE X = {}
      BY <1>1, <3>0, <3>1 DEF SumStep
    <3>2. CASE X # {}
      <4>1. Pick(X) \in X /\ w[Pick(X)] = v[Pick(X)]
        BY <3>0, <3>2, PickIn
      <4>2. X \ {Pick(X)} \in Small(T, n)
        BY <1>0, <2>0, <4>1, SmallParts
      <4>3. g[X \ {Pick(X)}] = h[X \ {Pick(X)}]
        BY <1>3, <4>2
      <4> QED
        BY <1>1, <3>0, <3>2, <4>1, <4>3 DEF SumStep
    <3> QED
      BY <3>1, <3>2
  <2> QED
    BY <2>0, <2>1
<1> HIDE DEF R
<1>4. N \in R
  BY <1>0, <1>2, <1>3, UpTo
<1> QED
  BY <1>0, <1>4 DEF R

(* The order does not matter.                                                *)
Weighed(g, w, S) == /\ IsFiniteSet(S) /\ w \in [S -> Nat] /\ g \in [SUBSET S -> Nat]
                    /\ IsSum(g, w, S)
Taken(g, w, S) == \A y \in S : g[S] = w[y] + g[S \ {y}]

LEMMA SumTakes ==
  ASSUME NEW S, NEW w, NEW g, Weighed(g, w, S)
  PROVE  Taken(g, w, S)
<1> USE DEF Weighed
<1> SUFFICES ASSUME NEW y \in S PROVE g[S] = w[y] + g[S \ {y}]
  BY DEF Taken
<1> DEFINE N == Cardinality(S)
           R == {n \in 0..N : \A T \in Small(S, n) : \A x \in T : g[T] = w[x] + g[T \ {x}]}
<1>0. N \in Nat /\ S \in Small(S, N)
  BY SmallAll
<1>1. 0 \in R
  <2>1. ASSUME NEW X \in Small(S, 0) PROVE X = {}
    BY SmallEmpty
  <2> QED
    BY <1>0, <2>1
<1>2. ASSUME NEW n \in 0..N - 1, n \in R PROVE n + 1 \in R
  <2>0. n \in Nat /\ n + 1 \in 0..N
    BY <1>0
  <2>1. ASSUME NEW T \in Small(S, n + 1), NEW x \in T
        PROVE  g[T] = w[x] + g[T \ {x}]
    <3> DEFINE c == Pick(T)
               V == T \ {c}
               W == T \ {x}
               Z == T \ {c, x}
    <3>1. T \in SUBSET S /\ c \in T /\ T # {}
      BY PickIn DEF Small
    <3>2. g[T] = w[c] + g[V]
      BY <3>1 DEF IsSum, SumStep
    <3>3. CASE c = x
      BY <3>2, <3>3
    <3>4. CASE c # x
      <4>1. V \in Small(S, n) /\ W \in Small(S, n)
        BY <2>0, <3>1, SmallParts
      <4>2. x \in V /\ c \in W /\ V \ {x} = Z /\ W \ {c} = Z
        BY <3>1, <3>4
      <4>3. g[V] = w[x] + g[Z]
        BY <1>2, <4>1, <4>2
      <4>4. g[W] = w[c] + g[Z]
        BY <1>2, <4>1, <4>2
      <4>5. w[x] \in Nat /\ w[c] \in Nat /\ g[Z] \in Nat
        BY <3>1
      <4> HIDE DEF c, V, W, Z
      <4>6. g[T] = w[x] + g[W]
        BY <3>2, <4>3, <4>4, <4>5
      <4> QED
        BY <4>6 DEF W
    <3> QED
      BY <3>3, <3>4
  <2> QED
    BY <2>0, <2>1
<1> HIDE DEF R
<1>3. N \in R
  BY <1>0, <1>1, <1>2, UpTo
<1> QED
  BY <1>0, <1>3 DEF R

===============================================================================
