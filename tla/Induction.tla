------------------------------ MODULE Induction ------------------------------
(***************************************************************************)
(* Induction and recursion on the natural numbers and on finite sets, as   *)
(* facts about sets and functions: a predicate is the set of its members,  *)
(* and the step of a recursive definition is a function.  At the end, what *)
(* follows by induction of the numbers of module Binary, and finite sets   *)
(* of integers in ascending order.                                         *)
(***************************************************************************)
EXTENDS Integers, FiniteSets, Binary, FiniteSetTheorems, TLAPS

\* A set of natural numbers has a least member.
LEMMA LeastNatural ==
  ASSUME NEW T, T \subseteq Nat, T # {}
  PROVE  \E n \in T : \A m \in T : n <= m
<1> DEFINE R == OpToRel(<, Nat)
<1>1. \E x \in T : \A y \in T : ~ (<<y, x>> \in R)
  <2>1. IsWellFoundedOn(R, Nat)
    BY NatLessThanWellFounded
  <2> HIDE DEF R
  <2> QED
    BY <2>1, WFMin
<1>2. \A x, y \in Nat : <<y, x>> \in R <=> y < x
  BY DEF OpToRel
<1> HIDE DEF R
<1>3. PICK x \in T : \A y \in T : ~ (<<y, x>> \in R)
  BY <1>1
<1>4. \A y \in T : x <= y
  <2> TAKE y \in T
  <2>1. x \in Nat /\ y \in Nat /\ ~(y < x)
    BY <1>2, <1>3
  <2> QED
    BY <2>1
<1> QED
  BY <1>4

\* A bounded one that is not empty has a greatest member.
LEMMA GreatestNatural ==
  ASSUME NEW T, T \subseteq Nat, T # {}, NEW b \in Nat, \A n \in T : n <= b
  PROVE  \E n \in T : \A m \in T : m <= n
<1> DEFINE U == {u \in Nat : b - u \in T}
<1>1. U \subseteq Nat /\ U # {}
  <2>1. PICK n \in T : TRUE
    OBVIOUS
  <2>2. b - n \in Nat /\ b - (b - n) = n
    BY <2>1
  <2> QED
    BY <2>2
<1>2. PICK u \in U : \A v \in U : u <= v
  <2> HIDE DEF U
  <2> QED
    BY <1>1, LeastNatural
<1>3. b - u \in T /\ u \in Nat
  BY <1>2
<1>4. ASSUME NEW m \in T PROVE m <= b - u
  <2>1. m \in Nat /\ b - m \in Nat /\ b - (b - m) = m
    OBVIOUS
  <2>2. u <= b - m
    BY <1>2, <2>1
  <2> QED
    BY <1>3, <2>1, <2>2
<1> QED
  BY <1>3, <1>4

LEMMA NaturalInduction ==
  ASSUME NEW S, 0 \in S, \A n \in Nat : n \in S => n + 1 \in S
  PROVE  \A n \in Nat : n \in S
<1> SUFFICES ASSUME Nat \ S # {} PROVE FALSE
  OBVIOUS
<1>1. PICK n \in Nat \ S : \A m \in Nat \ S : n <= m
  BY LeastNatural
<1>2. n # 0 /\ n - 1 \in Nat
  BY <1>1
<1>3. n - 1 \in S
  BY <1>1, <1>2
<1> QED
  BY <1>1, <1>2, <1>3

LEMMA InductionUpTo ==
  ASSUME NEW N \in Nat, NEW S, 0 \in S, \A n \in 1 .. N : n - 1 \in S => n \in S
  PROVE  \A n \in 0 .. N : n \in S
<1> DEFINE T == {n \in Nat : n <= N => n \in S}
<1>1. 0 \in T
  OBVIOUS
<1>2. ASSUME NEW n \in Nat, n \in T PROVE n + 1 \in T
  <2> SUFFICES ASSUME n + 1 <= N PROVE n + 1 \in S
    OBVIOUS
  <2>1. n + 1 \in 1 .. N /\ (n + 1) - 1 = n /\ n \in S
    BY <1>2
  <2> QED
    BY <2>1
<1> HIDE DEF T
<1>3. \A n \in Nat : n \in T
  BY <1>1, <1>2, NaturalInduction
<1> QED
  BY <1>3 DEF T

\* Sets that grow from one to the next.
LEMMA Ascending ==
  ASSUME NEW N \in Nat, NEW f, \A i \in 1 .. N : f[i - 1] \subseteq f[i],
         NEW m \in 0 .. N
  PROVE  \A n \in 0 .. N : m <= n => f[m] \subseteq f[n]
<1> DEFINE S == {n \in 0 .. N : m <= n => f[m] \subseteq f[n]}
<1>1. 0 \in S
  OBVIOUS
<1>2. ASSUME NEW n \in 1 .. N, n - 1 \in S PROVE n \in S
  <2> SUFFICES ASSUME m <= n PROVE f[m] \subseteq f[n]
    OBVIOUS
  <2>1. m = n \/ m <= n - 1
    OBVIOUS
  <2> QED
    BY <1>2, <2>1
<1> HIDE DEF S
<1>3. \A n \in 0 .. N : n \in S
  BY <1>1, <1>2, InductionUpTo
<1> QED
  BY <1>3 DEF S

\* The last of them holds the first.
LEMMA LastHoldsFirst ==
  ASSUME NEW N \in Nat, NEW f, \A i \in 1 .. N : f[i - 1] \subseteq f[i]
  PROVE  f[0] \subseteq f[N]
<1>1. 0 \in 0 .. N /\ N \in 0 .. N /\ 0 <= N
  OBVIOUS
<1>2. \A n \in 0 .. N : 0 <= n => f[0] \subseteq f[n]
  BY <1>1, Ascending
<1> QED
  BY <1>1, <1>2

\* Of some subsets of a finite set, one has none of the others as a part.
LEMMA MinimalSubset ==
  ASSUME NEW S, IsFiniteSet(S), NEW U, U \subseteq SUBSET S, U # {}
  PROVE  \E x \in U : \A y \in U : y \subseteq x => y = x
<1> DEFINE R == StrictSubsetOrdering(S)
<1>0. FiniteSubsetsOf(S) = SUBSET S
  BY FS_FiniteSubsetsOfFinite
<1>1. IsWellFoundedOn(R, SUBSET S)
  BY <1>0, FS_StrictSubsetOrderingWellFounded
<1>2. \A x, y \in SUBSET S : <<y, x>> \in R <=> y \subseteq x /\ y # x
  BY DEF StrictSubsetOrdering
<1> HIDE DEF R
<1>3. PICK x \in U : \A y \in U : ~ (<<y, x>> \in R)
  BY <1>1, WFMin
<1>4. \A y \in U : y \subseteq x => y = x
  <2> TAKE y \in U
  <2>1. x \in SUBSET S /\ y \in SUBSET S
    OBVIOUS
  <2> QED
    BY <1>2, <1>3, <2>1
<1> QED
  BY <1>4

\* A set that every pass of a loop adds to is complete after as many passes
\* as it can have members.
LEMMA Saturates ==
  ASSUME NEW S, IsFiniteSet(S), NEW pass \in [SUBSET S -> SUBSET S],
         \A X \in SUBSET S : X \subseteq pass[X],
         NEW N \in Nat, Cardinality(S) <= N,
         NEW f \in [0 .. N -> SUBSET S], \A i \in 1 .. N : f[i] = pass[f[i - 1]]
  PROVE  pass[f[N]] = f[N]
<1> DEFINE T == {n \in 0 .. N : pass[f[n]] = f[n] \/ n <= Cardinality(f[n])}
<1>1. \A X \in SUBSET S : IsFiniteSet(X) /\ Cardinality(X) \in Nat
  BY FS_Subset, FS_CardinalityType
<1>2. 0 \in T
  <2>1. 0 \in 0 .. N
    OBVIOUS
  <2> QED
    BY <1>1, <2>1
<1>3. ASSUME NEW n \in 1 .. N, n - 1 \in T PROVE n \in T
  <2>1. n - 1 \in 0 .. N /\ n \in 0 .. N
    OBVIOUS
  <2>2. f[n] = pass[f[n - 1]] /\ f[n - 1] \in SUBSET S /\ f[n] \in SUBSET S
    BY <2>1
  <2>3. CASE pass[f[n - 1]] = f[n - 1]
    BY <2>2, <2>3
  <2>4. CASE pass[f[n - 1]] # f[n - 1]
    <3>1. n - 1 <= Cardinality(f[n - 1]) /\ f[n - 1] \subseteq f[n] /\ f[n - 1] # f[n]
      BY <1>3, <2>2, <2>4
    <3>2. Cardinality(f[n - 1]) < Cardinality(f[n])
      <4>1. Cardinality(f[n - 1]) <= Cardinality(f[n])
        BY <1>1, <2>2, <3>1, FS_Subset
      <4>2. Cardinality(f[n - 1]) # Cardinality(f[n])
        BY <1>1, <2>2, <3>1, FS_Subset
      <4> QED
        BY <1>1, <2>2, <4>1, <4>2
    <3> QED
      BY <1>1, <2>2, <3>1, <3>2
  <2> QED
    BY <2>3, <2>4
<1> HIDE DEF T
<1>4. \A n \in 0 .. N : n \in T
  BY <1>2, <1>3, InductionUpTo
<1>5. pass[f[N]] = f[N] \/ N <= Cardinality(f[N])
  <2>1. N \in 0 .. N
    OBVIOUS
  <2> QED
    BY <1>4, <2>1 DEF T
<1>6. N <= Cardinality(f[N]) => f[N] = S
  <2>1. f[N] \subseteq S /\ Cardinality(f[N]) <= Cardinality(S)
    BY FS_Subset
  <2> QED
    BY <1>1, <2>1, FS_Subset, FS_CardinalityType
<1>7. pass[S] = S
  <2>1. S \in SUBSET S
    OBVIOUS
  <2>2. pass[S] \in SUBSET S /\ S \subseteq pass[S]
    BY <2>1
  <2> QED
    BY <2>2
<1> QED
  BY <1>5, <1>6, <1>7

-----------------------------------------------------------------------------
(***************************************************************************)
(* Primitive recursion: f[0] = base, and f[n] = step[<<n, f[n - 1]>>].     *)
(***************************************************************************)
\* A function on 0 .. n that follows the equations.
Follows(g, n, A, base, step) ==
  /\ g \in [0 .. n -> A]
  /\ g[0] = base
  /\ \A i \in 1 .. n : g[i] = step[<<i, g[i - 1]>>]

LEMMA FollowsOnce ==
  ASSUME NEW A, NEW base, NEW step, NEW m \in Nat, NEW n \in Nat, NEW g, NEW h,
         Follows(g, m, A, base, step), Follows(h, n, A, base, step)
  PROVE  \A i \in Nat : i <= m /\ i <= n => g[i] = h[i]
<1> DEFINE S == {i \in Nat : i <= m /\ i <= n => g[i] = h[i]}
<1>1. 0 \in S
  BY DEF Follows
<1>2. ASSUME NEW i \in Nat, i \in S PROVE i + 1 \in S
  <2>1. CASE i + 1 <= m /\ i + 1 <= n
    <3>1. g[i] = h[i]
      BY <1>2, <2>1
    <3>2. /\ g[i + 1] = step[<<i + 1, g[i]>>]
          /\ h[i + 1] = step[<<i + 1, h[i]>>]
      <4>1. i + 1 \in 1 .. m /\ i + 1 \in 1 .. n /\ (i + 1) - 1 = i
        BY <2>1
      <4> QED
        BY <4>1 DEF Follows
    <3> QED
      BY <3>1, <3>2
  <2>2. CASE ~(i + 1 <= m /\ i + 1 <= n)
    BY <2>2
  <2> QED
    BY <2>1, <2>2
<1> HIDE DEF S
<1>3. \A i \in Nat : i \in S
  BY <1>1, <1>2, NaturalInduction
<1> QED
  BY <1>3 DEF S

LEMMA FollowsExists ==
  ASSUME NEW A, NEW base \in A, NEW step \in [Nat \X A -> A]
  PROVE  \A n \in Nat : \E g : Follows(g, n, A, base, step)
<1> DEFINE S == {n \in Nat : \E g : Follows(g, n, A, base, step)}
<1>1. 0 \in S
  <2>1. Follows([i \in 0 .. 0 |-> base], 0, A, base, step)
    BY DEF Follows
  <2> QED
    BY <2>1
<1>2. ASSUME NEW n \in Nat, n \in S PROVE n + 1 \in S
  <2>1. PICK g : Follows(g, n, A, base, step)
    BY <1>2
  <2> DEFINE h == [i \in 0 .. (n + 1) |-> IF i = n + 1 THEN step[<<n + 1, g[n]>>] ELSE g[i]]
  <2>2. g \in [0 .. n -> A] /\ n \in 0 .. n
    BY <2>1 DEF Follows
  <2>3. step[<<n + 1, g[n]>>] \in A
    BY <2>2
  <2>4. h \in [0 .. (n + 1) -> A]
    BY <2>2, <2>3
  <2>5. h[0] = base
    BY <2>1 DEF Follows
  <2>6. ASSUME NEW i \in 1 .. (n + 1) PROVE h[i] = step[<<i, h[i - 1]>>]
    <3>1. CASE i = n + 1
      <4>1. /\ i \in 0 .. (n + 1) /\ i - 1 = n
            /\ n \in 0 .. (n + 1) /\ n # n + 1
        BY <3>1
      <4>2. h[i] = step[<<n + 1, g[n]>>]
        BY <3>1, <4>1
      <4>3. h[n] = g[n]
        BY <4>1
      <4> HIDE DEF h
      <4> QED
        BY <3>1, <4>1, <4>2, <4>3
    <3>2. CASE i # n + 1
      <4>1. i \in 1 .. n /\ i - 1 \in 0 .. n /\ i \in 0 .. (n + 1) /\ i - 1 \in 0 .. (n + 1)
        BY <3>2
      <4>2. h[i] = g[i] /\ h[i - 1] = g[i - 1]
        BY <4>1
      <4> QED
        BY <2>1, <4>1, <4>2 DEF Follows
    <3> QED
      BY <3>1, <3>2
  <2>7. Follows(h, n + 1, A, base, step)
    BY <2>4, <2>5, <2>6 DEF Follows
  <2> QED
    BY <2>7
<1> HIDE DEF S
<1>3. \A n \in Nat : n \in S
  BY <1>1, <1>2, NaturalInduction
<1> QED
  BY <1>3 DEF S

\* A function on all natural numbers that does.
Recurs(f, A, base, step) ==
  /\ f \in [Nat -> A]
  /\ f[0] = base
  /\ \A n \in Nat \ {0} : f[n] = step[<<n, f[n - 1]>>]

\* There is a function that is defined by these equations.
LEMMA PrimitiveRecursion ==
  ASSUME NEW A, NEW base \in A, NEW step \in [Nat \X A -> A]
  PROVE  \E f : Recurs(f, A, base, step)
<1> DEFINE G(n) == CHOOSE g : Follows(g, n, A, base, step)
           f    == [n \in Nat |-> G(n)[n]]
<1>1. \A n \in Nat : Follows(G(n), n, A, base, step)
  BY FollowsExists
<1> HIDE DEF G
<1>2. f \in [Nat -> A]
  BY <1>1 DEF Follows
<1>3. f[0] = base
  BY <1>1 DEF Follows
<1>4. ASSUME NEW n \in Nat \ {0} PROVE f[n] = step[<<n, f[n - 1]>>]
  <2>1. n \in 1 .. n /\ n - 1 \in Nat /\ n - 1 <= n
    BY <1>4
  <2>2. G(n)[n] = step[<<n, G(n)[n - 1]>>]
    BY <1>1, <2>1 DEF Follows
  <2>3. G(n)[n - 1] = G(n - 1)[n - 1]
    BY <1>1, <2>1, FollowsOnce
  <2> QED
    BY <2>1, <2>2, <2>3
<1> HIDE DEF f
<1> QED
  BY <1>2, <1>3, <1>4 DEF Recurs

-----------------------------------------------------------------------------
(***************************************************************************)
(* Division, powers of two, and the bits of a number (module Binary).      *)
(***************************************************************************)
\* Quotient and remainder are the only ones there can be.
LEMMA DivisionFound ==
  ASSUME NEW b \in Nat \ {0}, NEW q \in Int, NEW r \in 0 .. b - 1, NEW a \in Int, a = b * q + r
  PROVE  a \div b = q /\ a % b = r
<1>1. a = b * (a \div b) + (a % b) /\ a \div b \in Int /\ a % b \in 0 .. b - 1
  OBVIOUS
<1> DEFINE p == a \div b
<1>2. p \in Int /\ b * q + r = b * p + (a % b)
  BY <1>1
<1> HIDE DEF p
<1>3. b * (q - p) = (a % b) - r
  <2>1. b * (q - p) = b * q - b * p
    BY <1>2
  <2>2. b * q \in Int /\ b * p \in Int /\ a % b \in Int
    BY <1>1, <1>2
  <2> QED
    BY <1>2, <2>1, <2>2
<1>4. q - p < 1
  <2> SUFFICES ASSUME q - p >= 1 PROVE FALSE
    BY <1>2
  <2>1. b * (q - p) >= b * 1
    BY <1>2
  <2> QED
    BY <1>1, <1>3, <2>1
<1>5. q - p > -1
  <2> SUFFICES ASSUME q - p <= -1 PROVE FALSE
    BY <1>2
  <2>1. b * (q - p) <= b * (-1)
    BY <1>2
  <2> QED
    BY <1>1, <1>3, <2>1
<1>6. q = p
  BY <1>2, <1>4, <1>5
<1> QED
  BY <1>3, <1>6, <1>1 DEF p

LEMMA DivisionFacts ==
  ASSUME NEW a \in Nat, NEW b \in Nat \ {0}
  PROVE  /\ a \div b \in Nat /\ a % b \in 0 .. b - 1 /\ a = b * (a \div b) + (a % b)
         /\ a < b => a \div b = 0 /\ a % b = a
<1>1. /\ a = b * (a \div b) + (a % b) /\ a \div b \in Int /\ a % b \in 0 .. b - 1
  OBVIOUS
<1>2. a \div b >= 0
  <2> DEFINE p == a \div b
  <2>1. p \in Int /\ a = b * p + (a % b)
    BY <1>1
  <2> HIDE DEF p
  <2> SUFFICES ASSUME p <= -1 PROVE FALSE
    BY <2>1 DEF p
  <2>2. b * p <= b * (-1)
    BY <2>1
  <2> QED
    BY <1>1, <2>1, <2>2
<1>3. ASSUME a < b PROVE a \div b = 0 /\ a % b = a
  BY <1>3, DivisionFound
<1> QED
  BY <1>1, <1>2, <1>3

LEMMA DivisionTwice ==
  ASSUME NEW a \in Nat, NEW b \in Nat \ {0}, NEW c \in Nat \ {0}
  PROVE  a \div (b * c) = (a \div b) \div c
<1> DEFINE q == a \div b
           r == a % b
           p == q \div c
           s == q % c
<1>1. q \in Nat /\ r \in 0 .. b - 1 /\ a = b * q + r
  BY DivisionFacts
<1>2. p \in Nat /\ s \in 0 .. c - 1 /\ q = c * p + s
  BY <1>1, DivisionFacts
<1> HIDE DEF q, r, p, s
<1>3. b * q = (b * c) * p + b * s
  BY <1>1, <1>2
<1>4. b * s >= 0 /\ b * s <= b * (c - 1)
  BY <1>2
<1>5. b * c \in Nat \ {0} /\ b * (c - 1) = b * c - b
  BY SMT
<1>6. b * s + r \in 0 .. b * c - 1 /\ b * s \in Nat
  BY <1>1, <1>2, <1>4, <1>5
<1>7. a = (b * c) * p + (b * s + r)
  BY <1>1, <1>2, <1>3, <1>6
<1>8. a \div (b * c) = p
  <2> DEFINE m == b * c
             t == b * s + r
  <2>1. m \in Nat \ {0} /\ t \in 0 .. m - 1 /\ a = m * p + t /\ p \in Int
    BY <1>2, <1>5, <1>6, <1>7
  <2> HIDE DEF m, t
  <2>2. a \div m = p
    BY <2>1, DivisionFound
  <2> QED
    BY <2>2 DEF m
<1> QED
  BY <1>8 DEF p, q

\* 2^n is the number of subsets of a set of n.
LEMMA PowerFacts ==
  /\ 2 ^ 0 = 1
  /\ \A n \in Nat : 2 ^ n \in Nat \ {0} /\ 2 ^ (n + 1) = 2 * 2 ^ n
<1>1. 2 ^ 0 = 1
  <2>1. Cardinality(SUBSET {}) = 2 ^ Cardinality({}) /\ Cardinality({}) = 0
    BY FS_SUBSET, FS_EmptySet
  <2>2. SUBSET {} = {{}} /\ Cardinality({{}}) = 1
    BY FS_Singleton
  <2> QED
    BY <2>1, <2>2
<1>2. ASSUME NEW n \in Nat PROVE 2 ^ (n + 1) = 2 * 2 ^ n /\ 2 ^ n \in Nat
  <2> DEFINE S == 1 .. n
             T == 1 .. (n + 1)
             A == SUBSET S
             B == {X \in SUBSET T : n + 1 \in X}
  <2>1. /\ IsFiniteSet(S) /\ Cardinality(S) = n
        /\ IsFiniteSet(T) /\ Cardinality(T) = n + 1
    BY FS_Interval
  <2>2. /\ IsFiniteSet(A) /\ Cardinality(A) = 2 ^ n
        /\ IsFiniteSet(SUBSET T) /\ Cardinality(SUBSET T) = 2 ^ (n + 1)
    BY <2>1, FS_SUBSET
  <2>3. ExistsBijection(A, B)
    <3> DEFINE f == [X \in A |-> X \union {n + 1}]
    <3>1. f \in [A -> B]
      OBVIOUS
    <3>2. \A X, Y \in A : f[X] = f[Y] => X = Y
      <4> SUFFICES ASSUME NEW X \in A, NEW Y \in A, X \union {n + 1} = Y \union {n + 1} PROVE X = Y
        OBVIOUS
      <4>1. n + 1 \notin X /\ n + 1 \notin Y
        OBVIOUS
      <4> QED
        BY <4>1
    <3>3. \A Y \in B : \E X \in A : f[X] = Y
      <4> TAKE Y \in B
      <4>1. Y \ {n + 1} \in A
        BY SMT
      <4>2. f[Y \ {n + 1}] = Y
        BY <4>1
      <4> QED
        BY <4>1, <4>2
    <3> HIDE DEF f, A, B
    <3>4. f \in Bijection(A, B)
      BY <3>1, <3>2, <3>3 DEF Bijection, Injection, Surjection, IsInjective
    <3> QED
      BY <3>4 DEF ExistsBijection
  <2>4. IsFiniteSet(B) /\ Cardinality(B) = 2 ^ n
    <3> HIDE DEF A, B
    <3> QED
      BY <2>2, <2>3, FS_Bijection
  <2>5. A \union B = SUBSET T /\ A \intersect B = {}
    <3>1. \A X \in SUBSET T : n + 1 \notin X => X \in A
      OBVIOUS
    <3>2. \A X \in A : X \in SUBSET T /\ n + 1 \notin X
      OBVIOUS
    <3> QED
      BY <3>1, <3>2
  <2>6. Cardinality(SUBSET T) = Cardinality(A) + Cardinality(B) - Cardinality({})
    <3> HIDE DEF A, B
    <3> QED
      BY <2>2, <2>4, <2>5, FS_Union
  <2>7. Cardinality({}) = 0 /\ Cardinality(A) \in Nat
    BY <2>2, FS_EmptySet, FS_CardinalityType
  <2> HIDE DEF A, B, T
  <2>8. 2 ^ n \in Nat
    BY <2>2, <2>7
  <2>9. 2 ^ (n + 1) = 2 ^ n + 2 ^ n - 0
    BY <2>2, <2>4, <2>6, <2>7
  <2> QED
    BY <2>8, <2>9
<1>3. \A n \in Nat : 2 ^ n # 0
  <2> DEFINE S == {n \in Nat : 2 ^ n # 0}
  <2>1. 0 \in S
    BY <1>1
  <2>2. ASSUME NEW n \in Nat, n \in S PROVE n + 1 \in S
    BY <1>2, <2>2
  <2> HIDE DEF S
  <2>3. \A n \in Nat : n \in S
    BY <2>1, <2>2, NaturalInduction
  <2> QED
    BY <2>3 DEF S
<1> QED
  BY <1>1, <1>2, <1>3

\* Powers are multiplied by adding their exponents.
LEMMA PowerSum ==
  ASSUME NEW m \in Nat, NEW n \in Nat
  PROVE  2 ^ (m + n) = 2 ^ m * 2 ^ n
<1> DEFINE S == {k \in Nat : 2 ^ (m + k) = 2 ^ m * 2 ^ k}
<1>1. 0 \in S
  BY PowerFacts
<1>2. ASSUME NEW k \in Nat, k \in S PROVE k + 1 \in S
  <2> DEFINE a == 2 ^ m
             b == 2 ^ k
             c == 2 ^ (m + k)
  <2>1. a \in Nat /\ b \in Nat /\ c \in Nat /\ c = a * b
    BY <1>2, PowerFacts
  <2>2. 2 ^ (m + (k + 1)) = 2 * c
    <3>1. m + k \in Nat /\ (m + k) + 1 = m + (k + 1)
      OBVIOUS
    <3> QED
      BY <3>1, PowerFacts
  <2>3. 2 ^ (k + 1) = 2 * b
    BY PowerFacts
  <2> HIDE DEF a, b, c
  <2>4. 2 * c = a * (2 * b)
    BY <2>1
  <2> QED
    BY <2>2, <2>3, <2>4 DEF a
<1> HIDE DEF S
<1>3. \A k \in Nat : k \in S
  BY <1>1, <1>2, NaturalInduction
<1> QED
  BY <1>3 DEF S

\* What is below a product is divided into what is below a factor.
LEMMA QuotientBelow ==
  ASSUME NEW a \in Nat, NEW b \in Nat \ {0}, NEW c \in Nat, a < b * c
  PROVE  a \div b \in 0 .. c - 1
<1> DEFINE q == a \div b
<1>1. q \in Nat /\ b * q <= a
  BY DivisionFacts
<1> HIDE DEF q
<1>2. ~(q >= c)
  <2> SUFFICES ASSUME q >= c PROVE FALSE
    OBVIOUS
  <2>1. b * q >= b * c
    BY <1>1
  <2>2. b * q \in Nat /\ b * c \in Nat
    BY <1>1
  <2> QED
    BY <1>1, <2>1, <2>2
<1> QED
  BY <1>1, <1>2 DEF q

\* The numbers that NumberOf goes through.
NumberChain(f, bits, w) ==
  /\ f \in [0 .. w -> Nat]
  /\ f[w] = 0
  /\ \A b \in 0 .. w - 1 : f[b] = 2 * f[b + 1] + (IF b \in bits THEN 1 ELSE 0)

LEMMA NumberFollows ==
  ASSUME NEW bits, NEW w \in Nat
  PROVE  \E f : NumberChain(f, bits, w) /\ NumberOf(bits, w) = f[0]
<1> DEFINE bit(b) == IF b \in bits THEN 1 ELSE 0
           Body(f) == [b \in 0 .. w |-> IF b = w THEN 0 ELSE 2 * f[b + 1] + bit(b)]
           step == [p \in Nat \X Nat |-> 2 * p[2] + bit(w - p[1])]
           h == CHOOSE f : f = Body(f)
<1>1. \E f : f = Body(f)
  <2>1. step \in [Nat \X Nat -> Nat]
    OBVIOUS
  <2>2. PICK g : Follows(g, w, Nat, 0, step)
    <3> HIDE DEF step
    <3> QED
      BY <2>1, FollowsExists
  <2>3. /\ g \in [0 .. w -> Nat] /\ g[0] = 0
        /\ \A i \in 1 .. w : g[i] = 2 * g[i - 1] + bit(w - i)
    <3>1. ASSUME NEW i \in 1 .. w PROVE g[i] = 2 * g[i - 1] + bit(w - i)
      <4>1. i - 1 \in 0 .. w /\ g[i - 1] \in Nat /\ i \in Nat
        BY <2>2 DEF Follows
      <4>2. g[i] = step[<<i, g[i - 1]>>]
        BY <2>2 DEF Follows
      <4> QED
        BY <4>1, <4>2
    <3> QED
      BY <2>2, <3>1 DEF Follows
  <2> DEFINE f == [b \in 0 .. w |-> g[w - b]]
  <2>4. ASSUME NEW b \in 0 .. w PROVE f[b] = IF b = w THEN 0 ELSE 2 * f[b + 1] + bit(b)
    <3>1. CASE b = w
      BY <2>3, <3>1
    <3>2. CASE b # w
      <4>1. b + 1 \in 0 .. w /\ w - b \in 1 .. w /\ (w - b) - 1 = w - (b + 1) /\ w - (w - b) = b
        BY <3>2
      <4>2. g[w - b] = 2 * g[w - (b + 1)] + bit(b)
        <5> HIDE DEF bit
        <5> QED
          BY <2>3, <4>1
      <4> QED
        BY <3>2, <4>1, <4>2
    <3> QED
      BY <3>1, <3>2
  <2>5. f = Body(f)
    <3>1. f = [b \in 0 .. w |-> f[b]]
      OBVIOUS
    <3> HIDE DEF f, bit
    <3> QED
      BY <2>4, <3>1
  <2> QED
    BY <2>5
<1>2. h = Body(h)
  <2> HIDE DEF Body
  <2> QED
    BY <1>1
<1>3. NumberOf(bits, w) = h[0]
  BY DEF NumberOf
<1> HIDE DEF h
<1>4. h[w] = 0 /\ \A b \in 0 .. w - 1 : h[b] = 2 * h[b + 1] + bit(b)
  <2>1. w \in 0 .. w /\ \A b \in 0 .. w - 1 : b \in 0 .. w /\ b # w
    OBVIOUS
  <2> HIDE DEF bit
  <2> QED
    BY <1>2, <2>1
<1>5. h \in [0 .. w -> Nat]
  <2> DEFINE T == {i \in 0 .. w : h[w - i] \in Nat}
  <2>1. 0 \in T
    BY <1>4
  <2>2. ASSUME NEW i \in 1 .. w, i - 1 \in T PROVE i \in T
    <3>1. w - i \in 0 .. w - 1 /\ (w - i) + 1 = w - (i - 1)
      OBVIOUS
    <3>2. h[w - i] = 2 * h[w - (i - 1)] + bit(w - i) /\ h[w - (i - 1)] \in Nat
      BY <1>4, <2>2, <3>1
    <3> QED
      BY <3>2
  <2>3. \A i \in 0 .. w : i \in T
    <3> HIDE DEF T
    <3> QED
      BY <2>1, <2>2, InductionUpTo
  <2>4. ASSUME NEW b \in 0 .. w PROVE h[b] \in Nat
    <3>1. w - b \in 0 .. w /\ w - (w - b) = b
      OBVIOUS
    <3> QED
      BY <2>3, <3>1
  <2> QED
    BY <1>2, <2>4
<1>6. NumberChain(h, bits, w)
  BY <1>4, <1>5 DEF NumberChain
<1> QED
  BY <1>3, <1>6

\* Each bit is in its place, and no more than w of them.
LEMMA NumberHasBits ==
  ASSUME NEW bits, NEW w \in Nat
  PROVE  /\ NumberOf(bits, w) \in Nat /\ NumberOf(bits, w) < 2 ^ w
         /\ \A b \in 0 .. w - 1 : IsSet(b, NumberOf(bits, w)) <=> b \in bits
<1>1. PICK f : NumberChain(f, bits, w) /\ NumberOf(bits, w) = f[0]
  BY NumberFollows
<1> DEFINE bit(b) == IF b \in bits THEN 1 ELSE 0
<1>2. /\ f[w] = 0 /\ \A b \in 0 .. w : f[b] \in Nat
      /\ \A b \in 0 .. w - 1 : f[b] = 2 * f[b + 1] + bit(b)
  BY <1>1 DEF NumberChain
<1>3. \A b \in 0 .. w : f[b] < 2 ^ (w - b)
  <2> DEFINE T == {i \in 0 .. w : f[w - i] < 2 ^ i}
  <2>1. 0 \in T
    BY <1>2, PowerFacts
  <2>2. ASSUME NEW i \in 1 .. w, i - 1 \in T PROVE i \in T
    <3>1. w - i \in 0 .. w - 1 /\ (w - i) + 1 = w - (i - 1) /\ w - (i - 1) \in 0 .. w
          /\ i - 1 \in Nat /\ (i - 1) + 1 = i
      OBVIOUS
    <3>2. f[w - i] = 2 * f[w - (i - 1)] + bit(w - i) /\ f[w - (i - 1)] \in Nat
      BY <1>2, <3>1
    <3>3. f[w - (i - 1)] < 2 ^ (i - 1)
      BY <2>2
    <3>4. 2 ^ i = 2 * 2 ^ (i - 1) /\ 2 ^ (i - 1) \in Nat
      BY <3>1, PowerFacts
    <3> QED
      BY <3>2, <3>3, <3>4
  <2>3. \A i \in 0 .. w : i \in T
    <3> HIDE DEF T
    <3> QED
      BY <2>1, <2>2, InductionUpTo
  <2> TAKE b \in 0 .. w
  <2>4. w - b \in 0 .. w /\ w - (w - b) = b
    OBVIOUS
  <2> QED
    BY <2>3, <2>4
<1>4. \A b \in 0 .. w : f[0] \div 2 ^ b = f[b]
  <2> DEFINE T == {b \in 0 .. w : f[0] \div 2 ^ b = f[b]}
  <2>0. 0 \in 0 .. w /\ f[0] \in Nat
    BY <1>2
  <2>1. 0 \in T
    <3>1. f[0] \div 1 = f[0]
      BY <2>0
    <3> QED
      BY <2>0, <3>1, PowerFacts
  <2>2. ASSUME NEW b \in 1 .. w, b - 1 \in T PROVE b \in T
    <3>1. b - 1 \in 0 .. w - 1 /\ (b - 1) + 1 = b /\ b - 1 \in Nat /\ b \in 0 .. w /\ b - 1 \in 0 .. w
      OBVIOUS
    <3>2. f[b - 1] = 2 * f[b] + bit(b - 1) /\ f[b] \in Nat /\ f[b - 1] \in Nat
      BY <1>2, <3>1
    <3>3. f[b - 1] \div 2 = f[b]
      BY <3>2
    <3>4. 2 ^ b = 2 ^ (b - 1) * 2 /\ 2 ^ (b - 1) \in Nat \ {0}
      <4>1. 2 ^ b = 2 * 2 ^ (b - 1) /\ 2 ^ (b - 1) \in Nat \ {0}
        BY <3>1, PowerFacts
      <4> QED
        BY <4>1
    <3>5. f[0] \div 2 ^ b = (f[0] \div 2 ^ (b - 1)) \div 2
      <4> DEFINE e == 2 ^ (b - 1)
      <4>1. e \in Nat \ {0} /\ 2 ^ b = e * 2
        BY <3>4
      <4> HIDE DEF e
      <4>2. f[0] \div (e * 2) = (f[0] \div e) \div 2
        BY <2>0, <4>1, DivisionTwice
      <4> QED
        BY <4>1, <4>2 DEF e
    <3> QED
      BY <2>2, <3>1, <3>3, <3>5
  <2>3. \A b \in 0 .. w : b \in T
    <3> HIDE DEF T
    <3> QED
      BY <2>1, <2>2, InductionUpTo
  <2> QED
    BY <2>3
<1>5. ASSUME NEW b \in 0 .. w - 1 PROVE IsSet(b, f[0]) <=> b \in bits
  <2>1. f[0] \div 2 ^ b = 2 * f[b + 1] + bit(b) /\ f[b + 1] \in Nat
    <3>1. b \in 0 .. w /\ b + 1 \in 0 .. w
      OBVIOUS
    <3> QED
      BY <1>2, <1>4, <3>1
  <2>2. (2 * f[b + 1] + bit(b)) % 2 = bit(b)
    BY <2>1
  <2> HIDE DEF bit
  <2>3. IsSet(b, f[0]) <=> bit(b) = 1
    BY <2>1, <2>2 DEF IsSet
  <2> QED
    BY <2>3 DEF bit
<1>6. f[0] \in Nat /\ f[0] < 2 ^ w
  <2>1. 0 \in 0 .. w /\ w - 0 = w
    OBVIOUS
  <2> QED
    BY <1>2, <1>3, <2>1
<1> QED
  BY <1>1, <1>5, <1>6

LEMMA PowerGrows ==
  /\ \A n \in Nat : n < 2 ^ n
  /\ \A m, n \in Nat : m <= n => 2 ^ m <= 2 ^ n
<1>1. \A n \in Nat : n < 2 ^ n
  <2> DEFINE S == {n \in Nat : n < 2 ^ n}
  <2>1. 0 \in S
    BY PowerFacts
  <2>2. ASSUME NEW n \in Nat, n \in S PROVE n + 1 \in S
    BY <2>2, PowerFacts
  <2> HIDE DEF S
  <2>3. \A n \in Nat : n \in S
    BY <2>1, <2>2, NaturalInduction
  <2> QED
    BY <2>3 DEF S
<1>2. ASSUME NEW m \in Nat PROVE \A n \in Nat : m <= n => 2 ^ m <= 2 ^ n
  <2> DEFINE S == {d \in Nat : 2 ^ m <= 2 ^ (m + d)}
  <2>1. 0 \in S
    BY PowerFacts
  <2>2. ASSUME NEW d \in Nat, d \in S PROVE d + 1 \in S
    <3>1. m + d \in Nat /\ m + (d + 1) = (m + d) + 1
      OBVIOUS
    <3>2. 2 ^ (m + (d + 1)) = 2 * 2 ^ (m + d) /\ 2 ^ (m + d) \in Nat /\ 2 ^ m \in Nat
      BY <3>1, PowerFacts
    <3> QED
      BY <2>2, <3>2
  <2> HIDE DEF S
  <2>3. \A d \in Nat : d \in S
    BY <2>1, <2>2, NaturalInduction
  <2> TAKE n \in Nat
  <2> SUFFICES ASSUME m <= n PROVE 2 ^ m <= 2 ^ n
    OBVIOUS
  <2>4. n - m \in Nat /\ m + (n - m) = n
    OBVIOUS
  <2> QED
    BY <2>3, <2>4 DEF S
<1> QED
  BY <1>1, <1>2

LEMMA LengthFound ==
  ASSUME NEW n \in Nat \ {0}
  PROVE  /\ integer_length(n) \in 1 .. n
         /\ 2 ^ (integer_length(n) - 1) <= n /\ n < 2 ^ integer_length(n)
<1> DEFINE T == {j \in Nat : 2 ^ j <= n}
<1>1. 0 \in T
  BY PowerFacts
<1>2. \A j \in T : j < n
  BY PowerGrows, PowerFacts
<1>3. PICK j \in T : \A i \in T : i <= j
  <2>0. T \subseteq Nat /\ T # {}
    BY <1>1
  <2>1. \A i \in T : i <= n
    BY <1>2, <2>0
  <2> HIDE DEF T
  <2> QED
    BY <2>0, <2>1, GreatestNatural
<1>4. j \in Nat /\ j + 1 \in 1 .. n /\ (j + 1) - 1 = j
  BY <1>2, <1>3
<1>5. j + 1 \notin T
  BY <1>3, <1>4
<1>6. 2 ^ j <= n /\ n < 2 ^ (j + 1)
  <2>1. 2 ^ (j + 1) \in Nat
    BY <1>4, PowerFacts
  <2> QED
    BY <1>3, <1>4, <1>5, <2>1
<1>7. \E k \in 1 .. n : 2 ^ (k - 1) <= n /\ n < 2 ^ k
  BY <1>4, <1>6
<1> QED
  BY <1>7 DEF integer_length

LEMMA BitsBelow ==
  ASSUME NEW w \in Nat, NEW n \in Nat, n < 2 ^ w
  PROVE  BitsOf(n) = {b \in 0 .. w - 1 : IsSet(b, n)}
<1>0. \A b \in Nat : n < 2 ^ b => ~IsSet(b, n)
  <2> SUFFICES ASSUME NEW b \in Nat, n < 2 ^ b PROVE ~IsSet(b, n)
    OBVIOUS
  <2>1. 2 ^ b \in Nat \ {0}
    BY PowerFacts
  <2>2. n \div 2 ^ b = 0
    BY <2>1, DivisionFacts
  <2> QED
    BY <2>2 DEF IsSet
<1>1. CASE n = 0
  <2>1. \A b \in Nat : n < 2 ^ b
    BY <1>1, PowerFacts
  <2> QED
    BY <1>0, <1>1, <2>1 DEF BitsOf
<1>2. CASE n # 0
  <2> DEFINE k == integer_length(n)
  <2>1. k \in 1 .. n /\ 2 ^ (k - 1) <= n /\ n < 2 ^ k
    BY <1>2, LengthFound
  <2>2. BitsOf(n) = {b \in 0 .. k - 1 : IsSet(b, n)}
    BY <1>2 DEF BitsOf
  <2> HIDE DEF k
  <2>3. k <= w
    <3> SUFFICES ASSUME w <= k - 1 PROVE FALSE
      BY <2>1
    <3>1. 2 ^ w <= 2 ^ (k - 1) /\ 2 ^ w \in Nat /\ 2 ^ (k - 1) \in Nat
      BY <2>1, PowerGrows, PowerFacts
    <3> QED
      BY <2>1, <3>1
  <2>4. ASSUME NEW b \in 0 .. w - 1, IsSet(b, n) PROVE b <= k - 1
    <3> SUFFICES ASSUME k <= b PROVE FALSE
      BY <2>1
    <3>1. 2 ^ k <= 2 ^ b /\ 2 ^ k \in Nat /\ 2 ^ b \in Nat
      BY <2>1, PowerGrows, PowerFacts
    <3>2. n < 2 ^ b
      BY <2>1, <3>1
    <3> QED
      BY <1>0, <2>4, <3>2
  <2> QED
    BY <2>1, <2>2, <2>3, <2>4
<1> QED
  BY <1>1, <1>2

\* The bits of a number make the number.
LEMMA NumberOfItsBits ==
  ASSUME NEW w \in Nat, NEW n \in Nat, n < 2 ^ w
  PROVE  NumberOf(BitsOf(n), w) = n
<1> DEFINE B == BitsOf(n)
           bit(b) == IF b \in B THEN 1 ELSE 0
<1>1. \A b \in 0 .. w - 1 : b \in B <=> IsSet(b, n)
  BY BitsBelow
<1> HIDE DEF B
<1>2. PICK f : NumberChain(f, B, w) /\ NumberOf(B, w) = f[0]
  BY NumberFollows
<1>3. /\ f[w] = 0 /\ \A b \in 0 .. w : f[b] \in Nat
      /\ \A b \in 0 .. w - 1 : f[b] = 2 * f[b + 1] + bit(b)
  BY <1>2 DEF NumberChain
<1> DEFINE T == {i \in 0 .. w : f[w - i] = n \div 2 ^ (w - i)}
<1>4. 0 \in T
  <2>1. 2 ^ w \in Nat \ {0}
    BY PowerFacts
  <2>2. n \div 2 ^ w = 0
    BY <2>1, DivisionFacts
  <2> QED
    BY <1>3, <2>2
<1>5. ASSUME NEW i \in 1 .. w, i - 1 \in T PROVE i \in T
  <2> DEFINE b == w - i
             e == 2 ^ b
             q == n \div e
  <2>1. b \in 0 .. w - 1 /\ b + 1 = w - (i - 1) /\ b \in Nat
    OBVIOUS
  <2> HIDE DEF b
  <2>2. e \in Nat \ {0} /\ 2 ^ (b + 1) = 2 * e
    BY <2>1, PowerFacts
  <2>2a. IsSet(b, n) <=> q % 2 = 1
    BY DEF IsSet
  <2> HIDE DEF e
  <2>3. n \div (e * 2) = q \div 2 /\ q \in Nat
    <3>1. q \in Nat
      BY <2>2, DivisionFacts
    <3>2. n \div (e * 2) = (n \div e) \div 2
      <4> HIDE DEF T
      <4>1. 2 \in Nat \ {0}
        OBVIOUS
      <4> QED
        BY <2>2, <4>1, DivisionTwice
    <3> QED
      BY <3>1, <3>2
  <2>4. f[b + 1] = q \div 2
    <3>1. 2 ^ (b + 1) = e * 2
      BY <2>2
    <3> QED
      BY <1>5, <2>1, <2>3, <3>1
  <2>5. bit(b) = q % 2
    <3>1. b \in B <=> q % 2 = 1
      BY <1>1, <2>1, <2>2a
    <3>2. q % 2 \in {0, 1}
      BY <2>3
    <3> QED
      BY <3>1, <3>2
  <2>6. f[b] = 2 * f[b + 1] + bit(b)
    BY <1>3, <2>1
  <2> HIDE DEF q, bit
  <2>7. q = 2 * (q \div 2) + (q % 2)
    BY <2>3
  <2>8. f[b] = q
    BY <2>4, <2>5, <2>6, <2>7
  <2> QED
    BY <2>8 DEF b, q, e
<1>6. \A i \in 0 .. w : i \in T
  <2> HIDE DEF T
  <2> QED
    BY <1>4, <1>5, InductionUpTo
<1>7. f[0] = n \div 2 ^ 0
  <2>1. w \in 0 .. w /\ w - w = 0
    OBVIOUS
  <2> QED
    BY <1>6, <2>1
<1>8. n \div 1 = n
  OBVIOUS
<1> QED
  BY <1>2, <1>7, <1>8, PowerFacts DEF B

\* And a number that is made from bits below w has just these bits.
LEMMA BitsOfItsNumber ==
  ASSUME NEW w \in Nat, NEW bits, bits \subseteq 0 .. w - 1
  PROVE  BitsOf(NumberOf(bits, w)) = bits
<1> DEFINE n == NumberOf(bits, w)
<1>1. n \in Nat /\ n < 2 ^ w /\ \A b \in 0 .. w - 1 : IsSet(b, n) <=> b \in bits
  BY NumberHasBits
<1> HIDE DEF n
<1>2. BitsOf(n) = {b \in 0 .. w - 1 : IsSet(b, n)}
  BY <1>1, BitsBelow
<1> QED
  BY <1>1, <1>2 DEF n

-----------------------------------------------------------------------------
(***************************************************************************)
(* Finite sets of integers in ascending order.                             *)
(***************************************************************************)
\* The elements of S up to x; their number is the place of x in S.
Upto(S, x) == {y \in S : y <= x}
Place(S, x) == Cardinality(Upto(S, x))

\* Every element has a place of its own, and every place is taken.
LEMMA PlaceFacts ==
  ASSUME NEW S, S \subseteq Int, IsFiniteSet(S)
  PROVE  /\ Cardinality(S) \in Nat
         /\ \A x \in S : Place(S, x) \in 1 .. Cardinality(S)
         /\ \A x, y \in S : x < y => Place(S, x) < Place(S, y)
         /\ \A k \in 1 .. Cardinality(S) : \E x \in S : Place(S, x) = k
<1>1. Cardinality(S) \in Nat
  BY FS_CardinalityType
<1>2. \A x \in S : /\ IsFiniteSet(Upto(S, x)) /\ Place(S, x) \in Nat
                   /\ Place(S, x) <= Cardinality(S)
  <2> TAKE x \in S
  <2>1. Upto(S, x) \in SUBSET S
    BY DEF Upto
  <2> QED
    BY <2>1, FS_Subset, FS_CardinalityType DEF Place
<1>3. ASSUME NEW x \in S PROVE Place(S, x) # 0
  <2>1. x \in Upto(S, x)
    BY DEF Upto
  <2> QED
    BY <1>2, <2>1, FS_EmptySet DEF Place
<1>4. ASSUME NEW x \in S, NEW y \in S, x < y PROVE Place(S, x) < Place(S, y)
  <2>1. Upto(S, x) \in SUBSET Upto(S, y) /\ y \in Upto(S, y) /\ y \notin Upto(S, x)
    <3>1. x \in Int /\ y \in Int
      OBVIOUS
    <3>2. \A z \in S : z \in Int
      OBVIOUS
    <3>3. \A z \in S : z <= x => z <= y
      BY <1>4, <3>1, <3>2
    <3>4. y <= y /\ ~(y <= x)
      BY <1>4, <3>1
    <3> QED
      BY <3>3, <3>4 DEF Upto
  <2>2. Cardinality(Upto(S, x)) <= Cardinality(Upto(S, y))
        /\ Cardinality(Upto(S, y)) # Cardinality(Upto(S, x))
    BY <1>2, <2>1, FS_Subset
  <2> QED
    BY <1>2, <2>2 DEF Place
<1>5. \A x \in S : Place(S, x) \in 1 .. Cardinality(S)
  BY <1>1, <1>2, <1>3
<1>6. \A k \in 1 .. Cardinality(S) : \E x \in S : Place(S, x) = k
  <2> DEFINE n == Cardinality(S)
             p == [x \in S |-> Place(S, x)]
  <2>1. p \in Injection(S, 1 .. n)
    <3>1. p \in [S -> 1 .. n]
      BY <1>5
    <3>2. ASSUME NEW x \in S, NEW y \in S, p[x] = p[y] PROVE x = y
      <4>1. ~(x < y) /\ ~(y < x)
        BY <1>2, <1>4, <3>2
      <4> QED
        BY <4>1
    <3> HIDE DEF p, n
    <3> QED
      BY <3>1, <3>2 DEF Injection, IsInjective
  <2>2. IsFiniteSet(1 .. n) /\ Cardinality(1 .. n) = n
    BY <1>1, FS_Interval
  <2>3. p \in Surjection(S, 1 .. n)
    <3> HIDE DEF p
    <3> QED
      BY <2>1, <2>2, FS_Injection
  <2>4. \A k \in 1 .. n : \E x \in S : p[x] = k
    BY <2>3 DEF Surjection
  <2> QED
    BY <2>4
<1> QED
  BY <1>1, <1>4, <1>5, <1>6

\* s lists S in ascending order.
Rises(s, S) ==
  /\ s \in [1 .. Cardinality(S) -> S]
  /\ \A i, k \in DOMAIN s : i < k => s[i] < s[k]

\* A finite set of integers can be listed so.
LEMMA RisingExists ==
  ASSUME NEW S, S \subseteq Int, IsFiniteSet(S)
  PROVE  \E s : Rises(s, S)
<1> DEFINE n == Cardinality(S)
           s == [k \in 1 .. n |-> CHOOSE x \in S : Place(S, x) = k]
<1>1. \A k \in 1 .. n : s[k] \in S /\ Place(S, s[k]) = k
  BY PlaceFacts
<1>2. ASSUME NEW i \in 1 .. n, NEW k \in 1 .. n, i < k PROVE s[i] < s[k]
  <2> DEFINE x == s[i]
             y == s[k]
  <2>1. x \in S /\ y \in S /\ Place(S, x) = i /\ Place(S, y) = k /\ x \in Int /\ y \in Int
    BY <1>1
  <2> HIDE DEF x, y
  <2>2. ~(y < x) /\ y # x
    <3>1. i \in Int /\ k \in Int
      BY FS_CardinalityType
    <3>2. ~(k < i) /\ i # k
      BY <1>2, <3>1
    <3>3. y < x => Place(S, y) < Place(S, x)
      BY <2>1, PlaceFacts
    <3> QED
      BY <2>1, <3>2, <3>3
  <2>3. x < y
    BY <2>1, <2>2
  <2> QED
    BY <2>3 DEF x, y
<1>3. s \in [1 .. n -> S] /\ DOMAIN s = 1 .. n
  BY <1>1
<1> HIDE DEF s
<1>4. Rises(s, S)
  BY <1>2, <1>3 DEF Rises
<1> QED
  BY <1>4

\* In such a list every element is at its place.
LEMMA RisingByPlace ==
  ASSUME NEW S, S \subseteq Int, IsFiniteSet(S), NEW s, Rises(s, S)
  PROVE  /\ \A k \in 1 .. Cardinality(S) : s[k] \in S /\ Place(S, s[k]) = k
         /\ \A x \in S : Place(S, x) \in 1 .. Cardinality(S) /\ s[Place(S, x)] = x
<1> DEFINE n == Cardinality(S)
<1>1. n \in Nat /\ IsFiniteSet(1 .. n) /\ Cardinality(1 .. n) = n
  BY FS_CardinalityType, FS_Interval
<1>2. s \in [1 .. n -> S] /\ \A i, k \in 1 .. n : i < k => s[i] < s[k]
  BY DEF Rises
<1>3. s \in Bijection(1 .. n, S)
  <2>1. \A i, k \in 1 .. n : s[i] = s[k] => i = k
    <3> SUFFICES ASSUME NEW i \in 1 .. n, NEW k \in 1 .. n, s[i] = s[k] PROVE i = k
      OBVIOUS
    <3>1. s[i] \in Int /\ ~(s[i] < s[k]) /\ ~(s[k] < s[i])
      <4>1. s[i] \in S
        BY <1>2
      <4>2. \A z, y \in Int : z = y => ~(z < y) /\ ~(y < z)
        OBVIOUS
      <4>3. s[i] \in Int
        BY <4>1
      <4> HIDE DEF n
      <4>4. s[k] \in Int
        BY <4>3
      <4> QED
        BY <4>2, <4>3, <4>4
    <3> HIDE DEF n
    <3> QED
      BY <1>1, <1>2, <3>1
  <2> HIDE DEF n
  <2>2. s \in Injection(1 .. n, S)
    BY <1>2, <2>1 DEF Injection, IsInjective
  <2>3. s \in Surjection(1 .. n, S)
    BY <1>1, <2>2, FS_Injection DEF n
  <2> QED
    BY <2>2, <2>3 DEF Bijection
<1>4. ASSUME NEW k \in 1 .. n PROVE Place(S, s[k]) = k
  <2> HIDE DEF n
  <2>1. k \in Nat /\ 1 .. k \subseteq 1 .. n
    BY <1>1
  <2>2. \A i \in 1 .. n : s[i] <= s[k] <=> i <= k
    <3> TAKE i \in 1 .. n
    <3>1. s[i] \in Int /\ s[k] \in Int
      BY <1>2
    <3>2. i < k \/ i = k \/ k < i
      BY <2>1
    <3> QED
      BY <1>2, <3>1, <3>2, <2>1
  <2> DEFINE t == [i \in 1 .. k |-> s[i]]
  <2>3. t \in Bijection(1 .. k, Upto(S, s[k]))
    <3>1. t \in [1 .. k -> Upto(S, s[k])]
      BY <1>2, <2>1, <2>2 DEF Upto
    <3>2. \A i, j \in 1 .. k : t[i] = t[j] => i = j
      BY <1>3, <2>1 DEF Bijection, Injection, IsInjective
    <3>3. \A x \in Upto(S, s[k]) : \E i \in 1 .. k : t[i] = x
      <4> TAKE x \in Upto(S, s[k])
      <4>1. x \in S /\ x <= s[k]
        BY DEF Upto
      <4>2. PICK i \in 1 .. n : s[i] = x
        BY <1>3, <4>1 DEF Bijection, Surjection
      <4>3. i \in 1 .. k
        BY <2>1, <2>2, <4>1, <4>2
      <4> QED
        BY <4>2, <4>3
    <3> HIDE DEF t
    <3> QED
      BY <3>1, <3>2, <3>3 DEF Bijection, Injection, Surjection, IsInjective
  <2>4. ExistsBijection(1 .. k, Upto(S, s[k]))
    <3> HIDE DEF t
    <3> QED
      BY <2>3 DEF ExistsBijection
  <2> QED
    BY <2>1, <2>4, FS_CountingElements DEF Place
<1>5. \A x \in S : \E k \in 1 .. n : s[k] = x
  BY <1>3 DEF Bijection, Surjection
<1> QED
  BY <1>2, <1>4, <1>5

=============================================================================
