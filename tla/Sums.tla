-------------------------------- MODULE Sums --------------------------------
(***************************************************************************)
(* Sums over a finite set, for proofs: a sum is known by the sums of all   *)
(* subsets, each of which grows by what an element adds.  No recursion is  *)
(* needed to say how a sum changes when one of its terms does.  And sums   *)
(* of the first terms of a sequence.                                       *)
(***************************************************************************)
EXTENDS Integers, FiniteSets, FiniteSetTheorems, WellFoundedInduction, TLAPS

\* P gives every subset of S its sum of the terms f.
Sums(P, f, S) ==
  /\ P \in [SUBSET S -> Int]
  /\ P[{}] = 0
  /\ \A T \in SUBSET S : \A x \in S \ T : P[T \cup {x}] = P[T] + f[x]

\* s is the sum of f over S.
IsSum(s, f, S) == \E P : Sums(P, f, S) /\ s = P[S]

\* Terms that are all 0 have the sum 0.
LEMMA ZeroSum ==
  ASSUME NEW S, NEW f, \A x \in S : f[x] = 0
  PROVE  IsSum(0, f, S)
<1>. DEFINE P == [T \in SUBSET S |-> 0]
<1>1. Sums(P, f, S)
  BY DEF Sums
<1>2. P[S] = 0
  OBVIOUS
<1>. QED
  BY <1>1, <1>2 DEF IsSum

\* A sum is an integer.
LEMMA SumType ==
  ASSUME NEW S, NEW f, NEW s, IsSum(s, f, S)
  PROVE  s \in Int
<1>1. PICK P : Sums(P, f, S) /\ s = P[S]
  BY DEF IsSum
<1>2. S \in SUBSET S
  OBVIOUS
<1>. QED
  BY <1>1, <1>2 DEF Sums

\* When one term changes, so does the sum, by as much.
LEMMA SumStep ==
  ASSUME NEW S, NEW f, NEW g, NEW s, NEW x \in S,
         IsSum(s, f, S), \A y \in S : f[y] \in Int, g[x] \in Int,
         \A y \in S \ {x} : g[y] = f[y]
  PROVE  IsSum(s + g[x] - f[x], g, S)
<1>1. PICK P : Sums(P, f, S) /\ s = P[S]
  BY DEF IsSum
<1>. DEFINE d == g[x] - f[x]
            Q == [T \in SUBSET S |-> IF x \in T THEN P[T] + d ELSE P[T]]
<1>2. \A T \in SUBSET S : P[T] \in Int
  BY <1>1 DEF Sums
<1>3. Q \in [SUBSET S -> Int] /\ Q[{}] = 0
  <2>1. \A T \in SUBSET S : Q[T] \in Int
    BY <1>2
  <2>2. {} \in SUBSET S /\ P[{}] = 0
    BY <1>1 DEF Sums
  <2>. QED
    BY <2>1, <2>2
<1>4. ASSUME NEW T \in SUBSET S, NEW y \in S \ T
      PROVE  Q[T \cup {y}] = Q[T] + g[y]
  <2>1. /\ T \cup {y} \in SUBSET S /\ P[T \cup {y}] = P[T] + f[y]
        /\ P[T] \in Int /\ P[T \cup {y}] \in Int
    BY <1>1, <1>2 DEF Sums
  <2>2. CASE y = x
    <3>1. Q[T \cup {y}] = P[T] + f[y] + d /\ Q[T] = P[T]
      BY <2>1, <2>2
    <3>. QED
      BY <2>1, <2>2, <3>1
  <2>3. CASE y # x
    <3>1. g[y] = f[y]
      BY <2>3
    <3>2. f[y] \in Int
      OBVIOUS
    <3>. QED
      BY <2>1, <2>3, <3>1, <3>2
  <2>. QED
    BY <2>2, <2>3
<1>5. Sums(Q, g, S)
  BY <1>3, <1>4 DEF Sums
<1>6. Q[S] = s + g[x] - f[x]
  <2>1. S \in SUBSET S /\ P[S] \in Int
    BY <1>2
  <2>. QED
    BY <1>1, <2>1
<1>. QED
  BY <1>5, <1>6 DEF IsSum

\* Terms that do not change leave the sum.
LEMMA SumSame ==
  ASSUME NEW S, NEW f, NEW g, NEW s, IsSum(s, f, S), \A y \in S : g[y] = f[y]
  PROVE  IsSum(s, g, S)
<1>1. PICK P : Sums(P, f, S) /\ s = P[S]
  BY DEF IsSum
<1>2. Sums(P, g, S)
  BY <1>1 DEF Sums
<1>. QED
  BY <1>1, <1>2 DEF IsSum

\* Terms that are not negative have a sum that is not; terms that are 0 have
\* the sum 0.
LEMMA SumSign ==
  ASSUME NEW S, IsFiniteSet(S), NEW f, NEW s, IsSum(s, f, S)
  PROVE  /\ (\A x \in S : f[x] \in Nat) => s \in Nat
         /\ (\A x \in S : f[x] = 0) => s = 0
<1>1. PICK P : Sums(P, f, S) /\ s = P[S]
  BY DEF IsSum
<1>. DEFINE R == StrictSubsetOrdering(S)
<1>2. IsWellFoundedOn(R, SUBSET S)
  BY FS_StrictSubsetOrderingWellFounded, FS_FiniteSubsetsOfFinite
<1>3. ASSUME NEW Bad \in SUBSET SUBSET S, {} \notin Bad,
             \A T \in SUBSET S : \A x \in S \ T : T \notin Bad => T \cup {x} \notin Bad
      PROVE  Bad = {}
  <2>. SUFFICES ASSUME Bad # {} PROVE FALSE
    OBVIOUS
  <2>1. PICK T \in Bad : \A U \in Bad : ~(<<U, T>> \in R)
    <3>. HIDE DEF R
    <3>. QED
      BY <1>2, WFMin
  <2>2. PICK x \in T : TRUE
    BY <1>3
  <2>3. T \ {x} \notin Bad
    BY <2>1 DEF StrictSubsetOrdering
  <2>4. T \ {x} \in SUBSET S /\ x \in S \ (T \ {x}) /\ (T \ {x}) \cup {x} = T
    OBVIOUS
  <2>. QED
    BY <1>3, <2>3, <2>4
<1>4. S \in SUBSET S /\ {} \in SUBSET S /\ P[{}] = 0
  BY <1>1 DEF Sums
<1>5. ASSUME \A x \in S : f[x] \in Nat
      PROVE  s \in Nat
  <2>. DEFINE Bad == {T \in SUBSET S : P[T] \notin Nat}
  <2>1. \A T \in SUBSET S : \A x \in S \ T : T \notin Bad => T \cup {x} \notin Bad
    <3>. TAKE T \in SUBSET S
    <3>. TAKE x \in S \ T
    <3>1. P[T \cup {x}] = P[T] + f[x] /\ f[x] \in Nat
      BY <1>1, <1>5 DEF Sums
    <3>. QED
      BY <3>1
  <2>2. {} \notin Bad
    BY <1>4
  <2>3. Bad = {}
    <3>. HIDE DEF Bad
    <3>1. Bad \in SUBSET SUBSET S
      BY DEF Bad
    <3>. QED
      BY <1>3, <2>1, <2>2, <3>1
  <2>. QED
    BY <1>1, <1>4, <2>3
<1>6. ASSUME \A x \in S : f[x] = 0
      PROVE  s = 0
  <2>. DEFINE Bad == {T \in SUBSET S : P[T] # 0}
  <2>1. \A T \in SUBSET S : \A x \in S \ T : T \notin Bad => T \cup {x} \notin Bad
    <3>. TAKE T \in SUBSET S
    <3>. TAKE x \in S \ T
    <3>1. P[T \cup {x}] = P[T] + f[x] /\ f[x] = 0
      BY <1>1, <1>6 DEF Sums
    <3>. QED
      BY <3>1
  <2>2. {} \notin Bad
    BY <1>4
  <2>3. Bad = {}
    <3>. HIDE DEF Bad
    <3>1. Bad \in SUBSET SUBSET S
      BY DEF Bad
    <3>. QED
      BY <1>3, <2>1, <2>2, <3>1
  <2>. QED
    BY <1>1, <1>4, <2>3
<1>. QED
  BY <1>5, <1>6

-----------------------------------------------------------------------------
\* A set of natural numbers that is not empty has a least one.
LEMMA Least ==
  ASSUME NEW T \in SUBSET Nat, T # {}
  PROVE  \E t \in T : \A u \in T : t <= u
<1>. DEFINE R == {ss \in Nat \X Nat : ss[1] < ss[2]}
<1>1. IsWellFoundedOn(R, Nat)
  BY NatLessThanWellFounded DEF OpToRel
<1>2. PICK t \in T : \A u \in T : ~(<<u, t>> \in R)
  <2>. HIDE DEF R
  <2>. QED
    BY <1>1, WFMin
<1>3. ASSUME NEW u \in T
      PROVE  t <= u
  <2>1. t \in Nat /\ u \in Nat /\ ~(<<u, t>> \in R)
    BY <1>2
  <2>2. ~(u < t)
    BY <2>1
  <2>. QED
    BY <2>1, <2>2
<1>. QED
  BY <1>3

\* The sums of the first terms, for as many terms as there are.
UpTo(f, d, n) ==
  /\ f \in [0..n -> Int] /\ f[0] = 0
  /\ \A k \in 1..n : f[k] = f[k - 1] + d[k]

LEMMA UpToExists ==
  ASSUME NEW n \in Nat, NEW d, \A k \in 1..n : d[k] \in Int
  PROVE  \E f : UpTo(f, d, n)
<1>. DEFINE Bad == {m \in Nat : m <= n /\ ~\E f : UpTo(f, d, m)}
<1>1. SUFFICES ASSUME Bad # {}
               PROVE  FALSE
  BY <1>1
<1>2. PICK m \in Bad : \A u \in Bad : m <= u
  <2>1. Bad \in SUBSET Nat
    OBVIOUS
  <2>. HIDE DEF Bad
  <2>. QED
    BY <1>1, <2>1, Least
<1>3. m # 0
  <2>. DEFINE f == [k \in 0..0 |-> 0]
  <2>1. UpTo(f, d, 0)
    BY DEF UpTo
  <2>. HIDE DEF f
  <2>. QED
    BY <2>1
<1>4. m - 1 \in Nat /\ m - 1 <= n /\ m - 1 \notin Bad
  <2>1. m \in Nat /\ m <= n
    OBVIOUS
  <2>2. ~(m <= m - 1)
    BY <2>1
  <2>3. m - 1 \notin Bad
    <3>. HIDE DEF Bad
    <3>. QED
      BY <1>2, <2>2
  <2>. HIDE DEF Bad
  <2>. QED
    BY <1>3, <2>1, <2>3
<1>5. PICK f : UpTo(f, d, m - 1)
  BY <1>4
<1>6. m \in 1..n /\ d[m] \in Int
  BY <1>3
<1>. DEFINE g == [k \in 0..m |-> IF k = m THEN f[m - 1] + d[m] ELSE f[k]]
<1>7. f \in [0..(m - 1) -> Int] /\ f[0] = 0 /\ \A k \in 1..(m - 1) : f[k] = f[k - 1] + d[k]
  BY <1>5 DEF UpTo
<1>8. g \in [0..m -> Int]
  BY <1>6, <1>7
<1>9. g[0] = 0
  BY <1>6, <1>7
<1>10. ASSUME NEW k \in 1..m
       PROVE  g[k] = g[k - 1] + d[k]
  <2>1. CASE k = m
    BY <1>6, <1>7, <2>1
  <2>2. CASE k # m
    <3>1. k \in 1..(m - 1) /\ k - 1 \in 0..(m - 1) /\ k - 1 # m /\ k - 1 \in 0..m /\ k \in 0..m
      BY <1>6, <2>2
    <3>2. g[k] = f[k] /\ g[k - 1] = f[k - 1]
      BY <2>2, <3>1
    <3>. QED
      BY <1>7, <3>1, <3>2
  <2>. QED
    BY <2>1, <2>2
<1>11. UpTo(g, d, m)
  BY <1>8, <1>9, <1>10 DEF UpTo
<1>. QED
  BY <1>11

\* Sums of natural numbers are natural, those of zeros are 0.
LEMMA UpToSign ==
  ASSUME NEW n \in Nat, NEW d, NEW f, UpTo(f, d, n)
  PROVE  /\ (\A k \in 1..n : d[k] \in Nat) => \A k \in 0..n : f[k] \in Nat
         /\ (\A k \in 1..n : d[k] = 0) => \A k \in 0..n : f[k] = 0
<1>1. f \in [0..n -> Int] /\ f[0] = 0 /\ \A k \in 1..n : f[k] = f[k - 1] + d[k]
  BY DEF UpTo
<1>2. ASSUME NEW Bad \in SUBSET (0..n), Bad # {}, 0 \notin Bad
      PROVE  \E k \in 1..n : k \in Bad /\ k - 1 \in (0..n) \ Bad
  <2>1. PICK k \in Bad : \A u \in Bad : k <= u
    <3>1. Bad \in SUBSET Nat
      OBVIOUS
    <3>. QED
      BY <1>2, <3>1, Least
  <2>2. k \in 0..n /\ k # 0
    BY <1>2
  <2>3. k \in 1..n /\ k - 1 \in 0..n /\ ~(k <= k - 1)
    BY <2>2
  <2>. QED
    BY <2>1, <2>3
<1>3. ASSUME \A k \in 1..n : d[k] \in Nat, NEW j \in 0..n, f[j] \notin Nat
      PROVE  FALSE
  <2>. DEFINE Bad == {k \in 0..n : f[k] \notin Nat}
  <2>1. PICK k \in 1..n : k \in Bad /\ k - 1 \in (0..n) \ Bad
    <3>1. Bad \in SUBSET (0..n) /\ Bad # {} /\ 0 \notin Bad
      <4>1. j \in Bad
        BY <1>3
      <4>2. f[0] \in Nat
        BY <1>1
      <4>. QED
        BY <4>1, <4>2
    <3>. HIDE DEF Bad
    <3>. QED
      BY <1>2, <3>1
  <2>2. f[k - 1] \in Nat /\ d[k] \in Nat /\ f[k] = f[k - 1] + d[k]
    BY <1>1, <1>3, <2>1
  <2>3. f[k] \in Nat
    BY <2>2
  <2>. QED
    BY <2>1, <2>3
<1>4. ASSUME \A k \in 1..n : d[k] = 0, NEW j \in 0..n, f[j] # 0
      PROVE  FALSE
  <2>. DEFINE Bad == {k \in 0..n : f[k] # 0}
  <2>1. PICK k \in 1..n : k \in Bad /\ k - 1 \in (0..n) \ Bad
    <3>1. Bad \in SUBSET (0..n) /\ Bad # {} /\ 0 \notin Bad
      BY <1>1, <1>4
    <3>. HIDE DEF Bad
    <3>. QED
      BY <1>2, <3>1
  <2>2. f[k - 1] = 0 /\ d[k] = 0 /\ f[k] = f[k - 1] + d[k]
    BY <1>1, <1>4, <2>1
  <2>3. f[k] = 0
    BY <2>2
  <2>. QED
    BY <2>1, <2>3
<1>. QED
  BY <1>3, <1>4

-----------------------------------------------------------------------------
(* Two's complement: an integer and its place among 2 * max + 2 of them.   *)

Places(max) == (-max - 1)..max
Modulus(max) == 2 * max + 2
Wrapped(max, a) == ((a + max + 1) % Modulus(max)) - max - 1

\* Every integer is a multiple of the modulus and its place in Places(max).
LEMMA WrappedPlace ==
  ASSUME NEW max \in Nat, NEW a \in Int
  PROVE  Wrapped(max, a) \in Places(max) /\ \E q \in Int : a = q * Modulus(max) + Wrapped(max, a)
<1>1. Modulus(max) \in Nat \ {0} /\ max \in Nat
  BY DEF Modulus
<1>. DEFINE b == a + max + 1
<1>2. b \in Int
  BY <1>1
<1>3. /\ b % Modulus(max) \in 0..(Modulus(max) - 1) /\ b \div Modulus(max) \in Int
      /\ b = Modulus(max) * (b \div Modulus(max)) + (b % Modulus(max))
  <2>. HIDE DEF b, Modulus
  <2>. QED
    BY <1>1, <1>2
<1>4. Wrapped(max, a) = (b % Modulus(max)) - max - 1
  BY DEF Wrapped, Modulus
<1>5. Wrapped(max, a) \in Places(max)
  <2>. HIDE DEF b
  <2>. QED
    BY <1>1, <1>3, <1>4 DEF Places, Modulus
<1>6. a = (b \div Modulus(max)) * Modulus(max) + Wrapped(max, a)
  <2>1. a = b - max - 1
    BY <1>1
  <2>2. PICK p \in Int : p = (b \div Modulus(max)) * Modulus(max)
    BY <1>1, <1>3
  <2>3. PICK r \in Int : b = p + r /\ r = b % Modulus(max)
    BY <1>1, <1>3, <2>2
  <2>4. Wrapped(max, a) = r - max - 1
    BY <1>4, <2>3
  <2>5. a = p + Wrapped(max, a)
    <3>. HIDE DEF b
    <3>. QED
      BY <1>2, <2>1, <2>3, <2>4
  <2>. QED
    BY <2>2, <2>5
<1>. QED
  BY <1>3, <1>5, <1>6

\* There is only one such place.
LEMMA WrappedUnique ==
  ASSUME NEW max \in Nat, NEW a \in Int, NEW q \in Int, NEW v \in Places(max), a = q * Modulus(max) + v
  PROVE  Wrapped(max, a) = v
<1>1. Modulus(max) \in Nat \ {0} /\ max \in Nat
  BY DEF Modulus
<1>2. PICK p \in Int : a = p * Modulus(max) + Wrapped(max, a)
  BY WrappedPlace
<1>3. Wrapped(max, a) \in Places(max)
  BY WrappedPlace
<1>4. /\ Wrapped(max, a) \in Int /\ v \in Int
      /\ Wrapped(max, a) - v < Modulus(max) /\ v - Wrapped(max, a) < Modulus(max)
  BY <1>1, <1>3 DEF Places, Modulus
<1>5. (q - p) * Modulus(max) = Wrapped(max, a) - v
  <2>. HIDE DEF Modulus
  <2>. QED
    BY <1>1, <1>2, <1>4
<1>6. q = p
  <2>. HIDE DEF Modulus
  <2>1. CASE q > p
    <3>1. (q - p) * Modulus(max) >= Modulus(max)
      <4>1. q - p >= 1 /\ q - p \in Int
        BY <2>1
      <4>. QED
        BY <1>1, <4>1
    <3>. QED
      BY <1>1, <1>4, <1>5, <3>1
  <2>2. CASE p > q
    <3>1. (p - q) * Modulus(max) >= Modulus(max)
      <4>1. p - q >= 1 /\ p - q \in Int
        BY <2>2
      <4>. QED
        BY <1>1, <4>1
    <3>2. (p - q) * Modulus(max) = v - Wrapped(max, a)
      BY <1>1, <1>4, <1>5
    <3>. QED
      BY <1>1, <1>4, <3>1, <3>2
  <2>. QED
    BY <2>1, <2>2
<1>7. (q - p) * Modulus(max) = 0
  BY <1>1, <1>6
<1>. QED
  BY <1>4, <1>5, <1>7

\* A place is its own.
LEMMA WrappedSame ==
  ASSUME NEW max \in Nat, NEW v \in Places(max)
  PROVE  Wrapped(max, v) = v
<1>1. v \in Int /\ Modulus(max) \in Int
  BY DEF Places, Modulus
<1>2. v = 0 * Modulus(max) + v
  BY <1>1
<1>. QED
  BY <1>1, <1>2, WrappedUnique

\* Overflow on the way makes no difference to the place of a sum.
LEMMA WrappedSum ==
  ASSUME NEW max \in Nat, NEW a \in Int, NEW d \in Int
  PROVE  Wrapped(max, Wrapped(max, a) + d) = Wrapped(max, a + d)
<1>1. Modulus(max) \in Nat \ {0}
  BY DEF Modulus
<1>2. PICK p \in Int : a = p * Modulus(max) + Wrapped(max, a)
  BY WrappedPlace
<1>3. Wrapped(max, a) \in Int
  BY WrappedPlace DEF Places
<1>4. PICK q \in Int : Wrapped(max, a) + d = q * Modulus(max) + Wrapped(max, Wrapped(max, a) + d)
  BY <1>3, WrappedPlace
<1>5. Wrapped(max, Wrapped(max, a) + d) \in Places(max) /\ Wrapped(max, Wrapped(max, a) + d) \in Int
  BY <1>3, WrappedPlace DEF Places
<1>6. a + d = (p + q) * Modulus(max) + Wrapped(max, Wrapped(max, a) + d)
  <2>. HIDE DEF Modulus
  <2>1. (p + q) * Modulus(max) = p * Modulus(max) + q * Modulus(max)
    BY <1>1
  <2>2. PICK x \in Int, y \in Int : x = p * Modulus(max) /\ y = q * Modulus(max)
    BY <1>1
  <2>3. PICK u \in Int, v \in Int : u = Wrapped(max, a) /\ v = Wrapped(max, Wrapped(max, a) + d)
    BY <1>3, <1>5
  <2>4. a = x + u /\ u + d = y + v
    BY <1>2, <1>4, <2>2, <2>3
  <2>5. a + d = x + y + v
    BY <2>4
  <2>. QED
    BY <2>1, <2>2, <2>3, <2>5
<1>. QED
  BY <1>5, <1>6, WrappedUnique

\* The place of a sum that does not fall below the range is at most the sum.
LEMMA WrappedAtMost ==
  ASSUME NEW max \in Nat, NEW a \in Int, a >= -max - 1
  PROVE  Wrapped(max, a) <= a
<1>1. Modulus(max) \in Nat \ {0} /\ Modulus(max) = 2 * max + 2
  BY DEF Modulus
<1>2. PICK q \in Int : a = q * Modulus(max) + Wrapped(max, a)
  BY WrappedPlace
<1>3. Wrapped(max, a) \in Int /\ Wrapped(max, a) <= max
  BY WrappedPlace DEF Places
<1>. HIDE DEF Modulus
<1>4. CASE q >= 0
  <2>1. q * Modulus(max) >= 0
    BY <1>1, <1>4
  <2>. QED
    BY <1>1, <1>2, <1>3, <2>1
<1>5. CASE q < 0
  <2>1. q * Modulus(max) <= -Modulus(max)
    <3>1. -q - 1 \in Nat
      BY <1>5
    <3>2. (-q - 1) * Modulus(max) >= 0
      BY <1>1, <3>1
    <3>. QED
      BY <1>1, <3>2
  <2>2. a <= -Modulus(max) + max
    BY <1>1, <1>2, <1>3, <2>1
  <2>. QED
    BY <1>1, <2>2
<1>. QED
  BY <1>4, <1>5
=============================================================================
