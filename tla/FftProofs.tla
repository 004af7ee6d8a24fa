------------------------------ MODULE FftProofs ------------------------------
(***************************************************************************)
(* The transform of fft_utils.c computes the discrete Fourier transform,   *)
(* for every size that is a power of 2 and over every commutative ring     *)
(* that has the root of unity.                                             *)
(***************************************************************************)
EXTENDS Fft, FiniteSetTheorems, TLAPS

-----------------------------------------------------------------------------
(* Arithmetic: the place y * w + x is the x-th of the y-th row of w.       *)

\* The place of a pixel is a place of the image.
LEMMA PlaceInside ==
  ASSUME NEW w \in Nat \ {0}, NEW h \in Nat \ {0}, NEW x \in 0 .. w - 1, NEW y \in 0 .. h - 1
  PROVE  y * w + x \in 0 .. w * h - 1
<1>1. y * w \in Nat /\ w * h \in Nat
  OBVIOUS
<1>2. (h - 1 - y) * w >= 0
  OBVIOUS
<1>3. (h - 1 - y) * w = w * h - w - y * w
  OBVIOUS
<1> QED BY <1>1, <1>2, <1>3

\* A product of a nonzero number is not smaller than the other factor.
LEMMA ProductBound ==
  ASSUME NEW w \in Nat, NEW k \in Nat \ {0}
  PROVE  k * w >= w
<1>1. (k - 1) * w >= 0
  OBVIOUS
<1>2. (k - 1) * w = k * w - w
  OBVIOUS
<1> QED BY <1>1, <1>2

\* The column and the row of a place.
LEMMA PixelOfPlace ==
  ASSUME NEW w \in Nat \ {0}, NEW x \in 0 .. w - 1, NEW y \in Nat
  PROVE  (y * w + x) % w = x /\ (y * w + x) \div w = y
<1> DEFINE p == y * w + x
           q == p \div w
           r == p % w
<1>1. p \in Nat /\ q \in Int /\ r \in 0 .. w - 1 /\ p = w * q + r
  OBVIOUS
<1>2. (q - y) * w = x - r
  BY <1>1
<1>3. ~ (q > y)
  BY <1>1, <1>2, ProductBound
<1>4. ~ (y > q)
  <2>1. (y - q) * w = r - x
    BY <1>1
  <2> QED BY <1>1, <2>1, ProductBound
<1>5. q = y
  BY <1>1, <1>3, <1>4
<1> QED BY <1>1, <1>2, <1>5

-----------------------------------------------------------------------------
(* Induction and recursion.  The theorems of the library take an operator, *)
(* which the provers cannot instantiate: these take a set and a function.  *)

\* Every set of natural numbers that is not empty has a least element.
LEMMA LeastOf ==
  ASSUME NEW T, T \subseteq Nat, T # {}
  PROVE  \E m \in T : \A k \in T : m <= k
<1> DEFINE below(k) == 0 .. k
           U == {below(k) : k \in T}
           R == StrictSubsetOrdering(Nat)
           S == FiniteSubsetsOf(Nat)
<1>1. U \subseteq S
  <2> SUFFICES ASSUME NEW k \in T PROVE below(k) \in S
    OBVIOUS
  <2>1. IsFiniteSet(0 .. k)
    BY FS_Interval
  <2> QED BY <2>1 DEF FiniteSubsetsOf
<1>2. U # {}
  OBVIOUS
<1>3. IsWellFoundedOn(R, S)
  BY FS_StrictSubsetOrderingWellFounded
<1>4. \E x \in U : \A y \in U : ~ (<<y, x>> \in R)
  <2> HIDE DEF R, S, U
  <2> QED BY <1>1, <1>2, <1>3, WFMin
<1>5. PICK m \in T : \A y \in U : ~ (<<y, below(m)>> \in R)
  BY <1>4
<1>6. ASSUME NEW k \in T, k < m PROVE FALSE
  <2>1. below(k) \in SUBSET Nat /\ below(m) \in SUBSET Nat
    OBVIOUS
  <2>2. below(k) \subseteq below(m) /\ m \in below(m) /\ m \notin below(k)
    BY <1>6
  <2>3. <<below(k), below(m)>> \in R
    BY <2>1, <2>2 DEF StrictSubsetOrdering
  <2> QED BY <1>5, <2>3
<1> QED BY <1>5, <1>6

\* Induction over the natural numbers, for a set of them.
LEMMA Induction ==
  ASSUME NEW T, 0 \in T, \A n \in Nat : n \in T => n + 1 \in T
  PROVE  \A n \in Nat : n \in T
<1> DEFINE U == Nat \ T
<1>1. ASSUME U # {} PROVE FALSE
  <2>1. PICK m \in U : \A k \in U : m <= k
    <3>1. U \subseteq Nat
      OBVIOUS
    <3> HIDE DEF U
    <3> QED BY <1>1, <3>1, LeastOf
  <2>2. m \in Nat /\ m # 0 /\ m - 1 \in Nat /\ (m - 1) + 1 = m
    OBVIOUS
  <2>3. m - 1 \in T
    BY <2>1, <2>2
  <2> QED BY <2>2, <2>3
<1> QED BY <1>1

\* f begins with a and goes on by G.
Iterates(S, G) == G \in [Nat -> [S -> S]]
Iteration(S, a, G, f) == /\ f \in [Nat -> S] /\ f[0] = a
                         /\ \A n \in Nat : f[n + 1] = G[n][f[n]]

\* There is such a function.
LEMMA IterationExists ==
  ASSUME NEW S, NEW a, a \in S, NEW G, Iterates(S, G)
  PROVE  \E f : Iteration(S, a, G, f)
<1> USE DEF Iterates
<1> DEFINE Upto(n, g) == /\ g \in [0 .. n -> S] /\ g[0] = a
                         /\ \A i \in 0 .. n - 1 : g[i + 1] = G[i][g[i]]
<1>1. \A n \in Nat : \E g : Upto(n, g)
  <2> DEFINE T == {n \in Nat : \E g : Upto(n, g)}
  <2>1. 0 \in T
    <3>1. Upto(0, [i \in 0 .. 0 |-> a])
      OBVIOUS
    <3> QED BY <3>1
  <2>2. ASSUME NEW n \in Nat, n \in T PROVE n + 1 \in T
    <3>1. PICK g : Upto(n, g)
      BY <2>2
    <3> DEFINE h == [i \in 0 .. n + 1 |-> IF i = n + 1 THEN G[n][g[n]] ELSE g[i]]
    <3>2. g[n] \in S /\ G[n] \in [S -> S]
      BY <3>1
    <3>3. h \in [0 .. n + 1 -> S] /\ h[0] = a
      BY <3>1, <3>2
    <3>4. ASSUME NEW i \in 0 .. (n + 1) - 1 PROVE h[i + 1] = G[i][h[i]]
      <4>1. CASE i = n
        <5>1. h[n + 1] = G[n][g[n]] /\ h[n] = g[n]
          OBVIOUS
        <5> QED BY <4>1, <5>1
      <4>2. CASE i # n
        <5>1. i \in 0 .. n - 1 /\ i + 1 \in 0 .. n + 1 /\ i + 1 # n + 1 /\ i # n + 1 /\ i \in 0 .. n + 1
          BY <4>2
        <5>2. h[i + 1] = g[i + 1] /\ h[i] = g[i]
          BY <5>1
        <5> QED BY <3>1, <5>1, <5>2
      <4> QED BY <4>1, <4>2
    <3> HIDE DEF h
    <3>5. Upto(n + 1, h)
      BY <3>3, <3>4
    <3> HIDE DEF Upto
    <3> QED BY <3>5
  <2> HIDE DEF T
  <2>3. \A n \in Nat : n \in T
    BY <2>1, <2>2, Induction
  <2> QED BY <2>3 DEF T
<1>2. ASSUME NEW n \in Nat, NEW m \in Nat, NEW g, NEW h, n <= m, Upto(n, g), Upto(m, h)
      PROVE  g[n] = h[n]
  <2> DEFINE T == {i \in Nat : i <= n => g[i] = h[i]}
  <2>1. 0 \in T
    BY <1>2
  <2>2. ASSUME NEW i \in Nat, i \in T PROVE i + 1 \in T
    <3> SUFFICES ASSUME i + 1 <= n PROVE g[i + 1] = h[i + 1]
      OBVIOUS
    <3>1. i \in 0 .. n - 1 /\ i \in 0 .. m - 1 /\ i <= n
      BY <1>2
    <3> QED BY <1>2, <2>2, <3>1
  <2> HIDE DEF T
  <2>3. \A i \in Nat : i \in T
    BY <2>1, <2>2, Induction
  <2> QED BY <2>3 DEF T
<1> DEFINE F == [n \in Nat |-> CHOOSE g : Upto(n, g)]
           f == [n \in Nat |-> F[n][n]]
<1>3. \A n \in Nat : Upto(n, F[n])
  <2> HIDE DEF Upto
  <2> QED BY <1>1
<1> HIDE DEF F
<1>4. ASSUME NEW n \in Nat PROVE F[n] \in [0 .. n -> S] /\ n \in 0 .. n
  <2>1. Upto(n, F[n])
    <3> HIDE DEF Upto
    <3> QED BY <1>3
  <2> QED BY <2>1
<1>5. f \in [Nat -> S]
  BY <1>4
<1>6. f[0] = a
  <2>1. Upto(0, F[0])
    <3> HIDE DEF Upto
    <3> QED BY <1>3
  <2> QED BY <2>1
<1>7. ASSUME NEW n \in Nat PROVE f[n + 1] = G[n][f[n]]
  <2>1. n <= n + 1 /\ n + 1 \in Nat /\ n \in 0 .. (n + 1) - 1
    OBVIOUS
  <2>2. F[n + 1][n + 1] = G[n][F[n + 1][n]]
    BY <1>3, <2>1
  <2>3. F[n][n] = F[n + 1][n]
    <3> HIDE DEF Upto
    <3> QED BY <1>2, <1>3, <2>1
  <2> QED BY <2>1, <2>2, <2>3
<1> HIDE DEF f
<1> QED BY <1>5, <1>6, <1>7 DEF Iteration

-----------------------------------------------------------------------------
(* The ring *)

\* Laws of the ring.
LEMMA RingLaws ==
  /\ Zero \in Value /\ One \in Value /\ W \in Value
  /\ \A a \in Value : /\ Neg(a) \in Value /\ Add(a, Neg(a)) = Zero
                      /\ Add(a, Zero) = a /\ Mul(a, One) = a
                      /\ Add(Zero, a) = a /\ Mul(One, a) = a
  /\ \A a, b \in Value : /\ Add(a, b) \in Value /\ Add(a, b) = Add(b, a)
                         /\ Mul(a, b) \in Value /\ Mul(a, b) = Mul(b, a)
  /\ \A a, b, c \in Value : /\ Add(Add(a, b), c) = Add(a, Add(b, c))
                            /\ Mul(Mul(a, b), c) = Mul(a, Mul(b, c))
                            /\ Mul(a, Add(b, c)) = Add(Mul(a, b), Mul(a, c))
BY RingAssumption

\* The ring is closed under its operations.
LEMMA Closed ==
  /\ Zero \in Value /\ One \in Value /\ W \in Value
  /\ \A a \in Value : Neg(a) \in Value
  /\ \A a, b \in Value : Add(a, b) \in Value /\ Mul(a, b) \in Value
BY RingAssumption

\* Zero and one are neutral, and a value has a negative.
LEMMA Units ==
  \A a \in Value : /\ Add(a, Zero) = a /\ Add(Zero, a) = a /\ Mul(a, One) = a /\ Mul(One, a) = a
                   /\ Add(a, Neg(a)) = Zero
BY RingLaws

\* Multiplication is associative,
LEMMA MulAssociates == \A a, b, c \in Value : Mul(Mul(a, b), c) = Mul(a, Mul(b, c))
BY RingAssumption

\* commutative,
LEMMA MulCommutes == \A a, b \in Value : Mul(a, b) = Mul(b, a)
BY RingAssumption

\* and distributes over addition.
LEMMA MulDistributes == \A a, b, c \in Value : Mul(a, Add(b, c)) = Add(Mul(a, b), Mul(a, c))
BY RingAssumption

\* A sum determines the second summand.
LEMMA Cancel ==
  ASSUME NEW a \in Value, NEW b \in Value, NEW c \in Value, Add(a, b) = Add(a, c)
  PROVE  b = c
<1>1. /\ Neg(a) \in Value /\ Add(Neg(a), a) = Zero
  <2>1. Neg(a) \in Value /\ Add(a, Neg(a)) = Zero
    BY RingLaws
  <2>2. \A p, q \in Value : Add(p, q) = Add(q, p)
    BY RingLaws
  <2> QED
    BY <2>1, <2>2
<1>2. Add(Neg(a), Add(a, b)) = b
  <2>1. Add(Neg(a), Add(a, b)) = Add(Add(Neg(a), a), b)
    BY <1>1, RingLaws
  <2> QED BY <1>1, <2>1, RingLaws
<1>3. Add(Neg(a), Add(a, c)) = c
  <2>1. Add(Neg(a), Add(a, c)) = Add(Add(Neg(a), a), c)
    BY <1>1, RingLaws
  <2> QED BY <1>1, <2>1, RingLaws
<1> QED BY <1>2, <1>3

\* Signs of products.
LEMMA Signs ==
  ASSUME NEW a \in Value, NEW b \in Value
  PROVE  /\ Mul(a, Zero) = Zero
         /\ Mul(Neg(a), b) = Neg(Mul(a, b))
         /\ Neg(Neg(a)) = a
<1>1. ASSUME NEW c \in Value PROVE Mul(c, Zero) = Zero
  <2>1. Zero \in Value /\ Mul(c, Zero) \in Value /\ Add(Zero, Zero) = Zero
    BY RingLaws
  <2>2. Add(Mul(c, Zero), Mul(c, Zero)) = Add(Mul(c, Zero), Zero)
    <3>1. Mul(c, Add(Zero, Zero)) = Add(Mul(c, Zero), Mul(c, Zero))
      BY <2>1, RingLaws
    <3>2. Add(Mul(c, Zero), Zero) = Mul(c, Zero)
      BY <2>1, RingLaws
    <3> QED BY <2>1, <3>1, <3>2
  <2> QED BY <2>1, <2>2, Cancel
<1>2. Mul(Neg(a), b) = Neg(Mul(a, b))
  <2>1. /\ Neg(a) \in Value /\ Mul(a, b) \in Value /\ Mul(Neg(a), b) \in Value
        /\ Neg(Mul(a, b)) \in Value
    BY RingLaws
  <2>2. Add(Mul(a, b), Mul(Neg(a), b)) = Zero
    <3>1. Mul(a, b) = Mul(b, a) /\ Mul(Neg(a), b) = Mul(b, Neg(a))
      BY <2>1, RingLaws
    <3>2. Mul(b, Add(a, Neg(a))) = Add(Mul(b, a), Mul(b, Neg(a)))
      BY <2>1, RingLaws
    <3>3. Add(a, Neg(a)) = Zero
      BY RingLaws
    <3> QED BY <1>1, <3>1, <3>2, <3>3
  <2>3. Add(Mul(a, b), Neg(Mul(a, b))) = Zero
    BY <2>1, RingLaws
  <2> QED BY <2>1, <2>2, <2>3, Cancel
<1>3. Neg(Neg(a)) = a
  <2>1. Neg(a) \in Value /\ Neg(Neg(a)) \in Value
    BY RingLaws
  <2>2. Add(Neg(a), Neg(Neg(a))) = Zero /\ Add(Neg(a), a) = Zero
    BY <2>1, RingLaws
  <2> QED BY <2>1, <2>2, Cancel
<1> QED BY <1>1, <1>2, <1>3

\* Two pairs added crosswise.
LEMMA AddCrossed ==
  ASSUME NEW a \in Value, NEW b \in Value, NEW c \in Value, NEW d \in Value
  PROVE  Add(Add(Add(a, b), c), d) = Add(Add(a, c), Add(b, d))
<1>1. /\ Add(a, b) \in Value /\ Add(a, c) \in Value /\ Add(b, c) \in Value /\ Add(b, d) \in Value
      /\ Add(Add(a, b), c) \in Value
  BY RingLaws
<1>2. Add(Add(a, b), c) = Add(Add(a, c), b)
  <2>1. Add(Add(a, b), c) = Add(a, Add(b, c)) /\ Add(Add(a, c), b) = Add(a, Add(c, b))
    BY RingLaws
  <2> QED BY <2>1, RingLaws
<1>3. Add(Add(Add(a, c), b), d) = Add(Add(a, c), Add(b, d))
  BY <1>1, RingLaws
<1> QED BY <1>2, <1>3

-----------------------------------------------------------------------------
(* Powers of the root *)

\* The equation of the powers.
LEMMA Roots ==
  /\ root \in [Nat -> Value] /\ root[0] = One
  /\ \A k \in Nat : root[k + 1] = Mul(W, root[k])
<1> DEFINE G == [k \in Nat |-> [v \in Value |-> Mul(W, v)]]
<1>1. One \in Value /\ Iterates(Value, G)
  BY Closed DEF Iterates
<1>2. PICK f : Iteration(Value, One, G, f)
  <2> HIDE DEF G
  <2> QED BY <1>1, IterationExists
<1>3. /\ f \in [Nat -> Value] /\ f[0] = One
      /\ \A k \in Nat : f[k + 1] = Mul(W, f[k])
  BY <1>2 DEF Iteration
<1>4. f = [k \in Nat |-> IF k = 0 THEN One ELSE Mul(W, f[k - 1])]
  <2>1. \A k \in Nat : k # 0 => k - 1 \in Nat /\ (k - 1) + 1 = k
    OBVIOUS
  <2>2. \A k \in Nat : f[k] = IF k = 0 THEN One ELSE Mul(W, f[k - 1])
    BY <1>3, <2>1
  <2>3. f = [k \in Nat |-> f[k]]
    BY <1>3
  <2> QED BY <2>2, <2>3
<1>5. root = [k \in Nat |-> IF k = 0 THEN One ELSE Mul(W, root[k - 1])]
  BY <1>4 DEF root
<1>6. root[0] = One /\ \A k \in Nat : root[k + 1] = Mul(W, root[k])
  <2>1. root[0] = One
    BY <1>5
  <2>2. ASSUME NEW k \in Nat PROVE root[k + 1] = Mul(W, root[k])
    <3>1. k + 1 \in Nat /\ k + 1 # 0 /\ (k + 1) - 1 = k
      OBVIOUS
    <3> QED BY <1>5, <3>1
  <2> QED BY <2>1, <2>2
<1> DEFINE T == {k \in Nat : root[k] \in Value}
<1>7. \A k \in Nat : k \in T
  <2>1. 0 \in T
    BY <1>6, Closed
  <2>2. ASSUME NEW k \in Nat, k \in T PROVE k + 1 \in T
    BY <1>6, <2>2, Closed
  <2> HIDE DEF T
  <2> QED BY <2>1, <2>2, Induction
<1> QED BY <1>5, <1>6, <1>7

\* Exponents add.
LEMMA RootSum == \A a, b \in Nat : root[a + b] = Mul(root[a], root[b])
<1> SUFFICES ASSUME NEW b \in Nat PROVE \A a \in Nat : root[a + b] = Mul(root[a], root[b])
  OBVIOUS
<1> DEFINE T == {a \in Nat : root[a + b] = Mul(root[a], root[b])}
<1>1. 0 \in T
  <2>1. root[b] \in Value /\ 0 + b = b
    BY Roots
  <2> QED BY <2>1, Roots, Units
<1>2. ASSUME NEW a \in Nat, a \in T PROVE a + 1 \in T
  <2>1. /\ root[a] \in Value /\ root[b] \in Value /\ a + b \in Nat
        /\ (a + 1) + b = (a + b) + 1
    BY Roots
  <2>2. root[(a + 1) + b] = Mul(W, Mul(root[a], root[b]))
    BY <1>2, <2>1, Roots
  <2>3. Mul(Mul(W, root[a]), root[b]) = Mul(W, Mul(root[a], root[b]))
    <3>1. W \in Value
      BY Closed
    <3> QED BY <2>1, <3>1, MulAssociates
  <2> QED BY <2>2, <2>3, Roots
<1> HIDE DEF T
<1>3. \A a \in Nat : a \in T
  BY <1>1, <1>2, Induction
<1> QED BY <1>3 DEF T

\* The size is even.
LEMMA Halves == N \div 2 \in Nat \ {0} /\ N = 2 * (N \div 2)
<1>1. N % N = 0 /\ N \in 2 .. N /\ N \in Nat
  BY NAssumption
<1>2. N % 2 = 0
  BY <1>1, PowerOfTwoAssumption
<1> QED BY <1>1, <1>2

\* A whole turn, and any number of them, is 1.
LEMMA Turns == \A l \in Nat : N * l \in Nat /\ root[N * l] = One
<1> DEFINE T == {l \in Nat : N * l \in Nat /\ root[N * l] = One}
           h == N \div 2
<1>1. root[N] = One
  <2>1. h \in Nat /\ N = h + h /\ root[h] = Neg(One)
    BY Halves, RootAssumption
  <2> HIDE DEF h
  <2>2. root[N] = Mul(Neg(One), Neg(One))
    BY <2>1, RootSum
  <2>3. One \in Value /\ Neg(One) \in Value /\ Mul(One, Neg(One)) = Neg(One)
    BY Closed, Units
  <2> QED BY <2>2, <2>3, Signs
<1>2. 0 \in T
  <2>1. N * 0 = 0
    BY NAssumption
  <2> QED BY <2>1, Roots
<1>3. ASSUME NEW l \in Nat, l \in T PROVE l + 1 \in T
  <2>1. N \in Nat /\ N * l \in Nat /\ N * (l + 1) = N * l + N
    BY NAssumption
  <2>2. root[N * l + N] = Mul(One, One)
    BY <1>1, <1>3, <2>1, RootSum
  <2> QED BY <2>1, <2>2, Closed, Units
<1> HIDE DEF T
<1>4. \A l \in Nat : l \in T
  BY <1>2, <1>3, Induction
<1> QED BY <1>4 DEF T

\* Whole turns do not count.
LEMMA RootPeriod ==
  ASSUME NEW a \in Nat, NEW l \in Nat
  PROVE  a + N * l \in Nat /\ root[a + N * l] = root[a]
<1>1. N * l \in Nat /\ root[N * l] = One /\ root[a] \in Value
  BY Turns, Roots
<1>2. root[a + N * l] = Mul(root[a], One)
  BY <1>1, RootSum
<1> QED BY <1>1, <1>2, Units

\* Half a turn more changes the sign.
LEMMA RootHalf ==
  ASSUME NEW a \in Nat
  PROVE  root[a + N \div 2] = Neg(root[a])
<1>1. /\ root[a] \in Value /\ One \in Value /\ Neg(One) \in Value /\ N \div 2 \in Nat
  BY Roots, Closed, Halves
<1>2. root[a + N \div 2] = Mul(Neg(One), root[a])
  <2>1. root[a + N \div 2] = Mul(root[a], Neg(One))
    BY <1>1, RootSum, RootAssumption
  <2> QED BY <1>1, <2>1, MulCommutes
<1>3. Mul(Neg(One), root[a]) = Neg(Mul(One, root[a]))
  BY <1>1, Signs
<1>4. Mul(One, root[a]) = root[a]
  BY <1>1, Units
<1> QED BY <1>2, <1>3, <1>4

-----------------------------------------------------------------------------
(* Sums *)

\* The first n terms of f are of the ring; s adds them up.
Terms(f, n) == \A i \in Nat : i < n => f[i] \in Value
Adds(s, f, n) == /\ s \in [Nat -> Value] /\ s[0] = Zero
                 /\ \A i \in Nat : i < n => s[i + 1] = Add(s[i], f[i])

\* Terms of the ring can be added up.
LEMMA SumExists ==
  ASSUME NEW n \in Nat, NEW f, Terms(f, n)
  PROVE  \E s : Adds(s, f, n)
<1> DEFINE G == [i \in Nat |-> [v \in Value |-> IF i < n THEN Add(v, f[i]) ELSE v]]
<1>1. Iterates(Value, G) /\ Zero \in Value
  <2>1. ASSUME NEW i \in Nat, NEW v \in Value PROVE (IF i < n THEN Add(v, f[i]) ELSE v) \in Value
    <3>1. i < n => f[i] \in Value
      BY DEF Terms
    <3> QED BY <3>1, Closed
  <2> QED BY <2>1, Closed DEF Iterates
<1>2. PICK s : Iteration(Value, Zero, G, s)
  <2> HIDE DEF G
  <2> QED BY <1>1, IterationExists
<1>3. s \in [Nat -> Value] /\ s[0] = Zero /\ \A i \in Nat : s[i + 1] = G[i][s[i]]
  <2> HIDE DEF G
  <2> QED BY <1>2 DEF Iteration
<1>4. Adds(s, f, n)
  BY <1>3 DEF Adds
<1> QED BY <1>4

\* Which is what SumTo computes.
LEMMA SumIs ==
  ASSUME NEW n \in Nat, NEW f, NEW s, Adds(s, f, n)
  PROVE  SumTo(f, n) = s[n]
<1> DEFINE Equation(h) == h = [i \in 0 .. n |-> IF i = 0 THEN Zero ELSE Add(h[i - 1], f[i - 1])]
           g == [i \in 0 .. n |-> s[i]]
           sum == CHOOSE h : Equation(h)
<1>1. Equation(g)
  <2>1. ASSUME NEW i \in 0 .. n PROVE g[i] = IF i = 0 THEN Zero ELSE Add(g[i - 1], f[i - 1])
    <3>1. CASE i = 0
      BY <3>1 DEF Adds
    <3>2. CASE i # 0
      <4>1. i - 1 \in Nat /\ i - 1 < n /\ (i - 1) + 1 = i /\ i - 1 \in 0 .. n
        BY <3>2
      <4>2. s[i] = Add(s[i - 1], f[i - 1])
        BY <4>1 DEF Adds
      <4> QED BY <3>2, <4>1, <4>2
    <3> QED BY <3>1, <3>2
  <2>2. g = [i \in 0 .. n |-> g[i]]
    OBVIOUS
  <2> HIDE DEF g
  <2> QED BY <2>1, <2>2
<1>2. Equation(sum)
  <2> HIDE DEF Equation, g
  <2> QED BY <1>1
<1>3. SumTo(f, n) = sum[n]
  BY DEF SumTo
<1> HIDE DEF sum
<1> DEFINE T == {i \in Nat : i <= n => sum[i] = s[i]}
<1>4. 0 \in T
  <2>1. s[0] = Zero
    BY DEF Adds
  <2> QED BY <1>2, <2>1
<1>5. ASSUME NEW i \in Nat, i \in T PROVE i + 1 \in T
  <2> SUFFICES ASSUME i + 1 <= n PROVE sum[i + 1] = s[i + 1]
    OBVIOUS
  <2>1. i + 1 \in 0 .. n /\ i + 1 # 0 /\ (i + 1) - 1 = i /\ i < n /\ i <= n
    OBVIOUS
  <2>2. sum[i + 1] = Add(sum[i], f[i])
    BY <1>2, <2>1
  <2>3. s[i + 1] = Add(s[i], f[i])
    BY <2>1 DEF Adds
  <2> QED BY <1>5, <2>1, <2>2, <2>3
<1> HIDE DEF T
<1>6. n \in T
  BY <1>4, <1>5, Induction
<1> QED BY <1>3, <1>6 DEF T

\* A sum of terms of the ring is of the ring.
LEMMA SumInRing ==
  ASSUME NEW n \in Nat, NEW f, Terms(f, n)
  PROVE  SumTo(f, n) \in Value
<1>1. PICK s : Adds(s, f, n)
  BY SumExists
<1>2. SumTo(f, n) = s[n]
  BY <1>1, SumIs
<1> QED BY <1>1, <1>2 DEF Adds

\* The first n terms are the same.
SameTerms(f, g, n) == \A i \in Nat : i < n => f[i] = g[i]

\* Equal terms have equal sums.
LEMMA SumOfSame ==
  ASSUME NEW n \in Nat, NEW f, NEW g, Terms(f, n), SameTerms(f, g, n)
  PROVE  SumTo(f, n) = SumTo(g, n)
<1>1. PICK s : Adds(s, f, n)
  BY SumExists
<1>2. Adds(s, g, n)
  BY <1>1 DEF Adds, SameTerms
<1> QED BY <1>1, <1>2, SumIs

\* The sum of one term.
LEMMA SumOfOne ==
  ASSUME NEW f, f[0] \in Value
  PROVE  SumTo(f, 1) = f[0]
<1>1. Terms(f, 1)
  BY DEF Terms
<1>2. PICK s : Adds(s, f, 1)
  BY <1>1, SumExists
<1>3. SumTo(f, 1) = s[1]
  BY <1>2, SumIs
<1>4. s[0 + 1] = Add(Zero, f[0])
  BY <1>2 DEF Adds
<1> QED BY <1>3, <1>4, Units

\* The first n terms of g are c times those of f.
Scaled(c, f, g, n) == \A i \in Nat : i < n => g[i] = Mul(c, f[i])

\* A common factor.
LEMMA SumScaled ==
  ASSUME NEW n \in Nat, NEW f, NEW g, NEW c \in Value, Terms(f, n), Scaled(c, f, g, n)
  PROVE  SumTo(g, n) = Mul(c, SumTo(f, n))
<1>1. Terms(g, n)
  BY Closed DEF Terms, Scaled
<1>2. PICK s : Adds(s, f, n)
  BY SumExists
<1>3. PICK t : Adds(t, g, n)
  BY <1>1, SumExists
<1> DEFINE T == {i \in Nat : i <= n => t[i] = Mul(c, s[i])}
<1>4. 0 \in T
  <2>1. s[0] = Zero /\ t[0] = Zero
    BY <1>2, <1>3 DEF Adds
  <2> QED BY <2>1, Signs
<1>5. ASSUME NEW i \in Nat, i \in T PROVE i + 1 \in T
  <2> SUFFICES ASSUME i + 1 <= n PROVE t[i + 1] = Mul(c, s[i + 1])
    OBVIOUS
  <2>1. i < n /\ i <= n
    OBVIOUS
  <2>2. /\ s[i + 1] = Add(s[i], f[i]) /\ t[i + 1] = Add(t[i], g[i])
        /\ s[i] \in Value /\ f[i] \in Value /\ g[i] = Mul(c, f[i]) /\ t[i] = Mul(c, s[i])
    <3>1. s[i + 1] = Add(s[i], f[i]) /\ s[i] \in Value
      BY <1>2, <2>1 DEF Adds
    <3>2. t[i + 1] = Add(t[i], g[i])
      BY <1>3, <2>1 DEF Adds
    <3>3. f[i] \in Value /\ g[i] = Mul(c, f[i])
      BY <2>1 DEF Terms, Scaled
    <3>4. t[i] = Mul(c, s[i])
      BY <1>5, <2>1
    <3> QED BY <3>1, <3>2, <3>3, <3>4
  <2>3. Mul(c, Add(s[i], f[i])) = Add(Mul(c, s[i]), Mul(c, f[i]))
    BY <2>2, MulDistributes
  <2> QED BY <2>2, <2>3
<1> HIDE DEF T
<1>6. n \in T
  BY <1>4, <1>5, Induction
<1>7. t[n] = Mul(c, s[n])
  BY <1>6 DEF T
<1> QED BY <1>1, <1>2, <1>3, <1>7, SumIs

\* f goes through g and h in turns.
Interleaves(f, g, h, m) == \A i \in Nat : i < m => f[2 * i] = g[i] /\ f[2 * i + 1] = h[i]

\* The terms at even and at odd places.
LEMMA SumSplit ==
  ASSUME NEW m \in Nat, NEW f, NEW g, NEW h, Terms(g, m), Terms(h, m), Interleaves(f, g, h, m)
  PROVE  SumTo(f, 2 * m) = Add(SumTo(g, m), SumTo(h, m))
<1>1. Terms(f, 2 * m)
  <2> SUFFICES ASSUME NEW i \in Nat, i < 2 * m PROVE f[i] \in Value
    BY DEF Terms
  <2>1. PICK q \in Nat : i = 2 * q \/ i = 2 * q + 1
    <3>1. i \div 2 \in Nat /\ (i = 2 * (i \div 2) \/ i = 2 * (i \div 2) + 1)
      OBVIOUS
    <3> QED BY <3>1
  <2>2. q < m
    BY <2>1
  <2> QED BY <2>1, <2>2 DEF Terms, Interleaves
<1>2. PICK r : Adds(r, f, 2 * m)
  BY <1>1, SumExists
<1>3. PICK s : Adds(s, g, m)
  BY SumExists
<1>4. PICK t : Adds(t, h, m)
  BY SumExists
<1> DEFINE T == {i \in Nat : i <= m => r[2 * i] = Add(s[i], t[i])}
<1>5. 0 \in T
  <2>1. r[0] = Zero /\ s[0] = Zero /\ t[0] = Zero
    BY <1>2, <1>3, <1>4 DEF Adds
  <2>2. Add(Zero, Zero) = Zero /\ 2 * 0 = 0
    BY Closed, Units
  <2> QED BY <2>1, <2>2
<1>6. ASSUME NEW i \in Nat, i \in T PROVE i + 1 \in T
  <2> SUFFICES ASSUME i + 1 <= m PROVE r[2 * (i + 1)] = Add(s[i + 1], t[i + 1])
    OBVIOUS
  <2>1. /\ i < m /\ i <= m /\ 2 * i \in Nat /\ 2 * i + 1 \in Nat
        /\ 2 * i < 2 * m /\ 2 * i + 1 < 2 * m /\ 2 * (i + 1) = (2 * i + 1) + 1
    OBVIOUS
  <2>2. r[2 * i + 1] = Add(r[2 * i], f[2 * i]) /\ r[2 * (i + 1)] = Add(r[2 * i + 1], f[2 * i + 1])
    BY <1>2, <2>1 DEF Adds
  <2>3. s[i + 1] = Add(s[i], g[i]) /\ s[i] \in Value
    BY <1>3, <2>1 DEF Adds
  <2>4. t[i + 1] = Add(t[i], h[i]) /\ t[i] \in Value
    BY <1>4, <2>1 DEF Adds
  <2>5. f[2 * i] = g[i] /\ f[2 * i + 1] = h[i] /\ g[i] \in Value /\ h[i] \in Value
    BY <2>1 DEF Terms, Interleaves
  <2>6. r[2 * i] = Add(s[i], t[i])
    BY <1>6, <2>1
  <2>7. Add(Add(Add(s[i], t[i]), g[i]), h[i]) = Add(Add(s[i], g[i]), Add(t[i], h[i]))
    BY <2>3, <2>4, <2>5, AddCrossed
  <2> QED BY <2>2, <2>3, <2>4, <2>5, <2>6, <2>7
<1> HIDE DEF T
<1>7. m \in T
  BY <1>5, <1>6, Induction
<1>8. r[2 * m] = Add(s[m], t[m])
  BY <1>7 DEF T
<1>9. 2 * m \in Nat
  OBVIOUS
<1> QED BY <1>2, <1>3, <1>4, <1>8, <1>9, SumIs

-----------------------------------------------------------------------------
(* The transform of every step-th sample *)

\* The m samples of x from base on, step by step, times powers of the root.
PartTerms(x, base, step, k) == [j \in Nat |-> Mul(x[base + step * j], root[(step * j) * k])]
Part(x, base, step, m, k) == SumTo(PartTerms(x, base, step, k), m)

\* A level of the recursion: it has m samples, step apart, the first at base.
Level(base, step, m) == /\ step \in Nat \ {0} /\ m \in Nat \ {0} /\ step * m = N
                        /\ base \in Nat /\ base < step

\* A level that is not the last has two halves, of m samples each.
Halved(base, step, m) == /\ step \in Nat \ {0} /\ m \in Nat \ {0} /\ (2 * step) * m = N
                         /\ base \in Nat /\ base < step

\* They are levels.
LEMMA HalfLevels ==
  ASSUME NEW base, NEW step, NEW m, Halved(base, step, m)
  PROVE  Level(base, 2 * step, m) /\ Level(base + step, 2 * step, m)
BY DEF Halved, Level

\* The samples of a level are samples of the signal.
LEMMA LevelPlace ==
  ASSUME NEW base, NEW step, NEW m, Level(base, step, m), NEW j \in Nat, j < m
  PROVE  base + step * j \in Index
<1>1. step \in Nat \ {0} /\ m \in Nat \ {0} /\ step * m = N /\ base \in 0 .. step - 1 /\ j \in 0 .. m - 1
  BY DEF Level
<1>2. j * step + base \in 0 .. step * m - 1
  BY <1>1, PlaceInside
<1>3. j * step + base = base + step * j
  BY <1>1
<1> QED BY <1>1, <1>2, <1>3 DEF Index

\* Products of indices.
LEMMA Places ==
  ASSUME NEW step \in Nat, NEW i \in Nat, NEW k \in Nat
  PROVE  /\ step * i \in Nat /\ (step * i) * k \in Nat /\ step * k \in Nat
         /\ step * (2 * i) = (2 * step) * i
         /\ step * (2 * i + 1) = (2 * step) * i + step
         /\ ((2 * step) * i + step) * k = ((2 * step) * i) * k + step * k
         /\ (2 * step) * i \in Nat /\ ((2 * step) * i) * k \in Nat
OBVIOUS

\* The terms of a part are of the ring.
LEMMA PartInRing ==
  ASSUME NEW x \in Arrays, NEW base, NEW step, NEW m, Level(base, step, m), NEW k \in Nat
  PROVE  /\ Terms(PartTerms(x, base, step, k), m)
         /\ Part(x, base, step, m, k) \in Value
<1>1. Terms(PartTerms(x, base, step, k), m)
  <2> SUFFICES ASSUME NEW i \in Nat, i < m
               PROVE  Mul(x[base + step * i], root[(step * i) * k]) \in Value
    BY DEF Terms, PartTerms
  <2>1. x[base + step * i] \in Value
    BY LevelPlace DEF Arrays
  <2>2. step \in Nat
    BY DEF Level
  <2>3. root[(step * i) * k] \in Value
    BY <2>2, Places, Roots
  <2> QED BY <2>1, <2>3, Closed
<1>2. m \in Nat
  BY DEF Level
<1> QED BY <1>1, <1>2, SumInRing DEF Part

\* The even and the odd samples of a level are the levels below it.
LEMMA PartSplits ==
  ASSUME NEW x \in Arrays, NEW base, NEW step, NEW m, Halved(base, step, m), NEW k \in Nat
  PROVE  Part(x, base, step, 2 * m, k)
         = Add(Part(x, base, 2 * step, m, k),
               Mul(root[step * k], Part(x, base + step, 2 * step, m, k)))
<1> DEFINE f == PartTerms(x, base, step, k)
           g == PartTerms(x, base, 2 * step, k)
           o == PartTerms(x, base + step, 2 * step, k)
           c == root[step * k]
           h == [i \in Nat |-> Mul(c, o[i])]
<1>0. Level(base, 2 * step, m) /\ Level(base + step, 2 * step, m)
  BY HalfLevels
<1>1. m \in Nat /\ step \in Nat /\ base \in Nat
  BY DEF Halved
<1>2. c \in Value
  BY <1>1, Places, Roots
<1>3. Terms(g, m) /\ Terms(o, m)
  BY <1>0, PartInRing
<1>4. ASSUME NEW i \in Nat, i < m
      PROVE  f[2 * i] = g[i] /\ f[2 * i + 1] = h[i]
  <2>1. /\ 2 * i \in Nat /\ 2 * i + 1 \in Nat
        /\ f[2 * i] = Mul(x[base + step * (2 * i)], root[(step * (2 * i)) * k])
        /\ f[2 * i + 1] = Mul(x[base + step * (2 * i + 1)], root[(step * (2 * i + 1)) * k])
    BY DEF PartTerms
  <2>2. /\ g[i] = Mul(x[base + (2 * step) * i], root[((2 * step) * i) * k])
        /\ o[i] = Mul(x[(base + step) + (2 * step) * i], root[((2 * step) * i) * k])
    BY DEF PartTerms
  <2>3. h[i] = Mul(c, o[i])
    OBVIOUS
  <2> HIDE DEF f, g, o, h
  <2>4. f[2 * i] = g[i]
    BY <1>1, <2>1, <2>2, Places
  <2> DEFINE y == x[(base + step) + (2 * step) * i]
             r == root[((2 * step) * i) * k]
  <2>5. f[2 * i + 1] = Mul(y, Mul(r, c))
    <3>1. base + ((2 * step) * i + step) = (base + step) + (2 * step) * i
      BY <1>1, Places
    <3>2. root[((2 * step) * i) * k + step * k] = Mul(r, c)
      <4>1. ((2 * step) * i) * k \in Nat /\ step * k \in Nat
        BY <1>1, Places
      <4> QED
        BY <4>1, RootSum
    <3>3. step * (2 * i + 1) = (2 * step) * i + step
      BY <1>1, Places
    <3>4. ((2 * step) * i + step) * k = ((2 * step) * i) * k + step * k
      BY <1>1, Places
    <3> HIDE DEF c, r
    <3> QED BY <2>1, <3>1, <3>2, <3>3, <3>4
  <2>6. y \in Value /\ r \in Value
    <3>1. (base + step) + (2 * step) * i \in Index
      <4> DEFINE b == base + step
                 d == 2 * step
      <4>1. Level(b, d, m)
        BY <1>0
      <4> HIDE DEF b, d, y
      <4>2. b + d * i \in Index
        BY <1>4, <4>1, LevelPlace
      <4> QED BY <4>2 DEF b, d
    <3> HIDE DEF c
    <3>2. y \in Value
      BY <3>1 DEF Arrays
    <3>3. r \in Value
      BY <1>1, Places, Roots
    <3> QED BY <3>2, <3>3
  <2>7. o[i] = Mul(y, r)
    BY <2>2
  <2> HIDE DEF c, y, r
  <2>8. Mul(y, Mul(r, c)) = Mul(c, Mul(y, r))
    <3>1. Mul(y, r) \in Value
      BY <2>6, Closed
    <3>2. Mul(Mul(y, r), c) = Mul(y, Mul(r, c))
      BY <1>2, <2>6, MulAssociates
    <3> QED BY <1>2, <3>1, <3>2, MulCommutes
  <2> QED BY <2>3, <2>4, <2>5, <2>7, <2>8
<1>5. Interleaves(f, g, h, m)
  <2> HIDE DEF f, g, h
  <2> QED BY <1>4 DEF Interleaves
<1>6. Scaled(c, o, h, m)
  <2> HIDE DEF c, o
  <2> QED BY DEF Scaled
<1> HIDE DEF f, g, h, o, c
<1>7. Terms(h, m)
  BY <1>2, <1>3, <1>6, Closed DEF Terms, Scaled
<1>8. SumTo(f, 2 * m) = Add(SumTo(g, m), SumTo(h, m))
  BY <1>1, <1>3, <1>5, <1>7, SumSplit
<1>9. SumTo(h, m) = Mul(c, SumTo(o, m))
  BY <1>1, <1>2, <1>3, <1>6, SumScaled
<1> QED BY <1>8, <1>9 DEF Part, f, g, o, c

\* The transform of m samples repeats itself after m places.
LEMMA PartRepeats ==
  ASSUME NEW x \in Arrays, NEW base, NEW step, NEW m, Level(base, step, m), NEW k \in Nat
  PROVE  Part(x, base, step, m, k + m) = Part(x, base, step, m, k)
<1> DEFINE f == PartTerms(x, base, step, k)
           g == PartTerms(x, base, step, k + m)
<1>1. step \in Nat /\ m \in Nat /\ k + m \in Nat /\ step * m = N
  BY DEF Level
<1>2. Terms(f, m)
  BY PartInRing
<1>3. ASSUME NEW i \in Nat, i < m PROVE f[i] = g[i]
  <2>1. (step * i) * (k + m) = (step * i) * k + N * i
    <3>1. (step * i) * (k + m) = (step * i) * k + (step * m) * i
      BY <1>1
    <3> QED BY <1>1, <3>1
  <2>2. (step * i) * k \in Nat
    BY <1>1, Places
  <2>3. root[(step * i) * (k + m)] = root[(step * i) * k]
    BY <2>1, <2>2, RootPeriod
  <2> QED BY <2>3 DEF PartTerms
<1>4. SameTerms(f, g, m)
  <2> HIDE DEF f, g
  <2> QED BY <1>3 DEF SameTerms
<1> HIDE DEF f, g
<1>5. SumTo(f, m) = SumTo(g, m)
  BY <1>1, <1>2, <1>4, SumOfSame
<1> QED BY <1>5 DEF Part, f, g

\* What a butterfly adds and subtracts.
LEMMA PartButterfly ==
  ASSUME NEW x \in Arrays, NEW base, NEW step, NEW m, Halved(base, step, m), NEW k \in Nat
  PROVE  LET e == Part(x, base, 2 * step, m, k)
             t == Mul(root[step * k], Part(x, base + step, 2 * step, m, k))
         IN  /\ Part(x, base, step, 2 * m, k) = Add(e, t)
             /\ Part(x, base, step, 2 * m, k + m) = Add(e, Neg(t))
<1> DEFINE e == Part(x, base, 2 * step, m, k)
           o == Part(x, base + step, 2 * step, m, k)
           t == Mul(root[step * k], o)
<1>1. Part(x, base, step, 2 * m, k) = Add(e, t)
  BY PartSplits
<1>0. Level(base, 2 * step, m) /\ Level(base + step, 2 * step, m)
  BY HalfLevels
<1>2. m \in Nat /\ step \in Nat /\ (2 * step) * m = N /\ k + m \in Nat
  BY DEF Halved
<1>3. /\ Part(x, base, 2 * step, m, k + m) = e
      /\ Part(x, base + step, 2 * step, m, k + m) = o
  BY <1>0, PartRepeats
<1>4. Part(x, base, step, 2 * m, k + m) = Add(e, Mul(root[step * (k + m)], o))
  <2> HIDE DEF e, o
  <2>1. ASSUME NEW l \in Nat
        PROVE  Part(x, base, step, 2 * m, l)
               = Add(Part(x, base, 2 * step, m, l),
                     Mul(root[step * l], Part(x, base + step, 2 * step, m, l)))
    BY PartSplits
  <2>2. Part(x, base, step, 2 * m, k + m)
        = Add(Part(x, base, 2 * step, m, k + m),
              Mul(root[step * (k + m)], Part(x, base + step, 2 * step, m, k + m)))
    BY <1>2, <2>1
  <2> QED BY <1>3, <2>2
<1>5. root[step * (k + m)] = Neg(root[step * k])
  <2>1. step * (k + m) = step * k + N \div 2
    <3>1. step * (k + m) = step * k + step * m
      BY <1>2
    <3>2. 2 * (step * m) = N /\ step * m \in Nat
      BY <1>2
    <3>3. N \div 2 = step * m
      BY <3>2
    <3> QED BY <3>1, <3>3
  <2>2. step * k \in Nat
    BY <1>2
  <2> QED BY <2>1, <2>2, RootHalf
<1>6. o \in Value /\ root[step * k] \in Value
  <2>1. o \in Value
    BY <1>0, PartInRing
  <2> QED BY <1>2, <2>1, Places, Roots
<1> HIDE DEF e, o
<1>7. Mul(Neg(root[step * k]), o) = Neg(t)
  BY <1>6, Signs
<1> QED BY <1>1, <1>4, <1>5, <1>7 DEF e, o

\* One sample is its own transform.
LEMMA PartOfOne ==
  ASSUME NEW x \in Arrays, NEW base, Level(base, N, 1)
  PROVE  Part(x, base, N, 1, 0) = x[base]
<1> DEFINE f == PartTerms(x, base, N, 0)
<1>1. base \in Nat /\ base \in Index /\ N \in Nat
  BY NAssumption DEF Level, Index
<1>2. N * 0 = 0 /\ (N * 0) * 0 = 0 /\ base + N * 0 = base
  BY <1>1
<1>3. f[0] = Mul(x[base], One)
  BY <1>2, Roots DEF PartTerms
<1>4. x[base] \in Value
  BY <1>1 DEF Arrays
<1>5. f[0] = x[base]
  BY <1>3, <1>4, Units
<1> HIDE DEF f
<1>6. SumTo(f, 1) = f[0]
  BY <1>4, <1>5, SumOfOne
<1> QED BY <1>5, <1>6 DEF Part, f

\* The indices of a signal.
LEMMA IndexOf == N \in Nat \ {0} /\ \A i \in Nat : i < N <=> i \in Index
BY NAssumption DEF Index

\* All the samples give the transform of the signal.
LEMMA WholeSignal ==
  ASSUME NEW x \in Arrays, NEW k \in Index
  PROVE  Part(x, 0, 1, N, k) = Dft(x)[k]
<1> DEFINE f == PartTerms(x, 0, 1, k)
           g == [j \in Index |-> Mul(x[j], root[(j * k) % N])]
<1>1. N \in Nat \ {0} /\ k \in Nat /\ Level(0, 1, N)
  BY NAssumption DEF Index, Level
<1>2. Terms(f, N)
  BY <1>1, PartInRing
<1>3. ASSUME NEW i \in Nat, i < N PROVE f[i] = g[i]
  <2>1. i \in Index
    BY <1>3, IndexOf
  <2>2. 0 + 1 * i = i /\ 1 * i = i
    OBVIOUS
  <2>3. root[(i * k) % N] = root[i * k]
    <3>1. i * k \in Nat
      BY <1>1
    <3> DEFINE a == (i * k) % N
               l == (i * k) \div N
    <3>2. a \in Nat /\ l \in Nat /\ a + N * l = i * k
      <4> DEFINE p == i * k
      <4>1. p \in Nat
        BY <3>1
      <4> HIDE DEF p
      <4>2. p % N \in Nat /\ p \div N \in Nat /\ (p % N) + N * (p \div N) = p
        BY <1>1, <4>1
      <4> QED BY <4>2 DEF p
    <3> HIDE DEF a, l
    <3>3. root[a + N * l] = root[a]
      BY <3>2, RootPeriod
    <3> QED BY <3>2, <3>3 DEF a
  <2>4. f[i] = Mul(x[0 + 1 * i], root[(1 * i) * k])
    BY DEF PartTerms
  <2>5. g[i] = Mul(x[i], root[(i * k) % N])
    BY <2>1
  <2> HIDE DEF f, g
  <2> QED BY <2>2, <2>3, <2>4, <2>5
<1>4. SameTerms(f, g, N)
  <2> HIDE DEF f, g
  <2> QED BY <1>3 DEF SameTerms
<1>5. Dft(x)[k] = SumTo(g, N)
  BY DEF Dft
<1> HIDE DEF f, g
<1>6. SumTo(f, N) = SumTo(g, N)
  BY <1>1, <1>2, <1>4, SumOfSame
<1> QED BY <1>5, <1>6 DEF Part, f

-----------------------------------------------------------------------------
(* The arrays of a call *)

\* The places of a call.
On(j, base, step) == \E k \in Nat : j = base + step * k

\* The remainder of a sum with a multiple.
LEMMA Remainder ==
  ASSUME NEW d \in Nat \ {0}, NEW q \in Nat, NEW r \in Nat, r < d
  PROVE  /\ d * q \in Nat /\ (d * q + r) % d = r /\ (d * q + r) \div d = q
         /\ (d * q) % d = 0 \/ r # 0
<1>1. r \in 0 .. d - 1 /\ q * d = d * q /\ d * q \in Nat
  OBVIOUS
<1>2. (q * d + r) % d = r /\ (q * d + r) \div d = q
  BY <1>1, PixelOfPlace
<1>3. r = 0 => d * q + r = d * q
  BY <1>1
<1> QED BY <1>1, <1>2, <1>3

\* How the code tells whether a place is one of a call.
LEMMA OnPlace ==
  ASSUME NEW j \in Nat, NEW base \in Nat, NEW step \in Nat \ {0}
  PROVE  On(j, base, step) <=> ~ (j < base \/ (j - base) % step # 0)
<1>1. ASSUME NEW k \in Nat, j = base + step * k PROVE ~ (j < base \/ (j - base) % step # 0)
  <2>1. step * k \in Nat /\ (step * k + 0) % step = 0 /\ step * k + 0 = step * k
    BY Remainder
  <2>2. j - base = step * k /\ ~ (j < base)
    BY <1>1, <2>1
  <2> QED BY <2>1, <2>2
<1>2. ASSUME ~ (j < base), (j - base) % step = 0 PROVE On(j, base, step)
  <2>1. j - base \in Nat
    BY <1>2
  <2>2. (j - base) \div step \in Nat /\ j - base = step * ((j - base) \div step)
    BY <1>2, <2>1
  <2>3. j = base + step * ((j - base) \div step)
    BY <2>1, <2>2
  <2> QED BY <2>2, <2>3 DEF On
<1> QED BY <1>1, <1>2 DEF On

\* The two halves of the places of a call: what the loop reads for each.
LEMMA HalfPlaces ==
  ASSUME NEW base, NEW step, NEW m, Halved(base, step, m), NEW k \in Nat, k < m
  PROVE  /\ base + step * k \in Index /\ base + step * (k + m) \in Index
         /\ (base + step * k) - base = step * k
         /\ (base + step * (k + m)) - base = step * (k + m)
         /\ 2 * (step * k) < N /\ ~ (2 * (step * (k + m)) < N)
         /\ (2 * (step * k)) % N = (2 * step) * k
         /\ (2 * (step * (k + m))) % N = (2 * step) * k
         /\ ((2 * step) * k) \div 2 = step * k
<1> DEFINE s == step * k
           h == step * m
<1>0. step \in Nat \ {0} /\ m \in Nat \ {0} /\ (2 * step) * m = N /\ base \in Nat /\ base < step
  BY DEF Halved
<1>1. /\ s \in Nat /\ h \in Nat /\ N = 2 * h /\ (2 * step) * k = 2 * s
      /\ step * (k + m) = s + h
  BY <1>0
<1>2. s + step <= h
  <2>1. (m - k) * step >= step
    <3>1. m - k \in Nat \ {0}
      BY <1>0
    <3> QED BY <1>0, <3>1, ProductBound
  <2>2. (m - k) * step = h - s
    BY <1>0
  <2> HIDE DEF s, h
  <2> QED BY <1>0, <1>1, <2>1, <2>2
<1> HIDE DEF s, h
<1>3. N \in Nat \ {0}
  BY IndexOf
<1>4. base + s < N /\ base + (s + h) < N /\ 2 * s < N /\ ~ (2 * (s + h) < N)
  BY <1>0, <1>1, <1>2
<1>5. base + s \in Index /\ base + (s + h) \in Index
  BY <1>0, <1>1, <1>4, IndexOf
<1>6. (2 * s) % N = 2 * s /\ (2 * (s + h)) % N = 2 * s
  <2>1. 2 * s \in Nat /\ 2 * s < N
    BY <1>1, <1>4
  <2>2. (N * 0 + 2 * s) % N = 2 * s /\ (N * 1 + 2 * s) % N = 2 * s
    BY <1>3, <2>1, Remainder
  <2>3. N * 0 + 2 * s = 2 * s /\ N * 1 + 2 * s = 2 * (s + h)
    BY <1>1, <1>3
  <2> QED BY <2>2, <2>3
<1>7. (2 * s) \div 2 = s /\ (base + s) - base = s /\ (base + (s + h)) - base = s + h
  BY <1>0, <1>1
<1> QED BY <1>1, <1>4, <1>5, <1>6, <1>7 DEF s

\* What the loop of a call computes.
LEMMA ButterflyAt ==
  ASSUME NEW buf, NEW out, NEW base, NEW step, NEW m, Halved(base, step, m),
         NEW k \in Nat, k < m
  PROVE  LET b == Butterflies(buf, out, base, step)
             e == out[base + (2 * step) * k]
             t == Mul(root[step * k], out[(base + step) + (2 * step) * k])
         IN  b[base + step * k] = Add(e, t) /\ b[base + step * (k + m)] = Add(e, Neg(t))
<1> DEFINE b == Butterflies(buf, out, base, step)
           i == (2 * step) * k
           e == out[base + i]
           t == Mul(root[step * k], out[(base + step) + i])
           j1 == base + step * k
           j2 == base + step * (k + m)
<1>0. step \in Nat \ {0} /\ m \in Nat \ {0} /\ base \in Nat
  BY DEF Halved
<1>1. /\ j1 \in Index /\ j2 \in Index
      /\ j1 - base = step * k /\ j2 - base = step * (k + m)
      /\ 2 * (j1 - base) < N /\ ~ (2 * (j2 - base) < N)
      /\ (2 * (j1 - base)) % N = i /\ (2 * (j2 - base)) % N = i
      /\ i \div 2 = step * k
  <2>1. /\ j1 - base = step * k /\ j2 - base = step * (k + m)
    BY HalfPlaces
  <2>2. /\ j1 \in Index /\ j2 \in Index
        /\ 2 * (step * k) < N /\ ~ (2 * (step * (k + m)) < N)
        /\ (2 * (step * k)) % N = i /\ (2 * (step * (k + m))) % N = i
        /\ i \div 2 = step * k
    BY HalfPlaces
  <2> HIDE DEF j1, j2, i
  <2> QED BY <2>1, <2>2, Zenon
<1>2. /\ ~ (j1 < base \/ (j1 - base) % step # 0)
      /\ ~ (j2 < base \/ (j2 - base) % step # 0)
  <2>1. On(j1, base, step) /\ On(j2, base, step)
    <3>1. k + m \in Nat
      BY <1>0
    <3> QED BY <3>1, Zenon DEF On
  <2>2. j1 \in Nat /\ j2 \in Nat
    BY <1>1 DEF Index
  <2> HIDE DEF j1, j2
  <2> QED BY <1>0, <2>1, <2>2, OnPlace
<1>3. (base + i) + step = (base + step) + i /\ i \in Nat
  BY <1>0
<1>4. Mul(Twiddle(i), out[(base + i) + step]) = t
  <2> HIDE DEF i
  <2> QED BY <1>1, <1>3 DEF Twiddle
<1>5. ASSUME NEW j \in Index, ~ (j < base \/ (j - base) % step # 0), (2 * (j - base)) % N = i
      PROVE  b[j] = IF 2 * (j - base) < N THEN Add(e, t) ELSE Add(e, Neg(t))
  <2> HIDE DEF i
  <2>1. b[j] = LET u == Mul(Twiddle(i), out[base + i + step])
               IN  IF 2 * (j - base) < N THEN Add(out[base + i], u) ELSE Add(out[base + i], Neg(u))
    BY <1>5, Zenon DEF Butterflies
  <2> HIDE DEF b, t
  <2> QED BY <1>4, <2>1
<1> HIDE DEF b, e, t, i, j1, j2
<1>6. b[j1] = Add(e, t) /\ b[j2] = Add(e, Neg(t))
  BY <1>1, <1>2, <1>5
<1> QED BY <1>6 DEF b, e, t, i, j1, j2

\* The loop leaves the other places alone.
LEMMA ButterflyOff ==
  ASSUME NEW buf, NEW out, NEW base \in Nat, NEW step \in Nat \ {0},
         NEW j \in Index, ~ On(j, base, step)
  PROVE  Butterflies(buf, out, base, step)[j] = buf[j]
<1>1. j < base \/ (j - base) % step # 0
  <2>1. j \in Nat
    BY DEF Index
  <2> QED BY <2>1, OnPlace
<1> QED BY <1>1 DEF Butterflies

\* A place of a call is one of a half.
LEMMA OnHalf ==
  ASSUME NEW base, NEW step, NEW m, Halved(base, step, m), NEW j \in Index, On(j, base, step)
  PROVE  \E k \in Nat : k < m /\ (j = base + step * k \/ j = base + step * (k + m))
<1>0. step \in Nat \ {0} /\ m \in Nat \ {0} /\ (2 * step) * m = N /\ base \in Nat
  BY DEF Halved
<1>1. PICK l \in Nat : j = base + step * l
  BY DEF On
<1>2. l < 2 * m
  <2>1. j < N
    BY NAssumption DEF Index
  <2>2. step * l < N
    <3>1. step * l \in Nat
      BY <1>0
    <3> QED BY <1>0, <1>1, <2>1, <3>1
  <2>3. ASSUME l >= 2 * m PROVE FALSE
    <3>1. (l - 2 * m) * step >= 0
      BY <1>0, <2>3
    <3>2. (l - 2 * m) * step = step * l - N
      BY <1>0
    <3>3. N \in Nat /\ step * l \in Nat
      BY <1>0, IndexOf
    <3> QED BY <2>2, <3>1, <3>2, <3>3
  <2> QED BY <1>0, <2>3
<1>3. CASE l < m
  BY <1>1, <1>3
<1>4. CASE ~ (l < m)
  <2>1. l - m \in Nat /\ l - m < m /\ (l - m) + m = l
    BY <1>0, <1>2, <1>4
  <2>2. j = base + step * ((l - m) + m)
    BY <1>1, <2>1
  <2> QED BY <2>1, <2>2
<1> QED BY <1>3, <1>4

\* The loop writes values of the ring.
LEMMA ButterfliesInRing ==
  ASSUME NEW buf \in Arrays, NEW out \in Arrays, NEW base, NEW step, NEW m,
         Halved(base, step, m)
  PROVE  Butterflies(buf, out, base, step) \in Arrays
<1> DEFINE b == Butterflies(buf, out, base, step)
<1>0. step \in Nat \ {0} /\ m \in Nat \ {0} /\ base \in Nat
  BY DEF Halved
<1>1. ASSUME NEW j \in Index PROVE b[j] \in Value
  <2>1. CASE ~ On(j, base, step)
    <3>1. b[j] = buf[j]
      BY <1>0, <2>1, ButterflyOff
    <3> QED BY <3>1 DEF Arrays
  <2>2. CASE On(j, base, step)
    <3>1. PICK k \in Nat : k < m /\ (j = base + step * k \/ j = base + step * (k + m))
      BY <1>1, <2>2, OnHalf
    <3> DEFINE e == out[base + (2 * step) * k]
               o == out[(base + step) + (2 * step) * k]
               t == Mul(root[step * k], o)
    <3>2. b[base + step * k] = Add(e, t) /\ b[base + step * (k + m)] = Add(e, Neg(t))
      BY <3>1, ButterflyAt
    <3>3. e \in Value /\ o \in Value
      <4> DEFINE d == 2 * step
                 c == base + step
      <4>1. Level(base, d, m) /\ Level(c, d, m)
        BY DEF Level, Halved
      <4> HIDE DEF d, c
      <4>2. base + d * k \in Index /\ c + d * k \in Index
        BY <3>1, <4>1, LevelPlace
      <4> QED BY <4>2 DEF Arrays, d, c
    <3>4. root[step * k] \in Value
      BY <1>0, Places, Roots
    <3> HIDE DEF e, o, b
    <3>5. Add(e, t) \in Value /\ Add(e, Neg(t)) \in Value
      BY <3>3, <3>4, Closed
    <3> QED BY <3>1, <3>2, <3>5
  <2> QED BY <2>1, <2>2
<1>2. b = [j \in Index |-> b[j]]
  BY DEF Butterflies
<1> HIDE DEF b
<1>3. b \in Arrays
  BY <1>1, <1>2 DEF Arrays
<1> QED BY <1>3 DEF b

-----------------------------------------------------------------------------
(* The recursion *)

\* The fields of a call.
LEMMA CallFields ==
  ASSUME NEW call \in Calls
  PROVE  /\ call.buf \in Arrays /\ call.out \in Arrays
         /\ call.base \in Index /\ call.base \in Nat
         /\ call.step \in Steps /\ call.step \in Nat \ {0} /\ call.step \in Nat
         /\ call.base < call.step /\ call.step <= N
<1>1. /\ call.buf \in Arrays /\ call.out \in Arrays
      /\ call.base \in Index /\ call.step \in Steps /\ call.base < call.step
  BY DEF Calls
<1>2. call.base \in Nat
  BY <1>1 DEF Index
<1>3. call.step \in Nat \ {0} /\ call.step \in Nat /\ call.step <= N
  BY <1>1, NAssumption DEF Steps
<1> QED BY <1>1, <1>2, <1>3

\* A call with these fields.
LEMMA CallIn ==
  ASSUME NEW buf \in Arrays, NEW out \in Arrays, NEW base \in Index, NEW step \in Steps, base < step
  PROVE  /\ Call(buf, out, base, step) \in Calls
         /\ Call(buf, out, base, step).buf = buf /\ Call(buf, out, base, step).out = out
         /\ Call(buf, out, base, step).base = base /\ Call(buf, out, base, step).step = step
BY DEF Calls, Call

\* A level that is not the last has halves, which are levels: the size is a power of 2.
LEMMA StepHalved ==
  ASSUME NEW base \in Nat, NEW step \in Steps, base < step, step < N
  PROVE  \E m : /\ Halved(base, step, m) /\ 2 * step \in Steps
                /\ base \in Index /\ base + step \in Index
<1>1. step \in Nat \ {0} /\ N % step = 0 /\ N \in Nat \ {0}
  BY NAssumption DEF Steps
<1> DEFINE d == N \div step
<1>2. d \in Nat /\ N = step * d
  BY <1>1
<1> HIDE DEF d
<1>3. d \in 2 .. N
  <2>1. d # 0
    <3>1. step * 0 = 0
      BY <1>1
    <3> QED BY <1>1, <1>2, <3>1
  <2>2. d # 1
    <3>1. step * 1 = step
      BY <1>1
    <3> QED BY <1>2, <3>1
  <2>3. step * d >= d
    BY <1>1, <1>2, ProductBound
  <2> QED BY <1>1, <1>2, <2>1, <2>2, <2>3
<1>4. N % d = 0
  <2>1. d * step = step * d
    BY <1>1, <1>2
  <2>2. (d * step + 0) % d = 0 /\ d * step \in Nat
    BY <1>1, <1>3, Remainder
  <2> QED BY <1>2, <2>1, <2>2
<1>5. d % 2 = 0
  BY <1>3, <1>4, PowerOfTwoAssumption
<1>6. PICK m \in Nat \ {0} : d = 2 * m
  <2>1. d \div 2 \in Nat \ {0} /\ d = 2 * (d \div 2)
    BY <1>3, <1>5
  <2> QED BY <2>1
<1>7. (2 * step) * m = N /\ 2 * step \in Nat \ {0}
  <2>1. step * (2 * m) = (2 * step) * m
    BY <1>1
  <2> QED BY <1>1, <1>2, <1>6, <2>1
<1>8. 2 * step \in Steps /\ 2 * step <= N
  <2> DEFINE e == 2 * step
  <2>1. e \in Nat \ {0} /\ e * m = N
    BY <1>7
  <2> HIDE DEF e
  <2>2. N % e = 0
    <3>1. (e * m + 0) % e = 0 /\ e * m \in Nat
      BY <2>1, Remainder
    <3> QED BY <2>1, <3>1
  <2>3. e <= N
    <3>1. m * e >= e
      BY <2>1, ProductBound
    <3>2. m * e = e * m
      BY <2>1
    <3> QED BY <2>1, <3>1, <3>2
  <2>4. e \in Steps
    BY <1>1, <2>1, <2>2, <2>3 DEF Steps
  <2> QED BY <2>3, <2>4 DEF e
<1>9. base \in Index /\ base + step \in Index
  BY <1>1, <1>8, IndexOf
<1>10. Halved(base, step, m)
  BY <1>1, <1>7 DEF Halved
<1> QED BY <1>8, <1>9, <1>10

\* The two calls of a call, when g answers calls; and what the loop makes of them.
Even(g, call) == g[Call(call.out, call.buf, call.base, 2 * call.step)]
Odd(g, call) == g[Call(Even(g, call).buf, Even(g, call).out, call.base + call.step, 2 * call.step)]
Joined(call, odd) ==
  [call EXCEPT !.buf = Butterflies(odd.out, odd.buf, call.base, call.step), !.out = odd.buf]
Body(g, call) == IF call.step >= N THEN call ELSE Joined(call, Odd(g, call))

\* Answers are calls with other arrays.
LEMMA JoinedFields ==
  ASSUME NEW call \in Calls, NEW odd \in Calls, NEW m, Halved(call.base, call.step, m)
  PROVE  /\ Joined(call, odd) \in Calls
         /\ Joined(call, odd).buf = Butterflies(odd.out, odd.buf, call.base, call.step)
         /\ Joined(call, odd).out = odd.buf
<1> DEFINE b == Butterflies(odd.out, odd.buf, call.base, call.step)
           j == Joined(call, odd)
<1>1. b \in Arrays
  BY CallFields, ButterfliesInRing
<1>2. odd.buf \in Arrays
  BY CallFields
<1> HIDE DEF b
<1>3. j = [call EXCEPT !.buf = b, !.out = odd.buf]
  BY DEF Joined, b
<1> HIDE DEF j
<1>4. j \in Calls /\ j.buf = b /\ j.out = odd.buf
  BY <1>1, <1>2, <1>3 DEF Calls
<1> QED BY <1>4 DEF b, j

\* g answers the calls of the next level with calls.
Answers(g, step) == \A call \in Calls : call.step = 2 * step => g[call] \in Calls

\* The two calls of a call are calls of the next level.
LEMMA SubCalls ==
  ASSUME NEW g, NEW call \in Calls, call.step < N, Answers(g, call.step)
  PROVE  /\ Call(call.out, call.buf, call.base, 2 * call.step) \in Calls
         /\ Even(g, call) \in Calls
         /\ Call(Even(g, call).buf, Even(g, call).out, call.base + call.step, 2 * call.step) \in Calls
         /\ Odd(g, call) \in Calls
<1> DEFINE base == call.base
           step == call.step
           e == Even(g, call)
<1>1. /\ call.buf \in Arrays /\ call.out \in Arrays /\ base \in Nat /\ step \in Nat \ {0}
      /\ step \in Steps /\ base < step /\ step < N
  BY CallFields
<1> HIDE DEF base, step
<1>2. /\ 2 * step \in Steps /\ base \in Index /\ base + step \in Index
  BY <1>1, StepHalved
<1>3. base < 2 * step /\ base + step < 2 * step
  BY <1>1
<1>4. /\ Call(call.out, call.buf, base, 2 * step) \in Calls
      /\ Call(call.out, call.buf, base, 2 * step).step = 2 * step
  BY <1>1, <1>2, <1>3, CallIn
<1>5. e \in Calls
  BY <1>4 DEF Even, Answers, base, step
<1> HIDE DEF e
<1>6. /\ Call(e.buf, e.out, base + step, 2 * step) \in Calls
      /\ Call(e.buf, e.out, base + step, 2 * step).step = 2 * step
  <2>1. e.buf \in Arrays /\ e.out \in Arrays
    BY <1>5, CallFields
  <2> QED BY <1>2, <1>3, <2>1, CallIn
<1>7. Odd(g, call) \in Calls
  BY <1>6 DEF Odd, Answers, e, base, step
<1> QED BY <1>4, <1>5, <1>6, <1>7 DEF e, base, step

\* An answer is a call.
LEMMA BodyIn ==
  ASSUME NEW g, NEW call \in Calls, call.step < N => Answers(g, call.step)
  PROVE  Body(g, call) \in Calls
<1>1. CASE call.step >= N
  BY <1>1 DEF Body
<1>2. CASE ~ (call.step >= N)
  <2>1. call.step < N /\ call.base \in Nat /\ call.step \in Steps /\ call.base < call.step
    BY <1>2, CallFields, IndexOf
  <2>2. PICK m : Halved(call.base, call.step, m)
    BY <2>1, StepHalved
  <2>3. Odd(g, call) \in Calls
    BY <2>1, SubCalls
  <2>4. Joined(call, Odd(g, call)) \in Calls
    BY <2>2, <2>3, JoinedFields
  <2> QED BY <1>2, <2>4 DEF Body
<1> QED BY <1>1, <1>2

\* g and h answer the calls of the next level alike.
SameNext(g, h, step) == \A call \in Calls : call.step = 2 * step => g[call] = h[call]

\* It depends on the answers to the next level only.
LEMMA BodySame ==
  ASSUME NEW g, NEW h, NEW call \in Calls, call.step < N => SameNext(g, h, call.step),
         call.step < N => Answers(g, call.step)
  PROVE  Body(g, call) = Body(h, call)
<1>1. CASE call.step >= N
  BY <1>1 DEF Body
<1>2. CASE ~ (call.step >= N)
  <2>1. call.step < N
    BY <1>2, CallFields, IndexOf
  <2>2. SameNext(g, h, call.step)
    BY <2>1
  <2>3. Even(g, call) = Even(h, call)
    <3> DEFINE c == Call(call.out, call.buf, call.base, 2 * call.step)
    <3>1. c \in Calls /\ c.step = 2 * call.step
      <4>1. c \in Calls
        BY <2>1, SubCalls
      <4> QED BY <4>1 DEF Call
    <3> HIDE DEF c
    <3>2. g[c] = h[c]
      BY <2>2, <3>1 DEF SameNext
    <3> QED BY <3>2 DEF Even, c
  <2>4. Odd(g, call) = Odd(h, call)
    <3> DEFINE e == Even(g, call)
               c == Call(e.buf, e.out, call.base + call.step, 2 * call.step)
    <3>1. c \in Calls /\ c.step = 2 * call.step
      <4>1. c \in Calls
        BY <2>1, SubCalls
      <4> QED BY <4>1 DEF Call
    <3> HIDE DEF c
    <3>2. g[c] = h[c]
      BY <2>2, <3>1 DEF SameNext
    <3>3. Odd(g, call) = g[c]
      BY DEF Odd, c
    <3>4. Odd(h, call) = h[c]
      BY <2>3 DEF Odd, c
    <3> QED BY <3>2, <3>3, <3>4
  <2> QED BY <1>2, <2>4 DEF Body
<1> QED BY <1>1, <1>2

\* There is a function that does what the code says of _fft: the calls of a level
\* are answered before those of the level above it.
LEMMA BodyHasFixpoint ==
  \E f \in [Calls -> Calls] : \A call \in Calls : f[call] = Body(f, call)
<1> DEFINE S == [Calls -> Calls]
           a == [call \in Calls |-> call]
           G == [n \in Nat |-> [g \in S |-> [call \in Calls |-> Body(g, call)]]]
<1>1. a \in S /\ Iterates(S, G)
  <2>1. ASSUME NEW g \in S PROVE [call \in Calls |-> Body(g, call)] \in S
    <3>1. \A step : Answers(g, step)
      BY <2>1 DEF Answers
    <3>2. \A call \in Calls : Body(g, call) \in Calls
      BY <3>1, BodyIn
    <3> QED BY <3>2
  <2> QED BY <2>1 DEF Iterates
<1>2. PICK F : Iteration(S, a, G, F)
  <2> HIDE DEF S, a, G
  <2> QED BY <1>1, IterationExists
<1>3. F \in [Nat -> S] /\ F[0] = a /\ \A n \in Nat : F[n + 1] = G[n][F[n]]
  <2> HIDE DEF S, a, G
  <2> QED BY <1>2 DEF Iteration
<1>4. ASSUME NEW n \in Nat, NEW call \in Calls
      PROVE  F[n] \in S /\ F[n + 1] \in S /\ F[n + 1][call] = Body(F[n], call)
  <2>1. F[n] \in S /\ F[n + 1] \in S
    <3> HIDE DEF S
    <3> QED BY <1>3
  <2>2. F[n + 1] = [c \in Calls |-> Body(F[n], c)]
    <3> HIDE DEF S
    <3> QED BY <1>3, <2>1
  <2> QED BY <1>4, <2>1, <2>2
<1>5. ASSUME NEW call \in Calls, call.step >= N PROVE \A n \in Nat : F[n][call] = call
  <2> DEFINE T == {n \in Nat : F[n][call] = call}
  <2>1. 0 \in T
    BY <1>3, <1>5
  <2>2. ASSUME NEW n \in Nat PROVE n + 1 \in T
    <3>1. F[n + 1][call] = Body(F[n], call)
      BY <1>4, <1>5
    <3> QED BY <1>5, <3>1 DEF Body
  <2> HIDE DEF T
  <2>3. \A n \in Nat : n \in T
    BY <2>1, <2>2, Induction
  <2> QED BY <2>3 DEF T
<1> HIDE DEF S, a, G
<1> DEFINE T == {n \in Nat : \A call \in Calls : N - call.step <= n => F[n + 1][call] = F[n][call]}
<1>6. 0 \in T
  <2> SUFFICES ASSUME NEW call \in Calls, N - call.step <= 0 PROVE F[0 + 1][call] = F[0][call]
    OBVIOUS
  <2>1. call.step >= N
    BY CallFields, IndexOf
  <2> QED BY <1>5, <2>1
<1>7. ASSUME NEW n \in Nat, n \in T PROVE n + 1 \in T
  <2> SUFFICES ASSUME NEW call \in Calls, N - call.step <= n + 1
               PROVE  F[(n + 1) + 1][call] = F[n + 1][call]
    OBVIOUS
  <2>1. /\ F[(n + 1) + 1][call] = Body(F[n + 1], call) /\ F[n + 1][call] = Body(F[n], call)
        /\ F[n] \in S /\ F[n + 1] \in S
    BY <1>4
  <2>2. SameNext(F[n + 1], F[n], call.step)
    <3> SUFFICES ASSUME NEW c \in Calls, c.step = 2 * call.step
                 PROVE  F[n + 1][c] = F[n][c]
      BY DEF SameNext
    <3>1. N - c.step <= n
      BY CallFields, IndexOf
    <3> QED BY <1>7, <3>1
  <2>3. Body(F[n + 1], call) = Body(F[n], call)
    <3> DEFINE g == F[n + 1]
               h == F[n]
    <3>1. Answers(g, call.step) /\ SameNext(g, h, call.step)
      BY <2>1, <2>2 DEF S, Answers
    <3> HIDE DEF g, h
    <3>2. Body(g, call) = Body(h, call)
      BY <3>1, BodySame
    <3> QED BY <3>2 DEF g, h
  <2> QED BY <2>1, <2>3
<1>8. N \in T
  <2>1. N \in Nat
    BY IndexOf
  <2> HIDE DEF T
  <2> QED BY <1>6, <1>7, <2>1, Induction
<1>9. ASSUME NEW call \in Calls PROVE F[N][call] = Body(F[N], call)
  <2>1. N \in Nat /\ N - call.step <= N
    BY CallFields, IndexOf
  <2>2. F[N + 1][call] = F[N][call]
    BY <1>8, <2>1
  <2>3. F[N + 1][call] = Body(F[N], call)
    BY <1>4, <2>1
  <2> QED BY <2>2, <2>3
<1>10. F[N] \in [Calls -> Calls]
  BY <1>3, IndexOf DEF S
<1> QED BY <1>9, <1>10

\* So _fft is one.
LEMMA Recursion == _fft = [call \in Calls |-> Body(_fft, call)]
<1> DEFINE f(g) == [call \in Calls |-> Body(g, call)]
<1>1. \E g : g = f(g)
  <2>1. PICK g \in [Calls -> Calls] : \A call \in Calls : g[call] = Body(g, call)
    BY BodyHasFixpoint
  <2>2. g = [call \in Calls |-> g[call]]
    OBVIOUS
  <2>3. g = f(g)
    BY <2>1, <2>2
  <2> HIDE DEF f
  <2> QED BY <2>3
<1>2. _fft = CHOOSE g : g = f(g)
  BY DEF _fft, Body, Joined, Odd, Even
<1> HIDE DEF f
<1>3. _fft = f(_fft)
  BY <1>1, <1>2
<1> QED BY <1>3 DEF f

\* The equation at a call, and its answer.
LEMMA Answer ==
  ASSUME NEW call \in Calls
  PROVE  _fft[call] = Body(_fft, call) /\ _fft[call] \in Calls
<1>1. \A c \in Calls : _fft[c] = Body(_fft, c)
  BY Recursion
<1> DEFINE T == {n \in Nat : \A c \in Calls : N - c.step <= n => _fft[c] \in Calls}
<1>2. 0 \in T
  <2> SUFFICES ASSUME NEW c \in Calls, N - c.step <= 0 PROVE Body(_fft, c) \in Calls
    BY <1>1
  <2>1. c.step >= N
    BY CallFields, IndexOf
  <2> QED BY <2>1 DEF Body
<1>3. ASSUME NEW n \in Nat, n \in T PROVE n + 1 \in T
  <2> SUFFICES ASSUME NEW c \in Calls, N - c.step <= n + 1 PROVE _fft[c] \in Calls
    OBVIOUS
  <2>1. Answers(_fft, c.step)
    <3> SUFFICES ASSUME NEW d \in Calls, d.step = 2 * c.step PROVE _fft[d] \in Calls
      BY DEF Answers
    <3>1. N - d.step <= n
      BY CallFields, IndexOf
    <3> QED BY <1>3, <3>1
  <2>2. Body(_fft, c) \in Calls
    BY <2>1, BodyIn
  <2> QED BY <1>1, <2>2
<1>4. N \in T
  <2>1. N \in Nat
    BY IndexOf
  <2> HIDE DEF T
  <2> QED BY <1>2, <1>3, <2>1, Induction
<1>5. N - call.step <= N
  BY CallFields, IndexOf
<1> QED BY <1>1, <1>4, <1>5

-----------------------------------------------------------------------------
(* What the recursion computes *)

\* The transform of a part depends on its samples only.
LEMMA PartOfSame ==
  ASSUME NEW x \in Arrays, NEW y \in Arrays, NEW base, NEW step, NEW m, Level(base, step, m),
         \A j \in Index : On(j, base, step) => x[j] = y[j], NEW k \in Nat
  PROVE  Part(x, base, step, m, k) = Part(y, base, step, m, k)
<1> DEFINE f == PartTerms(x, base, step, k)
           g == PartTerms(y, base, step, k)
<1>1. m \in Nat
  BY DEF Level
<1>2. Terms(f, m)
  BY PartInRing
<1>3. ASSUME NEW i \in Nat, i < m PROVE f[i] = g[i]
  <2>1. base + step * i \in Index
    BY <1>3, LevelPlace
  <2>2. On(base + step * i, base, step)
    BY <1>3, Zenon DEF On
  <2>3. x[base + step * i] = y[base + step * i]
    BY <2>1, <2>2
  <2> QED BY <1>3, <2>3 DEF PartTerms
<1>4. SameTerms(f, g, m)
  <2> HIDE DEF f, g
  <2> QED BY <1>3 DEF SameTerms
<1> HIDE DEF f, g
<1>5. SumTo(f, m) = SumTo(g, m)
  BY <1>1, <1>2, <1>4, SumOfSame
<1> QED BY <1>5 DEF Part, f, g

\* The places of a call are those of its two calls, which share none.
LEMMA OnSplits ==
  ASSUME NEW base, NEW step, NEW m, Halved(base, step, m), NEW j \in Index
  PROVE  /\ On(j, base, 2 * step) => On(j, base, step)
         /\ On(j, base + step, 2 * step) => On(j, base, step)
         /\ ~ (On(j, base, 2 * step) /\ On(j, base + step, 2 * step))
<1>1. step \in Nat \ {0} /\ base \in Nat
  BY DEF Halved
<1>2. ASSUME NEW k \in Nat, j = base + (2 * step) * k PROVE On(j, base, step)
  <2>1. 2 * k \in Nat /\ j = base + step * (2 * k)
    BY <1>1, <1>2
  <2> QED BY <2>1, Zenon DEF On
<1>3. ASSUME NEW k \in Nat, j = (base + step) + (2 * step) * k PROVE On(j, base, step)
  <2>1. 2 * k + 1 \in Nat /\ j = base + step * (2 * k + 1)
    BY <1>1, <1>3
  <2> QED BY <2>1, Zenon DEF On
<1>4. ASSUME NEW k \in Nat, NEW l \in Nat, base + (2 * step) * k = (base + step) + (2 * step) * l
      PROVE  FALSE
  <2> DEFINE d == 2 * step
  <2>1. d \in Nat \ {0} /\ step < d /\ step \in Nat
    BY <1>1
  <2>2. d * k + 0 = d * l + step
    <3>1. d * k \in Nat /\ d * l \in Nat
      BY <1>4, <2>1
    <3> HIDE DEF d
    <3> QED BY <1>1, <1>4, <3>1 DEF d
  <2> HIDE DEF d
  <2>3. ASSUME NEW q \in Nat, NEW r \in Nat, r < d PROVE (d * q + r) % d = r
    BY <2>1, <2>3, Remainder
  <2>4. (d * k + 0) % d = 0
    BY <1>4, <2>1, <2>3
  <2>5. (d * l + step) % d = step
    BY <1>4, <2>1, <2>3
  <2> QED BY <1>1, <2>2, <2>4, <2>5
<1> QED BY <1>2, <1>3, <1>4 DEF On

\* A call whose arrays agree at its places answers with their transform, in order,
\* and leaves the places of the other calls alone.
Agrees(call) == \A j \in Index : On(j, call.base, call.step) => call.buf[j] = call.out[j]
LeavesAlone(call, answer) ==
  \A j \in Index : ~ On(j, call.base, call.step)
    => answer.buf[j] = call.buf[j] /\ answer.out[j] = call.out[j]
Transforms(call, answer) ==
  \A m, k \in Nat : Level(call.base, call.step, m) /\ k < m
    => answer.buf[call.base + call.step * k] = Part(call.buf, call.base, call.step, m, k)
Right(call, answer) == LeavesAlone(call, answer) /\ Transforms(call, answer)

\* The last level has one sample, and is its own answer.
LEMMA LastLevel ==
  ASSUME NEW call \in Calls, ~ (call.step < N)
  PROVE  Right(call, _fft[call])
<1>1. call.step = N /\ N \in Nat \ {0} /\ call.base \in Nat /\ call.buf \in Arrays
  BY CallFields, IndexOf
<1>2. _fft[call] = call
  BY <1>1, Answer DEF Body
<1>3. ASSUME NEW m \in Nat, NEW k \in Nat, Level(call.base, call.step, m), k < m
      PROVE  call.buf[call.base + call.step * k] = Part(call.buf, call.base, call.step, m, k)
  <2>1. m = 1 /\ k = 0
    <3>1. m \in Nat \ {0} /\ N * m = N
      BY <1>1, <1>3 DEF Level
    <3>2. (m - 1) * N = 0
      BY <1>1, <3>1
    <3>3. ~ (m - 1 \in Nat \ {0})
      BY <1>1, <3>2, ProductBound
    <3> QED BY <1>3, <3>1, <3>3
  <2>2. Level(call.base, N, 1)
    BY <1>1, <1>3, <2>1
  <2>3. Part(call.buf, call.base, N, 1, 0) = call.buf[call.base]
    BY <1>1, <2>2, PartOfOne
  <2>4. call.base + call.step * 0 = call.base
    BY <1>1
  <2> QED BY <1>1, <2>1, <2>3, <2>4
<1> QED BY <1>2, <1>3 DEF Right, LeavesAlone, Transforms

\* When the two calls of a call answer right, so does the call.
LEMMA LevelAbove ==
  ASSUME NEW call \in Calls, call.step < N, Agrees(call),
         \A c \in Calls : c.step = 2 * call.step /\ Agrees(c) => Right(c, _fft[c])
  PROVE  Right(call, _fft[call])
<1> DEFINE base == call.base
           step == call.step
           buf == call.buf
           out == call.out
           c1 == Call(out, buf, base, 2 * step)
           e == _fft[c1]
           c2 == Call(e.buf, e.out, base + step, 2 * step)
           o == _fft[c2]
           r == _fft[call]
<1>1. /\ buf \in Arrays /\ out \in Arrays /\ base \in Nat /\ step \in Nat \ {0}
      /\ step \in Steps /\ base < step /\ step < N
  BY CallFields
<1>2. PICK m : Halved(base, step, m)
  <2> HIDE DEF base, step
  <2> QED BY <1>1, StepHalved
<1>3. c1 \in Calls /\ e \in Calls /\ c2 \in Calls /\ o \in Calls
  <2>1. Answers(_fft, step)
    BY Answer DEF Answers
  <2>2. Even(_fft, call) = e /\ Odd(_fft, call) = o
    BY DEF Even, Odd
  <2> QED BY <2>1, <2>2, SubCalls
<1>4. /\ r \in Calls
      /\ r.buf = Butterflies(o.out, o.buf, base, step) /\ r.out = o.buf
  <2>1. Even(_fft, call) = e /\ Odd(_fft, call) = o
    BY DEF Even, Odd
  <2>2. r = Joined(call, o) /\ r \in Calls
    <3>1. ~ (step >= N)
      BY <1>1, IndexOf
    <3> HIDE DEF o
    <3> QED BY <2>1, <3>1, Answer DEF Body
  <2> HIDE DEF o, r
  <2> QED BY <1>2, <1>3, <2>2, JoinedFields
<1>5. /\ c1.buf = out /\ c1.out = buf /\ c1.base = base /\ c1.step = 2 * step
      /\ c2.buf = e.buf /\ c2.out = e.out /\ c2.base = base + step /\ c2.step = 2 * step
  <2> HIDE DEF e, base, step, buf, out
  <2> QED BY DEF Call
<1>6. \A j \in Index : On(j, base, step) => buf[j] = out[j]
  BY DEF Agrees
<1> HIDE DEF base, step, buf, out, c1, e, c2, o, r
<1> DEFINE E(j) == On(j, base, 2 * step)
           O(j) == On(j, base + step, 2 * step)
<1>7. \A j \in Index : /\ E(j) => On(j, base, step)
                       /\ O(j) => On(j, base, step) /\ ~ E(j)
  BY <1>2, OnSplits
<1>8. Right(c1, e)
  <2>1. Agrees(c1)
    BY <1>5, <1>6, <1>7 DEF Agrees
  <2> QED BY <1>3, <1>5, <2>1 DEF e, step
<1>9. \A j \in Index : ~ E(j) => e.buf[j] = out[j] /\ e.out[j] = buf[j]
  BY <1>5, <1>8 DEF Right, LeavesAlone
<1>10. Right(c2, o)
  <2>1. Agrees(c2)
    <3> SUFFICES ASSUME NEW j \in Index, O(j) PROVE e.buf[j] = e.out[j]
      BY <1>5 DEF Agrees
    <3> QED BY <1>6, <1>7, <1>9
  <2> QED BY <1>3, <1>5, <2>1 DEF o, step
<1>11. \A j \in Index : ~ O(j) => o.buf[j] = e.buf[j] /\ o.out[j] = e.out[j]
  BY <1>5, <1>10 DEF Right, LeavesAlone
<1>12. LeavesAlone(call, r)
  <2> SUFFICES ASSUME NEW j \in Index, ~ On(j, base, step)
               PROVE  r.buf[j] = buf[j] /\ r.out[j] = out[j]
    BY DEF LeavesAlone, base, step, buf, out
  <2>1. o.buf[j] = out[j] /\ o.out[j] = buf[j]
    BY <1>7, <1>9, <1>11
  <2>2. Butterflies(o.out, o.buf, base, step)[j] = o.out[j]
    BY <1>1, ButterflyOff
  <2> QED BY <1>4, <2>1, <2>2
<1>13. Level(base, 2 * step, m) /\ Level(base + step, 2 * step, m) /\ m \in Nat \ {0}
  BY <1>2, HalfLevels DEF Halved
<1>14. ASSUME NEW k \in Nat, k < m
       PROVE  /\ o.buf[base + (2 * step) * k] = Part(buf, base, 2 * step, m, k)
              /\ o.buf[(base + step) + (2 * step) * k] = Part(buf, base + step, 2 * step, m, k)
  <2> DEFINE d == 2 * step
             b == base + step
  <2>1. base + d * k \in Index /\ On(base + d * k, base, d)
    <3>1. base + d * k \in Index
      <4> HIDE DEF d
      <4> QED BY <1>13, <1>14, LevelPlace DEF d
    <3> QED BY <1>14, <3>1, Zenon DEF On
  <2>2. o.buf[base + d * k] = e.buf[base + d * k]
    BY <1>7, <1>11, <2>1
  <2>3. e.buf[base + d * k] = Part(out, base, d, m, k)
    BY <1>5, <1>8, <1>13, <1>14 DEF Right, Transforms
  <2>4. Part(buf, base, d, m, k) = Part(out, base, d, m, k)
    <3>1. \A j \in Index : On(j, base, d) => buf[j] = out[j]
      BY <1>6, <1>7
    <3>2. Level(base, d, m)
      BY <1>13
    <3> HIDE DEF d
    <3> QED BY <1>1, <1>14, <3>1, <3>2, PartOfSame
  <2>5. o.buf[b + d * k] = Part(e.buf, b, d, m, k)
    BY <1>5, <1>10, <1>13, <1>14 DEF Right, Transforms
  <2>6. Part(e.buf, b, d, m, k) = Part(buf, b, d, m, k)
    <3>1. \A j \in Index : On(j, b, d) => e.buf[j] = buf[j]
      BY <1>6, <1>7, <1>9
    <3>2. Level(b, d, m) /\ e.buf \in Arrays
      BY <1>3, <1>13, CallFields
    <3> HIDE DEF d, b
    <3> QED BY <1>1, <1>14, <3>1, <3>2, PartOfSame
  <2> QED BY <2>2, <2>3, <2>4, <2>5, <2>6
<1>15. ASSUME NEW k \in Nat, k < m
       PROVE  /\ r.buf[base + step * k] = Part(buf, base, step, 2 * m, k)
              /\ r.buf[base + step * (k + m)] = Part(buf, base, step, 2 * m, k + m)
  <2> DEFINE x == o.buf[base + (2 * step) * k]
             t == Mul(root[step * k], o.buf[(base + step) + (2 * step) * k])
             b == Butterflies(o.out, o.buf, base, step)
  <2>1. b[base + step * k] = Add(x, t) /\ b[base + step * (k + m)] = Add(x, Neg(t))
    BY <1>2, <1>15, ButterflyAt
  <2>2. /\ Part(buf, base, step, 2 * m, k) = Add(x, t)
        /\ Part(buf, base, step, 2 * m, k + m) = Add(x, Neg(t))
    <3> DEFINE y == Part(buf, base, 2 * step, m, k)
               u == Mul(root[step * k], Part(buf, base + step, 2 * step, m, k))
    <3>1. /\ Part(buf, base, step, 2 * m, k) = Add(y, u)
          /\ Part(buf, base, step, 2 * m, k + m) = Add(y, Neg(u))
      BY <1>1, <1>2, <1>15, PartButterfly
    <3>2. x = y /\ t = u
      BY <1>14, <1>15
    <3> HIDE DEF x, t, y, u
    <3> QED BY <3>1, <3>2
  <2>3. r.buf = b
    BY <1>4
  <2> HIDE DEF b, x, t
  <2> QED BY <2>1, <2>2, <2>3
<1>16. Transforms(call, r)
  <2> SUFFICES ASSUME NEW l \in Nat, NEW k \in Nat, Level(base, step, l), k < l
               PROVE  r.buf[base + step * k] = Part(buf, base, step, l, k)
    BY DEF Transforms, base, step, buf
  <2>1. l = 2 * m
    <3>1. step * l = N /\ (2 * step) * m = N
      BY <1>2 DEF Level, Halved
    <3>2. step * (2 * m) = (2 * step) * m
      BY <1>1, <1>13
    <3>3. (l - 2 * m) * step = 0 /\ (2 * m - l) * step = 0
      BY <1>1, <1>13, <3>1, <3>2
    <3>4. ~ (l - 2 * m \in Nat \ {0}) /\ ~ (2 * m - l \in Nat \ {0})
      BY <1>1, <3>3, ProductBound
    <3> QED BY <1>13, <3>4
  <2>2. CASE k < m
    BY <1>15, <2>1, <2>2
  <2>3. CASE ~ (k < m)
    <3>1. k - m \in Nat /\ k - m < m /\ (k - m) + m = k
      BY <1>13, <2>1, <2>3
    <3>2. r.buf[base + step * ((k - m) + m)] = Part(buf, base, step, 2 * m, (k - m) + m)
      BY <1>15, <3>1
    <3> QED BY <2>1, <3>1, <3>2
  <2> QED BY <2>2, <2>3
<1> QED BY <1>12, <1>16 DEF Right, r

\* So every call does.
LEMMA EveryCall ==
  ASSUME NEW call \in Calls, Agrees(call)
  PROVE  Right(call, _fft[call])
<1> DEFINE T == {n \in Nat : \A c \in Calls : N - c.step <= n /\ Agrees(c) => Right(c, _fft[c])}
<1>1. 0 \in T
  <2> SUFFICES ASSUME NEW c \in Calls, N - c.step <= 0 PROVE Right(c, _fft[c])
    OBVIOUS
  <2>1. ~ (c.step < N)
    BY CallFields, IndexOf
  <2> QED BY <2>1, LastLevel
<1>2. ASSUME NEW n \in Nat, n \in T PROVE n + 1 \in T
  <2> SUFFICES ASSUME NEW c \in Calls, N - c.step <= n + 1, Agrees(c) PROVE Right(c, _fft[c])
    OBVIOUS
  <2>1. CASE ~ (c.step < N)
    BY <2>1, LastLevel
  <2>2. CASE c.step < N
    <3>1. ASSUME NEW d \in Calls, d.step = 2 * c.step, Agrees(d) PROVE Right(d, _fft[d])
      <4>1. N - d.step <= n
        BY <3>1, CallFields, IndexOf
      <4> QED BY <1>2, <3>1, <4>1
    <3> QED BY <2>2, <3>1, LevelAbove
  <2> QED BY <2>1, <2>2
<1>3. N \in T
  <2>1. N \in Nat
    BY IndexOf
  <2> HIDE DEF T
  <2> QED BY <1>1, <1>2, <2>1, Induction
<1>4. N - call.step <= N
  BY CallFields, IndexOf
<1> QED BY <1>3, <1>4

\* fft computes the discrete Fourier transform of every array, in order
\* (fft_utils.c:3-27).
THEOREM FftIsTransform ==
  ASSUME NEW x \in Arrays
  PROVE  fft(x) = Dft(x)
<1> DEFINE call == Call(x, x, 0, 1)
           y == fft(x)
<1>1. 0 \in Index /\ 1 \in Steps /\ N \in Nat \ {0}
  <2>1. 1 \in 1 .. N /\ N % 1 = 0
    BY IndexOf
  <2> QED BY <2>1, IndexOf DEF Steps
<1>2. call \in Calls /\ call.buf = x /\ call.out = x /\ call.base = 0 /\ call.step = 1
  BY <1>1, CallIn
<1>3. y = _fft[call].buf
  BY DEF fft
<1> HIDE DEF call, y
<1>4. y \in Arrays
  BY <1>2, <1>3, Answer, CallFields
<1>5. Transforms(call, _fft[call])
  BY <1>2, EveryCall DEF Agrees, Right
<1>6. ASSUME NEW k \in Index PROVE y[k] = Dft(x)[k]
  <2>1. k \in Nat /\ k < N /\ 0 + 1 * k = k /\ Level(0, 1, N)
    BY <1>1 DEF Index, Level
  <2>2. y[0 + 1 * k] = Part(x, 0, 1, N, k)
    BY <1>1, <1>2, <1>3, <1>5, <2>1 DEF Transforms
  <2> QED BY <2>1, <2>2, WholeSignal
<1>7. y = [k \in Index |-> y[k]]
  BY <1>4 DEF Arrays
<1>8. Dft(x) = [k \in Index |-> Dft(x)[k]]
  BY DEF Dft
<1> QED BY <1>6, <1>7, <1>8 DEF y

=============================================================================
