------------------------------ MODULE Numbers ------------------------------
(***************************************************************************)
(* Facts about numbers that the proofs about buffers, rings and circuits   *)
(* share.                                                                  *)
(***************************************************************************)
EXTENDS Integers, WellFoundedInduction, TLAPS

------------------------------------------------------------------------------
(***************************************************************************)
(* Natural numbers have least elements, hence induction over a set of them.*)
(***************************************************************************)
LEMMA LeastNumber ==
  ASSUME NEW T, T \subseteq Nat, T # {}
  PROVE  \E x \in T : \A y \in T : x <= y
<1>1. \E x \in T : \A y \in T : ~(<<y, x>> \in OpToRel(<, Nat))
  BY NatLessThanWellFounded, WFMin
<1>2. \A x, y \in T : ~(<<y, x>> \in OpToRel(<, Nat)) => x <= y
  BY DEF OpToRel
<1> QED BY <1>1, <1>2

\* And the numbers up to n have a greatest.
LEMMA GreatestNumber ==
  ASSUME NEW n \in Nat, NEW S, S \subseteq 1..n, S /= {}
  PROVE  \E x \in S : \A y \in S : x >= y
<1> DEFINE T == {n - x : x \in S}
<1>1. T \subseteq Nat /\ T /= {}
  <2>1. \A x \in S : n - x \in Nat
    OBVIOUS
  <2>2. PICK x : x \in S
    OBVIOUS
  <2> QED BY <2>1, <2>2
<1>2. PICK t \in T : \A y \in T : t <= y
  BY ONLY <1>1, LeastNumber
<1>3. PICK x \in S : t = n - x
  BY <1>2
<1>4. \A y \in S : x >= y
  <2> SUFFICES ASSUME NEW y \in S PROVE x >= y
    OBVIOUS
  <2>1. n - x <= n - y
    BY <1>2, <1>3
  <2>2. x \in Int /\ y \in Int
    OBVIOUS
  <2> QED BY <2>1, <2>2
<1> QED BY <1>4

LEMMA SetInduction ==
  ASSUME NEW T, 0 \in T, \A n \in Nat : n \in T => n + 1 \in T
  PROVE  Nat \subseteq T
<1> DEFINE U == Nat \ T
<1>1. SUFFICES ASSUME U # {} PROVE FALSE
  OBVIOUS
<1>2. PICK x \in U : \A y \in U : x <= y
  <2> HIDE DEF U
  <2>1. U \subseteq Nat
    BY DEF U
  <2> QED BY <1>1, <2>1, LeastNumber
<1>3. x - 1 \in Nat /\ x - 1 \in T
  BY <1>2
<1>4. (x - 1) + 1 \in T
  BY <1>3
<1> QED BY <1>2, <1>4

\* The same up to n.
LEMMA UptoInduction ==
  ASSUME NEW n \in Nat, NEW T, 0 \in T, \A i \in 0..(n - 1) : i \in T => i + 1 \in T
  PROVE  0..n \subseteq T
<1> DEFINE U == {i \in Nat : i <= n => i \in T}
<1>1. 0 \in U
  OBVIOUS
<1>2. ASSUME NEW i \in Nat, i \in U PROVE i + 1 \in U
  BY <1>2
<1> HIDE DEF U
<1>3. Nat \subseteq U
  BY <1>1, <1>2, SetInduction
<1> QED BY <1>3 DEF U

\* A function that is defined from its value before, by steps g in S, exists.
Iteration(n, a, g, f) == f = [i \in 0..n |-> IF i = 0 THEN a ELSE g[<<i, f[i - 1]>>]]

LEMMA Iterated ==
  ASSUME NEW n \in Nat, NEW S, NEW a \in S, NEW g \in [(1..n) \X S -> S]
  PROVE  \E f \in [0..n -> S] : Iteration(n, a, g, f)
<1> DEFINE T == {k \in Nat : k <= n => \E f \in [0..k -> S] : Iteration(k, a, g, f)}
<1>1. 0 \in T
  <2> DEFINE f == [i \in 0..0 |-> a]
  <2>1. f \in [0..0 -> S] /\ f = [i \in 0..0 |-> IF i = 0 THEN a ELSE g[<<i, f[i - 1]>>]]
    OBVIOUS
  <2> QED BY <2>1 DEF Iteration
<1>2. ASSUME NEW k \in Nat, k \in T PROVE k + 1 \in T
  <2> SUFFICES ASSUME k + 1 <= n PROVE \E f \in [0..(k + 1) -> S] : Iteration(k + 1, a, g, f)
    OBVIOUS
  <2>1. PICK f \in [0..k -> S] : Iteration(k, a, g, f)
    BY <1>2
  <2>2. f = [i \in 0..k |-> IF i = 0 THEN a ELSE g[<<i, f[i - 1]>>]]
    BY <2>1 DEF Iteration
  <2>3. f[k] \in S /\ g[<<k + 1, f[k]>>] \in S
    OBVIOUS
  <2> DEFINE h == [i \in 0..(k + 1) |-> IF i = k + 1 THEN g[<<k + 1, f[k]>>] ELSE f[i]]
  <2>4. h \in [0..(k + 1) -> S]
    BY <2>3
  <2>5. ASSUME NEW i \in 0..(k + 1) PROVE h[i] = IF i = 0 THEN a ELSE g[<<i, h[i - 1]>>]
    <3>1. CASE i = k + 1
      <4>1. i /= 0 /\ i - 1 = k /\ k /= k + 1 /\ k \in 0..(k + 1)
        BY <3>1
      <4> QED BY <3>1, <4>1
    <3>2. CASE i /= k + 1
      <4>1. i \in 0..k /\ h[i] = f[i]
        BY <3>2
      <4>2. f[i] = IF i = 0 THEN a ELSE g[<<i, f[i - 1]>>]
        BY <2>2, <4>1
      <4>3. i /= 0 => i - 1 \in 0..(k + 1) /\ i - 1 /= k + 1
        BY <4>1
      <4> QED BY <4>1, <4>2, <4>3
    <3> QED BY <3>1, <3>2
  <2>6. h = [i \in 0..(k + 1) |-> h[i]]
    OBVIOUS
  <2> HIDE DEF h
  <2>7. h = [i \in 0..(k + 1) |-> IF i = 0 THEN a ELSE g[<<i, h[i - 1]>>]]
    BY <2>5, <2>6
  <2> QED BY <2>4, <2>7 DEF Iteration
<1> HIDE DEF T
<1>3. Nat \subseteq T
  BY <1>1, <1>2, SetInduction
<1> QED BY <1>3 DEF T

------------------------------------------------------------------------------
(***************************************************************************)
(* Division with remainder.                                                *)
(***************************************************************************)
LEMMA DivMod ==
  ASSUME NEW x \in Int, NEW m \in Nat \ {0}
  PROVE  /\ x = m * (x \div m) + (x % m)
         /\ x % m \in 0..(m - 1)
         /\ x \div m \in Int
  BY Z3

LEMMA QuotientIs == ASSUME NEW a \in Nat, NEW m \in Nat \ {0} PROVE a \div m \in Nat
<1>1. a \in Int /\ a \div m \in Int /\ a = m * (a \div m) + (a % m) /\ a % m \in 0..(m - 1)
  BY DivMod
<1> DEFINE q == a \div m
<1> HIDE DEF q
<1>2. q >= 0
  <2> SUFFICES ASSUME q <= -1 PROVE FALSE
    BY <1>1 DEF q
  <2>1. q \in Int /\ a = m * q + (a % m)
    BY <1>1 DEF q
  <2>2. m * q <= -m /\ m * q \in Int
    BY <2>1, Z3
  <2> QED BY <1>1, <2>1, <2>2
<1> QED BY <1>1, <1>2 DEF q

LEMMA DivModUnique ==
  ASSUME NEW m \in Nat \ {0}, NEW q \in Int, NEW r \in 0..(m - 1),
         NEW p \in Int, NEW s \in 0..(m - 1), m * q + r = m * p + s
  PROVE  q = p /\ r = s
<1>1. CASE q >= p + 1
  <2>1. m * q >= m * (p + 1) BY <1>1, Z3
  <2>2. m * (p + 1) = m * p + m BY Z3
  <2> QED BY <2>1, <2>2, Z3
<1>2. CASE p >= q + 1
  <2>1. m * p >= m * (q + 1) BY <1>2, Z3
  <2>2. m * (q + 1) = m * q + m BY Z3
  <2> QED BY <2>1, <2>2, Z3
<1>3. CASE p = q BY <1>3, Z3
<1> QED BY <1>1, <1>2, <1>3

LEMMA ModIs ==
  ASSUME NEW x \in Int, NEW m \in Nat \ {0}, NEW q \in Int, NEW r \in 0..(m - 1),
         x = m * q + r
  PROVE  x % m = r
  BY DivMod, DivModUnique

\* Adding a multiple of m does not change the remainder.
LEMMA ModShift ==
  ASSUME NEW x \in Int, NEW m \in Nat \ {0}, NEW d \in Int
  PROVE  (x + m * d) % m = x % m
<1> DEFINE q == x \div m
           r == x % m
<1>1. q \in Int /\ r \in 0..(m - 1) /\ x = m * q + r BY DivMod
<1> HIDE DEF q, r
<1>2. x + m * d = m * (q + d) + r BY <1>1, Z3
<1>3. q + d \in Int /\ x + m * d \in Int BY <1>1, Z3
<1>4. (x + m * d) % m = r BY <1>1, <1>2, <1>3, ModIs
<1> QED BY <1>4 DEF r

\* Numbers less than m apart with the same remainder are equal.
LEMMA ModInjective ==
  ASSUME NEW x \in Int, NEW y \in Int, NEW m \in Nat \ {0},
         x % m = y % m, x - y < m, y - x < m
  PROVE  x = y
<1> DEFINE q == x \div m
           p == y \div m
           r == x % m
<1>1. q \in Int /\ r \in 0..(m - 1) /\ x = m * q + r BY DivMod
<1>2. p \in Int /\ y = m * p + r BY DivMod
<1> HIDE DEF q, p, r
<1>3. CASE q >= p + 1
  <2>1. m * q >= m * (p + 1) BY <1>1, <1>2, <1>3, Z3
  <2>2. m * (p + 1) = m * p + m BY <1>2, Z3
  <2>3. m * p \in Int /\ m * q \in Int BY <1>1, <1>2, Z3
  <2> QED BY <1>1, <1>2, <2>1, <2>2, <2>3
<1>4. CASE p >= q + 1
  <2>1. m * p >= m * (q + 1) BY <1>1, <1>2, <1>4, Z3
  <2>2. m * (q + 1) = m * q + m BY <1>1, Z3
  <2>3. m * p \in Int /\ m * q \in Int BY <1>1, <1>2, Z3
  <2> QED BY <1>1, <1>2, <2>1, <2>2, <2>3
<1> QED BY <1>1, <1>2, <1>3, <1>4

\* A remainder can be taken at once, before the remainder by a divisor of m, before
\* something is added, and before a difference.
LEMMA ModOfMod ==
  ASSUME NEW x \in Int, NEW m \in Nat \ {0}, NEW k \in Nat \ {0}
  PROVE  (x % (m * k)) % m = x % m
<1> DEFINE M == m * k
           q == x \div M
           r == x % M
<1>1. M \in Nat \ {0}
  <2>1. m * k >= 1 * k /\ m * k \in Int BY Z3
  <2> QED BY <2>1
<1>2. q \in Int /\ r \in 0..(M - 1) /\ x = M * q + r
  <2> HIDE DEF M
  <2> QED BY <1>1, DivMod
<1>3. r \in Int
  <2> HIDE DEF M, r
  <2> QED BY <1>1, <1>2
<1> HIDE DEF q, r
<1>4. k * q \in Int /\ M * q = m * (k * q) BY <1>2, Z3
<1>5. x = r + m * (k * q) BY <1>2, <1>3, <1>4
<1>6. (r + m * (k * q)) % m = r % m BY <1>3, <1>4, ModShift
<1> QED BY <1>5, <1>6 DEF r

LEMMA ModAdd ==
  ASSUME NEW x \in Int, NEW m \in Nat \ {0}, NEW d \in Int
  PROVE  ((x % m) + d) % m = (x + d) % m
<1> DEFINE q == x \div m
           r == x % m
<1>1. q \in Int /\ r \in 0..(m - 1) /\ x = m * q + r BY DivMod
<1> HIDE DEF q, r
<1>2. (r + d) + m * q = x + d /\ r + d \in Int BY <1>1, Z3
<1>3. ((r + d) + m * q) % m = (r + d) % m BY <1>1, <1>2, ModShift
<1> QED BY <1>2, <1>3 DEF r

LEMMA ModDistance ==
  ASSUME NEW x \in Int, NEW y \in Int, NEW m \in Nat \ {0}, y <= x, x < y + m
  PROVE  ((x % m) - (y % m)) % m = x - y
<1> DEFINE q == x \div m
           r == x % m
           p == y \div m
           s == y % m
<1>1. q \in Int /\ r \in 0..(m - 1) /\ x = m * q + r BY DivMod
<1>2. p \in Int /\ s \in 0..(m - 1) /\ y = m * p + s BY DivMod
<1> HIDE DEF q, r, p, s
<1>3. r - s = m * (p - q) + (x - y) /\ p - q \in Int BY <1>1, <1>2, Z3
<1>4. x - y \in 0..(m - 1) /\ r - s \in Int BY <1>1, <1>2
<1>5. (r - s) % m = x - y BY <1>3, <1>4, ModIs
<1> QED BY <1>5 DEF r, s

LEMMA ModSmall ==
  ASSUME NEW m \in Nat \ {0}, NEW x \in 0..(m - 1)
  PROVE  x % m = x
<1>1. x = m * 0 + x /\ x \in Int BY Z3
<1> QED BY <1>1, ModIs
=============================================================================
