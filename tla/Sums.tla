-------------------------------- MODULE Sums --------------------------------
(***************************************************************************)
(* Sums over the scans of a job, which FxManager and DataStream define by  *)
(* recursive functions.  What is true of every number is proved by taking  *)
(* a least one for which it is not.  Then lemmas on multiples and          *)
(* remainders, for places in a ring of slots.                              *)
(***************************************************************************)
EXTENDS Integers, TLAPS, FiniteSetTheorems

(* A set of numbers has a least one: of the sets 0 .. k, k in K, one has   *)
(* none of the others in it.                                               *)
LEMMA LeastOf ==
  ASSUME NEW K \in SUBSET Nat, K # {}
  PROVE  \E m \in K : \A k \in K : m <= k
<1> DEFINE Up(k) == 0 .. k
           T == {Up(k) : k \in K}
           R == StrictSubsetOrdering(Nat)
<1>1. \A k \in K : Up(k) \in SUBSET Nat /\ IsFiniteSet(Up(k))
  BY FS_Interval
<1>2. T \subseteq FiniteSubsetsOf(Nat)
  BY <1>1 DEF FiniteSubsetsOf
<1>3. T # {}
  OBVIOUS
<1>4. IsWellFoundedOn(R, FiniteSubsetsOf(Nat))
  BY FS_StrictSubsetOrderingWellFounded
<1> HIDE DEF T, R
<1>5. PICK x \in T : \A y \in T : <<y, x>> \notin R
  BY <1>2, <1>3, <1>4, WFMin
<1> USE DEF T, R
<1>6. PICK m \in K : x = Up(m)
  OBVIOUS
<1>7. ASSUME NEW k \in K, k < m PROVE FALSE
  <2>1. Up(k) \subseteq Up(m) /\ Up(k) # Up(m)
    <3>1. m \in Up(m) /\ m \notin Up(k) /\ m \in Nat /\ k \in Nat
      BY <1>7
    <3> QED
      BY <3>1, <1>7
  <2>2. <<Up(k), Up(m)>> \in R
    BY <2>1, <1>1, <1>7 DEF StrictSubsetOrdering
  <2> QED
    BY <2>2, <1>5, <1>6, <1>7
<1> QED
  BY <1>7

(* f[k] is the sum of the first k of d.  A recursive function is a CHOOSE, *)
(* so that there is one that meets its definition has to be proved.        *)
IsSum(f, d, n) ==
  /\ f \in [0 .. n -> Nat]
  /\ f[0] = 0
  /\ \A k \in 1 .. n : f[k] = f[k - 1] + d[k]

LEMMA SumExists ==
  ASSUME NEW N \in Nat, NEW d \in [1 .. N -> Nat]
  PROVE  \E f : IsSum(f, d, N)
<1> DEFINE K == {n \in 0 .. N : ~ \E f : IsSum(f, d, n)}
<1>1. SUFFICES ASSUME K # {} PROVE FALSE
  <2>1. N \in 0 .. N
    OBVIOUS
  <2> QED
    BY <2>1
<1>2. PICK m \in K : \A k \in K : m <= k
  <2>1. K \in SUBSET Nat
    OBVIOUS
  <2> HIDE DEF K
  <2> QED
    BY <1>1, <2>1, LeastOf
<1>3. CASE m = 0
  <2>1. IsSum([k \in 0 .. 0 |-> 0], d, 0)
    BY DEF IsSum
  <2> QED
    BY <2>1, <1>2, <1>3
<1>4. CASE m > 0
  <2>1. PICK f : IsSum(f, d, m - 1)
    BY <1>2, <1>4
  <2> DEFINE g == [k \in 0 .. m |-> IF k = m THEN f[m - 1] + d[m] ELSE f[k]]
  <2>2. m \in 1 .. N /\ d[m] \in Nat /\ f[m - 1] \in Nat
    BY <1>2, <1>4, <2>1 DEF IsSum
  <2>3. g \in [0 .. m -> Nat] /\ g[0] = 0
    BY <2>1, <2>2, <1>4 DEF IsSum
  <2>4. \A k \in 1 .. m : g[k] = g[k - 1] + d[k]
    <3> TAKE k \in 1 .. m
    <3>1. CASE k = m
      BY <3>1, <2>2
    <3>2. CASE k # m
      <4>1. k \in 1 .. m - 1 /\ m \in Int
        BY <2>2, <3>2
      <4>2. g[k] = f[k] /\ g[k - 1] = f[k - 1] /\ k \in 1 .. N
        BY <4>1, <2>2
      <4> QED
        BY <4>1, <4>2, <2>1 DEF IsSum
    <3> QED
      BY <3>1, <3>2
  <2>5. IsSum(g, d, m)
    BY <2>3, <2>4 DEF IsSum
  <2> QED
    BY <2>5, <1>2
<1> QED
  BY <1>2, <1>3, <1>4

LEMMA SumDefined ==
  ASSUME NEW N \in Nat, NEW d \in [1 .. N -> Nat], NEW f,
         f = CHOOSE g : g = [k \in 0 .. N |->
                               IF k = 0 THEN 0 ELSE g[k - 1] + d[k]]
  PROVE  IsSum(f, d, N)
<1>1. PICK h : IsSum(h, d, N)
  BY SumExists
<1>2. h = [k \in 0 .. N |-> IF k = 0 THEN 0 ELSE h[k - 1] + d[k]]
  BY <1>1 DEF IsSum
<1>3. f = [k \in 0 .. N |-> IF k = 0 THEN 0 ELSE f[k - 1] + d[k]]
  BY <1>2, Zenon
<1> DEFINE K == {k \in 0 .. N : f[k] \notin Nat}
<1>4. f[0] = 0 /\ \A k \in 1 .. N : f[k] = f[k - 1] + d[k]
  <2>1. \A k \in 0 .. N : f[k] = IF k = 0 THEN 0 ELSE f[k - 1] + d[k]
    BY <1>3, Zenon
  <2> QED
    BY <2>1
<1>5. K = {}
  <2>1. SUFFICES ASSUME K # {} PROVE FALSE
    OBVIOUS
  <2>2. PICK m \in K : \A k \in K : m <= k
    <3>1. K \in SUBSET Nat
      OBVIOUS
    <3> HIDE DEF K
    <3> QED
      BY <2>1, <3>1, LeastOf
  <2>3. m # 0
    BY <1>4, <2>2
  <2>4. m - 1 \in 0 .. N /\ m \in 1 .. N /\ f[m - 1] \in Nat
    BY <2>2, <2>3
  <2>5. f[m] = f[m - 1] + d[m] /\ d[m] \in Nat
    BY <2>4, <1>4
  <2>6. f[m] \in Nat
    BY <2>4, <2>5
  <2> QED
    BY <2>2, <2>6
<1>6. f \in [0 .. N -> Nat]
  BY <1>3, <1>5
<1> QED
  BY <1>4, <1>6 DEF IsSum

LEMMA SumGrows ==
  ASSUME NEW N \in Nat, NEW d \in [1 .. N -> Nat], NEW f, IsSum(f, d, N),
         NEW j \in 0 .. N, NEW k \in 0 .. N, j <= k
  PROVE  f[j] <= f[k]
<1> DEFINE K == {n \in j .. N : f[n] < f[j]}
<1>1. SUFFICES ASSUME K # {} PROVE FALSE
  <2>1. f[j] \in Int /\ f[k] \in Int
    BY DEF IsSum
  <2> QED
    BY <2>1
<1>2. PICK m \in K : \A n \in K : m <= n
  <2>1. K \in SUBSET Nat
    OBVIOUS
  <2> HIDE DEF K
  <2> QED
    BY <1>1, <2>1, LeastOf
<1>3. \A n \in 0 .. N : f[n] \in Nat
  BY DEF IsSum
<1>4. m # j /\ m - 1 \in j .. N /\ m \in 1 .. N
  BY <1>2, <1>3
<1>5. f[m] = f[m - 1] + d[m] /\ d[m] \in Nat
  BY <1>4 DEF IsSum
<1>6. m - 1 \notin K
  BY <1>2, <1>4
<1> QED
  BY <1>2, <1>3, <1>4, <1>5, <1>6

(* n falls in the k-th part of a sum, for one k.                           *)
LEMMA SumParts ==
  ASSUME NEW N \in Nat, NEW d \in [1 .. N -> Nat], NEW f, IsSum(f, d, N),
         NEW n \in Nat, n < f[N]
  PROVE  /\ \E k \in 1 .. N : f[k - 1] <= n /\ n < f[k]
         /\ \A j, k \in 1 .. N :
              f[j - 1] <= n /\ n < f[j] /\ f[k - 1] <= n /\ n < f[k] => j = k
<1> DEFINE K == {k \in 0 .. N : n < f[k]}
<1>1. PICK m \in K : \A k \in K : m <= k
  <2>1. K \in SUBSET Nat /\ N \in K
    OBVIOUS
  <2> HIDE DEF K
  <2> QED
    BY <2>1, LeastOf
<1>2. \A k \in 0 .. N : f[k] \in Nat
  BY DEF IsSum
<1>3. m # 0
  BY <1>1 DEF IsSum
<1>4. m \in 1 .. N /\ m - 1 \in 0 .. N /\ m - 1 \notin K
  BY <1>1, <1>3
<1>5. f[m - 1] <= n /\ n < f[m]
  BY <1>1, <1>2, <1>4
<1>6. ASSUME NEW j \in 1 .. N, NEW k \in 1 .. N, f[j - 1] <= n, n < f[j],
             f[k - 1] <= n, n < f[k], j < k
      PROVE  FALSE
  <2>1. j \in 0 .. N /\ k - 1 \in 0 .. N /\ j <= k - 1
    BY <1>6
  <2>2. f[j] <= f[k - 1]
    BY <2>1, SumGrows
  <2> QED
    BY <1>2, <1>6, <2>1, <2>2
<1>7. \A j, k \in 1 .. N :
        f[j - 1] <= n /\ n < f[j] /\ f[k - 1] <= n /\ n < f[k] => j = k
  <2> TAKE j, k \in 1 .. N
  <2>1. j \in Int /\ k \in Int
    OBVIOUS
  <2>2. j = k \/ j < k \/ k < j
    BY <2>1
  <2> QED
    BY <1>6, <2>2
<1> QED
  BY <1>4, <1>5, <1>7

(* What the quotient is known by.                                          *)
LEMMA Division ==
  ASSUME NEW a \in Int, NEW t \in Int, t >= 1
  PROVE  /\ a \div t \in Int
         /\ \A b \in Int : b * t <= a <=> b <= a \div t
         /\ a >= 0 => a \div t >= 0
<1> DEFINE q == a \div t
<1>1. /\ q \in Int /\ a % t \in Int
      /\ a = t * q + (a % t) /\ 0 <= a % t /\ a % t < t
  OBVIOUS
<1> HIDE DEF q
<1>2. ASSUME NEW b \in Int, b <= q PROVE b * t <= a
  <2>1. PICK e \in Nat : q = b + e
    BY <1>1, <1>2
  <2>2. t * q = b * t + e * t /\ e * t >= 0
    BY <2>1
  <2> QED
    BY <1>1, <2>2
<1>3. ASSUME NEW b \in Int, b > q PROVE b * t > a
  <2>1. PICK e \in Nat : b = q + 1 + e
    BY <1>1, <1>3
  <2>2. b * t = t * q + t + e * t /\ e * t >= 0
    BY <1>1, <2>1
  <2> QED
    BY <1>1, <2>2
<1>4. \A b \in Int : b * t <= a <=> b <= q
  <2> TAKE b \in Int
  <2>1. b * t \in Int
    OBVIOUS
  <2> QED
    BY <1>1, <1>2, <1>3, <2>1
<1>5. a >= 0 => q >= 0
  BY <1>4
<1> QED
  BY <1>1, <1>4, <1>5 DEF q

(* Multiples of S are S apart.                                             *)
LEMMA Multiples ==
  ASSUME NEW S \in Int, S >= 1
  PROVE  /\ \A a \in Int : a * S \in Int /\ (a + 1) * S = a * S + S
         /\ \A a, b \in Int : (a + b) * S = a * S + b * S /\ (a - b) * S = a * S - b * S
         /\ \A a, b \in Int : a < b => a * S + S <= b * S
         /\ \A a, b \in Int : a * S < b * S => a < b
         /\ \A a, b \in Int : a <= b => a * S <= b * S
<1>1. \A a \in Int : a * S \in Int /\ (a + 1) * S = a * S + S
  OBVIOUS
<1>2. \A a, b \in Int : (a + b) * S = a * S + b * S /\ (a - b) * S = a * S - b * S
  OBVIOUS
<1>3. ASSUME NEW a \in Int, NEW b \in Int, a < b PROVE a * S + S <= b * S
  <2>1. PICK e \in Nat : b = a + 1 + e
    <3>1. b - a - 1 \in Nat /\ b = a + 1 + (b - a - 1)
      BY <1>3
    <3> QED
      BY <3>1
  <2>2. b * S = a * S + S + e * S /\ e * S >= 0
    BY <2>1
  <2>3. e * S \in Int /\ a * S \in Int
    BY <2>1
  <2> QED
    BY <2>2, <2>3
<1>4. \A a, b \in Int : a < b => a * S + S <= b * S
  BY <1>3
<1>5. ASSUME NEW a \in Int, NEW b \in Int
      PROVE  (a * S < b * S => a < b) /\ (a <= b => a * S <= b * S)
  <2>1. a < b \/ a = b \/ b < a
    OBVIOUS
  <2>2. PICK p \in Int, q \in Int : p = a * S /\ q = b * S
    BY <1>1
  <2>3. (a < b => p + S <= q) /\ (b < a => q + S <= p) /\ (a = b => p = q)
    BY <1>3, <2>2
  <2>4. (p < q => a < b) /\ (a <= b => p <= q)
    BY <2>1, <2>3
  <2> QED
    BY <2>2, <2>4
<1> QED
  BY <1>1, <1>2, <1>4, <1>5

(* The slot of S places that x is in, and where in it.                     *)
LEMMA SlotOf ==
  ASSUME NEW S \in Int, S >= 1, NEW x \in Int
  PROVE  /\ x \div S \in Int
         /\ (x \div S) * S <= x /\ x < (x \div S) * S + S
         /\ x % S = x - (x \div S) * S
         /\ \A s \in Int : s * S <= x <=> s <= x \div S
         /\ \A s \in Int : s * S <= x /\ x < s * S + S => x \div S = s
<1> DEFINE q == x \div S
           r == x % S
<1>1. q \in Int /\ \A b \in Int : b * S <= x <=> b <= q
  BY Division
<1>2. r \in Int /\ 0 <= r /\ r < S /\ x = S * q + r
  OBVIOUS
<1> HIDE DEF q, r
<1>3. PICK p \in Int : p = q * S
  BY <1>1
<1>4. S * q = p
  BY <1>1, <1>3
<1>5. p <= x /\ x < p + S /\ r = x - p
  BY <1>2, <1>3, <1>4
<1>6. ASSUME NEW s \in Int, s * S <= x, x < s * S + S PROVE q = s
  <2>1. s <= q
    BY <1>1, <1>6
  <2>2. PICK t \in Int : t = s * S
    OBVIOUS
  <2>3. s < q => t + S <= p
    BY <1>1, <1>3, <2>2, Multiples
  <2>4. ~(s < q)
    BY <1>5, <1>6, <2>2, <2>3
  <2> QED
    BY <1>1, <2>1, <2>4
<1> QED
  BY <1>1, <1>3, <1>5, <1>6 DEF q, r

(* Numbers less than m apart have remainders of their own, numbers m apart *)
(* the same.                                                               *)
LEMMA Residues ==
  ASSUME NEW m \in Int, m >= 1
  PROVE
  /\ \A a \in Int : a % m \in 0 .. m - 1
                    /\ (a + m) % m = a % m
                    /\ (a - m) % m = a % m
  /\ \A a, b \in Int : a < b /\ b < a + m => a % m # b % m
<1>1. m >= 1 /\ m \in Int
  OBVIOUS
<1>2. \A a \in Int : a % m \in 0 .. m - 1
  BY <1>1
<1>3. ASSUME NEW a \in Int, NEW b \in Int, a < b, b < a + m,
             a % m = b % m
      PROVE  FALSE
  <2> DEFINE p == a \div m
             q == b \div m
  <2>1. /\ p \in Int /\ q \in Int
        /\ a = m * p + (a % m) /\ b = m * q + (b % m)
        /\ a % m \in Int
    BY <1>1
  <2> HIDE DEF p, q
  <2>2. b - a = m * q - m * p
    BY <2>1, <1>1, <1>3
  <2>3. m * q - m * p = (q - p) * m
    BY <2>1, <1>1
  <2>4. PICK d \in Int : d = q - p
    BY <2>1
  <2>5. 0 < d * m /\ d * m < m
    BY <2>2, <2>3, <2>4, <1>1, <1>3
  <2>6. CASE d <= 0
    <3>1. PICK e \in Nat : d = 0 - e
      <4>1. 0 - d \in Nat /\ d = 0 - (0 - d)
        BY <2>6
      <4> QED
        BY <4>1
    <3>2. d * m = 0 - (e * m) /\ e * m >= 0 /\ e * m \in Int
      BY <3>1, <1>1
    <3> QED
      BY <3>2, <2>5
  <2>7. CASE d >= 1
    <3>1. PICK e \in Nat : d = 1 + e
      <4>1. d - 1 \in Nat /\ d = 1 + (d - 1)
        BY <2>7
      <4> QED
        BY <4>1
    <3>2. d * m = m + (e * m) /\ e * m >= 0 /\ e * m \in Int
      BY <3>1, <1>1
    <3> QED
      BY <3>2, <2>5, <1>1
  <2> QED
    BY <2>6, <2>7
<1>4. \A a \in Int : (a + m) % m = a % m
  <2> TAKE a \in Int
  <2> DEFINE p == a \div m
  <2>1. p \in Int /\ a = m * p + (a % m) /\ a % m \in 0 .. m - 1
    BY <1>1
  <2> HIDE DEF p
  <2> DEFINE b == a + m
             q == b \div m
             r == b % m
  <2>2. q \in Int /\ b = m * q + r /\ r \in 0 .. m - 1
    <3>1. b \in Int
      BY <1>1
    <3> HIDE DEF b
    <3> QED
      BY <3>1, <1>1
  <2>3. b = a + m
    OBVIOUS
  <2> HIDE DEF b, q, r
  <2>4. PICK d \in Int : d = q - p - 1
    BY <2>1, <2>2
  <2>5. d * m = m * q - m * p - m
    BY <2>4, <2>1, <2>2, <1>1
  <2>6. d * m = (a % m) - r
    <3>1. m * q \in Int /\ m * p \in Int
      BY <2>1, <2>2, <1>1
    <3> HIDE DEF r
    <3> QED
      BY <3>1, <2>1, <2>2, <2>3, <2>5, <1>1
  <2>7. d * m < m /\ d * m > 0 - m
    BY <2>1, <2>2, <2>6, <1>1
  <2>8. d = 0
    <3>1. CASE d >= 1
      <4>1. PICK e \in Nat : d = 1 + e
        <5>1. d - 1 \in Nat /\ d = 1 + (d - 1)
          BY <3>1
        <5> QED
          BY <5>1
      <4>2. d * m = m + (e * m) /\ e * m >= 0 /\ e * m \in Int
        BY <4>1, <1>1
      <4> QED
        BY <4>2, <2>7, <1>1
    <3>2. CASE d <= -1
      <4>1. PICK e \in Nat : d = 0 - 1 - e
        <5>1. 0 - 1 - d \in Nat /\ d = 0 - 1 - (0 - 1 - d)
          BY <3>2
        <5> QED
          BY <5>1
      <4>2. d * m = 0 - m - (e * m) /\ e * m >= 0 /\ e * m \in Int
        BY <4>1, <1>1
      <4> QED
        BY <4>2, <2>7, <1>1
    <3> QED
      BY <3>1, <3>2
  <2>9. d * m = 0
    BY <2>8, <1>1
  <2>10. r = a % m
    BY <2>9, <2>6, <2>1, <2>2
  <2> QED
    BY <2>10 DEF r, b
<1>5. \A a \in Int : (a - m) % m = a % m
  <2> TAKE a \in Int
  <2>1. PICK c \in Int : c = a - m
    BY <1>1
  <2>2. a = c + m
    BY <2>1, <1>1
  <2> QED
    BY <2>1, <2>2, <1>4
<1> QED
  BY <1>2, <1>3, <1>4, <1>5

LEMMA OneLeft ==
  ASSUME NEW m \in Int, m >= 2
  PROVE  1 % m = 1
<1> DEFINE p == 1 \div m
           r == 1 % m
<1>1. m \in Int /\ m >= 2
  OBVIOUS
<1>2. p \in Int /\ 1 = m * p + r /\ r \in 0 .. m - 1
  BY <1>1
<1> HIDE DEF p, r
<1>3. CASE p >= 1
  <2>1. PICK e \in Nat : p = 1 + e
    <3>1. p - 1 \in Nat /\ p = 1 + (p - 1)
      BY <1>2, <1>3
    <3> QED
      BY <3>1
  <2>2. m * p = m + e * m /\ e * m >= 0 /\ e * m \in Int
    BY <1>1, <2>1
  <2> QED
    BY <1>1, <1>2, <2>2
<1>4. CASE p <= -1
  <2>1. PICK e \in Nat : p = 0 - 1 - e
    <3>1. 0 - 1 - p \in Nat /\ p = 0 - 1 - (0 - 1 - p)
      BY <1>2, <1>4
    <3> QED
      BY <3>1
  <2>2. m * p = 0 - m - e * m /\ e * m >= 0 /\ e * m \in Int
    BY <1>1, <2>1
  <2>3. r \in Int /\ r <= m - 1
    BY <1>2
  <2> QED
    BY <1>1, <1>2, <2>2, <2>3
<1>5. CASE p = 0
  <2>1. m * p = 0
    BY <1>1, <1>5
  <2>2. r = 1
    BY <1>2, <2>1
  <2> QED
    BY <2>2 DEF r
<1> QED
  BY <1>2, <1>3, <1>4, <1>5

=============================================================================
