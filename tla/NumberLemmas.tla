---------------------------- MODULE NumberLemmas ----------------------------
(* Integer division with remainder, induction as the least counterexample,       *)
(* recursive functions and sums, for the proofs about the modules.               *)
EXTENDS Integers, Sums, NaturalsInduction, WellFoundedInduction, TLAPS

\* Quotient and remainder are unique.
LEMMA DivisionUnique ==
  ASSUME NEW d \in Nat \ {0}, NEW a \in Int, NEW n \in Int, NEW s \in 0..d - 1, a = d * n + s
  PROVE  a \div d = n /\ a % d = s
<1>1. PICK t \in Int, r \in 0..d - 1 : t = a \div d /\ r = a % d /\ a = d * t + r
  OBVIOUS
<1>2. PICK x \in Int, y \in Int : x = d * t /\ y = d * n
  OBVIOUS
<1>3. ASSUME t >= n + 1 PROVE FALSE
  <2>1. d * t >= d * (n + 1)
    BY <1>1, <1>3
  <2>2. x >= y + d
    BY <1>2, <2>1
  <2> QED  BY <1>1, <1>2, <2>2
<1>4. ASSUME t <= n - 1 PROVE FALSE
  <2>1. d * t <= d * (n - 1)
    BY <1>1, <1>4
  <2>2. x <= y - d
    BY <1>2, <2>1
  <2> QED  BY <1>1, <1>2, <2>2
<1>5. t = n
  BY <1>1, <1>3, <1>4
<1>6. x = y
  BY <1>2, <1>5
<1>7. a = x + r /\ a = y + s
  BY <1>1, <1>2
<1> QED  BY <1>1, <1>5, <1>6, <1>7

\* A number in range is its own remainder, and multiples of the divisor drop out.
LEMMA RemainderOfSum ==
  ASSUME NEW d \in Nat \ {0}, NEW r \in 0..d - 1, NEW k \in Int
  PROVE  (r + d * k) % d = r /\ (r + d * k) \div d = k
<1>1. r + d * k \in Int /\ r + d * k = d * k + r
  OBVIOUS
<1> QED  BY <1>1, DivisionUnique

\* A number is its quotient and its remainder.
LEMMA Division ==
  ASSUME NEW d \in Nat \ {0}, NEW a \in Int
  PROVE  a \div d \in Int /\ a % d \in 0..d - 1 /\ a = d * (a \div d) + (a % d)
OBVIOUS

\* Numbers that differ by a multiple of the divisor have the same remainder.
LEMMA SameRemainder ==
  ASSUME NEW d \in Nat \ {0}, NEW a \in Int, NEW b \in Int, NEW k \in Int, a = b + d * k
  PROVE  a % d = b % d
<1>1. PICK t \in Int, r \in 0..d - 1 : t = b \div d /\ r = b % d /\ b = d * t + r
  BY Division
<1>2. a = d * (t + k) + r
  BY <1>1
<1>3. PICK n \in Int : n = t + k /\ a = d * n + r
  BY <1>2
<1>4. a % d = r
  BY <1>3, DivisionUnique
<1> QED  BY <1>1, <1>4

----------------------------------------------------------------------------
(* Induction.                                                              *)

\* Every set of natural numbers has a least one.
LEMMA Least ==
  ASSUME NEW T, T \subseteq Nat, T # {}
  PROVE  \E n \in T : \A m \in T : n <= m
<1>1. IsWellFoundedOn(OpToRel(<, Nat), Nat)
  BY NatLessThanWellFounded
<1>2. PICK n \in T : \A m \in T : ~(<<m, n>> \in OpToRel(<, Nat))
  BY <1>1, WFMin, Zenon
<1>3. ASSUME NEW m \in T
      PROVE  n <= m
  <2>1. ~(<<m, n>> \in OpToRel(<, Nat))
    BY <1>2
  <2>2. ~(m < n)
    BY <2>1, Zenon DEF OpToRel
  <2>3. m \in Nat /\ n \in Nat
    OBVIOUS
  <2> QED  BY <2>2, <2>3
<1> QED  BY <1>3

\* A set with zero and with the successor of each member below m has all numbers to m.
LEMMA UpTo ==
  ASSUME NEW m \in Nat, NEW T, 0 \in T, \A n \in 0..m - 1 : n \in T => n + 1 \in T
  PROVE  0..m \subseteq T
<1> SUFFICES ASSUME ~(0..m \subseteq T) PROVE FALSE
  OBVIOUS
<1> DEFINE U == {n \in 0..m : n \notin T}
<1>1. U \subseteq Nat /\ U # {}
  OBVIOUS
<1>2. PICK n \in U : \A k \in U : n <= k
  <2> HIDE DEF U
  <2> QED  BY <1>1, Least
<1>3. n \in 1..m /\ n - 1 \in 0..m - 1 /\ (n - 1) + 1 = n
  BY <1>2
<1>4. n - 1 \notin U
  BY <1>2, <1>3
<1> QED  BY <1>3, <1>4

\* f is what starting from s0 and applying step[1], ..., step[m] gives.
Iterates(f, m, s0, step) == f[0] = s0 /\ \A n \in 1..m : f[n] = step[n][f[n - 1]]

Steps(m, S, s0, step) == m \in Nat /\ s0 \in S /\ step \in [1..m -> [S -> S]]

\* A recursive definition over the numbers to m has a solution.
LEMMA Recursion ==
  ASSUME NEW m, NEW S, NEW s0, NEW step, Steps(m, S, s0, step)
  PROVE  \E f \in [0..m -> S] : Iterates(f, m, s0, step)
<1>0. m \in Nat /\ s0 \in S /\ step \in [1..m -> [S -> S]]
  BY DEF Steps
<1> DEFINE Solves(f, k) == f \in [0..k -> S] /\ Iterates(f, k, s0, step)
           T == {k \in 0..m : \E f : Solves(f, k)}
<1>1. 0 \in T
  <2>1. Solves([n \in 0..0 |-> s0], 0)
    BY <1>0 DEF Iterates
  <2> HIDE DEF Solves
  <2>2. 0 \in 0..m
    BY <1>0
  <2> QED  BY <2>1, <2>2
<1>2. ASSUME NEW k \in 0..m - 1, k \in T
      PROVE  k + 1 \in T
  <2>1. PICK f : Solves(f, k)
    BY <1>2
  <2> DEFINE g == [n \in 0..k + 1 |-> IF n = k + 1 THEN step[k + 1][f[k]] ELSE f[n]]
  <2>2. f \in [0..k -> S] /\ f[0] = s0 /\ \A n \in 1..k : f[n] = step[n][f[n - 1]]
    BY <2>1 DEF Iterates
  <2>3. k \in 0..k /\ k + 1 \in 1..m
    BY <1>0
  <2>4. g \in [0..k + 1 -> S]
    BY <1>0, <2>2, <2>3
  <2>5. ASSUME NEW n \in 1..k + 1
        PROVE  g[n] = step[n][g[n - 1]]
    <3>1. CASE n = k + 1
      <4>1. g[n] = step[n][f[k]] /\ g[n - 1] = f[k]
        BY <2>3, <3>1
      <4> QED  BY <3>1, <4>1
    <3>2. CASE n \in 1..k
      <4>1. g[n] = f[n] /\ g[n - 1] = f[n - 1]
        BY <3>2
      <4> HIDE DEF g
      <4> QED  BY <2>2, <3>2, <4>1
    <3> QED  BY <3>1, <3>2
  <2>6. g[0] = s0
    BY <2>2
  <2> HIDE DEF g
  <2>7. Solves(g, k + 1)
    BY <2>4, <2>5, <2>6 DEF Iterates
  <2> HIDE DEF Solves
  <2>8. k + 1 \in 0..m
    BY <1>0
  <2> QED  BY <2>7, <2>8
<1>3. 0..m \subseteq T
  <2> HIDE DEF T
  <2> QED  BY <1>0, <1>1, <1>2, UpTo
<1>4. \E f : Solves(f, m)
  BY <1>0, <1>3
<1> QED  BY <1>4

----------------------------------------------------------------------------
(* Sums.                                                                   *)

Summands(m) == [0..m - 1 -> Int]

\* Sequences of summands are equal when their terms are.
LEMMA SameSummands ==
  ASSUME NEW m \in Nat, NEW f \in Summands(m), NEW g \in Summands(m), \A n \in 0..m - 1 : f[n] = g[n]
  PROVE  f = g
BY DEF Summands

\* s has the partial sums of f.
PartialSums(s, f, m) == s[0] = 0 /\ \A n \in 1..m : s[n] = s[n - 1] + f[n - 1]

\* A sum is the last of its partial sums.
LEMMA SumIs ==
  ASSUME NEW m \in Nat, NEW f, NEW s \in [0..m -> Int], PartialSums(s, f, m)
  PROVE  SumTo(f, m) = s[m]
<1> DEFINE Is(g) == g = [k \in 0..m |-> IF k = 0 THEN 0 ELSE g[k - 1] + f[k - 1]]
           sum == CHOOSE g : Is(g)
<1>1. SumTo(f, m) = sum[m]
  BY DEF SumTo
<1>2. Is(s)
  <2>1. ASSUME NEW k \in 0..m
        PROVE  s[k] = IF k = 0 THEN 0 ELSE s[k - 1] + f[k - 1]
    <3>1. k = 0 \/ k \in 1..m
      OBVIOUS
    <3> QED  BY <3>1 DEF PartialSums
  <2>2. s = [k \in 0..m |-> s[k]]
    OBVIOUS
  <2> QED  BY <2>1, <2>2
<1>3. Is(sum)
  <2> HIDE DEF Is
  <2> QED  BY <1>2
<1> HIDE DEF sum
<1>4. \A k \in 0..m : sum[k] = IF k = 0 THEN 0 ELSE sum[k - 1] + f[k - 1]
  BY <1>3
<1> HIDE DEF Is
<1> DEFINE T == {k \in 0..m : sum[k] = s[k]}
<1>5. 0 \in T
  BY <1>4 DEF PartialSums
<1>6. ASSUME NEW k \in 0..m - 1, k \in T PROVE k + 1 \in T
  <2>1. k + 1 \in 1..m /\ k + 1 \in 0..m /\ k + 1 # 0 /\ (k + 1) - 1 = k
    OBVIOUS
  <2>2. sum[k + 1] = sum[k] + f[k]
    BY <1>4, <2>1
  <2>3. s[k + 1] = s[k] + f[k]
    BY <2>1 DEF PartialSums
  <2> QED  BY <1>6, <2>1, <2>2, <2>3
<1>7. 0..m \subseteq T
  <2> HIDE DEF T
  <2> QED  BY <1>5, <1>6, UpTo
<1>8. sum[m] = s[m]
  BY <1>7
<1> QED  BY <1>1, <1>8

\* SumTo by recursion over the number of terms.
LEMMA SumFacts ==
  ASSUME NEW m \in Nat, NEW f \in Summands(m)
  PROVE  /\ SumTo(f, 0) = 0
         /\ \A n \in 0..m : SumTo(f, n) \in Int
         /\ \A n \in 0..m - 1 : SumTo(f, n + 1) = SumTo(f, n) + f[n]
<1> DEFINE step == [n \in 1..m |-> [v \in Int |-> v + f[n - 1]]]
<1>1. ASSUME NEW n \in 1..m PROVE n - 1 \in 0..m - 1 /\ f[n - 1] \in Int
  BY DEF Summands
<1>2. step \in [1..m -> [Int -> Int]]
  BY <1>1
<1>3. PICK s \in [0..m -> Int] : s[0] = 0 /\ \A n \in 1..m : s[n] = step[n][s[n - 1]]
  <2> HIDE DEF step
  <2>1. Steps(m, Int, 0, step)
    BY <1>2 DEF Steps
  <2>2. \E s \in [0..m -> Int] : Iterates(s, m, 0, step)
    BY <2>1, Recursion, Zenon
  <2> QED  BY <2>2 DEF Iterates
<1>4. \A n \in 1..m : s[n] = s[n - 1] + f[n - 1]
  <2>1. ASSUME NEW n \in 1..m PROVE s[n] = s[n - 1] + f[n - 1]
    <3>1. n - 1 \in 0..m
      OBVIOUS
    <3>2. step[n][s[n - 1]] = s[n - 1] + f[n - 1]
      BY <3>1
    <3> HIDE DEF step
    <3> QED  BY <1>3, <3>2
  <2> QED  BY <2>1
<1>5. ASSUME NEW n \in 0..m PROVE SumTo(f, n) = s[n]
  <2> DEFINE t == [k \in 0..n |-> s[k]]
  <2>1. t \in [0..n -> Int]
    OBVIOUS
  <2>2. t[0] = 0 /\ \A k \in 1..n : t[k] = t[k - 1] + f[k - 1]
    <3>1. \A k \in 1..n : k \in 1..m /\ k \in 0..n /\ k - 1 \in 0..n
      OBVIOUS
    <3>2. \A k \in 1..n : t[k] = s[k] /\ t[k - 1] = s[k - 1]
      BY <3>1
    <3>3. t[0] = s[0]
      OBVIOUS
    <3> HIDE DEF t
    <3> QED  BY <1>3, <1>4, <3>1, <3>2, <3>3
  <2>3. t[n] = s[n]
    OBVIOUS
  <2> HIDE DEF t
  <2>4. PartialSums(t, f, n)
    BY <2>2 DEF PartialSums
  <2>5. SumTo(f, n) = t[n]
    BY <2>1, <2>4, SumIs
  <2> QED  BY <2>3, <2>5
<1>6. SumTo(f, 0) = 0
  BY <1>3, <1>5
<1>7. ASSUME NEW n \in 0..m - 1 PROVE SumTo(f, n + 1) = SumTo(f, n) + f[n]
  <2>1. n + 1 \in 1..m /\ n + 1 \in 0..m /\ n \in 0..m /\ (n + 1) - 1 = n
    OBVIOUS
  <2> HIDE DEF step
  <2>2. SumTo(f, n + 1) = s[n + 1] /\ SumTo(f, n) = s[n]
    BY <1>5, <2>1
  <2>3. s[n + 1] = s[n] + f[n]
    BY <1>4, <2>1
  <2> QED  BY <2>2, <2>3
<1> QED  BY <1>5, <1>6, <1>7

\* The sum of sums.
LEMMA SumPlus ==
  ASSUME NEW m \in Nat, NEW f \in Summands(m), NEW g \in Summands(m), NEW h \in Summands(m),
         \A n \in 0..m - 1 : h[n] = f[n] + g[n]
  PROVE  SumTo(h, m) = SumTo(f, m) + SumTo(g, m)
<1> DEFINE T == {n \in 0..m : SumTo(h, n) = SumTo(f, n) + SumTo(g, n)}
<1>1. 0 \in T
  BY SumFacts
<1>2. ASSUME NEW n \in 0..m - 1, n \in T PROVE n + 1 \in T
  <2>1. n + 1 \in 0..m /\ n \in 0..m
    OBVIOUS
  <2>2. /\ SumTo(f, n + 1) = SumTo(f, n) + f[n] /\ SumTo(g, n + 1) = SumTo(g, n) + g[n]
        /\ SumTo(h, n + 1) = SumTo(h, n) + h[n]
        /\ SumTo(f, n) \in Int /\ SumTo(g, n) \in Int
    BY <2>1, SumFacts
  <2>3. f[n] \in Int /\ g[n] \in Int
    BY DEF Summands
  <2> QED  BY <1>2, <2>1, <2>2, <2>3
<1>3. 0..m \subseteq T
  <2> HIDE DEF T
  <2> QED  BY <1>1, <1>2, UpTo
<1> QED  BY <1>3

\* A sum of multiples.
LEMMA SumScale ==
  ASSUME NEW m \in Nat, NEW c \in Int, NEW f \in Summands(m), NEW h \in Summands(m),
         \A n \in 0..m - 1 : h[n] = c * f[n]
  PROVE  SumTo(h, m) = c * SumTo(f, m)
<1> DEFINE T == {n \in 0..m : SumTo(h, n) = c * SumTo(f, n)}
<1>1. 0 \in T
  BY SumFacts
<1>2. ASSUME NEW n \in 0..m - 1, n \in T PROVE n + 1 \in T
  <2>1. n + 1 \in 0..m /\ n \in 0..m
    OBVIOUS
  <2>2. /\ SumTo(f, n + 1) = SumTo(f, n) + f[n] /\ SumTo(h, n + 1) = SumTo(h, n) + h[n]
        /\ SumTo(f, n) \in Int
    BY <2>1, SumFacts
  <2>3. PICK x \in Int, y \in Int : x = f[n] /\ y = SumTo(f, n)
    BY <2>2 DEF Summands
  <2>4. c * (y + x) = c * y + c * x
    OBVIOUS
  <2> QED  BY <1>2, <2>1, <2>2, <2>3, <2>4
<1>3. 0..m \subseteq T
  <2> HIDE DEF T
  <2> QED  BY <1>1, <1>2, UpTo
<1> QED  BY <1>3

\* A sum that begins with its last place.
LEMMA SumRotated ==
  ASSUME NEW m \in Nat \ {0}, NEW f \in Summands(m), NEW g \in Summands(m),
         f[0] = g[m - 1], \A n \in 1..m - 1 : f[n] = g[n - 1]
  PROVE  SumTo(f, m) = SumTo(g, m)
<1> DEFINE T == {n \in 0..m - 1 : SumTo(f, n + 1) = f[0] + SumTo(g, n)}
<1>0. \A n \in 0..m - 1 : f[n] \in Int /\ g[n] \in Int
  BY DEF Summands
<1>1. 0 \in T
  <2>1. SumTo(f, 0 + 1) = SumTo(f, 0) + f[0] /\ SumTo(f, 0) = 0 /\ SumTo(g, 0) = 0
    BY SumFacts
  <2> QED  BY <1>0, <2>1
<1>2. ASSUME NEW n \in 0..(m - 1) - 1, n \in T PROVE n + 1 \in T
  <2>1. n + 1 \in 1..m - 1 /\ n \in 0..m - 1 /\ n \in 0..m /\ n + 1 \in 0..m - 1 /\ (n + 1) - 1 = n
    OBVIOUS
  <2>2. /\ SumTo(f, (n + 1) + 1) = SumTo(f, n + 1) + f[n + 1]
        /\ SumTo(g, n + 1) = SumTo(g, n) + g[n] /\ SumTo(g, n) \in Int
    BY <2>1, SumFacts
  <2>3. f[n + 1] = g[n]
    BY <2>1
  <2> QED  BY <1>0, <1>2, <2>1, <2>2, <2>3
<1>3. 0..m - 1 \subseteq T
  <2> HIDE DEF T
  <2>1. m - 1 \in Nat
    OBVIOUS
  <2> QED  BY <1>1, <1>2, <2>1, UpTo
<1>4. SumTo(f, m) = f[0] + SumTo(g, m - 1)
  <2>1. m - 1 \in T /\ (m - 1) + 1 = m
    BY <1>3
  <2> QED  BY <2>1
<1>5. SumTo(g, m) = SumTo(g, m - 1) + g[m - 1] /\ SumTo(g, m - 1) \in Int
  <2>1. m - 1 \in 0..m - 1 /\ m - 1 \in 0..m /\ (m - 1) + 1 = m
    OBVIOUS
  <2> QED  BY <2>1, SumFacts
<1> QED  BY <1>0, <1>4, <1>5

\* A sum of integers is one.
LEMMA SumInt ==
  ASSUME NEW n \in Nat, NEW f \in Summands(n)
  PROVE  SumTo(f, n) \in Int
<1>1. n \in 0..n
  OBVIOUS
<1> QED  BY <1>1, SumFacts

\* A sum in two parts.
LEMMA SumConcat ==
  ASSUME NEW m \in Nat, NEW l \in Nat, NEW f \in Summands(m + l), NEW g \in Summands(m), NEW h \in Summands(l),
         \A n \in 0..m - 1 : f[n] = g[n], \A n \in 0..l - 1 : f[m + n] = h[n]
  PROVE  SumTo(f, m + l) = SumTo(g, m) + SumTo(h, l)
<1> DEFINE T == {n \in 0..m : SumTo(f, n) = SumTo(g, n)}
           U == {n \in 0..l : SumTo(f, m + n) = SumTo(g, m) + SumTo(h, n)}
<1>0. m + l \in Nat
  OBVIOUS
<1>1. 0 \in T
  BY <1>0, SumFacts
<1>2. ASSUME NEW n \in 0..m - 1, n \in T PROVE n + 1 \in T
  <2>1. n + 1 \in 0..m /\ n \in 0..(m + l) - 1
    OBVIOUS
  <2>2. SumTo(f, n + 1) = SumTo(f, n) + f[n] /\ SumTo(g, n + 1) = SumTo(g, n) + g[n]
    BY <1>0, <2>1, SumFacts
  <2> QED  BY <1>2, <2>1, <2>2
<1>3. SumTo(f, m) = SumTo(g, m)
  <2>1. 0..m \subseteq T
    <3> HIDE DEF T
    <3> QED  BY <1>1, <1>2, UpTo
  <2> QED  BY <2>1
<1>4. SumTo(g, m) \in Int
  BY SumInt
<1>5. 0 \in U
  <2>1. m + 0 = m /\ SumTo(h, 0) = 0
    BY SumFacts
  <2> QED  BY <1>3, <1>4, <2>1
<1>6. ASSUME NEW n \in 0..l - 1, n \in U PROVE n + 1 \in U
  <2>1. n + 1 \in 0..l /\ n \in 0..l /\ m + n \in 0..(m + l) - 1 /\ m + (n + 1) = (m + n) + 1
    OBVIOUS
  <2>2. SumTo(f, (m + n) + 1) = SumTo(f, m + n) + f[m + n]
    BY <1>0, <2>1, SumFacts
  <2>3. SumTo(h, n + 1) = SumTo(h, n) + h[n] /\ SumTo(h, n) \in Int
    BY <2>1, SumFacts
  <2>4. h[n] \in Int
    BY DEF Summands
  <2> QED  BY <1>4, <1>6, <2>1, <2>2, <2>3, <2>4
<1>7. 0..l \subseteq U
  <2> HIDE DEF U
  <2> QED  BY <1>5, <1>6, UpTo
<1> QED  BY <1>7

\* A sum of zeros.
LEMMA SumZero ==
  ASSUME NEW m \in Nat, NEW f \in Summands(m), \A n \in 0..m - 1 : f[n] = 0
  PROVE  SumTo(f, m) = 0
<1>1. \A n \in 0..m - 1 : f[n] = 0 * f[n]
  BY DEF Summands
<1>2. SumTo(f, m) = 0 * SumTo(f, m)
  BY <1>1, SumScale
<1> QED  BY <1>2, SumInt

\* Sums compare as their terms do.
LEMMA SumMonotone ==
  ASSUME NEW m \in Nat, NEW f \in Summands(m), NEW g \in Summands(m), \A n \in 0..m - 1 : f[n] <= g[n]
  PROVE  SumTo(f, m) <= SumTo(g, m)
<1> DEFINE T == {n \in 0..m : SumTo(f, n) <= SumTo(g, n)}
<1>1. 0 \in T
  BY SumFacts
<1>2. ASSUME NEW n \in 0..m - 1, n \in T PROVE n + 1 \in T
  <2>1. n + 1 \in 0..m /\ n \in 0..m
    OBVIOUS
  <2>2. /\ SumTo(f, n + 1) = SumTo(f, n) + f[n] /\ SumTo(g, n + 1) = SumTo(g, n) + g[n]
        /\ SumTo(f, n) \in Int /\ SumTo(g, n) \in Int
    BY <2>1, SumFacts
  <2>3. f[n] \in Int /\ g[n] \in Int /\ f[n] <= g[n]
    BY DEF Summands
  <2> QED  BY <1>2, <2>1, <2>2, <2>3
<1>3. 0..m \subseteq T
  <2> HIDE DEF T
  <2> QED  BY <1>1, <1>2, UpTo
<1> QED  BY <1>3

\* A sum is bounded by the sum of the bounds of its terms.
LEMMA SumBound ==
  ASSUME NEW m \in Nat, NEW f \in Summands(m), NEW g \in Summands(m),
         \A n \in 0..m - 1 : -g[n] <= f[n] /\ f[n] <= g[n]
  PROVE  -SumTo(g, m) <= SumTo(f, m) /\ SumTo(f, m) <= SumTo(g, m)
<1> DEFINE h == [n \in 0..m - 1 |-> (-1) * g[n]]
<1>0. \A n \in 0..m - 1 : f[n] \in Int /\ g[n] \in Int
  BY DEF Summands
<1>1. h \in Summands(m) /\ \A n \in 0..m - 1 : h[n] = (-1) * g[n] /\ h[n] <= f[n]
  BY <1>0 DEF Summands
<1> HIDE DEF h
<1>2. SumTo(h, m) = (-1) * SumTo(g, m)
  BY <1>1, SumScale
<1>3. SumTo(h, m) <= SumTo(f, m) /\ SumTo(f, m) <= SumTo(g, m)
  BY <1>1, SumMonotone
<1>4. SumTo(g, m) \in Int /\ SumTo(f, m) \in Int
  <2>1. m \in 0..m
    OBVIOUS
  <2> QED  BY <2>1, SumFacts
<1> QED  BY <1>2, <1>3, <1>4

\* The order of the terms does not matter: backwards.
LEMMA SumReversed ==
  ASSUME NEW m \in Nat, NEW f \in Summands(m), NEW g \in Summands(m),
         \A n \in 0..m - 1 : f[n] = g[m - 1 - n]
  PROVE  SumTo(f, m) = SumTo(g, m)
<1> DEFINE T == {n \in 0..m : SumTo(f, n) + SumTo(g, m - n) = SumTo(g, m)}
<1>1. 0 \in T
  <2>1. m - 0 = m /\ m \in 0..m /\ 0 \in 0..m
    OBVIOUS
  <2>2. SumTo(f, 0) = 0 /\ SumTo(g, m) \in Int
    BY <2>1, SumFacts
  <2> QED  BY <2>1, <2>2
<1>2. ASSUME NEW n \in 0..m - 1, n \in T PROVE n + 1 \in T
  <2>1. /\ n + 1 \in 0..m /\ n \in 0..m /\ m - 1 - n \in 0..m - 1 /\ (m - 1 - n) + 1 = m - n
        /\ m - (n + 1) = m - 1 - n /\ m - 1 - n \in 0..m /\ m - n \in 0..m
    OBVIOUS
  <2>2. /\ SumTo(f, n + 1) = SumTo(f, n) + f[n] /\ SumTo(g, m - n) = SumTo(g, m - 1 - n) + g[m - 1 - n]
        /\ SumTo(f, n) \in Int /\ SumTo(g, m - 1 - n) \in Int
    BY <2>1, SumFacts
  <2>3. f[n] = g[m - 1 - n] /\ f[n] \in Int
    BY DEF Summands
  <2>4. SumTo(f, n) + SumTo(g, m - n) = SumTo(g, m)
    BY <1>2
  <2>5. SumTo(f, n + 1) + SumTo(g, m - (n + 1)) = SumTo(g, m)
    BY <2>1, <2>2, <2>3, <2>4
  <2> QED  BY <2>1, <2>5
<1>3. 0..m \subseteq T
  <2> HIDE DEF T
  <2> QED  BY <1>1, <1>2, UpTo
<1>4. m \in T /\ m - m = 0
  BY <1>3
<1>5. SumTo(g, 0) = 0 /\ SumTo(f, m) \in Int
  <2>1. m \in 0..m
    OBVIOUS
  <2> QED  BY <2>1, SumFacts
<1> QED  BY <1>4, <1>5

\* A sum of two terms.
LEMMA SumOfTwo ==
  ASSUME NEW m \in Nat \ {0, 1}, NEW f \in Summands(m), \A n \in 2..m - 1 : f[n] = 0
  PROVE  SumTo(f, m) = f[0] + f[1]
<1> DEFINE T == {n \in 0..m - 2 : SumTo(f, n + 2) = f[0] + f[1]}
<1>0. f[0] \in Int /\ f[1] \in Int
  BY DEF Summands
<1>1. 0 \in T
  <2>1. SumTo(f, 0 + 1) = SumTo(f, 0) + f[0] /\ SumTo(f, 1 + 1) = SumTo(f, 1) + f[1] /\ SumTo(f, 0) = 0
    BY SumFacts
  <2> QED  BY <1>0, <2>1
<1>2. ASSUME NEW n \in 0..(m - 2) - 1, n \in T PROVE n + 1 \in T
  <2>1. n + 2 \in 0..m - 1 /\ n + 2 \in 2..m - 1 /\ n + 1 \in 0..m - 2 /\ (n + 2) + 1 = (n + 1) + 2
    OBVIOUS
  <2>2. SumTo(f, (n + 2) + 1) = SumTo(f, n + 2) + f[n + 2]
    BY <2>1, SumFacts
  <2> QED  BY <1>0, <1>2, <2>1, <2>2
<1>3. 0..m - 2 \subseteq T
  <2> HIDE DEF T
  <2>1. m - 2 \in Nat
    OBVIOUS
  <2> QED  BY <1>1, <1>2, <2>1, UpTo
<1>4. m - 2 \in T /\ (m - 2) + 2 = m
  BY <1>3
<1> QED  BY <1>4

\* A sum of which one term may not be zero.
LEMMA SumOfOne ==
  ASSUME NEW n \in Nat, NEW f \in Summands(n), NEW k \in 0..n - 1,
         \A j \in 0..n - 1 : j # k => f[j] = 0
  PROVE  SumTo(f, n) = f[k]
<1>0. f[k] \in Int
  BY DEF Summands
<1> DEFINE T0 == {j \in 0..n : SumTo(f, j) = IF j <= k THEN 0 ELSE f[k]}
<1>1. 0 \in T0
  BY SumFacts
<1>2. ASSUME NEW j \in 0..n - 1, j \in T0 PROVE j + 1 \in T0
  <2>1. j + 1 \in 0..n /\ SumTo(f, j + 1) = SumTo(f, j) + f[j] /\ f[j] \in Int
    BY SumFacts DEF Summands
  <2>2. CASE j < k
    BY <1>2, <2>1, <2>2
  <2>3. CASE j = k
    BY <1>0, <1>2, <2>1, <2>3
  <2>4. CASE j > k
    BY <1>0, <1>2, <2>1, <2>4
  <2> QED  BY <2>2, <2>3, <2>4
<1>3. 0..n \subseteq T0
  <2> HIDE DEF T0
  <2> QED  BY <1>1, <1>2, UpTo
<1>4. n \in T0
  BY <1>3
<1> QED  BY <1>4

\* a and b have the same remainder.
SameMod(a, b, d) == \E k \in Int : a = b + d * k

\* Congruent numbers have one remainder.
LEMMA SameModRemainder ==
  ASSUME NEW d \in Nat \ {0}, NEW a \in Int, NEW b \in Int, SameMod(a, b, d)
  PROVE  a % d = b % d
BY SameRemainder DEF SameMod

\* Congruence is an equivalence that sums, differences and products keep.
LEMMA SameModFacts ==
  ASSUME NEW d \in Nat \ {0}
  PROVE  /\ \A x \in Int : SameMod(x, x, d)
         /\ \A x, y \in Int : SameMod(x, y, d) => SameMod(y, x, d)
         /\ \A x, y, z \in Int : SameMod(x, y, d) /\ SameMod(y, z, d) => SameMod(x, z, d)
         /\ \A x, y, z, w \in Int : SameMod(x, y, d) /\ SameMod(z, w, d) => SameMod(x + z, y + w, d)
         /\ \A x, y, z, w \in Int : SameMod(x, y, d) /\ SameMod(z, w, d) => SameMod(x - z, y - w, d)
         /\ \A x, y, c \in Int : SameMod(x, y, d) => SameMod(c * x, c * y, d)
         /\ \A x, y, z, w \in Int : SameMod(x, y, d) /\ SameMod(z, w, d) => SameMod(x * z, y * w, d)
<1>0. d \in Int
  OBVIOUS
<1>1. ASSUME NEW x \in Int PROVE SameMod(x, x, d)
  <2>1. x = x + d * 0
    OBVIOUS
  <2> QED  BY <2>1 DEF SameMod
<1>2. ASSUME NEW x \in Int, NEW y \in Int, SameMod(x, y, d) PROVE SameMod(y, x, d)
  <2>1. PICK k \in Int : x = y + d * k
    BY <1>2 DEF SameMod
  <2>2. PICK u \in Int : u = d * k
    BY <1>0
  <2>3. d * (-k) = -u /\ -k \in Int
    BY <1>0, <2>2
  <2>4. y = x + d * (-k)
    BY <2>1, <2>2, <2>3
  <2> QED  BY <2>3, <2>4 DEF SameMod
<1>3. ASSUME NEW x \in Int, NEW y \in Int, NEW z \in Int, NEW w \in Int, SameMod(x, y, d), SameMod(z, w, d)
      PROVE  /\ SameMod(x + z, y + w, d) /\ SameMod(x - z, y - w, d)
             /\ y = z => SameMod(x, w, d)
  <2>1. PICK k \in Int, l \in Int : x = y + d * k /\ z = w + d * l
    BY <1>3 DEF SameMod
  <2>2. PICK u \in Int, v \in Int : u = d * k /\ v = d * l
    BY <1>0
  <2>3. d * (k + l) = u + v /\ d * (k - l) = u - v /\ k + l \in Int /\ k - l \in Int
    BY <1>0, <2>2
  <2>4. /\ x + z = (y + w) + d * (k + l) /\ x - z = (y - w) + d * (k - l)
        /\ y = z => x = w + d * (k + l)
    BY <2>1, <2>2, <2>3
  <2> QED  BY <2>3, <2>4 DEF SameMod
<1>4. ASSUME NEW x \in Int, NEW y \in Int, NEW c \in Int, SameMod(x, y, d)
      PROVE  SameMod(c * x, c * y, d)
  <2>1. PICK k \in Int : x = y + d * k
    BY <1>4 DEF SameMod
  <2>2. PICK e \in Int : e = d
    BY <1>0
  <2>3. c * (y + e * k) = c * y + e * (c * k)
    OBVIOUS
  <2>4. c * x = c * y + d * (c * k) /\ c * k \in Int
    BY <2>1, <2>2, <2>3
  <2> QED  BY <2>4 DEF SameMod
<1>5. ASSUME NEW x \in Int, NEW y \in Int, NEW z \in Int, NEW w \in Int, SameMod(x, y, d), SameMod(z, w, d)
      PROVE  SameMod(x * z, y * w, d)
  <2>1. SameMod(z * x, z * y, d) /\ SameMod(y * z, y * w, d)
    BY <1>4, <1>5
  <2>2. z * x = x * z /\ z * y = y * z
    OBVIOUS
  <2>3. PICK f \in Int, g \in Int, h \in Int : f = x * z /\ g = y * z /\ h = y * w
    OBVIOUS
  <2>4. SameMod(f, g, d) /\ SameMod(g, h, d)
    BY <2>1, <2>2, <2>3
  <2> QED  BY <1>3, <2>3, <2>4
<1> QED  BY <1>1, <1>2, <1>3, <1>4, <1>5

\* Sums of congruent terms are congruent.
LEMMA SumSameMod ==
  ASSUME NEW d \in Nat \ {0}, NEW m \in Nat, NEW f \in Summands(m), NEW g \in Summands(m),
         \A n \in 0..m - 1 : SameMod(f[n], g[n], d)
  PROVE  SameMod(SumTo(f, m), SumTo(g, m), d)
<1> DEFINE T == {n \in 0..m : SameMod(SumTo(f, n), SumTo(g, n), d)}
<1>1. 0 \in T
  <2>1. SumTo(f, 0) = 0 /\ SumTo(g, 0) = 0
    BY SumFacts
  <2>2. 0 = 0 + d * 0 /\ 0 \in Int
    OBVIOUS
  <2>3. SameMod(0, 0, d)
    BY <2>2 DEF SameMod
  <2>4. SameMod(SumTo(f, 0), SumTo(g, 0), d)
    BY <2>1, <2>3
  <2>5. 0 \in 0..m
    OBVIOUS
  <2> QED  BY <2>4, <2>5
<1>2. ASSUME NEW n \in 0..m - 1, n \in T PROVE n + 1 \in T
  <2>1. n + 1 \in 0..m /\ n \in 0..m
    OBVIOUS
  <2>2. /\ SumTo(f, n + 1) = SumTo(f, n) + f[n] /\ SumTo(g, n + 1) = SumTo(g, n) + g[n]
        /\ SumTo(f, n) \in Int /\ SumTo(g, n) \in Int
    BY <2>1, SumFacts
  <2>3. PICK k \in Int : SumTo(f, n) = SumTo(g, n) + d * k
    BY <1>2 DEF SameMod
  <2>4. PICK l \in Int : f[n] = g[n] + d * l
    BY DEF SameMod
  <2>5. f[n] \in Int /\ g[n] \in Int
    BY DEF Summands
  <2>6. PICK x \in Int, y \in Int : x = d * k /\ y = d * l
    OBVIOUS
  <2>7. d * (k + l) = x + y /\ k + l \in Int
    BY <2>6
  <2>8. SumTo(f, n + 1) = SumTo(g, n + 1) + d * (k + l)
    BY <2>2, <2>3, <2>4, <2>5, <2>6, <2>7
  <2> QED  BY <2>1, <2>7, <2>8 DEF SameMod
<1>3. 0..m \subseteq T
  <2> HIDE DEF T
  <2> QED  BY <1>1, <1>2, UpTo
<1> QED  BY <1>3
=============================================================================
