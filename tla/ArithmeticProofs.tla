-------------------------- MODULE ArithmeticProofs --------------------------
(***************************************************************************)
(* Theorems about the arithmetic of the code, for every width of a word    *)
(* and every length: the big-endian numbers of drng.c (BigNumber), whose   *)
(* definitions are named Number..., and the product of poly.c (Toom4).     *)
(*                                                                         *)
(* For the product, coefficients over the integers are compared with words *)
(* modulo W.  Karatsuba is exact, so the seven words that an iteration     *)
(* interpolates are those of the product of the polynomials in the point;  *)
(* the interpolation gives its coefficients up to a multiple of W / 8; and *)
(* the loop adds each of them to the word of r it belongs to.              *)
(***************************************************************************)
EXTENDS BigNumber, Toom4, NumberLemmas, TLAPS

\* Four digits and a carry of at most 3 split into a digit and a carry of at most 3.
LEMMA SplitSum ==
  ASSUME NEW sum \in Nat, sum <= 4 * (BYTE - 1) + 3
  PROVE  /\ CarryOf(sum) \in 0..3 /\ sum % BYTE \in 0..BYTE - 1
         /\ sum = CarryOf(sum) * BYTE + (sum % BYTE)
<1> DEFINE q == sum \div BYTE
           t == sum % BYTE
<1>1. q \in Int /\ t \in 0..BYTE - 1 /\ sum = BYTE * q + t
  BY SizesAssumption
<1>2. q \in 0..3
  <2>1. ASSUME q >= 4 PROVE FALSE
    <3>1. BYTE * q >= BYTE * 4
      BY <1>1, <2>1, SizesAssumption
    <3> QED  BY <1>1, <3>1, SizesAssumption
  <2>2. ASSUME q <= -1 PROVE FALSE
    <3>1. BYTE * q <= BYTE * (-1)
      BY <1>1, <2>2, SizesAssumption
    <3> QED  BY <1>1, <3>1, SizesAssumption
  <2> QED  BY <1>1, <2>1, <2>2
<1>3. CarryOf(sum) = q /\ sum % BYTE = t
  BY DEF CarryOf
<1>4. sum = q * BYTE + t
  BY <1>1, SizesAssumption
<1> HIDE DEF q, t
<1>5. sum = CarryOf(sum) * BYTE + (sum % BYTE)
  BY <1>3, <1>4
<1>6. CarryOf(sum) \in 0..3 /\ sum % BYTE \in 0..BYTE - 1
  BY <1>1, <1>2, <1>3
<1> QED  BY <1>5, <1>6

\* The sum of d and the carry c is the digit r and the carry q.
Splits(d, c, q, t) == d + c = q * BYTE + t

\* ... and the same at the weight p.
SplitsAt(p, d, c, q, t) == p * d + c * p = q * (p * BYTE) + p * t

\* Multiplying a split sum by the weight p of its digit.
LEMMA WeightedSplit ==
  ASSUME NEW p \in Nat, NEW c \in Nat, NEW d \in Nat, NEW q \in Nat, NEW t \in Nat,
         Splits(d, c, q, t)
  PROVE  SplitsAt(p, d, c, q, t)
<1>1. p * (d + c) = p * (q * BYTE + t)
  BY DEF Splits
<1>2. p * (d + c) = p * d + c * p
  OBVIOUS
<1>3. p * (q * BYTE + t) = q * (p * BYTE) + p * t
  BY SizesAssumption
<1> QED  BY <1>1, <1>2, <1>3 DEF SplitsAt

----------------------------------------------------------------------------
(* The recursive functions Power and Low.                                  *)

\* The weights are powers of the radix.
LEMMA PowerFacts ==
  /\ Power \in [0..LEN -> Nat \ {0}] /\ Power[0] = 1
  /\ \A n \in 1..LEN : Power[n] = Power[n - 1] * BYTE
<1> DEFINE step == [n \in 1..LEN |-> [v \in Nat \ {0} |-> v * BYTE]]
           Is(f) == f = [n \in 0..LEN |-> IF n = 0 THEN 1 ELSE f[n - 1] * BYTE]
<1>1. step \in [1..LEN -> [Nat \ {0} -> Nat \ {0}]]
  <2>1. ASSUME NEW v \in Nat \ {0} PROVE v * BYTE \in Nat \ {0}
    BY SizesAssumption
  <2> QED  BY <2>1
<1>2. PICK f \in [0..LEN -> Nat \ {0}] : f[0] = 1 /\ \A n \in 1..LEN : f[n] = step[n][f[n - 1]]
  <2> HIDE DEF step
  <2>1. Steps(LEN, Nat \ {0}, 1, step)
    BY <1>1, SizesAssumption DEF Steps
  <2>2. \E f \in [0..LEN -> Nat \ {0}] : Iterates(f, LEN, 1, step)
    BY <2>1, Recursion, Zenon
  <2> QED  BY <2>2 DEF Iterates
<1>3. ASSUME NEW n \in 1..LEN PROVE n - 1 \in 0..LEN /\ step[n][f[n - 1]] = f[n - 1] * BYTE
  <2>1. n - 1 \in 0..LEN
    BY SizesAssumption
  <2>2. f[n - 1] \in Nat \ {0}
    BY <2>1
  <2> QED  BY <2>1, <2>2
<1>4. Is(f)
  <2>1. ASSUME NEW n \in 0..LEN
        PROVE  f[n] = IF n = 0 THEN 1 ELSE f[n - 1] * BYTE
    <3> HIDE DEF step
    <3>1. n = 0 \/ n \in 1..LEN
      BY SizesAssumption
    <3> QED  BY <1>2, <1>3, <3>1
  <2>2. f = [n \in 0..LEN |-> f[n]]
    OBVIOUS
  <2> QED  BY <2>1, <2>2
<1>5. Power = CHOOSE g : Is(g)
  BY DEF Power
<1>6. Is(Power)
  <2> HIDE DEF Is
  <2> QED  BY <1>4, <1>5
<1>7. /\ Power = [n \in 0..LEN |-> Power[n]] /\ Power[0] = 1
      /\ \A n \in 1..LEN : Power[n] = Power[n - 1] * BYTE
  <2>1. \A n \in 0..LEN : Power[n] = IF n = 0 THEN 1 ELSE Power[n - 1] * BYTE
    BY <1>6
  <2>2. 0 \in 0..LEN /\ \A n \in 1..LEN : n \in 0..LEN /\ n # 0
    BY SizesAssumption
  <2>3. Power = [n \in 0..LEN |-> Power[n]]
    BY <1>6
  <2> QED  BY <2>1, <2>2, <2>3
<1>8. \A n \in 0..LEN : Power[n] \in Nat \ {0}
  <2> DEFINE T == {n \in 0..LEN : Power[n] \in Nat \ {0}}
  <2>1. 0 \in T
    BY <1>7, SizesAssumption
  <2>2. ASSUME NEW n \in 0..LEN - 1, n \in T PROVE n + 1 \in T
    <3>1. n + 1 \in 1..LEN /\ (n + 1) - 1 = n
      BY SizesAssumption
    <3>2. Power[n + 1] = Power[n] * BYTE
      BY <1>7, <3>1
    <3>3. PICK p \in Nat \ {0} : p = Power[n]
      BY <2>2
    <3>4. p * BYTE \in Nat \ {0}
      BY SizesAssumption
    <3> QED  BY <3>1, <3>2, <3>3, <3>4, SizesAssumption
  <2>3. LEN \in Nat
    BY SizesAssumption
  <2> HIDE DEF T
  <2>4. 0..LEN \subseteq T
    BY <2>1, <2>2, <2>3, UpTo
  <2> QED  BY <2>4 DEF T
<1> QED  BY <1>7, <1>8

\* The last n bytes of a number, by recursion over n.
LEMMA LowFacts ==
  ASSUME NEW bn \in Number
  PROVE  /\ Low(bn) \in [0..LEN -> Nat] /\ Low(bn)[0] = 0
         /\ \A n \in 1..LEN : Low(bn)[n] = Low(bn)[n - 1] + bn[LEN - n + 1] * Power[n - 1]
<1> DEFINE term(n) == bn[LEN - n + 1] * Power[n - 1]
           step == [n \in 1..LEN |-> [v \in Nat |-> v + term(n)]]
           Is(f) == f = [n \in 0..LEN |-> IF n = 0 THEN 0 ELSE f[n - 1] + term(n)]
<1>1. ASSUME NEW n \in 1..LEN
      PROVE  term(n) \in Nat /\ n - 1 \in 0..LEN /\ n \in 0..LEN /\ n # 0
  <2>1. n - 1 \in 0..LEN /\ LEN - n + 1 \in 1..LEN /\ n \in 0..LEN /\ n # 0
    BY SizesAssumption
  <2>2. PICK x \in Nat, p \in Nat : x = bn[LEN - n + 1] /\ p = Power[n - 1]
    BY <2>1, PowerFacts DEF Number
  <2>3. x * p \in Nat
    OBVIOUS
  <2> QED  BY <2>1, <2>2, <2>3
<1>2. Low(bn) = CHOOSE f : Is(f)
  BY DEF Low
<1> HIDE DEF term
<1>3. step \in [1..LEN -> [Nat -> Nat]]
  BY <1>1
<1>4. PICK f \in [0..LEN -> Nat] : f[0] = 0 /\ \A n \in 1..LEN : f[n] = step[n][f[n - 1]]
  <2> HIDE DEF step
  <2>1. Steps(LEN, Nat, 0, step)
    BY <1>3, SizesAssumption DEF Steps
  <2>2. \E f \in [0..LEN -> Nat] : Iterates(f, LEN, 0, step)
    BY <2>1, Recursion, Zenon
  <2> QED  BY <2>2 DEF Iterates
<1>5. ASSUME NEW n \in 1..LEN PROVE step[n][f[n - 1]] = f[n - 1] + term(n)
  BY <1>1
<1>6. Is(f)
  <2>1. ASSUME NEW n \in 0..LEN
        PROVE  f[n] = IF n = 0 THEN 0 ELSE f[n - 1] + term(n)
    <3> HIDE DEF step
    <3>1. n = 0 \/ n \in 1..LEN
      BY SizesAssumption
    <3> QED  BY <1>4, <1>5, <3>1
  <2>2. f = [n \in 0..LEN |-> f[n]]
    OBVIOUS
  <2> QED  BY <2>1, <2>2
<1>7. Is(Low(bn))
  <2> HIDE DEF Is
  <2> QED  BY <1>2, <1>6
<1>8. /\ Low(bn) = [n \in 0..LEN |-> Low(bn)[n]] /\ Low(bn)[0] = 0
      /\ \A n \in 1..LEN : Low(bn)[n] = Low(bn)[n - 1] + term(n)
  <2> DEFINE g == Low(bn)
  <2>0. g = [n \in 0..LEN |-> IF n = 0 THEN 0 ELSE g[n - 1] + term(n)]
    BY <1>7
  <2> HIDE DEF g
  <2>1. \A n \in 0..LEN : g[n] = IF n = 0 THEN 0 ELSE g[n - 1] + term(n)
    BY <2>0
  <2>2. 0 \in 0..LEN
    BY SizesAssumption
  <2>3. g = [n \in 0..LEN |-> g[n]]
    BY <2>0
  <2>4. g = [n \in 0..LEN |-> g[n]] /\ g[0] = 0 /\ \A n \in 1..LEN : g[n] = g[n - 1] + term(n)
    BY <1>1, <2>1, <2>2, <2>3
  <2> QED  BY <2>4 DEF g
<1>9. \A n \in 0..LEN : Low(bn)[n] \in Nat
  <2> DEFINE T == {n \in 0..LEN : Low(bn)[n] \in Nat}
  <2>1. 0 \in T
    BY <1>8, SizesAssumption
  <2>2. ASSUME NEW n \in 0..LEN - 1, n \in T PROVE n + 1 \in T
    <3>1. n + 1 \in 1..LEN /\ (n + 1) - 1 = n
      BY SizesAssumption
    <3>2. Low(bn)[n + 1] = Low(bn)[n] + term(n + 1)
      BY <1>8, <3>1
    <3> QED  BY <1>1, <2>2, <3>1, <3>2
  <2>3. LEN \in Nat
    BY SizesAssumption
  <2> HIDE DEF T
  <2>4. 0..LEN \subseteq T
    BY <2>1, <2>2, <2>3, UpTo
  <2> QED  BY <2>4 DEF T
<1>10. Low(bn) \in [0..LEN -> Nat]
  BY <1>8, <1>9
<1> QED  BY <1>8, <1>10 DEF term

\* One digit further: its index, its weight, and the number with it.
LEMMA OneMore ==
  ASSUME NEW bn \in Number, NEW n \in 0..LEN - 1
  PROVE  /\ n + 1 \in 1..LEN /\ LEN - n \in 1..LEN
         /\ bn[LEN - n] \in 0..BYTE - 1
         /\ Power[n] \in Nat \ {0} /\ Power[n + 1] = Power[n] * BYTE
         /\ Low(bn)[n] \in Nat /\ Low(bn)[n + 1] \in Nat
         /\ Low(bn)[n + 1] = Low(bn)[n] + bn[LEN - n] * Power[n]
<1>1. /\ n + 1 \in 1..LEN /\ n \in 0..LEN /\ n + 1 \in 0..LEN /\ (n + 1) - 1 = n
      /\ LEN - n \in 1..LEN /\ LEN - (n + 1) + 1 = LEN - n
  BY SizesAssumption
<1>2. Power[n] \in Nat \ {0} /\ Power[n + 1] = Power[(n + 1) - 1] * BYTE
  BY <1>1, PowerFacts
<1>3. /\ Low(bn)[n] \in Nat /\ Low(bn)[n + 1] \in Nat
      /\ Low(bn)[n + 1] = Low(bn)[(n + 1) - 1] + bn[LEN - (n + 1) + 1] * Power[(n + 1) - 1]
  BY <1>1, LowFacts
<1>4. bn[LEN - n] \in 0..BYTE - 1
  BY <1>1 DEF Number
<1> QED  BY <1>1, <1>2, <1>3, <1>4

\* The last n bytes are a number below Power[n].
LEMMA LowBound ==
  ASSUME NEW bn \in Number, NEW m \in 0..LEN
  PROVE  Low(bn)[m] \in 0..Power[m] - 1
<1> DEFINE T == {n \in 0..LEN : Low(bn)[n] \in 0..Power[n] - 1}
<1>1. 0 \in T
  BY LowFacts, PowerFacts, SizesAssumption
<1>2. ASSUME NEW n \in 0..LEN - 1, n \in T PROVE n + 1 \in T
  <2>1. PICK x \in 0..BYTE - 1, p \in Nat \ {0}, u \in Nat :
          x = bn[LEN - n] /\ p = Power[n] /\ u = Low(bn)[n]
    BY OneMore
  <2>2. u + x * p < p * BYTE /\ u + x * p \in Nat /\ p * BYTE \in Nat
    <3>1. u <= p - 1
      BY <1>2, <2>1
    <3>2. x * p <= (BYTE - 1) * p /\ x * p \in Nat
      BY SizesAssumption
    <3>3. (BYTE - 1) * p = p * BYTE - p /\ p * BYTE \in Nat
      BY SizesAssumption
    <3> QED  BY <3>1, <3>2, <3>3
  <2>3. Low(bn)[n + 1] = u + x * p /\ Power[n + 1] = p * BYTE /\ n + 1 \in 0..LEN
    BY <2>1, OneMore, SizesAssumption
  <2> QED  BY <2>2, <2>3
<1>3. 0..LEN \subseteq T
  <2>1. LEN \in Nat
    BY SizesAssumption
  <2> HIDE DEF T
  <2> QED  BY <1>1, <1>2, <2>1, UpTo
<1> QED  BY <1>3

\* Numbers with the same last m bytes.
LEMMA SameTail ==
  ASSUME NEW y \in Number, NEW z \in Number, NEW m \in 0..LEN,
         \A k \in LEN - m + 1..LEN : y[k] = z[k]
  PROVE  Low(y)[m] = Low(z)[m]
<1> DEFINE T == {n \in 0..m : Low(y)[n] = Low(z)[n]}
<1>0. m \in Nat
  BY SizesAssumption
<1>1. 0 \in T
  BY <1>0, LowFacts
<1>2. ASSUME NEW n \in 0..m - 1, n \in T PROVE n + 1 \in T
  <2>1. n \in 0..LEN - 1 /\ n + 1 \in 0..m /\ LEN - n \in LEN - m + 1..LEN
    BY <1>0, SizesAssumption
  <2>2. y[LEN - n] = z[LEN - n] /\ Low(y)[n] = Low(z)[n]
    BY <1>2, <2>1
  <2>3. /\ Low(y)[n + 1] = Low(y)[n] + y[LEN - n] * Power[n]
        /\ Low(z)[n + 1] = Low(z)[n] + z[LEN - n] * Power[n]
    BY <2>1, OneMore
  <2> QED  BY <2>1, <2>2, <2>3
<1>3. 0..m \subseteq T
  <2> HIDE DEF T
  <2> QED  BY <1>0, <1>1, <1>2, UpTo
<1> QED  BY <1>0, <1>3

\* Numbers with the same bytes before the last m.
LEMMA SameHead ==
  ASSUME NEW y \in Number, NEW z \in Number, NEW m \in 0..LEN,
         \A k \in 1..LEN - m : y[k] = z[k]
  PROVE  Value(y) - Low(y)[m] = Value(z) - Low(z)[m]
<1> DEFINE T == {n \in 0..LEN - m : Low(y)[m + n] - Low(y)[m] = Low(z)[m + n] - Low(z)[m]}
<1>0. m \in Nat /\ LEN - m \in Nat /\ m + (LEN - m) = LEN
  BY SizesAssumption
<1>1. 0 \in T
  <2>1. Low(y)[m] \in Nat /\ Low(z)[m] \in Nat
    BY LowFacts
  <2> QED  BY <1>0, <2>1
<1>2. ASSUME NEW n \in 0..LEN - m - 1, n \in T PROVE n + 1 \in T
  <2> DEFINE k == m + n
  <2>1. k \in 0..LEN - 1 /\ n + 1 \in 0..LEN - m /\ LEN - k \in 1..LEN - m /\ m + (n + 1) = k + 1
    BY <1>0
  <2>2. y[LEN - k] = z[LEN - k] /\ Low(y)[k] - Low(y)[m] = Low(z)[k] - Low(z)[m]
    BY <1>2, <2>1
  <2> HIDE DEF k
  <2>3. PICK x \in Nat : x = y[LEN - k] * Power[k]
    <3>1. PICK d \in Nat, p \in Nat : d = y[LEN - k] /\ p = Power[k]
      BY <2>1, OneMore
    <3>2. d * p \in Nat
      OBVIOUS
    <3> QED  BY <3>1, <3>2
  <2>4. Low(y)[k + 1] = Low(y)[k] + x /\ Low(z)[k + 1] = Low(z)[k] + x
    BY <2>1, <2>2, <2>3, OneMore
  <2>5. Low(y)[k] \in Nat /\ Low(z)[k] \in Nat /\ Low(y)[m] \in Nat /\ Low(z)[m] \in Nat
    <3>1. k \in 0..LEN
      BY <2>1, SizesAssumption
    <3> QED  BY <3>1, LowFacts
  <2>6. Low(y)[k + 1] - Low(y)[m] = Low(z)[k + 1] - Low(z)[m]
    BY <2>2, <2>4, <2>5
  <2> QED  BY <2>1, <2>6
<1>3. 0..LEN - m \subseteq T
  <2> HIDE DEF T
  <2> QED  BY <1>0, <1>1, <1>2, UpTo
<1>4. Low(y)[LEN] - Low(y)[m] = Low(z)[LEN] - Low(z)[m]
  BY <1>0, <1>3
<1> QED  BY <1>4 DEF Value

----------------------------------------------------------------------------
(* The loops.                                                              *)

\* What the accounting needs beside itself: the bytes before the loop are still
\* those of the call, an incrementing loop that runs holds a one, and a loop ends
\* at the first byte or, incrementing, when it holds nothing.
LoopInv ==
  /\ \A k \in 1..len : BN1[k] = operand[k]
  /\ op = "inc" /\ running => carry = 1
  /\ ~running => len = 0 \/ (op = "inc" /\ carry = 0)

BigInv == NumberTypeOK /\ Accounting /\ LoopInv

\* One digit is passed: digits d were added there, r is written, q is carried.
LEMMA PassDigit ==
  ASSUME BigInv, NEW d \in Nat, NEW t \in 0..BYTE - 1, len \in 1..LEN,
         d = IF op = "inc" THEN operand[len]
                           ELSE operand[len] + BN2[len] + BN3[len] + BN4[len],
         carry' \in 0..3, Splits(d, carry, carry', t),
         BN1' = [BN1 EXCEPT ![len] = t], len' = len - 1,
         UNCHANGED <<op, BN2, BN3, BN4, operand>>
  PROVE  Accounting' /\ BN1' \in Number /\ \A k \in 1..len' : BN1'[k] = operand'[k]
<1>0. /\ operand \in Number /\ BN1 \in Number /\ BN2 \in Number /\ BN3 \in Number /\ BN4 \in Number
      /\ carry \in Nat /\ carry' \in Nat /\ LEN \in Nat
  BY SizesAssumption DEF BigInv, NumberTypeOK
<1>1. PICK n \in 0..LEN - 1 : n = LEN - len /\ LEN - n = len /\ LEN - len' = n + 1
  BY <1>0
<1>2. /\ BN1' \in Number /\ BN1'[len] = t
      /\ \A k \in 1..LEN : k # len => BN1'[k] = BN1[k]
  BY <1>0 DEF Number
<1>3. Low(BN1')[n] = Low(BN1)[n]
  <2>1. \A k \in LEN - n + 1..LEN : k \in 1..LEN /\ k # len
    BY <1>1
  <2>2. n \in 0..LEN
    BY <1>0, <1>1
  <2>3. \A k \in LEN - n + 1..LEN : BN1'[k] = BN1[k]
    BY <1>2, <2>1
  <2> QED  BY <1>0, <1>2, <2>2, <2>3, SameTail
<1>4. PICK p \in Nat : p = Power[n] /\ Power[n + 1] = p * BYTE
  BY <1>0, OneMore
<1>5. Low(BN1')[n + 1] = Low(BN1)[n] + t * p /\ Low(BN1)[n] \in Nat
  <2>1. /\ Low(BN1')[n + 1] = Low(BN1')[n] + BN1'[LEN - n] * Power[n]
        /\ Low(BN1')[n] \in Nat
    BY <1>2, OneMore
  <2>2. BN1'[LEN - n] = t
    BY <1>1, <1>2
  <2> QED  BY <1>3, <1>4, <2>1, <2>2
<1>6. Added(n + 1)' = Added(n) + p * d /\ Added(n) \in Int
  <2>1. /\ Low(operand)[n + 1] = Low(operand)[n] + operand[len] * p
        /\ Low(BN2)[n + 1] = Low(BN2)[n] + BN2[len] * p
        /\ Low(BN3)[n + 1] = Low(BN3)[n] + BN3[len] * p
        /\ Low(BN4)[n + 1] = Low(BN4)[n] + BN4[len] * p
        /\ Low(operand)[n] \in Nat /\ Low(BN2)[n] \in Nat /\ Low(BN3)[n] \in Nat
        /\ Low(BN4)[n] \in Nat
    BY <1>0, <1>1, <1>4, OneMore
  <2>2. /\ operand[len] \in Nat /\ BN2[len] \in Nat /\ BN3[len] \in Nat /\ BN4[len] \in Nat
    <3>1. \A x \in 0..BYTE - 1 : x \in Nat
      BY SizesAssumption
    <3> QED  BY <1>0, <1>1, <3>1, OneMore
  <2>3. Added(n + 1)' = IF op = "inc" THEN Low(operand)[n + 1] + 1
          ELSE Low(operand)[n + 1] + Low(BN2)[n + 1] + Low(BN3)[n + 1] + Low(BN4)[n + 1]
    BY DEF Added
  <2>4. CASE op = "inc"
    BY <2>1, <2>2, <2>3, <2>4 DEF Added
  <2>5. CASE op # "inc"
    <3>1. PICK x0 \in Nat, x2 \in Nat, x3 \in Nat, x4 \in Nat :
            x0 = operand[len] /\ x2 = BN2[len] /\ x3 = BN3[len] /\ x4 = BN4[len]
      BY <2>2
    <3>2. p * (x0 + x2 + x3 + x4) = x0 * p + x2 * p + x3 * p + x4 * p
      OBVIOUS
    <3>3. PICK y0 \in Nat, y2 \in Nat, y3 \in Nat, y4 \in Nat :
            y0 = x0 * p /\ y2 = x2 * p /\ y3 = x3 * p /\ y4 = x4 * p
      OBVIOUS
    <3>4. p * d = y0 + y2 + y3 + y4
      BY <2>5, <3>1, <3>2, <3>3
    <3>5. /\ Low(operand)[n + 1] = Low(operand)[n] + y0
          /\ Low(BN2)[n + 1] = Low(BN2)[n] + y2
          /\ Low(BN3)[n + 1] = Low(BN3)[n] + y3
          /\ Low(BN4)[n + 1] = Low(BN4)[n] + y4
      BY <2>1, <3>1, <3>3
    <3>6. /\ Added(n) = Low(operand)[n] + Low(BN2)[n] + Low(BN3)[n] + Low(BN4)[n]
          /\ Added(n + 1)' = Low(operand)[n + 1] + Low(BN2)[n + 1] + Low(BN3)[n + 1]
                               + Low(BN4)[n + 1]
      BY <2>3, <2>5 DEF Added
    <3> QED  BY <2>1, <3>3, <3>4, <3>5, <3>6
  <2> QED  BY <2>4, <2>5
<1>7. PICK c \in Nat, q \in Nat : c = carry /\ q = carry' /\ Splits(d, c, q, t)
  BY <1>0
<1>8. PICK pd \in Nat, pr \in Nat, cp \in Nat, qp \in Nat :
        pd = p * d /\ pr = p * t /\ pr = t * p /\ cp = c * p /\ qp = q * (p * BYTE)
  BY SizesAssumption
<1>9. pd + cp = qp + pr
  <2>1. t \in Nat /\ p \in Nat /\ c \in Nat /\ d \in Nat /\ q \in Nat /\ Splits(d, c, q, t)
    BY <1>4, <1>7, SizesAssumption
  <2>2. SplitsAt(p, d, c, q, t)
    BY <2>1, WeightedSplit, Zenon
  <2> QED  BY <1>8, <2>2 DEF SplitsAt
<1>10. Added(n) = Low(BN1)[n] + cp
  BY <1>1, <1>4, <1>7, <1>8 DEF BigInv, Accounting
<1>11. Added(n + 1)' = Low(BN1')[n + 1] + qp
  BY <1>5, <1>6, <1>8, <1>9, <1>10
<1>12. Accounting'
  <2>1. Accounting' <=> Added(n + 1)' = Low(BN1')[n + 1] + carry' * Power[n + 1]
    BY <1>1 DEF Accounting, Added
  <2> QED  BY <1>4, <1>7, <1>8, <1>11, <2>1
<1>13. \A k \in 1..len' : BN1'[k] = operand'[k]
  <2>1. \A k \in 1..len' : k \in 1..len /\ k \in 1..LEN /\ k # len
    BY <1>0
  <2> QED  BY <1>2, <2>1 DEF BigInv, LoopInv
<1> QED  BY <1>2, <1>12, <1>13

\* The loops keep the invariant.
LEMMA BigInvHolds == NumberSpec => []BigInv
<1> USE SizesAssumption
<1>1. NumberInit => BigInv
  <2> SUFFICES ASSUME NumberInit PROVE BigInv
    OBVIOUS
  <2>1. /\ BN1 \in Number /\ BN2 \in Number /\ BN3 \in Number /\ BN4 \in Number
        /\ op \in {"inc", "plus"} /\ operand = BN1 /\ len = LEN /\ running = TRUE
        /\ carry = IF op = "inc" THEN 1 ELSE 0
    BY DEF NumberInit
  <2>2. NumberTypeOK /\ LoopInv
    BY <2>1 DEF NumberTypeOK, LoopInv
  <2>3. Accounting
    <3>1. LEN - len = 0 /\ 0 \in 0..LEN
      BY <2>1
    <3>2. /\ Low(BN1)[0] = 0 /\ Low(BN2)[0] = 0 /\ Low(BN3)[0] = 0 /\ Low(BN4)[0] = 0
          /\ Power[0] = 1
      BY <2>1, LowFacts, PowerFacts
    <3> QED  BY <2>1, <3>1, <3>2 DEF Accounting, Added
  <2> QED  BY <2>2, <2>3 DEF BigInv
<1>2. BigInv /\ [NumberNext]_numberVars => BigInv'
  <2> SUFFICES ASSUME BigInv, [NumberNext]_numberVars PROVE BigInv'
    OBVIOUS
  <2>0. NumberTypeOK /\ Accounting /\ LoopInv
    BY DEF BigInv
  <2>1. CASE inc_Big_Number
    <3> DEFINE d == BN1[len]
               t == (d + 1) % BYTE
    <3>1. len \in 1..LEN /\ d \in 0..BYTE - 1 /\ operand[len] = d
      BY <2>0, <2>1 DEF inc_Big_Number, NumberTypeOK, Number, LoopInv
    <3>2. BN1' = [BN1 EXCEPT ![len] = t] /\ BN1'[len] = t
      BY <2>0, <2>1, <3>1 DEF inc_Big_Number, NumberTypeOK, Number
    <3>3. t \in 0..BYTE - 1 /\ d + 1 = (IF t # 0 THEN 0 ELSE 1) * BYTE + t
      <4>1. CarryOf(d + 1) \in 0..3 /\ t \in 0..BYTE - 1 /\ d + 1 = CarryOf(d + 1) * BYTE + t
        BY <3>1, SplitSum
      <4> HIDE DEF t
      <4>2. CASE CarryOf(d + 1) = 0
        BY <3>1, <4>1, <4>2
      <4>3. CASE CarryOf(d + 1) = 1
        BY <3>1, <4>1, <4>3
      <4>4. CASE CarryOf(d + 1) \in 2..3
        BY <3>1, <4>1, <4>4
      <4> QED  BY <4>1, <4>2, <4>3, <4>4
    <3>4. /\ carry' = (IF t # 0 THEN 0 ELSE 1) /\ running' = (t = 0) /\ carry = 1
          /\ op = "inc" /\ len' = len - 1 /\ UNCHANGED <<op, BN2, BN3, BN4, operand>>
      BY <2>0, <2>1, <3>2 DEF inc_Big_Number, LoopInv
    <3> HIDE DEF d, t
    <3>5. carry' \in 0..1 /\ (t = 0 <=> carry' = 1)
      BY <3>4
    <3>6. running' \in BOOLEAN /\ (running' <=> carry' = 1)
      <4>1. running' \in BOOLEAN /\ (running' <=> t = 0)
        BY <3>4, Zenon
      <4> QED  BY <3>5, <4>1, Zenon
    <3>7. Accounting' /\ BN1' \in Number /\ \A k \in 1..len' : BN1'[k] = operand'[k]
      <4>1. Splits(d, carry, carry', t) /\ carry' \in 0..3
        BY <3>3, <3>4, <3>5 DEF Splits
      <4>2. d \in Nat /\ d = IF op = "inc" THEN operand[len]
                                           ELSE operand[len] + BN2[len] + BN3[len] + BN4[len]
        BY <3>1, <3>4
      <4> QED  BY <3>1, <3>2, <3>3, <3>4, <4>1, <4>2, PassDigit
    <3>8. len' \in 0..LEN /\ carry' \in 0..3
      BY <3>1, <3>4, <3>5
    <3>9. NumberTypeOK'
      BY <2>0, <3>4, <3>6, <3>7, <3>8 DEF NumberTypeOK
    <3>10. LoopInv'
      BY <3>4, <3>5, <3>6, <3>7 DEF LoopInv
    <3> QED  BY <3>7, <3>9, <3>10 DEF BigInv
  <2>2. CASE plus_Big_Number
    <3> DEFINE d == BN1[len] + BN2[len] + BN3[len] + BN4[len]
               t == (d + carry) % BYTE
    <3>1. /\ len \in 1..LEN /\ BN1[len] \in 0..BYTE - 1 /\ BN2[len] \in 0..BYTE - 1
          /\ BN3[len] \in 0..BYTE - 1 /\ BN4[len] \in 0..BYTE - 1 /\ carry \in 0..3
          /\ operand[len] = BN1[len]
      BY <2>0, <2>2 DEF plus_Big_Number, NumberTypeOK, Number, LoopInv
    <3>2. d \in Nat /\ d + carry \in Nat /\ d + carry <= 4 * (BYTE - 1) + 3
      BY <3>1
    <3>3. /\ carry' = CarryOf(d + carry) /\ BN1' = [BN1 EXCEPT ![len] = t] /\ len' = len - 1
          /\ op = "plus" /\ running /\ UNCHANGED <<op, BN2, BN3, BN4, running, operand>>
      BY <2>2 DEF plus_Big_Number
    <3>4. d = IF op = "inc" THEN operand[len]
                            ELSE operand[len] + BN2[len] + BN3[len] + BN4[len]
      BY <3>1, <3>3
    <3>5. /\ carry' \in 0..3 /\ t \in 0..BYTE - 1 /\ Splits(d, carry, carry', t)
      <4>1. t = (d + carry) % BYTE
        OBVIOUS
      <4> HIDE DEF d, t
      <4> QED  BY <3>2, <3>3, <4>1, SplitSum DEF Splits
    <3> HIDE DEF d, t
    <3>6. Accounting' /\ BN1' \in Number /\ \A k \in 1..len' : BN1'[k] = operand'[k]
      BY <3>1, <3>2, <3>3, <3>4, <3>5, PassDigit
    <3>7. len' \in 0..LEN
      BY <3>1, <3>3
    <3>8. NumberTypeOK'
      BY <2>0, <3>3, <3>5, <3>6, <3>7 DEF NumberTypeOK
    <3>9. LoopInv'
      BY <3>3, <3>6 DEF LoopInv
    <3> QED  BY <3>6, <3>8, <3>9 DEF BigInv
  <2>3. CASE return
    <3>1. NumberTypeOK' /\ LoopInv'
      BY <2>0, <2>3 DEF return, NumberTypeOK, LoopInv
    <3>2. Accounting'
      BY <2>0, <2>3 DEF return, Accounting, Added
    <3> QED  BY <3>1, <3>2 DEF BigInv
  <2>4. CASE UNCHANGED numberVars
    <3>1. NumberTypeOK' /\ LoopInv'
      BY <2>0, <2>4 DEF numberVars, NumberTypeOK, LoopInv
    <3>2. Accounting'
      BY <2>0, <2>4 DEF numberVars, Accounting, Added
    <3> QED  BY <3>1, <3>2 DEF BigInv
  <2> QED  BY <2>1, <2>2, <2>3, <2>4 DEF NumberNext
<1> QED  BY <1>1, <1>2, PTL DEF NumberSpec

\* When a loop has returned, what was added is the result and a multiple of the modulus.
LEMMA WholeSum ==
  ASSUME BigInv, ~running
  PROVE  \E c \in Nat : Added(LEN) = Value(BN1) + Modulus * c
<1>1. /\ operand \in Number /\ BN1 \in Number /\ BN2 \in Number /\ BN3 \in Number
      /\ BN4 \in Number /\ len \in 0..LEN /\ carry \in Nat /\ LEN \in Nat
  BY SizesAssumption DEF BigInv, NumberTypeOK
<1>2. CASE len = 0
  <2>1. Added(LEN) = Value(BN1) + carry * Modulus
    BY <1>1, <1>2 DEF BigInv, Accounting, Value, Modulus
  <2>2. Modulus \in Nat
    BY <1>1, PowerFacts DEF Modulus
  <2>3. carry * Modulus = Modulus * carry
    BY <1>1, <2>2
  <2> QED  BY <1>1, <2>1, <2>3
<1>3. CASE len # 0
  <2>1. op = "inc" /\ carry = 0
    BY <1>3 DEF BigInv, LoopInv
  <2>2. PICK n \in 0..LEN : n = LEN - len /\ LEN - n = len
    BY <1>1
  <2>3. Value(BN1) - Low(BN1)[n] = Value(operand) - Low(operand)[n]
    <3>1. \A k \in 1..LEN - n : BN1[k] = operand[k]
      BY <2>2 DEF BigInv, LoopInv
    <3> QED  BY <1>1, <3>1, SameHead
  <2>4. Low(operand)[n] + 1 = Low(BN1)[n] + 0 * Power[n] /\ Power[n] \in Nat
    BY <1>1, <2>1, <2>2, PowerFacts DEF BigInv, Accounting, Added
  <2>5. /\ Low(operand)[n] \in Nat /\ Low(BN1)[n] \in Nat
        /\ Value(operand) \in Nat /\ Value(BN1) \in Nat
    BY <1>1, LowFacts DEF Value
  <2>6. Value(operand) + 1 = Value(BN1)
    BY <2>3, <2>4, <2>5
  <2>7. Added(LEN) = Value(BN1)
    BY <2>1, <2>6 DEF Added, Value
  <2>8. Modulus * 0 = 0
    BY <1>1, PowerFacts DEF Modulus
  <2> QED  BY <2>5, <2>7, <2>8
<1> QED  BY <1>2, <1>3

\* ... so the result is the sum modulo the modulus.
LEMMA WholeRemainder ==
  ASSUME BigInv, ~running
  PROVE  Value(BN1) = Added(LEN) % Modulus
<1>1. Modulus \in Nat \ {0} /\ Value(BN1) \in 0..Modulus - 1
  BY SizesAssumption, PowerFacts, LowBound DEF BigInv, NumberTypeOK, Modulus, Value
<1>2. PICK c \in Nat : Added(LEN) = Value(BN1) + Modulus * c
  BY WholeSum
<1>3. (Value(BN1) + Modulus * c) % Modulus = Value(BN1)
  <2>1. c \in Int
    OBVIOUS
  <2> QED  BY <1>1, <2>1, RemainderOfSum, Zenon
<1> QED  BY <1>2, <1>3

\* The loops keep their types, carries stay within 0..3, and the account of
\* what was added and what was written balances after every iteration
\* (drng.c:42-63).
THEOREM LoopsCorrect == NumberSpec => [](NumberTypeOK /\ Accounting)
<1>1. BigInv => NumberTypeOK /\ Accounting
  BY DEF BigInv
<1> QED  BY <1>1, BigInvHolds, PTL

\* inc_Big_Number adds one modulo BYTE to the LEN, in every base and length: over
\* a run of full bytes, and when the whole number wraps (drng.c:42-50).
THEOREM IncCorrect == NumberSpec => []IncAddsOne
<1>1. BigInv => IncAddsOne
  <2> SUFFICES ASSUME BigInv, op = "inc", ~running
               PROVE  Value(BN1) = (Value(operand) + 1) % Modulus
    BY DEF IncAddsOne
  <2>1. Added(LEN) = Value(operand) + 1
    BY DEF Added, Value
  <2> QED  BY <2>1, WholeRemainder
<1> QED  BY <1>1, BigInvHolds, PTL

\* plus_Big_Number adds four numbers modulo BYTE to the LEN, in every base and
\* length, with carries of up to 3 (drng.c:52-63).
THEOREM PlusCorrect == NumberSpec => []PlusAddsAll
<1>1. BigInv => PlusAddsAll
  <2> SUFFICES ASSUME BigInv, op = "plus", ~running
               PROVE  Value(BN1) = (Value(operand) + Value(BN2) + Value(BN3) + Value(BN4)) % Modulus
    BY DEF PlusAddsAll
  <2>1. Added(LEN) = Value(operand) + Value(BN2) + Value(BN3) + Value(BN4)
    BY DEF Added, Value
  <2> QED  BY <2>1, WholeRemainder
<1> QED  BY <1>1, BigInvHolds, PTL

----------------------------------------------------------------------------
(* Coefficients of products of blocks, over the integers.                  *)

ConvTerms(x, y, l, n) == [k \in 0..l - 1 |-> x[k] * At(y, n - k)]

\* Coefficient n of the product of two blocks of l numbers.
Coeff(x, y, l, n) == SumTo(ConvTerms(x, y, l, n), l)

\* A block that is continued by zeros.
LEMMA AtFacts ==
  ASSUME NEW l \in Nat, NEW x \in Summands(l), NEW n \in Int
  PROVE  /\ At(x, n) \in Int /\ (n \in 0..l - 1 => At(x, n) = x[n])
         /\ (n \notin 0..l - 1 => At(x, n) = 0)
<1>1. DOMAIN x = 0..l - 1 /\ \A k \in 0..l - 1 : x[k] \in Int
  BY DEF Summands
<1> QED  BY <1>1 DEF At

\* A coefficient of a product is a sum of integers.
LEMMA ConvTermsAt ==
  ASSUME NEW l \in Nat, NEW x \in Summands(l), NEW y \in Summands(l), NEW n \in Int
  PROVE  /\ ConvTerms(x, y, l, n) \in Summands(l) /\ Coeff(x, y, l, n) \in Int
         /\ \A k \in 0..l - 1 : /\ n - k \in Int /\ x[k] \in Int /\ At(y, n - k) \in Int
                                /\ ConvTerms(x, y, l, n)[k] = x[k] * At(y, n - k)
<1>1. ASSUME NEW k \in 0..l - 1
      PROVE  /\ n - k \in Int /\ x[k] \in Int /\ At(y, n - k) \in Int
             /\ x[k] * At(y, n - k) \in Int
  <2>1. n - k \in Int /\ x[k] \in Int
    BY DEF Summands
  <2>2. At(y, n - k) \in Int
    BY <2>1, AtFacts
  <2> QED  BY <2>1, <2>2
<1>2. ConvTerms(x, y, l, n) \in Summands(l)
  BY <1>1 DEF ConvTerms, Summands
<1> QED  BY <1>1, <1>2, SumInt DEF ConvTerms, Coeff

\* The product has 2 l - 1 coefficients.
LEMMA CoeffOutside ==
  ASSUME NEW l \in Nat, NEW x \in Summands(l), NEW y \in Summands(l), NEW n \in Int,
         n \notin 0..(2 * l) - 2
  PROVE  Coeff(x, y, l, n) = 0
<1>0. \A k \in 0..l - 1 : x[k] \in Int /\ ConvTerms(x, y, l, n)[k] = x[k] * At(y, n - k)
  BY DEF ConvTerms, Summands
<1>1. ASSUME NEW k \in 0..l - 1 PROVE ConvTerms(x, y, l, n)[k] = 0
  <2>1. n - k \notin 0..l - 1 /\ n - k \in Int
    OBVIOUS
  <2>2. At(y, n - k) = 0
    BY <2>1, AtFacts
  <2>3. x[k] \in Int /\ ConvTerms(x, y, l, n)[k] = x[k] * At(y, n - k)
    BY <1>0
  <2>4. PICK u \in Int : u = x[k]
    BY <2>3
  <2>5. u * 0 = 0
    OBVIOUS
  <2> QED  BY <2>2, <2>3, <2>4, <2>5
<1> QED  BY <1>1, ConvTermsAt, SumZero DEF Coeff

\* Cutting an integer to a word keeps it modulo W.
LEMMA WordFacts == W \in Nat \ {0} /\ \A n \in Int : n % W \in Word /\ n % W \in Int /\ SameMod(n % W, n, W)
<1>1. W \in Nat \ {0}
  BY WordAssumption DEF Word
<1>2. ASSUME NEW n \in Int PROVE n % W \in Word /\ n % W \in Int /\ SameMod(n % W, n, W)
  <2>1. PICK t \in Int, u \in 0..W - 1 : t = n \div W /\ u = n % W /\ n = W * t + u
    BY <1>1, Division
  <2>2. PICK y \in Int, z \in Int, m \in Int : y = W * t /\ m = -t /\ z = W * m /\ z = -y
    BY <1>1
  <2>3. u = n + W * m
    BY <1>1, <2>1, <2>2
  <2>4. SameMod(u, n, W)
    BY <2>3 DEF SameMod
  <2> QED  BY <2>1, <2>4 DEF Word
<1> QED  BY <1>1, <1>2

\* f's coefficients are those of the product of x and y, in W's words.
IsProduct(f, x, y, l) ==
  /\ f \in [0..(2 * l) - 2 -> Word]
  /\ \A n \in Int : SameMod(At(f, n), Coeff(x, y, l, n), W)

\* A coefficient of a block of words, which is zero outside of the block.
LEMMA ProductAt ==
  ASSUME NEW l \in Nat \ {0}, NEW f \in [0..(2 * l) - 2 -> Word], NEW n \in Int
  PROVE  /\ At(f, n) \in Int /\ (n \in 0..(2 * l) - 2 => At(f, n) = f[n])
         /\ (n \notin 0..(2 * l) - 2 => At(f, n) = 0)
<1>1. f \in [0..(2 * l) - 2 -> Int]
  BY WordFacts DEF Word
<1>2. f \in Summands((2 * l) - 1) /\ (2 * l) - 1 \in Nat /\ ((2 * l) - 1) - 1 = (2 * l) - 2
  BY <1>1 DEF Summands
<1> QED  BY <1>2, AtFacts

\* Conv has the coefficients of the product.
LEMMA ConvIsProduct ==
  ASSUME NEW l \in Nat \ {0}, NEW x \in Summands(l), NEW y \in Summands(l)
  PROVE  IsProduct(Conv(x, y, l), x, y, l)
<1>1. ASSUME NEW n \in 0..(2 * l) - 2
      PROVE  Conv(x, y, l)[n] = Coeff(x, y, l, n) % W /\ Coeff(x, y, l, n) \in Int
  <2>1. Coeff(x, y, l, n) \in Int
    BY ConvTermsAt
  <2> QED  BY <2>1 DEF Conv, Coeff, ConvTerms
<1>2. Conv(x, y, l) \in [0..(2 * l) - 2 -> Word]
  <2>1. Conv(x, y, l) = [n \in 0..(2 * l) - 2 |-> Coeff(x, y, l, n) % W]
    BY DEF Conv, Coeff, ConvTerms
  <2> QED  BY <1>1, <2>1, WordFacts
<1>3. ASSUME NEW n \in Int PROVE SameMod(At(Conv(x, y, l), n), Coeff(x, y, l, n), W)
  <2>1. CASE n \in 0..(2 * l) - 2
    BY <1>1, <1>2, <2>1, ProductAt, WordFacts
  <2>2. CASE n \notin 0..(2 * l) - 2
    <3>1. At(Conv(x, y, l), n) = 0 /\ Coeff(x, y, l, n) = 0
      BY <1>2, <2>2, ProductAt, CoeffOutside
    <3> QED  BY <3>1, WordFacts, SameModFacts
  <2> QED  BY <2>1, <2>2
<1> QED  BY <1>2, <1>3 DEF IsProduct

\* There is one such block of words.
LEMMA ProductIsUnique ==
  ASSUME NEW l \in Nat \ {0}, NEW x \in Summands(l), NEW y \in Summands(l),
         NEW f, NEW g, IsProduct(f, x, y, l), IsProduct(g, x, y, l)
  PROVE  f = g
<1>1. ASSUME NEW n \in 0..(2 * l) - 2 PROVE f[n] = g[n]
  <2>1. PICK u \in Int, v \in Int, c \in Int : u = At(f, n) /\ v = At(g, n) /\ c = Coeff(x, y, l, n)
    <3>1. f \in [0..(2 * l) - 2 -> Word] /\ g \in [0..(2 * l) - 2 -> Word] /\ n \in Int
      BY DEF IsProduct
    <3>2. At(f, n) \in Int /\ At(g, n) \in Int
      BY <3>1, ProductAt
    <3>3. Coeff(x, y, l, n) \in Int
      BY <3>1, ConvTermsAt
    <3> QED  BY <3>2, <3>3
  <2>2. SameMod(u, c, W) /\ SameMod(v, c, W)
    BY <2>1 DEF IsProduct
  <2>3. u % W = c % W /\ v % W = c % W
    BY <2>2, WordFacts, SameModRemainder
  <2>4. f[n] \in 0..W - 1 /\ g[n] \in 0..W - 1
    BY DEF IsProduct, Word
  <2>5. f[n] = u /\ g[n] = v
    <3>1. f \in [0..(2 * l) - 2 -> Word] /\ g \in [0..(2 * l) - 2 -> Word] /\ n \in Int
      BY DEF IsProduct
    <3> QED  BY <2>1, <3>1, ProductAt
  <2>6. \A q \in 0..W - 1 : q % W = q
    BY WordFacts
  <2> QED  BY <2>3, <2>4, <2>5, <2>6
<1> QED  BY <1>1 DEF IsProduct

----------------------------------------------------------------------------
(* Products of combinations of blocks.                                     *)

\* A combination of four numbers.
Combined(c, v) == c[0] * v[0] + c[1] * v[1] + c[2] * v[2] + c[3] * v[3]

Column(x, k) == [q \in 0..3 |-> x[q][k]]

\* f is, in words, a combination of four blocks.
Combines(f, c, x, l) == \A k \in 0..l - 1 : SameMod(f[k], Combined(c, Column(x, k)), W)

Four(S) == [0..3 -> S]

\* A combination of integers is an integer.
LEMMA CombinedInt ==
  ASSUME NEW c \in Four(Int), NEW v \in Four(Int)
  PROVE  Combined(c, v) \in Int
<1>1. \A q \in 0..3 : c[q] \in Int /\ v[q] \in Int
  BY DEF Four
<1>2. c[0] * v[0] \in Int /\ c[1] * v[1] \in Int /\ c[2] * v[2] \in Int /\ c[3] * v[3] \in Int
  BY <1>1
<1> QED  BY <1>2 DEF Combined

\* One word of each of four blocks.
LEMMA ColumnInt ==
  ASSUME NEW l \in Nat, NEW x \in Four(Summands(l)), NEW k \in 0..l - 1
  PROVE  Column(x, k) \in Four(Int)
<1>1. \A q \in 0..3 : x[q] \in Summands(l)
  BY DEF Four
<1>2. \A q \in 0..3 : x[q][k] \in Int
  BY <1>1 DEF Summands
<1> QED  BY <1>2 DEF Column, Four

\* Congruent numbers combine to congruent ones.
LEMMA CombinedSame ==
  ASSUME NEW c \in Four(Int), NEW u \in Four(Int), NEW v \in Four(Int), \A q \in 0..3 : SameMod(u[q], v[q], W)
  PROVE  SameMod(Combined(c, u), Combined(c, v), W)
<1>1. \A q \in 0..3 : c[q] \in Int /\ u[q] \in Int /\ v[q] \in Int
  BY DEF Four
<1>2. ASSUME NEW q \in 0..3
      PROVE  \E x \in Int, y \in Int : x = c[q] * u[q] /\ y = c[q] * v[q] /\ SameMod(x, y, W)
  <2>1. PICK k \in Int, x \in Int, y \in Int : k = c[q] /\ x = u[q] /\ y = v[q] /\ SameMod(x, y, W)
    BY <1>1
  <2>2. SameMod(k * x, k * y, W)
    BY <2>1, WordFacts, SameModFacts
  <2>3. k * x \in Int /\ k * y \in Int
    OBVIOUS
  <2> QED  BY <2>1, <2>2, <2>3
<1>3. PICK x0 \in Int, y0 \in Int : x0 = c[0] * u[0] /\ y0 = c[0] * v[0] /\ SameMod(x0, y0, W)
  BY <1>2
<1>4. PICK x1 \in Int, y1 \in Int : x1 = c[1] * u[1] /\ y1 = c[1] * v[1] /\ SameMod(x1, y1, W)
  BY <1>2
<1>5. PICK x2 \in Int, y2 \in Int : x2 = c[2] * u[2] /\ y2 = c[2] * v[2] /\ SameMod(x2, y2, W)
  BY <1>2
<1>6. PICK x3 \in Int, y3 \in Int : x3 = c[3] * u[3] /\ y3 = c[3] * v[3] /\ SameMod(x3, y3, W)
  BY <1>2
<1>7. PICK p \in Int, q \in Int : p = x0 + x1 /\ q = y0 + y1 /\ SameMod(p, q, W)
  <2>1. SameMod(x0 + x1, y0 + y1, W)
    BY <1>3, <1>4, WordFacts, SameModFacts
  <2>2. x0 + x1 \in Int /\ y0 + y1 \in Int
    OBVIOUS
  <2> QED  BY <2>1, <2>2
<1>8. PICK s \in Int, t \in Int : s = p + x2 /\ t = q + y2 /\ SameMod(s, t, W)
  <2>1. SameMod(p + x2, q + y2, W)
    BY <1>5, <1>7, WordFacts, SameModFacts
  <2>2. p + x2 \in Int /\ q + y2 \in Int
    OBVIOUS
  <2> QED  BY <2>1, <2>2
<1>9. SameMod(s + x3, t + y3, W)
  BY <1>6, <1>8, WordFacts, SameModFacts
<1>10. Combined(c, u) = s + x3 /\ Combined(c, v) = t + y3
  BY <1>3, <1>4, <1>5, <1>6, <1>7, <1>8 DEF Combined
<1> QED  BY <1>9, <1>10

\* A sum of combinations is the combination of the sums.
LEMMA SumCombined ==
  ASSUME NEW l \in Nat, NEW c \in Four(Int), NEW f \in Four(Summands(l)), NEW g \in Summands(l),
         \A k \in 0..l - 1 : g[k] = Combined(c, Column(f, k))
  PROVE  SumTo(g, l) = Combined(c, [q \in 0..3 |-> SumTo(f[q], l)])
<1>1. \A q \in 0..3 : c[q] \in Int /\ f[q] \in Summands(l) /\ \A k \in 0..l - 1 : f[q][k] \in Int
  BY DEF Four, Summands
<1>2. ASSUME NEW q \in 0..3
      PROVE  \E h \in Summands(l) : SumTo(h, l) = c[q] * SumTo(f[q], l) /\ \A k \in 0..l - 1 : h[k] = c[q] * f[q][k]
  <2> DEFINE h == [k \in 0..l - 1 |-> c[q] * f[q][k]]
  <2>1. h \in Summands(l) /\ \A k \in 0..l - 1 : h[k] = c[q] * f[q][k]
    <3>1. \A k \in 0..l - 1 : c[q] * f[q][k] \in Int
      BY <1>1
    <3> QED  BY <3>1 DEF Summands
  <2> HIDE DEF h
  <2>2. SumTo(h, l) = c[q] * SumTo(f[q], l)
    BY <1>1, <2>1, SumScale
  <2> QED  BY <2>1, <2>2
<1>3. PICK h0 \in Summands(l) : SumTo(h0, l) = c[0] * SumTo(f[0], l) /\ \A k \in 0..l - 1 : h0[k] = c[0] * f[0][k]
  BY <1>2
<1>4. PICK h1 \in Summands(l) : SumTo(h1, l) = c[1] * SumTo(f[1], l) /\ \A k \in 0..l - 1 : h1[k] = c[1] * f[1][k]
  BY <1>2
<1>5. PICK h2 \in Summands(l) : SumTo(h2, l) = c[2] * SumTo(f[2], l) /\ \A k \in 0..l - 1 : h2[k] = c[2] * f[2][k]
  BY <1>2
<1>6. PICK h3 \in Summands(l) : SumTo(h3, l) = c[3] * SumTo(f[3], l) /\ \A k \in 0..l - 1 : h3[k] = c[3] * f[3][k]
  BY <1>2
<1> DEFINE s01 == [k \in 0..l - 1 |-> h0[k] + h1[k]]
           s012 == [k \in 0..l - 1 |-> s01[k] + h2[k]]
<1>7. s01 \in Summands(l) /\ \A k \in 0..l - 1 : s01[k] = h0[k] + h1[k]
  BY DEF Summands
<1> HIDE DEF s01
<1>8. s012 \in Summands(l) /\ \A k \in 0..l - 1 : s012[k] = s01[k] + h2[k]
  BY <1>7 DEF Summands
<1> HIDE DEF s012
<1>9. \A k \in 0..l - 1 : g[k] = s012[k] + h3[k]
  BY <1>3, <1>4, <1>5, <1>6, <1>7, <1>8 DEF Combined, Column
<1>10. SumTo(s01, l) = SumTo(h0, l) + SumTo(h1, l)
  BY <1>7, SumPlus
<1>11. SumTo(s012, l) = SumTo(s01, l) + SumTo(h2, l)
  BY <1>7, <1>8, SumPlus
<1>12. SumTo(g, l) = SumTo(s012, l) + SumTo(h3, l)
  BY <1>8, <1>9, SumPlus
<1> QED  BY <1>3, <1>4, <1>5, <1>6, <1>10, <1>11, <1>12 DEF Combined

\* The coefficients of the products of four blocks with one.
Coeffs(x, y, l, n) == [q \in 0..3 |-> Coeff(x[q], y, l, n)]
Coeffs2(x, y, l, n) == [q \in 0..3 |-> Coeff(x, y[q], l, n)]

\* The first factor a combination.
LEMMA CombinedFirst ==
  ASSUME NEW l \in Nat, NEW c \in Four(Int), NEW x \in Four(Summands(l)), NEW f \in Summands(l),
         NEW y \in Summands(l), Combines(f, c, x, l), NEW n \in Int
  PROVE  /\ Coeffs(x, y, l, n) \in Four(Int)
         /\ SameMod(Coeff(f, y, l, n), Combined(c, Coeffs(x, y, l, n)), W)
<1> DEFINE T == [q \in 0..3 |-> ConvTerms(x[q], y, l, n)]
           g == [k \in 0..l - 1 |-> Combined(c, Column(T, k))]
           t == ConvTerms(f, y, l, n)
<1>1. \A q \in 0..3 : x[q] \in Summands(l) /\ c[q] \in Int
  BY DEF Four
<1>2. T \in Four(Summands(l))
  BY <1>1, ConvTermsAt DEF Four
<1>3. ASSUME NEW k \in 0..l - 1 PROVE Column(T, k) \in Four(Int) /\ Column(x, k) \in Four(Int)
  <2> HIDE DEF T
  <2> QED  BY <1>2, ColumnInt
<1>4. g \in Summands(l) /\ \A k \in 0..l - 1 : g[k] = Combined(c, Column(T, k))
  BY <1>3, CombinedInt DEF Summands
<1>5. SumTo(g, l) = Combined(c, [q \in 0..3 |-> SumTo(T[q], l)])
  <2> HIDE DEF T, g
  <2> QED  BY <1>2, <1>4, SumCombined
<1>6. [q \in 0..3 |-> SumTo(T[q], l)] = Coeffs(x, y, l, n)
  BY DEF Coeffs, Coeff
<1>7. t \in Summands(l) /\ \A k \in 0..l - 1 : f[k] \in Int /\ At(y, n - k) \in Int /\ t[k] = f[k] * At(y, n - k)
  BY ConvTermsAt
<1> HIDE DEF g, t
<1>8. ASSUME NEW k \in 0..l - 1 PROVE SameMod(t[k], g[k], W)
  <2>1. PICK u \in Int, z \in Int : u = f[k] /\ z = At(y, n - k)
    BY <1>7
  <2>2. PICK v \in Four(Int) : v = Column(x, k)
    BY <1>3
  <2>3. PICK e \in Int : e = Combined(c, v) /\ SameMod(u, e, W)
    BY <2>1, <2>2, CombinedInt DEF Combines
  <2>4. SameMod(u * z, e * z, W)
    <3>1. SameMod(z, z, W)
      BY WordFacts, SameModFacts
    <3> QED  BY <2>3, <3>1, WordFacts, SameModFacts
  <2>5. e * z = Combined(c, Column(T, k))
    <3>1. \A q \in 0..3 : Column(T, k)[q] = v[q] * z
      <4>1. \A q \in 0..3 : ConvTerms(x[q], y, l, n)[k] = x[q][k] * At(y, n - k)
        BY DEF ConvTerms
      <4> QED  BY <2>1, <2>2, <4>1 DEF Column
    <3>2. PICK v0 \in Int, v1 \in Int, v2 \in Int, v3 \in Int : v0 = v[0] /\ v1 = v[1] /\ v2 = v[2] /\ v3 = v[3]
      BY DEF Four
    <3>3. PICK c0 \in Int, c1 \in Int, c2 \in Int, c3 \in Int : c0 = c[0] /\ c1 = c[1] /\ c2 = c[2] /\ c3 = c[3]
      BY DEF Four
    <3>4. (c0 * v0 + c1 * v1 + c2 * v2 + c3 * v3) * z
            = c0 * (v0 * z) + c1 * (v1 * z) + c2 * (v2 * z) + c3 * (v3 * z)
      OBVIOUS
    <3> QED  BY <2>3, <3>1, <3>2, <3>3, <3>4 DEF Combined
  <2> QED  BY <1>4, <1>7, <2>1, <2>4, <2>5
<1>9. SameMod(SumTo(t, l), SumTo(g, l), W)
  BY <1>4, <1>7, <1>8, WordFacts, SumSameMod
<1>10. Coeffs(x, y, l, n) \in Four(Int)
  BY <1>1, ConvTermsAt DEF Coeffs, Four
<1> QED  BY <1>5, <1>6, <1>9, <1>10 DEF Coeff, t

\* A sum whose terms are congruent to combinations.
LEMMA SumCombinedSame ==
  ASSUME NEW l \in Nat, NEW c \in Four(Int), NEW f \in Four(Summands(l)), NEW g \in Summands(l),
         \A k \in 0..l - 1 : SameMod(g[k], Combined(c, Column(f, k)), W)
  PROVE  SameMod(SumTo(g, l), Combined(c, [q \in 0..3 |-> SumTo(f[q], l)]), W)
<1> DEFINE h == [k \in 0..l - 1 |-> Combined(c, Column(f, k))]
<1>1. \A k \in 0..l - 1 : Column(f, k) \in Four(Int)
  BY ColumnInt
<1>2. h \in Summands(l) /\ \A k \in 0..l - 1 : h[k] = Combined(c, Column(f, k))
  BY <1>1, CombinedInt DEF Summands
<1> HIDE DEF h
<1>3. SumTo(h, l) = Combined(c, [q \in 0..3 |-> SumTo(f[q], l)])
  BY <1>2, SumCombined
<1>4. SameMod(SumTo(g, l), SumTo(h, l), W)
  BY <1>2, WordFacts, SumSameMod
<1> QED  BY <1>3, <1>4

\* A combination times a number.
LEMMA CombinedTimes ==
  ASSUME NEW c \in Four(Int), NEW v \in Four(Int), NEW z \in Int
  PROVE  /\ [q \in 0..3 |-> v[q] * z] \in Four(Int) /\ [q \in 0..3 |-> z * v[q]] \in Four(Int)
         /\ Combined(c, [q \in 0..3 |-> v[q] * z]) = Combined(c, v) * z
         /\ Combined(c, [q \in 0..3 |-> z * v[q]]) = z * Combined(c, v)
<1>1. PICK v0 \in Int, v1 \in Int, v2 \in Int, v3 \in Int : v0 = v[0] /\ v1 = v[1] /\ v2 = v[2] /\ v3 = v[3]
  BY DEF Four
<1>2. PICK c0 \in Int, c1 \in Int, c2 \in Int, c3 \in Int : c0 = c[0] /\ c1 = c[1] /\ c2 = c[2] /\ c3 = c[3]
  BY DEF Four
<1>3. (c0 * v0 + c1 * v1 + c2 * v2 + c3 * v3) * z
        = c0 * (v0 * z) + c1 * (v1 * z) + c2 * (v2 * z) + c3 * (v3 * z)
  OBVIOUS
<1>4. z * (c0 * v0 + c1 * v1 + c2 * v2 + c3 * v3)
        = c0 * (z * v0) + c1 * (z * v1) + c2 * (z * v2) + c3 * (z * v3)
  OBVIOUS
<1>5. \A q \in 0..3 : v[q] \in Int
  BY DEF Four
<1>6. \A q \in 0..3 : v[q] * z \in Int /\ z * v[q] \in Int
  BY <1>5
<1>7. [q \in 0..3 |-> v[q] * z] \in Four(Int) /\ [q \in 0..3 |-> z * v[q]] \in Four(Int)
  BY <1>6 DEF Four
<1>8. Combined(c, [q \in 0..3 |-> v[q] * z]) = Combined(c, v) * z
  BY <1>1, <1>2, <1>3 DEF Combined
<1>9. Combined(c, [q \in 0..3 |-> z * v[q]]) = z * Combined(c, v)
  BY <1>1, <1>2, <1>4 DEF Combined
<1> QED  BY <1>7, <1>8, <1>9

\* The second factor a combination.
LEMMA CombinedSecond ==
  ASSUME NEW l \in Nat, NEW c \in Four(Int), NEW y \in Four(Summands(l)), NEW f \in Summands(l),
         NEW g \in Summands(l), Combines(g, c, y, l), NEW n \in Int
  PROVE  /\ Coeffs2(f, y, l, n) \in Four(Int)
         /\ SameMod(Coeff(f, g, l, n), Combined(c, Coeffs2(f, y, l, n)), W)
<1> DEFINE T == [q \in 0..3 |-> ConvTerms(f, y[q], l, n)]
           t == ConvTerms(f, g, l, n)
           e(m) == [q \in 0..3 |-> At(y[q], m)]
<1>1. \A q \in 0..3 : y[q] \in Summands(l) /\ c[q] \in Int
  BY DEF Four
<1>2. T \in Four(Summands(l))
  BY <1>1, ConvTermsAt DEF Four
<1>3. ASSUME NEW m \in Int PROVE e(m) \in Four(Int) /\ SameMod(At(g, m), Combined(c, e(m)), W)
  <2>1. \A q \in 0..3 : At(y[q], m) \in Int
    BY <1>1, AtFacts
  <2>2. e(m) \in Four(Int)
    BY <2>1 DEF Four
  <2>3. CASE m \in 0..l - 1
    <3>1. \A q \in 0..3 : At(y[q], m) = y[q][m]
      BY <1>1, <2>3, AtFacts
    <3>2. e(m) = Column(y, m)
      BY <3>1 DEF Column
    <3>3. At(g, m) = g[m]
      BY <2>3, AtFacts
    <3> QED  BY <2>2, <2>3, <3>2, <3>3 DEF Combines
  <2>4. CASE m \notin 0..l - 1
    <3>1. \A q \in 0..3 : At(y[q], m) = 0
      BY <1>1, <2>4, AtFacts
    <3>2. Combined(c, e(m)) = c[0] * 0 + c[1] * 0 + c[2] * 0 + c[3] * 0
      BY <3>1 DEF Combined
    <3>3. Combined(c, e(m)) = 0
      BY <1>1, <3>2
    <3>4. At(g, m) = 0
      BY <2>4, AtFacts
    <3> QED  BY <2>2, <3>3, <3>4, WordFacts, SameModFacts
  <2> QED  BY <2>3, <2>4
<1>4. t \in Summands(l)
  BY ConvTermsAt
<1>5. ASSUME NEW k \in 0..l - 1 PROVE SameMod(t[k], Combined(c, Column(T, k)), W)
  <2>1. n - k \in Int /\ f[k] \in Int
    BY DEF Summands
  <2>2. PICK z \in Int, v \in Four(Int), u \in Int :
          z = f[k] /\ v = e(n - k) /\ u = At(g, n - k) /\ SameMod(u, Combined(c, v), W)
    <3>1. At(g, n - k) \in Int
      BY <2>1, AtFacts
    <3>2. e(n - k) \in Four(Int) /\ SameMod(At(g, n - k), Combined(c, e(n - k)), W)
      BY <1>3, <2>1
    <3> HIDE DEF e
    <3> QED  BY <2>1, <3>1, <3>2
  <2>3. Column(T, k) = [q \in 0..3 |-> z * v[q]]
    BY <2>2 DEF Column, ConvTerms
  <2>4. t[k] = z * u
    BY <2>2 DEF ConvTerms
  <2>5. SameMod(z * u, z * Combined(c, v), W)
    <3>1. PICK d \in Int : d = Combined(c, v) /\ SameMod(u, d, W)
      BY <2>2, CombinedInt
    <3>2. SameMod(z * u, z * d, W)
      BY <3>1, WordFacts, SameModFacts
    <3> QED  BY <3>1, <3>2
  <2>6. Combined(c, [q \in 0..3 |-> z * v[q]]) = z * Combined(c, v)
    BY CombinedTimes
  <2> HIDE DEF T, t
  <2> QED  BY <2>3, <2>4, <2>5, <2>6
<1>6. SameMod(SumTo(t, l), Combined(c, [q \in 0..3 |-> SumTo(T[q], l)]), W)
  <2> HIDE DEF t, T
  <2> QED  BY <1>2, <1>4, <1>5, SumCombinedSame
<1>7. [q \in 0..3 |-> SumTo(T[q], l)] = Coeffs2(f, y, l, n)
  BY DEF Coeffs2, Coeff
<1>8. Coeffs2(f, y, l, n) \in Four(Int)
  BY <1>1, ConvTermsAt DEF Coeffs2, Four
<1> QED  BY <1>6, <1>7, <1>8 DEF Coeff, t

\* The coefficients of the products of four blocks with four blocks.
Table(x, y, l, n) == [p \in 0..3 |-> [q \in 0..3 |-> Coeff(x[p], y[q], l, n)]]

Combined2(c, T) == Combined(c, [p \in 0..3 |-> Combined(c, T[p])])

\* Both factors the same combination.
LEMMA PointProduct ==
  ASSUME NEW l \in Nat, NEW c \in Four(Int), NEW x \in Four(Summands(l)), NEW y \in Four(Summands(l)),
         NEW f \in Summands(l), NEW g \in Summands(l), Combines(f, c, x, l), Combines(g, c, y, l), NEW n \in Int
  PROVE  /\ Table(x, y, l, n) \in Four(Four(Int))
         /\ SameMod(Coeff(f, g, l, n), Combined2(c, Table(x, y, l, n)), W)
<1>1. \A q \in 0..3 : x[q] \in Summands(l) /\ y[q] \in Summands(l)
  BY DEF Four
<1> DEFINE u == Coeffs(x, g, l, n)
           v == [p \in 0..3 |-> Combined(c, Table(x, y, l, n)[p])]
<1>2. SameMod(Coeff(f, g, l, n), Combined(c, u), W) /\ u \in Four(Int)
  BY CombinedFirst
<1>3. ASSUME NEW p \in 0..3
      PROVE  /\ Table(x, y, l, n)[p] \in Four(Int) /\ v[p] \in Int
             /\ SameMod(u[p], v[p], W)
  <2>1. Table(x, y, l, n)[p] = Coeffs2(x[p], y, l, n)
    BY DEF Table, Coeffs2
  <2>2. Coeffs2(x[p], y, l, n) \in Four(Int) /\ SameMod(Coeff(x[p], g, l, n), Combined(c, Coeffs2(x[p], y, l, n)), W)
    BY <1>1, CombinedSecond
  <2>3. u[p] = Coeff(x[p], g, l, n)
    BY DEF Coeffs
  <2> QED  BY <2>1, <2>2, <2>3, CombinedInt
<1>4. Table(x, y, l, n) \in Four(Four(Int))
  <2>1. \A p \in 0..3 : Table(x, y, l, n)[p] \in Four(Int)
    BY <1>3
  <2>2. \A p \in 0..3 : [q \in 0..3 |-> Coeff(x[p], y[q], l, n)] \in Four(Int)
    BY <2>1 DEF Table
  <2> HIDE DEF Four
  <2>3. Table(x, y, l, n) \in [0..3 -> Four(Int)]
    BY <2>2 DEF Table
  <2> QED  BY <2>3 DEF Four
<1>5. v \in Four(Int)
  BY <1>3 DEF Four
<1> HIDE DEF u
<1>6. SameMod(Combined(c, u), Combined(c, v), W)
  <2> HIDE DEF v
  <2> QED  BY <1>2, <1>3, <1>5, CombinedSame
<1>7. Combined2(c, Table(x, y, l, n)) = Combined(c, v)
  BY DEF Combined2
<1>8. Combined(c, u) \in Int /\ Combined(c, v) \in Int /\ Coeff(f, g, l, n) \in Int
  BY <1>2, <1>5, CombinedInt, ConvTermsAt
<1> QED  BY <1>2, <1>4, <1>6, <1>7, <1>8, WordFacts, SameModFacts

----------------------------------------------------------------------------
(* Products of halves.                                                     *)

Halves(x, x0, x1, l) == \A k \in 0..l - 1 : x[k] = x0[k] /\ x[k + l] = x1[k]

\* A block at a place is one of its halves at that place.
LEMMA AtHalves ==
  ASSUME NEW l \in Nat \ {0}, NEW y \in Summands(2 * l), NEW y0 \in Summands(l), NEW y1 \in Summands(l),
         Halves(y, y0, y1, l), NEW m \in Int
  PROVE  /\ At(y, m) \in Int /\ At(y0, m) \in Int /\ At(y1, m - l) \in Int
         /\ At(y, m) = At(y0, m) + At(y1, m - l)
<1>0. 2 * l \in Nat /\ l \in Nat /\ m - l \in Int
  OBVIOUS
<1>1. At(y, m) \in Int /\ At(y0, m) \in Int /\ At(y1, m - l) \in Int
  BY <1>0, AtFacts
<1>2. CASE m \in 0..l - 1
  <2>1. m \in 0..(2 * l) - 1 /\ m - l \notin 0..l - 1
    BY <1>2
  <2>2. At(y, m) = y[m] /\ At(y0, m) = y0[m] /\ At(y1, m - l) = 0
    BY <1>0, <1>2, <2>1, AtFacts
  <2>3. y[m] = y0[m]
    BY <1>2 DEF Halves
  <2> QED  BY <1>1, <2>2, <2>3
<1>3. CASE m \in l..(2 * l) - 1
  <2>1. m \in 0..(2 * l) - 1 /\ m \notin 0..l - 1 /\ m - l \in 0..l - 1 /\ (m - l) + l = m
    BY <1>3
  <2>2. At(y, m) = y[m] /\ At(y0, m) = 0 /\ At(y1, m - l) = y1[m - l]
    BY <1>0, <2>1, AtFacts
  <2>3. y[(m - l) + l] = y1[m - l]
    BY <2>1 DEF Halves
  <2> QED  BY <1>1, <2>1, <2>2, <2>3
<1>4. CASE m \notin 0..(2 * l) - 1
  <2>1. m \notin 0..l - 1 /\ m - l \notin 0..l - 1
    BY <1>4
  <2>2. At(y, m) = 0 /\ At(y0, m) = 0 /\ At(y1, m - l) = 0
    BY <1>0, <1>4, <2>1, AtFacts
  <2> QED  BY <2>2
<1> QED  BY <1>1, <1>2, <1>3, <1>4

\* A half of the first factor with the whole of the second.
LEMMA HalfTerms ==
  ASSUME NEW l \in Nat \ {0}, NEW y \in Summands(2 * l), NEW y0 \in Summands(l), NEW y1 \in Summands(l),
         Halves(y, y0, y1, l), NEW n \in Int, NEW x \in Summands(l), NEW g \in Summands(l),
         \A k \in 0..l - 1 : g[k] = x[k] * At(y, n - k)
  PROVE  SumTo(g, l) = Coeff(x, y0, l, n) + Coeff(x, y1, l, n - l)
<1> DEFINE g0 == ConvTerms(x, y0, l, n)
           g1 == ConvTerms(x, y1, l, n - l)
<1>1. g0 \in Summands(l) /\ g1 \in Summands(l)
  <2>1. l \in Nat /\ n - l \in Int
    OBVIOUS
  <2> QED  BY <2>1, ConvTermsAt
<1>2. ASSUME NEW k \in 0..l - 1 PROVE g[k] = g0[k] + g1[k]
  <2>1. n - k \in Int /\ (n - l) - k = (n - k) - l /\ x[k] \in Int
    BY DEF Summands
  <2>2. PICK z \in Int, u \in Int, u0 \in Int, u1 \in Int :
          z = x[k] /\ u = At(y, n - k) /\ u0 = At(y0, n - k) /\ u1 = At(y1, (n - k) - l) /\ u = u0 + u1
    <3>1. PICK m \in Int : m = n - k
      BY <2>1
    <3>2. At(y, m) \in Int /\ At(y0, m) \in Int /\ At(y1, m - l) \in Int /\ At(y, m) = At(y0, m) + At(y1, m - l)
      BY AtHalves
    <3> QED  BY <2>1, <3>1, <3>2
  <2>3. g0[k] = z * u0 /\ g1[k] = z * u1
    BY <2>1, <2>2 DEF ConvTerms
  <2>4. g[k] = z * u
    BY <2>2
  <2>5. z * (u0 + u1) = z * u0 + z * u1
    OBVIOUS
  <2> QED  BY <2>2, <2>3, <2>4, <2>5
<1> HIDE DEF g0, g1
<1>3. SumTo(g, l) = SumTo(g0, l) + SumTo(g1, l)
  BY <1>1, <1>2, SumPlus
<1> QED  BY <1>3 DEF g0, g1, Coeff

\* A coefficient of a product is made of those of the products of the halves.
LEMMA CoeffHalves ==
  ASSUME NEW l \in Nat \ {0}, NEW x \in Summands(2 * l), NEW x0 \in Summands(l), NEW x1 \in Summands(l),
         NEW y \in Summands(2 * l), NEW y0 \in Summands(l), NEW y1 \in Summands(l),
         Halves(x, x0, x1, l), Halves(y, y0, y1, l), NEW n \in Int
  PROVE  Coeff(x, y, 2 * l, n)
           = (Coeff(x0, y0, l, n) + Coeff(x0, y1, l, n - l))
               + (Coeff(x1, y0, l, n - l) + Coeff(x1, y1, l, (n - l) - l))
<1> DEFINE g0 == [k \in 0..l - 1 |-> x0[k] * At(y, n - k)]
           g1 == [k \in 0..l - 1 |-> x1[k] * At(y, (n - l) - k)]
           f == ConvTerms(x, y, 2 * l, n)
<1>0. 2 * l \in Nat /\ 2 * l = l + l /\ l \in Nat /\ n - l \in Int
  OBVIOUS
<1>1. ASSUME NEW k \in 0..l - 1
      PROVE  x0[k] * At(y, n - k) \in Int /\ x1[k] * At(y, (n - l) - k) \in Int
  <2>0. n - k \in Int /\ (n - l) - k \in Int
    OBVIOUS
  <2>1. n - k \in Int /\ (n - l) - k \in Int /\ x0[k] \in Int /\ x1[k] \in Int
    BY <2>0 DEF Summands
  <2>2. At(y, n - k) \in Int /\ At(y, (n - l) - k) \in Int
    BY <1>0, <2>1, AtFacts
  <2> QED  BY <2>1, <2>2
<1>2. /\ g0 \in Summands(l) /\ g1 \in Summands(l)
      /\ \A k \in 0..l - 1 : g0[k] = x0[k] * At(y, n - k) /\ g1[k] = x1[k] * At(y, (n - l) - k)
  BY <1>1 DEF Summands
<1> HIDE DEF g0, g1
<1>3. f \in Summands(l + l)
  BY <1>0, ConvTermsAt
<1>4. ASSUME NEW k \in 0..l - 1 PROVE f[k] = g0[k] /\ f[l + k] = g1[k]
  <2>1. k \in 0..(2 * l) - 1 /\ k + l \in 0..(2 * l) - 1 /\ l + k = k + l /\ n - (k + l) = (n - l) - k
    OBVIOUS
  <2>2. f[k] = x[k] * At(y, n - k) /\ f[k + l] = x[k + l] * At(y, n - (k + l))
    BY <2>1 DEF ConvTerms
  <2>3. x[k] = x0[k] /\ x[k + l] = x1[k]
    BY DEF Halves
  <2> HIDE DEF f
  <2> QED  BY <1>2, <2>1, <2>2, <2>3
<1> HIDE DEF f
<1>5. SumTo(f, l + l) = SumTo(g0, l) + SumTo(g1, l)
  BY <1>0, <1>2, <1>3, <1>4, SumConcat
<1>6. SumTo(g0, l) = Coeff(x0, y0, l, n) + Coeff(x0, y1, l, n - l)
  BY <1>2, HalfTerms
<1>7. SumTo(g1, l) = Coeff(x1, y0, l, n - l) + Coeff(x1, y1, l, (n - l) - l)
  BY <1>0, <1>2, HalfTerms
<1> QED  BY <1>0, <1>5, <1>6, <1>7 DEF f, Coeff

\* Five congruences combined the way Combine combines five words.
LEMMA Same5 ==
  ASSUME NEW x0 \in Int, NEW x1 \in Int, NEW x2 \in Int, NEW x3 \in Int, NEW x4 \in Int,
         NEW y0 \in Int, NEW y1 \in Int, NEW y2 \in Int, NEW y3 \in Int, NEW y4 \in Int,
         SameMod(x0, y0, W), SameMod(x1, y1, W), SameMod(x2, y2, W), SameMod(x3, y3, W), SameMod(x4, y4, W)
  PROVE  SameMod(x0 + x1 + ((x2 - x3) - x4), y0 + y1 + ((y2 - y3) - y4), W)
<1>1. PICK u0 \in Int, v0 \in Int : u0 = x0 + x1 /\ v0 = y0 + y1 /\ SameMod(u0, v0, W)
  <2>1. SameMod(x0 + x1, y0 + y1, W)
    BY WordFacts, SameModFacts
  <2>2. x0 + x1 \in Int /\ y0 + y1 \in Int
    OBVIOUS
  <2> QED  BY <2>1, <2>2
<1>2. PICK u1 \in Int, v1 \in Int : u1 = x2 - x3 /\ v1 = y2 - y3 /\ SameMod(u1, v1, W)
  <2>1. SameMod(x2 - x3, y2 - y3, W)
    BY WordFacts, SameModFacts
  <2>2. x2 - x3 \in Int /\ y2 - y3 \in Int
    OBVIOUS
  <2> QED  BY <2>1, <2>2
<1>3. PICK u2 \in Int, v2 \in Int : u2 = u1 - x4 /\ v2 = v1 - y4 /\ SameMod(u2, v2, W)
  <2>1. SameMod(u1 - x4, v1 - y4, W)
    BY <1>2, WordFacts, SameModFacts
  <2>2. u1 - x4 \in Int /\ v1 - y4 \in Int
    OBVIOUS
  <2> QED  BY <2>1, <2>2
<1>4. SameMod(u0 + u2, v0 + v2, W)
  BY <1>1, <1>3, WordFacts, SameModFacts
<1> QED  BY <1>1, <1>2, <1>3, <1>4

SumOf(f, x0, x1, l) == \A k \in 0..l - 1 : SameMod(f[k], x0[k] + x1[k], W)

\* The product of two sums of halves.
LEMMA SumsProduct ==
  ASSUME NEW l \in Nat, NEW x0 \in Summands(l), NEW x1 \in Summands(l), NEW y0 \in Summands(l),
         NEW y1 \in Summands(l), NEW f \in Summands(l), NEW g \in Summands(l),
         SumOf(f, x0, x1, l), SumOf(g, y0, y1, l), NEW n \in Int
  PROVE  SameMod(Coeff(f, g, l, n),
                 (Coeff(x0, y0, l, n) + Coeff(x0, y1, l, n)) + (Coeff(x1, y0, l, n) + Coeff(x1, y1, l, n)), W)
<1> DEFINE c == [q \in 0..3 |-> IF q \in {0, 1} THEN 1 ELSE 0]
           x == [q \in 0..3 |-> IF q = 1 THEN x1 ELSE x0]
           y == [q \in 0..3 |-> IF q = 1 THEN y1 ELSE y0]
           T == Table(x, y, l, n)
<1>1. c \in Four(Int) /\ x \in Four(Summands(l)) /\ y \in Four(Summands(l))
  BY DEF Four
<1>2. c[0] = 1 /\ c[1] = 1 /\ c[2] = 0 /\ c[3] = 0
  OBVIOUS
<1>3. x[0] = x0 /\ x[1] = x1 /\ y[0] = y0 /\ y[1] = y1
  OBVIOUS
<1> HIDE DEF c, x, y
<1>4. ASSUME NEW v \in Four(Int) PROVE Combined(c, v) = v[0] + v[1]
  <2>1. PICK v0 \in Int, v1 \in Int, v2 \in Int, v3 \in Int : v0 = v[0] /\ v1 = v[1] /\ v2 = v[2] /\ v3 = v[3]
    BY DEF Four
  <2> QED  BY <1>2, <2>1 DEF Combined
<1>5. ASSUME NEW k \in 0..l - 1
      PROVE  Combined(c, Column(x, k)) = x0[k] + x1[k] /\ Combined(c, Column(y, k)) = y0[k] + y1[k]
  <2>1. Column(x, k) \in Four(Int) /\ Column(y, k) \in Four(Int)
    BY <1>1, ColumnInt
  <2>2. Column(x, k)[0] = x0[k] /\ Column(x, k)[1] = x1[k] /\ Column(y, k)[0] = y0[k] /\ Column(y, k)[1] = y1[k]
    BY <1>3 DEF Column
  <2> QED  BY <1>4, <2>1, <2>2
<1>6. Combines(f, c, x, l) /\ Combines(g, c, y, l)
  BY <1>5 DEF Combines, SumOf
<1>7. T \in Four(Four(Int)) /\ SameMod(Coeff(f, g, l, n), Combined2(c, T), W)
  BY <1>1, <1>6, PointProduct
<1>8. /\ T[0][0] = Coeff(x0, y0, l, n) /\ T[0][1] = Coeff(x0, y1, l, n)
      /\ T[1][0] = Coeff(x1, y0, l, n) /\ T[1][1] = Coeff(x1, y1, l, n)
  BY <1>3 DEF Table
<1> HIDE DEF T
<1>9. Combined2(c, T) = (T[0][0] + T[0][1]) + (T[1][0] + T[1][1])
  <2> DEFINE v == [p \in 0..3 |-> Combined(c, T[p])]
  <2>1. \A p \in 0..3 : T[p] \in Four(Int)
    BY <1>7, Zenon DEF Four
  <2>2. \A p \in 0..3 : Combined(c, T[p]) = T[p][0] + T[p][1] /\ Combined(c, T[p]) \in Int
    BY <1>1, <1>4, <2>1, CombinedInt
  <2>3. v \in Four(Int)
    BY <2>2 DEF Four
  <2>4. Combined(c, v) = v[0] + v[1]
    BY <1>4, <2>3
  <2>5. v[0] = T[0][0] + T[0][1] /\ v[1] = T[1][0] + T[1][1]
    BY <2>2
  <2>6. Combined2(c, T) = Combined(c, v)
    BY DEF Combined2
  <2> QED  BY <2>4, <2>5, <2>6
<1> QED  BY <1>7, <1>8, <1>9

\* The product of two blocks from three products of their halves.
LEMMA CombineRight ==
  ASSUME NEW l \in Nat \ {0}, NEW x \in Summands(2 * l), NEW x0 \in Summands(l), NEW x1 \in Summands(l),
         NEW y \in Summands(2 * l), NEW y0 \in Summands(l), NEW y1 \in Summands(l),
         Halves(x, x0, x1, l), Halves(y, y0, y1, l), NEW f \in Summands(l), NEW g \in Summands(l),
         SumOf(f, x0, x1, l), SumOf(g, y0, y1, l), NEW lo, NEW mid, NEW hi,
         IsProduct(lo, x0, y0, l), IsProduct(mid, f, g, l), IsProduct(hi, x1, y1, l)
  PROVE  IsProduct(Combine(lo, mid, hi, l), x, y, 2 * l)
<1> DEFINE u(n) == At(lo, n) + At(hi, n - (2 * l)) + ((At(mid, n - l) - At(lo, n - l)) - At(hi, n - l))
<1>0. l \in Nat /\ 2 * l \in Nat \ {0} /\ (4 * l) - 2 = (2 * (2 * l)) - 2
  OBVIOUS
<1>1. ASSUME NEW n \in Int PROVE u(n) \in Int /\ Coeff(x, y, 2 * l, n) \in Int /\ SameMod(u(n), Coeff(x, y, 2 * l, n), W)
  <2>1. n - l \in Int /\ n - (2 * l) \in Int /\ (n - l) - l = n - (2 * l)
    OBVIOUS
  <2>2. PICK m \in Int, k \in Int : m = n - l /\ k = n - (2 * l) /\ k = m - l
    BY <2>1
  <2>3. /\ lo \in [0..(2 * l) - 2 -> Word] /\ mid \in [0..(2 * l) - 2 -> Word] /\ hi \in [0..(2 * l) - 2 -> Word]
        /\ SameMod(At(lo, n), Coeff(x0, y0, l, n), W) /\ SameMod(At(lo, m), Coeff(x0, y0, l, m), W)
        /\ SameMod(At(mid, m), Coeff(f, g, l, m), W)
        /\ SameMod(At(hi, k), Coeff(x1, y1, l, k), W) /\ SameMod(At(hi, m), Coeff(x1, y1, l, m), W)
    BY DEF IsProduct
  <2>4. PICK a0 \in Int, a1 \in Int, a2 \in Int, a3 \in Int, a4 \in Int :
          a0 = At(lo, n) /\ a1 = At(hi, k) /\ a2 = At(mid, m) /\ a3 = At(lo, m) /\ a4 = At(hi, m)
    BY <2>3, ProductAt
  <2>5. PICK b0 \in Int, b1 \in Int, b2 \in Int, b3 \in Int, b4 \in Int, b5 \in Int, b6 \in Int :
          /\ b0 = Coeff(x0, y0, l, n) /\ b1 = Coeff(x1, y1, l, k) /\ b2 = Coeff(f, g, l, m)
          /\ b3 = Coeff(x0, y0, l, m) /\ b4 = Coeff(x1, y1, l, m)
          /\ b5 = Coeff(x0, y1, l, m) /\ b6 = Coeff(x1, y0, l, m)
    BY <1>0, ConvTermsAt
  <2>6. SameMod(a0 + a1 + ((a2 - a3) - a4), b0 + b1 + ((b2 - b3) - b4), W)
    <3>1. /\ SameMod(a0, b0, W) /\ SameMod(a1, b1, W) /\ SameMod(a2, b2, W) /\ SameMod(a3, b3, W)
          /\ SameMod(a4, b4, W)
      BY <2>3, <2>4, <2>5
    <3> QED  BY <3>1, Same5
  <2>7. SameMod(b2, (b3 + b5) + (b6 + b4), W)
    BY <1>0, <2>5, SumsProduct
  <2>8. Coeff(x, y, 2 * l, n) = (b0 + b5) + (b6 + b1)
    <3>1. Coeff(x, y, 2 * l, n)
           = (Coeff(x0, y0, l, n) + Coeff(x0, y1, l, n - l))
               + (Coeff(x1, y0, l, n - l) + Coeff(x1, y1, l, (n - l) - l))
      BY CoeffHalves
    <3> QED  BY <2>2, <2>5, <3>1
  <2>9. PICK d \in Int, e \in Int : b2 = ((b3 + b5) + (b6 + b4)) + d /\ d = W * e
    <3>1. PICK e \in Int : b2 = ((b3 + b5) + (b6 + b4)) + W * e
      BY <2>7 DEF SameMod
    <3>2. W * e \in Int
      BY WordFacts
    <3> QED  BY <3>1, <3>2
  <2>10. b0 + b1 + ((b2 - b3) - b4) = ((b0 + b5) + (b6 + b1)) + W * e
    BY <2>9
  <2>11. SameMod(b0 + b1 + ((b2 - b3) - b4), (b0 + b5) + (b6 + b1), W)
    BY <2>10 DEF SameMod
  <2>12. PICK s0 \in Int, s1 \in Int, s2 \in Int :
           /\ s0 = a0 + a1 + ((a2 - a3) - a4) /\ s1 = b0 + b1 + ((b2 - b3) - b4)
           /\ s2 = (b0 + b5) + (b6 + b1)
    OBVIOUS
  <2>13. SameMod(s0, s2, W)
    <3>1. SameMod(s0, s1, W) /\ SameMod(s1, s2, W)
      BY <2>6, <2>11, <2>12
    <3> QED  BY <3>1, WordFacts, SameModFacts
  <2>14. u(n) = s0
    BY <2>2, <2>4, <2>12
  <2> QED  BY <2>8, <2>12, <2>13, <2>14
<1>2. Combine(lo, mid, hi, l) = [n \in 0..(4 * l) - 2 |-> u(n) % W]
  BY DEF Combine
<1> HIDE DEF u
<1>3. Combine(lo, mid, hi, l) \in [0..(2 * (2 * l)) - 2 -> Word]
  BY <1>0, <1>1, <1>2, WordFacts
<1>4. ASSUME NEW n \in Int PROVE SameMod(At(Combine(lo, mid, hi, l), n), Coeff(x, y, 2 * l, n), W)
  <2>1. CASE n \in 0..(4 * l) - 2
    <3>1. At(Combine(lo, mid, hi, l), n) = Combine(lo, mid, hi, l)[n]
      BY <1>0, <1>3, <2>1, ProductAt
    <3>2. Combine(lo, mid, hi, l)[n] = u(n) % W
      BY <1>2, <2>1
    <3>3. PICK s \in Int, t \in Int, z \in Int :
            s = u(n) /\ t = Coeff(x, y, 2 * l, n) /\ z = s % W /\ SameMod(z, s, W) /\ SameMod(s, t, W)
      BY <1>1, WordFacts
    <3>4. SameMod(z, t, W)
      BY <3>3, WordFacts, SameModFacts
    <3> QED  BY <3>1, <3>2, <3>3, <3>4
  <2>2. CASE n \notin 0..(4 * l) - 2
    <3>1. At(Combine(lo, mid, hi, l), n) = 0
      BY <1>0, <1>3, <2>2, ProductAt
    <3>2. Coeff(x, y, 2 * l, n) = 0
      BY <1>0, <2>2, CoeffOutside
    <3> QED  BY <3>1, <3>2, WordFacts, SameModFacts
  <2> QED  BY <2>1, <2>2
<1> QED  BY <1>3, <1>4 DEF IsProduct

----------------------------------------------------------------------------
(* Karatsuba.                                                              *)

WordBlock(l) == [0..l - 1 -> Word]

\* Words are integers.
LEMMA WordBlockInt ==
  ASSUME NEW l, NEW x \in WordBlock(l)
  PROVE  x \in Summands(l) /\ \A k \in 0..l - 1 : x[k] \in Int
<1>1. Word \subseteq Int
  BY DEF Word
<1> QED  BY <1>1 DEF WordBlock, Summands

\* Plus adds modulo W.
LEMMA PlusIsSum ==
  ASSUME NEW l \in Nat, NEW x \in WordBlock(l), NEW y \in WordBlock(l)
  PROVE  Plus(x, y) \in WordBlock(l) /\ SumOf(Plus(x, y), x, y, l)
<1>1. DOMAIN x = 0..l - 1
  BY DEF WordBlock
<1>2. ASSUME NEW k \in 0..l - 1
      PROVE  (x[k] + y[k]) % W \in Word /\ SameMod((x[k] + y[k]) % W, x[k] + y[k], W)
  <2>1. x[k] \in Int /\ y[k] \in Int
    BY WordBlockInt
  <2>2. PICK s \in Int : s = x[k] + y[k]
    BY <2>1
  <2> QED  BY <2>2, WordFacts
<1>3. Plus(x, y) = [k \in 0..l - 1 |-> (x[k] + y[k]) % W]
  BY <1>1 DEF Plus
<1> QED  BY <1>2, <1>3 DEF WordBlock, SumOf

\* One level of karatsuba32_simple_u16.
OneLevel(x0, x1, y0, y1, l) ==
  Combine(Conv(x0, y0, l), Conv(Plus(x0, x1), Plus(y0, y1), l), Conv(x1, y1, l), l)

\* One level of Karatsuba gives the product.
LEMMA OneLevelRight ==
  ASSUME NEW l \in Nat \ {0}, NEW x \in WordBlock(2 * l), NEW x0 \in WordBlock(l), NEW x1 \in WordBlock(l),
         NEW y \in WordBlock(2 * l), NEW y0 \in WordBlock(l), NEW y1 \in WordBlock(l),
         Halves(x, x0, x1, l), Halves(y, y0, y1, l)
  PROVE  IsProduct(OneLevel(x0, x1, y0, y1, l), x, y, 2 * l)
<1> DEFINE f == Plus(x0, x1)
           g == Plus(y0, y1)
<1>1. f \in WordBlock(l) /\ g \in WordBlock(l) /\ SumOf(f, x0, x1, l) /\ SumOf(g, y0, y1, l)
  BY PlusIsSum
<1>2. /\ x \in Summands(2 * l) /\ x0 \in Summands(l) /\ x1 \in Summands(l) /\ f \in Summands(l)
      /\ y \in Summands(2 * l) /\ y0 \in Summands(l) /\ y1 \in Summands(l) /\ g \in Summands(l)
  BY <1>1, WordBlockInt
<1> HIDE DEF f, g
<1>3. /\ IsProduct(Conv(x0, y0, l), x0, y0, l) /\ IsProduct(Conv(f, g, l), f, g, l)
      /\ IsProduct(Conv(x1, y1, l), x1, y1, l)
  BY <1>2, ConvIsProduct
<1>4. IsProduct(Combine(Conv(x0, y0, l), Conv(f, g, l), Conv(x1, y1, l), l), x, y, 2 * l)
  BY <1>1, <1>2, <1>3, CombineRight
<1> QED  BY <1>4 DEF OneLevel, f, g

\* Half of a block, and the sum of its halves.
HalfOf(x, k) == [n \in 0..(2 * Quart) - 1 |-> x[n + (k * (2 * Quart))]]

\* Halves and quarters of a block.
LEMMA Parts ==
  ASSUME NEW x \in WordBlock(Blk)
  PROVE  /\ Blk = 2 * (2 * Quart) /\ 2 * Quart \in Nat \ {0} /\ Quart \in Nat \ {0}
         /\ \A k \in 0..3 : Part(x, k) \in WordBlock(Quart)
         /\ \A k \in 0..1 : HalfOf(x, k) \in WordBlock(2 * Quart)
         /\ Halves(x, HalfOf(x, 0), HalfOf(x, 1), 2 * Quart)
         /\ Halves(HalfOf(x, 0), Part(x, 0), Part(x, 1), Quart)
         /\ Halves(HalfOf(x, 1), Part(x, 2), Part(x, 3), Quart)
         /\ Halves(Plus(HalfOf(x, 0), HalfOf(x, 1)), Plus(Part(x, 0), Part(x, 2)),
                   Plus(Part(x, 1), Part(x, 3)), Quart)
<1>0. /\ Blk = 2 * (2 * Quart) /\ 2 * Quart \in Nat \ {0} /\ Quart \in Nat \ {0} /\ Blk = 4 * Quart
  BY QuartAssumption DEF Blk
<1>1. \A k \in 0..Blk - 1 : x[k] \in Word
  BY DEF WordBlock
<1>2. ASSUME NEW k \in 0..3 PROVE Part(x, k) \in WordBlock(Quart)
  <2>1. ASSUME NEW n \in 0..Quart - 1 PROVE n + (k * Quart) \in 0..Blk - 1
    <3>1. k = 0 \/ k = 1 \/ k = 2 \/ k = 3
      OBVIOUS
    <3> QED  BY <1>0, <3>1
  <2> QED  BY <1>1, <2>1 DEF Part, WordBlock
<1>3. ASSUME NEW k \in 0..1 PROVE HalfOf(x, k) \in WordBlock(2 * Quart)
  <2>1. ASSUME NEW n \in 0..(2 * Quart) - 1 PROVE n + (k * (2 * Quart)) \in 0..Blk - 1
    <3>1. k = 0 \/ k = 1
      OBVIOUS
    <3> QED  BY <1>0, <3>1
  <2> QED  BY <1>1, <2>1 DEF HalfOf, WordBlock
<1>4. Halves(x, HalfOf(x, 0), HalfOf(x, 1), 2 * Quart)
  <2>1. \A k \in 0..(2 * Quart) - 1 : k + (0 * (2 * Quart)) = k /\ k + (1 * (2 * Quart)) = k + (2 * Quart)
    BY <1>0
  <2> QED  BY <2>1 DEF Halves, HalfOf
<1>5. ASSUME NEW k \in 0..Quart - 1
      PROVE  /\ k \in 0..(2 * Quart) - 1 /\ k + Quart \in 0..(2 * Quart) - 1
             /\ HalfOf(x, 0)[k] = Part(x, 0)[k] /\ HalfOf(x, 0)[k + Quart] = Part(x, 1)[k]
             /\ HalfOf(x, 1)[k] = Part(x, 2)[k] /\ HalfOf(x, 1)[k + Quart] = Part(x, 3)[k]
  <2>1. k \in 0..(2 * Quart) - 1 /\ k + Quart \in 0..(2 * Quart) - 1
    BY <1>0
  <2>2. /\ k + (0 * (2 * Quart)) = k + (0 * Quart) /\ (k + Quart) + (0 * (2 * Quart)) = k + (1 * Quart)
        /\ k + (1 * (2 * Quart)) = k + (2 * Quart) /\ (k + Quart) + (1 * (2 * Quart)) = k + (3 * Quart)
    BY <1>0
  <2> QED  BY <2>1, <2>2 DEF HalfOf, Part
<1>6. /\ Halves(HalfOf(x, 0), Part(x, 0), Part(x, 1), Quart)
      /\ Halves(HalfOf(x, 1), Part(x, 2), Part(x, 3), Quart)
  BY <1>5 DEF Halves
<1>7. Halves(Plus(HalfOf(x, 0), HalfOf(x, 1)), Plus(Part(x, 0), Part(x, 2)),
             Plus(Part(x, 1), Part(x, 3)), Quart)
  <2>1. /\ DOMAIN HalfOf(x, 0) = 0..(2 * Quart) - 1
        /\ DOMAIN Part(x, 0) = 0..Quart - 1 /\ DOMAIN Part(x, 1) = 0..Quart - 1
    BY DEF HalfOf, Part
  <2> QED  BY <1>5, <2>1 DEF Halves, Plus
<1> QED  BY <1>0, <1>2, <1>3, <1>4, <1>6, <1>7

\* Two levels of Karatsuba give every word of the product (karatsuba32_simple_u16).
LEMMA KaratsubaExact ==
  ASSUME NEW x \in WordBlock(Blk), NEW y \in WordBlock(Blk)
  PROVE  karatsuba32_simple_u16(x, y) = Conv(x, y, Blk)
<1> DEFINE x02 == Plus(Part(x, 0), Part(x, 2))
           x13 == Plus(Part(x, 1), Part(x, 3))
           y02 == Plus(Part(y, 0), Part(y, 2))
           y13 == Plus(Part(y, 1), Part(y, 3))
           xl == HalfOf(x, 0)
           xh == HalfOf(x, 1)
           yl == HalfOf(y, 0)
           yh == HalfOf(y, 1)
           xm == Plus(xl, xh)
           ym == Plus(yl, yh)
           lo == OneLevel(Part(x, 0), Part(x, 1), Part(y, 0), Part(y, 1), Quart)
           mid == OneLevel(x02, x13, y02, y13, Quart)
           hi == OneLevel(Part(x, 2), Part(x, 3), Part(y, 2), Part(y, 3), Quart)
<1>1. karatsuba32_simple_u16(x, y) = Combine(lo, mid, hi, 2 * Quart)
  BY DEF karatsuba32_simple_u16, OneLevel
<1>2. /\ Blk = 2 * (2 * Quart) /\ 2 * Quart \in Nat \ {0} /\ Quart \in Nat \ {0}
      /\ \A k \in 0..3 : Part(x, k) \in WordBlock(Quart) /\ Part(y, k) \in WordBlock(Quart)
      /\ xl \in WordBlock(2 * Quart) /\ xh \in WordBlock(2 * Quart)
      /\ yl \in WordBlock(2 * Quart) /\ yh \in WordBlock(2 * Quart)
  BY Parts
<1>3. /\ Halves(x, xl, xh, 2 * Quart) /\ Halves(y, yl, yh, 2 * Quart)
      /\ Halves(xl, Part(x, 0), Part(x, 1), Quart) /\ Halves(yl, Part(y, 0), Part(y, 1), Quart)
      /\ Halves(xh, Part(x, 2), Part(x, 3), Quart) /\ Halves(yh, Part(y, 2), Part(y, 3), Quart)
      /\ Halves(xm, x02, x13, Quart) /\ Halves(ym, y02, y13, Quart)
  BY Parts
<1> HIDE DEF xl, xh, yl, yh
<1>4. /\ xm \in WordBlock(2 * Quart) /\ SumOf(xm, xl, xh, 2 * Quart)
      /\ ym \in WordBlock(2 * Quart) /\ SumOf(ym, yl, yh, 2 * Quart)
  BY <1>2, PlusIsSum
<1> HIDE DEF xm, ym
<1>5. x02 \in WordBlock(Quart) /\ x13 \in WordBlock(Quart) /\ y02 \in WordBlock(Quart) /\ y13 \in WordBlock(Quart)
  BY <1>2, PlusIsSum
<1> HIDE DEF x02, x13, y02, y13
<1>6. /\ IsProduct(lo, xl, yl, 2 * Quart) /\ IsProduct(hi, xh, yh, 2 * Quart)
  BY <1>2, <1>3, OneLevelRight
<1>7. IsProduct(mid, xm, ym, 2 * Quart)
  BY <1>2, <1>3, <1>4, <1>5, OneLevelRight
<1> HIDE DEF lo, mid, hi
<1>8. /\ x \in Summands(Blk) /\ y \in Summands(Blk) /\ Blk \in Nat \ {0}
      /\ xl \in Summands(2 * Quart) /\ xh \in Summands(2 * Quart) /\ xm \in Summands(2 * Quart)
      /\ yl \in Summands(2 * Quart) /\ yh \in Summands(2 * Quart) /\ ym \in Summands(2 * Quart)
  BY <1>2, <1>4, WordBlockInt
<1>9. IsProduct(Combine(lo, mid, hi, 2 * Quart), x, y, 2 * (2 * Quart))
  BY <1>2, <1>3, <1>4, <1>6, <1>7, <1>8, CombineRight
<1>10. IsProduct(Conv(x, y, Blk), x, y, Blk)
  BY <1>8, ConvIsProduct
<1> QED  BY <1>1, <1>2, <1>8, <1>9, <1>10, ProductIsUnique

\* The blocks of a polynomial, and its value at a point.
Block(x) == [q \in 0..3 |-> [k \in 0..Blk - 1 |-> x[k + (q * Blk)]]]

\* The blocks of a polynomial of words are blocks of words.
LEMMA BlocksAre ==
  ASSUME NEW x \in [0..N - 1 -> Word]
  PROVE  /\ \A q \in 0..3 : Block(x)[q] \in WordBlock(Blk)
         /\ Block(x) \in Four(Summands(Blk))
         /\ \A k \in 0..Blk - 1 : /\ Column(Block(x), k) \in Four(Int)
                                  /\ Column(Block(x), k)[0] = x[k] /\ Column(Block(x), k)[1] = x[k + Blk]
                                  /\ Column(Block(x), k)[2] = x[k + (2 * Blk)]
                                  /\ Column(Block(x), k)[3] = x[k + (3 * Blk)]
<1>0. Blk \in Nat \ {0} /\ N = 4 * Blk
  BY QuartAssumption DEF Blk, N
<1>1. ASSUME NEW q \in 0..3 PROVE Block(x)[q] \in WordBlock(Blk)
  <2>1. ASSUME NEW k \in 0..Blk - 1 PROVE k + (q * Blk) \in 0..N - 1
    <3>1. q = 0 \/ q = 1 \/ q = 2 \/ q = 3
      OBVIOUS
    <3> QED  BY <1>0, <3>1
  <2> QED  BY <2>1 DEF Block, WordBlock
<1>2. \A q \in 0..3 : Block(x)[q] \in Summands(Blk)
  BY <1>1, WordBlockInt
<1>3. Block(x) \in Four(Summands(Blk))
  BY <1>2 DEF Four, Block
<1>4. ASSUME NEW k \in 0..Blk - 1
      PROVE  /\ Column(Block(x), k) \in Four(Int)
             /\ Column(Block(x), k)[0] = x[k] /\ Column(Block(x), k)[1] = x[k + Blk]
             /\ Column(Block(x), k)[2] = x[k + (2 * Blk)]
             /\ Column(Block(x), k)[3] = x[k + (3 * Blk)]
  <2>1. Column(Block(x), k) \in Four(Int)
    BY <1>0, <1>3, ColumnInt
  <2>2. \A q \in 0..3 : Column(Block(x), k)[q] = x[k + (q * Blk)]
    BY DEF Column, Block
  <2>3. k + (0 * Blk) = k /\ k + (1 * Blk) = k + Blk
    BY <1>0
  <2> QED  BY <2>1, <2>2, <2>3
<1> QED  BY <1>1, <1>3, <1>4

----------------------------------------------------------------------------
(* The interpolation.  W is 64 units; what is lost is counted in units.    *)

Unit == W \div 64
Multiples == {Unit * k : k \in Int}

\* W is 64 units, and the multiples of a unit are closed under sums and products.
LEMMA UnitFacts ==
  /\ Unit \in Nat \ {0} /\ W = 64 * Unit /\ W \div 8 = 8 * Unit /\ W \div 8 \in Nat \ {0} /\ W \in Nat \ {0}
  /\ \A z \in Multiples : z \in Int
  /\ 0 \in Multiples
  /\ \A y, z \in Multiples : y + z \in Multiples /\ y - z \in Multiples
  /\ \A z \in Multiples, c \in Int : z * c \in Multiples /\ c * z \in Multiples
<1>1. W \in Nat \ {0} /\ W % 64 = 0
  BY WordFacts, WordAssumption
<1>2. Unit \in Nat \ {0} /\ W = 64 * Unit /\ W \div 8 = 8 * Unit
  BY <1>1 DEF Unit
<1>3. PICK U \in Nat \ {0} : U = Unit
  BY <1>2
<1>4. Multiples = {U * k : k \in Int}
  BY <1>3 DEF Multiples
<1>5. ASSUME NEW z \in Multiples PROVE \E k \in Int : z = U * k
  BY <1>4
<1>6. \A k \in Int : U * k \in Multiples /\ U * k \in Int
  BY <1>4
<1>7. \A z \in Multiples : z \in Int
  BY <1>5, <1>6
<1>8. 0 \in Multiples
  <2>1. U * 0 = 0
    OBVIOUS
  <2> QED  BY <1>6, <2>1
<1>9. ASSUME NEW y \in Multiples, NEW z \in Multiples PROVE y + z \in Multiples /\ y - z \in Multiples
  <2>1. PICK j \in Int, k \in Int : y = U * j /\ z = U * k
    BY <1>5
  <2>2. U * j + U * k = U * (j + k) /\ U * j - U * k = U * (j - k) /\ j + k \in Int /\ j - k \in Int
    OBVIOUS
  <2> QED  BY <1>6, <2>1, <2>2
<1>10. ASSUME NEW z \in Multiples, NEW c \in Int PROVE z * c \in Multiples /\ c * z \in Multiples
  <2>1. PICK k \in Int : z = U * k
    BY <1>5
  <2>2. (U * k) * c = U * (k * c) /\ c * (U * k) = U * (k * c) /\ k * c \in Int
    OBVIOUS
  <2> QED  BY <1>6, <2>1, <2>2
<1> QED  BY <1>1, <1>2, <1>7, <1>8, <1>9, <1>10

\* The same, with the product of a multiple and a number named.
LEMMA MultiplesFacts ==
  /\ \A z \in Multiples : z \in Int
  /\ 0 \in Multiples
  /\ \A y, z \in Multiples : y + z \in Multiples /\ y - z \in Multiples
  /\ \A z \in Multiples, c \in Int : z * c \in Multiples /\ c * z \in Multiples
  /\ \A z \in Multiples, c \in Int : \E y \in Multiples : y = z * c
BY UnitFacts

\* Cutting to a word.
LEMMA Cut ==
  ASSUME NEW x \in Int
  PROVE  x % W \in Word /\ \E z \in Multiples : x % W = x + 64 * z
<1>1. x % W \in Word /\ x % W \in Int /\ SameMod(x % W, x, W)
  BY WordFacts
<1>2. PICK k \in Int : x % W = x + W * k
  BY <1>1 DEF SameMod
<1>3. PICK U \in Nat \ {0} : U = Unit /\ W = 64 * U
  BY UnitFacts
<1>4. (64 * U) * k = 64 * (U * k)
  OBVIOUS
<1>5. U * k \in Multiples
  BY <1>3 DEF Multiples
<1> QED  BY <1>1, <1>2, <1>3, <1>4, <1>5

\* A division by g * pow of a number known up to pow * e units gives the
\* quotient up to e units.
Divides(g, inv, pow, e, x, t, z) ==
  /\ g \in Int /\ inv \in Word /\ (g * inv) % W = 1 /\ pow \in {2, 4, 8} /\ e \in {8, 16}
  /\ pow * e \in {32, 64} /\ x \in Int /\ t \in Int /\ z \in Multiples
  /\ x = g * (pow * t) + (pow * e) * z

\* DivBy of a known multiple gives the quotient, up to multiples of pow units.
LEMMA DivByRight ==
  ASSUME NEW g, NEW inv, NEW pow, NEW e, NEW x, NEW t, NEW z, Divides(g, inv, pow, e, x, t, z)
  PROVE  DivBy(x, inv, pow) \in Word /\ \E y \in Multiples : DivBy(x, inv, pow) = t + e * y
<1>a. /\ g \in Int /\ inv \in Word /\ (g * inv) % W = 1 /\ pow \in {2, 4, 8} /\ e \in {8, 16}
      /\ pow * e \in {32, 64} /\ x \in Int /\ t \in Int /\ z \in Multiples
      /\ x = g * (pow * t) + (pow * e) * z
  BY DEF Divides
<1> USE <1>a
<1>0. inv \in Int /\ z \in Int /\ W \in Nat \ {0}
  BY UnitFacts DEF Word
<1>1. PICK h \in Int, z1 \in Multiples, s \in Int : h = g * inv /\ h = 1 + 64 * z1 /\ s = pow * t
  <2>1. g * inv \in Int /\ pow * t \in Int
    BY <1>0
  <2>2. PICK y \in Multiples : (g * inv) % W = g * inv + 64 * y
    BY <2>1, Cut
  <2>3. 0 - y \in Multiples /\ y \in Int
    BY MultiplesFacts
  <2>4. g * inv = 1 + 64 * (0 - y)
    BY <2>1, <2>2, <2>3
  <2> QED  BY <2>1, <2>3, <2>4
<1>2. PICK u \in Int, m \in Int : u = z1 * s /\ u \in Multiples /\ m = z * inv /\ m \in Multiples
  <2>0. z1 \in Multiples /\ s \in Int
    BY <1>1
  <2>1. PICK y \in Multiples : y = z1 * s
    BY <2>0, MultiplesFacts
  <2>2. PICK n \in Multiples : n = z * inv
    BY <1>0, <1>1, MultiplesFacts
  <2> QED  BY <2>1, <2>2, MultiplesFacts
<1>3. x * inv = s + 64 * u + (pow * e) * m
  <2>1. (g * s + (pow * e) * z) * inv = (g * inv) * s + (pow * e) * (z * inv)
    BY <1>0
  <2>2. PICK v1 \in Int : v1 = z1
    BY MultiplesFacts
  <2>3. (1 + 64 * v1) * s = s + 64 * (v1 * s)
    OBVIOUS
  <2> QED  BY <1>1, <1>2, <2>1, <2>2, <2>3
<1>4. PICK v \in Multiples : x * inv = s + (pow * e) * v
  <2>1. CASE pow * e = 64
    <3>1. u + m \in Multiples
      BY <1>2, MultiplesFacts
    <3>2. x * inv = s + 64 * (u + m)
      BY <1>2, <1>3, <2>1
    <3> QED  BY <2>1, <3>1, <3>2
  <2>2. CASE pow * e = 32
    <3>1. 2 * u \in Multiples
      BY <1>2, MultiplesFacts
    <3>2. 2 * u + m \in Multiples
      BY <1>2, <3>1, MultiplesFacts
    <3>3. x * inv = s + 32 * (2 * u + m)
      BY <1>2, <1>3, <2>2
    <3> QED  BY <2>2, <3>2, <3>3
  <2> QED  BY <2>1, <2>2
<1>5. PICK d \in Int, n \in Multiples : d = (x * inv) % (W * W) /\ d = x * inv + 64 * n
  <2>1. W * W \in Nat \ {0} /\ x * inv \in Int
    BY <1>0
  <2>2. PICK k \in Int : k = (x * inv) \div (W * W) /\ x * inv = (W * W) * k + ((x * inv) % (W * W))
                         /\ (x * inv) % (W * W) \in Int
    <3>1. PICK ww \in Nat \ {0}, r0 \in Int : ww = W * W /\ r0 = x * inv
      BY <2>1
    <3>2. r0 \div ww \in Int /\ r0 % ww \in Int /\ r0 = ww * (r0 \div ww) + (r0 % ww)
      <4>1. ww \in Nat \ {0} /\ r0 \in Int
        BY <3>1
      <4>2. r0 \div ww \in Int /\ r0 % ww \in 0..ww - 1 /\ r0 = ww * (r0 \div ww) + (r0 % ww)
        BY <4>1, Division
      <4>3. 0..ww - 1 \subseteq Int
        BY <4>1
      <4> QED  BY <4>2, <4>3
    <3> QED  BY <3>1, <3>2
  <2>3. PICK U \in Nat \ {0} : U = Unit /\ W = 64 * U
    BY UnitFacts
  <2>4. ((64 * U) * (64 * U)) * k = 64 * (U * (64 * U * k))
    OBVIOUS
  <2>5. U * (64 * U * k) \in Multiples /\ U * (64 * U * k) \in Int
    <3>1. 64 * U * k \in Int /\ U * (64 * U * k) \in Int
      BY <2>3
    <3> QED  BY <2>3, <3>1 DEF Multiples
  <2>6. 0 - U * (64 * U * k) \in Multiples
    BY <2>5, MultiplesFacts
  <2>7. (x * inv) % (W * W) = x * inv + 64 * (0 - U * (64 * U * k))
    <3>1. PICK y \in Int : y = U * (64 * U * k)
      BY <2>5
    <3>2. PICK r1 \in Int, r2 \in Int : r1 = x * inv /\ r2 = (x * inv) % (W * W)
      BY <2>1, <2>2
    <3>3. (W * W) * k = 64 * y
      BY <2>3, <2>4, <3>1
    <3>4. r1 = 64 * y + r2
      BY <2>2, <3>2, <3>3
    <3> QED  BY <3>1, <3>2, <3>4
  <2> QED  BY <2>2, <2>6, <2>7
<1>6. PICK v2 \in Multiples : d = s + (pow * e) * v2
  <2>0. PICK xi \in Int, v0 \in Int, n0 \in Int : xi = x * inv /\ v0 = v /\ n0 = n
    BY <1>0, MultiplesFacts
  <2>1. CASE pow * e = 64
    <3>1. v + n \in Multiples
      BY MultiplesFacts
    <3>2. d = s + 64 * (v + n)
      BY <1>4, <1>5, <2>0, <2>1
    <3> QED  BY <2>1, <3>1, <3>2
  <2>2. CASE pow * e = 32
    <3>1. 2 * n \in Multiples
      BY MultiplesFacts
    <3>2. v + 2 * n \in Multiples
      BY <3>1, MultiplesFacts
    <3>3. d = s + 32 * (v + 2 * n)
      <4>1. xi = s + 32 * v0
        BY <1>4, <2>0, <2>2
      <4>2. d = xi + 64 * n0
        BY <1>5, <2>0
      <4> QED  BY <1>1, <2>0, <4>1, <4>2
    <3> QED  BY <2>2, <3>2, <3>3
  <2> QED  BY <2>1, <2>2
<1>7. d \div pow = t + e * v2
  <2>0. v2 \in Int
    BY MultiplesFacts
  <2>1. CASE pow = 2
    BY <1>1, <1>6, <2>0, <2>1
  <2>2. CASE pow = 4
    BY <1>1, <1>6, <2>0, <2>2
  <2>3. CASE pow = 8
    BY <1>1, <1>6, <2>0, <2>3
  <2> QED  BY <2>1, <2>2, <2>3
<1>8. PICK k \in Int : k = d \div pow
  <2>1. v2 \in Int
    BY MultiplesFacts
  <2> QED  BY <1>7, <2>1
<1>9. PICK j \in Multiples : k % W = k + 64 * j /\ k % W \in Word
  BY <1>8, Cut
<1>10. \E y \in Multiples : k % W = t + e * y
  <2>0. v2 \in Int /\ j \in Int
    BY MultiplesFacts
  <2>1. CASE e = 8
    <3>1. 8 * j \in Multiples
      BY MultiplesFacts
    <3>2. v2 + 8 * j \in Multiples
      BY <3>1, MultiplesFacts
    <3>3. k % W = t + 8 * (v2 + 8 * j)
      BY <1>7, <1>8, <1>9, <2>0, <2>1
    <3> QED  BY <2>1, <3>2, <3>3
  <2>2. CASE e = 16
    <3>1. 4 * j \in Multiples
      BY MultiplesFacts
    <3>2. v2 + 4 * j \in Multiples
      BY <3>1, MultiplesFacts
    <3>3. k % W = t + 16 * (v2 + 4 * j)
      BY <1>7, <1>8, <1>9, <2>0, <2>2
    <3> QED  BY <2>2, <3>2, <3>3
  <2> QED  BY <2>1, <2>2
<1>11. DivBy(x, inv, pow) = k % W
  BY <1>5, <1>8 DEF DivBy
<1> QED  BY <1>9, <1>10, <1>11

\* The products of a polynomial with coefficients d0 to d6 at the seven points.
AtPoints(p, d) ==
  /\ SameMod(p[1], d[6], W)
  /\ SameMod(p[2], d[0] + 2 * d[1] + 4 * d[2] + 8 * d[3] + 16 * d[4] + 32 * d[5] + 64 * d[6], W)
  /\ SameMod(p[3], d[0] + d[1] + d[2] + d[3] + d[4] + d[5] + d[6], W)
  /\ SameMod(p[4], d[0] - d[1] + d[2] - d[3] + d[4] - d[5] + d[6], W)
  /\ SameMod(p[5], 64 * d[0] + 32 * d[1] + 16 * d[2] + 8 * d[3] + 4 * d[4] + 2 * d[5] + d[6], W)
  /\ SameMod(p[6], 64 * d[0] - 32 * d[1] + 16 * d[2] - 8 * d[3] + 4 * d[4] - 2 * d[5] + d[6], W)
  /\ SameMod(p[7], d[0], W)

Seven(S) == [0..6 -> S]

\* Congruence modulo W is being equal up to 64 times a multiple of a unit,
LEMMA SameModUnits ==
  ASSUME NEW x \in Int, NEW y \in Int, SameMod(x, y, W)
  PROVE  \E z \in Multiples : z \in Int /\ x = y + 64 * z
<1>1. PICK k \in Int : x = y + W * k
  BY DEF SameMod
<1>2. PICK U \in Nat \ {0} : U = Unit /\ W = 64 * U
  BY UnitFacts
<1>3. (64 * U) * k = 64 * (U * k) /\ U * k \in Int
  OBVIOUS
<1>4. U * k \in Multiples
  BY <1>2 DEF Multiples
<1> QED  BY <1>1, <1>2, <1>3, <1>4

\* and being equal up to 8 times such a multiple is congruence modulo W / 8.
LEMMA UnitsSameMod ==
  ASSUME NEW x \in Int, NEW y \in Int, NEW z \in Multiples, x = y + 8 * z
  PROVE  SameMod(x, y, W \div 8)
<1>1. PICK U \in Nat \ {0} : U = Unit /\ W \div 8 = 8 * U
  BY UnitFacts
<1>2. PICK k \in Int : z = U * k
  BY <1>1 DEF Multiples
<1>3. (8 * U) * k = 8 * (U * k)
  OBVIOUS
<1> QED  BY <1>1, <1>2, <1>3 DEF SameMod

\* A word that is known up to m units.
Known(x, y, m) == x \in Int /\ \E z \in Multiples : z \in Int /\ x = y + m * z

\* Cutting to a word keeps x right up to m units, for an m that divides 64.
LEMMA CutKnown ==
  ASSUME NEW x \in Int, NEW y \in Int, NEW m \in {8, 16, 32, 64}, Known(x, y, m)
  PROVE  x % W \in Word /\ Known(x % W, y, m)
<1>1. PICK z \in Multiples, u \in Int : u = z /\ x = y + m * z
  BY DEF Known
<1>2. PICK k \in Multiples, v \in Int : v = k /\ x % W = x + 64 * k
  BY Cut, MultiplesFacts
<1>3. PICK n \in {1, 2, 4, 8} : 64 = m * n
  OBVIOUS
<1>4. PICK j \in Multiples, t \in Int : t = j /\ t = u + n * v
  <2>1. n * k \in Multiples
    BY MultiplesFacts
  <2>2. z + n * k \in Multiples /\ z + n * k \in Int
    BY <2>1, MultiplesFacts
  <2> QED  BY <1>1, <1>2, <2>2
<1>5. x % W = y + m * t
  BY <1>1, <1>2, <1>3, <1>4
<1> QED  BY <1>4, <1>5, Cut, WordFacts DEF Known, Word

\* The interpolation gives the seven coefficients in the bits below W / 8.
LEMMA InterpolatedRight ==
  ASSUME NEW p \in [1..7 -> Word], NEW d \in Seven(Int), AtPoints(p, d)
  PROVE  \A k \in 0..6 : /\ Interpolated(p)[k + 1] \in Word
                         /\ SameMod(Interpolated(p)[k + 1], d[k], W \div 8)
<1> DEFINE r5 == (p[6] - p[5]) % W
           r3 == ((p[4] - p[3]) \div 2) % W
           r4 == (2 * ((p[5] - p[1]) - 64 * p[7]) + r5) % W
           s2 == (p[3] + r3) % W
           r2 == ((s2 - p[7]) - p[1]) % W
           s1 == (((p[2] + p[5]) - 65 * s2) + 45 * r2) % W
           t4 == DivBy(r4 - 8 * r2, INV3, 8)
           t1 == DivBy(s1 + 16 * r3, INV9, 2)
           t5 == DivBy(30 * t1 - ((r5 + s1) % W), INV15, 4)
<1>1. Interpolated(p) = <<p[7], t5, t4, (-(r3 + t1)) % W, (r2 - t4) % W, (t1 - t5) % W, p[1]>>
  BY DEF Interpolated
<1>2. PICK p1 \in Int, p2 \in Int, p3 \in Int, p4 \in Int, p5 \in Int, p6 \in Int, p7 \in Int :
        p1 = p[1] /\ p2 = p[2] /\ p3 = p[3] /\ p4 = p[4] /\ p5 = p[5] /\ p6 = p[6] /\ p7 = p[7]
  <2>1. \A k \in 1..7 : p[k] \in Int
    BY DEF Word
  <2>2. /\ p[1] \in Int /\ p[2] \in Int /\ p[3] \in Int /\ p[4] \in Int
        /\ p[5] \in Int /\ p[6] \in Int /\ p[7] \in Int
    BY <2>1
  <2> QED  BY <2>2
<1>3. PICK d0 \in Int, d1 \in Int, d2 \in Int, d3 \in Int, d4 \in Int, d5 \in Int, d6 \in Int :
        /\ d0 = d[0] /\ d1 = d[1] /\ d2 = d[2] /\ d3 = d[3] /\ d4 = d[4] /\ d5 = d[5] /\ d6 = d[6]
  <2>1. \A k \in 0..6 : d[k] \in Int
    BY DEF Seven
  <2>2. /\ d[0] \in Int /\ d[1] \in Int /\ d[2] \in Int /\ d[3] \in Int
        /\ d[4] \in Int /\ d[5] \in Int /\ d[6] \in Int
    BY <2>1
  <2> QED  BY <2>2
<1>4. PICK z1 \in Multiples : z1 \in Int /\ p1 = d6 + 64 * z1
  BY <1>2, <1>3, SameModUnits DEF AtPoints
<1>5. PICK z2 \in Multiples :
        z2 \in Int /\ p2 = (d0 + 2 * d1 + 4 * d2 + 8 * d3 + 16 * d4 + 32 * d5 + 64 * d6) + 64 * z2
  <2>1. PICK e \in Int : e = d0 + 2 * d1 + 4 * d2 + 8 * d3 + 16 * d4 + 32 * d5 + 64 * d6 /\ SameMod(p2, e, W)
    BY <1>2, <1>3 DEF AtPoints
  <2> QED  BY <2>1, SameModUnits
<1>6. PICK z3 \in Multiples : z3 \in Int /\ p3 = (d0 + d1 + d2 + d3 + d4 + d5 + d6) + 64 * z3
  <2>1. PICK e \in Int : e = d0 + d1 + d2 + d3 + d4 + d5 + d6 /\ SameMod(p3, e, W)
    BY <1>2, <1>3 DEF AtPoints
  <2> QED  BY <2>1, SameModUnits
<1>7. PICK z4 \in Multiples : z4 \in Int /\ p4 = (d0 - d1 + d2 - d3 + d4 - d5 + d6) + 64 * z4
  <2>1. PICK e \in Int : e = d0 - d1 + d2 - d3 + d4 - d5 + d6 /\ SameMod(p4, e, W)
    BY <1>2, <1>3 DEF AtPoints
  <2> QED  BY <2>1, SameModUnits
<1>8. PICK z5 \in Multiples :
        z5 \in Int /\ p5 = (64 * d0 + 32 * d1 + 16 * d2 + 8 * d3 + 4 * d4 + 2 * d5 + d6) + 64 * z5
  <2>1. PICK e \in Int : e = 64 * d0 + 32 * d1 + 16 * d2 + 8 * d3 + 4 * d4 + 2 * d5 + d6 /\ SameMod(p5, e, W)
    BY <1>2, <1>3 DEF AtPoints
  <2> QED  BY <2>1, SameModUnits
<1>9. PICK z6 \in Multiples :
        z6 \in Int /\ p6 = (64 * d0 - 32 * d1 + 16 * d2 - 8 * d3 + 4 * d4 - 2 * d5 + d6) + 64 * z6
  <2>1. PICK e \in Int : e = 64 * d0 - 32 * d1 + 16 * d2 - 8 * d3 + 4 * d4 - 2 * d5 + d6 /\ SameMod(p6, e, W)
    BY <1>2, <1>3 DEF AtPoints
  <2> QED  BY <2>1, SameModUnits
<1>10. PICK z7 \in Multiples : z7 \in Int /\ p7 = d0 + 64 * z7
  BY <1>2, <1>3, SameModUnits DEF AtPoints
\* What is known of each step.
<1>11. Known(r5, -(64 * d1 + 16 * d3 + 4 * d5), 64)
  <2>1. z6 - z5 \in Multiples /\ z6 - z5 \in Int
    BY MultiplesFacts
  <2>2. p6 - p5 = -(64 * d1 + 16 * d3 + 4 * d5) + 64 * (z6 - z5)
    BY <1>8, <1>9
  <2>3. Known(p6 - p5, -(64 * d1 + 16 * d3 + 4 * d5), 64)
    BY <2>1, <2>2 DEF Known
  <2>4. -(64 * d1 + 16 * d3 + 4 * d5) \in Int /\ p6 - p5 \in Int
    OBVIOUS
  <2> QED  BY <1>2, <2>3, <2>4, CutKnown
<1>12. Known(r3, -(d1 + d3 + d5), 32)
  <2>1. z4 - z3 \in Multiples /\ z4 - z3 \in Int
    BY MultiplesFacts
  <2>2. p4 - p3 = 2 * (-(d1 + d3 + d5) + 32 * (z4 - z3))
    BY <1>6, <1>7
  <2>3. PICK q \in Int : q = -(d1 + d3 + d5) + 32 * (z4 - z3)
    BY <2>1
  <2>4. (p4 - p3) \div 2 = q
    BY <2>2, <2>3
  <2>5. Known(q, -(d1 + d3 + d5), 32)
    BY <2>1, <2>3 DEF Known
  <2>6. -(d1 + d3 + d5) \in Int
    OBVIOUS
  <2> QED  BY <1>2, <2>4, <2>5, <2>6, CutKnown
<1> HIDE DEF r5, r3
<1>13. PICK y5 \in Multiples : y5 \in Int /\ r5 \in Int /\ r5 = -(64 * d1 + 16 * d3 + 4 * d5) + 64 * y5
  BY <1>11 DEF Known
<1>14. PICK y3 \in Multiples : y3 \in Int /\ r3 \in Int /\ r3 = -(d1 + d3 + d5) + 32 * y3
  BY <1>12 DEF Known
<1>15. Known(r4, 32 * d2 + 8 * d4, 64)
  <2> DEFINE z == ((2 * z5 - 2 * z1) - 128 * z7) + y5
  <2>1. z \in Multiples /\ z \in Int
    <3>1. 2 * z5 \in Multiples /\ 2 * z1 \in Multiples /\ 128 * z7 \in Multiples
      BY MultiplesFacts
    <3>2. 2 * z5 - 2 * z1 \in Multiples
      BY <3>1, MultiplesFacts
    <3>3. (2 * z5 - 2 * z1) - 128 * z7 \in Multiples
      BY <3>1, <3>2, MultiplesFacts
    <3> QED  BY <3>3, MultiplesFacts
  <2>2. 2 * ((p5 - p1) - 64 * p7) + r5 = (32 * d2 + 8 * d4) + 64 * z
    BY <1>4, <1>8, <1>10, <1>13
  <2> HIDE DEF z
  <2>3. Known(2 * ((p5 - p1) - 64 * p7) + r5, 32 * d2 + 8 * d4, 64)
    BY <1>13, <2>1, <2>2 DEF Known
  <2>4. 32 * d2 + 8 * d4 \in Int /\ 2 * ((p5 - p1) - 64 * p7) + r5 \in Int
    BY <1>13
  <2> QED  BY <1>2, <2>3, <2>4, CutKnown
<1> HIDE DEF r4
<1>16. PICK y4 \in Multiples : y4 \in Int /\ r4 \in Int /\ r4 = (32 * d2 + 8 * d4) + 64 * y4
  BY <1>15 DEF Known
<1>17. Known(s2, d0 + d2 + d4 + d6, 32)
  <2>1. 2 * z3 + y3 \in Multiples /\ 2 * z3 + y3 \in Int
    <3>1. 2 * z3 \in Multiples
      BY MultiplesFacts
    <3> QED  BY <3>1, MultiplesFacts
  <2>2. p3 + r3 = (d0 + d2 + d4 + d6) + 32 * (2 * z3 + y3)
    BY <1>6, <1>14
  <2>3. Known(p3 + r3, d0 + d2 + d4 + d6, 32)
    BY <1>14, <2>1, <2>2 DEF Known
  <2>4. d0 + d2 + d4 + d6 \in Int /\ p3 + r3 \in Int
    BY <1>14
  <2> QED  BY <1>2, <2>3, <2>4, CutKnown
<1> HIDE DEF s2
<1>18. PICK x2 \in Multiples : x2 \in Int /\ s2 \in Int /\ s2 = (d0 + d2 + d4 + d6) + 32 * x2
  BY <1>17 DEF Known
<1>19. Known(r2, d2 + d4, 32)
  <2> DEFINE z == (x2 - 2 * z7) - 2 * z1
  <2>1. z \in Multiples /\ z \in Int
    <3>1. 2 * z7 \in Multiples /\ 2 * z1 \in Multiples
      BY MultiplesFacts
    <3>2. x2 - 2 * z7 \in Multiples
      BY <3>1, MultiplesFacts
    <3> QED  BY <3>1, <3>2, MultiplesFacts
  <2>2. (s2 - p7) - p1 = (d2 + d4) + 32 * z
    BY <1>4, <1>10, <1>18
  <2> HIDE DEF z
  <2>3. Known((s2 - p7) - p1, d2 + d4, 32)
    BY <1>18, <2>1, <2>2 DEF Known
  <2>4. d2 + d4 \in Int /\ (s2 - p7) - p1 \in Int
    BY <1>18
  <2> QED  BY <1>2, <2>3, <2>4, CutKnown
<1> HIDE DEF r2
<1>20. PICK y2 \in Multiples : y2 \in Int /\ r2 \in Int /\ r2 = (d2 + d4) + 32 * y2
  BY <1>19 DEF Known
<1>21. Known(s1, 34 * d1 + 16 * d3 + 34 * d5, 32)
  <2> DEFINE z == ((2 * z2 + 2 * z5) - 65 * x2) + 45 * y2
  <2>1. z \in Multiples /\ z \in Int
    <3>0. 2 * z2 \in Multiples /\ 2 * z5 \in Multiples
      BY MultiplesFacts
    <3>1. 65 * x2 \in Multiples /\ 45 * y2 \in Multiples
      <4>1. 65 * x2 \in Multiples
        BY MultiplesFacts
      <4>2. 45 * y2 \in Multiples
        BY MultiplesFacts
      <4> QED  BY <4>1, <4>2
    <3>2. 2 * z2 + 2 * z5 \in Multiples
      BY <3>0, MultiplesFacts
    <3>3. (2 * z2 + 2 * z5) - 65 * x2 \in Multiples
      BY <3>1, <3>2, MultiplesFacts
    <3> QED  BY <3>1, <3>3, MultiplesFacts
  <2>2. ((p2 + p5) - 65 * s2) + 45 * r2 = (34 * d1 + 16 * d3 + 34 * d5) + 32 * z
    BY <1>5, <1>8, <1>18, <1>20
  <2> HIDE DEF z
  <2>3. Known(((p2 + p5) - 65 * s2) + 45 * r2, 34 * d1 + 16 * d3 + 34 * d5, 32)
    BY <1>18, <1>20, <2>1, <2>2 DEF Known
  <2>4. 34 * d1 + 16 * d3 + 34 * d5 \in Int /\ ((p2 + p5) - 65 * s2) + 45 * r2 \in Int
    BY <1>18, <1>20
  <2> QED  BY <1>2, <2>3, <2>4, CutKnown
<1> HIDE DEF s1
<1>22. PICK x1 \in Multiples : x1 \in Int /\ s1 \in Int /\ s1 = (34 * d1 + 16 * d3 + 34 * d5) + 32 * x1
  BY <1>21 DEF Known
<1>23. PICK w4 \in Multiples : w4 \in Int /\ t4 \in Word /\ t4 = d2 + 8 * w4
  <2>1. y4 - 4 * y2 \in Multiples /\ y4 - 4 * y2 \in Int
    <3>1. 4 * y2 \in Multiples
      BY MultiplesFacts
    <3> QED  BY <3>1, MultiplesFacts
  <2>2. r4 - 8 * r2 = 3 * (8 * d2) + (8 * 8) * (y4 - 4 * y2)
    BY <1>16, <1>20
  <2>3. INV3 \in Word /\ (3 * INV3) % W = 1
    BY WordAssumption
  <2>4. PICK x \in Int, z \in Multiples : x = r4 - 8 * r2 /\ x = 3 * (8 * d2) + (8 * 8) * z
    BY <1>16, <1>20, <2>1, <2>2
  <2>5. DivBy(x, INV3, 8) \in Word /\ \E y \in Multiples : DivBy(x, INV3, 8) = d2 + 8 * y
    <3>1. Divides(3, INV3, 8, 8, x, d2, z)
      BY <2>3, <2>4 DEF Divides
    <3> QED  BY <3>1, DivByRight
  <2> QED  BY <2>4, <2>5, MultiplesFacts
<1>24. PICK w1 \in Multiples : w1 \in Int /\ t1 \in Word /\ t1 = (d1 + d5) + 16 * w1
  <2>1. x1 + 16 * y3 \in Multiples /\ x1 + 16 * y3 \in Int
    <3>1. 16 * y3 \in Multiples
      BY MultiplesFacts
    <3> QED  BY <3>1, MultiplesFacts
  <2>2. s1 + 16 * r3 = 9 * (2 * (d1 + d5)) + (2 * 16) * (x1 + 16 * y3)
    BY <1>14, <1>22
  <2>3. INV9 \in Word /\ (9 * INV9) % W = 1
    BY WordAssumption
  <2>4. PICK x \in Int, z \in Multiples, t \in Int :
          x = s1 + 16 * r3 /\ t = d1 + d5 /\ x = 9 * (2 * t) + (2 * 16) * z
    BY <1>14, <1>22, <2>1, <2>2
  <2>5. DivBy(x, INV9, 2) \in Word /\ \E y \in Multiples : DivBy(x, INV9, 2) = t + 16 * y
    <3>1. Divides(9, INV9, 2, 16, x, t, z)
      BY <2>3, <2>4 DEF Divides
    <3> QED  BY <3>1, DivByRight
  <2> QED  BY <2>4, <2>5, MultiplesFacts
<1> HIDE DEF t4, t1
<1>25. t4 \in Int /\ t1 \in Int
  BY <1>23, <1>24
<1>26. PICK w5 \in Multiples : w5 \in Int /\ t5 \in Word /\ t5 = d1 + 8 * w5
  <2>0. PICK z \in Multiples : z \in Int /\ (r5 + s1) % W \in Int /\ (r5 + s1) % W = (r5 + s1) + 64 * z
    <3>1. r5 + s1 \in Int
      BY <1>13, <1>22
    <3>2. (r5 + s1) % W \in Int
      BY <3>1, WordFacts
    <3> QED  BY <3>1, <3>2, Cut, MultiplesFacts
  <2> DEFINE y == ((15 * w1 - 2 * y5) - x1) - 2 * z
  <2>1. y \in Multiples /\ y \in Int
    <3>1. 15 * w1 \in Multiples /\ 2 * y5 \in Multiples /\ 2 * z \in Multiples
      BY MultiplesFacts
    <3>2. 15 * w1 - 2 * y5 \in Multiples
      BY <3>1, MultiplesFacts
    <3>3. (15 * w1 - 2 * y5) - x1 \in Multiples
      BY <3>2, MultiplesFacts
    <3> QED  BY <3>1, <3>3, MultiplesFacts
  <2>2. 30 * t1 - ((r5 + s1) % W) = 15 * (4 * d1) + (4 * 8) * y
    BY <1>13, <1>22, <1>24, <2>0
  <2> HIDE DEF y
  <2>3. INV15 \in Word /\ (15 * INV15) % W = 1
    BY WordAssumption
  <2>4. PICK x \in Int, u \in Multiples : x = 30 * t1 - ((r5 + s1) % W) /\ x = 15 * (4 * d1) + (4 * 8) * u
    BY <1>25, <2>0, <2>1, <2>2
  <2>5. DivBy(x, INV15, 4) \in Word /\ \E n \in Multiples : DivBy(x, INV15, 4) = d1 + 8 * n
    <3>1. Divides(15, INV15, 4, 8, x, d1, u)
      BY <2>3, <2>4 DEF Divides
    <3> QED  BY <3>1, DivByRight
  <2> QED  BY <2>4, <2>5, MultiplesFacts
<1> HIDE DEF t5
<1>27. t5 \in Int
  BY <1>26
<1>28. Known((-(r3 + t1)) % W, d3, 8) /\ (-(r3 + t1)) % W \in Word
  <2>1. (0 - 4 * y3) - 2 * w1 \in Multiples /\ (0 - 4 * y3) - 2 * w1 \in Int
    <3>1. 4 * y3 \in Multiples /\ 2 * w1 \in Multiples /\ 0 \in Multiples
      BY MultiplesFacts
    <3>2. 0 - 4 * y3 \in Multiples
      BY <3>1, MultiplesFacts
    <3> QED  BY <3>1, <3>2, MultiplesFacts
  <2>2. -(r3 + t1) = d3 + 8 * ((0 - 4 * y3) - 2 * w1)
    BY <1>14, <1>24
  <2>3. PICK x \in Int : x = -(r3 + t1)
    BY <1>14, <1>25
  <2>4. Known(x, d3, 8)
    BY <2>1, <2>2, <2>3 DEF Known
  <2> QED  BY <2>3, <2>4, CutKnown
<1>29. Known((r2 - t4) % W, d4, 8) /\ (r2 - t4) % W \in Word
  <2>1. 4 * y2 - w4 \in Multiples /\ 4 * y2 - w4 \in Int
    <3>1. 4 * y2 \in Multiples
      BY MultiplesFacts
    <3> QED  BY <3>1, MultiplesFacts
  <2>2. r2 - t4 = d4 + 8 * (4 * y2 - w4)
    BY <1>20, <1>23
  <2>3. PICK x \in Int : x = r2 - t4
    BY <1>20, <1>25
  <2>4. Known(x, d4, 8)
    BY <2>1, <2>2, <2>3 DEF Known
  <2> QED  BY <2>3, <2>4, CutKnown
<1>30. Known((t1 - t5) % W, d5, 8) /\ (t1 - t5) % W \in Word
  <2>1. 2 * w1 - w5 \in Multiples /\ 2 * w1 - w5 \in Int
    <3>1. 2 * w1 \in Multiples
      BY MultiplesFacts
    <3> QED  BY <3>1, MultiplesFacts
  <2>2. t1 - t5 = d5 + 8 * (2 * w1 - w5)
    BY <1>24, <1>26
  <2>3. PICK x \in Int : x = t1 - t5
    BY <1>25, <1>27
  <2>4. Known(x, d5, 8)
    BY <2>1, <2>2, <2>3 DEF Known
  <2> QED  BY <2>3, <2>4, CutKnown
<1>31. /\ Known(p[7], d0, 8) /\ Known(t5, d1, 8) /\ Known(t4, d2, 8) /\ Known(p[1], d6, 8)
  <2>1. 8 * z7 \in Multiples /\ 8 * z1 \in Multiples /\ 8 * z7 \in Int /\ 8 * z1 \in Int
    <3>1. 8 * z7 \in Multiples
      BY MultiplesFacts
    <3>2. 8 * z1 \in Multiples
      BY MultiplesFacts
    <3>3. 8 * z7 \in Int /\ 8 * z1 \in Int
      BY <1>4, <1>10
    <3> QED  BY <3>1, <3>2, <3>3
  <2>2. p7 = d0 + 8 * (8 * z7) /\ p1 = d6 + 8 * (8 * z1)
    BY <1>4, <1>10
  <2>3. Known(p7, d0, 8) /\ Known(p1, d6, 8)
    BY <2>1, <2>2 DEF Known
  <2>4. Known(t5, d1, 8) /\ Known(t4, d2, 8)
    BY <1>23, <1>25, <1>26, <1>27 DEF Known
  <2> QED  BY <1>2, <2>3, <2>4
<1>32. \A x, y \in Int : Known(x, y, 8) => SameMod(x, y, W \div 8)
  BY UnitsSameMod DEF Known
<1>33. p[7] \in Word /\ p[1] \in Word /\ t5 \in Word /\ t4 \in Word
  BY <1>23, <1>26
<1> DEFINE u3 == (-(r3 + t1)) % W
           u4 == (r2 - t4) % W
           u5 == (t1 - t5) % W
<1>34. /\ Known(u3, d3, 8) /\ Known(u4, d4, 8) /\ Known(u5, d5, 8)
       /\ u3 \in Word /\ u4 \in Word /\ u5 \in Word
       /\ Interpolated(p) = <<p[7], t5, t4, u3, u4, u5, p[1]>>
  BY <1>1, <1>28, <1>29, <1>30
<1> HIDE DEF u3, u4, u5
<1>35. \A x \in Word : x \in Int
  BY DEF Word
<1>36. /\ SameMod(p[7], d0, W \div 8) /\ SameMod(t5, d1, W \div 8) /\ SameMod(t4, d2, W \div 8)
       /\ SameMod(u3, d3, W \div 8) /\ SameMod(u4, d4, W \div 8) /\ SameMod(u5, d5, W \div 8)
       /\ SameMod(p[1], d6, W \div 8)
  BY <1>31, <1>32, <1>33, <1>34, <1>35
<1>37. /\ Interpolated(p)[1] = p[7] /\ Interpolated(p)[2] = t5 /\ Interpolated(p)[3] = t4
       /\ Interpolated(p)[4] = u3 /\ Interpolated(p)[5] = u4 /\ Interpolated(p)[6] = u5
       /\ Interpolated(p)[7] = p[1]
  BY <1>34
<1> SUFFICES ASSUME NEW k \in 0..6
             PROVE  /\ Interpolated(p)[k + 1] \in Word
                    /\ SameMod(Interpolated(p)[k + 1], d[k], W \div 8)
  OBVIOUS
<1>38. k = 0 \/ k = 1 \/ k = 2 \/ k = 3 \/ k = 4 \/ k = 5 \/ k = 6
  OBVIOUS
<1>39. (k = 0 => k + 1 = 1) /\ (k = 1 => k + 1 = 2) /\ (k = 2 => k + 1 = 3) /\ (k = 3 => k + 1 = 4)
       /\ (k = 4 => k + 1 = 5) /\ (k = 5 => k + 1 = 6) /\ (k = 6 => k + 1 = 7)
  OBVIOUS
<1> QED  BY <1>3, <1>33, <1>34, <1>36, <1>37, <1>38, <1>39

----------------------------------------------------------------------------
(* The seven products.                                                     *)

\* The four blocks' coefficients in their value at a point.
Alpha(point) ==
  CASE point = 1 -> [q \in 0..3 |-> IF q = 3 THEN 1 ELSE 0]
    [] point = 2 -> [q \in 0..3 |-> IF q = 0 THEN 1 ELSE IF q = 1 THEN 2 ELSE IF q = 2 THEN 4 ELSE 8]
    [] point = 3 -> [q \in 0..3 |-> 1]
    [] point = 4 -> [q \in 0..3 |-> IF q \in {0, 2} THEN 1 ELSE -1]
    [] point = 5 -> [q \in 0..3 |-> IF q = 0 THEN 8 ELSE IF q = 1 THEN 4 ELSE IF q = 2 THEN 2 ELSE 1]
    [] point = 6 -> [q \in 0..3 |-> IF q = 0 THEN 8 ELSE IF q = 1 THEN -4 ELSE IF q = 2 THEN 2 ELSE -1]
    [] point = 7 -> [q \in 0..3 |-> IF q = 0 THEN 1 ELSE 0]

\* The coefficients that the blocks have at each point.
LEMMA AlphaIs ==
  /\ \A point \in 1..7 : Alpha(point) \in Four(Int)
  /\ Alpha(1)[0] = 0 /\ Alpha(1)[1] = 0 /\ Alpha(1)[2] = 0 /\ Alpha(1)[3] = 1
  /\ Alpha(2)[0] = 1 /\ Alpha(2)[1] = 2 /\ Alpha(2)[2] = 4 /\ Alpha(2)[3] = 8
  /\ Alpha(3)[0] = 1 /\ Alpha(3)[1] = 1 /\ Alpha(3)[2] = 1 /\ Alpha(3)[3] = 1
  /\ Alpha(4)[0] = 1 /\ Alpha(4)[1] = -1 /\ Alpha(4)[2] = 1 /\ Alpha(4)[3] = -1
  /\ Alpha(5)[0] = 8 /\ Alpha(5)[1] = 4 /\ Alpha(5)[2] = 2 /\ Alpha(5)[3] = 1
  /\ Alpha(6)[0] = 8 /\ Alpha(6)[1] = -4 /\ Alpha(6)[2] = 2 /\ Alpha(6)[3] = -1
  /\ Alpha(7)[0] = 1 /\ Alpha(7)[1] = 0 /\ Alpha(7)[2] = 0 /\ Alpha(7)[3] = 0
<1>1. /\ Alpha(1) = [q \in 0..3 |-> IF q = 3 THEN 1 ELSE 0]
      /\ Alpha(2) = [q \in 0..3 |-> IF q = 0 THEN 1 ELSE IF q = 1 THEN 2 ELSE IF q = 2 THEN 4 ELSE 8]
      /\ Alpha(3) = [q \in 0..3 |-> 1]
      /\ Alpha(4) = [q \in 0..3 |-> IF q \in {0, 2} THEN 1 ELSE -1]
      /\ Alpha(5) = [q \in 0..3 |-> IF q = 0 THEN 8 ELSE IF q = 1 THEN 4 ELSE IF q = 2 THEN 2 ELSE 1]
      /\ Alpha(6) = [q \in 0..3 |-> IF q = 0 THEN 8 ELSE IF q = 1 THEN -4 ELSE IF q = 2 THEN 2 ELSE -1]
      /\ Alpha(7) = [q \in 0..3 |-> IF q = 0 THEN 1 ELSE 0]
  BY DEF Alpha
<1>2. /\ Alpha(1) \in Four(Int) /\ Alpha(2) \in Four(Int) /\ Alpha(3) \in Four(Int) /\ Alpha(4) \in Four(Int)
      /\ Alpha(5) \in Four(Int) /\ Alpha(6) \in Four(Int) /\ Alpha(7) \in Four(Int)
  BY <1>1 DEF Four
<1>3. \A point \in 1..7 : point = 1 \/ point = 2 \/ point = 3 \/ point = 4 \/ point = 5 \/ point = 6 \/ point = 7
  OBVIOUS
<1> QED  BY <1>1, <1>2, <1>3

\* Evaluated is the combination of a polynomial's blocks with the point's coefficients.
LEMMA EvaluatedIs ==
  ASSUME NEW x \in [0..N - 1 -> Word], NEW point \in 1..7
  PROVE  /\ Evaluated(x, point) \in WordBlock(Blk)
         /\ Combines(Evaluated(x, point), Alpha(point), Block(x), Blk)
<1> DEFINE c == Alpha(point)
           e(j) == CASE point = 1 -> x[j + (3 * Blk)]
                     [] point = 2 -> 8 * x[j + (3 * Blk)] + 4 * x[j + (2 * Blk)] + 2 * x[j + Blk] + x[j]
                     [] point = 3 -> x[j] + x[j + (2 * Blk)] + x[j + Blk] + x[j + (3 * Blk)]
                     [] point = 4 -> (x[j] + x[j + (2 * Blk)]) - (x[j + Blk] + x[j + (3 * Blk)])
                     [] point = 5 -> 8 * x[j] + 2 * x[j + (2 * Blk)] + 4 * x[j + Blk] + x[j + (3 * Blk)]
                     [] point = 6 -> (8 * x[j] + 2 * x[j + (2 * Blk)]) - (4 * x[j + Blk] + x[j + (3 * Blk)])
                     [] point = 7 -> x[j]
<1>1. Evaluated(x, point) = [j \in 0..Blk - 1 |-> e(j) % W]
  BY DEF Evaluated
<1>2. ASSUME NEW j \in 0..Blk - 1 PROVE e(j) \in Int /\ e(j) = Combined(c, Column(Block(x), j))
  <2>1. PICK v \in Four(Int) : v = Column(Block(x), j) /\ v[0] = x[j] /\ v[1] = x[j + Blk]
                               /\ v[2] = x[j + (2 * Blk)] /\ v[3] = x[j + (3 * Blk)]
    BY BlocksAre
  <2>2. v[0] \in Int /\ v[1] \in Int /\ v[2] \in Int /\ v[3] \in Int
    BY DEF Four
  <2>3. PICK x0 \in Int, x1 \in Int, x2 \in Int, x3 \in Int :
          /\ x0 = v[0] /\ x1 = v[1] /\ x2 = v[2] /\ x3 = v[3]
          /\ x0 = x[j] /\ x1 = x[j + Blk] /\ x2 = x[j + (2 * Blk)] /\ x3 = x[j + (3 * Blk)]
    BY <2>1, <2>2
  <2>4. Combined(c, v) = c[0] * x0 + c[1] * x1 + c[2] * x2 + c[3] * x3
    BY <2>3 DEF Combined
  <2>5. CASE point = 1
    <3>1. e(j) = x3
      BY <2>3, <2>5
    <3>2. c[0] = 0 /\ c[1] = 0 /\ c[2] = 0 /\ c[3] = 1
      BY <2>5, AlphaIs
    <3> HIDE DEF c, e
    <3> QED  BY <2>1, <2>4, <3>1, <3>2
  <2>6. CASE point = 2
    <3>1. e(j) = 8 * x3 + 4 * x2 + 2 * x1 + x0
      BY <2>3, <2>6
    <3>2. c[0] = 1 /\ c[1] = 2 /\ c[2] = 4 /\ c[3] = 8
      BY <2>6, AlphaIs
    <3> HIDE DEF c, e
    <3> QED  BY <2>1, <2>4, <3>1, <3>2
  <2>7. CASE point = 3
    <3>1. e(j) = x0 + x2 + x1 + x3
      BY <2>3, <2>7
    <3>2. c[0] = 1 /\ c[1] = 1 /\ c[2] = 1 /\ c[3] = 1
      BY <2>7, AlphaIs
    <3> HIDE DEF c, e
    <3> QED  BY <2>1, <2>4, <3>1, <3>2
  <2>8. CASE point = 4
    <3>1. e(j) = (x0 + x2) - (x1 + x3)
      BY <2>3, <2>8
    <3>2. c[0] = 1 /\ c[1] = -1 /\ c[2] = 1 /\ c[3] = -1
      BY <2>8, AlphaIs
    <3> HIDE DEF c, e
    <3> QED  BY <2>1, <2>4, <3>1, <3>2
  <2>9. CASE point = 5
    <3>1. e(j) = 8 * x0 + 2 * x2 + 4 * x1 + x3
      BY <2>3, <2>9
    <3>2. c[0] = 8 /\ c[1] = 4 /\ c[2] = 2 /\ c[3] = 1
      BY <2>9, AlphaIs
    <3> HIDE DEF c, e
    <3> QED  BY <2>1, <2>4, <3>1, <3>2
  <2>10. CASE point = 6
    <3>1. e(j) = (8 * x0 + 2 * x2) - (4 * x1 + x3)
      BY <2>3, <2>10
    <3>2. c[0] = 8 /\ c[1] = -4 /\ c[2] = 2 /\ c[3] = -1
      BY <2>10, AlphaIs
    <3> HIDE DEF c, e
    <3> QED  BY <2>1, <2>4, <3>1, <3>2
  <2>11. CASE point = 7
    <3>1. e(j) = x0
      BY <2>3, <2>11
    <3>2. c[0] = 1 /\ c[1] = 0 /\ c[2] = 0 /\ c[3] = 0
      BY <2>11, AlphaIs
    <3> HIDE DEF c, e
    <3> QED  BY <2>1, <2>4, <3>1, <3>2
  <2> QED  BY <2>5, <2>6, <2>7, <2>8, <2>9, <2>10, <2>11
<1> HIDE DEF e
<1>3. \A j \in 0..Blk - 1 : e(j) % W \in Word /\ SameMod(e(j) % W, e(j), W)
  BY <1>2, WordFacts
<1> QED  BY <1>1, <1>2, <1>3 DEF WordBlock, Combines

\* The coefficients of the product of two polynomials in the point, of degree 0 to 6.
Degrees(T) ==
  [m \in 0..6 |->
     CASE m = 0 -> T[0][0]
       [] m = 1 -> T[0][1] + T[1][0]
       [] m = 2 -> T[0][2] + T[1][1] + T[2][0]
       [] m = 3 -> T[0][3] + T[1][2] + T[2][1] + T[3][0]
       [] m = 4 -> T[1][3] + T[2][2] + T[3][1]
       [] m = 5 -> T[2][3] + T[3][2]
       [] m = 6 -> T[3][3]]

\* The coefficients by degree are sums of the products of two blocks each.
LEMMA DegreesAre ==
  ASSUME NEW T \in Four(Four(Int))
  PROVE  /\ Degrees(T) \in Seven(Int)
         /\ Degrees(T)[0] = T[0][0] /\ Degrees(T)[1] = T[0][1] + T[1][0]
         /\ Degrees(T)[2] = T[0][2] + T[1][1] + T[2][0]
         /\ Degrees(T)[3] = T[0][3] + T[1][2] + T[2][1] + T[3][0]
         /\ Degrees(T)[4] = T[1][3] + T[2][2] + T[3][1]
         /\ Degrees(T)[5] = T[2][3] + T[3][2] /\ Degrees(T)[6] = T[3][3]
<1>1. \A p \in 0..3 : T[p] \in Four(Int)
  BY Zenon DEF Four
<1>2. \A p, q \in 0..3 : T[p][q] \in Int
  BY <1>1 DEF Four
<1>3. /\ Degrees(T)[0] = T[0][0] /\ Degrees(T)[1] = T[0][1] + T[1][0]
      /\ Degrees(T)[2] = T[0][2] + T[1][1] + T[2][0]
      /\ Degrees(T)[3] = T[0][3] + T[1][2] + T[2][1] + T[3][0]
      /\ Degrees(T)[4] = T[1][3] + T[2][2] + T[3][1]
      /\ Degrees(T)[5] = T[2][3] + T[3][2] /\ Degrees(T)[6] = T[3][3]
  BY DEF Degrees
<1>4. \A m \in 0..6 : m = 0 \/ m = 1 \/ m = 2 \/ m = 3 \/ m = 4 \/ m = 5 \/ m = 6
  OBVIOUS
<1>5. \A m \in 0..6 : Degrees(T)[m] \in Int
  <2>1. /\ Degrees(T)[0] \in Int /\ Degrees(T)[1] \in Int /\ Degrees(T)[2] \in Int /\ Degrees(T)[3] \in Int
        /\ Degrees(T)[4] \in Int /\ Degrees(T)[5] \in Int /\ Degrees(T)[6] \in Int
    BY <1>2, <1>3
  <2> QED  BY <1>4, <2>1
<1>6. Degrees(T) = [m \in 0..6 |-> Degrees(T)[m]]
  BY DEF Degrees
<1> QED  BY <1>3, <1>5, <1>6 DEF Seven

\* The square of the values at a point.
LEMMA SquareAt ==
  ASSUME NEW c \in Four(Int), NEW T \in Four(Four(Int)), NEW c0 \in Int, NEW c1 \in Int, NEW c2 \in Int, NEW c3 \in Int,
         c[0] = c0, c[1] = c1, c[2] = c2, c[3] = c3
  PROVE  Combined2(c, T)
           = c0 * (c0 * T[0][0] + c1 * T[0][1] + c2 * T[0][2] + c3 * T[0][3])
               + c1 * (c0 * T[1][0] + c1 * T[1][1] + c2 * T[1][2] + c3 * T[1][3])
               + c2 * (c0 * T[2][0] + c1 * T[2][1] + c2 * T[2][2] + c3 * T[2][3])
               + c3 * (c0 * T[3][0] + c1 * T[3][1] + c2 * T[3][2] + c3 * T[3][3])
BY DEF Combined2, Combined

\* What the polynomial with the coefficients Degrees(T) is at the points.
LEMMA SquaresAre ==
  ASSUME NEW T \in Four(Four(Int)), NEW d, d = Degrees(T)
  PROVE  /\ Combined2(Alpha(1), T) = d[6]
         /\ Combined2(Alpha(2), T) = d[0] + 2 * d[1] + 4 * d[2] + 8 * d[3] + 16 * d[4] + 32 * d[5] + 64 * d[6]
         /\ Combined2(Alpha(3), T) = d[0] + d[1] + d[2] + d[3] + d[4] + d[5] + d[6]
         /\ Combined2(Alpha(4), T) = d[0] - d[1] + d[2] - d[3] + d[4] - d[5] + d[6]
         /\ Combined2(Alpha(5), T) = 64 * d[0] + 32 * d[1] + 16 * d[2] + 8 * d[3] + 4 * d[4] + 2 * d[5] + d[6]
         /\ Combined2(Alpha(6), T) = 64 * d[0] - 32 * d[1] + 16 * d[2] - 8 * d[3] + 4 * d[4] - 2 * d[5] + d[6]
         /\ Combined2(Alpha(7), T) = d[0]
<1>1. /\ d[0] = T[0][0] /\ d[1] = T[0][1] + T[1][0] /\ d[2] = T[0][2] + T[1][1] + T[2][0]
      /\ d[3] = T[0][3] + T[1][2] + T[2][1] + T[3][0]
      /\ d[4] = T[1][3] + T[2][2] + T[3][1] /\ d[5] = T[2][3] + T[3][2] /\ d[6] = T[3][3]
  BY DegreesAre
<1>2. \A p, q \in 0..3 : T[p][q] \in Int
  <2>1. \A p \in 0..3 : T[p] \in Four(Int)
    BY Zenon DEF Four
  <2> QED  BY <2>1 DEF Four
<1>3. PICK t00 \in Int, t01 \in Int, t02 \in Int, t03 \in Int :
        t00 = T[0][0] /\ t01 = T[0][1] /\ t02 = T[0][2] /\ t03 = T[0][3]
  <2>1. T[0][0] \in Int /\ T[0][1] \in Int /\ T[0][2] \in Int /\ T[0][3] \in Int
    BY <1>2
  <2> QED  BY <2>1
<1>4. PICK t10 \in Int, t11 \in Int, t12 \in Int, t13 \in Int :
        t10 = T[1][0] /\ t11 = T[1][1] /\ t12 = T[1][2] /\ t13 = T[1][3]
  <2>1. T[1][0] \in Int /\ T[1][1] \in Int /\ T[1][2] \in Int /\ T[1][3] \in Int
    BY <1>2
  <2> QED  BY <2>1
<1>5. PICK t20 \in Int, t21 \in Int, t22 \in Int, t23 \in Int :
        t20 = T[2][0] /\ t21 = T[2][1] /\ t22 = T[2][2] /\ t23 = T[2][3]
  <2>1. T[2][0] \in Int /\ T[2][1] \in Int /\ T[2][2] \in Int /\ T[2][3] \in Int
    BY <1>2
  <2> QED  BY <2>1
<1>6. PICK t30 \in Int, t31 \in Int, t32 \in Int, t33 \in Int :
        t30 = T[3][0] /\ t31 = T[3][1] /\ t32 = T[3][2] /\ t33 = T[3][3]
  <2>1. T[3][0] \in Int /\ T[3][1] \in Int /\ T[3][2] \in Int /\ T[3][3] \in Int
    BY <1>2
  <2> QED  BY <2>1
<1>2a. PICK e0 \in Int, e1 \in Int, e2 \in Int, e3 \in Int, e4 \in Int, e5 \in Int, e6 \in Int :
        /\ e0 = d[0] /\ e1 = d[1] /\ e2 = d[2] /\ e3 = d[3] /\ e4 = d[4] /\ e5 = d[5] /\ e6 = d[6]
        /\ e0 = t00 /\ e1 = t01 + t10 /\ e2 = t02 + t11 + t20 /\ e3 = t03 + t12 + t21 + t30
        /\ e4 = t13 + t22 + t31 /\ e5 = t23 + t32 /\ e6 = t33
  <2>1. /\ d[0] = t00 /\ d[1] = t01 + t10 /\ d[2] = t02 + t11 + t20 /\ d[3] = t03 + t12 + t21 + t30
        /\ d[4] = t13 + t22 + t31 /\ d[5] = t23 + t32 /\ d[6] = t33
    BY <1>1, <1>3, <1>4, <1>5, <1>6
  <2>2. /\ t01 + t10 \in Int /\ t02 + t11 + t20 \in Int /\ t03 + t12 + t21 + t30 \in Int
        /\ t13 + t22 + t31 \in Int /\ t23 + t32 \in Int
    OBVIOUS
  <2> QED  BY <2>1, <2>2
<1>7. Combined2(Alpha(1), T) = d[6]
  <2>1. /\ Alpha(1) \in Four(Int) /\ Alpha(1)[0] = 0 /\ Alpha(1)[1] = 0
        /\ Alpha(1)[2] = 0 /\ Alpha(1)[3] = 1
    BY AlphaIs
  <2>2. Combined2(Alpha(1), T)
          = 0 * (0 * t00 + 0 * t01 + 0 * t02 + 1 * t03)
              + 0 * (0 * t10 + 0 * t11 + 0 * t12 + 1 * t13)
              + 0 * (0 * t20 + 0 * t21 + 0 * t22 + 1 * t23)
              + 1 * (0 * t30 + 0 * t31 + 0 * t32 + 1 * t33)
    BY <1>3, <1>4, <1>5, <1>6, <2>1 DEF Combined2, Combined
  <2>3. Combined2(Alpha(1), T) = e6
    BY <1>2a, <2>2
  <2> QED  BY <1>2a, <2>3
<1>8. Combined2(Alpha(2), T) = d[0] + 2 * d[1] + 4 * d[2] + 8 * d[3] + 16 * d[4] + 32 * d[5] + 64 * d[6]
  <2>1. /\ Alpha(2) \in Four(Int) /\ Alpha(2)[0] = 1 /\ Alpha(2)[1] = 2
        /\ Alpha(2)[2] = 4 /\ Alpha(2)[3] = 8
    BY AlphaIs
  <2>2. Combined2(Alpha(2), T)
          = 1 * (1 * t00 + 2 * t01 + 4 * t02 + 8 * t03)
              + 2 * (1 * t10 + 2 * t11 + 4 * t12 + 8 * t13)
              + 4 * (1 * t20 + 2 * t21 + 4 * t22 + 8 * t23)
              + 8 * (1 * t30 + 2 * t31 + 4 * t32 + 8 * t33)
    BY <1>3, <1>4, <1>5, <1>6, <2>1 DEF Combined2, Combined
  <2>3. Combined2(Alpha(2), T) = e0 + 2 * e1 + 4 * e2 + 8 * e3 + 16 * e4 + 32 * e5 + 64 * e6
    BY <1>2a, <2>2
  <2> QED  BY <1>2a, <2>3
<1>9. Combined2(Alpha(3), T) = d[0] + d[1] + d[2] + d[3] + d[4] + d[5] + d[6]
  <2>1. /\ Alpha(3) \in Four(Int) /\ Alpha(3)[0] = 1 /\ Alpha(3)[1] = 1
        /\ Alpha(3)[2] = 1 /\ Alpha(3)[3] = 1
    BY AlphaIs
  <2>2. Combined2(Alpha(3), T)
          = 1 * (1 * t00 + 1 * t01 + 1 * t02 + 1 * t03)
              + 1 * (1 * t10 + 1 * t11 + 1 * t12 + 1 * t13)
              + 1 * (1 * t20 + 1 * t21 + 1 * t22 + 1 * t23)
              + 1 * (1 * t30 + 1 * t31 + 1 * t32 + 1 * t33)
    BY <1>3, <1>4, <1>5, <1>6, <2>1 DEF Combined2, Combined
  <2>3. Combined2(Alpha(3), T) = e0 + e1 + e2 + e3 + e4 + e5 + e6
    BY <1>2a, <2>2
  <2> QED  BY <1>2a, <2>3
<1>10. Combined2(Alpha(4), T) = d[0] - d[1] + d[2] - d[3] + d[4] - d[5] + d[6]
  <2>1. /\ Alpha(4) \in Four(Int) /\ Alpha(4)[0] = 1 /\ Alpha(4)[1] = -1
        /\ Alpha(4)[2] = 1 /\ Alpha(4)[3] = -1
    BY AlphaIs
  <2>2. Combined2(Alpha(4), T)
          = 1 * (1 * t00 + (-1) * t01 + 1 * t02 + (-1) * t03)
              + (-1) * (1 * t10 + (-1) * t11 + 1 * t12 + (-1) * t13)
              + 1 * (1 * t20 + (-1) * t21 + 1 * t22 + (-1) * t23)
              + (-1) * (1 * t30 + (-1) * t31 + 1 * t32 + (-1) * t33)
    BY <1>3, <1>4, <1>5, <1>6, <2>1 DEF Combined2, Combined
  <2>3. Combined2(Alpha(4), T) = e0 - e1 + e2 - e3 + e4 - e5 + e6
    BY <1>2a, <2>2
  <2> QED  BY <1>2a, <2>3
<1>11. Combined2(Alpha(5), T) = 64 * d[0] + 32 * d[1] + 16 * d[2] + 8 * d[3] + 4 * d[4] + 2 * d[5] + d[6]
  <2>1. /\ Alpha(5) \in Four(Int) /\ Alpha(5)[0] = 8 /\ Alpha(5)[1] = 4
        /\ Alpha(5)[2] = 2 /\ Alpha(5)[3] = 1
    BY AlphaIs
  <2>2. Combined2(Alpha(5), T)
          = 8 * (8 * t00 + 4 * t01 + 2 * t02 + 1 * t03)
              + 4 * (8 * t10 + 4 * t11 + 2 * t12 + 1 * t13)
              + 2 * (8 * t20 + 4 * t21 + 2 * t22 + 1 * t23)
              + 1 * (8 * t30 + 4 * t31 + 2 * t32 + 1 * t33)
    BY <1>3, <1>4, <1>5, <1>6, <2>1 DEF Combined2, Combined
  <2>3. Combined2(Alpha(5), T) = 64 * e0 + 32 * e1 + 16 * e2 + 8 * e3 + 4 * e4 + 2 * e5 + e6
    BY <1>2a, <2>2
  <2> QED  BY <1>2a, <2>3
<1>12. Combined2(Alpha(6), T) = 64 * d[0] - 32 * d[1] + 16 * d[2] - 8 * d[3] + 4 * d[4] - 2 * d[5] + d[6]
  <2>1. /\ Alpha(6) \in Four(Int) /\ Alpha(6)[0] = 8 /\ Alpha(6)[1] = -4
        /\ Alpha(6)[2] = 2 /\ Alpha(6)[3] = -1
    BY AlphaIs
  <2>2. Combined2(Alpha(6), T)
          = 8 * (8 * t00 + (-4) * t01 + 2 * t02 + (-1) * t03)
              + (-4) * (8 * t10 + (-4) * t11 + 2 * t12 + (-1) * t13)
              + 2 * (8 * t20 + (-4) * t21 + 2 * t22 + (-1) * t23)
              + (-1) * (8 * t30 + (-4) * t31 + 2 * t32 + (-1) * t33)
    BY <1>3, <1>4, <1>5, <1>6, <2>1 DEF Combined2, Combined
  <2>3. Combined2(Alpha(6), T) = 64 * e0 - 32 * e1 + 16 * e2 - 8 * e3 + 4 * e4 - 2 * e5 + e6
    BY <1>2a, <2>2
  <2> QED  BY <1>2a, <2>3
<1>13. Combined2(Alpha(7), T) = d[0]
  <2>1. /\ Alpha(7) \in Four(Int) /\ Alpha(7)[0] = 1 /\ Alpha(7)[1] = 0
        /\ Alpha(7)[2] = 0 /\ Alpha(7)[3] = 0
    BY AlphaIs
  <2>2. Combined2(Alpha(7), T)
          = 1 * (1 * t00 + 0 * t01 + 0 * t02 + 0 * t03)
              + 0 * (1 * t10 + 0 * t11 + 0 * t12 + 0 * t13)
              + 0 * (1 * t20 + 0 * t21 + 0 * t22 + 0 * t23)
              + 0 * (1 * t30 + 0 * t31 + 0 * t32 + 0 * t33)
    BY <1>3, <1>4, <1>5, <1>6, <2>1 DEF Combined2, Combined
  <2>3. Combined2(Alpha(7), T) = e0
    BY <1>2a, <2>2
  <2> QED  BY <1>2a, <2>3
<1> QED  BY <1>7, <1>8, <1>9, <1>10, <1>11, <1>12, <1>13

\* The products at the points.
LEMMA PointsRight ==
  ASSUME NEW x \in [0..N - 1 -> Word], NEW y \in [0..N - 1 -> Word], NEW n \in Int, NEW p \in [1..7 -> Word],
         \A point \in 1..7 : SameMod(p[point], Coeff(Evaluated(x, point), Evaluated(y, point), Blk, n), W)
  PROVE  /\ Table(Block(x), Block(y), Blk, n) \in Four(Four(Int))
         /\ AtPoints(p, Degrees(Table(Block(x), Block(y), Blk, n)))
<1> DEFINE T == Table(Block(x), Block(y), Blk, n)
           d == Degrees(T)
<1>0. Blk \in Nat /\ Blk \in Nat \ {0}
  BY QuartAssumption DEF Blk
<1>1. ASSUME NEW point \in 1..7
      PROVE  T \in Four(Four(Int)) /\ SameMod(p[point], Combined2(Alpha(point), T), W)
  <2>1. /\ Evaluated(x, point) \in Summands(Blk) /\ Evaluated(y, point) \in Summands(Blk)
        /\ Block(x) \in Four(Summands(Blk)) /\ Block(y) \in Four(Summands(Blk))
        /\ Alpha(point) \in Four(Int)
        /\ Combines(Evaluated(x, point), Alpha(point), Block(x), Blk)
        /\ Combines(Evaluated(y, point), Alpha(point), Block(y), Blk)
    BY EvaluatedIs, BlocksAre, WordBlockInt, AlphaIs
  <2>2. /\ T \in Four(Four(Int))
        /\ SameMod(Coeff(Evaluated(x, point), Evaluated(y, point), Blk, n), Combined2(Alpha(point), T), W)
    BY <1>0, <2>1, PointProduct
  <2>3. /\ Coeff(Evaluated(x, point), Evaluated(y, point), Blk, n) \in Int
    BY <1>0, <2>1, ConvTermsAt
  <2>4. Combined2(Alpha(point), T) \in Int
    <3>1. \A q \in 0..3 : T[q] \in Four(Int)
      BY <2>2, Zenon DEF Four
    <3>2. \A q \in 0..3 : Combined(Alpha(point), T[q]) \in Int
      BY <2>1, <3>1, CombinedInt
    <3>3. [q \in 0..3 |-> Combined(Alpha(point), T[q])] \in Four(Int)
      BY <3>2 DEF Four
    <3> QED  BY <2>1, <3>3, CombinedInt DEF Combined2
  <2>5. p[point] \in Int
    BY DEF Word
  <2>6. PICK u \in Int, v \in Int, w0 \in Int :
          /\ u = p[point] /\ v = Coeff(Evaluated(x, point), Evaluated(y, point), Blk, n)
          /\ w0 = Combined2(Alpha(point), T)
    BY <2>3, <2>4, <2>5
  <2>7. SameMod(u, v, W) /\ SameMod(v, w0, W)
    BY <2>2, <2>6
  <2>8. SameMod(u, w0, W)
    BY <2>7, WordFacts, SameModFacts
  <2> QED  BY <2>2, <2>6, <2>8
<1>2. T \in Four(Four(Int))
  BY <1>1
<1> HIDE DEF T
<1>3. /\ SameMod(p[1], Combined2(Alpha(1), T), W) /\ SameMod(p[2], Combined2(Alpha(2), T), W)
      /\ SameMod(p[3], Combined2(Alpha(3), T), W) /\ SameMod(p[4], Combined2(Alpha(4), T), W)
      /\ SameMod(p[5], Combined2(Alpha(5), T), W) /\ SameMod(p[6], Combined2(Alpha(6), T), W)
      /\ SameMod(p[7], Combined2(Alpha(7), T), W)
  BY <1>1
<1> HIDE DEF d
<1>4. /\ Combined2(Alpha(1), T) = d[6]
      /\ Combined2(Alpha(2), T) = d[0] + 2 * d[1] + 4 * d[2] + 8 * d[3] + 16 * d[4] + 32 * d[5] + 64 * d[6]
      /\ Combined2(Alpha(3), T) = d[0] + d[1] + d[2] + d[3] + d[4] + d[5] + d[6]
      /\ Combined2(Alpha(4), T) = d[0] - d[1] + d[2] - d[3] + d[4] - d[5] + d[6]
      /\ Combined2(Alpha(5), T) = 64 * d[0] + 32 * d[1] + 16 * d[2] + 8 * d[3] + 4 * d[4] + 2 * d[5] + d[6]
      /\ Combined2(Alpha(6), T) = 64 * d[0] - 32 * d[1] + 16 * d[2] - 8 * d[3] + 4 * d[4] - 2 * d[5] + d[6]
      /\ Combined2(Alpha(7), T) = d[0]
  <2>1. d = Degrees(T)
    BY DEF d
  <2> QED  BY <1>2, <2>1, SquaresAre
<1>5. AtPoints(p, d)
  BY <1>3, <1>4 DEF AtPoints
<1> QED  BY <1>2, <1>5 DEF T, d

----------------------------------------------------------------------------
(* The product of the polynomials in blocks, and modulo X^N + 1.           *)

\* Coefficient n of the coefficient of degree m of the product in the point.
Degree(x, y, m, n) == IF m \in 0..6 THEN Degrees(Table(Block(x), Block(y), Blk, n))[m] ELSE 0

\* A product of two blocks, at one word.
LEMMA TableEntry ==
  ASSUME NEW x \in [0..N - 1 -> Word], NEW y \in [0..N - 1 -> Word], NEW n \in Int, NEW p \in 0..3, NEW q \in 0..3
  PROVE  /\ Coeff(Block(x)[p], Block(y)[q], Blk, n) \in Int
         /\ Table(Block(x), Block(y), Blk, n)[p][q] = Coeff(Block(x)[p], Block(y)[q], Blk, n)
         /\ n \notin 0..(2 * Blk) - 2 => Coeff(Block(x)[p], Block(y)[q], Blk, n) = 0
<1>0. Blk \in Nat
  BY QuartAssumption DEF Blk
<1>1. Block(x)[p] \in Summands(Blk) /\ Block(y)[q] \in Summands(Blk)
  BY BlocksAre, WordBlockInt
<1>2. /\ Coeff(Block(x)[p], Block(y)[q], Blk, n) \in Int
      /\ n \notin 0..(2 * Blk) - 2 => Coeff(Block(x)[p], Block(y)[q], Blk, n) = 0
  BY <1>0, <1>1, ConvTermsAt, CoeffOutside
<1> QED  BY <1>2 DEF Table

\* The table of the products of all the blocks holds integers, zeros outside of them.
LEMMA TableIs ==
  ASSUME NEW x \in [0..N - 1 -> Word], NEW y \in [0..N - 1 -> Word], NEW n \in Int
  PROVE  /\ Table(Block(x), Block(y), Blk, n) \in Four(Four(Int))
         /\ n \notin 0..(2 * Blk) - 2 => \A p, q \in 0..3 : Table(Block(x), Block(y), Blk, n)[p][q] = 0
<1>1. \A p \in 0..3 : [q \in 0..3 |-> Coeff(Block(x)[p], Block(y)[q], Blk, n)] \in Four(Int)
  BY TableEntry DEF Four
<1>2. Table(Block(x), Block(y), Blk, n) \in Four(Four(Int))
  <2> HIDE DEF Four
  <2>1. Table(Block(x), Block(y), Blk, n) \in [0..3 -> Four(Int)]
    BY <1>1 DEF Table
  <2> QED  BY <2>1 DEF Four
<1>3. ASSUME NEW p \in 0..3, NEW q \in 0..3, n \notin 0..(2 * Blk) - 2
      PROVE  Table(Block(x), Block(y), Blk, n)[p][q] = 0
  <2>1. Table(Block(x), Block(y), Blk, n)[p][q] = Coeff(Block(x)[p], Block(y)[q], Blk, n)
    BY DEF Table
  <2>2. Coeff(Block(x)[p], Block(y)[q], Blk, n) = 0
    <3>1. Blk \in Nat /\ Block(x)[p] \in Summands(Blk) /\ Block(y)[q] \in Summands(Blk)
      <4>1. Blk \in Nat
        BY QuartAssumption DEF Blk
      <4> QED  BY <4>1, BlocksAre, WordBlockInt
    <3> QED  BY <1>3, <3>1, CoeffOutside
  <2> QED  BY <2>1, <2>2
<1> QED  BY <1>2, <1>3

\* Degrees outside of 0..6, and words outside of a product of blocks, have nothing.
LEMMA DegreeIs ==
  ASSUME NEW x \in [0..N - 1 -> Word], NEW y \in [0..N - 1 -> Word], NEW n \in Int
  PROVE  /\ \A m \in Int : /\ Degree(x, y, m, n) \in Int
                           /\ m \notin 0..6 => Degree(x, y, m, n) = 0
                           /\ n \notin 0..(2 * Blk) - 2 => Degree(x, y, m, n) = 0
         /\ Degrees(Table(Block(x), Block(y), Blk, n)) \in Seven(Int)
<1> DEFINE T == Table(Block(x), Block(y), Blk, n)
<1>1. T \in Four(Four(Int))
  BY TableIs
<1>2. n \notin 0..(2 * Blk) - 2 => \A p, q \in 0..3 : T[p][q] = 0
  BY TableIs
<1> HIDE DEF T
<1>3. Degrees(T) \in Seven(Int)
  BY <1>1, DegreesAre
<1>4. \A m \in 0..6 : Degrees(T)[m] \in Int
  BY <1>3 DEF Seven
<1>5. ASSUME n \notin 0..(2 * Blk) - 2, NEW m \in 0..6 PROVE Degrees(T)[m] = 0
  <2>1. \A p, q \in 0..3 : T[p][q] = 0
    BY <1>2, <1>5
  <2>2. m = 0 \/ m = 1 \/ m = 2 \/ m = 3 \/ m = 4 \/ m = 5 \/ m = 6
    OBVIOUS
  <2> QED  BY <1>1, <2>1, <2>2, DegreesAre
<1> QED  BY <1>3, <1>4, <1>5 DEF Degree, T

\* x in two halves.
Halved(x, x0, x1, l) ==
  /\ l \in Nat \ {0} /\ x \in Summands(2 * l) /\ x0 \in Summands(l) /\ x1 \in Summands(l)
  /\ Halves(x, x0, x1, l)

\* A product in halves, in one predicate.
LEMMA CoeffHalved ==
  ASSUME NEW l, NEW x, NEW x0, NEW x1, NEW y, NEW y0, NEW y1, Halved(x, x0, x1, l), Halved(y, y0, y1, l),
         NEW n \in Int
  PROVE  Coeff(x, y, 2 * l, n)
           = (Coeff(x0, y0, l, n) + Coeff(x0, y1, l, n - l))
               + (Coeff(x1, y0, l, n - l) + Coeff(x1, y1, l, (n - l) - l))
BY CoeffHalves DEF Halved

\* Coefficient n of the product of two polynomials of N words.
LEMMA CoeffBlocks ==
  ASSUME NEW x \in [0..N - 1 -> Word], NEW y \in [0..N - 1 -> Word], NEW n \in Int
  PROVE  /\ Coeff(x, y, N, n) \in Int
         /\ Coeff(x, y, N, n)
              = Degree(x, y, 0, n) + Degree(x, y, 1, n - Blk) + Degree(x, y, 2, n - (2 * Blk))
                  + Degree(x, y, 3, n - (3 * Blk)) + Degree(x, y, 4, n - (4 * Blk))
                  + Degree(x, y, 5, n - (5 * Blk)) + Degree(x, y, 6, n - (6 * Blk))
<1> DEFINE half(z, k) == [j \in 0..(2 * Blk) - 1 |-> z[j + (k * (2 * Blk))]]
           X == Block(x)
           Y == Block(y)
           C(p, q, m) == Coeff(X[p], Y[q], Blk, m)
<1>0. /\ Blk \in Nat \ {0} /\ 2 * Blk \in Nat \ {0} /\ N = 2 * (2 * Blk) /\ N = 4 * Blk /\ N \in Nat \ {0}
  BY QuartAssumption DEF Blk, N
<1>1. ASSUME NEW z \in [0..N - 1 -> Word]
      PROVE  /\ z \in Summands(N) /\ half(z, 0) \in Summands(2 * Blk) /\ half(z, 1) \in Summands(2 * Blk)
             /\ \A q \in 0..3 : Block(z)[q] \in Summands(Blk)
             /\ Halves(z, half(z, 0), half(z, 1), 2 * Blk)
             /\ Halves(half(z, 0), Block(z)[0], Block(z)[1], Blk)
             /\ Halves(half(z, 1), Block(z)[2], Block(z)[3], Blk)
  <2>1. z \in Summands(N) /\ \A j \in 0..N - 1 : z[j] \in Int
    BY DEF Summands, Word
  <2>2. \A j \in 0..(2 * Blk) - 1 : /\ j + (0 * (2 * Blk)) \in 0..N - 1 /\ j + (1 * (2 * Blk)) \in 0..N - 1
                                    /\ j + (0 * (2 * Blk)) = j /\ j + (1 * (2 * Blk)) = j + (2 * Blk)
    BY <1>0
  <2>3. half(z, 0) \in Summands(2 * Blk) /\ half(z, 1) \in Summands(2 * Blk)
    BY <2>1, <2>2 DEF Summands
  <2>4. Halves(z, half(z, 0), half(z, 1), 2 * Blk)
    BY <2>2 DEF Halves
  <2>5. ASSUME NEW j \in 0..Blk - 1
        PROVE  /\ half(z, 0)[j] = Block(z)[0][j] /\ half(z, 0)[j + Blk] = Block(z)[1][j]
               /\ half(z, 1)[j] = Block(z)[2][j] /\ half(z, 1)[j + Blk] = Block(z)[3][j]
    <3>1. j \in 0..(2 * Blk) - 1 /\ j + Blk \in 0..(2 * Blk) - 1
      BY <1>0
    <3>2. /\ j + (0 * (2 * Blk)) = j + (0 * Blk) /\ (j + Blk) + (0 * (2 * Blk)) = j + (1 * Blk)
          /\ j + (1 * (2 * Blk)) = j + (2 * Blk) /\ (j + Blk) + (1 * (2 * Blk)) = j + (3 * Blk)
      BY <1>0
    <3> QED  BY <3>1, <3>2 DEF Block
  <2>6. \A q \in 0..3 : Block(z)[q] \in Summands(Blk)
    BY BlocksAre, WordBlockInt
  <2> HIDE DEF half
  <2> QED  BY <2>1, <2>3, <2>4, <2>5, <2>6 DEF Halves
<1>2. \A q \in 0..3 : X[q] \in Summands(Blk) /\ Y[q] \in Summands(Blk)
  BY <1>1
<1> DEFINE x0 == half(x, 0)
           x1 == half(x, 1)
           y0 == half(y, 0)
           y1 == half(y, 1)
<1>3. /\ x \in Summands(N) /\ y \in Summands(N)
      /\ x0 \in Summands(2 * Blk) /\ x1 \in Summands(2 * Blk) /\ y0 \in Summands(2 * Blk) /\ y1 \in Summands(2 * Blk)
      /\ Halves(x, x0, x1, 2 * Blk) /\ Halves(y, y0, y1, 2 * Blk)
      /\ Halves(x0, X[0], X[1], Blk) /\ Halves(x1, X[2], X[3], Blk)
      /\ Halves(y0, Y[0], Y[1], Blk) /\ Halves(y1, Y[2], Y[3], Blk)
  BY <1>1
<1> HIDE DEF half, x0, x1, y0, y1, X, Y
<1>h. /\ Halved(x, x0, x1, 2 * Blk) /\ Halved(y, y0, y1, 2 * Blk)
      /\ Halved(x0, X[0], X[1], Blk) /\ Halved(x1, X[2], X[3], Blk)
      /\ Halved(y0, Y[0], Y[1], Blk) /\ Halved(y1, Y[2], Y[3], Blk)
  BY <1>0, <1>2, <1>3 DEF Halved
<1>4. PICK n1 \in Int, n2 \in Int, n3 \in Int, n4 \in Int, n5 \in Int, n6 \in Int :
        /\ n1 = n - Blk /\ n2 = n - (2 * Blk) /\ n3 = n - (3 * Blk)
        /\ n4 = n - (4 * Blk) /\ n5 = n - (5 * Blk) /\ n6 = n - (6 * Blk)
  <2>1. /\ n - Blk \in Int /\ n - (2 * Blk) \in Int /\ n - (3 * Blk) \in Int
        /\ n - (4 * Blk) \in Int /\ n - (5 * Blk) \in Int /\ n - (6 * Blk) \in Int
    BY <1>0
  <2> QED  BY <2>1
<1>5. /\ n1 = n - Blk /\ n2 = n1 - Blk /\ n3 = n2 - Blk /\ n4 = n3 - Blk /\ n5 = n4 - Blk /\ n6 = n5 - Blk
      /\ n2 = n - (2 * Blk) /\ n4 = n2 - (2 * Blk)
  BY <1>0, <1>4
<1>6. Coeff(x, y, N, n) = (Coeff(x0, y0, 2 * Blk, n) + Coeff(x0, y1, 2 * Blk, n2))
                            + (Coeff(x1, y0, 2 * Blk, n2) + Coeff(x1, y1, 2 * Blk, n4))
  <2>1. Coeff(x, y, 2 * (2 * Blk), n)
          = (Coeff(x0, y0, 2 * Blk, n) + Coeff(x0, y1, 2 * Blk, n - (2 * Blk)))
              + (Coeff(x1, y0, 2 * Blk, n - (2 * Blk)) + Coeff(x1, y1, 2 * Blk, (n - (2 * Blk)) - (2 * Blk)))
    BY <1>h, CoeffHalved
  <2> QED  BY <1>0, <1>5, <2>1
<1>7. Coeff(x0, y0, 2 * Blk, n) = (C(0, 0, n) + C(0, 1, n1)) + (C(1, 0, n1) + C(1, 1, n2))
  <2>1. Coeff(x0, y0, 2 * Blk, n) = (C(0, 0, n) + C(0, 1, n - Blk)) + (C(1, 0, n - Blk) + C(1, 1, (n - Blk) - Blk))
    BY <1>h, CoeffHalved
  <2> QED  BY <1>5, <2>1
<1>8. Coeff(x0, y1, 2 * Blk, n2) = (C(0, 2, n2) + C(0, 3, n3)) + (C(1, 2, n3) + C(1, 3, n4))
  <2>1. Coeff(x0, y1, 2 * Blk, n2)
          = (C(0, 2, n2) + C(0, 3, n2 - Blk)) + (C(1, 2, n2 - Blk) + C(1, 3, (n2 - Blk) - Blk))
    BY <1>h, CoeffHalved
  <2> QED  BY <1>5, <2>1
<1>9. Coeff(x1, y0, 2 * Blk, n2) = (C(2, 0, n2) + C(2, 1, n3)) + (C(3, 0, n3) + C(3, 1, n4))
  <2>1. Coeff(x1, y0, 2 * Blk, n2)
          = (C(2, 0, n2) + C(2, 1, n2 - Blk)) + (C(3, 0, n2 - Blk) + C(3, 1, (n2 - Blk) - Blk))
    BY <1>h, CoeffHalved
  <2> QED  BY <1>5, <2>1
<1>10. Coeff(x1, y1, 2 * Blk, n4) = (C(2, 2, n4) + C(2, 3, n5)) + (C(3, 2, n5) + C(3, 3, n6))
  <2>1. Coeff(x1, y1, 2 * Blk, n4)
          = (C(2, 2, n4) + C(2, 3, n4 - Blk)) + (C(3, 2, n4 - Blk) + C(3, 3, (n4 - Blk) - Blk))
    BY <1>h, CoeffHalved
  <2> QED  BY <1>5, <2>1
<1>11. ASSUME NEW m \in Int, NEW p \in 0..3, NEW q \in 0..3
       PROVE  C(p, q, m) \in Int /\ Table(X, Y, Blk, m)[p][q] = C(p, q, m)
  <2>1. Coeff(Block(x)[p], Block(y)[q], Blk, m) \in Int
    BY TableEntry
  <2>2. Table(Block(x), Block(y), Blk, m)[p][q] = Coeff(Block(x)[p], Block(y)[q], Blk, m)
    BY DEF Table
  <2> QED  BY <2>1, <2>2 DEF X, Y
<1>12. \A m \in Int : Table(X, Y, Blk, m) \in Four(Four(Int))
  BY TableIs DEF X, Y
<1>13. ASSUME NEW m \in Int
       PROVE  /\ Degree(x, y, 0, m) = C(0, 0, m) /\ Degree(x, y, 1, m) = C(0, 1, m) + C(1, 0, m)
              /\ Degree(x, y, 2, m) = C(0, 2, m) + C(1, 1, m) + C(2, 0, m)
              /\ Degree(x, y, 3, m) = C(0, 3, m) + C(1, 2, m) + C(2, 1, m) + C(3, 0, m)
              /\ Degree(x, y, 4, m) = C(1, 3, m) + C(2, 2, m) + C(3, 1, m)
              /\ Degree(x, y, 5, m) = C(2, 3, m) + C(3, 2, m) /\ Degree(x, y, 6, m) = C(3, 3, m)
  <2>1. PICK T \in Four(Four(Int)) : T = Table(X, Y, Blk, m)
    BY <1>12
  <2>2. \A p, q \in 0..3 : T[p][q] = C(p, q, m)
    BY <1>11, <2>1
  <2>3. /\ Degrees(T)[0] = T[0][0] /\ Degrees(T)[1] = T[0][1] + T[1][0]
        /\ Degrees(T)[2] = T[0][2] + T[1][1] + T[2][0]
        /\ Degrees(T)[3] = T[0][3] + T[1][2] + T[2][1] + T[3][0]
        /\ Degrees(T)[4] = T[1][3] + T[2][2] + T[3][1]
        /\ Degrees(T)[5] = T[2][3] + T[3][2] /\ Degrees(T)[6] = T[3][3]
    BY DegreesAre
  <2>4. \A k \in 0..6 : Degree(x, y, k, m) = Degrees(T)[k]
    BY <2>1 DEF Degree, X, Y
  <2> HIDE DEF C
  <2> QED  BY <2>2, <2>3, <2>4
<1> HIDE DEF C
<1>14. Coeff(x, y, N, n)
         = Degree(x, y, 0, n) + Degree(x, y, 1, n1) + Degree(x, y, 2, n2) + Degree(x, y, 3, n3)
             + Degree(x, y, 4, n4) + Degree(x, y, 5, n5) + Degree(x, y, 6, n6)
  <2>0. ASSUME NEW m \in Int
        PROVE  /\ C(0, 0, m) \in Int /\ C(0, 1, m) \in Int /\ C(0, 2, m) \in Int /\ C(0, 3, m) \in Int
               /\ C(1, 0, m) \in Int /\ C(1, 1, m) \in Int /\ C(1, 2, m) \in Int /\ C(1, 3, m) \in Int
               /\ C(2, 0, m) \in Int /\ C(2, 1, m) \in Int /\ C(2, 2, m) \in Int /\ C(2, 3, m) \in Int
               /\ C(3, 0, m) \in Int /\ C(3, 1, m) \in Int /\ C(3, 2, m) \in Int /\ C(3, 3, m) \in Int
    <3>1. 0 \in 0..3 /\ 1 \in 0..3 /\ 2 \in 0..3 /\ 3 \in 0..3
      OBVIOUS
    <3> QED  BY <1>11, <3>1, Zenon
  <2>1. PICK c00 \in Int, c01 \in Int, c10 \in Int, c11 \in Int :
          c00 = C(0, 0, n) /\ c01 = C(0, 1, n1) /\ c10 = C(1, 0, n1) /\ c11 = C(1, 1, n2)
    <3>1. C(0, 0, n) \in Int /\ C(0, 1, n1) \in Int /\ C(1, 0, n1) \in Int /\ C(1, 1, n2) \in Int
      BY <2>0
    <3> QED  BY <3>1
  <2>2. PICK c02 \in Int, c03 \in Int, c12 \in Int, c13 \in Int :
          c02 = C(0, 2, n2) /\ c03 = C(0, 3, n3) /\ c12 = C(1, 2, n3) /\ c13 = C(1, 3, n4)
    <3>1. C(0, 2, n2) \in Int /\ C(0, 3, n3) \in Int /\ C(1, 2, n3) \in Int /\ C(1, 3, n4) \in Int
      BY <2>0
    <3> QED  BY <3>1
  <2>3. PICK c20 \in Int, c21 \in Int, c30 \in Int, c31 \in Int :
          c20 = C(2, 0, n2) /\ c21 = C(2, 1, n3) /\ c30 = C(3, 0, n3) /\ c31 = C(3, 1, n4)
    <3>1. C(2, 0, n2) \in Int /\ C(2, 1, n3) \in Int /\ C(3, 0, n3) \in Int /\ C(3, 1, n4) \in Int
      BY <2>0
    <3> QED  BY <3>1
  <2>4. PICK c22 \in Int, c23 \in Int, c32 \in Int, c33 \in Int :
          c22 = C(2, 2, n4) /\ c23 = C(2, 3, n5) /\ c32 = C(3, 2, n5) /\ c33 = C(3, 3, n6)
    <3>1. C(2, 2, n4) \in Int /\ C(2, 3, n5) \in Int /\ C(3, 2, n5) \in Int /\ C(3, 3, n6) \in Int
      BY <2>0
    <3> QED  BY <3>1
  <2>5. Coeff(x, y, N, n)
          = (((c00 + c01) + (c10 + c11)) + ((c02 + c03) + (c12 + c13)))
              + (((c20 + c21) + (c30 + c31)) + ((c22 + c23) + (c32 + c33)))
    BY <1>6, <1>7, <1>8, <1>9, <1>10, <2>1, <2>2, <2>3, <2>4
  <2>6. /\ Degree(x, y, 0, n) = c00 /\ Degree(x, y, 1, n1) = c01 + c10
        /\ Degree(x, y, 2, n2) = c02 + c11 + c20 /\ Degree(x, y, 3, n3) = c03 + c12 + c21 + c30
        /\ Degree(x, y, 4, n4) = c13 + c22 + c31 /\ Degree(x, y, 5, n5) = c23 + c32
        /\ Degree(x, y, 6, n6) = c33
    BY <1>13, <2>1, <2>2, <2>3, <2>4
  <2>7. PICK e0 \in Int, e1 \in Int, e2 \in Int, e3 \in Int, e4 \in Int, e5 \in Int, e6 \in Int :
          /\ e0 = c00 /\ e1 = c01 + c10 /\ e2 = c02 + c11 + c20 /\ e3 = c03 + c12 + c21 + c30
          /\ e4 = c13 + c22 + c31 /\ e5 = c23 + c32 /\ e6 = c33
    OBVIOUS
  <2>8. Coeff(x, y, N, n) = e0 + e1 + e2 + e3 + e4 + e5 + e6
    BY <2>5, <2>7
  <2> QED  BY <2>6, <2>7, <2>8
<1>15. Coeff(x, y, N, n) \in Int
  BY <1>0, <1>3, ConvTermsAt
<1> QED  BY <1>4, <1>14, <1>15

\* At word e of block s, two of the degrees meet.
LEMMA CoeffInBlock ==
  ASSUME NEW x \in [0..N - 1 -> Word], NEW y \in [0..N - 1 -> Word], NEW s \in 0..7, NEW e \in 0..Blk - 1
  PROVE  Coeff(x, y, N, (s * Blk) + e) = Degree(x, y, s, e) + Degree(x, y, s - 1, e + Blk)
<1>0. Blk \in Nat \ {0} /\ e \in Int
  BY QuartAssumption DEF Blk
<1> DEFINE D(m, n) == Degree(x, y, m, n)
<1>1. ASSUME NEW n \in Int
      PROVE  /\ Coeff(x, y, N, n)
                  = D(0, n) + D(1, n - Blk) + D(2, n - (2 * Blk)) + D(3, n - (3 * Blk)) + D(4, n - (4 * Blk))
                      + D(5, n - (5 * Blk)) + D(6, n - (6 * Blk))
  BY CoeffBlocks
<1>2. ASSUME NEW n \in Int, NEW m \in Int PROVE D(m, n) \in Int
  BY DegreeIs
<1>2a. ASSUME NEW n \in Int, NEW m \in {-1, 7} PROVE D(m, n) = 0
  BY DEF Degree
<1>2b. ASSUME NEW n \in Int, NEW m \in Int, n < 0 \/ n > (2 * Blk) - 2 PROVE D(m, n) = 0
  <2>1. n \notin 0..(2 * Blk) - 2
    BY <1>0, <1>2b
  <2>2. n \notin 0..(2 * Blk) - 2 => Degree(x, y, m, n) = 0
    BY DegreeIs
  <2> QED  BY <2>1, <2>2
<1> HIDE DEF D
<1>3. \A m \in Int : /\ \A k \in 1..7 : D(m, e - (k * Blk)) = 0
                    /\ \A k \in 2..7 : D(m, e + (k * Blk)) = 0
  <2>1. ASSUME NEW k \in 1..7 PROVE e - (k * Blk) \in Int /\ e - (k * Blk) < 0
    <3>1. k = 1 \/ k = 2 \/ k = 3 \/ k = 4 \/ k = 5 \/ k = 6 \/ k = 7
      OBVIOUS
    <3> QED  BY <1>0, <3>1
  <2>2. ASSUME NEW k \in 2..7 PROVE e + (k * Blk) \in Int /\ e + (k * Blk) > (2 * Blk) - 2
    <3>1. k = 2 \/ k = 3 \/ k = 4 \/ k = 5 \/ k = 6 \/ k = 7
      OBVIOUS
    <3> QED  BY <1>0, <3>1
  <2> QED  BY <1>2b, <2>1, <2>2
<1>4. \A k \in {-1, 7} : D(k, e) = 0 /\ D(k, e + Blk) = 0
  <2>1. e + Blk \in Int
    BY <1>0
  <2> QED  BY <1>0, <1>2a, <2>1
<1>5. ASSUME NEW m \in Int PROVE D(m, e) \in Int /\ D(m, e + Blk) \in Int
  <2>1. e + Blk \in Int
    BY <1>0
  <2> QED  BY <1>0, <1>2, <2>1
<1>6. CASE s = 0
  <2>1. PICK n \in Int : n = (s * Blk) + e /\ n = (0 * Blk) + e
    BY <1>0, <1>6
  <2>2. /\ n = e /\ n - Blk = e - (1 * Blk) /\ n - (2 * Blk) = e - (2 * Blk) /\ n - (3 * Blk) = e - (3 * Blk)
        /\ n - (4 * Blk) = e - (4 * Blk) /\ n - (5 * Blk) = e - (5 * Blk) /\ n - (6 * Blk) = e - (6 * Blk)
    BY <1>0, <2>1
  <2>3. /\ D(1, e - (1 * Blk)) = 0
        /\ D(2, e - (2 * Blk)) = 0
        /\ D(3, e - (3 * Blk)) = 0
        /\ D(4, e - (4 * Blk)) = 0
        /\ D(5, e - (5 * Blk)) = 0
        /\ D(6, e - (6 * Blk)) = 0
    BY <1>3
  <2>4. Coeff(x, y, N, n) = D(0, e) + 0 + 0 + 0 + 0 + 0 + 0
    BY <1>1, <2>2, <2>3
  <2>5. D(0, e) \in Int /\ D(-1, e + Blk) \in Int
    <3>1. 0 \in Int /\ -1 \in Int
      OBVIOUS
    <3> QED  BY <1>5, <3>1, Zenon
  <2>6. Coeff(x, y, N, n) = D(0, e) + D(-1, e + Blk)
    BY <1>4, <2>4, <2>5
  <2>7. s - 1 = -1
    BY <1>6
  <2> QED  BY <1>6, <2>1, <2>6, <2>7 DEF D
<1>7. CASE s = 1
  <2>1. PICK n \in Int : n = (s * Blk) + e /\ n = (1 * Blk) + e
    BY <1>0, <1>7
  <2>2. /\ n = e + Blk /\ n - Blk = e /\ n - (2 * Blk) = e - (1 * Blk) /\ n - (3 * Blk) = e - (2 * Blk)
        /\ n - (4 * Blk) = e - (3 * Blk) /\ n - (5 * Blk) = e - (4 * Blk) /\ n - (6 * Blk) = e - (5 * Blk)
    BY <1>0, <2>1
  <2>3. /\ D(2, e - (1 * Blk)) = 0
        /\ D(3, e - (2 * Blk)) = 0
        /\ D(4, e - (3 * Blk)) = 0
        /\ D(5, e - (4 * Blk)) = 0
        /\ D(6, e - (5 * Blk)) = 0
    BY <1>3
  <2>4. Coeff(x, y, N, n) = D(0, e + Blk) + D(1, e) + 0 + 0 + 0 + 0 + 0
    BY <1>1, <2>2, <2>3
  <2>5. D(1, e) \in Int /\ D(0, e + Blk) \in Int
    <3>1. 1 \in Int /\ 0 \in Int
      OBVIOUS
    <3> QED  BY <1>5, <3>1, Zenon
  <2>6. Coeff(x, y, N, n) = D(1, e) + D(0, e + Blk)
    BY <1>4, <2>4, <2>5
  <2>7. s - 1 = 0
    BY <1>7
  <2> QED  BY <1>7, <2>1, <2>6, <2>7 DEF D
<1>8. CASE s = 2
  <2>1. PICK n \in Int : n = (s * Blk) + e /\ n = (2 * Blk) + e
    BY <1>0, <1>8
  <2>2. /\ n = e + (2 * Blk) /\ n - Blk = e + Blk /\ n - (2 * Blk) = e /\ n - (3 * Blk) = e - (1 * Blk)
        /\ n - (4 * Blk) = e - (2 * Blk) /\ n - (5 * Blk) = e - (3 * Blk) /\ n - (6 * Blk) = e - (4 * Blk)
    BY <1>0, <2>1
  <2>3. /\ D(0, e + (2 * Blk)) = 0
        /\ D(3, e - (1 * Blk)) = 0
        /\ D(4, e - (2 * Blk)) = 0
        /\ D(5, e - (3 * Blk)) = 0
        /\ D(6, e - (4 * Blk)) = 0
    BY <1>3
  <2>4. Coeff(x, y, N, n) = 0 + D(1, e + Blk) + D(2, e) + 0 + 0 + 0 + 0
    BY <1>1, <2>2, <2>3
  <2>5. D(2, e) \in Int /\ D(1, e + Blk) \in Int
    <3>1. 2 \in Int /\ 1 \in Int
      OBVIOUS
    <3> QED  BY <1>5, <3>1, Zenon
  <2>6. Coeff(x, y, N, n) = D(2, e) + D(1, e + Blk)
    BY <1>4, <2>4, <2>5
  <2>7. s - 1 = 1
    BY <1>8
  <2> QED  BY <1>8, <2>1, <2>6, <2>7 DEF D
<1>9. CASE s = 3
  <2>1. PICK n \in Int : n = (s * Blk) + e /\ n = (3 * Blk) + e
    BY <1>0, <1>9
  <2>2. /\ n = e + (3 * Blk) /\ n - Blk = e + (2 * Blk) /\ n - (2 * Blk) = e + Blk /\ n - (3 * Blk) = e
        /\ n - (4 * Blk) = e - (1 * Blk) /\ n - (5 * Blk) = e - (2 * Blk) /\ n - (6 * Blk) = e - (3 * Blk)
    BY <1>0, <2>1
  <2>3. /\ D(0, e + (3 * Blk)) = 0
        /\ D(1, e + (2 * Blk)) = 0
        /\ D(4, e - (1 * Blk)) = 0
        /\ D(5, e - (2 * Blk)) = 0
        /\ D(6, e - (3 * Blk)) = 0
    BY <1>3
  <2>4. Coeff(x, y, N, n) = 0 + 0 + D(2, e + Blk) + D(3, e) + 0 + 0 + 0
    BY <1>1, <2>2, <2>3
  <2>5. D(3, e) \in Int /\ D(2, e + Blk) \in Int
    <3>1. 3 \in Int /\ 2 \in Int
      OBVIOUS
    <3> QED  BY <1>5, <3>1, Zenon
  <2>6. Coeff(x, y, N, n) = D(3, e) + D(2, e + Blk)
    BY <1>4, <2>4, <2>5
  <2>7. s - 1 = 2
    BY <1>9
  <2> QED  BY <1>9, <2>1, <2>6, <2>7 DEF D
<1>10. CASE s = 4
  <2>1. PICK n \in Int : n = (s * Blk) + e /\ n = (4 * Blk) + e
    BY <1>0, <1>10
  <2>2. /\ n = e + (4 * Blk) /\ n - Blk = e + (3 * Blk) /\ n - (2 * Blk) = e + (2 * Blk) /\ n - (3 * Blk) = e + Blk
        /\ n - (4 * Blk) = e /\ n - (5 * Blk) = e - (1 * Blk) /\ n - (6 * Blk) = e - (2 * Blk)
    BY <1>0, <2>1
  <2>3. /\ D(0, e + (4 * Blk)) = 0
        /\ D(1, e + (3 * Blk)) = 0
        /\ D(2, e + (2 * Blk)) = 0
        /\ D(5, e - (1 * Blk)) = 0
        /\ D(6, e - (2 * Blk)) = 0
    BY <1>3
  <2>4. Coeff(x, y, N, n) = 0 + 0 + 0 + D(3, e + Blk) + D(4, e) + 0 + 0
    BY <1>1, <2>2, <2>3
  <2>5. D(4, e) \in Int /\ D(3, e + Blk) \in Int
    <3>1. 4 \in Int /\ 3 \in Int
      OBVIOUS
    <3> QED  BY <1>5, <3>1, Zenon
  <2>6. Coeff(x, y, N, n) = D(4, e) + D(3, e + Blk)
    BY <1>4, <2>4, <2>5
  <2>7. s - 1 = 3
    BY <1>10
  <2> QED  BY <1>10, <2>1, <2>6, <2>7 DEF D
<1>11. CASE s = 5
  <2>1. PICK n \in Int : n = (s * Blk) + e /\ n = (5 * Blk) + e
    BY <1>0, <1>11
  <2>2. /\ n = e + (5 * Blk) /\ n - Blk = e + (4 * Blk) /\ n - (2 * Blk) = e + (3 * Blk) /\ n - (3 * Blk) = e + (2 * Blk)
        /\ n - (4 * Blk) = e + Blk /\ n - (5 * Blk) = e /\ n - (6 * Blk) = e - (1 * Blk)
    BY <1>0, <2>1
  <2>3. /\ D(0, e + (5 * Blk)) = 0
        /\ D(1, e + (4 * Blk)) = 0
        /\ D(2, e + (3 * Blk)) = 0
        /\ D(3, e + (2 * Blk)) = 0
        /\ D(6, e - (1 * Blk)) = 0
    BY <1>3
  <2>4. Coeff(x, y, N, n) = 0 + 0 + 0 + 0 + D(4, e + Blk) + D(5, e) + 0
    BY <1>1, <2>2, <2>3
  <2>5. D(5, e) \in Int /\ D(4, e + Blk) \in Int
    <3>1. 5 \in Int /\ 4 \in Int
      OBVIOUS
    <3> QED  BY <1>5, <3>1, Zenon
  <2>6. Coeff(x, y, N, n) = D(5, e) + D(4, e + Blk)
    BY <1>4, <2>4, <2>5
  <2>7. s - 1 = 4
    BY <1>11
  <2> QED  BY <1>11, <2>1, <2>6, <2>7 DEF D
<1>12. CASE s = 6
  <2>1. PICK n \in Int : n = (s * Blk) + e /\ n = (6 * Blk) + e
    BY <1>0, <1>12
  <2>2. /\ n = e + (6 * Blk) /\ n - Blk = e + (5 * Blk) /\ n - (2 * Blk) = e + (4 * Blk) /\ n - (3 * Blk) = e + (3 * Blk)
        /\ n - (4 * Blk) = e + (2 * Blk) /\ n - (5 * Blk) = e + Blk /\ n - (6 * Blk) = e
    BY <1>0, <2>1
  <2>3. /\ D(0, e + (6 * Blk)) = 0
        /\ D(1, e + (5 * Blk)) = 0
        /\ D(2, e + (4 * Blk)) = 0
        /\ D(3, e + (3 * Blk)) = 0
        /\ D(4, e + (2 * Blk)) = 0
    BY <1>3
  <2>4. Coeff(x, y, N, n) = 0 + 0 + 0 + 0 + 0 + D(5, e + Blk) + D(6, e)
    BY <1>1, <2>2, <2>3
  <2>5. D(6, e) \in Int /\ D(5, e + Blk) \in Int
    <3>1. 6 \in Int /\ 5 \in Int
      OBVIOUS
    <3> QED  BY <1>5, <3>1, Zenon
  <2>6. Coeff(x, y, N, n) = D(6, e) + D(5, e + Blk)
    BY <1>4, <2>4, <2>5
  <2>7. s - 1 = 5
    BY <1>12
  <2> QED  BY <1>12, <2>1, <2>6, <2>7 DEF D
<1>13. CASE s = 7
  <2>1. PICK n \in Int : n = (s * Blk) + e /\ n = (7 * Blk) + e
    BY <1>0, <1>13
  <2>2. /\ n = e + (7 * Blk) /\ n - Blk = e + (6 * Blk) /\ n - (2 * Blk) = e + (5 * Blk) /\ n - (3 * Blk) = e + (4 * Blk)
        /\ n - (4 * Blk) = e + (3 * Blk) /\ n - (5 * Blk) = e + (2 * Blk) /\ n - (6 * Blk) = e + Blk
    BY <1>0, <2>1
  <2>3. /\ D(0, e + (7 * Blk)) = 0
        /\ D(1, e + (6 * Blk)) = 0
        /\ D(2, e + (5 * Blk)) = 0
        /\ D(3, e + (4 * Blk)) = 0
        /\ D(4, e + (3 * Blk)) = 0
        /\ D(5, e + (2 * Blk)) = 0
    BY <1>3
  <2>4. Coeff(x, y, N, n) = 0 + 0 + 0 + 0 + 0 + 0 + D(6, e + Blk)
    BY <1>1, <2>2, <2>3
  <2>5. D(7, e) \in Int /\ D(6, e + Blk) \in Int
    <3>1. 7 \in Int /\ 6 \in Int
      OBVIOUS
    <3> QED  BY <1>5, <3>1, Zenon
  <2>6. Coeff(x, y, N, n) = D(7, e) + D(6, e + Blk)
    BY <1>4, <2>4, <2>5
  <2>7. s - 1 = 6
    BY <1>13
  <2> QED  BY <1>13, <2>1, <2>6, <2>7 DEF D
<1> QED  BY <1>6, <1>7, <1>8, <1>9, <1>10, <1>11, <1>12, <1>13

\* Schoolbook is the product's coefficient d, less the one that comes back from d + N.
LEMMA SchoolbookIs ==
  ASSUME NEW x \in [0..N - 1 -> Word], NEW y \in [0..N - 1 -> Word], NEW d \in 0..N - 1
  PROVE  /\ Schoolbook(x, y, d) \in Int
         /\ SameMod(Schoolbook(x, y, d), Coeff(x, y, N, d) - Coeff(x, y, N, d + N), W)
<1> DEFINE f == [k \in 0..N - 1 |-> IF k <= d THEN x[k] * y[d - k] ELSE -(x[k] * y[(N + d) - k])]
           g == ConvTerms(x, y, N, d)
           h == [k \in 0..N - 1 |-> (-1) * ConvTerms(x, y, N, d + N)[k]]
<1>0. N \in Nat /\ N \in Nat \ {0} /\ d \in Int /\ d + N \in Int
  BY QuartAssumption DEF Blk, N
<1>1. x \in Summands(N) /\ y \in Summands(N) /\ \A k \in 0..N - 1 : x[k] \in Int /\ y[k] \in Int
  BY DEF Summands, Word
<1>2. /\ g \in Summands(N) /\ ConvTerms(x, y, N, d + N) \in Summands(N)
  BY <1>0, <1>1, ConvTermsAt
<1>3. \A k \in 0..N - 1 : ConvTerms(x, y, N, d + N)[k] \in Int
  BY <1>2 DEF Summands
<1>4. h \in Summands(N) /\ \A k \in 0..N - 1 : h[k] = (-1) * ConvTerms(x, y, N, d + N)[k]
  BY <1>3 DEF Summands
<1>5. ASSUME NEW k \in 0..N - 1 PROVE f[k] \in Int /\ f[k] = g[k] + h[k]
  <2>1. k \in Int /\ d - k \in Int /\ (d + N) - k \in Int /\ (N + d) - k = (d + N) - k
    BY <1>0
  <2>2. /\ g[k] = x[k] * At(y, d - k) /\ h[k] = (-1) * (x[k] * At(y, (d + N) - k))
    BY <1>4 DEF ConvTerms
  <2>3. PICK u \in Int : u = x[k]
    BY <1>1
  <2>4. CASE k <= d
    <3>1. d - k \in 0..N - 1 /\ (d + N) - k \notin 0..N - 1
      BY <1>0, <2>4
    <3>2. PICK v \in Int : v = y[d - k]
      BY <1>1, <3>1
    <3>3. At(y, d - k) = v /\ At(y, (d + N) - k) = 0
      BY <1>0, <1>1, <2>1, <3>1, <3>2, AtFacts
    <3>4. f[k] = u * v
      BY <2>3, <2>4, <3>2
    <3>5. u * v \in Int /\ u * v = u * v + (-1) * (u * 0)
      OBVIOUS
    <3> HIDE DEF f, g, h
    <3> QED  BY <2>2, <2>3, <3>3, <3>4, <3>5
  <2>5. CASE k > d
    <3>1. d - k \notin 0..N - 1 /\ (d + N) - k \in 0..N - 1
      BY <1>0, <2>5
    <3>2. PICK v \in Int : v = y[(d + N) - k]
      BY <1>1, <3>1
    <3>3. At(y, d - k) = 0 /\ At(y, (d + N) - k) = v
      BY <1>0, <1>1, <2>1, <3>1, <3>2, AtFacts
    <3>4. f[k] = -(u * v)
      <4>1. ~(k <= d)
        BY <1>0, <2>1, <2>5
      <4> QED  BY <2>1, <2>3, <3>2, <4>1
    <3>5. -(u * v) \in Int /\ -(u * v) = u * 0 + (-1) * (u * v)
      OBVIOUS
    <3> HIDE DEF f, g, h
    <3> QED  BY <2>2, <2>3, <3>3, <3>4, <3>5
  <2> QED  BY <1>0, <2>1, <2>4, <2>5
<1>6. f \in Summands(N)
  BY <1>5 DEF Summands
<1>7. Schoolbook(x, y, d) = SumTo(f, N) % W
  BY DEF Schoolbook
<1> HIDE DEF f, g, h
<1>8. SumTo(f, N) = SumTo(g, N) + SumTo(h, N)
  BY <1>0, <1>2, <1>4, <1>5, <1>6, SumPlus
<1>9. SumTo(h, N) = (-1) * SumTo(ConvTerms(x, y, N, d + N), N)
  BY <1>0, <1>2, <1>4, SumScale
<1>10. PICK u \in Int, v \in Int : u = Coeff(x, y, N, d) /\ v = Coeff(x, y, N, d + N)
  BY <1>0, <1>1, ConvTermsAt
<1>11. SumTo(f, N) = u - v
  BY <1>8, <1>9, <1>10 DEF Coeff, g
<1>12. u - v \in Int
  OBVIOUS
<1>13. (u - v) % W \in Int /\ SameMod((u - v) % W, u - v, W)
  BY <1>12, WordFacts
<1> QED  BY <1>7, <1>10, <1>11, <1>13

----------------------------------------------------------------------------
(* The loop that interpolates and folds.                                   *)

\* What the iterations below n have added to word e of block q.
Folded(q, e, n) ==
  (IF e < n THEN Degree(a, b, q, e) - Degree(a, b, q + 4, e) ELSE 0)
    + (IF e + Blk < n THEN Degree(a, b, q - 1, e + Blk) - Degree(a, b, q + 3, e + Blk) ELSE 0)

FoldInv ==
  \A q \in 0..3, e \in 0..Blk - 1 :
    SameMod(r[(q * Blk) + e] - before[(q * Blk) + e], Folded(q, e, i), W \div 8)

ToomInv ==
  /\ TypeOK
  /\ pc = "call" => r \in Starts /\ i = 0
  /\ pc # "call" => w \in [1..7 -> [0..RES - 1 -> Word]]
  /\ ProductsAreExact
  /\ pc # "call" => FoldInv
  /\ pc = "done" => i = RES

\* The sizes.
LEMMA BlkFacts ==
  /\ Blk \in Nat \ {0} /\ N = 4 * Blk /\ N \in Nat \ {0} /\ RES = 2 * Blk - 1 /\ RES \in Nat
  /\ RES - 1 = (2 * Blk) - 2
BY QuartAssumption DEF Blk, N, RES

\* Word e of block q is a word of r, and no other one is,
LEMMA Places ==
  ASSUME NEW q \in 0..3, NEW e \in 0..Blk - 1
  PROVE  /\ (q * Blk) + e \in 0..N - 1
         /\ \A p \in 0..3, d \in 0..Blk - 1 : (q * Blk) + e = (p * Blk) + d => q = p /\ e = d
<1>1. (q * Blk) + e \in 0..N - 1
  <2>1. q = 0 \/ q = 1 \/ q = 2 \/ q = 3
    OBVIOUS
  <2> QED  BY <2>1, BlkFacts
<1>2. ASSUME NEW p \in 0..3, NEW d \in 0..Blk - 1, (q * Blk) + e = (p * Blk) + d PROVE q = p /\ e = d
  <2>1. q = 0 \/ q = 1 \/ q = 2 \/ q = 3
    OBVIOUS
  <2>2. p = 0 \/ p = 1 \/ p = 2 \/ p = 3
    OBVIOUS
  <2> QED  BY <1>2, <2>1, <2>2, BlkFacts
<1> QED  BY <1>1, <1>2

\* and every word of r is one of these.
LEMMA EveryPlace ==
  ASSUME NEW d \in 0..N - 1
  PROVE  \E q \in 0..3, e \in 0..Blk - 1 : d = (q * Blk) + e
<1>1. CASE d < Blk
  <2>1. d \in 0..Blk - 1 /\ d = (0 * Blk) + d
    BY <1>1, BlkFacts
  <2> QED  BY <2>1
<1>2. CASE Blk <= d /\ d < 2 * Blk
  <2>1. d - Blk \in 0..Blk - 1 /\ d = (1 * Blk) + (d - Blk)
    BY <1>2, BlkFacts
  <2> QED  BY <2>1
<1>3. CASE 2 * Blk <= d /\ d < 3 * Blk
  <2>1. d - (2 * Blk) \in 0..Blk - 1 /\ d = (2 * Blk) + (d - (2 * Blk))
    BY <1>3, BlkFacts
  <2> QED  BY <2>1
<1>4. CASE 3 * Blk <= d
  <2>1. d - (3 * Blk) \in 0..Blk - 1 /\ d = (3 * Blk) + (d - (3 * Blk))
    BY <1>4, BlkFacts
  <2> QED  BY <2>1
<1> QED  BY <1>1, <1>2, <1>3, <1>4, BlkFacts

\* The words that an iteration interpolates.
Interpolation == Interpolated([point \in 1..7 |-> w[point][i]])

\* An iteration interpolates the coefficients by degree of word i of the product.
LEMMA InterpolationIs ==
  ASSUME ToomInv, pc = "fold", i < RES
  PROVE  \A k \in 0..6 : /\ Interpolation[k + 1] \in Word
                         /\ SameMod(Interpolation[k + 1], Degree(a, b, k, i), W \div 8)
<1> DEFINE p == [point \in 1..7 |-> w[point][i]]
           T == Table(Block(a), Block(b), Blk, i)
<1>1. a \in [0..N - 1 -> Word] /\ b \in [0..N - 1 -> Word] /\ i \in Int /\ i \in 0..RES - 1
  <2>1. a \in Operands /\ b \in Operands /\ i \in 0..RES
    BY DEF ToomInv, TypeOK
  <2>2. i \in 0..RES - 1
    BY <2>1, BlkFacts
  <2> QED  BY <2>1, <2>2, OperandsAssumption
<1>2. w \in [1..7 -> [0..RES - 1 -> Word]]
  BY DEF ToomInv
<1>3. p \in [1..7 -> Word]
  BY <1>1, <1>2
<1>4. ASSUME NEW point \in 1..7
      PROVE  SameMod(p[point], Coeff(Evaluated(a, point), Evaluated(b, point), Blk, i), W)
  <2>1. Evaluated(a, point) \in Summands(Blk) /\ Evaluated(b, point) \in Summands(Blk)
    BY <1>1, EvaluatedIs, WordBlockInt
  <2>2. PICK f : f = Conv(Evaluated(a, point), Evaluated(b, point), Blk)
    OBVIOUS
  <2>3. IsProduct(f, Evaluated(a, point), Evaluated(b, point), Blk)
    BY <2>1, <2>2, ConvIsProduct, BlkFacts
  <2>4. w[point] = f
    BY <2>2 DEF ToomInv, ProductsAreExact
  <2>5. At(f, i) = f[i]
    <3>1. f \in [0..(2 * Blk) - 2 -> Word]
      BY <2>3 DEF IsProduct
    <3> QED  BY <1>1, <3>1, BlkFacts, ProductAt
  <2>6. SameMod(At(f, i), Coeff(Evaluated(a, point), Evaluated(b, point), Blk, i), W)
    BY <1>1, <2>3 DEF IsProduct
  <2> QED  BY <2>4, <2>5, <2>6
<1> HIDE DEF p
<1>5. T \in Four(Four(Int)) /\ AtPoints(p, Degrees(T))
  BY <1>1, <1>3, <1>4, PointsRight
<1>6. Degrees(T) \in Seven(Int)
  BY <1>1, DegreeIs
<1> HIDE DEF T
<1>7. \A k \in 0..6 : /\ Interpolated(p)[k + 1] \in Word
                      /\ SameMod(Interpolated(p)[k + 1], Degrees(T)[k], W \div 8)
  BY <1>3, <1>5, <1>6, InterpolatedRight
<1>8. \A k \in 0..6 : Degree(a, b, k, i) = Degrees(T)[k]
  BY DEF Degree, T
<1>9. Interpolation = Interpolated(p)
  BY DEF Interpolation, p
<1> QED  BY <1>7, <1>8, <1>9

\* A word cut, in the bits that count.
LEMMA CutLow ==
  ASSUME NEW x \in Int
  PROVE  x % W \in Word /\ x % W \in Int /\ SameMod(x % W, x, W \div 8)
<1>1. PICK z \in Multiples : x % W = x + 64 * z /\ z \in Int
  BY Cut, MultiplesFacts
<1>2. 8 * z \in Multiples
  BY MultiplesFacts
<1>3. x % W \in Word /\ x % W \in Int
  BY WordFacts
<1>4. x % W = x + 8 * (8 * z)
  BY <1>1
<1> QED  BY <1>2, <1>3, <1>4, UnitsSameMod

\* What is right as a word is right in the bits that count.
LEMMA FromWords ==
  ASSUME NEW x \in Int, NEW y \in Int, SameMod(x, y, W)
  PROVE  SameMod(x, y, W \div 8)
<1>1. PICK z \in Multiples : z \in Int /\ x = y + 64 * z
  BY SameModUnits
<1>2. 8 * z \in Multiples
  BY MultiplesFacts
<1>3. x = y + 8 * (8 * z)
  BY <1>1
<1> QED  BY <1>2, <1>3, UnitsSameMod

\* What one word of the result becomes in an iteration, up to the high bits.
Gain(q, n) == Degree(a, b, q, n) - Degree(a, b, q + 4, n)

\* The four words that iteration i changes: word e of each block, for e = i in the
\* first Blk iterations and e = i - Blk in the others.
Changes(e, s) ==
  /\ r' \in [0..N - 1 -> Word]
  /\ \A q \in 0..3 : SameMod(r'[(q * Blk) + e], r[(q * Blk) + e] + Gain(q - s, i), W \div 8)
  /\ \A d \in 0..N - 1 : (\A q \in 0..3 : d # (q * Blk) + e) => r'[d] = r[d]

\* Four updates of different words.
LEMMA FourUpdates ==
  ASSUME NEW f \in [0..N - 1 -> Word], NEW k0 \in 0..N - 1, NEW k1 \in 0..N - 1, NEW k2 \in 0..N - 1, NEW k3 \in 0..N - 1,
         k0 # k1, k0 # k2, k0 # k3, k1 # k2, k1 # k3, k2 # k3,
         NEW x0 \in Word, NEW x1 \in Word, NEW x2 \in Word, NEW x3 \in Word, NEW g,
         g = [f EXCEPT ![k0] = x0, ![k1] = x1, ![k2] = x2, ![k3] = x3]
  PROVE  /\ g \in [0..N - 1 -> Word] /\ g[k0] = x0 /\ g[k1] = x1 /\ g[k2] = x2 /\ g[k3] = x3
         /\ \A d \in 0..N - 1 : d # k0 /\ d # k1 /\ d # k2 /\ d # k3 => g[d] = f[d]
<1> DEFINE h == [d \in 0..N - 1 |-> IF d = k3 THEN x3 ELSE IF d = k2 THEN x2 ELSE IF d = k1 THEN x1
                                    ELSE IF d = k0 THEN x0 ELSE f[d]]
<1>1. g = h
  OBVIOUS
<1>2. h \in [0..N - 1 -> Word]
  OBVIOUS
<1> QED  BY <1>1, <1>2

\* A word that gets one coefficient and loses another.
LEMMA OneUpdate ==
  ASSUME NEW x \in Int, NEW y \in Int, NEW z \in Int, NEW u \in Int, NEW v \in Int,
         SameMod(y, u, W \div 8), SameMod(z, v, W \div 8)
  PROVE  /\ Wrapped(x + y, z) % W \in Word
         /\ SameMod(Wrapped(x + y, z) % W, x + (u - v), W \div 8)
<1>1. PICK V \in Nat \ {0} : V = W \div 8
  BY UnitFacts
<1>2. PICK m \in Int, n \in Int : m = y - z /\ n = u - v /\ SameMod(m, n, V)
  <2>1. SameMod(y, u, V) /\ SameMod(z, v, V)
    BY <1>1
  <2>2. SameMod(y - z, u - v, V)
    BY <2>1, SameModFacts
  <2>3. y - z \in Int /\ u - v \in Int
    OBVIOUS
  <2> QED  BY <2>2, <2>3
<1>3. PICK s \in Int, t \in Int : s = x + m /\ t = x + n /\ SameMod(s, t, V)
  <2>1. SameMod(x, x, V)
    BY SameModFacts
  <2>2. SameMod(x + m, x + n, V)
    BY <1>2, <2>1, SameModFacts
  <2>3. x + m \in Int /\ x + n \in Int
    BY <1>2
  <2> QED  BY <2>2, <2>3
<1>4. PICK k \in Int : k = s % W /\ k \in Word /\ SameMod(k, s, V)
  BY <1>1, CutLow
<1>5. SameMod(k, t, V)
  BY <1>3, <1>4, SameModFacts
<1>6. Wrapped(x + y, z) = s
  BY <1>2, <1>3 DEF Wrapped
<1>7. x + (u - v) = t
  BY <1>2, <1>3
<1> QED  BY <1>1, <1>4, <1>5, <1>6, <1>7

\* The words of an iteration, with nothing where there is no degree.
LEMMA Coefficients ==
  ASSUME ToomInv, pc = "fold", i < RES
  PROVE  /\ i \in Int /\ a \in [0..N - 1 -> Word] /\ b \in [0..N - 1 -> Word]
         /\ \A k \in 1..7 : Interpolation[k] \in Int /\ SameMod(Interpolation[k], Degree(a, b, k - 1, i), W \div 8)
         /\ \A m \in Int : Degree(a, b, m, i) \in Int /\ (m \notin 0..6 => Degree(a, b, m, i) = 0)
         /\ SameMod(0, 0, W \div 8)
<1>1. i \in Int /\ a \in [0..N - 1 -> Word] /\ b \in [0..N - 1 -> Word]
  BY OperandsAssumption DEF ToomInv, TypeOK
<1>2. ASSUME NEW k \in 1..7
      PROVE  Interpolation[k] \in Int /\ SameMod(Interpolation[k], Degree(a, b, k - 1, i), W \div 8)
  <2>1. PICK m \in 0..6 : m = k - 1 /\ m + 1 = k
    OBVIOUS
  <2>2. Interpolation[m + 1] \in Word /\ SameMod(Interpolation[m + 1], Degree(a, b, m, i), W \div 8)
    BY InterpolationIs
  <2> QED  BY <2>1, <2>2 DEF Word
<1>3. \A m \in Int : Degree(a, b, m, i) \in Int /\ (m \notin 0..6 => Degree(a, b, m, i) = 0)
  BY <1>1, DegreeIs DEF Degree
<1>4. SameMod(0, 0, W \div 8)
  BY UnitFacts, SameModFacts
<1> QED  BY <1>1, <1>2, <1>3, <1>4

\* An iteration adds to four words of r what belongs to them.
LEMMA FoldChanges ==
  ASSUME ToomInv, fold
  PROVE  \E e \in 0..Blk - 1, s \in {0, 1} : i = (s * Blk) + e /\ Changes(e, s)
<1>1. /\ pc = "fold" /\ i < RES /\ r \in [0..N - 1 -> Word] /\ i \in 0..RES
  BY DEF fold, ToomInv, TypeOK
<1>2. PICK c : c = Interpolation
  OBVIOUS
<1>3. /\ i \in Int
      /\ \A k \in 1..7 : c[k] \in Int /\ SameMod(c[k], Degree(a, b, k - 1, i), W \div 8)
      /\ \A m \in Int : Degree(a, b, m, i) \in Int /\ (m \notin 0..6 => Degree(a, b, m, i) = 0)
      /\ SameMod(0, 0, W \div 8)
  BY <1>1, <1>2, Coefficients
<1> DEFINE D(m) == Degree(a, b, m, i)
<1>4. /\ c[1] \in Int /\ c[2] \in Int /\ c[3] \in Int /\ c[4] \in Int /\ c[5] \in Int /\ c[6] \in Int /\ c[7] \in Int
      /\ SameMod(c[1], D(0), W \div 8) /\ SameMod(c[2], D(1), W \div 8) /\ SameMod(c[3], D(2), W \div 8)
      /\ SameMod(c[4], D(3), W \div 8) /\ SameMod(c[5], D(4), W \div 8) /\ SameMod(c[6], D(5), W \div 8)
      /\ SameMod(c[7], D(6), W \div 8)
  <2>1. 1 - 1 = 0 /\ 2 - 1 = 1 /\ 3 - 1 = 2 /\ 4 - 1 = 3 /\ 5 - 1 = 4 /\ 6 - 1 = 5 /\ 7 - 1 = 6
    OBVIOUS
  <2>2. \A k \in 1..7 : c[k] \in Int /\ SameMod(c[k], D(k - 1), W \div 8)
    BY <1>3
  <2> HIDE DEF D
  <2> QED  BY <2>1, <2>2
<1>5. D(0) \in Int /\ D(1) \in Int /\ D(2) \in Int /\ D(3) \in Int /\ D(4) \in Int /\ D(5) \in Int /\ D(6) \in Int
      /\ D(-1) = 0 /\ D(7) = 0
  <2>1. -1 \notin 0..6 /\ 7 \notin 0..6 /\ -1 \in Int /\ 7 \in Int
    OBVIOUS
  <2>2. \A m \in Int : D(m) \in Int /\ (m \notin 0..6 => D(m) = 0)
    BY <1>3
  <2> HIDE DEF D
  <2> QED  BY <2>1, <2>2
<1>6. \A d \in 0..N - 1 : r[d] \in Int
  BY <1>1 DEF Word
<1>7. /\ Gain(-1, i) = 0 - D(3) /\ Gain(0, i) = D(0) - D(4) /\ Gain(1, i) = D(1) - D(5)
      /\ Gain(2, i) = D(2) - D(6) /\ Gain(3, i) = D(3) - 0
  <2>1. -1 + 4 = 3 /\ 0 + 4 = 4 /\ 1 + 4 = 5 /\ 2 + 4 = 6 /\ 3 + 4 = 7
    OBVIOUS
  <2>2. \A q \in Int : Gain(q, i) = D(q) - D(q + 4)
    BY DEF Gain
  <2>3. -1 \in Int /\ 0 \in Int /\ 1 \in Int /\ 2 \in Int /\ 3 \in Int
    OBVIOUS
  <2> HIDE DEF D
  <2>4. Gain(-1, i) = D(-1) - D(-1 + 4) /\ Gain(0, i) = D(0) - D(0 + 4) /\ Gain(1, i) = D(1) - D(1 + 4)
    BY <2>2, <2>3
  <2>5. Gain(2, i) = D(2) - D(2 + 4) /\ Gain(3, i) = D(3) - D(3 + 4)
    BY <2>2, <2>3
  <2> QED  BY <1>5, <2>1, <2>4, <2>5
<1>10. 0 \in Int
  OBVIOUS
<1> HIDE DEF D
<1>8. CASE i < Blk
  <2>1. PICK k0 \in 0..N - 1, k1 \in 0..N - 1, k2 \in 0..N - 1, k3 \in 0..N - 1 :
          k0 = i /\ k1 = i + Blk /\ k2 = i + (2 * Blk) /\ k3 = i + (3 * Blk)
    <3>1. i \in 0..N - 1 /\ i + Blk \in 0..N - 1 /\ i + (2 * Blk) \in 0..N - 1 /\ i + (3 * Blk) \in 0..N - 1
      BY <1>1, <1>8, BlkFacts
    <3> QED  BY <3>1
  <2>2. k0 # k1 /\ k0 # k2 /\ k0 # k3 /\ k1 # k2 /\ k1 # k3 /\ k2 # k3
    BY <1>3, <2>1, BlkFacts
  <2>3. /\ r[k0] \in Int /\ r[k1] \in Int /\ r[k2] \in Int /\ r[k3] \in Int
    BY <1>6
  <2> DEFINE x0 == Wrapped(r[k0] + c[1], c[5]) % W
             x1 == Wrapped(r[k1] + c[2], c[6]) % W
             x2 == Wrapped(r[k2] + c[3], c[7]) % W
             x3 == Wrapped(r[k3] + c[4], 0) % W
  <2>4. /\ x0 \in Word /\ SameMod(x0, r[k0] + (D(0) - D(4)), W \div 8)
        /\ x1 \in Word /\ SameMod(x1, r[k1] + (D(1) - D(5)), W \div 8)
        /\ x2 \in Word /\ SameMod(x2, r[k2] + (D(2) - D(6)), W \div 8)
        /\ x3 \in Word /\ SameMod(x3, r[k3] + (D(3) - 0), W \div 8)
    <3>1. x0 \in Word /\ SameMod(x0, r[k0] + (D(0) - D(4)), W \div 8)
      <4>1. PICK y \in Int, z \in Int, u \in Int, v \in Int : y = c[1] /\ z = c[5] /\ u = D(0) /\ v = D(4)
        BY <1>4, <1>5, <1>10
      <4>2. SameMod(y, u, W \div 8) /\ SameMod(z, v, W \div 8)
        BY <4>1, <1>3, <1>4
      <4>3. Wrapped(r[k0] + y, z) % W \in Word /\ SameMod(Wrapped(r[k0] + y, z) % W, r[k0] + (u - v), W \div 8)
        BY <2>3, <4>2, OneUpdate
      <4> QED  BY <4>1, <4>3
    <3>2. x1 \in Word /\ SameMod(x1, r[k1] + (D(1) - D(5)), W \div 8)
      <4>1. PICK y \in Int, z \in Int, u \in Int, v \in Int : y = c[2] /\ z = c[6] /\ u = D(1) /\ v = D(5)
        BY <1>4, <1>5, <1>10
      <4>2. SameMod(y, u, W \div 8) /\ SameMod(z, v, W \div 8)
        BY <4>1, <1>3, <1>4
      <4>3. Wrapped(r[k1] + y, z) % W \in Word /\ SameMod(Wrapped(r[k1] + y, z) % W, r[k1] + (u - v), W \div 8)
        BY <2>3, <4>2, OneUpdate
      <4> QED  BY <4>1, <4>3
    <3>3. x2 \in Word /\ SameMod(x2, r[k2] + (D(2) - D(6)), W \div 8)
      <4>1. PICK y \in Int, z \in Int, u \in Int, v \in Int : y = c[3] /\ z = c[7] /\ u = D(2) /\ v = D(6)
        BY <1>4, <1>5, <1>10
      <4>2. SameMod(y, u, W \div 8) /\ SameMod(z, v, W \div 8)
        BY <4>1, <1>3, <1>4
      <4>3. Wrapped(r[k2] + y, z) % W \in Word /\ SameMod(Wrapped(r[k2] + y, z) % W, r[k2] + (u - v), W \div 8)
        BY <2>3, <4>2, OneUpdate
      <4> QED  BY <4>1, <4>3
    <3>4. x3 \in Word /\ SameMod(x3, r[k3] + (D(3) - 0), W \div 8)
      <4>1. PICK y \in Int, z \in Int, u \in Int, v \in Int : y = c[4] /\ z = 0 /\ u = D(3) /\ v = 0
        BY <1>4, <1>5, <1>10
      <4>2. SameMod(y, u, W \div 8) /\ SameMod(z, v, W \div 8)
        BY <4>1, <1>3, <1>4
      <4>3. Wrapped(r[k3] + y, z) % W \in Word /\ SameMod(Wrapped(r[k3] + y, z) % W, r[k3] + (u - v), W \div 8)
        BY <2>3, <4>2, OneUpdate
      <4> QED  BY <4>1, <4>3
    <3> QED  BY <3>1, <3>2, <3>3, <3>4
  <2>5. r' = [r EXCEPT ![k0] = x0, ![k1] = x1, ![k2] = x2, ![k3] = x3]
    <3>1. x3 = (r[k3] + c[4]) % W
      BY <1>4, <2>3 DEF Wrapped
    <3>2. r' = [r EXCEPT ![i]             = Wrapped(@ + c[1], c[5]) % W,
                         ![i + Blk]       = Wrapped(@ + c[2], c[6]) % W,
                         ![i + (2 * Blk)] = Wrapped(@ + c[3], c[7]) % W,
                         ![i + (3 * Blk)] = (@ + c[4]) % W]
      BY <1>2, <1>8 DEF fold, Interpolation
    <3> QED  BY <1>1, <2>1, <2>2, <3>1, <3>2
  <2> HIDE DEF x0, x1, x2, x3
  <2>6. /\ r' \in [0..N - 1 -> Word] /\ r'[k0] = x0 /\ r'[k1] = x1 /\ r'[k2] = x2 /\ r'[k3] = x3
        /\ \A d \in 0..N - 1 : d # k0 /\ d # k1 /\ d # k2 /\ d # k3 => r'[d] = r[d]
    BY <1>1, <2>2, <2>4, <2>5, FourUpdates
  <2>7. i \in 0..Blk - 1 /\ i = (0 * Blk) + i /\ k0 = (0 * Blk) + i /\ k1 = (1 * Blk) + i
        /\ k2 = (2 * Blk) + i /\ k3 = (3 * Blk) + i
    BY <1>1, <1>8, <2>1, BlkFacts
  <2>8. /\ Gain(0 - 0, i) = D(0) - D(4) /\ Gain(1 - 0, i) = D(1) - D(5)
        /\ Gain(2 - 0, i) = D(2) - D(6) /\ Gain(3 - 0, i) = D(3) - 0
    <3>1. /\ 0 - 0 = 0 /\ 1 - 0 = 1 /\ 2 - 0 = 2 /\ 3 - 0 = 3
      OBVIOUS
    <3> QED  BY <1>7, <3>1
  <2>9. Changes(i, 0)
    <3>1. ASSUME NEW q \in 0..3
          PROVE  SameMod(r'[(q * Blk) + i], r[(q * Blk) + i] + Gain(q - 0, i), W \div 8)
      <4>1. q = 0 \/ q = 1 \/ q = 2 \/ q = 3
        OBVIOUS
      <4> QED  BY <2>4, <2>6, <2>7, <2>8, <4>1
    <3>2. ASSUME NEW d \in 0..N - 1, \A q \in 0..3 : d # (q * Blk) + i PROVE r'[d] = r[d]
      <4>1. d # k0 /\ d # k1 /\ d # k2 /\ d # k3
        BY <2>7, <3>2
      <4> QED  BY <2>6, <4>1
    <3> QED  BY <2>6, <3>1, <3>2 DEF Changes
  <2> QED  BY <2>7, <2>9
<1>9. CASE i >= Blk
  <2>0. PICK e \in 0..Blk - 1 : e = i - Blk
    <3>1. i - Blk \in 0..Blk - 1
      BY <1>1, <1>9, BlkFacts
    <3> QED  BY <3>1
  <2>1. PICK k0 \in 0..N - 1, k1 \in 0..N - 1, k2 \in 0..N - 1, k3 \in 0..N - 1 :
          k0 = i - Blk /\ k1 = i /\ k2 = i + Blk /\ k3 = i + (2 * Blk)
    <3>1. i - Blk \in 0..N - 1 /\ i \in 0..N - 1 /\ i + Blk \in 0..N - 1 /\ i + (2 * Blk) \in 0..N - 1
      BY <1>1, <1>9, BlkFacts
    <3> QED  BY <3>1
  <2>2. k0 # k1 /\ k0 # k2 /\ k0 # k3 /\ k1 # k2 /\ k1 # k3 /\ k2 # k3
    BY <1>3, <2>1, BlkFacts
  <2>3. /\ r[k0] \in Int /\ r[k1] \in Int /\ r[k2] \in Int /\ r[k3] \in Int
    BY <1>6
  <2> DEFINE x0 == Wrapped(r[k0] + 0, c[4]) % W
             x1 == Wrapped(r[k1] + c[1], c[5]) % W
             x2 == Wrapped(r[k2] + c[2], c[6]) % W
             x3 == Wrapped(r[k3] + c[3], c[7]) % W
  <2>4. /\ x0 \in Word /\ SameMod(x0, r[k0] + (0 - D(3)), W \div 8)
        /\ x1 \in Word /\ SameMod(x1, r[k1] + (D(0) - D(4)), W \div 8)
        /\ x2 \in Word /\ SameMod(x2, r[k2] + (D(1) - D(5)), W \div 8)
        /\ x3 \in Word /\ SameMod(x3, r[k3] + (D(2) - D(6)), W \div 8)
    <3>1. x0 \in Word /\ SameMod(x0, r[k0] + (0 - D(3)), W \div 8)
      <4>1. PICK y \in Int, z \in Int, u \in Int, v \in Int : y = 0 /\ z = c[4] /\ u = 0 /\ v = D(3)
        BY <1>4, <1>5, <1>10
      <4>2. SameMod(y, u, W \div 8) /\ SameMod(z, v, W \div 8)
        BY <4>1, <1>3, <1>4
      <4>3. Wrapped(r[k0] + y, z) % W \in Word /\ SameMod(Wrapped(r[k0] + y, z) % W, r[k0] + (u - v), W \div 8)
        BY <2>3, <4>2, OneUpdate
      <4> QED  BY <4>1, <4>3
    <3>2. x1 \in Word /\ SameMod(x1, r[k1] + (D(0) - D(4)), W \div 8)
      <4>1. PICK y \in Int, z \in Int, u \in Int, v \in Int : y = c[1] /\ z = c[5] /\ u = D(0) /\ v = D(4)
        BY <1>4, <1>5, <1>10
      <4>2. SameMod(y, u, W \div 8) /\ SameMod(z, v, W \div 8)
        BY <4>1, <1>3, <1>4
      <4>3. Wrapped(r[k1] + y, z) % W \in Word /\ SameMod(Wrapped(r[k1] + y, z) % W, r[k1] + (u - v), W \div 8)
        BY <2>3, <4>2, OneUpdate
      <4> QED  BY <4>1, <4>3
    <3>3. x2 \in Word /\ SameMod(x2, r[k2] + (D(1) - D(5)), W \div 8)
      <4>1. PICK y \in Int, z \in Int, u \in Int, v \in Int : y = c[2] /\ z = c[6] /\ u = D(1) /\ v = D(5)
        BY <1>4, <1>5, <1>10
      <4>2. SameMod(y, u, W \div 8) /\ SameMod(z, v, W \div 8)
        BY <4>1, <1>3, <1>4
      <4>3. Wrapped(r[k2] + y, z) % W \in Word /\ SameMod(Wrapped(r[k2] + y, z) % W, r[k2] + (u - v), W \div 8)
        BY <2>3, <4>2, OneUpdate
      <4> QED  BY <4>1, <4>3
    <3>4. x3 \in Word /\ SameMod(x3, r[k3] + (D(2) - D(6)), W \div 8)
      <4>1. PICK y \in Int, z \in Int, u \in Int, v \in Int : y = c[3] /\ z = c[7] /\ u = D(2) /\ v = D(6)
        BY <1>4, <1>5, <1>10
      <4>2. SameMod(y, u, W \div 8) /\ SameMod(z, v, W \div 8)
        BY <4>1, <1>3, <1>4
      <4>3. Wrapped(r[k3] + y, z) % W \in Word /\ SameMod(Wrapped(r[k3] + y, z) % W, r[k3] + (u - v), W \div 8)
        BY <2>3, <4>2, OneUpdate
      <4> QED  BY <4>1, <4>3
    <3> QED  BY <3>1, <3>2, <3>3, <3>4
  <2>5. r' = [r EXCEPT ![k1] = x1, ![k2] = x2, ![k3] = x3, ![k0] = x0]
    <3>1. x0 = Wrapped(r[k0], c[4]) % W
      BY <1>4, <2>3 DEF Wrapped
    <3>2. r' = [r EXCEPT ![i]             = Wrapped(@ + c[1], c[5]) % W,
                         ![i + Blk]       = Wrapped(@ + c[2], c[6]) % W,
                         ![i + (2 * Blk)] = Wrapped(@ + c[3], c[7]) % W,
                         ![i - Blk] = Wrapped(@, c[4]) % W]
      <4>1. ~(i < Blk)
        BY <1>1, <1>9, BlkFacts
      <4> QED  BY <1>2, <4>1 DEF fold, Interpolation
    <3> QED  BY <1>1, <2>1, <2>2, <3>1, <3>2
  <2> HIDE DEF x0, x1, x2, x3
  <2>6. /\ r' \in [0..N - 1 -> Word] /\ r'[k0] = x0 /\ r'[k1] = x1 /\ r'[k2] = x2 /\ r'[k3] = x3
        /\ \A d \in 0..N - 1 : d # k0 /\ d # k1 /\ d # k2 /\ d # k3 => r'[d] = r[d]
    BY <1>1, <2>2, <2>4, <2>5, FourUpdates
  <2>7. i = (1 * Blk) + e /\ k0 = (0 * Blk) + e /\ k1 = (1 * Blk) + e
        /\ k2 = (2 * Blk) + e /\ k3 = (3 * Blk) + e
    BY <1>1, <1>9, <2>0, <2>1, BlkFacts
  <2>8. /\ Gain(0 - 1, i) = 0 - D(3) /\ Gain(1 - 1, i) = D(0) - D(4)
        /\ Gain(2 - 1, i) = D(1) - D(5) /\ Gain(3 - 1, i) = D(2) - D(6)
    <3>1. /\ 0 - 1 = -1 /\ 1 - 1 = 0 /\ 2 - 1 = 1 /\ 3 - 1 = 2
      OBVIOUS
    <3> QED  BY <1>7, <3>1
  <2>9. Changes(e, 1)
    <3>1. ASSUME NEW q \in 0..3
          PROVE  SameMod(r'[(q * Blk) + e], r[(q * Blk) + e] + Gain(q - 1, i), W \div 8)
      <4>1. q = 0 \/ q = 1 \/ q = 2 \/ q = 3
        OBVIOUS
      <4> QED  BY <2>4, <2>6, <2>7, <2>8, <4>1
    <3>2. ASSUME NEW d \in 0..N - 1, \A q \in 0..3 : d # (q * Blk) + e PROVE r'[d] = r[d]
      <4>1. d # k0 /\ d # k1 /\ d # k2 /\ d # k3
        BY <2>7, <3>2
      <4> QED  BY <2>6, <4>1
    <3> QED  BY <2>6, <3>1, <3>2 DEF Changes
  <2> QED  BY <2>7, <2>9
<1> QED  BY <1>3, <1>8, <1>9, BlkFacts

\* What has been added, from one iteration to the next.
LEMMA FoldedFacts ==
  ASSUME a \in [0..N - 1 -> Word], b \in [0..N - 1 -> Word],
         NEW q \in 0..3, NEW e \in 0..Blk - 1, NEW n \in Nat
  PROVE  /\ Folded(q, e, n) \in Int /\ Folded(q, e, 0) = 0
         /\ Gain(q, n) \in Int /\ Gain(q - 1, n) \in Int
         /\ e # n /\ e + Blk # n => Folded(q, e, n + 1) = Folded(q, e, n)
         /\ e = n => Folded(q, e, n + 1) = Folded(q, e, n) + Gain(q, n)
         /\ e + Blk = n => Folded(q, e, n + 1) = Folded(q, e, n) + Gain(q - 1, n)
<1>1. e \in Nat /\ Blk \in Nat \ {0} /\ q \in Int /\ n \in Int /\ e + Blk \in Nat
  BY BlkFacts
<1>2. PICK x \in Int, y \in Int : /\ x = Degree(a, b, q, e) - Degree(a, b, q + 4, e)
                                  /\ y = Degree(a, b, q - 1, e + Blk) - Degree(a, b, q + 3, e + Blk)
  <2>1. /\ Degree(a, b, q, e) \in Int /\ Degree(a, b, q + 4, e) \in Int
        /\ Degree(a, b, q - 1, e + Blk) \in Int /\ Degree(a, b, q + 3, e + Blk) \in Int
    <3>1. e \in Int /\ e + Blk \in Int /\ q + 4 \in Int /\ q - 1 \in Int /\ q + 3 \in Int
      BY <1>1
    <3> QED  BY <1>1, <3>1, DegreeIs
  <2> QED  BY <2>1
<1>3. \A m \in Int : Folded(q, e, m) = (IF e < m THEN x ELSE 0) + (IF e + Blk < m THEN y ELSE 0)
  BY <1>2 DEF Folded
<1>4. Gain(q, n) \in Int /\ Gain(q - 1, n) \in Int
  <2>1. q + 4 \in Int /\ q - 1 \in Int /\ (q - 1) + 4 \in Int
    BY <1>1
  <2>2. /\ Degree(a, b, q, n) \in Int /\ Degree(a, b, q + 4, n) \in Int
        /\ Degree(a, b, q - 1, n) \in Int /\ Degree(a, b, (q - 1) + 4, n) \in Int
    BY <1>1, <2>1, DegreeIs
  <2> QED  BY <2>2 DEF Gain
<1>5. Gain(q, e) = x /\ Gain(q - 1, e + Blk) = y
  <2>1. (q - 1) + 4 = q + 3
    BY <1>1
  <2> QED  BY <1>2, <2>1 DEF Gain
<1>6. /\ Folded(q, e, n) = (IF e < n THEN x ELSE 0) + (IF e + Blk < n THEN y ELSE 0)
      /\ Folded(q, e, n + 1) = (IF e < n + 1 THEN x ELSE 0) + (IF e + Blk < n + 1 THEN y ELSE 0)
      /\ Folded(q, e, 0) = (IF e < 0 THEN x ELSE 0) + (IF e + Blk < 0 THEN y ELSE 0)
  <2>1. n + 1 \in Int /\ 0 \in Int
    BY <1>1
  <2> QED  BY <1>1, <1>3, <2>1
<1>7. Folded(q, e, n) \in Int /\ Folded(q, e, 0) = 0
  BY <1>1, <1>2, <1>6
<1>8. e # n /\ e + Blk # n => Folded(q, e, n + 1) = Folded(q, e, n)
  <2>1. e # n => ((e < n + 1) <=> (e < n))
    BY <1>1
  <2>2. e + Blk # n => ((e + Blk < n + 1) <=> (e + Blk < n))
    BY <1>1
  <2> QED  BY <1>6, <2>1, <2>2
<1>9. e = n => Folded(q, e, n + 1) = Folded(q, e, n) + x
  BY <1>1, <1>2, <1>6
<1>10. e + Blk = n => Folded(q, e, n + 1) = Folded(q, e, n) + y
  <2>1. e + Blk = n => /\ e < n + 1 /\ e + Blk < n + 1 /\ e < n /\ ~(e + Blk < n)
    BY <1>1
  <2> QED  BY <1>2, <1>6, <2>1
<1> QED  BY <1>4, <1>5, <1>7, <1>8, <1>9, <1>10

\* A word and what was added to it grow together.
LEMMA Grown ==
  ASSUME NEW x \in Int, NEW y \in Int, NEW z \in Int, NEW f \in Int, NEW g \in Int,
         SameMod(y, x + g, W \div 8), SameMod(x - z, f, W \div 8)
  PROVE  SameMod(y - z, f + g, W \div 8)
<1>1. PICK V \in Nat \ {0} : V = W \div 8
  BY UnitFacts
<1>2. PICK k \in Int, l \in Int : y = (x + g) + V * k /\ x - z = f + V * l
  BY <1>1 DEF SameMod
<1>3. V * k + V * l = V * (k + l) /\ k + l \in Int
  OBVIOUS
<1>4. y - z = (f + g) + V * (k + l)
  <2>1. PICK s \in Int, t \in Int : s = V * k /\ t = V * l
    OBVIOUS
  <2>2. y = (x + g) + s /\ x - z = f + t
    BY <1>2, <2>1
  <2>3. y - z = (f + g) + (s + t)
    BY <2>2
  <2> QED  BY <1>3, <2>1, <2>3
<1> QED  BY <1>1, <1>3, <1>4 DEF SameMod

\* The invariant holds at the call.
LEMMA InvStart == Init => ToomInv
<1> SUFFICES ASSUME Init PROVE ToomInv
  OBVIOUS
<1>1. TypeOK
  BY OperandsAssumption, BlkFacts DEF Init, TypeOK
<1> QED  BY <1>1 DEF Init, ToomInv, ProductsAreExact

\* Evaluating and multiplying keeps it: the products are exact by KaratsubaExact.
LEMMA InvCall ==
  ASSUME ToomInv, toom4_128_fold_u16
  PROVE  ToomInv'
<1>1. /\ pc = "call" /\ pc' = "fold" /\ r' \in {r, Zero} /\ before' = r'
      /\ w' = [point \in 1..7 |-> karatsuba32_simple_u16(Evaluated(a, point), Evaluated(b, point))]
      /\ a' = a /\ b' = b /\ i' = i
  BY DEF toom4_128_fold_u16
<1>2. TypeOK /\ r \in Starts /\ i = 0
  BY <1>1 DEF ToomInv
<1>3. a \in [0..N - 1 -> Word] /\ b \in [0..N - 1 -> Word]
  BY <1>2, OperandsAssumption DEF TypeOK
<1>4. ASSUME NEW point \in 1..7
      PROVE  /\ w'[point] = Conv(Evaluated(a, point), Evaluated(b, point), Blk)
             /\ w'[point] \in [0..RES - 1 -> Word]
  <2>1. Evaluated(a, point) \in WordBlock(Blk) /\ Evaluated(b, point) \in WordBlock(Blk)
    BY <1>3, EvaluatedIs
  <2>2. w'[point] = karatsuba32_simple_u16(Evaluated(a, point), Evaluated(b, point))
    BY <1>1
  <2>3. w'[point] = Conv(Evaluated(a, point), Evaluated(b, point), Blk)
    BY <2>1, <2>2, KaratsubaExact
  <2>4. IsProduct(w'[point], Evaluated(a, point), Evaluated(b, point), Blk)
    BY <2>1, <2>3, WordBlockInt, ConvIsProduct, BlkFacts
  <2> QED  BY <2>3, <2>4, BlkFacts DEF IsProduct
<1>5. ProductsAreExact'
  <2>1. \A point \in 1..7 : w'[point] = Conv(Evaluated(a', point), Evaluated(b', point), Blk)
    BY <1>1, <1>4
  <2> QED  BY <2>1 DEF ProductsAreExact
<1>6. w' \in [1..7 -> [0..RES - 1 -> Word]]
  <2>1. w' = [point \in 1..7 |-> w'[point]]
    BY <1>1
  <2> QED  BY <1>4, <2>1
<1>7. r' \in [0..N - 1 -> Word] /\ r' \in Starts \cup {Zero}
  <2>1. Zero \in [0..N - 1 -> Word]
    <3>1. 0 \in Word
      BY WordFacts DEF Word
    <3> QED  BY <3>1 DEF Zero
  <2> QED  BY <1>1, <1>2, <2>1 DEF TypeOK
<1>8. TypeOK'
  BY <1>1, <1>2, <1>6, <1>7 DEF TypeOK
<1>9. FoldInv'
  <2> SUFFICES ASSUME NEW q \in 0..3, NEW e \in 0..Blk - 1
               PROVE  SameMod(r'[(q * Blk) + e] - before'[(q * Blk) + e], Folded(q, e, i)', W \div 8)
    BY DEF FoldInv
  <2>1. Folded(q, e, i)' = 0
    <3>1. Folded(q, e, 0) = 0
      <4>1. 0 \in Nat
        OBVIOUS
      <4> QED  BY <1>3, <4>1, FoldedFacts
    <3>2. Folded(q, e, i)' = Folded(q, e, 0)
      BY <1>1, <1>2 DEF Folded
    <3> QED  BY <3>1, <3>2
  <2>2. r'[(q * Blk) + e] - before'[(q * Blk) + e] = 0
    <3>1. r'[(q * Blk) + e] \in Word
      BY <1>7, Places
    <3> QED  BY <1>1, <3>1 DEF Word
  <2>3. SameMod(0, 0, W \div 8)
    BY UnitFacts, SameModFacts
  <2> QED  BY <2>1, <2>2, <2>3
<1> QED  BY <1>1, <1>5, <1>6, <1>8, <1>9 DEF ToomInv

\* An iteration keeps it: a word that it changes has grown by what it adds.
LEMMA InvFold ==
  ASSUME ToomInv, fold
  PROVE  ToomInv'
<1>1. /\ pc = "fold" /\ i < RES /\ i' = i + 1 /\ a' = a /\ b' = b /\ before' = before /\ w' = w /\ pc' = pc
  BY DEF fold
<1>2. TypeOK /\ FoldInv /\ w \in [1..7 -> [0..RES - 1 -> Word]] /\ ProductsAreExact
  BY <1>1 DEF ToomInv
<1>3. /\ a \in [0..N - 1 -> Word] /\ b \in [0..N - 1 -> Word] /\ i \in 0..RES /\ i \in Nat
      /\ r \in [0..N - 1 -> Word] /\ before \in [0..N - 1 -> Word]
  <2>1. Zero \in [0..N - 1 -> Word]
    <3>1. 0 \in Word
      BY WordFacts DEF Word
    <3> QED  BY <3>1 DEF Zero
  <2> QED  BY <1>2, <2>1, OperandsAssumption, BlkFacts DEF TypeOK
<1>4. PICK e0 \in 0..Blk - 1, s0 \in {0, 1} : i = (s0 * Blk) + e0 /\ Changes(e0, s0)
  BY FoldChanges
<1>5. r' \in [0..N - 1 -> Word]
  BY <1>4 DEF Changes
<1>6. TypeOK'
  BY <1>1, <1>2, <1>3, <1>5, BlkFacts DEF TypeOK
<1>7. FoldInv'
  <2> SUFFICES ASSUME NEW q \in 0..3, NEW e \in 0..Blk - 1
               PROVE  SameMod(r'[(q * Blk) + e] - before'[(q * Blk) + e], Folded(q, e, i)', W \div 8)
    BY DEF FoldInv
  <2> DEFINE d == (q * Blk) + e
  <2>1. d \in 0..N - 1 /\ \A p \in 0..3, k \in 0..Blk - 1 : d = (p * Blk) + k => q = p /\ e = k
    BY Places
  <2>2. PICK x \in Int, y \in Int, z \in Int, f \in Int :
          x = r[d] /\ y = r'[d] /\ z = before[d] /\ f = Folded(q, e, i)
    <3>1. r[d] \in Int /\ r'[d] \in Int /\ before[d] \in Int
      BY <1>3, <1>5, <2>1 DEF Word
    <3>2. Folded(q, e, i) \in Int
      BY <1>3, FoldedFacts
    <3> QED  BY <3>1, <3>2
  <2>3. SameMod(x - z, f, W \div 8)
    BY <1>2, <2>2 DEF FoldInv
  <2>4. Folded(q, e, i)' = Folded(q, e, i + 1)
    BY <1>1 DEF Folded
  <2>5. e \in Int /\ e0 \in Int /\ 0 <= e /\ e < Blk /\ 0 <= e0 /\ e0 < Blk /\ Blk \in Nat
    BY BlkFacts
  <2>6. (s0 = 0 /\ i = e0) \/ (s0 = 1 /\ i = e0 + Blk)
    BY <1>4, <2>5
  <2>7. CASE e # e0
    <3>1. \A p \in 0..3 : d # (p * Blk) + e0
      BY <2>1, <2>7
    <3>2. r'[d] = r[d]
      BY <1>4, <2>1, <3>1 DEF Changes
    <3>3. e # i /\ e + Blk # i
      BY <2>5, <2>6, <2>7
    <3>4. Folded(q, e, i + 1) = Folded(q, e, i)
      BY <1>3, <3>3, FoldedFacts
    <3> QED  BY <1>1, <2>2, <2>3, <2>4, <3>2, <3>4
  <2>8. CASE e = e0 /\ s0 = 0
    <3>1. q - s0 = q /\ e = i
      BY <2>6, <2>8
    <3>2. PICK g \in Int : g = Gain(q, i)
      BY <1>3, FoldedFacts
    <3>3. SameMod(r'[d], r[d] + Gain(q - s0, i), W \div 8)
      BY <1>4, <2>8 DEF Changes
    <3>4. SameMod(y - z, f + g, W \div 8)
      BY <2>2, <2>3, <3>1, <3>2, <3>3, Grown
    <3>5. Folded(q, e, i + 1) = f + g
      BY <1>3, <2>2, <3>1, <3>2, FoldedFacts
    <3> QED  BY <1>1, <2>2, <2>4, <3>4, <3>5
  <2>9. CASE e = e0 /\ s0 = 1
    <3>1. q - s0 = q - 1 /\ e + Blk = i
      BY <2>6, <2>9
    <3>2. PICK g \in Int : g = Gain(q - 1, i)
      BY <1>3, FoldedFacts
    <3>3. SameMod(r'[d], r[d] + Gain(q - s0, i), W \div 8)
      BY <1>4, <2>9 DEF Changes
    <3>4. SameMod(y - z, f + g, W \div 8)
      BY <2>2, <2>3, <3>1, <3>2, <3>3, Grown
    <3>5. Folded(q, e, i + 1) = f + g
      BY <1>3, <2>2, <3>1, <3>2, FoldedFacts
    <3> QED  BY <1>1, <2>2, <2>4, <3>4, <3>5
  <2> QED  BY <1>4, <2>7, <2>8, <2>9
<1>8. ProductsAreExact'
  BY <1>1, <1>2 DEF ProductsAreExact
<1> QED  BY <1>1, <1>2, <1>6, <1>7, <1>8 DEF ToomInv

\* Leaving the loop keeps it.
LEMMA InvDone ==
  ASSUME ToomInv, fold_done
  PROVE  ToomInv'
<1>1. /\ pc = "fold" /\ i = RES /\ pc' = "done"
      /\ a' = a /\ b' = b /\ r' = r /\ before' = before /\ w' = w /\ i' = i
  BY DEF fold_done
<1>2. TypeOK' /\ ProductsAreExact' /\ FoldInv'
  BY <1>1 DEF ToomInv, TypeOK, ProductsAreExact, FoldInv, Folded
<1> QED  BY <1>1, <1>2 DEF ToomInv

\* So does a step that changes nothing.
LEMMA InvStutter ==
  ASSUME ToomInv, UNCHANGED vars
  PROVE  ToomInv'
BY DEF vars, ToomInv, TypeOK, ProductsAreExact, FoldInv, Folded

\* The product keeps the invariant.
LEMMA ToomInvHolds == Spec => []ToomInv
<1>1. ToomInv /\ [Next]_vars => ToomInv'
  BY InvCall, InvFold, InvDone, InvStutter DEF Next
<1> QED  BY InvStart, <1>1, PTL DEF Spec

\* No index of the loop leaves r, and every word stays a word (poly.c's fold).
THEOREM ToomTypeOK == Spec => []TypeOK
<1>1. ToomInv => TypeOK
  BY DEF ToomInv
<1> QED  BY <1>1, ToomInvHolds, PTL

\* For every width of a word and every size of a block, the seven products that
\* karatsuba32_simple_u16 computes are right in all of their bits.
THEOREM ProductsExact == Spec => []ProductsAreExact
<1>1. ToomInv => ProductsAreExact
  BY DEF ToomInv
<1> QED  BY <1>1, ToomInvHolds, PTL

\* When every iteration has run, all of a word's product has come.
LEMMA FoldedAll ==
  ASSUME a \in [0..N - 1 -> Word], b \in [0..N - 1 -> Word], NEW q \in 0..3, NEW e \in 0..Blk - 1
  PROVE  Folded(q, e, RES) = Coeff(a, b, N, (q * Blk) + e) - Coeff(a, b, N, ((q * Blk) + e) + N)
<1>1. /\ q \in Int /\ e \in Int /\ e + Blk \in Int /\ q + 4 \in Int /\ q - 1 \in Int /\ q + 3 \in Int
      /\ q \in 0..7 /\ q + 4 \in 0..7 /\ (q + 4) - 1 = q + 3
      /\ e < RES /\ (~(e + Blk < RES) => e + Blk \notin 0..(2 * Blk) - 2)
      /\ ((q + 4) * Blk) + e = ((q * Blk) + e) + N
  <2>1. q = 0 \/ q = 1 \/ q = 2 \/ q = 3
    OBVIOUS
  <2> QED  BY <2>1, BlkFacts
<1>2. PICK x \in Int, y \in Int, u \in Int, v \in Int :
        /\ x = Degree(a, b, q, e) /\ y = Degree(a, b, q + 4, e)
        /\ u = Degree(a, b, q - 1, e + Blk) /\ v = Degree(a, b, q + 3, e + Blk)
        /\ ~(e + Blk < RES) => u = 0 /\ v = 0
  <2>1. Degree(a, b, q, e) \in Int /\ Degree(a, b, q + 4, e) \in Int
    BY <1>1, DegreeIs
  <2>2. /\ Degree(a, b, q - 1, e + Blk) \in Int /\ Degree(a, b, q + 3, e + Blk) \in Int
        /\ e + Blk \notin 0..(2 * Blk) - 2
             => Degree(a, b, q - 1, e + Blk) = 0 /\ Degree(a, b, q + 3, e + Blk) = 0
    BY <1>1, DegreeIs
  <2> QED  BY <1>1, <2>1, <2>2
<1>3. Coeff(a, b, N, (q * Blk) + e) = x + u
  BY <1>1, <1>2, CoeffInBlock
<1>4. Coeff(a, b, N, ((q + 4) * Blk) + e) = y + v
  <2>1. PICK p \in 0..7 : p = q + 4
    BY <1>1
  <2>2. Coeff(a, b, N, (p * Blk) + e) = Degree(a, b, p, e) + Degree(a, b, p - 1, e + Blk)
    BY CoeffInBlock
  <2> QED  BY <1>1, <1>2, <2>1, <2>2
<1>5. Folded(q, e, RES) = (x - y) + (u - v)
  <2>1. Folded(q, e, RES) = (IF e < RES THEN x - y ELSE 0) + (IF e + Blk < RES THEN u - v ELSE 0)
    BY <1>2 DEF Folded
  <2>2. e < RES /\ (~(e + Blk < RES) => u = 0 /\ v = 0)
    BY <1>1, <1>2
  <2>3. Folded(q, e, RES) = (x - y) + (IF e + Blk < RES THEN u - v ELSE 0)
    BY <2>1, <2>2
  <2>4. CASE e + Blk < RES
    BY <2>3, <2>4
  <2>5. CASE ~(e + Blk < RES)
    <3>1. Folded(q, e, RES) = (x - y) + 0 /\ u = 0 /\ v = 0
      BY <2>2, <2>3, <2>5
    <3> QED  BY <3>1
  <2> QED  BY <2>4, <2>5
<1> QED  BY <1>1, <1>2, <1>3, <1>4, <1>5

\* For every W, block size and factors, r has gained the product modulo X^N + 1 when
\* the product returns, up to multiples of W / 8: the bits that R_q does not have are
\* the only ones the divisions of the interpolation spoil.
THEOREM RightProduct == Spec => []RightModuloQ
<1>1. ASSUME ToomInv, pc = "done", NEW d \in 0..N - 1
      PROVE  ((r[d] - before[d]) - Schoolbook(a, b, d)) % (W \div 8) = 0
  <2>1. i = RES /\ FoldInv /\ TypeOK
    BY <1>1 DEF ToomInv
  <2>2. /\ a \in [0..N - 1 -> Word] /\ b \in [0..N - 1 -> Word] /\ r[d] \in Int /\ before[d] \in Int
    <3>1. Zero \in [0..N - 1 -> Word]
      <4>1. 0 \in Word
        BY WordFacts DEF Word
      <4> QED  BY <4>1 DEF Zero
    <3>2. r \in [0..N - 1 -> Word] /\ before \in [0..N - 1 -> Word]
      BY <2>1, <3>1, OperandsAssumption DEF TypeOK
    <3> QED  BY <2>1, <3>2, OperandsAssumption DEF TypeOK, Word
  <2>3. PICK q \in 0..3, e \in 0..Blk - 1 : d = (q * Blk) + e
    BY EveryPlace
  <2>4. PICK s \in Int : s = Schoolbook(a, b, d)
    BY <2>2, SchoolbookIs
  <2>5. PICK x \in Int : x = r[d] - before[d]
    BY <2>2
  <2>6. PICK t \in Int : t = Coeff(a, b, N, d) - Coeff(a, b, N, d + N)
    <3>1. a \in Summands(N) /\ b \in Summands(N) /\ d \in Int /\ d + N \in Int /\ N \in Nat
      BY <2>2, BlkFacts DEF Summands, Word
    <3>2. Coeff(a, b, N, d) \in Int /\ Coeff(a, b, N, d + N) \in Int
      BY <3>1, ConvTermsAt
    <3> QED  BY <3>2
  <2>7. SameMod(x, t, W \div 8)
    <3>1. SameMod(r[d] - before[d], Folded(q, e, RES), W \div 8)
      BY <2>1, <2>3 DEF FoldInv
    <3>2. Folded(q, e, RES) = t
      BY <2>2, <2>3, <2>6, FoldedAll
    <3> QED  BY <2>5, <3>1, <3>2
  <2>8. SameMod(s, t, W \div 8)
    BY <2>2, <2>4, <2>6, SchoolbookIs, FromWords
  <2>9. PICK V \in Nat \ {0} : V = W \div 8
    BY UnitFacts
  <2>10. SameMod(x - s, 0, V)
    <3>1. SameMod(x - s, t - t, V)
      BY <2>7, <2>8, <2>9, SameModFacts
    <3> QED  BY <3>1
  <2>11. (x - s) % V = 0
    <3>1. x - s \in Int /\ 0 \in Int /\ 0 % V = 0
      OBVIOUS
    <3> QED  BY <2>10, <3>1, SameModRemainder
  <2> QED  BY <2>4, <2>5, <2>9, <2>11
<1>2. ToomInv => RightModuloQ
  BY <1>1 DEF RightModuloQ
<1> QED  BY <1>2, ToomInvHolds, PTL
=============================================================================
