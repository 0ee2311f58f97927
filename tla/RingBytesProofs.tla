--------------------------- MODULE RingBytesProofs ---------------------------
(***************************************************************************)
(* Theorems about Packing and RingBytes, for every number of coefficients, *)
(* rows, bit length, rate of the sponge and size of the accumulator that   *)
(* holds a word and a byte.                                                *)
(***************************************************************************)
EXTENDS RingBytes, NumberLemmas, FiniteSetTheorems, SequenceTheorems, TLAPS

----------------------------------------------------------------------------
(* The tables of shifts.                                                   *)

\* The terms of unit u of the output: each puts a bit of the input where the order of
\* bits wants it, and each place of the unit gets a bit.
RightUnit(terms, u, from, to) ==
  /\ terms \subseteq Nat \X Int
  /\ \A t \in terms : t[2] = (u - 1) * to - t[1] * from
  /\ \A j \in 0..to - 1 : \E t \in terms : j + t[2] \in 0..from - 1

RightTable(table, from, to) ==
  /\ Len(table) \in Nat \ {0}
  /\ \A u \in 1..Len(table) : RightUnit(table[u], u, from, to)

LEMMA Pack2 == Len(PackTable["n2"]) = 1 /\ RightTable(PackTable["n2"], 2, 8)
<1> DEFINE T == PackTable["n2"]
<1>1. Len(T) = 1
  BY DEF PackTable
<1>2. RightUnit(T[1], 1, 2, 8)
  BY DEF RightUnit, PackTable
<1> QED  BY <1>1, <1>2 DEF RightTable

LEMMA Pack3 == Len(PackTable["n3"]) = 3 /\ RightTable(PackTable["n3"], 3, 8)
<1> DEFINE T == PackTable["n3"]
<1>1. Len(T) = 3
  BY DEF PackTable
<1>2. RightUnit(T[1], 1, 3, 8) /\ RightUnit(T[2], 2, 3, 8) /\ RightUnit(T[3], 3, 3, 8)
  BY DEF RightUnit, PackTable
<1>3. ASSUME NEW u \in 1..3
      PROVE  RightUnit(T[u], u, 3, 8)
  <2>1. u = 1 \/ u = 2 \/ u = 3
    OBVIOUS
  <2> HIDE DEF T
  <2> QED  BY <2>1, <1>2
<1> QED  BY <1>1, <1>3 DEF RightTable

LEMMA Pack8 == Len(PackTable["n8"]) = 1 /\ RightTable(PackTable["n8"], 8, 8)
<1> DEFINE T == PackTable["n8"]
<1>1. Len(T) = 1
  BY DEF PackTable
<1>2. RightUnit(T[1], 1, 8, 8)
  BY DEF RightUnit, PackTable
<1> QED  BY <1>1, <1>2 DEF RightTable

LEMMA Pack11 == Len(PackTable["n11"]) = 11 /\ RightTable(PackTable["n11"], 11, 8)
<1> DEFINE T == PackTable["n11"]
<1>1. Len(T) = 11
  BY DEF PackTable
<1>2. RightUnit(T[1], 1, 11, 8) /\ RightUnit(T[2], 2, 11, 8) /\ RightUnit(T[3], 3, 11, 8)
  BY DEF RightUnit, PackTable
<1>3. RightUnit(T[4], 4, 11, 8) /\ RightUnit(T[5], 5, 11, 8) /\ RightUnit(T[6], 6, 11, 8)
  BY DEF RightUnit, PackTable
<1>4. RightUnit(T[7], 7, 11, 8) /\ RightUnit(T[8], 8, 11, 8) /\ RightUnit(T[9], 9, 11, 8)
  BY DEF RightUnit, PackTable
<1>5. RightUnit(T[10], 10, 11, 8) /\ RightUnit(T[11], 11, 11, 8)
  BY DEF RightUnit, PackTable
<1>6. ASSUME NEW u \in 1..11
      PROVE  RightUnit(T[u], u, 11, 8)
  <2>1. u = 1 \/ u = 2 \/ u = 3 \/ u = 4 \/ u = 5 \/ u = 6 \/ u = 7 \/ u = 8 \/ u = 9 \/ u = 10 \/ u = 11
    OBVIOUS
  <2> HIDE DEF T
  <2> QED  BY <2>1, <1>2, <1>3, <1>4, <1>5
<1> QED  BY <1>1, <1>6 DEF RightTable

LEMMA Unpack2 == Len(UnpackTable["n2"]) = 4 /\ RightTable(UnpackTable["n2"], 8, 2)
<1> DEFINE T == UnpackTable["n2"]
<1>1. Len(T) = 4
  BY DEF UnpackTable
<1>2. RightUnit(T[1], 1, 8, 2) /\ RightUnit(T[2], 2, 8, 2) /\ RightUnit(T[3], 3, 8, 2)
  BY DEF RightUnit, UnpackTable
<1>3. RightUnit(T[4], 4, 8, 2)
  BY DEF RightUnit, UnpackTable
<1>4. ASSUME NEW u \in 1..4
      PROVE  RightUnit(T[u], u, 8, 2)
  <2>1. u = 1 \/ u = 2 \/ u = 3 \/ u = 4
    OBVIOUS
  <2> HIDE DEF T
  <2> QED  BY <2>1, <1>2, <1>3
<1> QED  BY <1>1, <1>4 DEF RightTable

LEMMA Unpack3 == Len(UnpackTable["n3"]) = 8 /\ RightTable(UnpackTable["n3"], 8, 3)
<1> DEFINE T == UnpackTable["n3"]
<1>1. Len(T) = 8
  BY DEF UnpackTable
<1>2. RightUnit(T[1], 1, 8, 3) /\ RightUnit(T[2], 2, 8, 3) /\ RightUnit(T[3], 3, 8, 3)
  BY DEF RightUnit, UnpackTable
<1>3. RightUnit(T[4], 4, 8, 3) /\ RightUnit(T[5], 5, 8, 3) /\ RightUnit(T[6], 6, 8, 3)
  BY DEF RightUnit, UnpackTable
<1>4. RightUnit(T[7], 7, 8, 3) /\ RightUnit(T[8], 8, 8, 3)
  BY DEF RightUnit, UnpackTable
<1>5. ASSUME NEW u \in 1..8
      PROVE  RightUnit(T[u], u, 8, 3)
  <2>1. u = 1 \/ u = 2 \/ u = 3 \/ u = 4 \/ u = 5 \/ u = 6 \/ u = 7 \/ u = 8
    OBVIOUS
  <2> HIDE DEF T
  <2> QED  BY <2>1, <1>2, <1>3, <1>4
<1> QED  BY <1>1, <1>5 DEF RightTable

LEMMA Unpack8 == Len(UnpackTable["n8"]) = 1 /\ RightTable(UnpackTable["n8"], 8, 8)
<1> DEFINE T == UnpackTable["n8"]
<1>1. Len(T) = 1
  BY DEF UnpackTable
<1>2. RightUnit(T[1], 1, 8, 8)
  BY DEF RightUnit, UnpackTable
<1> QED  BY <1>1, <1>2 DEF RightTable

LEMMA Unpack11 == Len(UnpackTable["n11"]) = 8 /\ RightTable(UnpackTable["n11"], 8, 11)
<1> DEFINE T == UnpackTable["n11"]
<1>1. Len(T) = 8
  BY DEF UnpackTable
<1>2. RightUnit(T[1], 1, 8, 11) /\ RightUnit(T[2], 2, 8, 11) /\ RightUnit(T[3], 3, 8, 11)
  BY DEF RightUnit, UnpackTable
<1>3. RightUnit(T[4], 4, 8, 11) /\ RightUnit(T[5], 5, 8, 11) /\ RightUnit(T[6], 6, 8, 11)
  BY DEF RightUnit, UnpackTable
<1>4. RightUnit(T[7], 7, 8, 11) /\ RightUnit(T[8], 8, 8, 11)
  BY DEF RightUnit, UnpackTable
<1>5. ASSUME NEW u \in 1..8
      PROVE  RightUnit(T[u], u, 8, 11)
  <2>1. u = 1 \/ u = 2 \/ u = 3 \/ u = 4 \/ u = 5 \/ u = 6 \/ u = 7 \/ u = 8
    OBVIOUS
  <2> HIDE DEF T
  <2> QED  BY <2>1, <1>2, <1>3, <1>4
<1> QED  BY <1>1, <1>5 DEF RightTable

LEMMA Unpack13 == Len(UnpackTable["n13"]) = 8 /\ RightTable(UnpackTable["n13"], 8, 13)
<1> DEFINE T == UnpackTable["n13"]
<1>1. Len(T) = 8
  BY DEF UnpackTable
<1>2. RightUnit(T[1], 1, 8, 13) /\ RightUnit(T[2], 2, 8, 13) /\ RightUnit(T[3], 3, 8, 13)
  BY DEF RightUnit, UnpackTable
<1>3. RightUnit(T[4], 4, 8, 13) /\ RightUnit(T[5], 5, 8, 13) /\ RightUnit(T[6], 6, 8, 13)
  BY DEF RightUnit, UnpackTable
<1>4. RightUnit(T[7], 7, 8, 13) /\ RightUnit(T[8], 8, 8, 13)
  BY DEF RightUnit, UnpackTable
<1>5. ASSUME NEW u \in 1..8
      PROVE  RightUnit(T[u], u, 8, 13)
  <2>1. u = 1 \/ u = 2 \/ u = 3 \/ u = 4 \/ u = 5 \/ u = 6 \/ u = 7 \/ u = 8
    OBVIOUS
  <2> HIDE DEF T
  <2> QED  BY <2>1, <1>2, <1>3, <1>4
<1> QED  BY <1>1, <1>5 DEF RightTable

----------------------------------------------------------------------------
(* The inductive invariant of Packing.                                     *)

PackType ==
  /\ dir \in {"pack", "unpack"} /\ unrolled \in BOOLEAN /\ bitlen \in 1..16
  /\ unrolled => HasTable(dir, bitlen)
  /\ in \in 0..Units /\ out \in Seq([0..To - 1 -> SUBSET (Int \X Int)])

\* Bits a to b - 1 of the input, of units of f bits, at their places in an accumulator
\* that bits before a have left.
Bits(a, b, f) == {<<t - a, <<t \div f, t % f>>>> : t \in a..b - 1}

\* The bits of unit n at place s and behind.
UnitBits(n, s, f) == {<<j + s, <<n, j>>>> : j \in 0..f - 1}

\* A generic loop keeps the bits between what came out and what was taken; an unrolled
\* function is between two groups.
LoopInv ==
  IF unrolled
  THEN \E m \in 0..in : in = m * Group /\ Len(out) = m * Len(Table)
  ELSE /\ acc_shift = in * From - Len(out) * To /\ acc_shift \in 0..From + To - 1
       /\ acc = Bits(Len(out) * To, in * From, From)

PackInv == PackType /\ InOrder /\ LoopInv

----------------------------------------------------------------------------
(* The accumulator.                                                        *)

LEMMA BitOfUnit ==
  ASSUME NEW f \in Nat \ {0}, NEW k \in Int, NEW j \in 0..f - 1
  PROVE  (k * f + j) \div f = k /\ (k * f + j) % f = j
<1>1. PICK s \in Int : s = k * f
  OBVIOUS
<1>2. PICK t \in Int : t = s + j
  BY <1>1
<1>3. t = f * k + j
  BY <1>1, <1>2
<1>4. t \div f = k /\ t % f = j
  BY <1>3, DivisionUnique
<1> QED  BY <1>1, <1>2, <1>4

\* The bits before b, the first of unit n, were taken, and those before a came out.
Between(a, b, n, f) == a <= b /\ b = n * f

\* A unit that is taken brings its bits in behind the others.
LEMMA BitsTaken ==
  ASSUME NEW f \in Nat \ {0}, NEW k \in Nat, NEW a \in Nat, NEW b \in Nat, Between(a, b, k, f)
  PROVE  Bits(a, b + f, f) = Bits(a, b, f) \cup UnitBits(k, b - a, f)
<1> DEFINE new == {<<j + (b - a), <<k, j>>>> : j \in 0..f - 1}
           bit(t) == <<t \div f, t % f>>
<1>0. a <= b /\ b = k * f
  BY DEF Between
<1>1. /\ Bits(a, b + f, f) = {<<t - a, bit(t)>> : t \in a..(b + f) - 1}
      /\ Bits(a, b, f) = {<<t - a, bit(t)>> : t \in a..b - 1}
  BY DEF Bits
<1>2. ASSUME NEW t \in Int, NEW j \in 0..f - 1, t = b + j
      PROVE  bit(t) = <<k, j>> /\ t - a = j + (b - a)
  <2>1. (k * f + j) \div f = k /\ (k * f + j) % f = j
    <3>1. k \in Int
      OBVIOUS
    <3> QED  BY <3>1, BitOfUnit, Zenon
  <2>2. t \div f = k /\ t % f = j
    BY <1>0, <1>2, <2>1
  <2> QED  BY <1>0, <1>2, <2>2
<1> HIDE DEF bit
<1>3. ASSUME NEW t \in a..(b + f) - 1
      PROVE  <<t - a, bit(t)>> \in Bits(a, b, f) \cup new
  <2>1. CASE t <= b - 1
    BY <1>1, <2>1
  <2>2. CASE t >= b
    <3>1. PICK j \in 0..f - 1 : t = b + j
      <4>1. t - b \in 0..f - 1 /\ t = b + (t - b)
        BY <1>0, <2>2
      <4> QED  BY <4>1
    <3> QED  BY <1>2, <3>1
  <2> QED  BY <2>1, <2>2
<1>4. ASSUME NEW j \in 0..f - 1
      PROVE  <<j + (b - a), <<k, j>>>> \in Bits(a, b + f, f)
  <2>1. PICK t \in a..(b + f) - 1 : t = b + j
    <3>1. b + j \in a..(b + f) - 1
      BY <1>0
    <3> QED  BY <3>1
  <2>2. <<t - a, bit(t)>> = <<j + (b - a), <<k, j>>>>
    BY <1>0, <1>2, <2>1
  <2> QED  BY <1>1, <2>2
<1>5. ASSUME NEW t \in a..b - 1
      PROVE  <<t - a, bit(t)>> \in Bits(a, b + f, f)
  <2>1. t \in a..(b + f) - 1
    BY <1>0
  <2> QED  BY <1>1, <2>1
<1>6. Bits(a, b + f, f) \subseteq Bits(a, b, f) \cup new
  <2> HIDE DEF new
  <2> QED  BY <1>1, <1>3
<1>7. Bits(a, b, f) \subseteq Bits(a, b + f, f)
  BY <1>1, <1>5
<1>8. new \subseteq Bits(a, b + f, f)
  BY <1>4
<1> QED  BY <1>6, <1>7, <1>8 DEF UnitBits

\* The low bits that come out are the next bits of the input, each alone.
LEMMA BitsEmitted ==
  ASSUME NEW f \in Nat \ {0}, NEW a \in Nat, NEW b \in Nat, NEW o \in Nat, a + o <= b
  PROVE  /\ \A j \in 0..o - 1 :
              {e[2] : e \in {g \in Bits(a, b, f) : g[1] = j}} = {<<(a + j) \div f, (a + j) % f>>}
         /\ {<<e[1] - o, e[2]>> : e \in {g \in Bits(a, b, f) : g[1] >= o}} = Bits(a + o, b, f)
<1> DEFINE bit(t) == <<t \div f, t % f>>
<1>1. Bits(a, b, f) = {<<t - a, bit(t)>> : t \in a..b - 1}
  BY DEF Bits
<1>2. Bits(a + o, b, f) = {<<t - (a + o), bit(t)>> : t \in a + o..b - 1}
  BY DEF Bits
<1> HIDE DEF bit
<1>3. ASSUME NEW j \in 0..o - 1
      PROVE  {e[2] : e \in {g \in Bits(a, b, f) : g[1] = j}} = {bit(a + j)}
  <2>1. PICK t \in a..b - 1 : t = a + j /\ t - a = j
    <3>1. a + j \in a..b - 1 /\ (a + j) - a = j
      OBVIOUS
    <3> QED  BY <3>1
  <2>2. <<j, bit(a + j)>> \in Bits(a, b, f)
    BY <1>1, <2>1
  <2>3. ASSUME NEW g \in Bits(a, b, f), g[1] = j
        PROVE  g[2] = bit(a + j)
    <3>1. PICK v \in a..b - 1 : g = <<v - a, bit(v)>>
      BY <1>1
    <3>2. v = a + j
      BY <2>3, <3>1
    <3> QED  BY <3>1, <3>2
  <2> QED  BY <2>2, <2>3
<1>4. ASSUME NEW g \in Bits(a, b, f), g[1] >= o
      PROVE  <<g[1] - o, g[2]>> \in Bits(a + o, b, f)
  <2>1. PICK v \in a..b - 1 : g = <<v - a, bit(v)>>
    BY <1>1
  <2>2. v \in a + o..b - 1 /\ (v - a) - o = v - (a + o)
    BY <1>4, <2>1
  <2> QED  BY <1>2, <2>1, <2>2
<1>5. ASSUME NEW v \in a + o..b - 1
      PROVE  \E g \in Bits(a, b, f) : g[1] >= o /\ <<g[1] - o, g[2]>> = <<v - (a + o), bit(v)>>
  <2>1. v \in a..b - 1 /\ v - a >= o /\ (v - a) - o = v - (a + o)
    OBVIOUS
  <2>2. <<v - a, bit(v)>> \in Bits(a, b, f)
    BY <1>1, <2>1
  <2> QED  BY <2>1, <2>2
<1>6. {<<e[1] - o, e[2]>> : e \in {g \in Bits(a, b, f) : g[1] >= o}} \subseteq Bits(a + o, b, f)
  BY <1>4
<1>7. Bits(a + o, b, f) \subseteq {<<e[1] - o, e[2]>> : e \in {g \in Bits(a, b, f) : g[1] >= o}}
  BY <1>2, <1>5
<1> QED  BY <1>3, <1>6, <1>7 DEF bit

----------------------------------------------------------------------------
(* Sizes of units and groups.                                              *)

LEMMA EightWords == \E m \in Nat \ {0} : N = 8 * m /\ N \div 8 = m
<1>1. PICK t \in Int, r \in 0..7 : t = N \div 8 /\ r = N % 8 /\ N = 8 * t + r
  BY SizesAssumption
<1>2. r = 0 /\ t >= 1
  BY <1>1, SizesAssumption
<1> QED  BY <1>1, <1>2

\* The input has as many bits as the output, and either is a number of units.
LEMMA Widths ==
  ASSUME dir \in {"pack", "unpack"}, bitlen \in 1..16
  PROVE  /\ From \in 1..16 /\ To \in 1..16 /\ From + To <= 24
         /\ Units \in Nat /\ Units * From = N * bitlen
         /\ \E m \in Nat : N * bitlen = m * To
<1>1. PICK m \in Nat \ {0} : N = 8 * m /\ N \div 8 = m
  BY EightWords
<1>2. PICK s \in Nat : s = m * bitlen
  OBVIOUS
<1>3. N * bitlen = 8 * s /\ N * bitlen \in Nat
  BY <1>1, <1>2
<1>4. CASE dir = "pack"
  <2>1. From = bitlen /\ To = 8 /\ Units = N
    BY <1>4 DEF From, To, Units
  <2>2. N * bitlen = s * 8 /\ N \in Nat
    BY <1>1, <1>3
  <2> QED  BY <2>1, <2>2
<1>5. CASE dir = "unpack"
  <2>1. From = 8 /\ To = bitlen
    BY <1>5 DEF From, To
  <2>2. Units = s
    <3>1. Units = (N * bitlen) \div 8
      BY <1>5 DEF Units
    <3>2. PICK y \in Int : y = N * bitlen /\ y = 8 * s
      BY <1>3
    <3>3. y \div 8 = s
      BY <3>2
    <3> QED  BY <3>1, <3>2, <3>3
  <2>3. s * 8 = N * bitlen /\ N \in Nat
    BY <1>1, <1>3
  <2> QED  BY <2>1, <2>2, <2>3
<1> QED  BY <1>4, <1>5

\* What the tables have in common: their terms are right, and groups fill the input.
LEMMA TableFacts ==
  ASSUME dir \in {"pack", "unpack"}, bitlen \in 1..16, HasTable(dir, bitlen)
  PROVE  /\ RightTable(Table, From, To)
         /\ Group \in Nat \ {0} /\ Group * From = Len(Table) * To
         /\ \E m \in Nat : Units = m * Group
<1>1. PICK m \in Nat \ {0} : N = 8 * m /\ N \div 8 = m
  BY EightWords
<1>2. Name[2] = "n2" /\ Name[3] = "n3" /\ Name[8] = "n8" /\ Name[11] = "n11" /\ Name[13] = "n13"
      /\ DOMAIN Name = {2, 3, 8, 11, 13}
  BY DEF Name
<1>3. bitlen \in {2, 3, 8, 11, 13}
  BY <1>2 DEF HasTable
<1>4. CASE dir = "pack" /\ bitlen = 2
  <2>1. From = 2 /\ To = 8 /\ Units = 8 * m /\ Table = PackTable["n2"]
    BY <1>1, <1>2, <1>4 DEF From, To, Units, Table
  <2>2. Len(Table) = 1 /\ RightTable(Table, 2, 8)
    BY <2>1, Pack2
  <2>3. Group = 4
    BY <2>1, <2>2 DEF Group
  <2>4. Units = (2 * m) * 4 /\ 2 * m \in Nat
    BY <2>1
  <2> QED  BY <2>1, <2>2, <2>3, <2>4
<1>5. CASE dir = "pack" /\ bitlen = 3
  <2>1. From = 3 /\ To = 8 /\ Units = 8 * m /\ Table = PackTable["n3"]
    BY <1>1, <1>2, <1>5 DEF From, To, Units, Table
  <2>2. Len(Table) = 3 /\ RightTable(Table, 3, 8)
    BY <2>1, Pack3
  <2>3. Group = 8
    BY <2>1, <2>2 DEF Group
  <2>4. Units = (1 * m) * 8 /\ 1 * m \in Nat
    BY <2>1
  <2> QED  BY <2>1, <2>2, <2>3, <2>4
<1>6. CASE dir = "pack" /\ bitlen = 8
  <2>1. From = 8 /\ To = 8 /\ Units = 8 * m /\ Table = PackTable["n8"]
    BY <1>1, <1>2, <1>6 DEF From, To, Units, Table
  <2>2. Len(Table) = 1 /\ RightTable(Table, 8, 8)
    BY <2>1, Pack8
  <2>3. Group = 1
    BY <2>1, <2>2 DEF Group
  <2>4. Units = (8 * m) * 1 /\ 8 * m \in Nat
    BY <2>1
  <2> QED  BY <2>1, <2>2, <2>3, <2>4
<1>7. CASE dir = "pack" /\ bitlen = 11
  <2>1. From = 11 /\ To = 8 /\ Units = 8 * m /\ Table = PackTable["n11"]
    BY <1>1, <1>2, <1>7 DEF From, To, Units, Table
  <2>2. Len(Table) = 11 /\ RightTable(Table, 11, 8)
    BY <2>1, Pack11
  <2>3. Group = 8
    BY <2>1, <2>2 DEF Group
  <2>4. Units = (1 * m) * 8 /\ 1 * m \in Nat
    BY <2>1
  <2> QED  BY <2>1, <2>2, <2>3, <2>4
<1>8. CASE dir = "unpack" /\ bitlen = 2
  <2>1. From = 8 /\ To = 2 /\ Units = 2 * m /\ Table = UnpackTable["n2"]
    BY <1>1, <1>2, <1>8 DEF From, To, Units, Table
  <2>2. Len(Table) = 4 /\ RightTable(Table, 8, 2)
    BY <2>1, Unpack2
  <2>3. Group = 1
    BY <2>1, <2>2 DEF Group
  <2>4. Units = (2 * m) * 1 /\ 2 * m \in Nat
    BY <2>1
  <2> QED  BY <2>1, <2>2, <2>3, <2>4
<1>9. CASE dir = "unpack" /\ bitlen = 3
  <2>1. From = 8 /\ To = 3 /\ Units = 3 * m /\ Table = UnpackTable["n3"]
    BY <1>1, <1>2, <1>9 DEF From, To, Units, Table
  <2>2. Len(Table) = 8 /\ RightTable(Table, 8, 3)
    BY <2>1, Unpack3
  <2>3. Group = 3
    BY <2>1, <2>2 DEF Group
  <2>4. Units = (1 * m) * 3 /\ 1 * m \in Nat
    BY <2>1
  <2> QED  BY <2>1, <2>2, <2>3, <2>4
<1>10. CASE dir = "unpack" /\ bitlen = 8
  <2>1. From = 8 /\ To = 8 /\ Units = 8 * m /\ Table = UnpackTable["n8"]
    BY <1>1, <1>2, <1>10 DEF From, To, Units, Table
  <2>2. Len(Table) = 1 /\ RightTable(Table, 8, 8)
    BY <2>1, Unpack8
  <2>3. Group = 1
    BY <2>1, <2>2 DEF Group
  <2>4. Units = (8 * m) * 1 /\ 8 * m \in Nat
    BY <2>1
  <2> QED  BY <2>1, <2>2, <2>3, <2>4
<1>11. CASE dir = "unpack" /\ bitlen = 11
  <2>1. From = 8 /\ To = 11 /\ Units = 11 * m /\ Table = UnpackTable["n11"]
    BY <1>1, <1>2, <1>11 DEF From, To, Units, Table
  <2>2. Len(Table) = 8 /\ RightTable(Table, 8, 11)
    BY <2>1, Unpack11
  <2>3. Group = 11
    BY <2>1, <2>2 DEF Group
  <2>4. Units = (1 * m) * 11 /\ 1 * m \in Nat
    BY <2>1
  <2> QED  BY <2>1, <2>2, <2>3, <2>4
<1>12. CASE dir = "unpack" /\ bitlen = 13
  <2>1. From = 8 /\ To = 13 /\ Units = 13 * m /\ Table = UnpackTable["n13"]
    BY <1>1, <1>2, <1>12 DEF From, To, Units, Table
  <2>2. Len(Table) = 8 /\ RightTable(Table, 8, 13)
    BY <2>1, Unpack13
  <2>3. Group = 13
    BY <2>1, <2>2 DEF Group
  <2>4. Units = (1 * m) * 13 /\ 1 * m \in Nat
    BY <2>1
  <2> QED  BY <2>1, <2>2, <2>3, <2>4
<1>13. ~(dir = "pack" /\ bitlen = 13)
  <2>1. "n13" \notin DOMAIN PackTable
    BY DEF PackTable
  <2> QED  BY <1>2, <2>1 DEF HasTable
<1> QED  BY <1>3, <1>4, <1>5, <1>6, <1>7, <1>8, <1>9, <1>10, <1>11, <1>12, <1>13

----------------------------------------------------------------------------
(* The steps of Packing.                                                   *)

\* The terms of a unit put the one right bit at each place of it.
LEMMA OrOfTerms ==
  ASSUME NEW terms, NEW u \in Nat \ {0}, NEW first \in Nat, From \in Nat \ {0}, To \in Nat \ {0},
         RightUnit(terms, u, From, To),
         NEW j \in 0..To - 1, NEW t \in Int, t = first * From + (u - 1) * To + j
  PROVE  Or(terms, first)[j] = {<<t \div From, t % From>>}
<1> DEFINE place(v) == <<first + v[1], j + v[2]>>
<1>1. Or(terms, first)[j] = {place(v) : v \in {w \in terms : j + w[2] \in 0..From - 1}}
  BY DEF Or
<1>2. ASSUME NEW v \in terms, j + v[2] \in 0..From - 1
      PROVE  place(v) = <<t \div From, t % From>>
  <2>1. v[1] \in Nat /\ v[2] \in Int /\ v[2] = (u - 1) * To - v[1] * From
    BY DEF RightUnit
  <2>2. PICK s \in Int, y \in Int, z \in Int :
          s = first * From /\ y = (u - 1) * To /\ z = v[1] * From
    BY <2>1
  <2>3. PICK n \in Int : n = first + v[1] /\ n * From = s + z
    <3>1. first + v[1] \in Int /\ (first + v[1]) * From = s + z
      BY <2>1, <2>2
    <3> QED  BY <3>1
  <2>4. PICK q \in 0..From - 1 : q = j + v[2]
    BY <1>2
  <2>5. t = n * From + q
    BY <2>1, <2>2, <2>3, <2>4
  <2>6. t \div From = n /\ t % From = q
    BY <2>5, BitOfUnit
  <2> QED  BY <2>3, <2>4, <2>6
<1>3. PICK v \in terms : j + v[2] \in 0..From - 1
  BY DEF RightUnit
<1> HIDE DEF place
<1> QED  BY <1>1, <1>2, <1>3

LEMMA SameSizes ==
  ASSUME UNCHANGED <<dir, bitlen>>
  PROVE  From' = From /\ To' = To /\ Units' = Units /\ Table' = Table /\ Group' = Group
BY DEF From, To, Units, Table, Group

LEMMA TakeKeeps ==
  ASSUME PackInv, ~unrolled, ~Full, Take
  PROVE  PackInv'
<1>1. /\ From \in 1..16 /\ To \in 1..16 /\ From + To <= 24 /\ Units \in Nat
  BY Widths DEF PackInv, PackType
<1>2. /\ From' = From /\ To' = To /\ Units' = Units
      /\ UNCHANGED <<dir, bitlen, unrolled, out>> /\ in' = in + 1
  BY SameSizes DEF Take
<1>3. PICK a \in Nat, b \in Nat : a = Len(out) * To /\ b = in * From
  <2>1. Len(out) \in Nat /\ in \in Nat
    BY <1>1 DEF PackInv, PackType
  <2> QED  BY <1>1, <2>1
<1>4. acc_shift = b - a /\ acc_shift \in 0..To - 1 /\ acc = Bits(a, b, From)
  BY <1>1, <1>3 DEF PackInv, LoopInv, Full
<1>5. in' * From = b + From
  BY <1>1, <1>2, <1>3 DEF PackInv, PackType
<1>6. acc' = Bits(a, b + From, From)
  <2>1. {q \in 0..From - 1 : q + acc_shift < ACC} = 0..From - 1
    BY <1>1, <1>4, SizesAssumption
  <2>2. acc' = acc \cup UnitBits(in, b - a, From)
    BY <1>4, <2>1 DEF Take, UnitBits
  <2>3. From \in Nat \ {0} /\ in \in Nat /\ a <= b
    BY <1>1, <1>4 DEF PackInv, PackType
  <2>4. Bits(a, b + From, From) = Bits(a, b, From) \cup UnitBits(in, b - a, From)
    <3>1. Between(a, b, in, From)
      BY <1>3, <2>3 DEF Between
    <3> QED  BY <2>3, <3>1, BitsTaken
  <2> QED  BY <1>4, <2>2, <2>4, Zenon
<1>7. PackType'
  <2>1. in' \in 0..Units
    BY <1>1, <1>2 DEF Take, PackInv, PackType
  <2> QED  BY <1>2, <2>1 DEF PackInv, PackType, HasTable
<1>8. InOrder'
  BY <1>2 DEF PackInv, InOrder
<1>9. LoopInv'
  <2>1. acc_shift' = in' * From' - Len(out') * To' /\ acc_shift' \in 0..From' + To' - 1
    <3>1. acc_shift' = (b + From) - a /\ acc_shift' \in 0..From + To - 1
      BY <1>1, <1>4 DEF Take
    <3> QED  BY <1>2, <1>3, <1>5, <3>1
  <2>2. acc' = Bits(Len(out') * To', in' * From', From')
    BY <1>2, <1>3, <1>5, <1>6
  <2>3. ~unrolled'
    BY <1>2
  <2> QED  BY <2>1, <2>2, <2>3 DEF LoopInv, Bits
<1> QED  BY <1>7, <1>8, <1>9 DEF PackInv

LEMMA EmitKeeps ==
  ASSUME PackInv, ~unrolled, Full, Emit
  PROVE  PackInv'
<1> DEFINE unit == [j \in 0..To - 1 |-> {e[2] : e \in {f \in acc : f[1] = j}}]
<1>1. /\ From \in 1..16 /\ To \in 1..16 /\ From + To <= 24 /\ Units \in Nat
  BY Widths DEF PackInv, PackType
<1>2. /\ From' = From /\ To' = To /\ Units' = Units
      /\ UNCHANGED <<dir, bitlen, unrolled, in>> /\ out' = Append(out, unit)
  BY SameSizes DEF Emit
<1>3. PICK n \in Nat : n = Len(out)
  BY DEF PackInv, PackType
<1>4. PICK a \in Nat, b \in Nat : a = n * To /\ b = in * From
  <2>1. in \in Nat
    BY <1>1 DEF PackInv, PackType
  <2> QED  BY <1>1, <1>3, <2>1
<1>5. acc_shift = b - a /\ acc_shift \in To..From + To - 1 /\ acc = Bits(a, b, From)
  BY <1>1, <1>3, <1>4 DEF PackInv, LoopInv, Full
<1>6. /\ \A j \in 0..To - 1 : unit[j] = {<<(a + j) \div From, (a + j) % From>>}
      /\ acc' = Bits(a + To, b, From)
  <2>1. From \in Nat \ {0} /\ To \in Nat /\ a + To <= b
    BY <1>1, <1>5
  <2>2. /\ \A j \in 0..To - 1 :
             {e[2] : e \in {g \in Bits(a, b, From) : g[1] = j}} = {<<(a + j) \div From, (a + j) % From>>}
        /\ {<<e[1] - To, e[2]>> : e \in {g \in Bits(a, b, From) : g[1] >= To}} = Bits(a + To, b, From)
    BY <2>1, BitsEmitted, Zenon
  <2>3. acc = Bits(a, b, From)
    BY <1>5
  <2> HIDE <1>5
  <2>4. \A j \in 0..To - 1 : unit[j] = {<<(a + j) \div From, (a + j) % From>>}
    BY <2>2, <2>3
  <2> QED  BY <2>2, <2>3, <2>4, Zenon DEF Emit, Shifted
<1>7. unit \in [0..To - 1 -> SUBSET (Int \X Int)]
  <2>1. \A j \in 0..To - 1 : (a + j) \div From \in Int /\ (a + j) % From \in Int
    BY <1>1
  <2> HIDE DEF unit
  <2>2. \A j \in 0..To - 1 : unit[j] \in SUBSET (Int \X Int)
    BY <1>6, <2>1
  <2> QED  BY <2>2 DEF unit
<1> HIDE DEF unit
<1>8. /\ out' \in Seq([0..To - 1 -> SUBSET (Int \X Int)]) /\ Len(out') = n + 1
      /\ \A u \in 1..n : out'[u] = out[u]
      /\ out'[n + 1] = unit
  BY <1>2, <1>3, <1>7, AppendProperties DEF PackInv, PackType
<1>9. (n + 1) * To = a + To
  BY <1>1, <1>4
<1>10. PackType'
  BY <1>2, <1>8 DEF PackInv, PackType, HasTable
<1>11. InOrder'
  <2>1. ASSUME NEW u \in 1..n + 1, NEW j \in 0..To - 1, NEW t, t = (u - 1) * To + j
        PROVE  out'[u][j] = {<<t \div From, t % From>>}
    <3>1. CASE u \in 1..n
      BY <1>3, <1>8, <2>1, <3>1 DEF PackInv, InOrder
    <3>2. CASE u = n + 1
      <4>1. t = a + j
        BY <1>4, <2>1, <3>2
      <4> QED  BY <1>6, <1>8, <3>2, <4>1
    <3> QED  BY <3>1, <3>2
  <2> QED  BY <1>2, <1>8, <2>1 DEF InOrder
<1>12. LoopInv'
  <2>1. acc_shift' = in' * From' - Len(out') * To' /\ acc_shift' \in 0..From' + To' - 1
    <3>1. acc_shift' = b - (a + To) /\ acc_shift' \in 0..From + To - 1
      BY <1>1, <1>5 DEF Emit
    <3> QED  BY <1>2, <1>4, <1>8, <1>9, <3>1
  <2>2. acc' = Bits(Len(out') * To', in' * From', From')
    BY <1>2, <1>4, <1>6, <1>8, <1>9
  <2>3. ~unrolled'
    BY <1>2
  <2> QED  BY <2>1, <2>2, <2>3 DEF LoopInv, Bits
<1> QED  BY <1>10, <1>11, <1>12 DEF PackInv

LEMMA GroupKeeps ==
  ASSUME PackInv, group
  PROVE  PackInv'
<1> DEFINE more == [u \in 1..Len(Table) |-> Or(Table[u], in)]
<1>1. /\ From \in 1..16 /\ To \in 1..16 /\ Units \in Nat
  BY Widths DEF PackInv, PackType
<1>2. /\ From' = From /\ To' = To /\ Units' = Units /\ Table' = Table /\ Group' = Group
      /\ UNCHANGED <<dir, bitlen, unrolled>> /\ in' = in + Group /\ out' = out \o more
      /\ unrolled /\ in < Units
  BY SameSizes DEF group
<1>3. /\ RightTable(Table, From, To) /\ Group \in Nat \ {0} /\ Group * From = Len(Table) * To
      /\ \E c \in Nat : Units = c * Group
  BY <1>2, TableFacts DEF PackInv, PackType
<1>4. PICK L \in Nat \ {0}, g \in Nat \ {0} : L = Len(Table) /\ g = Group /\ g * From = L * To
  BY <1>3 DEF RightTable
<1>5. PICK m \in Nat, n \in Nat : in = m * g /\ n = Len(out) /\ n = m * L
  <2>1. PICK k \in 0..in : in = k * Group /\ Len(out) = k * Len(Table)
    BY <1>2 DEF PackInv, LoopInv
  <2>2. k \in Nat /\ Len(out) \in Nat
    BY <1>1 DEF PackInv, PackType
  <2> QED  BY <1>4, <2>1, <2>2
<1>6. n * To = in * From
  <2>1. (m * L) * To = m * (L * To) /\ (m * g) * From = m * (g * From)
    BY <1>1
  <2> QED  BY <1>4, <1>5, <2>1
<1>7. ASSUME NEW u \in 1..L, NEW j \in 0..To - 1, NEW t \in Int, t = ((n + u) - 1) * To + j
      PROVE  more[u][j] = {<<t \div From, t % From>>}
  <2>1. PICK s \in Int, y \in Int : s = in * From /\ y = (u - 1) * To
    BY <1>1, <1>2 DEF PackInv, PackType
  <2>2. t = s + y + j
    <3>1. ((n + u) - 1) * To = n * To + (u - 1) * To
      BY <1>1
    <3> QED  BY <1>6, <1>7, <2>1, <3>1
  <2>3. t = in * From + (u - 1) * To + j
    BY <2>1, <2>2
  <2>4. /\ From \in Nat \ {0} /\ To \in Nat \ {0} /\ u \in Nat \ {0} /\ in \in Nat
        /\ RightUnit(Table[u], u, From, To)
    BY <1>1, <1>3, <1>4 DEF RightTable, PackInv, PackType
  <2>5. Or(Table[u], in)[j] = {<<t \div From, t % From>>}
    BY <2>3, <2>4, OrOfTerms
  <2> QED  BY <1>4, <2>5
<1>8. more \in Seq([0..To - 1 -> SUBSET (Int \X Int)]) /\ Len(more) = L
  <2>1. ASSUME NEW u \in 1..L
        PROVE  Or(Table[u], in) \in [0..To - 1 -> SUBSET (Int \X Int)]
    <3>1. \A v \in Table[u] : v[1] \in Nat /\ v[2] \in Int
      BY <1>3, <1>4 DEF RightTable, RightUnit
    <3>2. in \in Int /\ 0..To - 1 \subseteq Int
      BY <1>1 DEF PackInv, PackType
    <3>3. \A v \in Table[u] : \A j \in 0..To - 1 : <<in + v[1], j + v[2]>> \in Int \X Int
      BY <3>1, <3>2
    <3> QED  BY <3>3 DEF Or
  <2> QED  BY <1>4, <2>1
<1> HIDE DEF more
<1>9. /\ out' \in Seq([0..To - 1 -> SUBSET (Int \X Int)]) /\ Len(out') = n + L
      /\ \A u \in 1..n : out'[u] = out[u]
      /\ \A u \in 1..L : out'[n + u] = more[u]
  <2>1. /\ out \o more \in Seq([0..To - 1 -> SUBSET (Int \X Int)])
        /\ Len(out \o more) = Len(out) + Len(more)
        /\ \A u \in 1..Len(out) + Len(more) :
             (out \o more)[u] = IF u <= Len(out) THEN out[u] ELSE more[u - Len(out)]
    <3>1. out \in Seq([0..To - 1 -> SUBSET (Int \X Int)])
      BY DEF PackInv, PackType
    <3> QED  BY <1>8, <3>1, ConcatProperties, Zenon
  <2>2. /\ out' \in Seq([0..To - 1 -> SUBSET (Int \X Int)]) /\ Len(out') = n + L
        /\ \A u \in 1..n + L : out'[u] = IF u <= n THEN out[u] ELSE more[u - n]
    BY <1>2, <1>5, <1>8, <2>1, Zenon
  <2>3. \A u \in 1..L : n + u \in 1..n + L /\ ~(n + u <= n) /\ (n + u) - n = u
    OBVIOUS
  <2>4. \A u \in 1..n : u \in 1..n + L /\ u <= n
    OBVIOUS
  <2> QED  BY <2>2, <2>3, <2>4, Zenon
<1>10. in' = (m + 1) * g /\ n + L = (m + 1) * L /\ m + 1 \in 0..in'
  <2>1. in' = m * g + g /\ (m + 1) * g = m * g + g
    BY <1>2, <1>4, <1>5
  <2>2. n + L = (m + 1) * L
    BY <1>5
  <2>3. (m + 1) * g >= m + 1
    BY <1>4
  <2>4. in' \in Int
    BY <1>2, <1>3 DEF PackInv, PackType
  <2> QED  BY <2>1, <2>2, <2>3, <2>4
<1>11. in' \in 0..Units
  <2>1. PICK c \in Nat : Units = c * g
    BY <1>3, <1>4
  <2>2. m < c
    <3>1. ASSUME c <= m PROVE FALSE
      <4>1. c * g <= m * g
        BY <1>4, <3>1
      <4> QED  BY <1>1, <1>2, <1>5, <2>1, <4>1
    <3> QED  BY <3>1
  <2>3. (m + 1) * g <= c * g
    BY <1>4, <2>2
  <2> QED  BY <1>1, <1>10, <2>1, <2>3
<1>12. PackType'
  BY <1>2, <1>9, <1>11 DEF PackInv, PackType, HasTable
<1>13. InOrder'
  <2>1. ASSUME NEW u \in 1..n + L, NEW j \in 0..To - 1, NEW t \in Int, t = (u - 1) * To + j
        PROVE  out'[u][j] = {<<t \div From, t % From>>}
    <3>1. CASE u \in 1..n
      BY <1>5, <1>9, <2>1, <3>1 DEF PackInv, InOrder
    <3>2. CASE u \notin 1..n
      <4>1. PICK v \in 1..L : u = n + v
        <5>1. u - n \in 1..L /\ u = n + (u - n)
          BY <3>2
        <5> QED  BY <5>1
      <4>2. t = ((n + v) - 1) * To + j /\ out'[u] = more[v]
        BY <1>9, <2>1, <4>1
      <4> QED  BY <1>7, <2>1, <4>2
    <3> QED  BY <3>1, <3>2
  <2>2. \A u \in 1..n + L : \A j \in 0..To - 1 : (u - 1) * To + j \in Int
    BY <1>1
  <2> QED  BY <1>2, <1>9, <2>1, <2>2 DEF InOrder
<1>14. LoopInv'
  BY <1>2, <1>4, <1>9, <1>10 DEF LoopInv
<1> QED  BY <1>12, <1>13, <1>14 DEF PackInv

\* A function of packing.c starts.
Fresh ==
  /\ dir \in {"pack", "unpack"} /\ bitlen \in 1..16 /\ unrolled \in BOOLEAN
  /\ unrolled => HasTable(dir, bitlen)
  /\ acc = {} /\ acc_shift = 0 /\ in = 0 /\ out = <<>>

LEMMA PackStart == Fresh => PackInv
<1> SUFFICES ASSUME Fresh PROVE PackInv
  OBVIOUS
<1> USE DEF Fresh
<1>1. /\ From \in 1..16 /\ To \in 1..16 /\ From + To <= 24 /\ Units \in Nat
  BY Widths
<1>2. Len(out) = 0 /\ out \in Seq([0..To - 1 -> SUBSET (Int \X Int)])
  OBVIOUS
<1>3. PackType
  BY <1>1, <1>2 DEF PackType
<1>4. InOrder
  BY <1>2 DEF InOrder
<1>5. LoopInv
  <2>1. CASE unrolled
    <3>1. PICK g \in Int, l \in Int : g = Group /\ l = Len(Table)
      BY <2>1, TableFacts DEF RightTable
    <3>2. in = 0 * g /\ Len(out) = 0 * l /\ 0 \in 0..in
      BY <1>2, <3>1
    <3> QED  BY <2>1, <3>1, <3>2 DEF LoopInv
  <2>2. CASE ~unrolled
    <3>1. Len(out) * To = 0 /\ in * From = 0
      BY <1>1, <1>2
    <3>2. Bits(0, 0, From) = {}
      BY DEF Bits
    <3>3. acc_shift = in * From - Len(out) * To /\ acc_shift \in 0..From + To - 1
      BY <1>1, <3>1
    <3> QED  BY <2>2, <3>1, <3>2, <3>3 DEF LoopInv
  <2> QED  BY <2>1, <2>2 DEF PackInv, PackType
<1> QED  BY <1>3, <1>4, <1>5 DEF PackInv

LEMMA PackStep ==
  ASSUME PackInv, Next
  PROVE  PackInv'
<1>1. CASE group
  BY <1>1, GroupKeeps
<1>2. CASE poly_pack
  BY <1>2, TakeKeeps, EmitKeeps DEF poly_pack
<1>3. CASE poly_unpack
  BY <1>3, TakeKeeps, EmitKeeps DEF poly_unpack
<1> QED  BY <1>1, <1>2, <1>3 DEF Next

LEMMA PackStutter ==
  ASSUME PackInv, UNCHANGED vars
  PROVE  PackInv'
BY SameSizes DEF PackInv, PackType, InOrder, LoopInv, vars, HasTable, Bits

\* At the end less than a unit is left, and the input is a number of units: nothing.
LEMMA NoneLeft ==
  ASSUME PackInv
  PROVE  NothingIsLost
<1>1. /\ From \in 1..16 /\ To \in 1..16 /\ Units \in Nat /\ Units * From = N * bitlen
  BY Widths DEF PackInv, PackType
<1>2. PICK m \in Nat : N * bitlen = m * To
  BY Widths DEF PackInv, PackType
<1>3. PICK n \in Nat : n = Len(out)
  BY DEF PackInv, PackType
<1>4. ASSUME ~unrolled
      PROVE  acc = {<<t - (Len(out) * To), <<t \div From, t % From>>>> :
                      t \in (Len(out) * To)..(in * From) - 1}
  BY <1>4 DEF PackInv, LoopInv, Bits
<1>5. ASSUME in = Units, ~unrolled, ~Full
      PROVE  n * To = N * bitlen
  <2>1. acc_shift = m * To - n * To /\ acc_shift \in 0..From + To - 1
    BY <1>1, <1>2, <1>3, <1>5 DEF PackInv, LoopInv
  <2>2. acc_shift \in 0..To - 1
    BY <1>1, <1>5, <2>1 DEF Full
  <2>3. PICK k \in Int : k = m - n
    OBVIOUS
  <2>4. k * To = acc_shift
    BY <1>1, <2>1, <2>3
  <2>5. k = 0
    <3>1. ASSUME k >= 1 PROVE FALSE
      <4>1. k * To >= To
        BY <1>1, <3>1
      <4> QED  BY <1>1, <2>2, <2>4, <4>1
    <3>2. ASSUME k <= -1 PROVE FALSE
      <4>1. k * To <= -To
        BY <1>1, <3>2
      <4> QED  BY <1>1, <2>2, <2>4, <4>1
    <3> QED  BY <3>1, <3>2
  <2> QED  BY <1>2, <2>3, <2>5
<1>6. ASSUME in = Units, unrolled
      PROVE  n * To = N * bitlen
  <2>1. PICK k \in 0..in : in = k * Group /\ n = k * Len(Table)
    BY <1>3, <1>6 DEF PackInv, LoopInv
  <2>2. PICK g \in Nat, l \in Nat : g = Group /\ l = Len(Table) /\ g * From = l * To
    BY <1>6, TableFacts DEF PackInv, PackType, RightTable
  <2>3. k \in Nat
    BY <1>1, <1>6
  <2>4. (k * g) * From = k * (g * From) /\ (k * l) * To = k * (l * To)
    BY <1>1, <2>2, <2>3
  <2>5. (k * l) * To = (k * g) * From
    BY <2>2, <2>4
  <2> QED  BY <1>1, <1>6, <2>1, <2>2, <2>5
<1> QED  BY <1>3, <1>4, <1>5, <1>6 DEF NothingIsLost

LEMMA PackInvariant == Spec => []PackInv
<1>1. Init => PackInv
  <2>1. ASSUME Init
        PROVE  Fresh
    BY <2>1, BitlensAssumption DEF Init, Name, Fresh
  <2> QED  BY <2>1, PackStart
<1>2. PackInv /\ [Next]_vars => PackInv'
  BY PackStep, PackStutter
<1> QED  BY <1>1, <1>2, PTL DEF Spec

\* A single polynomial, packed or unpacked by the function for its bit length or by a
\* generic loop of any bit length: the output is the input bit by bit (packing.c:6-345).
THEOREM PackingInOrder == Spec => [](InOrder /\ NothingIsLost)
<1>1. PackInv => InOrder /\ NothingIsLost
  BY NoneLeft DEF PackInv
<1> QED  BY <1>1, PackInvariant, PTL

----------------------------------------------------------------------------
(* The inductive invariant of RingBytes.                                   *)

RingType ==
  /\ fn \in Packers \cup Samplers \cup UNION {Readers[f] : f \in Packers}
  /\ K \in Nat \ {0} /\ ELL \in 1..K
  /\ fn \in Fused => bitlen \in {3, 8}
  /\ fn = "ring_pack" /\ bitlen = 11 => LOGP = 11
  /\ fn \in Samplers \ {"poly_uniform"} => bitlen <= LOGQ
  /\ (dir = "pack") = (fn \in Packers) /\ unrolled = Unrolled(fn, dir)
  /\ nonce \in 0..Streams /\ i \in 0..Polys

\* The row of the element that holds polynomial u.
RowOf(u) == IF fn \in {"ring_uniform_Awin_base", "ring_unpack_Awin"} THEN K - 1 - u ELSE u

\* What bit j of byte p of the buffer is: of a stream, or of a polynomial.
ByteBit(p, j) ==
  IF fn \in Samplers THEN <<p \div StreamLen, p % StreamLen, j>>
  ELSE <<p \div outlen, ((p % outlen) * 8 + j) \div bitlen, ((p % outlen) * 8 + j) % bitlen>>

\* The polynomial of an iteration.
PolyAt(k) == IF fn \in Fused THEN (ELL - 1) - k ELSE k

\* The bytes of the buffer that were written: those of the last polynomials, when a
\* fused function packs.
WrittenFrom == IF dir = "pack" /\ fn \in Fused THEN (Polys - i) * outlen ELSE 0
WrittenTo ==
  CASE fn \in Samplers -> nonce * StreamLen
    [] dir = "pack" /\ fn \notin Fused -> i * outlen
    [] OTHER -> Polys * outlen

BufInv ==
  /\ DOMAIN buf = 0..BufLen - 1
  /\ \A p \in WrittenFrom..WrittenTo - 1 : \A j \in 0..7 : buf[p][j] = {ByteBit(p, j)}

RowsRead == IF dir = "unpack" THEN i ELSE 0

\* Bit t of a polynomial that was read is bit t of its bytes.
RowsInv ==
  /\ DOMAIN x = {RowOf(PolyAt(k)) : k \in 0..RowsRead - 1}
  /\ \A k \in 0..RowsRead - 1 : \A w \in 0..N - 1 : \A j \in 0..bitlen - 1 :
       LET t == w * bitlen + j
       IN  x[RowOf(PolyAt(k))][w][j] = {ByteBit(PolyAt(k) * outlen + (t \div 8), t % 8)}

RingInv == PackInv /\ RingType /\ BufInv /\ RowsInv

----------------------------------------------------------------------------
(* Sizes of buffers.                                                       *)

\* Blocks of r bytes that hold a bytes: enough, and no more than for b bytes.
LEMMA RoundUp ==
  ASSUME NEW r \in Nat \ {0}, NEW a \in Nat
  PROVE  ((a + r) - 1) \div r \in Nat /\ a <= (((a + r) - 1) \div r) * r
<1>1. PICK q \in Int, s \in 0..r - 1 : q = ((a + r) - 1) \div r /\ (a + r) - 1 = r * q + s
  BY Division
<1>2. PICK y \in Int : y = r * q /\ q * r = y
  OBVIOUS
<1>3. y >= a
  BY <1>1, <1>2
<1>4. q >= 0
  <2>1. ASSUME q <= -1 PROVE FALSE
    <3>1. r * q <= r * (-1)
      BY <2>1
    <3> QED  BY <1>2, <1>3, <3>1
  <2> QED  BY <2>1
<1> QED  BY <1>1, <1>2, <1>3, <1>4

LEMMA RoundUpMonotone ==
  ASSUME NEW r \in Nat \ {0}, NEW a \in Nat, NEW b \in Nat, a <= b
  PROVE  (((a + r) - 1) \div r) * r <= (((b + r) - 1) \div r) * r
<1>1. PICK q \in Int, s \in 0..r - 1 : q = ((a + r) - 1) \div r /\ (a + r) - 1 = r * q + s
  BY Division
<1>2. PICK p \in Int, t \in 0..r - 1 : p = ((b + r) - 1) \div r /\ (b + r) - 1 = r * p + t
  BY Division
<1>3. PICK y \in Int, z \in Int : y = r * q /\ q * r = y /\ z = r * p /\ p * r = z
  OBVIOUS
<1>4. ASSUME y > z PROVE FALSE
  <2>1. q >= p + 1
    <3>1. ASSUME q <= p PROVE FALSE
      <4>1. r * q <= r * p
        BY <3>1
      <4> QED  BY <1>3, <1>4, <4>1
    <3> QED  BY <3>1
  <2>2. r * q >= r * (p + 1)
    BY <2>1
  <2>3. y >= z + r
    BY <1>3, <2>2
  <2> QED  BY <1>1, <1>2, <1>3, <2>3
<1> QED  BY <1>1, <1>2, <1>3, <1>4

\* The bytes of a polynomial have its bits.
LEMMA PolyBytes ==
  ASSUME bitlen \in 1..16
  PROVE  outlen \in Nat \ {0} /\ outlen * 8 = N * bitlen
<1>1. PICK m \in Nat \ {0} : N = 8 * m /\ N \div 8 = m
  BY EightWords
<1>2. outlen = bitlen * m
  BY <1>1 DEF outlen
<1>3. bitlen * m \in Nat /\ bitlen * m >= 1
  BY <1>1
<1>4. (bitlen * m) * 8 = (8 * m) * bitlen
  BY <1>1
<1> QED  BY <1>1, <1>2, <1>3, <1>4

\* The four streams of a sampler hold its polynomials, and the buffer holds the streams.
LEMMA StreamBytes ==
  ASSUME bitlen \in 1..16, RingType, fn \in Samplers \ {"poly_uniform"}
  PROVE  /\ nblocks * RATE \in Nat \ {0} /\ RRLWR_XOF_BUFLEN \in Nat
         /\ K * outlen <= 4 * (nblocks * RATE)
         /\ nblocks * RATE <= RRLWR_XOF_BUFLEN
<1> USE RatesAssumption
<1>1. PICK m \in Nat \ {0} : N = 8 * m /\ N \div 8 = m
  BY EightWords
<1>2. PICK h \in Nat \ {0} : N = 32 * h /\ m = 4 * h
  <2>1. PICK h \in Int, r \in 0..31 : r = N % 32 /\ N = 32 * h + r
    BY SizesAssumption
  <2>2. m = 4 * h /\ N = 32 * h /\ h >= 1
    BY <1>1, <2>1
  <2> QED  BY <2>2
<1>3. PICK e \in Nat \ {0} : e = bitlen * h
  <2>1. bitlen * h \in Nat /\ bitlen * h >= 1
    BY <1>2
  <2> QED  BY <2>1
<1>4. outlen = 4 * e /\ outlen \div 4 = e
  <2>1. outlen = bitlen * (4 * h)
    BY <1>1, <1>2 DEF outlen
  <2>2. bitlen * (4 * h) = 4 * e
    BY <1>2, <1>3
  <2> QED  BY <2>1, <2>2
<1>5. PICK a \in Nat \ {0} : a = e * K /\ K * outlen = 4 * a
  <2>1. e * K \in Nat /\ e * K >= 1 /\ K * (4 * e) = 4 * (e * K)
    BY <1>3 DEF RingType
  <2> QED  BY <1>4, <2>1
<1>6. PICK b \in Nat : b = RRLWR_MAX_OUTLEN /\ a <= b
  <2>1. PICK l \in Nat : l = LOGQ * h /\ e <= l
    <3>1. LOGQ * h \in Nat /\ bitlen * h <= LOGQ * h
      BY <1>2 DEF RingType
    <3> QED  BY <1>3, <3>1
  <2>2. LOGQ * N = 32 * l
    <3>1. LOGQ * (32 * h) = 32 * (LOGQ * h)
      BY <1>2
    <3> QED  BY <1>2, <2>1, <3>1
  <2>3. (LOGQ * N) \div 4 = 8 * l
    <3>1. (32 * l) \div 4 = 8 * l
      OBVIOUS
    <3> QED  BY <2>2, <3>1
  <2>4. PICK c \in Nat : c = l * K /\ (8 * l) * K = 8 * c /\ a <= c
    <3>1. l * K \in Nat /\ (8 * l) * K = 8 * (l * K) /\ e * K <= l * K
      BY <2>1 DEF RingType
    <3> QED  BY <1>5, <3>1
  <2>5. RRLWR_MAX_OUTLEN = (8 * c) \div 8
    BY <2>3, <2>4 DEF RRLWR_MAX_OUTLEN
  <2> QED  BY <2>4, <2>5
<1>7. nblocks = ((a + RATE) - 1) \div RATE
  BY <1>4, <1>5 DEF nblocks
<1>8. RRLWR_XOF_BUFLEN = (((b + RATE) - 1) \div RATE) * RATE
  BY <1>6 DEF RRLWR_XOF_BUFLEN
<1>9. /\ nblocks \in Nat /\ a <= nblocks * RATE
      /\ ((b + RATE) - 1) \div RATE \in Nat
      /\ nblocks * RATE <= RRLWR_XOF_BUFLEN
  BY <1>6, <1>7, <1>8, RoundUp, RoundUpMonotone
<1>10. nblocks * RATE \in Nat /\ RRLWR_XOF_BUFLEN \in Nat
  BY <1>8, <1>9
<1>11. PICK s \in Nat : s = nblocks * RATE /\ a <= s
  BY <1>9, <1>10
<1>12. s # 0 /\ 4 * a <= 4 * s
  BY <1>11
<1> QED  BY <1>5, <1>9, <1>10, <1>11, <1>12

LEMMA BufferSizes ==
  ASSUME bitlen \in 1..16, RingType
  PROVE  /\ Polys \in Nat \ {0} /\ Streams \in Nat /\ BufLen \in Nat
         /\ fn \notin Samplers => Streams = 0 /\ BufLen = Polys * outlen
         /\ fn \in Samplers => /\ StreamLen \in Nat \ {0} /\ Streams # 0
                               /\ Polys * outlen <= Streams * StreamLen
                               /\ Streams * StreamLen <= BufLen
<1>1. outlen \in Nat \ {0}
  BY PolyBytes
<1>2. Polys \in Nat \ {0}
  BY DEF Polys, RingType
<1>3. CASE fn \notin Samplers
  <2>1. fn # "poly_uniform"
    BY <1>3 DEF Samplers
  <2>2. Streams = 0 /\ BufLen = Polys * outlen
    BY <1>3, <2>1 DEF Streams, BufLen
  <2>3. Polys * outlen \in Nat
    BY <1>1, <1>2
  <2> QED  BY <1>2, <1>3, <2>2, <2>3
<1>4. CASE fn = "poly_uniform"
  <2>1. /\ Streams = 1 /\ StreamLen = outlen /\ Polys = 1
        /\ BufLen = RRLWR_MAX_SAMPLING_BITLEN * (N \div 8) /\ fn \in Samplers
    BY <1>4 DEF Streams, StreamLen, Polys, BufLen, Samplers
  <2>2. PICK m \in Nat : m = N \div 8
    BY EightWords
  <2>3. bitlen * m <= 24 * m
    BY <2>2
  <2>4. BufLen \in Nat /\ outlen <= BufLen
    BY <2>1, <2>2, <2>3 DEF RRLWR_MAX_SAMPLING_BITLEN, outlen
  <2> QED  BY <1>1, <2>1, <2>4
<1>5. CASE fn \in Samplers \ {"poly_uniform"}
  <2>1. /\ Streams = 4 /\ StreamLen = nblocks * RATE /\ Polys = K
        /\ BufLen = 4 * RRLWR_XOF_BUFLEN
    BY <1>5 DEF Streams, StreamLen, Polys, BufLen, Samplers, Fused
  <2>2. PICK s \in Nat \ {0}, b \in Nat :
          s = StreamLen /\ b = RRLWR_XOF_BUFLEN /\ s <= b /\ K * outlen <= 4 * s
    BY <1>5, <2>1, StreamBytes
  <2>3. BufLen = 4 * b /\ 4 * s <= 4 * b
    BY <2>1, <2>2
  <2> QED  BY <1>2, <1>5, <2>1, <2>2, <2>3
<1> QED  BY <1>3, <1>4, <1>5

----------------------------------------------------------------------------
(* Bits of the buffer.                                                     *)

\* What the call is fixes the layout of the buffer and of the element.
LEMMA SameLayout ==
  ASSUME UNCHANGED <<fn, K, ELL, bitlen>>
  PROVE  /\ outlen' = outlen /\ StreamLen' = StreamLen /\ Polys' = Polys
         /\ BufLen' = BufLen /\ Streams' = Streams
         /\ \A p, j : ByteBit(p, j)' = ByteBit(p, j)
         /\ \A u : RowOf(u)' = RowOf(u) /\ PolyAt(u)' = PolyAt(u)
<1>1. outlen' = outlen
  BY DEF outlen
<1>2. Polys' = Polys
  BY DEF Polys
<1>3. StreamLen' = StreamLen
  BY <1>1 DEF StreamLen, nblocks
<1>4. BufLen' = BufLen /\ Streams' = Streams
  BY <1>1, <1>2 DEF BufLen, RRLWR_XOF_BUFLEN, RRLWR_MAX_OUTLEN, Streams
<1>5. \A p, j : ByteBit(p, j)' = ByteBit(p, j)
  BY <1>1, <1>3 DEF ByteBit
<1>6. \A u : RowOf(u)' = RowOf(u) /\ PolyAt(u)' = PolyAt(u)
  BY DEF RowOf, PolyAt
<1> QED  BY <1>1, <1>2, <1>3, <1>4, <1>5, <1>6

\* Iterations go through all polynomials, one after the other.
LEMMA PolyFacts ==
  ASSUME RingType
  PROVE  /\ Poly = PolyAt(i)
         /\ \A k \in 0..Polys - 1 : PolyAt(k) \in 0..Polys - 1 /\ PolyAt(PolyAt(k)) = k
<1>1. Poly = PolyAt(i)
  BY DEF Poly, PolyAt
<1>2. Polys \in Nat \ {0} /\ (fn \in Fused => Polys = ELL) /\ ELL \in Nat
  BY DEF RingType, Polys, Fused
<1> QED  BY <1>1, <1>2 DEF PolyAt

\* The offsets of all functions are the place of the polynomial.
LEMMA Offsets ==
  ASSUME bitlen \in 1..16, RingType
  PROVE  PackOffset = Poly * outlen /\ UnpackOffset = Poly * outlen
<1>1. PICK m \in Nat \ {0} : N = 8 * m /\ N \div 8 = m
  BY EightWords
<1>2. ASSUME NEW b \in Nat
      PROVE  (b * N) \div 8 = b * m
  <2>1. PICK y \in Int : y = b * m
    OBVIOUS
  <2>2. b * N = 8 * y
    BY <1>1, <2>1
  <2>3. (8 * y) \div 8 = y
    OBVIOUS
  <2> QED  BY <2>1, <2>2, <2>3
<1>3. outlen = bitlen * m
  BY <1>1 DEF outlen
<1>4. RRLWR_PKE_PACKED_POLYT_LEN = outlen
  BY <1>2, <1>3 DEF RRLWR_PKE_PACKED_POLYT_LEN
<1>5. bitlen = 2 => RRLWR_PACKED_POLY2_LEN = outlen
  BY <1>2, <1>3 DEF RRLWR_PACKED_POLY2_LEN
<1>6. fn = "ring_pack" /\ bitlen = 11 => RRLWR_PKE_PACKED_POLYP_LEN = outlen
  BY <1>2, <1>3 DEF RingType, RRLWR_PKE_PACKED_POLYP_LEN
<1>7. PackOffset = Poly * outlen
  BY <1>4, <1>5, <1>6 DEF PackOffset
<1>8. UnpackOffset = Poly * outlen
  BY <1>4, <1>5 DEF UnpackOffset
<1> QED  BY <1>7, <1>8

\* Unpacking reads bit j of word w of polynomial u where packing wrote it.
LEMMA ElementBit ==
  ASSUME bitlen \in 1..16, fn \notin Samplers,
         NEW u \in Nat, NEW w \in 0..N - 1, NEW j \in 0..bitlen - 1,
         NEW t \in Int, t = w * bitlen + j
  PROVE  ByteBit(u * outlen + (t \div 8), t % 8) = <<u, w, j>>
<1>1. outlen \in Nat \ {0} /\ outlen * 8 = N * bitlen
  BY PolyBytes
<1>2. PICK q \in Int, r \in 0..7 : q = t \div 8 /\ r = t % 8 /\ t = 8 * q + r
  OBVIOUS
<1>3. t >= 0 /\ t < 8 * outlen
  <2>1. 0 <= w * bitlen /\ w * bitlen <= (N - 1) * bitlen /\ w * bitlen \in Int
    BY SizesAssumption
  <2>2. (N - 1) * bitlen = N * bitlen - bitlen
    BY SizesAssumption
  <2>3. PICK b \in Int : b = w * bitlen /\ 0 <= b /\ b <= 8 * outlen - bitlen
    BY <1>1, <2>1, <2>2
  <2> QED  BY <1>1, <2>3
<1>4. q \in 0..outlen - 1
  BY <1>1, <1>2, <1>3
<1>5. PICK p \in Int : p = u * outlen + q /\ p \div outlen = u /\ p % outlen = q
  <2>1. (u * outlen + q) \div outlen = u /\ (u * outlen + q) % outlen = q
    BY <1>1, <1>4, BitOfUnit
  <2>2. u * outlen + q \in Int
    BY <1>1
  <2> QED  BY <2>1, <2>2
<1>6. t \div bitlen = w /\ t % bitlen = j
  <2>1. bitlen \in Nat \ {0} /\ w \in Int
    OBVIOUS
  <2>2. (w * bitlen + j) \div bitlen = w /\ (w * bitlen + j) % bitlen = j
    BY <2>1, BitOfUnit
  <2> QED  BY <2>2
<1>7. (p % outlen) * 8 + r = t
  BY <1>2, <1>5
<1>8. ByteBit(p, r) = <<p \div outlen, t \div bitlen, t % bitlen>>
  BY <1>7 DEF ByteBit
<1> QED  BY <1>2, <1>5, <1>6, <1>8

\* Bit j of byte n of polynomial u is one of its bits.
LEMMA PackedBit ==
  ASSUME bitlen \in 1..16, fn \notin Samplers,
         NEW u \in Nat, NEW n \in 0..outlen - 1, NEW j \in 0..7, NEW t \in Int, t = n * 8 + j
  PROVE  /\ ByteBit(u * outlen + n, j) = <<u, t \div bitlen, t % bitlen>>
         /\ t \div bitlen \in 0..N - 1 /\ t % bitlen \in 0..bitlen - 1
<1>1. outlen \in Nat \ {0} /\ outlen * 8 = N * bitlen
  BY PolyBytes
<1>2. PICK p \in Int : p = u * outlen + n /\ p \div outlen = u /\ p % outlen = n
  <2>1. (u * outlen + n) \div outlen = u /\ (u * outlen + n) % outlen = n
    BY <1>1, BitOfUnit
  <2>2. u * outlen + n \in Int
    BY <1>1
  <2> QED  BY <2>1, <2>2
<1>3. ByteBit(p, j) = <<u, t \div bitlen, t % bitlen>>
  BY <1>2 DEF ByteBit
<1>4. PICK q \in Int, r \in 0..bitlen - 1 : q = t \div bitlen /\ r = t % bitlen /\ t = bitlen * q + r
  <2>1. bitlen \in Nat \ {0}
    OBVIOUS
  <2> QED  BY <2>1, Division
<1>5. t >= 0 /\ t < N * bitlen /\ N * bitlen \in Int
  BY <1>1
<1>6. q >= 0
  <2>1. ASSUME q <= -1 PROVE FALSE
    <3>1. bitlen * q <= bitlen * (-1) /\ bitlen * q \in Int /\ bitlen * (-1) = -bitlen
      BY <2>1
    <3>2. PICK y \in Int : y = bitlen * q /\ y <= -bitlen
      BY <3>1
    <3>3. t < 0
      BY <1>4, <3>2
    <3> QED  BY <1>5, <3>3
  <2> QED  BY <2>1
<1>7. q < N
  <2>1. ASSUME q >= N PROVE FALSE
    <3>1. bitlen * q >= bitlen * N /\ bitlen * N = N * bitlen /\ bitlen * q \in Int
      BY <2>1, SizesAssumption
    <3>2. PICK y \in Int : y = bitlen * q /\ y >= N * bitlen
      BY <3>1
    <3>3. t >= y
      BY <1>4, <3>2
    <3> QED  BY <1>5, <3>2, <3>3
  <2> QED  BY <2>1, SizesAssumption
<1> QED  BY <1>2, <1>3, <1>4, <1>6, <1>7, SizesAssumption

----------------------------------------------------------------------------
(* The steps of RingBytes.                                                 *)

\* Where one of the unrolled functions is called, there is one.
LEMMA UnrolledHasTable ==
  ASSUME NEW f, NEW d \in {"pack", "unpack"}, f \in Fused => bitlen \in {3, 8}, Unrolled(f, d)
  PROVE  HasTable(d, bitlen)
<1>1. bitlen \in {2, 3, 8, 11} \/ (d = "unpack" /\ bitlen = 13)
  BY DEF Unrolled
<1>2. Name[2] = "n2" /\ Name[3] = "n3" /\ Name[8] = "n8" /\ Name[11] = "n11" /\ Name[13] = "n13"
      /\ DOMAIN Name = {2, 3, 8, 11, 13}
  BY DEF Name
<1>3. DOMAIN PackTable = {"n2", "n3", "n8", "n11"}
      /\ DOMAIN UnpackTable = {"n2", "n3", "n8", "n11", "n13"}
  BY DEF PackTable, UnpackTable
<1>4. CASE d = "pack"
  BY <1>1, <1>2, <1>3, <1>4 DEF HasTable
<1>5. CASE d = "unpack"
  BY <1>1, <1>2, <1>3, <1>5 DEF HasTable
<1> QED  BY <1>4, <1>5

LEMMA EnterStarts ==
  ASSUME NEW f, NEW d \in {"pack", "unpack"}, f \in Fused => bitlen \in {3, 8},
         bitlen \in 1..16, Enter(f, d)
  PROVE  PackInv'
<1>1. Fresh'
  <2>1. Unrolled(f, d) \in BOOLEAN
    BY DEF Unrolled
  <2>2. Unrolled(f, d) => HasTable(d, bitlen)
    BY UnrolledHasTable
  <2> QED  BY <2>1, <2>2 DEF Fresh, Enter, HasTable
<1>2. Fresh' => PackInv'
  BY PackStart, PTL
<1> QED  BY <1>1, <1>2

LEMMA RingStart ==
  ASSUME RingInit
  PROVE  RingInv
<1>1. PICK r \in Requests : fn = r.fn /\ K = r.K /\ ELL = r.ELL /\ bitlen = r.bitlen
  BY DEF RingInit
<1>2. bitlen \in 1..16
  BY <1>1, RequestsAssumption, BitlensAssumption DEF Name
<1>3. fn \in Packers \cup Samplers /\ K \in Nat \ {0} /\ ELL \in 1..K
      /\ (fn \in Fused => bitlen \in {3, 8})
      /\ (fn \in Samplers \ {"poly_uniform"} => bitlen <= LOGQ)
      /\ (fn = "ring_pack" /\ bitlen = 11 => LOGP = 11)
  BY <1>1, RequestsAssumption
<1>4. dir \in {"pack", "unpack"} /\ (dir = "pack") = (fn \in Packers) /\ unrolled = Unrolled(fn, dir)
  BY DEF RingInit
<1>5. Polys \in Nat \ {0} /\ Streams \in Nat
  BY <1>3 DEF Polys, Streams
<1>6. RingType
  BY <1>3, <1>4, <1>5 DEF RingType, RingInit
<1>7. PackInv
  <2>1. unrolled \in BOOLEAN
    BY <1>4 DEF Unrolled
  <2>2. unrolled => HasTable(dir, bitlen)
    BY <1>3, <1>4, UnrolledHasTable
  <2> QED  BY <1>2, <1>4, <2>1, <2>2, PackStart DEF Fresh, RingInit
<1>8. BufInv
  <2>1. fn \in Samplers => dir # "pack"
    BY <1>4 DEF Samplers, Packers
  <2>2. WrittenTo <= WrittenFrom /\ WrittenTo \in Int /\ WrittenFrom \in Int
    <3>1. outlen \in Nat
      BY <1>2, PolyBytes
    <3>2. CASE fn \in Samplers
      <4>1. StreamLen \in Nat
        BY <1>2, <1>6, <3>2, BufferSizes
      <4>2. WrittenFrom = 0 /\ WrittenTo = 0 * StreamLen
        BY <2>1, <3>2 DEF WrittenFrom, WrittenTo, RingInit
      <4> QED  BY <4>1, <4>2
    <3>3. CASE fn \notin Samplers
      <4>1. dir = "pack" /\ i = 0
        BY <1>3, <1>4, <3>3 DEF RingInit
      <4>2. CASE fn \in Fused
        <5>1. WrittenFrom = (Polys - 0) * outlen /\ WrittenTo = Polys * outlen
          BY <3>3, <4>1, <4>2 DEF WrittenFrom, WrittenTo
        <5>2. Polys - 0 = Polys /\ Polys * outlen \in Nat
          BY <1>5, <3>1
        <5> QED  BY <5>1, <5>2
      <4>3. CASE fn \notin Fused
        <5>1. WrittenFrom = 0 /\ WrittenTo = 0 * outlen
          BY <3>3, <4>1, <4>3 DEF WrittenFrom, WrittenTo
        <5> QED  BY <3>1, <5>1
      <4> QED  BY <4>2, <4>3
    <3> QED  BY <3>2, <3>3
  <2>3. WrittenFrom..WrittenTo - 1 = {}
    BY <2>2
  <2>4. DOMAIN buf = 0..BufLen - 1
    BY DEF RingInit
  <2> QED  BY <2>3, <2>4 DEF BufInv
<1>9. RowsInv
  <2>1. RowsRead = 0 /\ DOMAIN x = {}
    BY DEF RowsRead, RingInit
  <2>2. 0..RowsRead - 1 = {}
    BY <2>1
  <2> QED  BY <2>1, <2>2 DEF RowsInv
<1> QED  BY <1>6, <1>7, <1>8, <1>9 DEF RingInv

\* Another stream behind those before, named by its nonce.
LEMMA SqueezeKeeps ==
  ASSUME RingInv, squeeze_seed_nonce
  PROVE  RingInv'
<1> DEFINE start == nonce * StreamLen
<1>1. bitlen \in 1..16 /\ RingType
  BY DEF RingInv, PackInv, PackType
<1>2. nonce \in Nat /\ nonce < Streams
  BY <1>1 DEF squeeze_seed_nonce, RingType
<1>3. fn \in Samplers
  BY <1>1, <1>2, BufferSizes
<1>4. /\ StreamLen \in Nat \ {0} /\ Streams \in Nat /\ BufLen \in Nat
      /\ Streams * StreamLen <= BufLen
  BY <1>1, <1>3, BufferSizes
<1>5. /\ UNCHANGED <<fn, K, ELL, i, x, vars>> /\ nonce' = nonce + 1
      /\ UNCHANGED <<dir, bitlen, unrolled>>
  BY DEF squeeze_seed_nonce, vars
<1>6. /\ outlen' = outlen /\ StreamLen' = StreamLen /\ Polys' = Polys
      /\ BufLen' = BufLen /\ Streams' = Streams
      /\ \A p, j : ByteBit(p, j)' = ByteBit(p, j)
      /\ \A u : RowOf(u)' = RowOf(u) /\ PolyAt(u)' = PolyAt(u)
  BY <1>5, SameLayout
<1>7. PICK s \in Nat, n \in Nat \ {0} : s = start /\ n = StreamLen
  <2>1. nonce * StreamLen \in Nat
    BY <1>2, <1>4
  <2> QED  BY <1>4, <2>1
<1>8. s + n <= BufLen /\ (nonce + 1) * StreamLen = s + n
  <2>1. (nonce + 1) * StreamLen = s + n
    BY <1>2, <1>7
  <2>2. (nonce + 1) * StreamLen <= Streams * StreamLen
    BY <1>2, <1>4
  <2>3. Streams * StreamLen \in Nat
    BY <1>4
  <2>4. PICK y \in Nat : y = Streams * StreamLen
    BY <2>3
  <2> QED  BY <1>4, <2>1, <2>2, <2>4
<1>9. buf' = [p \in DOMAIN buf \cup s..(s + n) - 1 |->
                IF p \in s..(s + n) - 1 THEN [j \in 0..7 |-> {<<nonce, p - s, j>>}] ELSE buf[p]]
  BY <1>7 DEF squeeze_seed_nonce, NonceOf
<1>10. PackInv'
  BY <1>5, PackStutter DEF RingInv
<1>11. RingType'
  <2>1. nonce' \in 0..Streams
    BY <1>2, <1>4, <1>5
  <2> QED  BY <1>1, <1>5, <1>6, <2>1 DEF RingType, Unrolled
<1>12. BufInv'
  <2>1. WrittenTo = s /\ WrittenTo' = s + n /\ WrittenFrom = 0 /\ WrittenFrom' = 0
    <3>1. dir # "pack"
      BY <1>1, <1>3 DEF RingType, Samplers, Packers
    <3> QED  BY <1>3, <1>5, <1>6, <1>7, <1>8, <3>1 DEF WrittenTo, WrittenFrom
  <2>2. DOMAIN buf = 0..BufLen - 1 /\ DOMAIN buf' = 0..BufLen - 1
    <3>1. DOMAIN buf = 0..BufLen - 1
      BY DEF RingInv, BufInv
    <3>2. s..(s + n) - 1 \subseteq 0..BufLen - 1
      BY <1>4, <1>8
    <3> QED  BY <1>9, <3>1, <3>2
  <2>3. ASSUME NEW p \in 0..(s + n) - 1, NEW j \in 0..7
        PROVE  buf'[p][j] = {ByteBit(p, j)}
    <3>1. p \in DOMAIN buf
      BY <1>4, <1>8, <2>2
    <3>2. CASE p \in s..(s + n) - 1
      <4>1. buf'[p][j] = {<<nonce, p - s, j>>}
        BY <1>9, <3>1, <3>2
      <4>2. p = nonce * n + (p - s) /\ p - s \in 0..n - 1
        BY <1>7, <3>2
      <4>3. p \div n = nonce /\ p % n = p - s
        <5>1. PICK r \in 0..n - 1 : r = p - s /\ p = nonce * n + r
          BY <4>2
        <5>2. PICK c \in Int : c = nonce
          BY <1>2
        <5>3. (c * n + r) \div n = c /\ (c * n + r) % n = r
          BY BitOfUnit
        <5> QED  BY <5>1, <5>2, <5>3
      <4>4. ByteBit(p, j) = <<p \div n, p % n, j>>
        BY <1>3, <1>7 DEF ByteBit
      <4> QED  BY <4>1, <4>3, <4>4
    <3>3. CASE p \notin s..(s + n) - 1
      <4>1. buf'[p] = buf[p] /\ p \in 0..s - 1
        BY <1>9, <3>1, <3>3
      <4> QED  BY <2>1, <4>1 DEF RingInv, BufInv
    <3> QED  BY <3>2, <3>3
  <2> QED  BY <1>6, <2>1, <2>2, <2>3 DEF BufInv
<1>13. RowsInv'
  BY <1>5, <1>6 DEF RingInv, RowsInv, RowsRead
<1> QED  BY <1>10, <1>11, <1>12, <1>13 DEF RingInv

LEMMA PolyStepKeeps ==
  ASSUME RingInv, poly_step
  PROVE  RingInv'
<1>1. UNCHANGED <<fn, K, ELL, buf, nonce, i, x>>
  BY DEF poly_step, ring
<1>2. UNCHANGED <<dir, bitlen, unrolled>>
  BY DEF poly_step, Next, group, poly_pack, poly_unpack, Take, Emit
<1>3. PackInv'
  BY PackStep DEF RingInv, poly_step
<1>4. /\ outlen' = outlen /\ StreamLen' = StreamLen /\ Polys' = Polys
      /\ BufLen' = BufLen /\ Streams' = Streams
      /\ \A p, j : ByteBit(p, j)' = ByteBit(p, j)
      /\ \A u : RowOf(u)' = RowOf(u) /\ PolyAt(u)' = PolyAt(u)
  BY <1>1, <1>2, SameLayout
<1>5. RingType'
  BY <1>1, <1>2, <1>4 DEF RingInv, RingType, Unrolled
<1>6. BufInv'
  BY <1>1, <1>2, <1>4 DEF RingInv, BufInv, WrittenFrom, WrittenTo
<1>7. RowsInv'
  BY <1>1, <1>2, <1>4 DEF RingInv, RowsInv, RowsRead
<1> QED  BY <1>3, <1>5, <1>6, <1>7 DEF RingInv

\* The polynomial that was dealt with is complete.
LEMMA WholePoly ==
  ASSUME RingInv, Returned
  PROVE  Len(out) * To = N * bitlen
BY NoneLeft DEF RingInv, Returned, NothingIsLost

\* The bytes of a row go behind those of the rows before; the last row done, the
\* element is read back.
LEMMA PackReturnKeeps ==
  ASSUME RingInv, poly_pack_return
  PROVE  RingInv'
<1>1. bitlen \in 1..16 /\ RingType /\ dir = "pack" /\ fn \in Packers
  BY DEF RingInv, PackInv, PackType, RingType, poly_pack_return
<1>2. fn \notin Samplers
  BY <1>1 DEF Samplers, Packers
<1>3. PICK l \in Nat \ {0} : l = outlen /\ l * 8 = N * bitlen
  BY <1>1, PolyBytes
<1>4. i \in Nat /\ i < Polys /\ Polys \in Nat /\ Streams = 0 /\ nonce = 0 /\ BufLen = Polys * l /\ BufLen \in Nat
  BY <1>1, <1>2, <1>3, BufferSizes DEF RingType, poly_pack_return, Returned
<1>5. /\ Poly \in 0..Polys - 1 /\ PackOffset = Poly * l
      /\ Poly = IF fn \in Fused THEN Polys - (i + 1) ELSE i
  <2>1. fn \in Fused => Polys = ELL
    BY DEF Polys, Fused
  <2>2. Poly \in 0..Polys - 1
    BY <1>1, <1>4, PolyFacts
  <2>3. ELL \in Nat
    BY <1>1 DEF RingType
  <2>4. Poly = IF fn \in Fused THEN Polys - (i + 1) ELSE i
    BY <1>4, <2>1, <2>3 DEF Poly
  <2>5. PackOffset = Poly * l
    BY <1>1, <1>3, Offsets
  <2> QED  BY <2>2, <2>4, <2>5
<1>51. PICK s \in Nat : s = Poly * l /\ (Poly + 1) * l = s + l /\ s + l <= BufLen
  <2>1. Poly * l \in Nat /\ (Poly + 1) * l = Poly * l + l
    BY <1>4, <1>5
  <2>2. (Poly + 1) * l <= Polys * l
    BY <1>4, <1>5
  <2>3. PICK y \in Nat : y = Poly * l
    BY <2>1
  <2> QED  BY <1>4, <2>1, <2>2, <2>3
<1>52. PICK a \in Nat, b \in Nat :
         /\ a = (IF fn \in Fused THEN s ELSE 0)
         /\ b = (IF fn \in Fused THEN BufLen ELSE s + l)
  BY <1>4
<1>53. a..b - 1 \subseteq (WrittenFrom..WrittenTo - 1) \cup (s..(s + l) - 1)
  <2>1. CASE fn \in Fused
    <3>1. WrittenFrom = (Polys - i) * l /\ WrittenTo = Polys * l
      BY <1>1, <1>2, <1>3, <2>1 DEF WrittenFrom, WrittenTo
    <3>2. Polys - i = Poly + 1
      BY <1>4, <1>5, <2>1
    <3> QED  BY <1>4, <1>51, <1>52, <2>1, <3>1, <3>2
  <2>2. CASE fn \notin Fused
    <3>1. WrittenFrom = 0 /\ WrittenTo = s
      BY <1>1, <1>2, <1>3, <1>5, <1>51, <2>2 DEF WrittenFrom, WrittenTo
    <3> QED  BY <1>52, <2>2, <3>1
  <2> QED  BY <2>1, <2>2
<1>54. a >= 0 /\ b <= BufLen
  BY <1>4, <1>51, <1>52
<1>6. Len(out) = l
  <2>1. PICK n \in Nat : n = Len(out)
    BY DEF RingInv, PackInv, PackType
  <2>2. n * 8 = N * bitlen
    BY <1>1, <2>1, WholePoly DEF poly_pack_return, To
  <2> QED  BY <1>3, <2>1, <2>2
<1>7. buf' = [p \in DOMAIN buf \cup s..(s + l) - 1 |->
                IF p \in s..(s + l) - 1 THEN Made(out[(p - s) + 1], Packed) ELSE buf[p]]
  BY <1>3, <1>5, <1>51 DEF poly_pack_return
<1>8. DOMAIN buf = 0..BufLen - 1 /\ DOMAIN buf' = 0..BufLen - 1
  <2>1. DOMAIN buf = 0..BufLen - 1
    BY DEF RingInv, BufInv
  <2>2. s..(s + l) - 1 \subseteq 0..BufLen - 1
    BY <1>4, <1>51
  <2> QED  BY <1>7, <2>1, <2>2
<1>9. ASSUME NEW p \in a..b - 1, NEW j \in 0..7
      PROVE  buf'[p][j] = {ByteBit(p, j)}
  <2>1. p \in DOMAIN buf
    BY <1>4, <1>54, <1>8
  <2>2. CASE p \in s..(s + l) - 1
    <3>1. PICK n \in 0..l - 1 : n = p - s /\ p = s + n
      <4>1. p - s \in 0..l - 1 /\ p = s + (p - s)
        BY <2>2
      <4> QED  BY <4>1
    <3>2. PICK t \in Int : t = n * 8 + j
      OBVIOUS
    <3>21. PICK u \in Nat : u = Poly
      <4>1. PICK u \in 0..Polys - 1 : u = Poly
        BY <1>5, Zenon
      <4>2. u \in Nat
        BY <1>4
      <4> QED  BY <4>1, <4>2, Zenon
    <3>3. /\ ByteBit(Poly * outlen + n, j) = <<Poly, t \div bitlen, t % bitlen>>
          /\ t \div bitlen \in 0..N - 1 /\ t % bitlen \in 0..bitlen - 1
      <4>1. /\ ByteBit(u * outlen + n, j) = <<u, t \div bitlen, t % bitlen>>
            /\ t \div bitlen \in 0..N - 1 /\ t % bitlen \in 0..bitlen - 1
        BY <1>1, <1>2, <1>3, <3>2, PackedBit
      <4> QED  BY <3>21, <4>1
    <3>4. buf'[p] = Made(out[n + 1], Packed)
      BY <1>7, <2>1, <2>2, <3>1
    <3>5. To = 8 /\ From = bitlen
      BY <1>1 DEF To, From
    <3>6. out[n + 1][j] = {<<t \div bitlen, t % bitlen>>}
      <4>1. PICK e \in 1..Len(out) : e = n + 1 /\ (e - 1) * 8 + j = t
        <5>1. n + 1 \in 1..Len(out) /\ ((n + 1) - 1) * 8 + j = t
          BY <1>6, <3>2
        <5> QED  BY <5>1
      <4>2. InOrder
        BY DEF RingInv, PackInv
      <4>3. out[e][j] = {<<t \div bitlen, t % bitlen>>}
        <5>1. j \in 0..To - 1 /\ (e - 1) * To + j = t
          BY <3>5, <4>1
        <5>2. out[e][j] = {<<((e - 1) * To + j) \div From, ((e - 1) * To + j) % From>>}
          BY <4>1, <4>2, <5>1, Zenon DEF InOrder
        <5> QED  BY <3>5, <5>1, <5>2, Zenon
      <4> QED  BY <4>1, <4>3
    <3>7. buf'[p][j] = UNION {Packed[bit[1]][bit[2]] : bit \in out[n + 1][j]}
      BY <3>4, <3>5 DEF Made
    <3>8. Packed[t \div bitlen][t % bitlen] = {<<Poly, t \div bitlen, t % bitlen>>}
      BY <3>3 DEF Packed
    <3>9. buf'[p][j] = {<<Poly, t \div bitlen, t % bitlen>>}
      BY <3>6, <3>7, <3>8
    <3> QED  BY <1>3, <1>51, <3>1, <3>3, <3>9
  <2>3. CASE p \notin s..(s + l) - 1
    <3>1. buf'[p] = buf[p] /\ p \in WrittenFrom..WrittenTo - 1
      BY <1>7, <1>53, <2>1, <2>3
    <3> QED  BY <3>1 DEF RingInv, BufInv
  <2> QED  BY <2>2, <2>3
<1>10. DOMAIN x = {} /\ UNCHANGED <<x, K, ELL, nonce>>
  <2>1. 0..RowsRead - 1 = {}
    BY <1>1 DEF RowsRead
  <2> QED  BY <2>1 DEF RingInv, RowsInv, poly_pack_return
<1>11. CASE i + 1 < Polys
  <2>1. i' = i + 1 /\ fn' = fn /\ Enter(fn, "pack")
    BY <1>11 DEF poly_pack_return
  <2>2. bitlen' = bitlen /\ dir' = "pack" /\ unrolled' = Unrolled(fn, "pack")
    BY <2>1 DEF Enter
  <2>3. /\ outlen' = outlen /\ Polys' = Polys /\ BufLen' = BufLen /\ Streams' = Streams
        /\ \A p, j : ByteBit(p, j)' = ByteBit(p, j)
    BY <1>10, <2>1, <2>2, SameLayout
  <2>4. PackInv'
    BY <1>1, <2>1, EnterStarts DEF RingType
  <2>5. RingType'
    BY <1>1, <1>4, <1>10, <1>11, <2>1, <2>2, <2>3 DEF RingType, Unrolled
  <2>6. BufInv'
    <3>1. WrittenFrom' = a /\ WrittenTo' = b
      <4>1. CASE fn \in Fused
        <5>1. WrittenFrom' = (Polys - (i + 1)) * l /\ WrittenTo' = Polys * l
          BY <1>2, <1>3, <2>1, <2>2, <2>3, <4>1 DEF WrittenFrom, WrittenTo
        <5> QED  BY <1>4, <1>5, <1>51, <1>52, <4>1, <5>1
      <4>2. CASE fn \notin Fused
        <5>1. WrittenFrom' = 0 /\ WrittenTo' = (i + 1) * l
          BY <1>2, <1>3, <2>1, <2>2, <2>3, <4>2 DEF WrittenFrom, WrittenTo
        <5> QED  BY <1>5, <1>51, <1>52, <4>2, <5>1
      <4> QED  BY <4>1, <4>2
    <3> QED  BY <1>8, <1>9, <2>3, <3>1 DEF BufInv
  <2>7. RowsInv'
    <3>1. RowsRead' = 0
      BY <2>2 DEF RowsRead
    <3>2. (0..RowsRead - 1)' = {}
      BY <3>1
    <3> QED  BY <1>10, <3>2 DEF RowsInv
  <2> QED  BY <2>4, <2>5, <2>6, <2>7 DEF RingInv
<1>12. CASE ~(i + 1 < Polys)
  <2>1. i' = 0 /\ fn' \in Readers[fn] /\ Enter(fn', "unpack")
    BY <1>12 DEF poly_pack_return
  <2>2. bitlen' = bitlen /\ dir' = "unpack" /\ unrolled' = Unrolled(fn', "unpack")
    BY <2>1 DEF Enter
  <2>3. /\ fn' \notin Samplers /\ fn' \notin Packers /\ (fn' \in Fused) = (fn \in Fused)
        /\ fn # "poly_uniform" /\ fn' # "poly_uniform"
    BY <1>1, <2>1 DEF Readers, Packers, Samplers, Fused
  <2>4. outlen' = outlen /\ Polys' = Polys /\ Streams' = 0
    BY <1>2, <1>10, <2>2, <2>3 DEF outlen, Polys, Streams
  <2>5. BufLen' = BufLen
    BY <1>2, <2>3, <2>4 DEF BufLen
  <2>6. \A p, j : ByteBit(p, j)' = ByteBit(p, j)
    BY <1>2, <2>2, <2>3, <2>4 DEF ByteBit
  <2>7. fn' \in Fused => bitlen \in {3, 8}
    BY <1>1, <2>3 DEF RingType
  <2>8. PackInv'
    BY <1>1, <2>1, <2>7, EnterStarts
  <2>9. RingType'
    <3>0. fn' # "ring_pack"
      BY <2>3 DEF Packers
    <3>1. fn' \in UNION {Readers[f] : f \in Packers}
      BY <1>1, <2>1
    <3>2. dir' # "pack" /\ unrolled' = Unrolled(fn, dir)'
      BY <2>2 DEF Unrolled
    <3>3. i' \in 0..Polys' /\ nonce' \in 0..Streams'
      BY <1>4, <1>10, <2>1, <2>4
    <3> QED  BY <1>1, <1>10, <2>2, <2>3, <2>7, <3>0, <3>1, <3>2, <3>3 DEF RingType
  <2>10. BufInv'
    <3>1. WrittenFrom' = a /\ WrittenTo' = b
      <4>1. Polys = i + 1
        BY <1>4, <1>12
      <4>2. WrittenFrom' = 0 /\ WrittenTo' = Polys' * outlen'
        BY <2>2, <2>3 DEF WrittenFrom, WrittenTo
      <4>3. fn \in Fused => s = 0
        BY <1>3, <1>5, <1>51, <4>1
      <4>4. fn \notin Fused => s + l = Polys * l
        BY <1>5, <1>51, <4>1
      <4> QED  BY <1>3, <1>4, <1>52, <2>4, <4>2, <4>3, <4>4
    <3> QED  BY <1>8, <1>9, <2>5, <2>6, <3>1 DEF BufInv
  <2>11. RowsInv'
    <3>1. RowsRead' = 0
      BY <2>1, <2>2 DEF RowsRead
    <3>2. (0..RowsRead - 1)' = {}
      BY <3>1
    <3> QED  BY <1>10, <3>2 DEF RowsInv
  <2> QED  BY <2>8, <2>9, <2>10, <2>11 DEF RingInv
<1> QED  BY <1>11, <1>12

\* The row is made of the bits of its bytes.
LEMMA UnpackReturnKeeps ==
  ASSUME RingInv, poly_unpack_return
  PROVE  RingInv'
<1> DEFINE bytes == [n \in 0..outlen - 1 |-> buf[UnpackOffset + n]]
           made == [w \in 0..N - 1 |-> Made(out[w + 1], bytes)]
<1>1. bitlen \in 1..16 /\ RingType /\ dir = "unpack" /\ fn \notin Packers
  BY DEF RingInv, PackInv, PackType, RingType, poly_unpack_return
<1>2. PICK l \in Nat \ {0} : l = outlen /\ l * 8 = N * bitlen
  BY <1>1, PolyBytes
<1>3. i \in Nat /\ i < Polys /\ Polys \in Nat /\ nonce = Streams
  BY <1>1, BufferSizes DEF RingType, poly_unpack_return, Returned
<1>31. Poly = PolyAt(i) /\ Poly \in 0..Polys - 1 /\ UnpackOffset = Poly * l
  BY <1>1, <1>2, <1>3, PolyFacts, Offsets
<1>4. PICK s \in Nat : s = Poly * l /\ s + l <= Polys * l
  <2>1. Poly * l \in Nat /\ (Poly + 1) * l = Poly * l + l
    BY <1>3, <1>31
  <2>2. (Poly + 1) * l <= Polys * l
    BY <1>3, <1>31
  <2> QED  BY <2>1, <2>2
<1>5. Polys * l <= WrittenTo /\ WrittenTo \in Int /\ WrittenFrom = 0
  <2>0. WrittenFrom = 0
    BY <1>1 DEF WrittenFrom
  <2>1. Polys * l \in Int
    BY <1>3
  <2>2. CASE fn \in Samplers
    <3>1. WrittenTo = Streams * StreamLen /\ StreamLen \in Nat \ {0} /\ Streams \in Nat
      BY <1>1, <1>3, <2>2, BufferSizes DEF WrittenTo
    <3>2. Polys * outlen <= Streams * StreamLen
      BY <1>1, <2>2, BufferSizes
    <3> QED  BY <1>2, <2>0, <3>1, <3>2
  <2>3. CASE fn \notin Samplers
    BY <1>1, <1>2, <2>0, <2>1, <2>3 DEF WrittenTo
  <2> QED  BY <2>2, <2>3
<1>6. Len(out) = N
  <2>1. PICK n \in Nat : n = Len(out)
    BY DEF RingInv, PackInv, PackType
  <2>2. n * bitlen = N * bitlen
    BY <1>1, <2>1, WholePoly DEF poly_unpack_return, To
  <2>3. n = N
    <3>1. ASSUME n < N PROVE FALSE
      <4>1. n * bitlen < N * bitlen
        BY <1>1, <3>1, SizesAssumption
      <4> QED  BY <2>2, <4>1, <1>1, SizesAssumption
    <3>2. ASSUME n > N PROVE FALSE
      <4>1. n * bitlen > N * bitlen
        BY <1>1, <3>2, SizesAssumption
      <4> QED  BY <2>2, <4>1, <1>1, SizesAssumption
    <3> QED  BY <3>1, <3>2, SizesAssumption
  <2> QED  BY <2>1, <2>3
<1>7. /\ i' = i + 1 /\ Enter(fn, "unpack") /\ UNCHANGED <<fn, K, ELL, buf, nonce>>
      /\ x' = [u \in DOMAIN x \cup {Row} |-> IF u = Row THEN made ELSE x[u]]
  BY DEF poly_unpack_return
<1>8. bitlen' = bitlen /\ dir' = "unpack" /\ unrolled' = Unrolled(fn, "unpack")
  BY <1>7 DEF Enter
<1>9. /\ outlen' = outlen /\ StreamLen' = StreamLen /\ Polys' = Polys
      /\ BufLen' = BufLen /\ Streams' = Streams
      /\ \A p, j : ByteBit(p, j)' = ByteBit(p, j)
      /\ \A u : RowOf(u)' = RowOf(u) /\ PolyAt(u)' = PolyAt(u)
  BY <1>7, <1>8, SameLayout
<1>10. ASSUME NEW w \in 0..N - 1, NEW j \in 0..bitlen - 1, NEW t \in Int, t = w * bitlen + j
       PROVE  made[w][j] = {ByteBit(s + (t \div 8), t % 8)}
  <2>1. PICK q \in Int, r \in 0..7 : q = t \div 8 /\ r = t % 8 /\ t = 8 * q + r
    OBVIOUS
  <2>2. t >= 0 /\ t < 8 * l
    <3>1. 0 <= w * bitlen /\ w * bitlen <= (N - 1) * bitlen /\ w * bitlen \in Int
      BY <1>1, SizesAssumption
    <3>2. (N - 1) * bitlen = N * bitlen - bitlen
      BY <1>1, SizesAssumption
    <3>3. PICK b \in Int : b = w * bitlen /\ 0 <= b /\ b <= 8 * l - bitlen
      BY <1>1, <1>2, <3>1, <3>2
    <3> QED  BY <1>1, <1>10, <3>3
  <2>3. q \in 0..l - 1
    BY <2>1, <2>2
  <2>4. To = bitlen /\ From = 8
    BY <1>1 DEF To, From
  <2>5. out[w + 1][j] = {<<q, r>>}
    <3>1. w + 1 \in 1..Len(out) /\ ((w + 1) - 1) * bitlen + j = t
      BY <1>6, <1>10, SizesAssumption
    <3> QED  BY <2>1, <2>4, <3>1 DEF RingInv, PackInv, InOrder
  <2>6. made[w][j] = UNION {bytes[b[1]][b[2]] : b \in out[w + 1][j]}
    BY <2>4 DEF Made
  <2>7. bytes[q] = buf[s + q]
    BY <1>2, <1>31, <1>4, <2>3
  <2>8. buf[s + q][r] = {ByteBit(s + q, r)}
    <3>1. PICK y \in Int : y = Polys * l /\ s + l <= y /\ y <= WrittenTo
      BY <1>3, <1>4, <1>5
    <3>2. s + q \in WrittenFrom..WrittenTo - 1
      BY <1>5, <2>3, <3>1
    <3> QED  BY <3>2 DEF RingInv, BufInv
  <2> HIDE DEF made, bytes
  <2>9. made[w][j] = buf[s + q][r]
    BY <2>5, <2>6, <2>7
  <2> QED  BY <2>1, <2>8, <2>9
<1> HIDE DEF made
<1>11. PackInv'
  BY <1>1, <1>7, EnterStarts DEF RingType
<1>12. RingType'
  BY <1>1, <1>3, <1>7, <1>8, <1>9 DEF RingType, Unrolled
<1>13. BufInv'
  BY <1>1, <1>7, <1>8, <1>9 DEF RingInv, BufInv, WrittenFrom, WrittenTo
<1>14. RowsInv'
  <2>1. RowsRead = i /\ RowsRead' = i + 1 /\ Row = RowOf(Poly) /\ Poly = PolyAt(i)
    BY <1>1, <1>31, <1>7, <1>8 DEF RowsRead, Row, RowOf
  <2>2. DOMAIN x = {RowOf(PolyAt(k)) : k \in 0..i - 1}
    BY <2>1 DEF RingInv, RowsInv
  <2>3. 0..(i + 1) - 1 = (0..i - 1) \cup {i}
    BY <1>3
  <2>4. DOMAIN x' = {RowOf(PolyAt(k)) : k \in 0..(i + 1) - 1}
    <3>1. DOMAIN x' = DOMAIN x \cup {RowOf(PolyAt(i))}
      BY <1>7, <2>1
    <3> QED  BY <2>2, <2>3, <3>1
  <2>5. ASSUME NEW k \in 0..(i + 1) - 1, NEW w \in 0..N - 1, NEW j \in 0..bitlen - 1,
               NEW t \in Int, t = w * bitlen + j
        PROVE  x'[RowOf(PolyAt(k))][w][j] = {ByteBit(PolyAt(k) * outlen + (t \div 8), t % 8)}
    <3>1. CASE k = i
      <4>1. x'[RowOf(PolyAt(k))] = made
        BY <1>7, <2>1, <3>1
      <4>2. PolyAt(k) * outlen = s
        BY <1>2, <1>4, <2>1, <3>1
      <4> QED  BY <1>10, <2>5, <4>1, <4>2
    <3>2. CASE k # i
      <4>0. k \in 0..i - 1 /\ k \in 0..Polys - 1 /\ i \in 0..Polys - 1
        BY <1>3, <3>2
      <4>1. PolyAt(k) # PolyAt(i) /\ PolyAt(k) \in 0..Polys - 1 /\ PolyAt(i) \in 0..Polys - 1
        BY <1>1, <3>2, <4>0, PolyFacts
      <4>2. RowOf(PolyAt(k)) # RowOf(PolyAt(i))
        BY <1>1, <4>1 DEF RowOf, RingType
      <4>3. x'[RowOf(PolyAt(k))] = x[RowOf(PolyAt(k))]
        BY <1>7, <2>1, <2>2, <4>0, <4>2
      <4>4. x[RowOf(PolyAt(k))][w][j] = {ByteBit(PolyAt(k) * outlen + (t \div 8), t % 8)}
        BY <2>1, <2>5, <4>0 DEF RingInv, RowsInv
      <4> QED  BY <4>3, <4>4
    <3> QED  BY <3>1, <3>2
  <2>6. \A w \in 0..N - 1 : \A j \in 0..bitlen - 1 : w * bitlen + j \in Int
    BY <1>1, SizesAssumption
  <2>7. DOMAIN x' = {RowOf(PolyAt(k))' : k \in 0..RowsRead' - 1}
    BY <1>9, <2>1, <2>4
  <2> QED  BY <1>8, <1>9, <2>1, <2>5, <2>6, <2>7 DEF RowsInv
<1> QED  BY <1>11, <1>12, <1>13, <1>14 DEF RingInv

LEMMA RingInvariant == RingSpec => []RingInv
<1>1. RingInit => RingInv
  BY RingStart
<1>2. RingInv /\ [RingNext]_<<ring, vars>> => RingInv'
  <2> SUFFICES ASSUME RingInv, [RingNext]_<<ring, vars>> PROVE RingInv'
    OBVIOUS
  <2>1. CASE squeeze_seed_nonce
    BY <2>1, SqueezeKeeps
  <2>2. CASE poly_step
    BY <2>2, PolyStepKeeps
  <2>3. CASE poly_pack_return
    BY <2>3, PackReturnKeeps
  <2>4. CASE poly_unpack_return
    BY <2>4, UnpackReturnKeeps
  <2>5. CASE UNCHANGED <<ring, vars>>
    <3>1. UNCHANGED <<fn, K, ELL, buf, nonce, i, x>> /\ UNCHANGED <<dir, bitlen, unrolled>>
      BY <2>5 DEF ring, vars
    <3>2. PackInv'
      BY <2>5, PackStutter DEF RingInv
    <3>3. /\ outlen' = outlen /\ StreamLen' = StreamLen /\ Polys' = Polys
          /\ BufLen' = BufLen /\ Streams' = Streams
          /\ \A p, j : ByteBit(p, j)' = ByteBit(p, j)
          /\ \A u : RowOf(u)' = RowOf(u) /\ PolyAt(u)' = PolyAt(u)
      BY <3>1, SameLayout
    <3>4. RingType'
      BY <3>1, <3>3 DEF RingInv, RingType, Unrolled
    <3>5. BufInv'
      BY <3>1, <3>3 DEF RingInv, BufInv, WrittenFrom, WrittenTo
    <3>6. RowsInv'
      BY <3>1, <3>3 DEF RingInv, RowsInv, RowsRead
    <3> QED  BY <3>2, <3>4, <3>5, <3>6 DEF RingInv
  <2> QED  BY <2>1, <2>2, <2>3, <2>4, <2>5 DEF RingNext
<1> QED  BY <1>1, <1>2, PTL DEF RingSpec

----------------------------------------------------------------------------
(* The theorems about RingBytes.                                           *)

\* In every call, the bits keep their order and none is left behind, by the generic
\* loops and by the unrolled functions (packing.c:6-345).
THEOREM RingBytesInOrder == RingSpec => [](InOrder /\ NothingIsLost)
<1>1. RingInv => InOrder /\ NothingIsLost
  BY NoneLeft DEF RingInv, PackInv
<1> QED  BY <1>1, RingInvariant, PTL

\* Elements that were packed come back from their bytes, row by row, and backwards from
\* the readers that fill a window (packing.c:316-345,398-411).
THEOREM ElementsComeBack == RingSpec => []RoundTrip
<1>1. RingInv => RoundTrip
  <2> SUFFICES ASSUME RingInv, Filled, fn \notin Samplers,
                      NEW u \in 0..Polys - 1, NEW w \in 0..N - 1, NEW j \in 0..bitlen - 1
               PROVE  x[IF fn = "ring_unpack_Awin" THEN K - 1 - u ELSE u][w][j] = {<<u, w, j>>}
    BY DEF RoundTrip
  <2>1. bitlen \in 1..16 /\ RingType /\ RowsRead = Polys
    BY DEF RingInv, PackInv, PackType, Filled, RowsRead
  <2>2. PICK t \in Int : t = w * bitlen + j
    BY <2>1, SizesAssumption
  <2>3. x[RowOf(u)][w][j] = {ByteBit(u * outlen + (t \div 8), t % 8)}
    <3>1. PICK k \in 0..Polys - 1 : k = PolyAt(u) /\ PolyAt(k) = u
      BY <2>1, PolyFacts
    <3>2. x[RowOf(PolyAt(k))][w][j] = {ByteBit(PolyAt(k) * outlen + (t \div 8), t % 8)}
      BY <2>1, <2>2 DEF RingInv, RowsInv
    <3> QED  BY <3>1, <3>2
  <2>4. u \in Nat
    BY <2>1, BufferSizes
  <2>5. ByteBit(u * outlen + (t \div 8), t % 8) = <<u, w, j>>
    BY <2>1, <2>2, <2>4, ElementBit
  <2>6. RowOf(u) = IF fn = "ring_unpack_Awin" THEN K - 1 - u ELSE u
    BY DEF RowOf, Samplers
  <2> QED  BY <2>3, <2>5, <2>6
<1> QED  BY <1>1, RingInvariant, PTL

\* The place of a bit in the bytes of all polynomials.
Place(u, w, j) == (u * outlen) * 8 + (w * bitlen + j)

Places == 0..(Polys * N * bitlen) - 1

LEMMA BitHasPlace ==
  ASSUME bitlen \in 1..16, Polys \in Nat,
         NEW u \in 0..Polys - 1, NEW w \in 0..N - 1, NEW j \in 0..bitlen - 1,
         NEW t \in Int, t = w * bitlen + j
  PROVE  /\ Place(u, w, j) \in Places
         /\ Place(u, w, j) \div 8 = u * outlen + (t \div 8) /\ Place(u, w, j) % 8 = t % 8
<1>1. PICK l \in Nat \ {0} : l = outlen /\ l * 8 = N * bitlen
  BY PolyBytes
<1>2. PICK q \in Int, r \in 0..7 : q = t \div 8 /\ r = t % 8 /\ t = 8 * q + r
  OBVIOUS
<1>3. t >= 0 /\ t < 8 * l
  <2>1. 0 <= w * bitlen /\ w * bitlen <= (N - 1) * bitlen /\ w * bitlen \in Int
    BY SizesAssumption
  <2>2. (N - 1) * bitlen = N * bitlen - bitlen
    BY SizesAssumption
  <2>3. PICK b \in Int : b = w * bitlen /\ 0 <= b /\ b <= 8 * l - bitlen
    BY <1>1, <2>1, <2>2
  <2> QED  BY <1>1, <2>3
<1>4. PICK s \in Nat, y \in Nat : s = u * l /\ y = Polys * l /\ s + l <= y
  <2>1. u \in Nat /\ u + 1 <= Polys
    OBVIOUS
  <2>2. u * l \in Nat /\ Polys * l \in Nat /\ (u + 1) * l <= Polys * l /\ (u + 1) * l = u * l + l
    BY <2>1
  <2> QED  BY <2>2
<1>5. Polys * N * bitlen = 8 * y
  <2>1. Polys * N * bitlen = Polys * (N * bitlen)
    BY SizesAssumption
  <2>2. Polys * (l * 8) = 8 * (Polys * l)
    OBVIOUS
  <2> QED  BY <1>1, <1>4, <2>1, <2>2
<1>6. PICK p \in Int : p = Place(u, w, j) /\ p = s * 8 + t
  BY <1>1, <1>4 DEF Place
<1>7. p \in Places
  BY <1>3, <1>4, <1>5, <1>6 DEF Places
<1>8. p = 8 * (s + q) + r
  BY <1>2, <1>6
<1>9. p \div 8 = s + q /\ p % 8 = r
  BY <1>8
<1> QED  BY <1>1, <1>2, <1>4, <1>6, <1>7, <1>9

LEMMA PlaceHasBit ==
  ASSUME bitlen \in 1..16, Polys \in Nat, NEW p \in Places
  PROVE  \E u \in 0..Polys - 1 : \E w \in 0..N - 1 : \E j \in 0..bitlen - 1 : p = Place(u, w, j)
<1>1. PICK l \in Nat \ {0} : l = outlen /\ l * 8 = N * bitlen
  BY PolyBytes
<1>2. PICK d \in Nat \ {0} : d = l * 8
  BY <1>1
<1>3. PICK y \in Nat : y = Polys * d /\ p < y /\ p \in Nat
  <2>1. Polys * N * bitlen = Polys * (N * bitlen)
    BY SizesAssumption
  <2> QED  BY <1>1, <1>2, <2>1 DEF Places
<1>4. PICK u \in Int, t \in 0..d - 1 : p = d * u + t
  <2>1. p \in Int
    BY <1>3
  <2> QED  BY <2>1, Division
<1>5. PICK v \in Int : v = d * u
  OBVIOUS
<1>6. u \in 0..Polys - 1
  <2>1. ASSUME u <= -1 PROVE FALSE
    <3>1. d * u <= d * (-1) /\ d * (-1) = -d
      BY <2>1
    <3> QED  BY <1>3, <1>4, <1>5, <3>1
  <2>2. ASSUME u >= Polys PROVE FALSE
    <3>1. d * u >= d * Polys /\ d * Polys = Polys * d
      BY <2>2
    <3> QED  BY <1>3, <1>4, <1>5, <3>1
  <2> QED  BY <2>1, <2>2
<1>7. bitlen \in Nat \ {0} /\ d = N * bitlen /\ t \in Int
  BY <1>1, <1>2
<1>8. PICK w \in Int, j \in 0..bitlen - 1 : t = bitlen * w + j
  BY <1>7, Division
<1>9. w \in 0..N - 1
  <2>1. ASSUME w <= -1 PROVE FALSE
    <3>1. bitlen * w <= bitlen * (-1) /\ bitlen * (-1) = -bitlen /\ bitlen * w \in Int
      BY <2>1
    <3>2. PICK z \in Int : z = bitlen * w /\ z <= -bitlen
      BY <3>1
    <3>3. t < 0
      BY <1>8, <3>2
    <3> QED  BY <1>4, <3>3
  <2>2. ASSUME w >= N PROVE FALSE
    <3>1. bitlen * w >= bitlen * N /\ bitlen * N = N * bitlen /\ bitlen * w \in Int
      BY <2>2, SizesAssumption
    <3>2. PICK z \in Int : z = bitlen * w /\ z >= d
      BY <1>7, <3>1
    <3>3. t >= d
      BY <1>8, <3>2
    <3> QED  BY <1>4, <3>3
  <2> QED  BY <2>1, <2>2, SizesAssumption
<1>10. p = Place(u, w, j)
  <2>1. (u * l) * 8 = d * u /\ w * bitlen = bitlen * w
    BY <1>2
  <2>2. PICK c \in Int : c = bitlen * w
    OBVIOUS
  <2> QED  BY <1>1, <1>4, <1>5, <1>8, <2>1, <2>2 DEF Place
<1> QED  BY <1>6, <1>9, <1>10

\* The squeezed bit at a place: another one at every place.
SqueezedBit == [p \in Places |-> ByteBit(p \div 8, p % 8)]

LEMMA SqueezedBits ==
  ASSUME bitlen \in 1..16, RingType, fn \in Samplers
  PROVE  /\ \A p \in Places : SqueezedBit[p] \in Nat \X Nat \X Nat
         /\ \A p, q \in Places : SqueezedBit[p] = SqueezedBit[q] => p = q
<1>1. PICK s \in Nat \ {0} : s = StreamLen
  BY BufferSizes
<1>2. ASSUME NEW p \in Places
      PROVE  \E c \in Nat, d \in Nat, b \in Nat :
               SqueezedBit[p] = <<c, d, b>> /\ p = 8 * (s * c + d) + b
  <2>1. p \in Nat
    BY DEF Places
  <2>2. PICK a \in Int, b \in 0..7 : a = p \div 8 /\ b = p % 8 /\ p = 8 * a + b
    BY <2>1
  <2>3. PICK c \in Int, d \in 0..s - 1 : c = a \div s /\ d = a % s /\ a = s * c + d
    BY Division
  <2>4. a >= 0
    BY <2>1, <2>2
  <2>5. c >= 0
    <3>1. ASSUME c <= -1 PROVE FALSE
      <4>1. s * c <= s * (-1) /\ s * (-1) = -s /\ s * c \in Int
        BY <3>1
      <4>2. PICK z \in Int : z = s * c /\ z <= -s
        BY <4>1
      <4>3. a < 0
        BY <2>3, <4>2
      <4> QED  BY <2>4, <4>3
    <3> QED  BY <3>1
  <2>6. SqueezedBit[p] = <<c, d, b>>
    <3>1. SqueezedBit[p] = ByteBit(a, b)
      BY <2>2 DEF SqueezedBit
    <3>2. ByteBit(a, b) = <<a \div s, a % s, b>>
      BY <1>1 DEF ByteBit
    <3> QED  BY <2>3, <3>1, <3>2
  <2>7. p = 8 * (s * c + d) + b
    BY <2>2, <2>3
  <2>8. c \in Nat /\ d \in Nat /\ b \in Nat
    BY <2>5
  <2> QED  BY <2>6, <2>7, <2>8
<1>3. ASSUME NEW p \in Places, NEW q \in Places, SqueezedBit[p] = SqueezedBit[q]
      PROVE  p = q
  <2>1. PICK c \in Nat, d \in Nat, b \in Nat :
          SqueezedBit[p] = <<c, d, b>> /\ p = 8 * (s * c + d) + b
    BY <1>2
  <2>2. PICK e \in Nat, f \in Nat, g \in Nat :
          SqueezedBit[q] = <<e, f, g>> /\ q = 8 * (s * e + f) + g
    BY <1>2
  <2>3. c = e /\ d = f /\ b = g
    <3>1. <<c, d, b>> = <<e, f, g>>
      BY <1>3, <2>1, <2>2, Zenon
    <3> QED  BY <3>1
  <2> QED  BY <2>1, <2>2, <2>3, Zenon
<1>4. ASSUME NEW p \in Places
      PROVE  SqueezedBit[p] \in Nat \X Nat \X Nat
  <2>1. PICK c \in Nat, d \in Nat, b \in Nat : SqueezedBit[p] = <<c, d, b>>
    BY <1>2
  <2> QED  BY <2>1
<1> QED  BY <1>3, <1>4

\* A sampled element takes each bit from a place of its own in the streams, and no bit
\* that was not squeezed; the buffer is as long as it was declared (uniform.c:5-103).
THEOREM CoefficientsAreFresh == RingSpec => []FreshCoefficients
<1>1. RingInv => FreshCoefficients
  <2> SUFFICES ASSUME RingInv PROVE FreshCoefficients
    OBVIOUS
  <2> DEFINE used == UNION {x[u][w][j] : u \in DOMAIN x, w \in 0..N - 1, j \in 0..bitlen - 1}
  <2>1. bitlen \in 1..16 /\ RingType /\ DOMAIN buf = 0..BufLen - 1
    BY DEF RingInv, PackInv, PackType, BufInv
  <2>2. Polys \in Nat \ {0} /\ N \in Nat \ {0}
    BY <2>1, BufferSizes, SizesAssumption
  <2>3. ASSUME Filled, fn \in Samplers
        PROVE  /\ DOMAIN x = 0..Polys - 1 /\ Garbage \notin used
               /\ \A u \in DOMAIN x : \A w \in 0..N - 1 : \A j \in 0..bitlen - 1 :
                    Cardinality(x[u][w][j]) = 1
               /\ Cardinality(used) = Polys * N * bitlen
    <3>1. RowsRead = Polys /\ DOMAIN x = {RowOf(u) : u \in 0..Polys - 1} /\ fn \notin Fused
      <4>1. RowsRead = Polys /\ DOMAIN x = {RowOf(PolyAt(k)) : k \in 0..Polys - 1}
        BY <2>3 DEF RingInv, RowsInv, Filled, RowsRead
      <4>2. fn \notin Fused
        BY <2>3 DEF Samplers, Fused
      <4>3. \A k : PolyAt(k) = k
        BY <4>2 DEF PolyAt
      <4> QED  BY <4>1, <4>2, <4>3
    <3>2. \A u \in 0..Polys - 1 : RowOf(u) \in 0..Polys - 1 /\ RowOf(RowOf(u)) = u
      <4>1. fn \in {"ring_uniform_Awin_base", "ring_unpack_Awin"} => Polys = K
        BY DEF Polys, Fused
      <4> QED  BY <2>1, <2>2, <4>1 DEF RowOf, RingType
    <3>3. DOMAIN x = 0..Polys - 1
      BY <3>1, <3>2
    <3>4. ASSUME NEW u \in DOMAIN x, NEW w \in 0..N - 1, NEW j \in 0..bitlen - 1
          PROVE  /\ Place(RowOf(u), w, j) \in Places
                 /\ x[u][w][j] = {SqueezedBit[Place(RowOf(u), w, j)]}
      <4>1. PICK v \in 0..Polys - 1 : v = RowOf(u) /\ RowOf(v) = u
        BY <3>2, <3>3
      <4>2. PICK t \in Int : t = w * bitlen + j
        BY <2>1, <2>2
      <4>3. x[RowOf(v)][w][j] = {ByteBit(v * outlen + (t \div 8), t % 8)}
        BY <3>1, <4>2 DEF RingInv, RowsInv, PolyAt
      <4>4. /\ Place(v, w, j) \in Places
            /\ Place(v, w, j) \div 8 = v * outlen + (t \div 8) /\ Place(v, w, j) % 8 = t % 8
        <5>1. Polys \in Nat
          BY <2>2
        <5> HIDE <4>1
        <5> QED  BY <2>1, <4>2, <5>1, BitHasPlace
      <4>5. SqueezedBit[Place(v, w, j)] = ByteBit(v * outlen + (t \div 8), t % 8)
        BY <4>4 DEF SqueezedBit
      <4> QED  BY <4>1, <4>3, <4>4, <4>5
    <3>5. used = {SqueezedBit[p] : p \in Places}
      <4>1. ASSUME NEW u \in DOMAIN x, NEW w \in 0..N - 1, NEW j \in 0..bitlen - 1
            PROVE  x[u][w][j] \subseteq {SqueezedBit[p] : p \in Places}
        BY <3>4
      <4>2. ASSUME NEW p \in Places
            PROVE  \E u \in DOMAIN x : \E w \in 0..N - 1 : \E j \in 0..bitlen - 1 :
                     SqueezedBit[p] \in x[u][w][j]
        <5>1. PICK v \in 0..Polys - 1 : \E w \in 0..N - 1 : \E j \in 0..bitlen - 1 : p = Place(v, w, j)
          BY <2>1, <2>2, PlaceHasBit
        <5>2. PICK w \in 0..N - 1, j \in 0..bitlen - 1 : p = Place(v, w, j)
          BY <5>1
        <5>3. PICK u \in DOMAIN x : RowOf(u) = v
          BY <3>2, <3>3
        <5>4. SqueezedBit[p] \in x[u][w][j]
          BY <3>4, <5>2, <5>3
        <5> QED  BY <5>4
      <4> QED  BY <4>1, <4>2
    <3>6. /\ \A p \in Places : SqueezedBit[p] \in Nat \X Nat \X Nat
          /\ \A p, q \in Places : SqueezedBit[p] = SqueezedBit[q] => p = q
      BY <2>1, <2>3, SqueezedBits
    <3>7. Garbage \notin used
      BY <3>5, <3>6, GarbageAssumption
    <3>8. \A u \in DOMAIN x : \A w \in 0..N - 1 : \A j \in 0..bitlen - 1 : Cardinality(x[u][w][j]) = 1
      <4>1. ASSUME NEW u \in DOMAIN x, NEW w \in 0..N - 1, NEW j \in 0..bitlen - 1
            PROVE  Cardinality(x[u][w][j]) = 1
        <5>1. x[u][w][j] = {SqueezedBit[Place(RowOf(u), w, j)]}
          BY <3>4
        <5>2. Cardinality({SqueezedBit[Place(RowOf(u), w, j)]}) = 1
          BY FS_Singleton, Zenon
        <5> QED  BY <5>1, <5>2, Zenon
      <4> QED  BY <4>1
    <3>9. Cardinality(used) = Polys * N * bitlen
      <4>1. PICK m \in Nat \ {0} : m = Polys * N * bitlen
        BY <2>1, <2>2
      <4>2. Places = 0..m - 1
        BY <4>1 DEF Places
      <4>3. IsFiniteSet(Places) /\ Cardinality(Places) = m
        <5>1. IsFiniteSet(0..m - 1) /\ Cardinality(0..m - 1) = IF 0 > m - 1 THEN 0 ELSE (m - 1) - 0 + 1
          BY FS_Interval
        <5> QED  BY <4>2, <5>1
      <4>4. SqueezedBit \in Bijection(Places, used)
        <5> HIDE DEF used
        <5>1. DOMAIN SqueezedBit = Places /\ SqueezedBit = [p \in Places |-> SqueezedBit[p]]
          BY DEF SqueezedBit
        <5>2. SqueezedBit \in [Places -> used]
          BY <3>5, <5>1
        <5>3. IsInjective(SqueezedBit)
          BY <3>6, <5>1 DEF IsInjective
        <5>4. \A b \in used : \E p \in Places : SqueezedBit[p] = b
          BY <3>5
        <5> QED  BY <5>2, <5>3, <5>4 DEF Bijection, Injection, Surjection
      <4>5. ExistsBijection(Places, used)
        BY <4>4 DEF ExistsBijection
      <4>6. Cardinality(used) = Cardinality(Places)
        BY <4>3, <4>5, FS_Bijection
      <4> QED  BY <4>1, <4>3, <4>6
    <3> QED  BY <3>3, <3>7, <3>8, <3>9
  <2> QED  BY <2>1, <2>3 DEF FreshCoefficients
<1> QED  BY <1>1, RingInvariant, PTL
=============================================================================
