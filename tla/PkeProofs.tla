------------------------------ MODULE PkeProofs ------------------------------
(***************************************************************************)
(* Theorems about Pke, for every number of coefficients and rows and all   *)
(* moduli.                                                                 *)
(*                                                                         *)
(* The value that the decryptor rounds is, modulo P, the noise plus what   *)
(* the encryptor's rounding dropped plus a constant, plus P/2 for a one    *)
(* (RoundedValue).  Multiplication by X + 2 is linear and commutes with    *)
(* products, so a row of a window product is the row of the product in R_q *)
(* (RowOfWindow).  The inductive invariant says which window is in use     *)
(* (WindowInv) and which rows are done (DoneInv).                          *)
(*                                                                         *)
(* The noise: over the integers, multiplication by a fixed element is      *)
(* linear and commutes with X and Y, and such a map is known from the      *)
(* constants (LinearDetermined); so the two parties' products of three are *)
(* one (ProductsCommute), and their values differ by the rounding errors   *)
(* times the secrets (Accumulated), which ProductBound bounds.             *)
(***************************************************************************)
EXTENDS Pke, NumberLemmas, TLAPS

----------------------------------------------------------------------------
(* One coefficient of a message.                                           *)

LEMMA Types ==
  /\ Quarter \in Nat \ {0} /\ P \in Nat \ {0} /\ P = 4 * Quarter /\ H1 \in Int
  /\ \A h \in Halves : h \in Nat \ {0} /\ Step[h] \in Nat \ {0} /\ Step[h] * h = 2 * Quarter
<1>1. Quarter \in Nat \ {0} /\ P \in Nat \ {0} /\ P = 4 * Quarter /\ Q \in Int /\ 2 * P \in Nat \ {0}
  BY CodeAssumption DEF P
<1>2. Q \div (2 * P) \in Int
  BY <1>1, Division
<1> QED  BY <1>1, <1>2, CodeAssumption DEF H1

\* Rounding a value modulo P to a bit, by the quarter it lies in.
LEMMA BitOfQuarter ==
  ASSUME NEW x \in Int, NEW k \in Int, NEW d \in Int, x = d + P * k
  PROVE  /\ d \in -Quarter..Quarter - 1 => Bit(x) = 0
         /\ d \in Quarter..3 * Quarter - 1 => Bit(x) = 1
         /\ d \in -3 * Quarter..-Quarter - 1 => Bit(x) = 1
<1>1. Quarter \in Nat \ {0} /\ P = 4 * Quarter /\ P \in Nat \ {0}
  BY CodeAssumption DEF P
<1>2. ASSUME NEW y \in 0..P - 1, NEW fb \in {0, 1},
             fb = 0 => y + Quarter \in 0..2 * Quarter - 1 \/ y + Quarter \in 4 * Quarter..6 * Quarter - 1,
             fb = 1 => y + Quarter \in 2 * Quarter..4 * Quarter - 1,
             x % P = y
      PROVE  Bit(x) = fb
  <2> DEFINE z == y + Quarter
             H == 2 * Quarter
  <2>1. H \in Nat \ {0} /\ z \in Int
    BY <1>1
  <2>2. Bit(x) = (z \div H) % 2
    BY <1>2 DEF Bit
  <2>3. CASE z \in 0..H - 1
    <3>1. z \div H = 0
      BY <2>1, <2>3
    <3> QED  BY <1>1, <1>2, <2>2, <2>3, <3>1
  <2>4. CASE z \in H..2 * H - 1
    <3>1. z - H \in 0..H - 1 /\ z = H * 1 + (z - H)
      BY <2>1, <2>4
    <3>2. z \div H = 1
      BY <2>1, <3>1, DivisionUnique
    <3> QED  BY <1>1, <1>2, <2>2, <2>4, <3>2
  <2>5. CASE z \in 2 * H..3 * H - 1
    <3>1. z - 2 * H \in 0..H - 1 /\ z = H * 2 + (z - 2 * H)
      BY <2>1, <2>5
    <3>2. z \div H = 2
      BY <2>1, <3>1, DivisionUnique
    <3> QED  BY <1>1, <1>2, <2>2, <2>5, <3>2
  <2> QED  BY <1>1, <1>2, <2>3, <2>4, <2>5
<1>3. ASSUME NEW y \in 0..P - 1, NEW j \in Int, d = y + P * j
      PROVE  x % P = y
  <2>1. x = P * (j + k) + y /\ j + k \in Int
    BY <1>1, <1>3
  <2> QED  BY <1>1, <2>1, DivisionUnique
<1>4. CASE d \in 0..P - 1
  <2>1. x % P = d
    <3>1. d = d + P * 0
      BY <1>1
    <3> QED  BY <1>3, <1>4, <3>1
  <2> QED  BY <1>1, <1>2, <1>4, <2>1
<1>5. CASE d \in -P..-1
  <2>1. x % P = d + P
    <3>1. d = (d + P) + P * (-1) /\ d + P \in 0..P - 1
      BY <1>1, <1>5
    <3> QED  BY <1>3, <3>1
  <2>2. d + P \in 0..P - 1
    BY <1>1, <1>5
  <2> QED  BY <1>1, <1>2, <1>5, <2>1, <2>2
<1> QED  BY <1>1, <1>4, <1>5

LEMMA BitTypes ==
  ASSUME NEW x \in Int
  PROVE  Bit(x) \in {0, 1}
<1>1. P \in Nat \ {0} /\ 2 * Quarter \in Nat \ {0} /\ Quarter \in Nat
  BY CodeAssumption DEF P
<1>2. (x % P) + Quarter \in Int
  BY <1>1
<1>3. ((x % P) + Quarter) \div (2 * Quarter) \in Int
  BY <1>1, <1>2
<1> QED  BY <1>3 DEF Bit

----------------------------------------------------------------------------
(* The fused code, in terms of quotients.                                  *)

\* The code that is stored, and the product it stands for.
LEMMA StoredCode ==
  ASSUME half \in Halves, NEW acc \in 0..P - 1, NEW bit \in {0, 1}
  PROVE  \E q \in Int, low \in 0..Step[half] - 1, k \in Int, k1 \in Int :
           /\ acc + H1 = Step[half] * q + low + P * k
           /\ (acc + H1) % P = Step[half] * q + low /\ ((acc + H1) % P) \div Step[half] = q
           /\ low = (acc + H1) % Step[half]
           /\ Stored(acc, bit) \in 0..T - 1
           /\ half - 1 - Stored(acc, bit) = q + bit * half + T * k1
<1>1. half \in Nat \ {0} /\ Step[half] \in Nat \ {0} /\ Step[half] * half = 2 * Quarter
      /\ H1 \in Int /\ P \in Nat \ {0} /\ P = 4 * Quarter /\ Quarter \in Nat
  BY Types
<1> DEFINE S == Step[half]
           w == (acc + H1) % P
<1>2. acc + H1 \in Int
  BY <1>1
<1>3. PICK k \in Int : w \in 0..P - 1 /\ acc + H1 = P * k + w
  BY <1>1, <1>2, Division
<1>4. w \in Int
  BY <1>1, <1>3
<1>5. PICK q \in Int, low \in 0..S - 1 : q = w \div S /\ low = w % S /\ w = S * q + low
  <2>1. S \in Nat \ {0}
    BY <1>1
  <2> HIDE DEF w, S
  <2> QED  BY <1>4, <2>1, Division
<1> DEFINE n == half - 1 - q - bit * half
<1>6. bit * half \in Int /\ n \in Int /\ T \in Nat \ {0}
  BY <1>1 DEF T
<1>7. PICK k1 \in Int : n % T \in 0..T - 1 /\ n = T * k1 + (n % T)
  BY <1>6, Division
<1>8. Stored(acc, bit) = n % T
  BY <1>5 DEF Stored
<1>9. half - 1 - Stored(acc, bit) = q + bit * half + T * k1
  <2>1. n % T \in Int
    BY <1>6, <1>7
  <2>2. T * k1 \in Int
    BY <1>6
  <2>3. n = half - 1 - q - bit * half
    OBVIOUS
  <2> HIDE DEF n
  <2> QED  BY <1>1, <1>6, <1>7, <1>8, <2>1, <2>2, <2>3
<1>10. low = (acc + H1) % S
  <2>1. P = S * (2 * half)
    BY <1>1
  <2>2. P * k = S * ((2 * half) * k)
    <3>1. (S * (2 * half)) * k = S * ((2 * half) * k)
      BY <1>1
    <3> QED  BY <2>1, <3>1
  <2>3. acc + H1 = w + S * ((2 * half) * k) /\ (2 * half) * k \in Int
    BY <1>1, <1>3, <1>4, <2>2
  <2>4. PICK j \in Int : acc + H1 = w + S * j
    BY <2>3
  <2> HIDE DEF w, S
  <2>5. (acc + H1) % S = w % S
    BY <1>1, <1>2, <1>4, <2>4, SameRemainder DEF S
  <2> QED  BY <1>5, <2>5
<1>11. acc + H1 = S * q + low + P * k
  <2>1. P * k \in Int /\ S * q \in Int
    BY <1>1, <1>5
  <2> HIDE DEF w
  <2> QED  BY <1>1, <1>3, <1>4, <1>5, <2>1
<1> QED  BY <1>5, <1>7, <1>8, <1>9, <1>10, <1>11

\* What the decryptor rounds: noise, what the encryptor's rounding dropped, a
\* constant, and half of P for a one.
LEMMA RoundedValue ==
  ASSUME half \in Halves, NEW acc \in 0..P - 1, NEW bit \in {0, 1}, NEW e \in Int
  PROVE  LET u == (acc + e) % P
             low == (acc + H1) % Step[half]
             x == (u % P) - (half - 1 - Stored(acc, bit)) * Step[half] + H2
         IN  /\ x \in Int /\ low \in 0..Step[half] - 1 /\ Offset \in Int
             /\ \E k \in Int : x = e + low + Offset - bit * (2 * Quarter) + P * k
<1>1. half \in Nat \ {0} /\ Step[half] \in Nat \ {0} /\ Step[half] * half = 2 * Quarter
      /\ H1 \in Int /\ P \in Nat \ {0} /\ P = 4 * Quarter /\ Quarter \in Nat
  BY Types
<1> DEFINE S == Step[half]
           u == (acc + e) % P
<1>2. PICK q \in Int, low \in 0..S - 1, k1 \in Int, k2 \in Int :
        /\ acc + H1 = S * q + low + P * k1 /\ low = (acc + H1) % S
        /\ half - 1 - Stored(acc, bit) = q + bit * half + T * k2
  BY StoredCode
<1>3. acc + e \in Int
  BY <1>1
<1>4. PICK k3 \in Int : u \in 0..P - 1 /\ acc + e = P * k3 + u
  BY <1>1, <1>3, Division
<1>5. u % P = u
  BY <1>1, <1>4
<1>6. H2 \in Int
  <2>1. Step[half] \in Int /\ 2 \in Nat \ {0}
    BY <1>1
  <2>2. Step[half] \div 2 \in Int
    BY <2>1, Division
  <2> QED  BY <1>1, <2>2 DEF H2
<1>7. (q + bit * half + T * k2) * S = S * q + bit * (2 * Quarter) + P * k2
  <2>1. T * S = P
    BY <1>1 DEF T
  <2>2. (bit * half) * S = bit * (2 * Quarter)
    <3>1. half * S = 2 * Quarter
      BY <1>1
    <3>2. (bit * half) * S = bit * (half * S)
      BY <1>1
    <3> QED  BY <3>1, <3>2
  <2>3. (T * k2) * S = P * k2
    <3>1. (T * k2) * S = (T * S) * k2
      BY <1>1 DEF T
    <3> QED  BY <2>1, <3>1
  <2>4. PICK fa \in Int, fb \in Int : fa = bit * half /\ fb = T * k2
    BY <1>1 DEF T
  <2>5. (q + fa + fb) * S = S * q + fa * S + fb * S
    BY <1>1
  <2> QED  BY <2>2, <2>3, <2>4, <2>5
<1> DEFINE x == (u % P) - (half - 1 - Stored(acc, bit)) * S + H2
<1>8. PICK c \in Int, p1 \in Int, p2 \in Int, p3 \in Int, h \in Int :
        /\ c = S * q /\ p1 = P * k1 /\ p2 = P * k2 /\ p3 = P * k3 /\ h = bit * (2 * Quarter)
  BY <1>1
<1>9. x = u - (c + h + p2) + H2
  BY <1>2, <1>5, <1>7, <1>8
<1>10. P * (k1 - k3 - k2) = p1 - p3 - p2
  BY <1>1, <1>8
<1>11. Offset = H2 - H1 /\ Offset \in Int
  BY <1>1, <1>6 DEF Offset
<1>12. u \in Int /\ low \in Int /\ acc \in Int /\ H1 \in Int /\ acc + H1 = c + low + p1 /\ acc + e = p3 + u
  BY <1>1, <1>2, <1>4, <1>8
<1> HIDE DEF x, u
<1>13. x = e + low + Offset - h + (p1 - p3 - p2) /\ x \in Int
  BY <1>6, <1>8, <1>9, <1>11, <1>12
<1>14. x = e + low + Offset - bit * (2 * Quarter) + P * (k1 - k3 - k2) /\ k1 - k3 - k2 \in Int
  BY <1>8, <1>10, <1>13
<1> QED  BY <1>2, <1>11, <1>13, <1>14 DEF x, u

\* The decoded bit by the quarter of the noise with what the rounding adds to it.
LEMMA DecodedBit ==
  ASSUME half \in Halves, NEW acc \in 0..P - 1, NEW bit \in {0, 1}, NEW e \in Int,
         NEW d \in Int, d = e + ((acc + H1) % Step[half]) + Offset
  PROVE  /\ d \in -Quarter..Quarter - 1 => Decoded((acc + e) % P, Stored(acc, bit)) = bit
         /\ d = Quarter \/ d = -Quarter - 1 => Decoded((acc + e) % P, Stored(acc, bit)) = 1 - bit
<1>1. H1 \in Int /\ P \in Nat \ {0} /\ P = 4 * Quarter /\ Quarter \in Nat \ {0}
      /\ half \in Nat
  BY Types
<1> DEFINE x == (((acc + e) % P) % P) - (half - 1 - Stored(acc, bit)) * Step[half] + H2
           low == (acc + H1) % Step[half]
<1>2. x \in Int /\ low \in 0..Step[half] - 1 /\ Offset \in Int
      /\ \E k \in Int : x = e + low + Offset - bit * (2 * Quarter) + P * k
  BY RoundedValue
<1>3. Decoded((acc + e) % P, Stored(acc, bit)) = Bit(x)
  BY DEF Decoded
<1>a. d = e + low + Offset
  OBVIOUS
<1> HIDE DEF x, low
<1>4. PICK k \in Int : x = d - bit * (2 * Quarter) + P * k
  <2>1. PICK k \in Int : x = e + low + Offset - bit * (2 * Quarter) + P * k
    BY <1>2
  <2>2. e + low + Offset - bit * (2 * Quarter) + P * k = d - bit * (2 * Quarter) + P * k
    <3>1. low \in Int /\ Offset \in Int /\ P * k \in Int /\ bit * (2 * Quarter) \in Int
      <4>1. Step[half] \in Nat
        BY Types
      <4> QED  BY <1>1, <1>2, <4>1
    <3> QED  BY <1>a, <3>1
  <2> QED  BY <2>1, <2>2
<1>5. CASE bit = 0
  <2>1. x = d + P * k
    <3>1. P * k \in Int /\ d - 0 * (2 * Quarter) = d
      BY <1>1
    <3> QED  BY <1>4, <1>5, <3>1
  <2>2. /\ d \in -Quarter..Quarter - 1 => Bit(x) = 0
        /\ d \in Quarter..3 * Quarter - 1 => Bit(x) = 1
        /\ d \in -3 * Quarter..-Quarter - 1 => Bit(x) = 1
    BY <1>2, <2>1, BitOfQuarter
  <2> QED  BY <1>1, <1>3, <1>5, <2>2
<1>6. CASE bit = 1
  <2> DEFINE d1 == d - 2 * Quarter
             d2 == d + 2 * Quarter
  <2>1. x = d1 + P * k /\ x = d2 + P * (k - 1) /\ d1 \in Int /\ d2 \in Int /\ k - 1 \in Int
    <3>1. P * (k - 1) = P * k - P /\ P * k \in Int
      BY <1>1
    <3> QED  BY <1>1, <1>4, <1>6, <3>1
  <2>2. /\ d1 \in -Quarter..Quarter - 1 => Bit(x) = 0
        /\ d1 \in -3 * Quarter..-Quarter - 1 => Bit(x) = 1
    <3> HIDE DEF d1, d2
    <3> QED  BY <1>2, <2>1, BitOfQuarter
  <2>3. d2 \in -Quarter..Quarter - 1 => Bit(x) = 0
    <3> HIDE DEF d1, d2
    <3> QED  BY <1>2, <2>1, BitOfQuarter
  <2>4. /\ d \in -Quarter..Quarter - 1 => d1 \in -3 * Quarter..-Quarter - 1
        /\ d = Quarter => d1 \in -Quarter..Quarter - 1
        /\ d = -Quarter - 1 => d2 \in -Quarter..Quarter - 1
    BY <1>1
  <2> HIDE DEF d1, d2
  <2> QED  BY <1>3, <1>6, <2>2, <2>3, <2>4
<1> QED  BY <1>5, <1>6

----------------------------------------------------------------------------
(* The separate steps.                                                     *)

LEMMA EncodingAgrees ==
  ASSUME half \in Halves, NEW acc \in 0..P - 1, NEW bit \in {0, 1}
  PROVE  Stored(acc, bit) = pack_t(compress(add_msg(acc, bit)))
<1>1. half \in Nat \ {0} /\ Step[half] \in Nat \ {0} /\ Step[half] * half = 2 * Quarter
      /\ H1 \in Int /\ P \in Nat \ {0} /\ P = 4 * Quarter /\ Quarter \in Nat \ {0}
  BY Types
<1> DEFINE S == Step[half]
           w == (acc + H1) % P
           y == (acc + H1 + bit * 2 * Quarter) % P
<1>2. PICK k \in Int : w \in 0..P - 1 /\ acc + H1 = P * k + w
  <2>1. acc + H1 \in Int
    BY <1>1
  <2> QED  BY <1>1, <2>1, Division
<1>3. w \in Int
  BY <1>1, <1>2
<1>4. PICK q \in Int, low \in 0..S - 1 : q = w \div S /\ low = w % S /\ w = S * q + low
  <2>1. S \in Nat \ {0}
    BY <1>1
  <2> HIDE DEF w, S
  <2> QED  BY <1>3, <2>1, Division
<1>5. \E j \in {0, 1} : y \div S = q + bit * half - T * j
  <2>1. CASE bit = 0
    <3>1. y = w
      BY <1>1, <2>1
    <3>2. q = q + 0 * half - T * 0
      BY <1>1 DEF T
    <3> QED  BY <1>4, <2>1, <3>1, <3>2
  <2>2. CASE bit = 1 /\ w < 2 * Quarter
    <3>1. y = w + 2 * Quarter
      <4>1. acc + H1 + 1 * 2 * Quarter = P * k + (w + 2 * Quarter)
        <5>1. P * k \in Int
          BY <1>1
        <5> HIDE DEF w
        <5> QED  BY <1>1, <1>2, <1>3, <5>1
      <4>2. w + 2 * Quarter \in 0..P - 1 /\ acc + H1 + 1 * 2 * Quarter \in Int
        BY <1>1, <1>2, <2>2
      <4> HIDE DEF w
      <4> QED  BY <1>1, <2>2, <4>1, <4>2, DivisionUnique
    <3>2. y = S * (q + half) + low
      <4>1. S * (q + half) = S * q + 2 * Quarter /\ S * q \in Int
        BY <1>1
      <4> HIDE DEF w, y
      <4> QED  BY <1>1, <1>4, <3>1, <4>1
    <3>3. y \div S = q + half
      <4>1. y \in Int /\ q + half \in Int
        BY <1>1, <1>3, <3>1
      <4> HIDE DEF y
      <4> QED  BY <1>1, <1>4, <3>2, <4>1, DivisionUnique
    <3>4. q + half = q + 1 * half - T * 0
      BY <1>1 DEF T
    <3> QED  BY <2>2, <3>3, <3>4
  <2>3. CASE bit = 1 /\ w >= 2 * Quarter
    <3>1. y = w - 2 * Quarter
      <4>1. acc + H1 + 1 * 2 * Quarter = P * (k + 1) + (w - 2 * Quarter)
        <5>1. P * k \in Int /\ P * (k + 1) = P * k + P
          BY <1>1
        <5> HIDE DEF w
        <5> QED  BY <1>1, <1>2, <1>3, <5>1
      <4>2. w - 2 * Quarter \in 0..P - 1 /\ acc + H1 + 1 * 2 * Quarter \in Int
        BY <1>1, <1>2, <2>3
      <4>3. k + 1 \in Int /\ P \in Nat \ {0}
        BY <1>1
      <4>4. (acc + H1 + 1 * 2 * Quarter) % P = w - 2 * Quarter
        <5>1. PICK fa \in Int, fi \in Int, fs \in 0..P - 1 :
                fa = acc + H1 + 1 * 2 * Quarter /\ fi = k + 1 /\ fs = w - 2 * Quarter
          BY <4>2, <4>3
        <5>2. fa = P * fi + fs
          BY <4>1, <5>1
        <5>3. fa \in Int /\ fi \in Int /\ fs \in 0..P - 1 /\ P \in Nat \ {0}
          BY <4>3, <5>1
        <5>4. fa % P = fs
          BY <5>2, <5>3, DivisionUnique
        <5> QED  BY <5>1, <5>4
      <4> QED  BY <2>3, <4>4
    <3>2. y = S * (q - half) + low
      <4>1. S * (q - half) = S * q - 2 * Quarter /\ S * q \in Int
        BY <1>1
      <4> HIDE DEF w, y
      <4> QED  BY <1>1, <1>4, <3>1, <4>1
    <3>3. y \div S = q - half
      <4>1. y \in Int /\ q - half \in Int
        BY <1>1, <1>3, <3>1
      <4> HIDE DEF y
      <4> QED  BY <1>1, <1>4, <3>2, <4>1, DivisionUnique
    <3>4. q - half = q + 1 * half - T * 1
      BY <1>1 DEF T
    <3> QED  BY <2>3, <3>3, <3>4
  <2> QED  BY <1>1, <1>3, <2>1, <2>2, <2>3
<1>6. PICK j \in {0, 1} : y \div S = q + bit * half - T * j
  BY <1>5
<1> DEFINE n == half - 1 - q - bit * half
           c == half - 1 - (y \div S)
<1>7. Stored(acc, bit) = n % T
  BY <1>4 DEF Stored
<1>8. pack_t(compress(add_msg(acc, bit))) = c % T
  BY DEF pack_t, compress, add_msg
<1>9. n \in Int /\ c \in Int /\ n = c + T * (-j) /\ T \in Nat \ {0} /\ -j \in Int
  <2>1. PICK fa \in Int, fb \in Int : fa = bit * half /\ fb = T * j
    BY <1>1 DEF T
  <2>2. T * (-j) = -fb /\ T \in Nat \ {0}
    BY <1>1, <2>1 DEF T
  <2> HIDE DEF y
  <2> QED  BY <1>1, <1>6, <2>1, <2>2
<1> HIDE DEF n, c
<1> QED  BY <1>7, <1>8, <1>9, SameRemainder

LEMMA DecodingAgrees ==
  ASSUME half \in Halves, NEW acc \in 0..P - 1, NEW c \in 0..T - 1
  PROVE  Decoded(acc, c) = round_to_bit(subp(acc, decompress(unpack_t(c))))
<1>1. half \in Nat \ {0} /\ Step[half] \in Nat \ {0} /\ Step[half] * half = 2 * Quarter
      /\ P \in Nat \ {0} /\ P = 4 * Quarter /\ Quarter \in Nat \ {0} /\ T = 2 * half
  BY Types DEF T
<1> DEFINE S == Step[half]
           u == unpack_t(c)
           f == (acc % P) - (half - 1 - c) * S + H2
           y == subp(acc, decompress(u))
<1>2. PICK k \in Int : half - 1 - c = T * k + u /\ u \in 0..T - 1
  <2>1. half - 1 - c \in Int /\ T \in Nat \ {0}
    BY <1>1
  <2> QED  BY <2>1, Division DEF unpack_t
<1>3. H2 \in Int
  <2>1. Step[half] \in Int /\ 2 \in Nat \ {0} /\ H1 \in Int
    BY Types
  <2>2. Step[half] \div 2 \in Int
    BY <2>1, Division
  <2> QED  BY <2>1, <2>2 DEF H2
<1>4. (half - 1 - c) * S = u * S + P * k
  <2>1. u \in Int
    BY <1>1, <1>2
  <2>2. (T * k + u) * S = u * S + (T * S) * k
    BY <1>1, <2>1
  <2>3. T * S = P
    BY <1>1
  <2> QED  BY <1>2, <2>2, <2>3
<1>5. acc % P = acc
  BY <1>1
<1>6. PICK fa \in Int, fb \in Int : fa = u * S /\ fb = P * k
  BY <1>1, <1>2
<1>7. y = (acc - fa + H2) % P
  BY <1>6 DEF subp, decompress
<1>8. f % P = y /\ y \in 0..P - 1
  <2>1. f = (acc - fa + H2) + P * (-k)
    <3>1. P * (-k) = -fb
      BY <1>1, <1>6
    <3>2. f = acc - (fa + fb) + H2
      BY <1>4, <1>5, <1>6
    <3> HIDE DEF f
    <3> QED  BY <1>1, <1>3, <1>6, <3>1, <3>2
  <2>2. acc - fa + H2 \in Int /\ -k \in Int /\ P \in Nat \ {0}
    BY <1>1, <1>3
  <2>3. f \in Int
    <3>1. P * (-k) \in Int
      BY <1>1
    <3> HIDE DEF f
    <3> QED  BY <2>1, <2>2, <3>1
  <2> HIDE DEF f, y
  <2>4. f % P = (acc - fa + H2) % P
    <3>1. PICK g \in Int, fi \in Int : g = acc - fa + H2 /\ fi = -k
      BY <2>2
    <3>2. f = g + P * fi
      BY <2>1, <3>1
    <3>3. f % P = g % P
      BY <2>2, <2>3, <3>1, <3>2, SameRemainder
    <3> QED  BY <3>1, <3>3
  <2>5. (acc - fa + H2) % P \in 0..P - 1
    BY <2>2, Division
  <2> QED  BY <1>7, <2>4, <2>5
<1>9. Decoded(acc, c) = ((y + Quarter) \div (2 * Quarter)) % 2
  <2>1. Decoded(acc, c) = Bit(f)
    BY DEF Decoded
  <2> HIDE DEF f, y
  <2> QED  BY <1>8, <2>1 DEF Bit
<1>10. round_to_bit(y) = ((y + Quarter) \div (2 * Quarter)) % 2
  <2> HIDE DEF y
  <2>1. CASE y < 2 * Quarter
    BY <1>1, <1>8, <2>1 DEF round_to_bit, Signed
  <2>2. CASE y >= 2 * Quarter
    <3> DEFINE z == y + Quarter
               d == 2 * Quarter
    <3>1. round_to_bit(y) = ((z - 2 * d) \div d) % 2
      <4>1. y - P + Quarter = z - 2 * d
        BY <1>1, <1>8
      <4> QED  BY <1>1, <1>8, <2>2, <4>1 DEF round_to_bit, Signed
    <3>2. z \in Int /\ d \in Nat \ {0}
      BY <1>1, <1>8
    <3> HIDE DEF z, d
    <3>3. PICK t \in Int, low \in 0..d - 1 : t = z \div d /\ z = d * t + low
      BY <3>2, Division
    <3>4. z - 2 * d = d * (t - 2) + low /\ z - 2 * d \in Int /\ t - 2 \in Int
      BY <3>2, <3>3
    <3>5. (z - 2 * d) \div d = t - 2
      BY <3>2, <3>4, DivisionUnique
    <3>6. (t - 2) % 2 = t % 2
      OBVIOUS
    <3> QED  BY <3>1, <3>3, <3>5, <3>6 DEF z, d
  <2> QED  BY <1>1, <1>8, <2>1, <2>2
<1> HIDE DEF y, f
<1> QED  BY <1>9, <1>10 DEF y

----------------------------------------------------------------------------
(* The packers reduce an accumulator modulo P.                             *)

LEMMA StoredModP ==
  ASSUME half \in Halves, NEW x \in Int, NEW bit \in {0, 1}
  PROVE  Stored(x, bit) = Stored(x % P, bit) /\ Stored(x, bit) \in 0..T - 1 /\ x % P \in 0..P - 1
<1>1. P \in Nat \ {0} /\ H1 \in Int
  BY Types
<1>2. PICK n \in Int, y \in 0..P - 1 : y = x % P /\ x = P * n + y
  BY <1>1, Division
<1>3. PICK u \in Int, w \in Int : u = x + H1 /\ w = y + H1
  BY <1>1
<1>4. u = w + P * n
  <2>1. P * n \in Int
    BY <1>1
  <2> QED  BY <1>1, <1>2, <1>3, <2>1
<1>5. u % P = w % P
  BY <1>1, <1>4, SameRemainder
<1>6. y % P = y
  BY <1>1
<1>7. Stored(x, bit) = Stored(y, bit)
  BY <1>3, <1>5 DEF Stored
<1>8. Stored(y, bit) \in 0..T - 1
  BY StoredCode
<1> QED  BY <1>2, <1>7, <1>8

LEMMA DecodedModP ==
  ASSUME half \in Halves, NEW x \in Int, NEW c \in 0..T - 1
  PROVE  Decoded(x, c) = Decoded(x % P, c) /\ Decoded(x, c) \in {0, 1}
<1>1. P \in Nat \ {0} /\ half \in Nat /\ Step[half] \in Nat \ {0} /\ H1 \in Int
  BY Types
<1>2. PICK y \in 0..P - 1 : y = x % P
  BY <1>1, Division
<1>3. y % P = y
  BY <1>1
<1>4. Decoded(x, c) = Decoded(y, c)
  BY <1>2, <1>3 DEF Decoded
<1>5. H2 \in Int
  <2>1. Step[half] \div 2 \in Int
    BY <1>1
  <2> QED  BY <1>1, <2>1 DEF H2
<1>6. c \in Int
  BY <1>1 DEF T
<1>7. (half - 1 - c) * Step[half] \in Int
  BY <1>1, <1>6
<1>8. PICK z \in Int : z = (x % P) - (half - 1 - c) * Step[half] + H2
  BY <1>2, <1>5, <1>7
<1>9. Decoded(x, c) \in {0, 1}
  BY <1>8, BitTypes DEF Decoded
<1> QED  BY <1>2, <1>4, <1>9

----------------------------------------------------------------------------
(* Polynomials.                                                            *)

IntPoly == [0..N - 1 -> Int]
Reduced(f) == [d \in 0..N - 1 |-> f[d] % Q]

\* X times f, before any reduction.
Shift(f) == [d \in 0..N - 1 |-> IF d = 0 THEN -f[N - 1] ELSE f[d - 1]]

LEMMA Moduli == Q \in Nat \ {0} /\ P \in Nat \ {0} /\ P <= Q /\ \A n \in Int : n % Q \in 0..Q - 1
<1>1. Q \in Nat \ {0} /\ P \in Nat \ {0} /\ P <= Q
  <2>1. P \in Nat \ {0} /\ Q \in Nat /\ Q >= 2 * P
    BY CodeAssumption, Types
  <2> HIDE DEF P
  <2> QED  BY <2>1
<1> QED  BY <1>1

LEMMA Reducing ==
  ASSUME NEW n \in Int
  PROVE  SameMod(n % Q, n, Q)
<1>1. n = Q * (n \div Q) + (n % Q) /\ n \div Q \in Int /\ n % Q \in Int
  BY Moduli, Division
<1>2. PICK k \in Int, x \in Int : k = n \div Q /\ x = Q * k
  BY <1>1, Moduli
<1>3. Q * (-k) = -x
  BY <1>2, Moduli
<1>4. n % Q = n + Q * (-k) /\ -k \in Int
  BY <1>1, <1>2, <1>3
<1> QED  BY <1>4 DEF SameMod

LEMMA PolyInt == Poly \subseteq IntPoly
  BY Moduli DEF Poly, IntPoly

LEMMA ReducedType ==
  ASSUME NEW f \in IntPoly
  PROVE  Reduced(f) \in Poly
BY Moduli DEF Reduced, Poly, IntPoly

\* A term of a product is a coefficient of f times this.
Cofactor(g, d, e) == IF e <= d THEN g[d - e] ELSE -(g[N + d - e])

LEMMA TermsAt ==
  ASSUME NEW f \in IntPoly, NEW g \in IntPoly, NEW d \in 0..N - 1
  PROVE  /\ Terms(f, g, d) \in Summands(N)
         /\ \A e \in 0..N - 1 :
              Cofactor(g, d, e) \in Int /\ Terms(f, g, d)[e] = f[e] * Cofactor(g, d, e)
<1>1. ASSUME NEW e \in 0..N - 1
      PROVE  /\ Cofactor(g, d, e) \in Int /\ Terms(f, g, d)[e] \in Int
             /\ Terms(f, g, d)[e] = f[e] * Cofactor(g, d, e)
  <2>0. N \in Nat /\ f[e] \in Int
    BY SizesAssumption DEF IntPoly
  <2>1. CASE e <= d
    <3>1. d - e \in 0..N - 1
      BY <2>0, <2>1
    <3>2. g[d - e] \in Int
      BY <3>1 DEF IntPoly
    <3>3. Terms(f, g, d)[e] = f[e] * g[d - e] /\ Cofactor(g, d, e) = g[d - e]
      BY <2>1 DEF Terms, Cofactor
    <3>4. f[e] * g[d - e] \in Int
      BY <2>0, <3>2
    <3> QED  BY <3>2, <3>3, <3>4
  <2>2. CASE ~(e <= d)
    <3>1. N + d - e \in 0..N - 1
      BY <2>0, <2>2
    <3>2. PICK y \in Int : y = g[N + d - e]
      BY <3>1 DEF IntPoly
    <3>3. Terms(f, g, d)[e] = -(f[e] * y) /\ Cofactor(g, d, e) = -y
      BY <2>2, <3>2 DEF Terms, Cofactor
    <3>4. PICK x \in Int : x = f[e]
      BY <2>0
    <3>5. -(x * y) = x * (-y) /\ -(x * y) \in Int
      OBVIOUS
    <3> QED  BY <3>3, <3>4, <3>5
  <2> QED  BY <2>1, <2>2
<1>2. Terms(f, g, d) = [e \in 0..N - 1 |-> Terms(f, g, d)[e]]
  BY DEF Terms
<1>3. Terms(f, g, d) \in Summands(N)
  BY <1>1, <1>2 DEF Summands
<1> QED  BY <1>1, <1>3

\* The coefficients of a product before they are reduced.
Whole(f, g) == [d \in 0..N - 1 |-> SumTo(Terms(f, g, d), N)]

LEMMA WholeProduct ==
  ASSUME NEW f \in IntPoly, NEW g \in IntPoly
  PROVE  Whole(f, g) \in IntPoly /\ Product(f, g) = Reduced(Whole(f, g)) /\ Product(f, g) \in Poly
<1>0. N \in Nat
  BY SizesAssumption
<1>1. ASSUME NEW d \in 0..N - 1 PROVE SumTo(Terms(f, g, d), N) \in Int
  BY <1>0, TermsAt, SumInt
<1>2. Whole(f, g) \in IntPoly
  BY <1>1 DEF Whole, IntPoly
<1>3. Product(f, g) = Reduced(Whole(f, g))
  BY DEF Product, Whole, Reduced
<1> QED  BY <1>2, <1>3, ReducedType

----------------------------------------------------------------------------
(* X + 2.                                                                  *)

LEMMA ShiftType ==
  ASSUME NEW f \in IntPoly
  PROVE  Shift(f) \in IntPoly
<1>1. ASSUME NEW d \in 0..N - 1
      PROVE  (IF d = 0 THEN -f[N - 1] ELSE f[d - 1]) \in Int
  <2>1. N - 1 \in 0..N - 1 /\ (d # 0 => d - 1 \in 0..N - 1)
    BY SizesAssumption
  <2>2. f[N - 1] \in Int /\ (d # 0 => f[d - 1] \in Int)
    BY <2>1 DEF IntPoly
  <2> QED  BY <2>2
<1> QED  BY <1>1 DEF Shift, IntPoly

\* Reducing first does not matter.
LEMMA XPlus2OfReduced ==
  ASSUME NEW f \in IntPoly
  PROVE  \A d \in 0..N - 1 : poly_mul_x_plus_2(Reduced(f))[d] = (2 * f[d] + Shift(f)[d]) % Q
<1> SUFFICES ASSUME NEW d \in 0..N - 1
             PROVE  poly_mul_x_plus_2(Reduced(f))[d] = (2 * f[d] + Shift(f)[d]) % Q
  OBVIOUS
<1>1. /\ N - 1 \in 0..N - 1 /\ (d # 0 => d - 1 \in 0..N - 1)
  BY SizesAssumption
<1>2. PICK c \in 0..N - 1 : c = IF d = 0 THEN N - 1 ELSE d - 1
  BY <1>1
<1>3. f[d] \in Int /\ f[c] \in Int
  BY DEF IntPoly
<1>4. PICK k \in Int, l \in Int : f[d] % Q = f[d] + Q * k /\ f[c] % Q = f[c] + Q * l
  BY <1>3, Reducing DEF SameMod
<1>5. PICK x \in Int, y \in Int : x = Q * k /\ y = Q * l
  BY Moduli
<1>6. PICK u \in Int, z1 \in Int : u = f[d] % Q /\ z1 = f[c] % Q
  BY <1>3, <1>4, <1>5
<1>7. CASE d = 0
  <2>1. poly_mul_x_plus_2(Reduced(f))[d] = (2 * u + (-z1)) % Q
    BY <1>2, <1>6, <1>7 DEF poly_mul_x_plus_2, Reduced
  <2>2. Shift(f)[d] = (-f[c])
    BY <1>2, <1>7 DEF Shift
  <2>3. Q * (2 * k - l) = 2 * x - y /\ 2 * k - l \in Int
    BY <1>5, Moduli
  <2>4. 2 * u + (-z1) = (2 * f[d] + (-f[c])) + Q * (2 * k - l)
    BY <1>3, <1>4, <1>5, <1>6, <2>3
  <2>5. 2 * u + (-z1) \in Int /\ 2 * f[d] + (-f[c]) \in Int
    BY <1>3
  <2>6. PICK n1 \in Int, n2 \in Int, z \in Int : n1 = 2 * u + (-z1) /\ n2 = 2 * f[d] + (-f[c]) /\ z = 2 * k - l
    BY <2>3, <2>5
  <2>7. n1 = n2 + Q * z
    BY <2>4, <2>6
  <2>8. n1 % Q = n2 % Q
    BY <2>7, Moduli, SameRemainder
  <2> QED  BY <2>1, <2>2, <2>6, <2>8
<1>8. CASE d # 0
  <2>1. poly_mul_x_plus_2(Reduced(f))[d] = (2 * u + z1) % Q
    BY <1>2, <1>6, <1>8 DEF poly_mul_x_plus_2, Reduced
  <2>2. Shift(f)[d] = f[c]
    BY <1>2, <1>8 DEF Shift
  <2>3. Q * (2 * k + l) = 2 * x + y /\ 2 * k + l \in Int
    BY <1>5, Moduli
  <2>4. 2 * u + z1 = (2 * f[d] + f[c]) + Q * (2 * k + l)
    BY <1>3, <1>4, <1>5, <1>6, <2>3
  <2>5. 2 * u + z1 \in Int /\ 2 * f[d] + f[c] \in Int
    BY <1>3
  <2>6. PICK n1 \in Int, n2 \in Int, z \in Int : n1 = 2 * u + z1 /\ n2 = 2 * f[d] + f[c] /\ z = 2 * k + l
    BY <2>3, <2>5
  <2>7. n1 = n2 + Q * z
    BY <2>4, <2>6
  <2>8. n1 % Q = n2 % Q
    BY <2>7, Moduli, SameRemainder
  <2> QED  BY <2>1, <2>2, <2>6, <2>8
<1> QED  BY <1>7, <1>8

LEMMA XPlus2Type ==
  ASSUME NEW f \in IntPoly
  PROVE  poly_mul_x_plus_2(f) \in Poly
<1>1. ASSUME NEW d \in 0..N - 1
      PROVE  (2 * f[d] + (IF d = 0 THEN -f[N - 1] ELSE f[d - 1])) % Q \in 0..Q - 1
  <2>1. f[d] \in Int /\ Shift(f)[d] \in Int
    BY ShiftType DEF IntPoly
  <2>2. Shift(f)[d] = IF d = 0 THEN -f[N - 1] ELSE f[d - 1]
    BY DEF Shift
  <2>3. 2 * f[d] + Shift(f)[d] \in Int
    BY <2>1
  <2> QED  BY <2>2, <2>3, Moduli
<1> QED  BY <1>1 DEF poly_mul_x_plus_2, Poly

\* Shifting a factor shifts the product: the terms are rotated, and the one that
\* wraps changes its sign.
LEMMA ShiftedProduct ==
  ASSUME NEW f \in IntPoly, NEW g \in IntPoly
  PROVE  \A d \in 0..N - 1 : Whole(Shift(f), g)[d] = Shift(Whole(f, g))[d]
<1> SUFFICES ASSUME NEW d \in 0..N - 1
             PROVE  Whole(Shift(f), g)[d] = Shift(Whole(f, g))[d]
  OBVIOUS
<1> DEFINE h == Terms(Shift(f), g, d)
<1>0. N \in Nat \ {0} /\ N - 1 \in 0..N - 1
  BY SizesAssumption
<1>1. Shift(f) \in IntPoly /\ \A e \in 0..N - 1 : f[e] \in Int /\ g[e] \in Int
  BY ShiftType DEF IntPoly
<1>2. h \in Summands(N) /\ \A e \in 0..N - 1 : h[e] = Shift(f)[e] * Cofactor(g, d, e)
  BY <1>1, TermsAt
<1>3. \A e \in 0..N - 1 : Shift(f)[e] = IF e = 0 THEN -f[N - 1] ELSE f[e - 1]
  BY DEF Shift
<1>4. Whole(Shift(f), g)[d] = SumTo(h, N)
  BY DEF Whole
<1> HIDE DEF h
<1>5. CASE d = 0
  <2> DEFINE t == Terms(f, g, N - 1)
             n == [e \in 0..N - 1 |-> (-1) * t[e]]
  <2>1. /\ t \in Summands(N)
        /\ \A e \in 0..N - 1 :
             Cofactor(g, N - 1, e) \in Int /\ t[e] = f[e] * Cofactor(g, N - 1, e)
    BY <1>0, TermsAt
  <2> HIDE DEF t
  <2>2. n \in Summands(N) /\ \A e \in 0..N - 1 : n[e] = (-1) * t[e]
    BY <2>1 DEF Summands
  <2> HIDE DEF n
  <2>3. SumTo(n, N) = (-1) * SumTo(t, N)
    BY <1>0, <2>1, <2>2, SumScale
  <2>4. h[0] = n[N - 1]
    <3>1. Cofactor(g, d, 0) = g[0] /\ Cofactor(g, N - 1, N - 1) = g[0]
      BY <1>0, <1>5 DEF Cofactor
    <3>2. h[0] = (-f[N - 1]) * g[0] /\ n[N - 1] = (-1) * (f[N - 1] * g[0])
      BY <1>0, <1>2, <1>3, <2>1, <2>2, <3>1
    <3>3. PICK x \in Int, y \in Int : x = f[N - 1] /\ y = g[0]
      BY <1>0, <1>1
    <3>4. (-x) * y = (-1) * (x * y)
      OBVIOUS
    <3> QED  BY <3>2, <3>3, <3>4
  <2>5. ASSUME NEW e \in 1..N - 1 PROVE h[e] = n[e - 1]
    <3>0. e \in 0..N - 1 /\ e - 1 \in 0..N - 1 /\ N - e \in 0..N - 1 /\ e # 0 /\ ~(e <= d) /\ e - 1 <= N - 1
      BY <1>0, <1>5
    <3>1. Cofactor(g, d, e) = -g[N - e] /\ Cofactor(g, N - 1, e - 1) = g[N - e]
      <4>1. N + d - e = N - e /\ (N - 1) - (e - 1) = N - e
        BY <1>0, <1>5
      <4> QED  BY <3>0, <4>1 DEF Cofactor
    <3>2. h[e] = f[e - 1] * (-g[N - e]) /\ n[e - 1] = (-1) * (f[e - 1] * g[N - e])
      BY <1>2, <1>3, <2>1, <2>2, <3>0, <3>1
    <3>3. PICK x \in Int, y \in Int : x = f[e - 1] /\ y = g[N - e]
      BY <1>1, <3>0
    <3>4. x * (-y) = (-1) * (x * y)
      OBVIOUS
    <3> QED  BY <3>2, <3>3, <3>4
  <2>6. SumTo(h, N) = SumTo(n, N)
    BY <1>0, <1>2, <2>2, <2>4, <2>5, SumRotated
  <2>7. Shift(Whole(f, g))[d] = -SumTo(t, N)
    BY <1>0, <1>5 DEF Shift, Whole, t
  <2>8. SumTo(t, N) \in Int
    BY <1>0, <2>1, SumInt
  <2> QED  BY <1>4, <2>3, <2>6, <2>7, <2>8
<1>6. CASE d # 0
  <2> DEFINE t == Terms(f, g, d - 1)
  <2>0. d - 1 \in 0..N - 1
    BY <1>0, <1>6
  <2>1. /\ t \in Summands(N)
        /\ \A e \in 0..N - 1 :
             Cofactor(g, d - 1, e) \in Int /\ t[e] = f[e] * Cofactor(g, d - 1, e)
    BY <2>0, TermsAt
  <2> HIDE DEF t
  <2>2. h[0] = t[N - 1]
    <3>1. Cofactor(g, d, 0) = g[d] /\ Cofactor(g, d - 1, N - 1) = -g[d]
      <4>1. ~(N - 1 <= d - 1) /\ N + (d - 1) - (N - 1) = d /\ 0 <= d /\ d - 0 = d
        BY <1>0, <1>6
      <4> QED  BY <4>1 DEF Cofactor
    <3>2. h[0] = (-f[N - 1]) * g[d] /\ t[N - 1] = f[N - 1] * (-g[d])
      BY <1>0, <1>2, <1>3, <2>1, <3>1
    <3>3. PICK x \in Int, y \in Int : x = f[N - 1] /\ y = g[d]
      BY <1>0, <1>1
    <3>4. (-x) * y = x * (-y)
      OBVIOUS
    <3> QED  BY <3>2, <3>3, <3>4
  <2>3. ASSUME NEW e \in 1..N - 1 PROVE h[e] = t[e - 1]
    <3>0. e \in 0..N - 1 /\ e - 1 \in 0..N - 1 /\ e # 0
      BY <1>0
    <3>1. Cofactor(g, d, e) = Cofactor(g, d - 1, e - 1)
      <4>1. /\ e <= d <=> e - 1 <= d - 1
            /\ (d - 1) - (e - 1) = d - e /\ N + (d - 1) - (e - 1) = N + d - e
        BY <1>0
      <4> QED  BY <4>1 DEF Cofactor
    <3> QED  BY <1>2, <1>3, <2>1, <3>0, <3>1
  <2>4. SumTo(h, N) = SumTo(t, N)
    BY <1>0, <1>2, <2>1, <2>2, <2>3, SumRotated
  <2>5. Shift(Whole(f, g))[d] = SumTo(t, N)
    BY <2>0, <1>6 DEF Shift, Whole, t
  <2> QED  BY <1>4, <2>4, <2>5
<1> QED  BY <1>5, <1>6

\* Multiplying a factor by X + 2 multiplies the product.
LEMMA ProductOfXPlus2 ==
  ASSUME NEW f \in Poly, NEW g \in Poly
  PROVE  \A d \in 0..N - 1 :
           Product(poly_mul_x_plus_2(f), g)[d] = poly_mul_x_plus_2(Product(f, g))[d]
<1> SUFFICES ASSUME NEW d \in 0..N - 1
             PROVE  Product(poly_mul_x_plus_2(f), g)[d] = poly_mul_x_plus_2(Product(f, g))[d]
  OBVIOUS
<1> DEFINE x2 == poly_mul_x_plus_2(f)
           A == Terms(f, g, d)
           B == Terms(Shift(f), g, d)
           C == Terms(x2, g, d)
           D == [e \in 0..N - 1 |-> 2 * A[e]]
           E == [e \in 0..N - 1 |-> D[e] + B[e]]
<1>0. f \in IntPoly /\ g \in IntPoly /\ x2 \in IntPoly /\ Shift(f) \in IntPoly /\ N \in Nat
  BY PolyInt, XPlus2Type, ShiftType, SizesAssumption
<1>1. ASSUME NEW e \in 0..N - 1 PROVE x2[e] = (2 * f[e] + Shift(f)[e]) % Q
  BY DEF poly_mul_x_plus_2, Shift
<1> HIDE DEF x2
<1>2. /\ A \in Summands(N) /\ B \in Summands(N) /\ C \in Summands(N)
      /\ \A e \in 0..N - 1 : /\ Cofactor(g, d, e) \in Int
                             /\ A[e] = f[e] * Cofactor(g, d, e)
                             /\ B[e] = Shift(f)[e] * Cofactor(g, d, e)
                             /\ C[e] = x2[e] * Cofactor(g, d, e)
  BY <1>0, TermsAt
<1>3. SumTo(A, N) = Whole(f, g)[d] /\ SumTo(B, N) = Shift(Whole(f, g))[d]
  <2>1. SumTo(A, N) = Whole(f, g)[d] /\ SumTo(B, N) = Whole(Shift(f), g)[d]
    BY DEF Whole
  <2> QED  BY <1>0, <2>1, ShiftedProduct
<1>4. Product(x2, g)[d] = SumTo(C, N) % Q
  BY DEF Product
<1> HIDE DEF A, B, C
<1>5. D \in Summands(N) /\ \A e \in 0..N - 1 : D[e] = 2 * A[e]
  BY <1>2 DEF Summands
<1> HIDE DEF D
<1>6. E \in Summands(N) /\ \A e \in 0..N - 1 : E[e] = D[e] + B[e]
  BY <1>2, <1>5 DEF Summands
<1> HIDE DEF E
<1>7. SumTo(E, N) = 2 * SumTo(A, N) + SumTo(B, N)
  <2>1. SumTo(D, N) = 2 * SumTo(A, N)
    BY <1>0, <1>2, <1>5, SumScale
  <2>2. SumTo(E, N) = SumTo(D, N) + SumTo(B, N)
    BY <1>0, <1>2, <1>5, <1>6, SumPlus
  <2> QED  BY <2>1, <2>2
<1>8. ASSUME NEW e \in 0..N - 1 PROVE SameMod(C[e], E[e], Q)
  <2>1. PICK u \in Int, z1 \in Int, c \in Int : u = f[e] /\ z1 = Shift(f)[e] /\ c = Cofactor(g, d, e)
    BY <1>0, <1>2 DEF IntPoly
  <2>2. PICK w \in Int, k \in Int : w = x2[e] /\ w = (2 * u + z1) + Q * k
    <3>1. PICK n \in Int : n = 2 * u + z1
      OBVIOUS
    <3>2. PICK k \in Int : n % Q = n + Q * k
      BY Reducing DEF SameMod
    <3>3. x2[e] = n + Q * k
      BY <1>1, <2>1, <3>1, <3>2
    <3>4. n + Q * k \in Int
      BY Moduli
    <3> QED  BY <3>1, <3>3, <3>4
  <2>3. C[e] = w * c /\ E[e] = 2 * (u * c) + z1 * c
    BY <1>2, <1>5, <1>6, <2>1, <2>2
  <2>4. w * c = (2 * (u * c) + z1 * c) + Q * (k * c)
    <3>1. w * c = ((2 * u + z1) + Q * k) * c
      BY <2>2
    <3>2. PICK q \in Int, x \in Int : q = Q /\ x = q * k
      BY Moduli
    <3>3. ((2 * u + z1) + x) * c = (2 * (u * c) + z1 * c) + x * c
      OBVIOUS
    <3>4. x * c = q * (k * c)
      BY <3>2
    <3> QED  BY <3>1, <3>2, <3>3, <3>4
  <2>5. k * c \in Int
    OBVIOUS
  <2> QED  BY <2>3, <2>4, <2>5 DEF SameMod
<1>9. SumTo(C, N) % Q = SumTo(E, N) % Q
  <2>1. SameMod(SumTo(C, N), SumTo(E, N), Q)
    BY <1>0, <1>2, <1>6, <1>8, Moduli, SumSameMod
  <2>2. SumTo(C, N) \in Int /\ SumTo(E, N) \in Int
    BY <1>0, <1>2, <1>6, SumInt
  <2> QED  BY <2>1, <2>2, Moduli, SameModRemainder
<1>10. poly_mul_x_plus_2(Product(f, g))[d] = (2 * Whole(f, g)[d] + Shift(Whole(f, g))[d]) % Q
  <2>1. Whole(f, g) \in IntPoly /\ Product(f, g) = Reduced(Whole(f, g))
    BY <1>0, WholeProduct
  <2> QED  BY <2>1, XPlus2OfReduced
<1> QED  BY <1>3, <1>4, <1>7, <1>9, <1>10 DEF x2

\* The polynomial X + 2 as a factor.
LEMMA ProductWithXPlus2 ==
  ASSUME NEW g \in Poly
  PROVE  \A d \in 0..N - 1 : Product(XPlus2, g)[d] = poly_mul_x_plus_2(g)[d]
<1> SUFFICES ASSUME NEW d \in 0..N - 1 PROVE Product(XPlus2, g)[d] = poly_mul_x_plus_2(g)[d]
  OBVIOUS
<1> DEFINE t == Terms(XPlus2, g, d)
<1>0. N \in Nat \ {0, 1} /\ g \in IntPoly /\ XPlus2 \in IntPoly
  BY SizesAssumption, PolyInt DEF XPlus2, IntPoly
<1>1. /\ t \in Summands(N)
      /\ \A e \in 0..N - 1 : Cofactor(g, d, e) \in Int /\ t[e] = XPlus2[e] * Cofactor(g, d, e)
  BY <1>0, TermsAt
<1>2. Product(XPlus2, g)[d] = SumTo(t, N) % Q
  BY DEF Product
<1> HIDE DEF t
<1>3. 0 \in 0..N - 1 /\ 1 \in 0..N - 1 /\ N - 1 \in 0..N - 1 /\ (d # 0 => d - 1 \in 0..N - 1)
  BY <1>0
<1>4. XPlus2[0] = 2 /\ XPlus2[1] = 1 /\ \A e \in 2..N - 1 : e \in 0..N - 1 /\ XPlus2[e] = 0
  BY <1>0, <1>3 DEF XPlus2
<1>5. t[0] = 2 * g[d]
  <2>1. Cofactor(g, d, 0) = g[d]
    BY <1>0 DEF Cofactor
  <2> QED  BY <1>1, <1>3, <1>4, <2>1
<1>6. t[1] = IF d = 0 THEN -g[N - 1] ELSE g[d - 1]
  <2>1. Cofactor(g, d, 1) = IF d = 0 THEN -g[N - 1] ELSE g[d - 1]
    <3>1. CASE d = 0
      BY <1>0, <3>1 DEF Cofactor
    <3>2. CASE d # 0
      BY <1>0, <3>2 DEF Cofactor
    <3> QED  BY <3>1, <3>2
  <2>2. PICK c \in Int : c = Cofactor(g, d, 1)
    BY <1>1, <1>3
  <2>3. t[1] = 1 * c /\ 1 * c = c
    BY <1>1, <1>3, <1>4, <2>2
  <2> QED  BY <2>1, <2>2, <2>3
<1>7. \A e \in 2..N - 1 : t[e] = 0
  <2>1. ASSUME NEW e \in 2..N - 1 PROVE t[e] = 0
    <3>1. PICK c \in Int : c = Cofactor(g, d, e) /\ t[e] = 0 * c
      BY <1>1, <1>4
    <3> QED  BY <3>1
  <2> QED  BY <2>1
<1>8. SumTo(t, N) = t[0] + t[1]
  BY <1>0, <1>1, <1>7, SumOfTwo
<1> QED  BY <1>2, <1>5, <1>6, <1>8 DEF poly_mul_x_plus_2

----------------------------------------------------------------------------
(* Rows.                                                                   *)

\* What row j of y adds to row k of the product, in coefficient d.
RowTerms(x, y, k, d) ==
  [j \in 0..K - 1 |-> IF k - j \in 0..K - 1 THEN Product(x[k - j], y[j])[d] ELSE 0]

\* Row k before it is reduced.
WholeRow(x, y, k) == [d \in 0..N - 1 |-> SumTo(RowTerms(x, y, k, d), K)]

LEMMA RowTypes ==
  ASSUME NEW x \in Ring, NEW y \in Ring, NEW k \in Int
  PROVE  /\ \A d \in 0..N - 1 : RowTerms(x, y, k, d) \in Summands(K)
         /\ WholeRow(x, y, k) \in IntPoly /\ RowOf(x, y, k) = Reduced(WholeRow(x, y, k))
         /\ RowOf(x, y, k) \in Poly
<1>0. K \in Nat
  BY SizesAssumption
<1>1. ASSUME NEW d \in 0..N - 1 PROVE RowTerms(x, y, k, d) \in Summands(K)
  <2>1. ASSUME NEW j \in 0..K - 1
        PROVE  (IF k - j \in 0..K - 1 THEN Product(x[k - j], y[j])[d] ELSE 0) \in Int
    <3>1. CASE k - j \in 0..K - 1
      <4>1. x[k - j] \in IntPoly /\ y[j] \in IntPoly
        BY <3>1, PolyInt DEF Ring
      <4>2. Product(x[k - j], y[j]) \in IntPoly
        BY <4>1, WholeProduct, PolyInt
      <4> QED  BY <3>1, <4>2 DEF IntPoly
    <3>2. CASE ~(k - j \in 0..K - 1)
      BY <3>2
    <3> QED  BY <3>1, <3>2
  <2> QED  BY <2>1 DEF RowTerms, Summands
<1>2. ASSUME NEW d \in 0..N - 1 PROVE SumTo(RowTerms(x, y, k, d), K) \in Int
  BY <1>0, <1>1, SumInt
<1>3. WholeRow(x, y, k) \in IntPoly
  BY <1>2 DEF WholeRow, IntPoly
<1>4. RowOf(x, y, k) = Reduced(WholeRow(x, y, k))
  BY DEF RowOf, RowTerms, WholeRow, Reduced
<1> QED  BY <1>1, <1>3, <1>4, ReducedType

LEMMA RingProductType ==
  ASSUME NEW x \in Ring, NEW y \in Ring
  PROVE  RingProduct(x, y) \in Ring
<1>1. ASSUME NEW k \in 0..K - 1, NEW d \in 0..N - 1
      PROVE  (RowOf(x, y, k)[d] + Product(XPlus2, RowOf(x, y, k + K))[d]) % Q \in 0..Q - 1
  <2>1. RowOf(x, y, k) \in IntPoly /\ RowOf(x, y, k + K) \in IntPoly /\ XPlus2 \in IntPoly
    <3>1. k \in Int /\ k + K \in Int
      BY SizesAssumption
    <3>2. XPlus2 \in IntPoly
      BY DEF XPlus2, IntPoly
    <3>3. RowOf(x, y, k) \in Poly /\ RowOf(x, y, k + K) \in Poly
      BY <3>1, RowTypes
    <3> QED  BY <3>2, <3>3, PolyInt
  <2>2. Product(XPlus2, RowOf(x, y, k + K)) \in IntPoly
    BY <2>1, WholeProduct, PolyInt
  <2>3. PICK u \in Int, z1 \in Int : u = RowOf(x, y, k)[d] /\ z1 = Product(XPlus2, RowOf(x, y, k + K))[d]
    BY <2>1, <2>2 DEF IntPoly
  <2> QED  BY <2>3, Moduli
<1> QED  BY <1>1 DEF RingProduct, Ring, Poly

LEMMA AwinType ==
  ASSUME NEW x \in Ring
  PROVE  Awin(x) \in [0..2 * K - 2 -> Poly]
<1>1. ASSUME NEW w \in 0..2 * K - 2
      PROVE  (IF w < K THEN x[K - 1 - w] ELSE poly_mul_x_plus_2(x[2 * K - 1 - w])) \in Poly
  <2>1. CASE w < K
    <3>1. K - 1 - w \in 0..K - 1
      BY <2>1, SizesAssumption
    <3> QED  BY <2>1, <3>1 DEF Ring
  <2>2. CASE ~(w < K)
    <3>1. 2 * K - 1 - w \in 0..K - 1
      BY <2>2, SizesAssumption
    <3>2. x[2 * K - 1 - w] \in IntPoly
      BY <3>1, PolyInt DEF Ring
    <3> QED  BY <2>2, <3>2, XPlus2Type
  <2> QED  BY <2>1, <2>2
<1> QED  BY <1>1 DEF Awin

\* A row of the product in R_q by the window of its first factor.
LEMMA RowOfProduct ==
  ASSUME NEW x \in Ring, NEW y \in Ring, NEW row \in 0..K - 1, NEW d \in 0..N - 1
  PROVE  RingProduct(x, y)[row][d]
           = SumTo([j \in 0..K - 1 |-> Product(Awin(x)[K - 1 - row + j], y[j])[d]], K) % Q
<1>0. K \in Nat \ {0} /\ row \in Int /\ row + K \in Int
  BY SizesAssumption
<1> DEFINE c == IF d = 0 THEN N - 1 ELSE d - 1
           A == [j \in 0..K - 1 |-> Product(Awin(x)[K - 1 - row + j], y[j])[d]]
           L == RowTerms(x, y, row, d)
           H == RowTerms(x, y, row + K, d)
           G == RowTerms(x, y, row + K, c)
           sign == IF d = 0 THEN -1 ELSE 1
           HH == [j \in 0..K - 1 |-> 2 * H[j]]
           GG == [j \in 0..K - 1 |-> sign * G[j]]
           M == [j \in 0..K - 1 |-> L[j] + HH[j]]
           S == [j \in 0..K - 1 |-> M[j] + GG[j]]
<1>1. c \in 0..N - 1 /\ sign \in Int
  BY SizesAssumption
<1>2. L \in Summands(K) /\ H \in Summands(K) /\ G \in Summands(K)
  <2> HIDE DEF c
  <2> QED  BY <1>0, <1>1, RowTypes
<1>3. ASSUME NEW j \in 0..K - 1
      PROVE  /\ A[j] \in Int
             /\ j <= row => A[j] = L[j] /\ H[j] = 0 /\ G[j] = 0
             /\ j > row => A[j] = (2 * H[j] + sign * G[j]) % Q /\ L[j] = 0
  <2>1. CASE j <= row
    <3>1. K - 1 - row + j \in 0..2 * K - 2 /\ K - 1 - row + j < K /\ K - 1 - (K - 1 - row + j) = row - j
      BY <1>0, <2>1
    <3>2. Awin(x)[K - 1 - row + j] = x[row - j]
      BY <3>1 DEF Awin
    <3>3. row - j \in 0..K - 1 /\ ~(row + K - j \in 0..K - 1)
      BY <1>0, <2>1
    <3>4. L[j] = Product(x[row - j], y[j])[d] /\ H[j] = 0 /\ G[j] = 0
      <4> HIDE DEF c
      <4>1. PICK k \in Int : k = row + K
        BY <1>0
      <4>2. ~(k - j \in 0..K - 1)
        BY <1>0, <3>3, <4>1
      <4>3. RowTerms(x, y, k, d)[j] = 0 /\ RowTerms(x, y, k, c)[j] = 0
        BY <4>2 DEF RowTerms
      <4>4. L[j] = Product(x[row - j], y[j])[d]
        BY <3>3 DEF RowTerms
      <4> QED  BY <4>1, <4>3, <4>4
    <3>5. L[j] \in Int
      BY <1>2 DEF Summands
    <3> QED  BY <2>1, <3>2, <3>4, <3>5
  <2>2. CASE j > row
    <3>1. /\ K - 1 - row + j \in 0..2 * K - 2 /\ ~(K - 1 - row + j < K)
          /\ 2 * K - 1 - (K - 1 - row + j) = row + K - j
      BY <1>0, <2>2
    <3>2. Awin(x)[K - 1 - row + j] = poly_mul_x_plus_2(x[row + K - j])
      BY <3>1 DEF Awin
    <3>3. row + K - j \in 0..K - 1 /\ ~(row - j \in 0..K - 1)
      BY <1>0, <2>2
    <3> DEFINE f == x[row + K - j]
    <3>4. f \in Poly /\ y[j] \in Poly /\ f \in IntPoly /\ y[j] \in IntPoly
      BY <3>3, PolyInt DEF Ring
    <3>5. /\ L[j] = 0 /\ H[j] = Product(f, y[j])[d] /\ G[j] = Product(f, y[j])[c]
      <4> HIDE DEF c
      <4>1. PICK k \in Int : k = row + K
        BY <1>0
      <4>2. k - j \in 0..K - 1 /\ x[k - j] = f
        BY <1>0, <3>3, <4>1
      <4>3. RowTerms(x, y, k, d)[j] = Product(f, y[j])[d] /\ RowTerms(x, y, k, c)[j] = Product(f, y[j])[c]
        <5> HIDE DEF f
        <5> QED  BY <4>2 DEF RowTerms
      <4>4. L[j] = 0
        BY <3>3 DEF RowTerms
      <4> QED  BY <4>1, <4>3, <4>4
    <3> DEFINE p == Product(f, y[j])
    <3> HIDE DEF f
    <3>6. A[j] = poly_mul_x_plus_2(p)[d]
      BY <3>2, <3>4, ProductOfXPlus2 DEF f
    <3>7. p \in Poly /\ p \in IntPoly
      BY <3>4, WholeProduct, PolyInt
    <3> HIDE DEF p
    <3>8. poly_mul_x_plus_2(p)[d] = (2 * p[d] + sign * p[c]) % Q
      <4>0. p[d] \in Int /\ p[c] \in Int
        <5> HIDE DEF c
        <5> QED  BY <1>1, <3>7 DEF IntPoly
      <4>1. CASE d = 0
        <5>1. sign * p[c] = -p[N - 1]
          BY <4>0, <4>1
        <5> QED  BY <4>1, <5>1 DEF poly_mul_x_plus_2
      <4>2. CASE d # 0
        <5>1. sign * p[c] = p[d - 1]
          BY <4>0, <4>2
        <5> QED  BY <4>2, <5>1 DEF poly_mul_x_plus_2
      <4> QED  BY <4>1, <4>2
    <3>9. A[j] = (2 * H[j] + sign * G[j]) % Q
      <4> HIDE DEF c, sign, A, H, G
      <4> QED  BY <3>5, <3>6, <3>8 DEF p
    <3>10. A[j] \in Int
      BY <3>6, <3>7, XPlus2Type, PolyInt DEF IntPoly
    <3> QED  BY <2>2, <3>5, <3>9, <3>10
  <2>3. j <= row \/ j > row
    BY <1>0
  <2> QED  BY <2>1, <2>2, <2>3, <1>0
<1>4. A \in Summands(K)
  <2>1. A = [j \in 0..K - 1 |-> A[j]]
    OBVIOUS
  <2> HIDE DEF A
  <2> QED  BY <1>3, <2>1 DEF Summands
<1>6. RingProduct(x, y)[row][d] = (RowOf(x, y, row)[d] + Product(XPlus2, RowOf(x, y, row + K))[d]) % Q
  BY DEF RingProduct
<1>7. SumTo(L, K) = WholeRow(x, y, row)[d] /\ SumTo(H, K) = WholeRow(x, y, row + K)[d]
      /\ SumTo(G, K) = WholeRow(x, y, row + K)[c]
  <2> HIDE DEF c
  <2> QED  BY <1>1 DEF WholeRow
<1>8. SumTo(A, K) \in Int /\ SumTo(L, K) \in Int /\ SumTo(H, K) \in Int /\ SumTo(G, K) \in Int
  <2> HIDE DEF A, L, H, G
  <2> QED  BY <1>0, <1>2, <1>4, SumInt
<1>5. SumTo([j \in 0..K - 1 |-> Product(Awin(x)[K - 1 - row + j], y[j])[d]], K) = SumTo(A, K)
  OBVIOUS
<1> HIDE DEF A, L, H, G
<1>9. SumTo(A, K) % Q = (SumTo(L, K) + 2 * SumTo(H, K) + sign * SumTo(G, K)) % Q
  <2>0. \A j \in 0..K - 1 : L[j] \in Int /\ H[j] \in Int /\ G[j] \in Int
    BY <1>2 DEF Summands
  <2> HIDE DEF sign
  <2>1. HH \in Summands(K) /\ \A j \in 0..K - 1 : HH[j] = 2 * H[j]
    BY <2>0 DEF Summands
  <2>2. GG \in Summands(K) /\ \A j \in 0..K - 1 : GG[j] = sign * G[j]
    BY <1>1, <2>0 DEF Summands
  <2> HIDE DEF HH, GG
  <2>3. M \in Summands(K) /\ \A j \in 0..K - 1 : M[j] = L[j] + HH[j]
    BY <2>0, <2>1 DEF Summands
  <2> HIDE DEF M
  <2>4. S \in Summands(K) /\ \A j \in 0..K - 1 : S[j] = M[j] + GG[j]
    BY <2>2, <2>3 DEF Summands
  <2> HIDE DEF S
  <2>5. /\ SumTo(HH, K) = 2 * SumTo(H, K) /\ SumTo(GG, K) = sign * SumTo(G, K)
    BY <1>0, <1>1, <1>2, <2>1, <2>2, SumScale
  <2>6. SumTo(M, K) = SumTo(L, K) + SumTo(HH, K)
    BY <1>0, <1>2, <2>1, <2>3, SumPlus
  <2>7. SumTo(S, K) = SumTo(M, K) + SumTo(GG, K)
    BY <1>0, <2>2, <2>3, <2>4, SumPlus
  <2>8. ASSUME NEW j \in 0..K - 1 PROVE SameMod(A[j], S[j], Q)
    <3>1. PICK h \in Int, g \in Int : h = H[j] /\ g = sign * G[j]
      BY <1>1, <2>0
    <3>2. S[j] = L[j] + 2 * h + g
      BY <2>1, <2>2, <2>3, <2>4, <3>1
    <3>3. CASE j <= row
      <4>1. g = 0 /\ h = 0
        BY <1>1, <1>3, <3>1, <3>3
      <4>2. A[j] = S[j] + Q * 0
        BY <1>3, <2>0, <3>2, <3>3, <4>1, Moduli
      <4> QED  BY <4>2 DEF SameMod
    <3>4. CASE j > row
      <4>1. PICK n \in Int : n = 2 * h + g /\ S[j] = n /\ A[j] = n % Q
        BY <1>3, <3>1, <3>2, <3>4
      <4> QED  BY <4>1, Reducing
    <3> QED  BY <1>0, <3>3, <3>4
  <2>9. SameMod(SumTo(A, K), SumTo(S, K), Q)
    BY <1>0, <1>4, <2>4, <2>8, Moduli, SumSameMod
  <2>10. SumTo(S, K) \in Int
    BY <1>0, <2>4, SumInt
  <2>11. SumTo(A, K) % Q = SumTo(S, K) % Q
    BY <1>8, <2>9, <2>10, Moduli, SameModRemainder
  <2> QED  BY <2>5, <2>6, <2>7, <2>11
<1>10. RowOf(x, y, row)[d] = SumTo(L, K) % Q
  <2>1. RowOf(x, y, row) = Reduced(WholeRow(x, y, row))
    BY <1>0, RowTypes
  <2>2. Reduced(WholeRow(x, y, row))[d] = WholeRow(x, y, row)[d] % Q
    BY DEF Reduced
  <2> QED  BY <1>7, <2>1, <2>2
<1>11. Product(XPlus2, RowOf(x, y, row + K))[d] = (2 * SumTo(H, K) + sign * SumTo(G, K)) % Q
  <2> DEFINE r0 == WholeRow(x, y, row + K)
  <2>1. r0 \in IntPoly /\ RowOf(x, y, row + K) = Reduced(r0) /\ Reduced(r0) \in Poly
    BY <1>0, RowTypes
  <2> HIDE DEF r0
  <2>2. Product(XPlus2, Reduced(r0))[d] = (2 * r0[d] + Shift(r0)[d]) % Q
    BY <2>1, ProductWithXPlus2, XPlus2OfReduced
  <2>3. Shift(r0)[d] = sign * r0[c]
    <3>1. r0[c] \in Int
      <4> HIDE DEF c
      <4> QED  BY <1>1, <2>1 DEF IntPoly
    <3>2. CASE d = 0
      BY <3>1, <3>2 DEF Shift
    <3>3. CASE d # 0
      BY <3>1, <3>3 DEF Shift
    <3> QED  BY <3>2, <3>3
  <2> HIDE DEF c, sign
  <2> QED  BY <1>7, <2>1, <2>2, <2>3 DEF r0
<1>12. PICK a1 \in Int, b1 \in Int : a1 = SumTo(L, K) /\ b1 = 2 * SumTo(H, K) + sign * SumTo(G, K)
  <2> HIDE DEF sign
  <2>1. 2 * SumTo(H, K) + sign * SumTo(G, K) \in Int
    BY <1>1, <1>8
  <2> QED  BY <1>8, <2>1
<1>13. ((a1 % Q) + (b1 % Q)) % Q = (a1 + b1) % Q
  <2>1. PICK k \in Int, l \in Int : a1 % Q = a1 + Q * k /\ b1 % Q = b1 + Q * l
    BY Reducing DEF SameMod
  <2>2. PICK u \in Int, z1 \in Int, n \in Int : u = Q * k /\ z1 = Q * l /\ n = k + l
    BY Moduli
  <2>3. Q * n = u + z1
    BY <2>2, Moduli
  <2>4. PICK s1 \in Int, s2 \in Int : s1 = (a1 % Q) + (b1 % Q) /\ s2 = a1 + b1
    BY <2>1, <2>2
  <2>5. s1 = s2 + Q * n
    BY <2>1, <2>2, <2>3, <2>4
  <2>6. s1 % Q = s2 % Q
    BY <2>5, Moduli, SameRemainder
  <2> QED  BY <2>4, <2>6
<1>14. SumTo(L, K) + 2 * SumTo(H, K) + sign * SumTo(G, K) = a1 + b1
  <2> HIDE DEF sign
  <2>1. PICK u \in Int, z1 \in Int : u = SumTo(H, K) /\ z1 = sign * SumTo(G, K)
    BY <1>1, <1>8
  <2> QED  BY <1>8, <1>12, <2>1
<1> HIDE DEF sign
<1> QED  BY <1>5, <1>6, <1>9, <1>10, <1>11, <1>12, <1>13, <1>14

\* A row of the running product is the row of the product in R_q.
LEMMA RowOfWindow ==
  ASSUME NEW x \in Ring, NEW y \in Ring, aw = Awin(x), i \in 0..K - 1
  PROVE  Acc(y) = RingProduct(x, y)[i]
<1>1. \A d \in 0..N - 1 : RingProduct(x, y)[i][d] = Acc(y)[d]
  BY RowOfProduct DEF Acc
<1>2. RingProduct(x, y)[i] = [d \in 0..N - 1 |->
        (RowOf(x, y, i)[d] + Product(XPlus2, RowOf(x, y, i + K))[d]) % Q]
  BY DEF RingProduct
<1> QED  BY <1>1, <1>2 DEF Acc

----------------------------------------------------------------------------
(* The inductive invariant.                                                *)

\* The element whose window is in use, and the last row that is asked for.
Operand == CASE pc = "encrypt_v" -> b [] pc = "decrypt" -> bp [] OTHER -> a
LastRow == CASE pc = "mul" -> K - ncoeffs [] pc \in {"encrypt_v", "decrypt"} -> row_min [] OTHER -> 0

\* Rows from this one on are done in the running product.
From == IF aw = NoWindow THEN K ELSE i + 1

bDone(from) == \A k \in from..K - 1 : b[k] = Rounded(RingProduct(a, s)[k])
bpDone(from) == \A k \in from..K - 1 : bp[k] = Rounded(RingProduct(a, sp)[k])
vpDone(from) ==
  \A k \in from..K - 1 : k >= row_min => vp[k - row_min] = ModP(RingProduct(b, sp)[k])
vDone(from) ==
  \A k \in from..K - 1 : k >= row_min => v[k - row_min] = ModP(RingProduct(bp, s)[k])
cmDone(from) ==
  \A k \in from..K - 1 : k >= row_min =>
    cm[k - row_min] = StoredRow(vp[k - row_min], msg[k - row_min])
mDone(from) ==
  \A k \in from..K - 1 : k >= row_min =>
    m[k - row_min] = DecodedRow(v[k - row_min], cm[k - row_min])
rDone(from) ==
  \A k \in from..K - 1 : k >= K - ncoeffs => r[k - (K - ncoeffs)] = RingProduct(a, s)[k]

WindowInv ==
  /\ aw = NoWindow => i = 0
  /\ aw # NoWindow => aw = Awin(Operand) /\ i >= LastRow
  /\ pc \in {"mul", "done_mul"} => ncoeffs # 0

DoneInv ==
  /\ pc = "keygen" => bDone(From)
  /\ pc \in {"encrypt", "encrypt_v", "decrypt", "done"} => bDone(0)
  /\ pc = "encrypt" => bpDone(From)
  /\ pc \in {"encrypt_v", "decrypt", "done"} => bpDone(0)
  /\ pc = "encrypt_v" => vpDone(From) /\ cmDone(From)
  /\ pc \in {"decrypt", "done"} => vpDone(0)
  /\ pc \in {"decrypt", "done", "unpack", "unpacked"} => cmDone(0)
  /\ pc = "decrypt" => vDone(From) /\ mDone(From)
  /\ pc = "done" => vDone(0)
  /\ pc \in {"done", "unpacked"} => mDone(0)
  /\ pc = "mul" => rDone(From)
  /\ pc = "done_mul" => rDone(0)

PkeInv == VariableTypes /\ WindowInv /\ DoneInv

----------------------------------------------------------------------------
(* Each action preserves it.                                               *)

Cut == [0..N - 1 -> 0..P - 1]

LEMMA RoundedTypes ==
  ASSUME NEW f \in Poly
  PROVE  Rounded(f) \in Cut /\ ModP(f) \in Cut
<1>1. ASSUME NEW n \in Int PROVE n % P \in 0..P - 1
  BY Moduli
<1>2. ASSUME NEW d \in 0..N - 1
      PROVE  round_q_to_p(f[d]) \in 0..P - 1 /\ f[d] % P \in 0..P - 1
  <2>1. PICK x \in Int : x = f[d]
    BY PolyInt DEF IntPoly
  <2>2. Q \div P \in Nat \ {0} /\ Q \div (2 * P) \in Int
    <3>0. Q \div P \in Int /\ Q % P \in 0..P - 1 /\ Q = P * (Q \div P) + (Q % P)
      BY Moduli, Division
    <3>5. PICK q \in Int, c \in 0..P - 1 : q = Q \div P /\ Q = P * q + c
      BY <3>0
    <3>6. PICK y \in Int : y = P * q
      BY Moduli
    <3>1. Q = y + c
      BY <3>5, <3>6
    <3>2. q >= 1
      <4>1. ASSUME q <= 0 PROVE FALSE
        <5>1. P * q <= P * 0
          BY <4>1, Moduli
        <5>2. y <= 0
          BY <3>6, <5>1, Moduli
        <5>3. Q >= 2 * P
          BY CodeAssumption
        <5> QED  BY <3>1, <5>2, <5>3, Moduli
      <4> QED  BY <3>5, <4>1
    <3>3. 2 * P \in Nat \ {0} /\ Q \in Int
      BY Moduli
    <3>4. Q \div (2 * P) \in Int
      BY <3>3, Division
    <3> QED  BY <3>5, <3>2, <3>4
  <2>3. PICK h \in Int : h = Q \div (2 * P)
    BY <2>2
  <2>4. (x + h) \div (Q \div P) \in Int
    <3>1. x + h \in Int
      OBVIOUS
    <3> QED  BY <2>2, <3>1, Division
  <2>5. round_q_to_p(x) \in 0..P - 1
    BY <1>1, <2>3, <2>4 DEF round_q_to_p
  <2> QED  BY <1>1, <2>1, <2>5
<1> QED  BY <1>2 DEF Rounded, ModP, Cut

LEMMA CutInt == Cut \subseteq IntPoly
<1>1. 0..P - 1 \subseteq Int
  BY Moduli
<1> QED  BY <1>1 DEF Cut, IntPoly

\* The rows that the packers write.
LEMMA StoredRowTypes ==
  ASSUME half \in Halves, NEW f \in IntPoly, NEW bits \in [0..N - 1 -> {0, 1}]
  PROVE  /\ StoredRow(f, bits) \in [0..N - 1 -> 0..T - 1]
         /\ StoredRow(f, bits) = StoredRow(ModP(f), bits)
<1>1. ASSUME NEW d \in 0..N - 1
      PROVE  Stored(f[d], bits[d]) \in 0..T - 1 /\ Stored(f[d], bits[d]) = Stored(ModP(f)[d], bits[d])
  <2>1. PICK x \in Int, bit \in {0, 1} : x = f[d] /\ bit = bits[d]
    BY DEF IntPoly
  <2>2. ModP(f)[d] = x % P
    BY <2>1 DEF ModP
  <2> QED  BY <2>1, <2>2, StoredModP
<1> QED  BY <1>1 DEF StoredRow

LEMMA DecodedRowTypes ==
  ASSUME half \in Halves, NEW f \in IntPoly, NEW codes \in [0..N - 1 -> 0..T - 1]
  PROVE  /\ DecodedRow(f, codes) \in [0..N - 1 -> {0, 1}]
         /\ DecodedRow(f, codes) = DecodedRow(ModP(f), codes)
<1>1. ASSUME NEW d \in 0..N - 1
      PROVE  Decoded(f[d], codes[d]) \in {0, 1} /\ Decoded(f[d], codes[d]) = Decoded(ModP(f)[d], codes[d])
  <2>1. PICK x \in Int, c \in 0..T - 1 : x = f[d] /\ c = codes[d]
    BY DEF IntPoly
  <2>2. ModP(f)[d] = x % P
    BY <2>1 DEF ModP
  <2> QED  BY <2>1, <2>2, DecodedModP
<1> QED  BY <1>1 DEF DecodedRow

LEMMA Sizes ==
  /\ K \in Nat \ {0} /\ ELL \in 1..K /\ row_min \in 0..K - 1 /\ row_min = K - ELL
  /\ N \in Nat /\ Ring = [0..K - 1 -> Poly]
  BY SizesAssumption DEF row_min, Ring

LEMMA Elements ==
  ASSUME VariableTypes
  PROVE  a \in Ring /\ s \in Ring /\ sp \in Ring /\ b \in Ring /\ bp \in Ring
<1>1. 0..P - 1 \subseteq 0..Q - 1
  BY Moduli
<1>2. [0..N - 1 -> 0..P - 1] \subseteq Poly
  BY <1>1 DEF Poly
<1>3. RingP \subseteq Ring
  BY <1>2 DEF RingP, Ring
<1> QED  BY <1>3, UniformAssumption DEF VariableTypes

LEMMA WindowIsThere ==
  ASSUME NEW x
  PROVE  Awin(x) # NoWindow
<1>1. 0 \in DOMAIN Awin(x)
  BY Sizes DEF Awin
<1>2. ~(0 \in DOMAIN NoWindow)
  BY DEF NoWindow
<1> QED  BY <1>1, <1>2

LEMMA InitHolds == Init => PkeInv
<1> SUFFICES ASSUME Init PROVE PkeInv
  OBVIOUS
<1>1. /\ a \in As /\ s \in Ss /\ sp \in Ss /\ aw = NoWindow /\ i = 0
      /\ (pc \in {"keygen", "pack"} /\ ncoeffs = 0) \/ (pc = "mul" /\ ncoeffs \in 1..K)
      /\ half \in Halves /\ msg \in Messages
  BY DEF Init
<1>6. /\ b = [k \in 0..K - 1 |-> [d \in 0..N - 1 |-> 0]] /\ bp = b
      /\ vp = Zeros /\ v = Zeros /\ cm = Zeros /\ m = Zeros
      /\ r = [k \in 0..ncoeffs - 1 |-> [d \in 0..N - 1 |-> 0]]
  BY DEF Init
<1>2. 0 \in 0..P - 1 /\ 0 \in 0..Q - 1 /\ 0 \in 0..T - 1 /\ 0 \in {0, 1}
  <2>1. half \in Nat \ {0}
    BY <1>1, Types
  <2> QED  BY <2>1, Moduli DEF T
<1>3. VariableTypes
  <2>1. ncoeffs \in 0..K /\ i \in 0..K - 1
    BY <1>1, Sizes
  <2>2. b \in RingP /\ bp \in RingP /\ r \in [0..ncoeffs - 1 -> Poly]
    BY <1>6, <1>2 DEF RingP, Poly
  <2>3. vp \in Rows(0..P - 1) /\ v \in Rows(0..P - 1) /\ cm \in Rows(0..T - 1) /\ m \in Rows({0, 1})
    BY <1>6, <1>2 DEF Zeros, Rows
  <2> QED  BY <1>1, <2>1, <2>2, <2>3 DEF VariableTypes
<1>4. WindowInv
  BY <1>1, Sizes DEF WindowInv
<1>5. DoneInv
  <2>1. From = K /\ K..K - 1 = {}
    BY <1>1, Sizes DEF From
  <2> QED  BY <1>1, <2>1 DEF DoneInv, bDone, rDone
<1> QED  BY <1>3, <1>4, <1>5 DEF PkeInv

LEMMA BeginInv == PkeInv /\ (ring_uniform_Awin \/ ring_unpack_Awin \/ ring_to_Awin) => PkeInv'
<1> SUFFICES ASSUME PkeInv, ring_uniform_Awin \/ ring_unpack_Awin \/ ring_to_Awin PROVE PkeInv'
  OBVIOUS
<1>0. VariableTypes /\ WindowInv /\ DoneInv
  BY DEF PkeInv
<1>1. /\ Begin(Operand) /\ UNCHANGED <<half, a, s, sp, b, bp, msg, cm, m, vp, v, ncoeffs, r, pc>>
      /\ pc \in {"keygen", "encrypt", "encrypt_v", "decrypt", "mul"}
  BY DEF ring_uniform_Awin, ring_unpack_Awin, ring_to_Awin, Operand
<1>2. Operand \in Ring /\ Operand' = Operand
  BY <1>0, <1>1, Elements DEF Operand
<1>3. aw = NoWindow /\ aw' = Awin(Operand) /\ i' = K - 1 /\ aw' # NoWindow
  BY <1>1, WindowIsThere DEF Begin
<1>4. VariableTypes'
  <2>1. aw' \in [0..2 * K - 2 -> Poly] /\ i' \in 0..K - 1
    BY <1>2, <1>3, AwinType, Sizes
  <2> QED  BY <1>0, <1>1, <2>1 DEF VariableTypes, T
<1>5. WindowInv'
  <2>1. LastRow' <= K - 1
    <3>1. LastRow' = LastRow
      BY <1>1 DEF LastRow, row_min
    <3>2. pc = "mul" => ncoeffs \in 1..K
      BY <1>0, Sizes DEF WindowInv, VariableTypes
    <3> QED  BY <1>1, <3>1, <3>2, Sizes DEF LastRow
  <2>2. LastRow' \in Int
    BY <1>0, <1>1, Sizes DEF LastRow, VariableTypes
  <2> QED  BY <1>0, <1>1, <1>2, <1>3, <2>1, <2>2, Sizes DEF WindowInv
<1>6. DoneInv'
  <2>1. From = K /\ From' = K
    BY <1>3, Sizes DEF From
  <2>2. /\ (bDone(From) => bDone(From)') /\ (bDone(0) => bDone(0)')
        /\ (bpDone(From) => bpDone(From)') /\ (bpDone(0) => bpDone(0)')
        /\ (vpDone(From) => vpDone(From)') /\ (vpDone(0) => vpDone(0)')
        /\ (vDone(From) => vDone(From)') /\ (vDone(0) => vDone(0)')
        /\ (rDone(From) => rDone(From)') /\ (rDone(0) => rDone(0)')
    BY <1>1, <2>1 DEF bDone, bpDone, vpDone, vDone, rDone, row_min
  <2>3. /\ (cmDone(From) => cmDone(From)') /\ (cmDone(0) => cmDone(0)')
        /\ (mDone(From) => mDone(From)') /\ (mDone(0) => mDone(0)')
    BY <1>1, <2>1 DEF cmDone, mDone, StoredRow, Stored, DecodedRow, Decoded, H2, T, row_min
  <2> QED  BY <1>0, <1>1, <2>2, <2>3 DEF DoneInv
<1> QED  BY <1>4, <1>5, <1>6 DEF PkeInv

\* One row of the running product is done.
LEMMA RowStep ==
  ASSUME PkeInv, aw # NoWindow, NEW next, RowDone(LastRow, next)
  PROVE  /\ i \in 0..K - 1 /\ i' \in 0..K - 1 /\ LastRow \in 0..i /\ From = i + 1
         /\ aw' \in {NoWindow, aw}
         /\ \/ i > LastRow /\ i' = i - 1 /\ aw' = aw /\ pc' = pc /\ From' = i
            \/ i = LastRow /\ i' = 0 /\ aw' = NoWindow /\ pc' = next /\ From' = K
<1>1. i \in 0..K - 1 /\ i >= LastRow /\ ncoeffs \in 0..K
  BY DEF PkeInv, VariableTypes, WindowInv
<1>2. LastRow \in Nat
  BY <1>1, Sizes DEF LastRow
<1>3. From = i + 1
  BY DEF From
<1>4. CASE i > LastRow
  <2>1. i' = i - 1 /\ aw' = aw /\ pc' = pc
    BY <1>4 DEF RowDone
  <2>2. From' = i
    BY <1>1, <2>1 DEF From
  <2> QED  BY <1>1, <1>2, <1>3, <1>4, <2>1, <2>2, Sizes
<1>5. CASE i = LastRow
  <2>1. i' = 0 /\ aw' = NoWindow /\ pc' = next
    BY <1>1, <1>2, <1>5 DEF RowDone
  <2>2. From' = K
    BY <2>1 DEF From
  <2> QED  BY <1>1, <1>2, <1>3, <1>5, <2>1, <2>2, Sizes
<1> QED  BY <1>1, <1>2, <1>4, <1>5

LEMMA KeygenRow ==
  ASSUME PkeInv, pc = "keygen", aw # NoWindow, b' = [b EXCEPT ![i] = Rounded(Acc(s))],
         RowDone(0, "encrypt"), UNCHANGED <<half, a, s, sp, bp, msg, cm, m, vp, v, ncoeffs, r>>
  PROVE  PkeInv'
<1>0. VariableTypes /\ WindowInv /\ DoneInv
  BY DEF PkeInv
<1>1. RowDone(LastRow, "encrypt") /\ LastRow = 0
  BY DEF LastRow
<1>2. /\ i \in 0..K - 1 /\ i' \in 0..K - 1 /\ From = i + 1 /\ aw' \in {NoWindow, aw}
      /\ \/ i > 0 /\ i' = i - 1 /\ aw' = aw /\ pc' = pc /\ From' = i
         \/ i = 0 /\ i' = 0 /\ aw' = NoWindow /\ pc' = "encrypt" /\ From' = K
  BY <1>1, RowStep
<1>3. Acc(s) = RingProduct(a, s)[i] /\ Acc(s) \in Poly
  <2>1. a \in Ring /\ s \in Ring /\ aw = Awin(a)
    BY <1>0, Elements DEF WindowInv, Operand
  <2>2. RingProduct(a, s)[i] \in Poly
    BY <1>2, <2>1, RingProductType DEF Ring
  <2> QED  BY <1>2, <2>1, <2>2, RowOfWindow
<1>4. b \in RingP /\ Rounded(Acc(s)) \in Cut
  BY <1>0, <1>3, RoundedTypes DEF VariableTypes
<1>5. b' \in RingP
  BY <1>4 DEF RingP, Cut
<1>6. \A k \in i..K - 1 : b'[k] = Rounded(RingProduct(a, s)[k])
  <2>1. \A k \in i + 1..K - 1 : b[k] = Rounded(RingProduct(a, s)[k])
    BY <1>0, <1>2 DEF DoneInv, bDone
  <2>2. ASSUME NEW k \in i..K - 1 PROVE b'[k] = Rounded(RingProduct(a, s)[k])
    <3>1. CASE k = i
      BY <1>2, <1>3, <1>4, <3>1 DEF RingP
    <3>2. CASE k # i
      <4>1. k \in i + 1..K - 1 /\ k \in 0..K - 1
        BY <1>2, <3>2, Sizes
      <4> QED  BY <1>4, <2>1, <3>2, <4>1 DEF RingP
    <3> QED  BY <3>1, <3>2
  <2> QED  BY <2>2
<1>7. VariableTypes'
  BY <1>0, <1>2, <1>5 DEF VariableTypes, T
<1>8. WindowInv'
  BY <1>0, <1>2 DEF WindowInv, Operand, LastRow
<1>9. DoneInv'
  <2>1. CASE pc' = "keygen"
    <3>1. From' = i
      BY <1>2, <2>1
    <3>2. bDone(From)'
      BY <1>6, <3>1 DEF bDone
    <3> QED  BY <2>1, <3>2 DEF DoneInv
  <2>2. CASE pc' = "encrypt"
    <3>1. i = 0 /\ From' = K
      BY <1>2, <2>2
    <3>2. bDone(0)' /\ bpDone(From)'
      BY <1>6, <3>1, Sizes DEF bDone, bpDone
    <3> QED  BY <2>2, <3>2 DEF DoneInv
  <2> QED  BY <1>2, <2>1, <2>2
<1> QED  BY <1>7, <1>8, <1>9 DEF PkeInv

LEMMA EncryptRow ==
  ASSUME PkeInv, pc = "encrypt", aw # NoWindow, bp' = [bp EXCEPT ![i] = Rounded(Acc(sp))],
         RowDone(0, "encrypt_v"), UNCHANGED <<half, a, s, sp, b, msg, cm, m, vp, v, ncoeffs, r>>
  PROVE  PkeInv'
<1>0. VariableTypes /\ WindowInv /\ DoneInv
  BY DEF PkeInv
<1>1. RowDone(LastRow, "encrypt_v") /\ LastRow = 0
  BY DEF LastRow
<1>2. /\ i \in 0..K - 1 /\ i' \in 0..K - 1 /\ From = i + 1 /\ aw' \in {NoWindow, aw}
      /\ \/ i > 0 /\ i' = i - 1 /\ aw' = aw /\ pc' = pc /\ From' = i
         \/ i = 0 /\ i' = 0 /\ aw' = NoWindow /\ pc' = "encrypt_v" /\ From' = K
  BY <1>1, RowStep
<1>3. Acc(sp) = RingProduct(a, sp)[i] /\ Acc(sp) \in Poly
  <2>1. a \in Ring /\ sp \in Ring /\ aw = Awin(a)
    BY <1>0, Elements DEF WindowInv, Operand
  <2>2. RingProduct(a, sp)[i] \in Poly
    BY <1>2, <2>1, RingProductType DEF Ring
  <2> QED  BY <1>2, <2>1, <2>2, RowOfWindow
<1>4. bp \in RingP /\ Rounded(Acc(sp)) \in Cut
  BY <1>0, <1>3, RoundedTypes DEF VariableTypes
<1>5. bp' \in RingP
  BY <1>4 DEF RingP, Cut
<1>6. \A k \in i..K - 1 : bp'[k] = Rounded(RingProduct(a, sp)[k])
  <2>1. \A k \in i + 1..K - 1 : bp[k] = Rounded(RingProduct(a, sp)[k])
    BY <1>0, <1>2 DEF DoneInv, bpDone
  <2>2. ASSUME NEW k \in i..K - 1 PROVE bp'[k] = Rounded(RingProduct(a, sp)[k])
    <3>1. CASE k = i
      BY <1>2, <1>3, <1>4, <3>1 DEF RingP
    <3>2. CASE k # i
      <4>1. k \in i + 1..K - 1 /\ k \in 0..K - 1
        BY <1>2, <3>2, Sizes
      <4> QED  BY <1>4, <2>1, <3>2, <4>1 DEF RingP
    <3> QED  BY <3>1, <3>2
  <2> QED  BY <2>2
<1>7. VariableTypes'
  BY <1>0, <1>2, <1>5 DEF VariableTypes, T
<1>8. WindowInv'
  BY <1>0, <1>2 DEF WindowInv, Operand, LastRow
<1>9. bDone(0)'
  BY <1>0 DEF DoneInv, bDone
<1>10. DoneInv'
  <2>1. CASE pc' = "encrypt"
    <3>1. From' = i
      BY <1>2, <2>1
    <3>2. bpDone(From)'
      BY <1>6, <3>1 DEF bpDone
    <3> QED  BY <1>9, <2>1, <3>2 DEF DoneInv
  <2>2. CASE pc' = "encrypt_v"
    <3>1. i = 0 /\ From' = K
      BY <1>2, <2>2
    <3>2. bpDone(0)' /\ vpDone(From)' /\ cmDone(From)'
      BY <1>6, <3>1, Sizes DEF bpDone, vpDone, cmDone
    <3> QED  BY <1>9, <2>2, <3>2 DEF DoneInv
  <2> QED  BY <1>2, <2>1, <2>2
<1> QED  BY <1>7, <1>8, <1>10 DEF PkeInv

LEMMA MessageRow == PkeInv /\ ring_mul_Awin_add_msg_pack_t => PkeInv'
<1> SUFFICES ASSUME PkeInv, ring_mul_Awin_add_msg_pack_t PROVE PkeInv'
  OBVIOUS
<1> DEFINE out == i - row_min
<1>0. VariableTypes /\ WindowInv /\ DoneInv
  BY DEF PkeInv
<1>1. /\ pc = "encrypt_v" /\ aw # NoWindow
      /\ vp' = [vp EXCEPT ![out] = ModP(Acc(sp))]
      /\ cm' = [cm EXCEPT ![out] = StoredRow(Acc(sp), msg[out])]
      /\ RowDone(LastRow, "decrypt") /\ LastRow = row_min
      /\ UNCHANGED <<half, a, s, sp, b, bp, msg, m, v, ncoeffs, r>>
  BY DEF ring_mul_Awin_add_msg_pack_t, LastRow
<1>2. /\ i \in row_min..K - 1 /\ i \in 0..K - 1 /\ i' \in 0..K - 1 /\ From = i + 1
      /\ aw' \in {NoWindow, aw} /\ out \in 0..ELL - 1
      /\ \/ i > row_min /\ i' = i - 1 /\ aw' = aw /\ pc' = pc /\ From' = i
         \/ i = row_min /\ i' = 0 /\ aw' = NoWindow /\ pc' = "decrypt" /\ From' = K
  BY <1>1, RowStep, Sizes
<1>3. Acc(sp) = RingProduct(b, sp)[i] /\ Acc(sp) \in Poly
  <2>1. b \in Ring /\ sp \in Ring /\ aw = Awin(b)
    BY <1>0, <1>1, Elements DEF WindowInv, Operand
  <2>2. RingProduct(b, sp)[i] \in Poly
    BY <1>2, <2>1, RingProductType DEF Ring
  <2> QED  BY <1>2, <2>1, <2>2, RowOfWindow
<1>4. /\ vp \in [0..ELL - 1 -> Cut] /\ ModP(Acc(sp)) \in Cut
      /\ cm \in [0..ELL - 1 -> [0..N - 1 -> 0..T - 1]]
      /\ StoredRow(Acc(sp), msg[out]) \in [0..N - 1 -> 0..T - 1]
      /\ StoredRow(Acc(sp), msg[out]) = StoredRow(ModP(Acc(sp)), msg[out])
  <2>1. Acc(sp) \in IntPoly /\ half \in Halves /\ msg[out] \in [0..N - 1 -> {0, 1}]
    BY <1>0, <1>2, <1>3, PolyInt, PackersAssumption DEF VariableTypes, Rows
  <2> QED  BY <1>0, <1>3, <2>1, RoundedTypes, StoredRowTypes DEF VariableTypes, Cut, Rows
<1>5. vp' \in [0..ELL - 1 -> Cut] /\ cm' \in [0..ELL - 1 -> [0..N - 1 -> 0..T - 1]]
  <2> HIDE DEF out
  <2> QED  BY <1>1, <1>4
<1>6. ASSUME NEW k \in i..K - 1
      PROVE  /\ vp'[k - row_min] = ModP(RingProduct(b, sp)[k])
             /\ cm'[k - row_min] = StoredRow(vp'[k - row_min], msg[k - row_min])
  <2>0. k - row_min \in 0..ELL - 1 /\ k >= row_min
    BY <1>2, Sizes
  <2>1. CASE k = i
    <3>1. vp'[out] = ModP(Acc(sp)) /\ cm'[out] = StoredRow(Acc(sp), msg[out])
      <4> HIDE DEF out
      <4> QED  BY <1>1, <1>2, <1>4
    <3> QED  BY <1>3, <1>4, <2>1, <3>1
  <2>2. CASE k # i
    <3>1. k \in i + 1..K - 1 /\ k - row_min # out
      BY <1>2, <2>2, Sizes
    <3>2. vp'[k - row_min] = vp[k - row_min] /\ cm'[k - row_min] = cm[k - row_min]
      <4> HIDE DEF out
      <4> QED  BY <1>1, <1>4, <2>0, <3>1
    <3>3. /\ vp[k - row_min] = ModP(RingProduct(b, sp)[k])
          /\ cm[k - row_min] = StoredRow(vp[k - row_min], msg[k - row_min])
      BY <1>0, <1>1, <1>2, <2>0, <3>1 DEF DoneInv, vpDone, cmDone
    <3> QED  BY <3>2, <3>3
  <2> QED  BY <2>1, <2>2
<1>7. VariableTypes'
  BY <1>0, <1>1, <1>2, <1>5 DEF VariableTypes, Cut, Rows, T
<1>8. WindowInv'
  BY <1>0, <1>1, <1>2, Sizes DEF WindowInv, Operand, LastRow, row_min
<1>9. bDone(0)' /\ bpDone(0)'
  BY <1>0, <1>1 DEF DoneInv, bDone, bpDone
<1>10. DoneInv'
  <2>0. ASSUME NEW k \in i..K - 1
        PROVE  (cm[k - row_min] = StoredRow(vp[k - row_min], msg[k - row_min]))'
    <3>1. StoredRow(vp[k - row_min], msg[k - row_min])' = StoredRow(vp'[k - row_min], msg[k - row_min])
      BY <1>1 DEF StoredRow, Stored, T, row_min
    <3>2. cm[k - row_min]' = cm'[k - row_min]
      BY DEF row_min
    <3> QED  BY <1>6, <3>1, <3>2
  <2>1. CASE pc' = "encrypt_v"
    <3>1. From' = i
      BY <1>1, <1>2, <2>1
    <3>2. vpDone(From)'
      BY <1>1, <1>6, <3>1 DEF vpDone, row_min
    <3>3. cmDone(From)'
      BY <2>0, <3>1 DEF cmDone
    <3> QED  BY <1>9, <2>1, <3>2, <3>3 DEF DoneInv
  <2>2. CASE pc' = "decrypt"
    <3>1. i = row_min /\ From' = K
      BY <1>1, <1>2, <2>2
    <3>2. vpDone(0)'
      BY <1>1, <1>6, <3>1, Sizes DEF vpDone, row_min
    <3>3. cmDone(0)'
      <4>1. ASSUME NEW k \in 0..K - 1, k >= row_min PROVE k \in i..K - 1
        BY <3>1, <4>1, Sizes
      <4>2. row_min' = row_min
        BY DEF row_min
      <4> QED  BY <2>0, <4>1, <4>2 DEF cmDone
    <3>4. vDone(From)' /\ mDone(From)'
      BY <3>1, Sizes DEF vDone, mDone
    <3> QED  BY <1>9, <2>2, <3>2, <3>3, <3>4 DEF DoneInv
  <2> QED  BY <1>1, <1>2, <2>1, <2>2
<1> QED  BY <1>7, <1>8, <1>10 DEF PkeInv

LEMMA DecryptRow == PkeInv /\ ring_mul_Awin_sub_cm_pack_msg => PkeInv'
<1> SUFFICES ASSUME PkeInv, ring_mul_Awin_sub_cm_pack_msg PROVE PkeInv'
  OBVIOUS
<1> DEFINE out == i - row_min
<1>0. VariableTypes /\ WindowInv /\ DoneInv
  BY DEF PkeInv
<1>1. /\ pc = "decrypt" /\ aw # NoWindow
      /\ v' = [v EXCEPT ![out] = ModP(Acc(s))]
      /\ m' = [m EXCEPT ![out] = DecodedRow(Acc(s), cm[out])]
      /\ RowDone(LastRow, "done") /\ LastRow = row_min
      /\ UNCHANGED <<half, a, s, sp, b, bp, msg, cm, vp, ncoeffs, r>>
  BY DEF ring_mul_Awin_sub_cm_pack_msg, LastRow
<1>2. /\ i \in row_min..K - 1 /\ i \in 0..K - 1 /\ i' \in 0..K - 1 /\ From = i + 1
      /\ aw' \in {NoWindow, aw} /\ out \in 0..ELL - 1
      /\ \/ i > row_min /\ i' = i - 1 /\ aw' = aw /\ pc' = pc /\ From' = i
         \/ i = row_min /\ i' = 0 /\ aw' = NoWindow /\ pc' = "done" /\ From' = K
  BY <1>1, RowStep, Sizes
<1>3. Acc(s) = RingProduct(bp, s)[i] /\ Acc(s) \in Poly
  <2>1. bp \in Ring /\ s \in Ring /\ aw = Awin(bp)
    BY <1>0, <1>1, Elements DEF WindowInv, Operand
  <2>2. RingProduct(bp, s)[i] \in Poly
    BY <1>2, <2>1, RingProductType DEF Ring
  <2> QED  BY <1>2, <2>1, <2>2, RowOfWindow
<1>4. /\ v \in [0..ELL - 1 -> Cut] /\ ModP(Acc(s)) \in Cut
      /\ m \in [0..ELL - 1 -> [0..N - 1 -> {0, 1}]]
      /\ DecodedRow(Acc(s), cm[out]) \in [0..N - 1 -> {0, 1}]
      /\ DecodedRow(Acc(s), cm[out]) = DecodedRow(ModP(Acc(s)), cm[out])
  <2>1. Acc(s) \in IntPoly /\ half \in Halves /\ cm[out] \in [0..N - 1 -> 0..T - 1]
    BY <1>0, <1>2, <1>3, PolyInt DEF VariableTypes, Rows
  <2> QED  BY <1>0, <1>3, <2>1, RoundedTypes, DecodedRowTypes DEF VariableTypes, Cut, Rows
<1>5. v' \in [0..ELL - 1 -> Cut] /\ m' \in [0..ELL - 1 -> [0..N - 1 -> {0, 1}]]
  <2> HIDE DEF out
  <2> QED  BY <1>1, <1>4
<1>6. ASSUME NEW k \in i..K - 1
      PROVE  /\ v'[k - row_min] = ModP(RingProduct(bp, s)[k])
             /\ m'[k - row_min] = DecodedRow(v'[k - row_min], cm[k - row_min])
  <2>0. k - row_min \in 0..ELL - 1 /\ k >= row_min
    BY <1>2, Sizes
  <2>1. CASE k = i
    <3>1. v'[out] = ModP(Acc(s)) /\ m'[out] = DecodedRow(Acc(s), cm[out])
      <4> HIDE DEF out
      <4> QED  BY <1>1, <1>2, <1>4
    <3> QED  BY <1>3, <1>4, <2>1, <3>1
  <2>2. CASE k # i
    <3>1. k \in i + 1..K - 1 /\ k - row_min # out
      BY <1>2, <2>2, Sizes
    <3>2. v'[k - row_min] = v[k - row_min] /\ m'[k - row_min] = m[k - row_min]
      <4> HIDE DEF out
      <4> QED  BY <1>1, <1>4, <2>0, <3>1
    <3>3. /\ v[k - row_min] = ModP(RingProduct(bp, s)[k])
          /\ m[k - row_min] = DecodedRow(v[k - row_min], cm[k - row_min])
      BY <1>0, <1>1, <1>2, <2>0, <3>1 DEF DoneInv, vDone, mDone
    <3> QED  BY <3>2, <3>3
  <2> QED  BY <2>1, <2>2
<1>7. VariableTypes'
  BY <1>0, <1>1, <1>2, <1>5 DEF VariableTypes, Cut, Rows, T
<1>8. WindowInv'
  BY <1>0, <1>1, <1>2, Sizes DEF WindowInv, Operand, LastRow, row_min
<1>9. bDone(0)' /\ bpDone(0)' /\ vpDone(0)' /\ cmDone(0)'
  <2>1. bDone(0)' /\ bpDone(0)' /\ vpDone(0)'
    BY <1>0, <1>1 DEF DoneInv, bDone, bpDone, vpDone, row_min
  <2>2. cmDone(0)'
    BY <1>0, <1>1 DEF DoneInv, cmDone, StoredRow, Stored, T, row_min
  <2> QED  BY <2>1, <2>2
<1>10. DoneInv'
  <2>0. ASSUME NEW k \in i..K - 1
        PROVE  (m[k - row_min] = DecodedRow(v[k - row_min], cm[k - row_min]))'
    <3>1. DecodedRow(v[k - row_min], cm[k - row_min])' = DecodedRow(v'[k - row_min], cm[k - row_min])
      BY <1>1 DEF DecodedRow, Decoded, H2, T, row_min
    <3>2. m[k - row_min]' = m'[k - row_min]
      BY DEF row_min
    <3> QED  BY <1>6, <3>1, <3>2
  <2>1. CASE pc' = "decrypt"
    <3>1. From' = i
      BY <1>1, <1>2, <2>1
    <3>2. vDone(From)'
      BY <1>1, <1>6, <3>1 DEF vDone, row_min
    <3>3. mDone(From)'
      BY <2>0, <3>1 DEF mDone
    <3> QED  BY <1>9, <2>1, <3>2, <3>3 DEF DoneInv
  <2>2. CASE pc' = "done"
    <3>1. i = row_min
      BY <1>1, <1>2, <2>2
    <3>2. vDone(0)'
      BY <1>1, <1>6, <3>1, Sizes DEF vDone, row_min
    <3>3. mDone(0)'
      <4>1. ASSUME NEW k \in 0..K - 1, k >= row_min PROVE k \in i..K - 1
        BY <3>1, <4>1, Sizes
      <4>2. row_min' = row_min
        BY DEF row_min
      <4> QED  BY <2>0, <4>1, <4>2 DEF mDone
    <3> QED  BY <1>9, <2>2, <3>2, <3>3 DEF DoneInv
  <2> QED  BY <1>1, <1>2, <2>1, <2>2
<1> QED  BY <1>7, <1>8, <1>10 DEF PkeInv

LEMMA PlainRow == PkeInv /\ ring_mul_Awin => PkeInv'
<1> SUFFICES ASSUME PkeInv, ring_mul_Awin PROVE PkeInv'
  OBVIOUS
<1>0. VariableTypes /\ WindowInv /\ DoneInv
  BY DEF PkeInv
<1> DEFINE row_0 == K - ncoeffs
<1>1. /\ pc = "mul" /\ aw # NoWindow /\ r' = [r EXCEPT ![i - row_0] = Acc(s)]
      /\ RowDone(LastRow, "done_mul") /\ LastRow = row_0
      /\ UNCHANGED <<half, a, s, sp, b, bp, msg, cm, m, vp, v, ncoeffs>>
  BY DEF ring_mul_Awin, LastRow
<1>2. /\ i \in row_0..K - 1 /\ i \in 0..K - 1 /\ i' \in 0..K - 1 /\ From = i + 1 /\ row_0 \in Nat
      /\ aw' \in {NoWindow, aw}
      /\ \/ i > row_0 /\ i' = i - 1 /\ aw' = aw /\ pc' = pc /\ From' = i
         \/ i = row_0 /\ i' = 0 /\ aw' = NoWindow /\ pc' = "done_mul" /\ From' = K
  <2> HIDE DEF row_0
  <2> QED  BY <1>1, RowStep, Sizes
<1>3. Acc(s) = RingProduct(a, s)[i] /\ Acc(s) \in Poly
  <2>1. a \in Ring /\ s \in Ring /\ aw = Awin(a)
    BY <1>0, <1>1, Elements DEF WindowInv, Operand
  <2>2. RingProduct(a, s)[i] \in Poly
    BY <1>2, <2>1, RingProductType DEF Ring
  <2> QED  BY <1>2, <2>1, <2>2, RowOfWindow
<1>4. r \in [0..ncoeffs - 1 -> Poly] /\ ncoeffs \in 0..K
  BY <1>0 DEF VariableTypes
<1>5. r' \in [0..ncoeffs - 1 -> Poly]
  <2> HIDE DEF row_0
  <2> QED  BY <1>1, <1>3, <1>4
<1>6. \A k \in i..K - 1 : k >= row_0 => r'[k - row_0] = RingProduct(a, s)[k]
  <2>1. \A k \in i + 1..K - 1 : k >= row_0 => r[k - row_0] = RingProduct(a, s)[k]
    BY <1>0, <1>1, <1>2 DEF DoneInv, rDone
  <2>2. ASSUME NEW k \in i..K - 1 PROVE r'[k - row_0] = RingProduct(a, s)[k]
    <3>0. k - row_0 \in 0..ncoeffs - 1 /\ k >= row_0 /\ i - row_0 \in 0..ncoeffs - 1
      BY <1>2, <1>4, Sizes
    <3> HIDE DEF row_0
    <3>1. CASE k = i
      BY <1>1, <1>3, <1>4, <3>0, <3>1
    <3>2. CASE k # i
      <4>1. k \in i + 1..K - 1 /\ k - row_0 # i - row_0
        BY <1>2, <3>2, Sizes
      <4> QED  BY <1>1, <1>4, <2>1, <3>0, <4>1
    <3> QED  BY <3>1, <3>2
  <2> QED  BY <2>2
<1>7. VariableTypes'
  BY <1>0, <1>1, <1>2, <1>5 DEF VariableTypes, T
<1>8. WindowInv'
  BY <1>0, <1>1, <1>2, Sizes DEF WindowInv, Operand, LastRow
<1>9. DoneInv'
  <2>1. CASE pc' = "mul"
    <3>1. From' = i
      BY <1>1, <1>2, <2>1
    <3>2. rDone(From)'
      BY <1>1, <1>6, <3>1 DEF rDone
    <3> QED  BY <2>1, <3>2 DEF DoneInv
  <2>2. CASE pc' = "done_mul"
    <3>1. i = row_0
      BY <1>1, <1>2, <2>2
    <3>2. rDone(0)'
      BY <1>1, <1>2, <1>6, <3>1, Sizes DEF rDone
    <3> QED  BY <2>2, <3>2 DEF DoneInv
  <2> QED  BY <1>1, <1>2, <2>1, <2>2
<1> QED  BY <1>7, <1>8, <1>9 DEF PkeInv

LEMMA PackAlone == PkeInv /\ poly_pack_ciphertext_t_from_acc_msg => PkeInv'
<1> SUFFICES ASSUME PkeInv, poly_pack_ciphertext_t_from_acc_msg PROVE PkeInv'
  OBVIOUS
<1>0. VariableTypes /\ WindowInv
  BY DEF PkeInv
<1>1. /\ pc = "pack" /\ pc' = "unpack" /\ vp' \in Accs
      /\ cm' = [k \in 0..ELL - 1 |-> StoredRow(vp'[k], msg[k])]
      /\ UNCHANGED <<half, a, s, sp, b, bp, msg, m, v, ncoeffs, r, aw, i>>
  BY DEF poly_pack_ciphertext_t_from_acc_msg
<1>2. vp' \in Rows(0..P - 1) /\ half \in Halves /\ msg \in Rows({0, 1})
  BY <1>0, <1>1, PackersAssumption DEF VariableTypes
<1>3. cm' \in Rows(0..T - 1)
  <2>1. ASSUME NEW k \in 0..ELL - 1 PROVE StoredRow(vp'[k], msg[k]) \in [0..N - 1 -> 0..T - 1]
    <3>1. vp'[k] \in Cut /\ msg[k] \in [0..N - 1 -> {0, 1}]
      BY <1>2 DEF Rows, Cut
    <3> QED  BY <1>2, <3>1, CutInt, StoredRowTypes
  <2> QED  BY <1>1, <2>1 DEF Rows
<1>4. VariableTypes'
  BY <1>0, <1>1, <1>2, <1>3 DEF VariableTypes, T
<1>5. WindowInv'
  BY <1>0, <1>1 DEF WindowInv, Operand, LastRow
<1>6. cmDone(0)'
  <2>1. ASSUME NEW k \in 0..K - 1, k >= row_min
        PROVE  (cm[k - row_min] = StoredRow(vp[k - row_min], msg[k - row_min]))'
    <3>1. k - row_min \in 0..ELL - 1
      BY <2>1, Sizes
    <3>2. StoredRow(vp[k - row_min], msg[k - row_min])' = StoredRow(vp'[k - row_min], msg[k - row_min])
      BY <1>1 DEF StoredRow, Stored, T, row_min
    <3>3. cm[k - row_min]' = cm'[k - row_min]
      BY DEF row_min
    <3> QED  BY <1>1, <3>1, <3>2, <3>3
  <2>2. row_min' = row_min
    BY DEF row_min
  <2> QED  BY <2>1, <2>2 DEF cmDone
<1> QED  BY <1>1, <1>4, <1>5, <1>6 DEF PkeInv, DoneInv

LEMMA UnpackAlone == PkeInv /\ poly_pack_message_from_acc_cm => PkeInv'
<1> SUFFICES ASSUME PkeInv, poly_pack_message_from_acc_cm PROVE PkeInv'
  OBVIOUS
<1>0. VariableTypes /\ WindowInv /\ DoneInv
  BY DEF PkeInv
<1>1. PICK e \in Noises :
        /\ pc = "unpack" /\ pc' = "unpacked"
        /\ v' = [k \in 0..ELL - 1 |-> [d \in 0..N - 1 |-> (vp[k][d] + e[k][d]) % P]]
        /\ m' = [k \in 0..ELL - 1 |-> DecodedRow(v'[k], cm[k])]
        /\ UNCHANGED <<half, a, s, sp, b, bp, msg, cm, vp, ncoeffs, r, aw, i>>
  BY DEF poly_pack_message_from_acc_cm
<1>2. vp \in Rows(0..P - 1) /\ half \in Halves /\ cm \in Rows(0..T - 1) /\ e \in Rows(Int)
  BY <1>0, <1>1, PackersAssumption DEF VariableTypes
<1>3. v' \in Rows(0..P - 1)
  <2>1. ASSUME NEW k \in 0..ELL - 1, NEW d \in 0..N - 1
        PROVE  (vp[k][d] + e[k][d]) % P \in 0..P - 1
    <3>1. vp[k] \in Cut /\ e[k] \in IntPoly
      BY <1>2 DEF Rows, Cut, IntPoly
    <3>2. PICK x \in Int, y \in Int : x = vp[k][d] /\ y = e[k][d]
      BY <3>1, CutInt DEF IntPoly
    <3> QED  BY <3>2, Moduli
  <2> QED  BY <1>1, <2>1 DEF Rows
<1>4. m' \in Rows({0, 1})
  <2>1. ASSUME NEW k \in 0..ELL - 1 PROVE DecodedRow(v'[k], cm[k]) \in [0..N - 1 -> {0, 1}]
    <3>1. v'[k] \in Cut /\ cm[k] \in [0..N - 1 -> 0..T - 1]
      BY <1>2, <1>3 DEF Rows, Cut
    <3> QED  BY <1>2, <3>1, CutInt, DecodedRowTypes
  <2> QED  BY <1>1, <2>1 DEF Rows
<1>5. VariableTypes'
  BY <1>0, <1>1, <1>3, <1>4 DEF VariableTypes, T
<1>6. WindowInv'
  BY <1>0, <1>1 DEF WindowInv, Operand, LastRow
<1>7. cmDone(0)'
  BY <1>0, <1>1 DEF DoneInv, cmDone, StoredRow, Stored, T, row_min
<1>8. mDone(0)'
  <2>1. ASSUME NEW k \in 0..K - 1, k >= row_min
        PROVE  (m[k - row_min] = DecodedRow(v[k - row_min], cm[k - row_min]))'
    <3>1. k - row_min \in 0..ELL - 1
      BY <2>1, Sizes
    <3>2. DecodedRow(v[k - row_min], cm[k - row_min])' = DecodedRow(v'[k - row_min], cm[k - row_min])
      BY <1>1 DEF DecodedRow, Decoded, H2, T, row_min
    <3>3. m[k - row_min]' = m'[k - row_min]
      BY DEF row_min
    <3> QED  BY <1>1, <3>1, <3>2, <3>3
  <2>2. row_min' = row_min
    BY DEF row_min
  <2> QED  BY <2>1, <2>2 DEF mDone
<1> QED  BY <1>1, <1>5, <1>6, <1>7, <1>8 DEF PkeInv, DoneInv

LEMMA NextInv == PkeInv /\ [Next]_vars => PkeInv'
<1> SUFFICES ASSUME PkeInv, [Next]_vars PROVE PkeInv'
  OBVIOUS
<1>1. CASE ring_uniform_Awin \/ ring_unpack_Awin \/ ring_to_Awin
  BY <1>1, BeginInv
<1>2. CASE ring_mul_Awin_round_p
  <2>1. pc = "keygen" \/ pc = "encrypt"
    BY <1>2 DEF ring_mul_Awin_round_p
  <2>2. CASE pc = "keygen"
    <3>1. /\ aw # NoWindow /\ b' = [b EXCEPT ![i] = Rounded(Acc(s))] /\ RowDone(0, "encrypt")
          /\ UNCHANGED <<half, a, s, sp, bp, msg, cm, m, vp, v, ncoeffs, r>>
      BY <1>2, <2>2 DEF ring_mul_Awin_round_p
    <3> QED  BY <2>2, <3>1, KeygenRow
  <2>3. CASE pc = "encrypt"
    <3>1. /\ aw # NoWindow /\ bp' = [bp EXCEPT ![i] = Rounded(Acc(sp))] /\ RowDone(0, "encrypt_v")
          /\ UNCHANGED <<half, a, s, sp, b, msg, cm, m, vp, v, ncoeffs, r>>
      BY <1>2, <2>3 DEF ring_mul_Awin_round_p
    <3> QED  BY <2>3, <3>1, EncryptRow
  <2> QED  BY <2>1, <2>2, <2>3
<1>3. CASE ring_mul_Awin_add_msg_pack_t
  BY <1>3, MessageRow
<1>4. CASE ring_mul_Awin_sub_cm_pack_msg
  BY <1>4, DecryptRow
<1>5. CASE ring_mul_Awin
  BY <1>5, PlainRow
<1>7. CASE poly_pack_ciphertext_t_from_acc_msg
  BY <1>7, PackAlone
<1>8. CASE poly_pack_message_from_acc_cm
  BY <1>8, UnpackAlone
<1>6. CASE UNCHANGED vars
  <2>1. UNCHANGED <<half, a, s, sp, b, bp, msg, cm, m, vp, v, ncoeffs, r, aw, i, pc>>
    BY <1>6 DEF vars
  <2>2. From' = From /\ LastRow' = LastRow /\ Operand' = Operand
    BY <2>1 DEF From, LastRow, Operand, row_min
  <2>3. VariableTypes' /\ WindowInv'
    BY <2>1, <2>2 DEF PkeInv, VariableTypes, WindowInv, T
  <2>4. DoneInv'
    BY <2>1, <2>2 DEF PkeInv, DoneInv, bDone, bpDone, vpDone, vDone, rDone, cmDone, mDone,
                      StoredRow, Stored, DecodedRow, Decoded, H2, T, row_min
  <2> QED  BY <2>3, <2>4 DEF PkeInv
<1> QED  BY <1>1, <1>2, <1>3, <1>4, <1>5, <1>6, <1>7, <1>8 DEF Next

LEMMA Invariant == Spec => []PkeInv
<1> QED  BY InitHolds, NextInv, PTL DEF Spec

----------------------------------------------------------------------------
(* Theorems.                                                               *)

\* For every N, K, ELL and ncoeffs, each product writes only rows that its result has,
\* reads only rows that its window has, and keeps the types (ring.c:85-183).
THEOREM PkeTypes == Spec => []TypeOK
<1>1. PkeInv => TypeOK
  <2> SUFFICES ASSUME PkeInv, aw # NoWindow PROVE OutRow \in 0..OutRows - 1
    BY DEF PkeInv, TypeOK
  <2>1. i \in 0..K - 1 /\ i >= LastRow /\ ncoeffs \in 0..K
    BY DEF PkeInv, VariableTypes, WindowInv
  <2>2. OutRow = i - LastRow /\ OutRows = K - LastRow
    BY <2>1, Sizes DEF OutRow, OutRows, LastRow, row_min
  <2>3. LastRow \in Int
    BY <2>1, Sizes DEF LastRow, row_min
  <2> QED  BY <2>1, <2>2, <2>3, Sizes
<1> QED  BY <1>1, Invariant, PTL

\* For every N, K, ELL and moduli, the products by windows of rows are those of
\* R_q, rounded or cut as the caller wants (ring.c:45-192).
THEOREM ProductsCorrect == Spec => []ProductsAreRight
<1>1. PkeInv => ProductsAreRight
  <2> SUFFICES ASSUME PkeInv PROVE ProductsAreRight
    OBVIOUS
  <2>0. VariableTypes /\ WindowInv /\ DoneInv
    BY DEF PkeInv
  <2>1. ASSUME pc = "done_mul"
        PROVE  r = [k \in 0..ncoeffs - 1 |-> RingProduct(a, s)[k + K - ncoeffs]]
    <3>1. r \in [0..ncoeffs - 1 -> Poly] /\ ncoeffs \in 0..K /\ rDone(0)
      BY <2>0, <2>1 DEF VariableTypes, DoneInv
    <3>2. ASSUME NEW k \in 0..ncoeffs - 1 PROVE r[k] = RingProduct(a, s)[k + K - ncoeffs]
      <4>1. PICK l \in 0..K - 1 : l = k + K - ncoeffs /\ l >= K - ncoeffs /\ l - (K - ncoeffs) = k
        BY <3>1, Sizes
      <4> QED  BY <3>1, <4>1 DEF rDone
    <3> QED  BY <3>1, <3>2
  <2>2. ASSUME pc \in {"encrypt", "encrypt_v", "decrypt", "done"}
        PROVE  b = [k \in 0..K - 1 |-> Rounded(RingProduct(a, s)[k])]
    BY <2>0, <2>2 DEF VariableTypes, RingP, DoneInv, bDone
  <2>3. ASSUME pc = "done"
        PROVE  /\ bp = [k \in 0..K - 1 |-> Rounded(RingProduct(a, sp)[k])]
               /\ vp = [k \in 0..ELL - 1 |-> ModP(RingProduct(b, sp)[k + K - ELL])]
               /\ v = [k \in 0..ELL - 1 |-> ModP(RingProduct(bp, s)[k + K - ELL])]
    <3>1. bp = [k \in 0..K - 1 |-> Rounded(RingProduct(a, sp)[k])]
      BY <2>0, <2>3 DEF VariableTypes, RingP, DoneInv, bpDone
    <3>2. ASSUME NEW k \in 0..ELL - 1
          PROVE  /\ vp[k] = ModP(RingProduct(b, sp)[k + K - ELL])
                 /\ v[k] = ModP(RingProduct(bp, s)[k + K - ELL])
      <4>1. PICK l \in 0..K - 1 : l = k + K - ELL /\ l >= row_min /\ l - row_min = k
        BY Sizes
      <4>2. vpDone(0) /\ vDone(0)
        BY <2>0, <2>3 DEF DoneInv
      <4> QED  BY <4>1, <4>2 DEF vpDone, vDone
    <3>3. vp \in [0..ELL - 1 -> Cut] /\ v \in [0..ELL - 1 -> Cut]
      BY <2>0 DEF VariableTypes, Cut, Rows
    <3> QED  BY <3>1, <3>2, <3>3
  <2> QED  BY <2>1, <2>2, <2>3 DEF ProductsAreRight
<1> QED  BY <1>1, Invariant, PTL

----------------------------------------------------------------------------
(* Messages.                                                               *)

\* A coefficient of the message, once it is decoded.
LEMMA Coefficient ==
  ASSUME PkeInv, NEW k \in 0..ELL - 1, NEW d \in 0..N - 1
  PROVE  /\ half \in Halves /\ msg[k][d] \in {0, 1} /\ cm[k][d] \in 0..T - 1
         /\ vp[k][d] \in 0..P - 1 /\ v[k][d] \in 0..P - 1
         /\ pc \in {"decrypt", "done", "unpack", "unpacked"} =>
              cm[k][d] = Stored(vp[k][d], msg[k][d])
         /\ pc \in {"done", "unpacked"} => m[k][d] = Decoded(v[k][d], cm[k][d])
<1>1. VariableTypes /\ DoneInv
  BY DEF PkeInv
<1>2. half \in Halves /\ msg[k][d] \in {0, 1} /\ cm[k][d] \in 0..T - 1
      /\ vp[k][d] \in 0..P - 1 /\ v[k][d] \in 0..P - 1
  <2>1. half \in Halves /\ msg \in Rows({0, 1}) /\ cm \in Rows(0..T - 1)
        /\ vp \in Rows(0..P - 1) /\ v \in Rows(0..P - 1)
    BY <1>1, PackersAssumption DEF VariableTypes
  <2>2. ASSUME NEW S, NEW x \in Rows(S)
        PROVE  x[k][d] \in S
    <3>1. x[k] \in [0..N - 1 -> S]
      BY DEF Rows
    <3> QED  BY <3>1
  <2>3. msg[k][d] \in {0, 1} /\ cm[k][d] \in 0..T - 1
    BY <2>1, <2>2
  <2>4. vp[k][d] \in 0..P - 1 /\ v[k][d] \in 0..P - 1
    BY <2>1, <2>2
  <2> QED  BY <2>1, <2>3, <2>4
<1>3. PICK l \in 0..K - 1 : l >= row_min /\ l - row_min = k
  <2>1. k + row_min \in 0..K - 1 /\ k + row_min >= row_min /\ (k + row_min) - row_min = k
    BY Sizes
  <2> QED  BY <2>1
<1>4. pc \in {"decrypt", "done", "unpack", "unpacked"} => cm[k] = StoredRow(vp[k], msg[k])
  BY <1>1, <1>3 DEF DoneInv, cmDone
<1>5. pc \in {"done", "unpacked"} => m[k] = DecodedRow(v[k], cm[k])
  BY <1>1, <1>3 DEF DoneInv, mDone
<1>6. StoredRow(vp[k], msg[k])[d] = Stored(vp[k][d], msg[k][d])
  BY DEF StoredRow
<1>7. DecodedRow(v[k], cm[k])[d] = Decoded(v[k][d], cm[k][d])
  BY DEF DecodedRow
<1> QED  BY <1>2, <1>4, <1>5, <1>6, <1>7

\* What it decodes to, by any number that is the noise modulo P.
LEMMA DecodedCoefficient ==
  ASSUME PkeInv, pc \in {"done", "unpacked"}, NEW k \in 0..ELL - 1, NEW d \in 0..N - 1,
         NEW e \in Int, NEW n \in Int, v[k][d] - vp[k][d] = e + P * n,
         NEW x \in Int, x = e + ((vp[k][d] + H1) % Step[half]) + Offset
  PROVE  /\ x \in -Quarter..Quarter - 1 => m[k][d] = msg[k][d]
         /\ x = Quarter \/ x = -Quarter - 1 => m[k][d] # msg[k][d]
<1>1. /\ half \in Halves /\ msg[k][d] \in {0, 1} /\ vp[k][d] \in 0..P - 1 /\ v[k][d] \in 0..P - 1
      /\ m[k][d] = Decoded(v[k][d], Stored(vp[k][d], msg[k][d]))
  BY Coefficient
<1>2. PICK acc \in 0..P - 1, bit \in {0, 1}, y \in 0..P - 1 :
        acc = vp[k][d] /\ bit = msg[k][d] /\ y = v[k][d]
  BY <1>1
<1>3. y = (acc + e) % P
  <2>1. P \in Nat \ {0}
    BY Types
  <2>2. PICK p \in Int : p = P * n
    BY <2>1
  <2>3. P * (-n) = -p /\ -n \in Int
    BY <2>1, <2>2
  <2>4. PICK u \in Int, l \in Int : u = acc + e /\ l = -n
    BY <1>2, <2>1, <2>3
  <2>5. u = P * l + y
    BY <1>2, <2>1, <2>2, <2>3, <2>4
  <2>6. u % P = y
    BY <2>1, <2>5, DivisionUnique
  <2> QED  BY <2>4, <2>6
<1>4. x = e + ((acc + H1) % Step[half]) + Offset
  BY <1>2
<1>5. /\ x \in -Quarter..Quarter - 1 => Decoded((acc + e) % P, Stored(acc, bit)) = bit
      /\ x = Quarter \/ x = -Quarter - 1 => Decoded((acc + e) % P, Stored(acc, bit)) = 1 - bit
  BY <1>1, <1>4, DecodedBit
<1>6. m[k][d] = Decoded((acc + e) % P, Stored(acc, bit))
  BY <1>1, <1>2, <1>3
<1>7. 1 - bit # bit
  OBVIOUS
<1> QED  BY <1>2, <1>5, <1>6, <1>7

\* The numbers that the window is made of.
LEMMA WindowNumbers ==
  ASSUME half \in Halves, NEW acc \in 0..P - 1
  PROVE  /\ Offset \in Int /\ Lowest = -Quarter - Offset
         /\ Highest = Quarter - 1 - Offset - (Step[half] - 1)
         /\ (acc + H1) % Step[half] \in 0..Step[half] - 1 /\ Step[half] \in Nat \ {0}
         /\ Lowest \in Int /\ Highest \in Int /\ P \in Nat \ {0} /\ Quarter \in Nat \ {0}
<1>1. Step[half] \in Nat \ {0} /\ P \in Nat \ {0} /\ Quarter \in Nat \ {0}
  BY Types
<1>2. 0 \in Int /\ 0 \in {0, 1}
  OBVIOUS
<1>3. Offset \in Int /\ (acc + H1) % Step[half] \in 0..Step[half] - 1
  BY <1>2, RoundedValue
<1> QED  BY <1>1, <1>3 DEF Lowest, Highest

\* A message bit survives any noise in the window, in every product and for every
\* accumulator, whatever the moduli are (packing.c:162-271).
THEOREM NoiseIsRemoved == Spec => []DecodesInWindow
<1>1. PkeInv => DecodesInWindow
  <2> SUFFICES ASSUME PkeInv, pc \in {"done", "unpacked"}, NEW k \in 0..ELL - 1, NEW d \in 0..N - 1,
                      InWindow(v[k][d] - vp[k][d])
               PROVE  m[k][d] = msg[k][d]
    BY DEF DecodesInWindow
  <2>1. half \in Halves /\ vp[k][d] \in 0..P - 1 /\ v[k][d] \in 0..P - 1
    BY Coefficient
  <2>2. PICK low \in Int : low = (vp[k][d] + H1) % Step[half] /\ low \in 0..Step[half] - 1
    BY <2>1, WindowNumbers
  <2>3. /\ Offset \in Int /\ Lowest = -Quarter - Offset
        /\ Highest = Quarter - 1 - Offset - (Step[half] - 1) /\ Step[half] \in Nat \ {0}
        /\ Lowest \in Int /\ Highest \in Int /\ P \in Nat \ {0} /\ Quarter \in Nat \ {0}
    BY <2>1, WindowNumbers
  <2>4. PICK y \in Int : y = v[k][d] - vp[k][d] /\ (y - Lowest) % P <= Highest - Lowest
    BY <2>1, <2>3 DEF InWindow
  <2>5. PICK z \in Int : z = y - Lowest
    BY <2>3
  <2>6. PICK n \in Int, f \in Int : f = z % P /\ z = P * n + f /\ f >= 0
    <3>1. z \div P \in Int /\ z % P \in 0..P - 1 /\ z = P * (z \div P) + (z % P)
      BY <2>3, Division
    <3>2. z % P \in Int /\ z % P >= 0
      BY <2>3, <3>1
    <3> QED  BY <3>1, <3>2
  <2>7. PICK e \in Int : e = Lowest + f
    BY <2>3, <2>6
  <2>8. y = e + P * n
    <3>1. PICK p \in Int : p = P * n
      BY <2>3
    <3>2. y - Lowest = p + f
      BY <2>5, <2>6, <3>1
    <3>3. PICK l \in Int : l = Lowest
      BY <2>3
    <3>4. y - l = p + f /\ e = l + f
      BY <2>7, <3>2, <3>3
    <3>5. y = e + p
      <4>1. y \in Int /\ e \in Int /\ p \in Int /\ l \in Int /\ f \in Int
        BY <2>4, <2>6, <2>7, <3>1, <3>3
      <4>2. y - l = p + f
        BY <3>4
      <4>3. e = l + f
        BY <3>4
      <4> QED  BY <4>1, <4>2, <4>3
    <3> QED  BY <3>1, <3>5
  <2>9. e >= Lowest /\ e <= Highest
    BY <2>3, <2>4, <2>5, <2>6, <2>7
  <2>10. PICK x \in Int : x = e + low + Offset
    BY <2>2, <2>3
  <2>11. x \in -Quarter..Quarter - 1
    BY <2>2, <2>3, <2>9, <2>10
  <2> QED  BY <2>2, <2>4, <2>8, <2>10, <2>11, DecodedCoefficient
<1> QED  BY <1>1, Invariant, PTL

\* One more on either side of the window flips the bit of the coefficients that
\* the rounding moved the most: the window cannot be widened.
THEOREM WindowCannotGrow == Spec => []WindowIsExact
<1>1. PkeInv => WindowIsExact
  <2> SUFFICES ASSUME PkeInv, pc \in {"done", "unpacked"}, NEW k \in 0..ELL - 1, NEW d \in 0..N - 1
               PROVE  /\ ((v[k][d] - vp[k][d]) - (Highest + 1)) % P = 0
                            /\ (vp[k][d] + H1) % Step[half] = Step[half] - 1 => m[k][d] # msg[k][d]
                      /\ ((v[k][d] - vp[k][d]) - (Lowest - 1)) % P = 0
                            /\ (vp[k][d] + H1) % Step[half] = 0 => m[k][d] # msg[k][d]
    BY DEF WindowIsExact
  <2>1. half \in Halves /\ vp[k][d] \in 0..P - 1 /\ v[k][d] \in 0..P - 1
    BY Coefficient
  <2>2. PICK low \in Int : low = (vp[k][d] + H1) % Step[half] /\ low \in 0..Step[half] - 1
    BY <2>1, WindowNumbers
  <2>3. /\ Offset \in Int /\ Lowest = -Quarter - Offset
        /\ Highest = Quarter - 1 - Offset - (Step[half] - 1) /\ Step[half] \in Nat \ {0}
        /\ Lowest \in Int /\ Highest \in Int /\ P \in Nat \ {0} /\ Quarter \in Nat \ {0}
    BY <2>1, WindowNumbers
  <2>4. PICK y \in Int : y = v[k][d] - vp[k][d]
    BY <2>1, <2>3
  <2>5. ASSUME NEW e \in Int, (y - e) % P = 0
        PROVE  \E n \in Int : y = e + P * n
    <3>1. PICK z \in Int : z = y - e
      OBVIOUS
    <3>2. PICK n \in Int : z = P * n + (z % P)
      BY <2>3, Division
    <3>3. PICK p \in Int : p = P * n
      BY <2>3
    <3> QED  BY <2>5, <3>1, <3>2, <3>3
  <2>6. ASSUME NEW e \in Int, NEW x \in Int, (y - e) % P = 0, x = e + low + Offset,
               x = Quarter \/ x = -Quarter - 1
        PROVE  m[k][d] # msg[k][d]
    <3>1. PICK n \in Int : y = e + P * n
      BY <2>5, <2>6
    <3> QED  BY <2>2, <2>4, <2>6, <3>1, DecodedCoefficient
  <2>7. ASSUME (y - (Highest + 1)) % P = 0, low = Step[half] - 1
        PROVE  m[k][d] # msg[k][d]
    <3>1. PICK e \in Int, x \in Int : e = Highest + 1 /\ x = e + low + Offset
      BY <2>2, <2>3
    <3>2. x = Quarter
      BY <2>2, <2>3, <2>7, <3>1
    <3> QED  BY <2>6, <2>7, <3>1, <3>2
  <2>8. ASSUME (y - (Lowest - 1)) % P = 0, low = 0
        PROVE  m[k][d] # msg[k][d]
    <3>1. PICK e \in Int, x \in Int : e = Lowest - 1 /\ x = e + low + Offset
      BY <2>2, <2>3
    <3>2. x = -Quarter - 1
      BY <2>2, <2>3, <2>8, <3>1
    <3> QED  BY <2>6, <2>8, <3>1, <3>2
  <2> QED  BY <2>2, <2>4, <2>7, <2>8
<1> QED  BY <1>1, Invariant, PTL

\* The fused loops of packing.c compute what poly_add_msg and poly_compress,
\* poly_decompress, poly_subp and poly_round_xtoy compute one after the other.
THEOREM FusionIsSound == Spec => []FusedAgrees
<1>1. PkeInv => FusedAgrees
  <2> SUFFICES ASSUME PkeInv, NEW k \in 0..ELL - 1, NEW d \in 0..N - 1
               PROVE  /\ pc \in {"decrypt", "done", "unpack", "unpacked"} =>
                           cm[k][d] = pack_t(compress(add_msg(vp[k][d], msg[k][d])))
                      /\ pc \in {"done", "unpacked"} =>
                           m[k][d] = round_to_bit(subp(v[k][d], decompress(unpack_t(cm[k][d]))))
    BY DEF FusedAgrees
  <2>1. /\ half \in Halves /\ msg[k][d] \in {0, 1} /\ cm[k][d] \in 0..T - 1
        /\ vp[k][d] \in 0..P - 1 /\ v[k][d] \in 0..P - 1
    BY Coefficient
  <2>2. Stored(vp[k][d], msg[k][d]) = pack_t(compress(add_msg(vp[k][d], msg[k][d])))
    BY <2>1, EncodingAgrees
  <2>3. Decoded(v[k][d], cm[k][d]) = round_to_bit(subp(v[k][d], decompress(unpack_t(cm[k][d]))))
    BY <2>1, DecodingAgrees
  <2> QED  BY <2>2, <2>3, Coefficient
<1> QED  BY <1>1, Invariant, PTL
----------------------------------------------------------------------------
(* The noise.                                                              *)

----------------------------------------------------------------------------
(* The ring over the integers.                                             *)

PolyPlus(f, g) == [d \in 0..N - 1 |-> f[d] + g[d]]
PolyTimes(c, f) == [d \in 0..N - 1 |-> c * f[d]]
PolyConst(c) == [d \in 0..N - 1 |-> IF d = 0 THEN c ELSE 0]

\* X + 2 times f.
Twist(f) == PolyPlus(PolyPlus(f, f), Shift(f))

\* The operations on polynomials have their types.
LEMMA PolyTypes ==
  /\ \A f, g \in IntPoly : PolyPlus(f, g) \in IntPoly /\ Shift(f) \in IntPoly /\ Twist(f) \in IntPoly
  /\ \A c \in Int : PolyConst(c) \in IntPoly /\ \A f \in IntPoly : PolyTimes(c, f) \in IntPoly
<1>1. ASSUME NEW f \in IntPoly, NEW g \in IntPoly PROVE PolyPlus(f, g) \in IntPoly
  BY DEF PolyPlus, IntPoly
<1>2. ASSUME NEW f \in IntPoly PROVE Shift(f) \in IntPoly /\ Twist(f) \in IntPoly
  BY <1>1, ShiftType DEF Twist
<1>3. ASSUME NEW c \in Int, NEW f \in IntPoly PROVE PolyTimes(c, f) \in IntPoly
  BY DEF PolyTimes, IntPoly
<1>4. ASSUME NEW c \in Int PROVE PolyConst(c) \in IntPoly
  BY DEF PolyConst, IntPoly
<1> QED  BY <1>1, <1>2, <1>3, <1>4

\* The shift and the factor X + 2 are linear, and commute.
LEMMA ShiftLinear ==
  /\ \A f, g \in IntPoly : Shift(PolyPlus(f, g)) = PolyPlus(Shift(f), Shift(g))
  /\ \A c \in Int, f \in IntPoly : Shift(PolyTimes(c, f)) = PolyTimes(c, Shift(f))
<1>0. N - 1 \in 0..N - 1 /\ \A d \in 0..N - 1 : d # 0 => d - 1 \in 0..N - 1
  BY SizesAssumption
<1>1. ASSUME NEW f \in IntPoly, NEW g \in IntPoly
      PROVE  Shift(PolyPlus(f, g)) = PolyPlus(Shift(f), Shift(g))
  <2>1. \A d \in 0..N - 1 : f[d] \in Int /\ g[d] \in Int
    BY DEF IntPoly
  <2> QED  BY <1>0, <2>1 DEF Shift, PolyPlus
<1>2. ASSUME NEW c \in Int, NEW f \in IntPoly
      PROVE  Shift(PolyTimes(c, f)) = PolyTimes(c, Shift(f))
  <2>1. \A d \in 0..N - 1 : f[d] \in Int
    BY DEF IntPoly
  <2>2. ASSUME NEW d \in 0..N - 1
        PROVE  Shift(PolyTimes(c, f))[d] = PolyTimes(c, Shift(f))[d]
    <3>1. CASE d = 0
      <4>1. PICK x \in Int : x = f[N - 1]
        BY <1>0, <2>1
      <4>2. -(c * x) = c * (-x)
        OBVIOUS
      <4>3. Shift(PolyTimes(c, f))[d] = -(c * x) /\ PolyTimes(c, Shift(f))[d] = c * (-x)
        BY <1>0, <3>1, <4>1 DEF Shift, PolyTimes
      <4> QED  BY <4>2, <4>3
    <3>2. CASE d # 0
      BY <1>0, <3>2 DEF Shift, PolyTimes
    <3> QED  BY <3>1, <3>2
  <2> QED  BY <2>2 DEF Shift, PolyTimes
<1> QED  BY <1>1, <1>2

\* X + 2 as well.
LEMMA TwistLinear ==
  /\ \A f, g \in IntPoly : Twist(PolyPlus(f, g)) = PolyPlus(Twist(f), Twist(g))
  /\ \A c \in Int, f \in IntPoly : Twist(PolyTimes(c, f)) = PolyTimes(c, Twist(f))
  /\ \A f \in IntPoly : Twist(Shift(f)) = Shift(Twist(f))
<1>1. ASSUME NEW f \in IntPoly, NEW g \in IntPoly
      PROVE  Twist(PolyPlus(f, g)) = PolyPlus(Twist(f), Twist(g))
  <2>1. Twist(PolyPlus(f, g)) = PolyPlus(PolyPlus(PolyPlus(f, g), PolyPlus(f, g)), PolyPlus(Shift(f), Shift(g)))
    BY ShiftLinear DEF Twist
  <2>2. PICK u \in IntPoly, w \in IntPoly : u = Shift(f) /\ w = Shift(g)
    BY ShiftType
  <2>3. \A d \in 0..N - 1 : f[d] \in Int /\ g[d] \in Int /\ u[d] \in Int /\ w[d] \in Int
    BY DEF IntPoly
  <2>4. PolyPlus(PolyPlus(PolyPlus(f, g), PolyPlus(f, g)), PolyPlus(u, w))
          = PolyPlus(PolyPlus(PolyPlus(f, f), u), PolyPlus(PolyPlus(g, g), w))
    BY <2>3 DEF PolyPlus
  <2> QED  BY <2>1, <2>2, <2>4 DEF Twist
<1>2. ASSUME NEW c \in Int, NEW f \in IntPoly
      PROVE  Twist(PolyTimes(c, f)) = PolyTimes(c, Twist(f))
  <2>1. PICK u \in IntPoly : u = Shift(f)
    BY ShiftType
  <2>2. Twist(PolyTimes(c, f)) = PolyPlus(PolyPlus(PolyTimes(c, f), PolyTimes(c, f)), PolyTimes(c, u))
    BY <2>1, ShiftLinear DEF Twist
  <2>3. ASSUME NEW d \in 0..N - 1
        PROVE  PolyPlus(PolyPlus(PolyTimes(c, f), PolyTimes(c, f)), PolyTimes(c, u))[d]
                 = PolyTimes(c, PolyPlus(PolyPlus(f, f), u))[d]
    <3>1. PICK x \in Int, y \in Int : x = f[d] /\ y = u[d]
      BY DEF IntPoly
    <3>2. (c * x + c * x) + c * y = c * ((x + x) + y)
      OBVIOUS
    <3> QED  BY <3>1, <3>2 DEF PolyPlus, PolyTimes
  <2>4. PolyPlus(PolyPlus(PolyTimes(c, f), PolyTimes(c, f)), PolyTimes(c, u))
          = PolyTimes(c, PolyPlus(PolyPlus(f, f), u))
    BY <2>3 DEF PolyPlus, PolyTimes
  <2> QED  BY <2>1, <2>2, <2>4 DEF Twist
<1>3. ASSUME NEW f \in IntPoly PROVE Twist(Shift(f)) = Shift(Twist(f))
  BY PolyTypes, ShiftLinear DEF Twist
<1> QED  BY <1>1, <1>2, <1>3

----------------------------------------------------------------------------
(* The product of polynomials is linear in both factors.                   *)

\* Sums in the first factor.
LEMMA WholePlus ==
  ASSUME NEW f \in IntPoly, NEW g \in IntPoly, NEW h \in IntPoly
  PROVE  Whole(PolyPlus(f, g), h) = PolyPlus(Whole(f, h), Whole(g, h))
<1> DEFINE p == PolyPlus(f, g)
<1>0. p \in IntPoly /\ N \in Nat /\ \A e \in 0..N - 1 : p[e] = f[e] + g[e]
  BY PolyTypes, SizesAssumption DEF PolyPlus
<1> HIDE DEF p
<1>1. ASSUME NEW d \in 0..N - 1 PROVE Whole(p, h)[d] = Whole(f, h)[d] + Whole(g, h)[d]
  <2>1. /\ Terms(f, h, d) \in Summands(N) /\ Terms(g, h, d) \in Summands(N) /\ Terms(p, h, d) \in Summands(N)
        /\ \A e \in 0..N - 1 : /\ Cofactor(h, d, e) \in Int
                               /\ Terms(f, h, d)[e] = f[e] * Cofactor(h, d, e)
                               /\ Terms(g, h, d)[e] = g[e] * Cofactor(h, d, e)
                               /\ Terms(p, h, d)[e] = p[e] * Cofactor(h, d, e)
    BY <1>0, TermsAt
  <2>2. ASSUME NEW e \in 0..N - 1 PROVE Terms(p, h, d)[e] = Terms(f, h, d)[e] + Terms(g, h, d)[e]
    <3>1. PICK x \in Int, y \in Int, z \in Int : x = f[e] /\ y = g[e] /\ z = Cofactor(h, d, e)
      BY <2>1 DEF IntPoly
    <3>2. (x + y) * z = x * z + y * z
      OBVIOUS
    <3> QED  BY <1>0, <2>1, <3>1, <3>2
  <2>3. SumTo(Terms(p, h, d), N) = SumTo(Terms(f, h, d), N) + SumTo(Terms(g, h, d), N)
    BY <1>0, <2>1, <2>2, SumPlus
  <2> QED  BY <2>3 DEF Whole
<1> QED  BY <1>1 DEF Whole, PolyPlus, p

\* Multiples in the first factor.
LEMMA WholeTimes ==
  ASSUME NEW c \in Int, NEW f \in IntPoly, NEW h \in IntPoly
  PROVE  Whole(PolyTimes(c, f), h) = PolyTimes(c, Whole(f, h))
<1> DEFINE p == PolyTimes(c, f)
<1>0. p \in IntPoly /\ N \in Nat /\ \A e \in 0..N - 1 : p[e] = c * f[e]
  BY PolyTypes, SizesAssumption DEF PolyTimes
<1> HIDE DEF p
<1>1. ASSUME NEW d \in 0..N - 1 PROVE Whole(p, h)[d] = c * Whole(f, h)[d]
  <2>1. /\ Terms(f, h, d) \in Summands(N) /\ Terms(p, h, d) \in Summands(N)
        /\ \A e \in 0..N - 1 : /\ Cofactor(h, d, e) \in Int
                               /\ Terms(f, h, d)[e] = f[e] * Cofactor(h, d, e)
                               /\ Terms(p, h, d)[e] = p[e] * Cofactor(h, d, e)
    BY <1>0, TermsAt
  <2>2. ASSUME NEW e \in 0..N - 1 PROVE Terms(p, h, d)[e] = c * Terms(f, h, d)[e]
    <3>1. PICK x \in Int, z \in Int : x = f[e] /\ z = Cofactor(h, d, e)
      BY <2>1 DEF IntPoly
    <3>2. (c * x) * z = c * (x * z)
      OBVIOUS
    <3> QED  BY <1>0, <2>1, <3>1, <3>2
  <2>3. SumTo(Terms(p, h, d), N) = c * SumTo(Terms(f, h, d), N)
    BY <1>0, <2>1, <2>2, SumScale
  <2> QED  BY <2>3 DEF Whole
<1> QED  BY <1>1 DEF Whole, PolyTimes, p

\* X in the first factor.
LEMMA WholeShift ==
  ASSUME NEW f \in IntPoly, NEW g \in IntPoly
  PROVE  Whole(Shift(f), g) = Shift(Whole(f, g))
BY ShiftedProduct DEF Whole, Shift

\* X + 2 in the first factor.
LEMMA WholeTwist ==
  ASSUME NEW f \in IntPoly, NEW g \in IntPoly
  PROVE  Whole(Twist(f), g) = Twist(Whole(f, g))
BY PolyTypes, WholePlus, WholeShift DEF Twist

\* Sums in the second factor.
LEMMA WholePlus2 ==
  ASSUME NEW f \in IntPoly, NEW g \in IntPoly, NEW h \in IntPoly
  PROVE  Whole(f, PolyPlus(g, h)) = PolyPlus(Whole(f, g), Whole(f, h))
<1> DEFINE p == PolyPlus(g, h)
<1>0. p \in IntPoly /\ N \in Nat /\ \A e \in 0..N - 1 : p[e] = g[e] + h[e]
  BY PolyTypes, SizesAssumption DEF PolyPlus
<1> HIDE DEF p
<1>1. ASSUME NEW d \in 0..N - 1 PROVE Whole(f, p)[d] = Whole(f, g)[d] + Whole(f, h)[d]
  <2>1. /\ Terms(f, g, d) \in Summands(N) /\ Terms(f, h, d) \in Summands(N) /\ Terms(f, p, d) \in Summands(N)
        /\ \A e \in 0..N - 1 : /\ Cofactor(h, d, e) \in Int /\ Cofactor(g, d, e) \in Int
                               /\ Terms(f, g, d)[e] = f[e] * Cofactor(g, d, e)
                               /\ Terms(f, h, d)[e] = f[e] * Cofactor(h, d, e)
                               /\ Terms(f, p, d)[e] = f[e] * Cofactor(p, d, e)
    BY <1>0, TermsAt
  <2>2. ASSUME NEW e \in 0..N - 1 PROVE Terms(f, p, d)[e] = Terms(f, g, d)[e] + Terms(f, h, d)[e]
    <3>1. PICK x \in Int, y \in Int, z \in Int : x = Cofactor(g, d, e) /\ y = Cofactor(h, d, e) /\ z = f[e]
      BY <2>1 DEF IntPoly
    <3>2. Cofactor(p, d, e) = x + y
      <4>1. CASE e <= d
        <5>1. d - e \in 0..N - 1
          BY <1>0, <4>1
        <5> QED  BY <1>0, <3>1, <4>1, <5>1 DEF Cofactor
      <4>2. CASE ~(e <= d)
        <5>1. N + d - e \in 0..N - 1
          BY <1>0, <4>2
        <5>2. PICK u \in Int, w \in Int : u = g[N + d - e] /\ w = h[N + d - e]
          BY <5>1 DEF IntPoly
        <5>3. p[N + d - e] = u + w
          BY <1>0, <5>1, <5>2
        <5> QED  BY <3>1, <4>2, <5>2, <5>3 DEF Cofactor
      <4> QED  BY <4>1, <4>2
    <3>3. z * (x + y) = z * x + z * y
      OBVIOUS
    <3> QED  BY <2>1, <3>1, <3>2, <3>3
  <2>3. SumTo(Terms(f, p, d), N) = SumTo(Terms(f, g, d), N) + SumTo(Terms(f, h, d), N)
    BY <1>0, <2>1, <2>2, SumPlus
  <2> QED  BY <2>3 DEF Whole
<1> QED  BY <1>1 DEF Whole, PolyPlus, p

\* Shifting the second factor shifts each term.
LEMMA WholeShift2 ==
  ASSUME NEW f \in IntPoly, NEW g \in IntPoly
  PROVE  Whole(f, Shift(g)) = Shift(Whole(f, g))
<1> DEFINE h == Shift(g)
<1>0. /\ h \in IntPoly /\ N \in Nat \ {0} /\ N - 1 \in 0..N - 1 /\ 0 \in 0..N - 1
      /\ \A e \in 0..N - 1 : h[e] = IF e = 0 THEN -g[N - 1] ELSE g[e - 1]
      /\ \A e \in 0..N - 1 : g[e] \in Int /\ f[e] \in Int
  BY ShiftType, SizesAssumption DEF Shift, IntPoly
<1> HIDE DEF h
<1>1. ASSUME NEW d \in 0..N - 1 PROVE Whole(f, h)[d] = Shift(Whole(f, g))[d]
  <2>1. CASE d = 0
    <3>1. /\ Terms(f, h, 0) \in Summands(N) /\ Terms(f, g, N - 1) \in Summands(N)
          /\ \A e \in 0..N - 1 : /\ Cofactor(g, N - 1, e) \in Int
                                 /\ Terms(f, h, 0)[e] = f[e] * Cofactor(h, 0, e)
                                 /\ Terms(f, g, N - 1)[e] = f[e] * Cofactor(g, N - 1, e)
      BY <1>0, TermsAt
    <3>2. ASSUME NEW e \in 0..N - 1 PROVE Terms(f, h, 0)[e] = (-1) * Terms(f, g, N - 1)[e]
      <4>1. Cofactor(h, 0, e) = -Cofactor(g, N - 1, e)
        <5>1. e <= N - 1 /\ Cofactor(g, N - 1, e) = g[N - 1 - e]
          BY <1>0 DEF Cofactor
        <5>2. CASE e = 0
          BY <1>0, <5>1, <5>2 DEF Cofactor
        <5>3. CASE e # 0
          <6>1. ~(e <= 0) /\ N + 0 - e \in 0..N - 1 /\ N + 0 - e # 0 /\ (N + 0 - e) - 1 = N - 1 - e
            BY <1>0, <5>3
          <6>2. h[N + 0 - e] = g[N - 1 - e]
            BY <1>0, <6>1
          <6> QED  BY <5>1, <6>1, <6>2 DEF Cofactor
        <5> QED  BY <5>2, <5>3
      <4>2. PICK x \in Int, z \in Int : x = f[e] /\ z = Cofactor(g, N - 1, e)
        BY <1>0, <3>1
      <4>3. x * (-z) = (-1) * (x * z)
        OBVIOUS
      <4> QED  BY <3>1, <4>1, <4>2, <4>3
    <3>3. SumTo(Terms(f, h, 0), N) = (-1) * SumTo(Terms(f, g, N - 1), N)
      BY <1>0, <3>1, <3>2, SumScale
    <3>4. SumTo(Terms(f, g, N - 1), N) \in Int
      BY <1>0, <3>1, SumInt
    <3>5. Whole(f, h)[d] = SumTo(Terms(f, h, 0), N) /\ Shift(Whole(f, g))[d] = -SumTo(Terms(f, g, N - 1), N)
      BY <1>0, <2>1 DEF Whole, Shift
    <3> QED  BY <3>3, <3>4, <3>5
  <2>2. CASE d # 0
    <3>0. d - 1 \in 0..N - 1
      BY <1>0, <2>2
    <3>1. /\ Terms(f, h, d) \in Summands(N) /\ Terms(f, g, d - 1) \in Summands(N)
          /\ \A e \in 0..N - 1 : /\ Terms(f, h, d)[e] = f[e] * Cofactor(h, d, e)
                                 /\ Terms(f, g, d - 1)[e] = f[e] * Cofactor(g, d - 1, e)
      BY <1>0, <3>0, TermsAt
    <3>2. ASSUME NEW e \in 0..N - 1 PROVE Cofactor(h, d, e) = Cofactor(g, d - 1, e)
      <4>1. CASE e < d
        <5>1. d - e \in 0..N - 1 /\ d - e # 0 /\ (d - e) - 1 = (d - 1) - e /\ e <= d /\ e <= d - 1
          BY <1>0, <4>1
        <5> QED  BY <1>0, <5>1 DEF Cofactor
      <4>2. CASE e = d
        <5>1. d - e = 0 /\ e <= d /\ ~(e <= d - 1) /\ N + (d - 1) - e = N - 1
          BY <1>0, <4>2
        <5> QED  BY <1>0, <5>1 DEF Cofactor
      <4>3. CASE e > d
        <5>1. /\ N + d - e \in 0..N - 1 /\ N + d - e # 0 /\ (N + d - e) - 1 = N + (d - 1) - e
              /\ ~(e <= d) /\ ~(e <= d - 1)
          BY <1>0, <4>3
        <5> QED  BY <1>0, <5>1 DEF Cofactor
      <4> QED  BY <1>0, <4>1, <4>2, <4>3
    <3>3. Terms(f, h, d) = Terms(f, g, d - 1)
      <4>1. \A e \in 0..N - 1 : Terms(f, h, d)[e] = Terms(f, g, d - 1)[e]
        BY <3>1, <3>2
      <4> QED  BY <1>0, <3>1, <4>1, SameSummands
    <3>4. Whole(f, h)[d] = SumTo(Terms(f, h, d), N) /\ Shift(Whole(f, g))[d] = SumTo(Terms(f, g, d - 1), N)
      BY <2>2, <3>0 DEF Whole, Shift
    <3> QED  BY <3>3, <3>4
  <2> QED  BY <2>1, <2>2
<1> QED  BY <1>1 DEF Whole, Shift, h

\* X + 2 in the second factor.
LEMMA WholeTwist2 ==
  ASSUME NEW f \in IntPoly, NEW g \in IntPoly
  PROVE  Whole(f, Twist(g)) = Twist(Whole(f, g))
BY PolyTypes, WholePlus2, WholeShift2 DEF Twist

\* The second factor a constant.
LEMMA WholeConst ==
  ASSUME NEW c \in Int, NEW f \in IntPoly
  PROVE  Whole(f, PolyConst(c)) = PolyTimes(c, f)
<1> DEFINE h == PolyConst(c)
<1>0. /\ h \in IntPoly /\ N \in Nat \ {0} /\ 0 \in 0..N - 1
      /\ \A e \in 0..N - 1 : h[e] = IF e = 0 THEN c ELSE 0
      /\ \A e \in 0..N - 1 : f[e] \in Int
  BY PolyTypes, SizesAssumption DEF PolyConst, IntPoly
<1> HIDE DEF h
<1>1. ASSUME NEW d \in 0..N - 1 PROVE Whole(f, h)[d] = c * f[d]
  <2>1. /\ Terms(f, h, d) \in Summands(N)
        /\ \A e \in 0..N - 1 : Terms(f, h, d)[e] = f[e] * Cofactor(h, d, e)
    BY <1>0, TermsAt
  <2>2. ASSUME NEW e \in 0..N - 1, e # d PROVE Terms(f, h, d)[e] = 0
    <3>1. Cofactor(h, d, e) = 0
      <4>1. CASE e <= d
        <5>1. d - e \in 0..N - 1 /\ d - e # 0
          BY <1>0, <2>2, <4>1
        <5> QED  BY <1>0, <4>1, <5>1 DEF Cofactor
      <4>2. CASE ~(e <= d)
        <5>1. N + d - e \in 0..N - 1 /\ N + d - e # 0
          BY <1>0, <4>2
        <5> QED  BY <1>0, <4>2, <5>1 DEF Cofactor
      <4> QED  BY <4>1, <4>2
    <3>2. PICK x \in Int : x = f[e] /\ x * 0 = 0
      BY <1>0
    <3> QED  BY <2>1, <3>1, <3>2
  <2>3. Terms(f, h, d)[d] = c * f[d]
    <3>1. Cofactor(h, d, d) = c
      BY <1>0 DEF Cofactor
    <3>2. PICK x \in Int : x = f[d] /\ x * c = c * x
      BY <1>0
    <3> QED  BY <2>1, <3>1, <3>2
  <2>4. SumTo(Terms(f, h, d), N) = Terms(f, h, d)[d]
    BY <1>0, <2>1, <2>2, SumOfOne
  <2> QED  BY <2>3, <2>4 DEF Whole
<1> QED  BY <1>1 DEF Whole, PolyTimes, h

----------------------------------------------------------------------------
(* Rows of polynomials.                                                    *)

PolyRows == [0..K - 1 -> IntPoly]

\* F[0] + ... + F[K - 1]
RowSum(F) == [d \in 0..N - 1 |-> SumTo([j \in 0..K - 1 |-> F[j][d]], K)]

\* A coefficient of a sum of rows is a sum of coefficients.
LEMMA RowSumAt ==
  ASSUME NEW F \in PolyRows, NEW d \in 0..N - 1
  PROVE  [j \in 0..K - 1 |-> F[j][d]] \in Summands(K)
BY DEF PolyRows, IntPoly, Summands

\* A sum of rows is a polynomial.
LEMMA RowSumType ==
  ASSUME NEW F \in PolyRows
  PROVE  RowSum(F) \in IntPoly
<1>1. ASSUME NEW d \in 0..N - 1 PROVE SumTo([j \in 0..K - 1 |-> F[j][d]], K) \in Int
  BY RowSumAt, SumInt, Sizes
<1> QED  BY <1>1 DEF RowSum, IntPoly

\* Sums of rows are linear: sums.
LEMMA RowSumPlus ==
  ASSUME NEW F \in PolyRows, NEW G \in PolyRows, NEW H \in PolyRows,
         \A j \in 0..K - 1 : H[j] = PolyPlus(F[j], G[j])
  PROVE  RowSum(H) = PolyPlus(RowSum(F), RowSum(G))
<1>1. ASSUME NEW d \in 0..N - 1 PROVE RowSum(H)[d] = RowSum(F)[d] + RowSum(G)[d]
  <2> DEFINE f == [j \in 0..K - 1 |-> F[j][d]]
             g == [j \in 0..K - 1 |-> G[j][d]]
             h == [j \in 0..K - 1 |-> H[j][d]]
  <2>1. f \in Summands(K) /\ g \in Summands(K) /\ h \in Summands(K)
    BY RowSumAt
  <2>2. \A j \in 0..K - 1 : h[j] = f[j] + g[j]
    BY DEF PolyPlus
  <2>3. RowSum(F)[d] = SumTo(f, K) /\ RowSum(G)[d] = SumTo(g, K) /\ RowSum(H)[d] = SumTo(h, K)
    BY DEF RowSum
  <2> HIDE DEF f, g, h
  <2> QED  BY <2>1, <2>2, <2>3, SumPlus, Sizes
<1> QED  BY <1>1 DEF RowSum, PolyPlus

\* Multiples.
LEMMA RowSumTimes ==
  ASSUME NEW c \in Int, NEW F \in PolyRows, NEW H \in PolyRows,
         \A j \in 0..K - 1 : H[j] = PolyTimes(c, F[j])
  PROVE  RowSum(H) = PolyTimes(c, RowSum(F))
<1>1. ASSUME NEW d \in 0..N - 1 PROVE RowSum(H)[d] = c * RowSum(F)[d]
  <2> DEFINE f == [j \in 0..K - 1 |-> F[j][d]]
             h == [j \in 0..K - 1 |-> H[j][d]]
  <2>1. f \in Summands(K) /\ h \in Summands(K)
    BY RowSumAt
  <2>2. \A j \in 0..K - 1 : h[j] = c * f[j]
    BY DEF PolyTimes
  <2>3. RowSum(F)[d] = SumTo(f, K) /\ RowSum(H)[d] = SumTo(h, K)
    BY DEF RowSum
  <2> HIDE DEF f, h
  <2> QED  BY <2>1, <2>2, <2>3, SumScale, Sizes
<1> QED  BY <1>1 DEF RowSum, PolyTimes

\* X.
LEMMA RowSumShift ==
  ASSUME NEW F \in PolyRows, NEW H \in PolyRows, \A j \in 0..K - 1 : H[j] = Shift(F[j])
  PROVE  RowSum(H) = Shift(RowSum(F))
<1>0. N - 1 \in 0..N - 1
  BY SizesAssumption
<1>1. ASSUME NEW d \in 0..N - 1 PROVE RowSum(H)[d] = Shift(RowSum(F))[d]
  <2> DEFINE h == [j \in 0..K - 1 |-> H[j][d]]
  <2>1. h \in Summands(K) /\ RowSum(H)[d] = SumTo(h, K)
    BY RowSumAt DEF RowSum
  <2>2. CASE d = 0
    <3> DEFINE f == [j \in 0..K - 1 |-> F[j][N - 1]]
    <3>1. f \in Summands(K) /\ RowSum(F)[N - 1] = SumTo(f, K)
      BY <1>0, RowSumAt DEF RowSum
    <3>2. ASSUME NEW j \in 0..K - 1 PROVE h[j] = (-1) * f[j]
      <4>1. h[j] = -F[j][N - 1] /\ F[j][N - 1] \in Int
        BY <1>0, <2>2 DEF Shift, PolyRows, IntPoly
      <4> QED  BY <4>1
    <3> HIDE DEF f, h
    <3>3. SumTo(h, K) = (-1) * SumTo(f, K) /\ SumTo(f, K) \in Int
      BY <2>1, <3>1, <3>2, SumScale, SumInt, Sizes
    <3>4. Shift(RowSum(F))[d] = -RowSum(F)[N - 1]
      BY <2>2 DEF Shift
    <3> QED  BY <2>1, <3>1, <3>3, <3>4
  <2>3. CASE d # 0
    <3>0. d - 1 \in 0..N - 1
      BY <1>0, <2>3
    <3>1. h = [j \in 0..K - 1 |-> F[j][d - 1]]
      BY <2>3 DEF Shift
    <3>2. RowSum(F)[d - 1] = SumTo([j \in 0..K - 1 |-> F[j][d - 1]], K)
      BY <3>0 DEF RowSum
    <3>3. Shift(RowSum(F))[d] = RowSum(F)[d - 1]
      BY <2>3 DEF Shift
    <3> HIDE DEF h
    <3> QED  BY <2>1, <3>1, <3>2, <3>3
  <2> QED  BY <2>2, <2>3
<1> QED  BY <1>1 DEF RowSum, Shift

\* X + 2.
LEMMA RowSumTwist ==
  ASSUME NEW F \in PolyRows, NEW H \in PolyRows, \A j \in 0..K - 1 : H[j] = Twist(F[j])
  PROVE  RowSum(H) = Twist(RowSum(F))
<1> DEFINE G == [j \in 0..K - 1 |-> PolyPlus(F[j], F[j])]
           S == [j \in 0..K - 1 |-> Shift(F[j])]
<1>1. G \in PolyRows /\ S \in PolyRows
  BY PolyTypes DEF PolyRows
<1>2. /\ \A j \in 0..K - 1 : G[j] = PolyPlus(F[j], F[j])
      /\ \A j \in 0..K - 1 : S[j] = Shift(F[j])
      /\ \A j \in 0..K - 1 : H[j] = PolyPlus(G[j], S[j])
  BY DEF Twist
<1> HIDE DEF G, S
<1>3. RowSum(H) = PolyPlus(RowSum(G), RowSum(S))
  BY <1>1, <1>2, RowSumPlus
<1>4. RowSum(G) = PolyPlus(RowSum(F), RowSum(F)) /\ RowSum(S) = Shift(RowSum(F))
  BY <1>1, <1>2, RowSumPlus, RowSumShift
<1> QED  BY <1>3, <1>4 DEF Twist

\* The order of the rows can be rotated.
LEMMA RowSumRotated ==
  ASSUME NEW F \in PolyRows, NEW G \in PolyRows,
         F[0] = G[K - 1], \A j \in 1..K - 1 : F[j] = G[j - 1]
  PROVE  RowSum(F) = RowSum(G)
<1>1. ASSUME NEW d \in 0..N - 1 PROVE RowSum(F)[d] = RowSum(G)[d]
  <2> DEFINE f == [j \in 0..K - 1 |-> F[j][d]]
             g == [j \in 0..K - 1 |-> G[j][d]]
  <2>1. f \in Summands(K) /\ g \in Summands(K)
    BY RowSumAt
  <2>2. 0 \in 0..K - 1 /\ K - 1 \in 0..K - 1 /\ \A j \in 1..K - 1 : j \in 0..K - 1 /\ j - 1 \in 0..K - 1
    BY Sizes
  <2>3. f[0] = g[K - 1] /\ \A j \in 1..K - 1 : f[j] = g[j - 1]
    BY <2>2
  <2>4. RowSum(F)[d] = SumTo(f, K) /\ RowSum(G)[d] = SumTo(g, K)
    BY DEF RowSum
  <2> HIDE DEF f, g
  <2> QED  BY <2>1, <2>3, <2>4, SumRotated, Sizes
<1> QED  BY <1>1 DEF RowSum

\* All rows but one are zero.
LEMMA RowSumOfOne ==
  ASSUME NEW F \in PolyRows, NEW k \in 0..K - 1,
         \A j \in 0..K - 1, d \in 0..N - 1 : j # k => F[j][d] = 0
  PROVE  RowSum(F) = F[k]
<1>1. ASSUME NEW d \in 0..N - 1 PROVE RowSum(F)[d] = F[k][d]
  <2> DEFINE f == [j \in 0..K - 1 |-> F[j][d]]
  <2>1. f \in Summands(K) /\ f[k] = F[k][d] /\ \A j \in 0..K - 1 : j # k => f[j] = 0
    BY RowSumAt
  <2>2. RowSum(F)[d] = SumTo(f, K)
    BY DEF RowSum
  <2> HIDE DEF f
  <2> QED  BY <2>1, <2>2, SumOfOne, Sizes
<1>2. F[k] \in IntPoly
  BY DEF PolyRows
<1> QED  BY <1>1, <1>2 DEF RowSum, IntPoly

----------------------------------------------------------------------------
(* The product of ring elements over the integers.                         *)

RingPlus(x, y) == [k \in 0..K - 1 |-> PolyPlus(x[k], y[k])]
RingTimes(c, x) == [k \in 0..K - 1 |-> PolyTimes(c, x[k])]
RingX(x) == [k \in 0..K - 1 |-> Shift(x[k])]
RingY(x) == [k \in 0..K - 1 |-> IF k = 0 THEN Twist(x[K - 1]) ELSE x[k - 1]]
RingConst(c) == [k \in 0..K - 1 |-> IF k = 0 THEN PolyConst(c) ELSE PolyConst(0)]

\* The rows of x, continued downwards: row l of x times a power of Y.
Ext(x, l) == IF l >= 0 THEN x[l] ELSE Twist(x[l + K])

ExtTerms(x, y, k) == [j \in 0..K - 1 |-> Whole(Ext(x, k - j), y[j])]

IntProduct(x, y) == [k \in 0..K - 1 |-> RowSum(ExtTerms(x, y, k))]

\* Every row of the continuation is a polynomial.
LEMMA ExtType ==
  ASSUME NEW x \in PolyRows, NEW l \in -K..K - 1
  PROVE  Ext(x, l) \in IntPoly
<1>1. CASE l >= 0
  BY <1>1, Sizes DEF Ext, PolyRows
<1>2. CASE ~(l >= 0)
  <2>1. l + K \in 0..K - 1
    BY <1>2, Sizes
  <2> QED  BY <1>2, <2>1, PolyTypes DEF Ext, PolyRows
<1> QED  BY <1>1, <1>2

\* So is every term of a row of a product.
LEMMA ExtTermsType ==
  ASSUME NEW x \in PolyRows, NEW y \in PolyRows, NEW k \in -1..K - 1
  PROVE  /\ ExtTerms(x, y, k) \in PolyRows /\ RowSum(ExtTerms(x, y, k)) \in IntPoly
         /\ \A j \in 0..K - 1 : /\ k - j \in -K..K - 1 /\ Ext(x, k - j) \in IntPoly /\ y[j] \in IntPoly
                                /\ ExtTerms(x, y, k)[j] = Whole(Ext(x, k - j), y[j])
<1>1. ASSUME NEW j \in 0..K - 1
      PROVE  /\ k - j \in -K..K - 1 /\ Ext(x, k - j) \in IntPoly /\ y[j] \in IntPoly
             /\ Whole(Ext(x, k - j), y[j]) \in IntPoly
  <2>1. k - j \in -K..K - 1 /\ y[j] \in IntPoly
    BY Sizes DEF PolyRows
  <2>2. Ext(x, k - j) \in IntPoly
    BY <2>1, ExtType
  <2> QED  BY <2>1, <2>2, WholeProduct
<1>2. ExtTerms(x, y, k) \in PolyRows
  BY <1>1 DEF ExtTerms, PolyRows
<1> QED  BY <1>1, <1>2, RowSumType DEF ExtTerms

\* A product of ring elements is one.
LEMMA IntProductType ==
  ASSUME NEW x \in PolyRows, NEW y \in PolyRows
  PROVE  IntProduct(x, y) \in PolyRows
<1>1. \A k \in 0..K - 1 : k \in -1..K - 1
  BY Sizes
<1> QED  BY <1>1, ExtTermsType DEF IntProduct, PolyRows

\* The operations on ring elements have their types.
LEMMA RingOpTypes ==
  /\ \A x, y \in PolyRows : RingPlus(x, y) \in PolyRows
  /\ \A c \in Int, x \in PolyRows : RingTimes(c, x) \in PolyRows
  /\ \A x \in PolyRows : RingX(x) \in PolyRows /\ RingY(x) \in PolyRows
  /\ \A c \in Int : RingConst(c) \in PolyRows
<1>0. K - 1 \in 0..K - 1 /\ \A k \in 0..K - 1 : k # 0 => k - 1 \in 0..K - 1
  BY Sizes
<1>1. ASSUME NEW x \in PolyRows, NEW y \in PolyRows PROVE RingPlus(x, y) \in PolyRows
  BY PolyTypes DEF RingPlus, PolyRows
<1>2. ASSUME NEW x \in PolyRows, NEW c \in Int PROVE RingTimes(c, x) \in PolyRows
  BY PolyTypes DEF RingTimes, PolyRows
<1>3. ASSUME NEW x \in PolyRows PROVE RingX(x) \in PolyRows
  BY PolyTypes DEF RingX, PolyRows
<1>4. ASSUME NEW x \in PolyRows PROVE RingY(x) \in PolyRows
  BY <1>0, PolyTypes DEF RingY, PolyRows
<1>5. ASSUME NEW c \in Int PROVE RingConst(c) \in PolyRows
  BY PolyTypes DEF RingConst, PolyRows
<1> QED  BY <1>1, <1>2, <1>3, <1>4, <1>5

\* The continuation is linear.
LEMMA ExtLinear ==
  ASSUME NEW x \in PolyRows, NEW l \in -K..K - 1
  PROVE  /\ \A y \in PolyRows : Ext(RingPlus(x, y), l) = PolyPlus(Ext(x, l), Ext(y, l))
         /\ \A c \in Int : Ext(RingTimes(c, x), l) = PolyTimes(c, Ext(x, l))
         /\ Ext(RingX(x), l) = Shift(Ext(x, l))
<1>1. CASE l >= 0
  <2>1. l \in 0..K - 1
    BY <1>1, Sizes
  <2> QED  BY <1>1, <2>1 DEF Ext, RingPlus, RingTimes, RingX
<1>2. CASE ~(l >= 0)
  <2>1. PICK k \in 0..K - 1 : k = l + K
    BY <1>2, Sizes
  <2>2. x[k] \in IntPoly /\ \A y \in PolyRows : y[k] \in IntPoly
    BY DEF PolyRows
  <2>3. \A y : Ext(y, l) = Twist(y[k])
    BY <1>2, <2>1 DEF Ext
  <2>4. /\ \A y : RingPlus(x, y)[k] = PolyPlus(x[k], y[k])
        /\ \A c : RingTimes(c, x)[k] = PolyTimes(c, x[k])
        /\ RingX(x)[k] = Shift(x[k])
    BY DEF RingPlus, RingTimes, RingX
  <2> QED  BY <2>2, <2>3, <2>4, TwistLinear
<1> QED  BY <1>1, <1>2

\* One row further, and times Y.
LEMMA ExtShifted ==
  ASSUME NEW x \in PolyRows
  PROVE  /\ \A l \in -(K - 1)..K - 1 : Ext(RingY(x), l) = Ext(x, l - 1)
         /\ \A l \in 0..K - 1 : Twist(Ext(x, l)) = Ext(x, l - K)
<1>1. ASSUME NEW l \in -(K - 1)..K - 1 PROVE Ext(RingY(x), l) = Ext(x, l - 1)
  <2>1. CASE l > 0
    <3>1. l \in 0..K - 1 /\ l # 0 /\ l >= 0 /\ l - 1 >= 0
      BY <2>1, Sizes
    <3> QED  BY <3>1 DEF Ext, RingY
  <2>2. CASE l = 0
    <3>1. 0 \in 0..K - 1 /\ ~(l - 1 >= 0) /\ (l - 1) + K = K - 1 /\ l >= 0
      BY <2>2, Sizes
    <3> QED  BY <2>2, <3>1 DEF Ext, RingY
  <2>3. CASE l < 0
    <3>1. l + K \in 0..K - 1 /\ l + K # 0 /\ ~(l >= 0) /\ ~(l - 1 >= 0) /\ (l + K) - 1 = (l - 1) + K
      BY <2>3, Sizes
    <3>2. RingY(x)[l + K] = x[(l + K) - 1]
      BY <3>1 DEF RingY
    <3> QED  BY <3>1, <3>2 DEF Ext
  <2> QED  BY <2>1, <2>2, <2>3, Sizes
<1>2. ASSUME NEW l \in 0..K - 1 PROVE Twist(Ext(x, l)) = Ext(x, l - K)
  <2>1. ~(l - K >= 0) /\ (l - K) + K = l
    BY Sizes
  <2> QED  BY <2>1 DEF Ext
<1> QED  BY <1>1, <1>2

\* The product is linear in its first factor, and X and Y can be taken out.
LEMMA ProductLinear ==
  ASSUME NEW x \in PolyRows, NEW y \in PolyRows
  PROVE  /\ \A z \in PolyRows : IntProduct(RingPlus(x, z), y) = RingPlus(IntProduct(x, y), IntProduct(z, y))
         /\ \A c \in Int : IntProduct(RingTimes(c, x), y) = RingTimes(c, IntProduct(x, y))
         /\ IntProduct(RingX(x), y) = RingX(IntProduct(x, y))
<1>0. \A k \in 0..K - 1 : k \in -1..K - 1
  BY Sizes
<1>1. ASSUME NEW z \in PolyRows, NEW k \in 0..K - 1
      PROVE  RowSum(ExtTerms(RingPlus(x, z), y, k))
               = PolyPlus(RowSum(ExtTerms(x, y, k)), RowSum(ExtTerms(z, y, k)))
  <2>1. k \in -1..K - 1 /\ RingPlus(x, z) \in PolyRows
    BY <1>0, RingOpTypes
  <2>2. ASSUME NEW j \in 0..K - 1
        PROVE  ExtTerms(RingPlus(x, z), y, k)[j] = PolyPlus(ExtTerms(x, y, k)[j], ExtTerms(z, y, k)[j])
    <3>1. Ext(RingPlus(x, z), k - j) = PolyPlus(Ext(x, k - j), Ext(z, k - j))
      BY <2>1, ExtTermsType, ExtLinear
    <3>2. PICK f \in IntPoly, g \in IntPoly, h \in IntPoly :
            f = Ext(x, k - j) /\ g = Ext(z, k - j) /\ h = y[j]
      BY <2>1, ExtTermsType
    <3>3. /\ ExtTerms(RingPlus(x, z), y, k)[j] = Whole(PolyPlus(f, g), h)
          /\ ExtTerms(x, y, k)[j] = Whole(f, h) /\ ExtTerms(z, y, k)[j] = Whole(g, h)
      BY <3>1, <3>2 DEF ExtTerms
    <3> QED  BY <3>3, WholePlus
  <2> QED  BY <2>1, <2>2, ExtTermsType, RowSumPlus
<1>2. ASSUME NEW c \in Int, NEW k \in 0..K - 1
      PROVE  RowSum(ExtTerms(RingTimes(c, x), y, k)) = PolyTimes(c, RowSum(ExtTerms(x, y, k)))
  <2>1. k \in -1..K - 1 /\ RingTimes(c, x) \in PolyRows
    BY <1>0, RingOpTypes
  <2>2. ASSUME NEW j \in 0..K - 1
        PROVE  ExtTerms(RingTimes(c, x), y, k)[j] = PolyTimes(c, ExtTerms(x, y, k)[j])
    <3>1. Ext(RingTimes(c, x), k - j) = PolyTimes(c, Ext(x, k - j))
      BY <2>1, ExtTermsType, ExtLinear
    <3>2. PICK f \in IntPoly, h \in IntPoly : f = Ext(x, k - j) /\ h = y[j]
      BY <2>1, ExtTermsType
    <3>3. /\ ExtTerms(RingTimes(c, x), y, k)[j] = Whole(PolyTimes(c, f), h)
          /\ ExtTerms(x, y, k)[j] = Whole(f, h)
      BY <3>1, <3>2 DEF ExtTerms
    <3> QED  BY <3>3, WholeTimes
  <2> QED  BY <2>1, <2>2, ExtTermsType, RowSumTimes
<1>3. ASSUME NEW k \in 0..K - 1
      PROVE  RowSum(ExtTerms(RingX(x), y, k)) = Shift(RowSum(ExtTerms(x, y, k)))
  <2>1. k \in -1..K - 1 /\ RingX(x) \in PolyRows
    BY <1>0, RingOpTypes
  <2>2. ASSUME NEW j \in 0..K - 1
        PROVE  ExtTerms(RingX(x), y, k)[j] = Shift(ExtTerms(x, y, k)[j])
    <3>1. Ext(RingX(x), k - j) = Shift(Ext(x, k - j))
      BY <2>1, ExtTermsType, ExtLinear
    <3>2. PICK f \in IntPoly, h \in IntPoly : f = Ext(x, k - j) /\ h = y[j]
      BY <2>1, ExtTermsType
    <3>3. ExtTerms(RingX(x), y, k)[j] = Whole(Shift(f), h) /\ ExtTerms(x, y, k)[j] = Whole(f, h)
      BY <3>1, <3>2 DEF ExtTerms
    <3> QED  BY <3>3, WholeShift
  <2> QED  BY <2>1, <2>2, ExtTermsType, RowSumShift
<1> QED  BY <1>1, <1>2, <1>3 DEF IntProduct, RingPlus, RingTimes, RingX

\* Y times a product has, in each row, the terms of the row before.
LEMMA ProductTimesY ==
  ASSUME NEW x \in PolyRows, NEW y \in PolyRows, NEW k \in 0..K - 1
  PROVE  RingY(IntProduct(x, y))[k] = RowSum(ExtTerms(x, y, k - 1))
<1>1. CASE k # 0
  <2>1. k - 1 \in 0..K - 1
    BY <1>1, Sizes
  <2> QED  BY <1>1, <2>1 DEF RingY, IntProduct
<1>2. CASE k = 0
  <2>1. K - 1 \in 0..K - 1 /\ K - 1 \in -1..K - 1 /\ k - 1 \in -1..K - 1
    BY <1>2, Sizes
  <2>2. ASSUME NEW j \in 0..K - 1
        PROVE  ExtTerms(x, y, k - 1)[j] = Twist(ExtTerms(x, y, K - 1)[j])
    <3>1. (K - 1) - j \in 0..K - 1 /\ ((K - 1) - j) - K = (k - 1) - j
      BY <1>2, Sizes
    <3>2. Twist(Ext(x, (K - 1) - j)) = Ext(x, (k - 1) - j)
      BY <3>1, ExtShifted
    <3>3. PICK f \in IntPoly, h \in IntPoly : f = Ext(x, (K - 1) - j) /\ h = y[j]
      BY <2>1, ExtTermsType
    <3>4. ExtTerms(x, y, k - 1)[j] = Whole(Twist(f), h) /\ ExtTerms(x, y, K - 1)[j] = Whole(f, h)
      BY <3>2, <3>3 DEF ExtTerms
    <3> QED  BY <3>4, WholeTwist
  <2>3. RowSum(ExtTerms(x, y, k - 1)) = Twist(RowSum(ExtTerms(x, y, K - 1)))
    BY <2>1, <2>2, ExtTermsType, RowSumTwist
  <2> QED  BY <1>2, <2>1, <2>3 DEF RingY, IntProduct
<1> QED  BY <1>1, <1>2

\* Y in the first factor.
LEMMA ProductY ==
  ASSUME NEW x \in PolyRows, NEW y \in PolyRows
  PROVE  IntProduct(RingY(x), y) = RingY(IntProduct(x, y))
<1>1. ASSUME NEW k \in 0..K - 1 PROVE RowSum(ExtTerms(RingY(x), y, k)) = RowSum(ExtTerms(x, y, k - 1))
  <2>1. ASSUME NEW j \in 0..K - 1 PROVE ExtTerms(RingY(x), y, k)[j] = ExtTerms(x, y, k - 1)[j]
    <3>1. k - j \in -(K - 1)..K - 1 /\ (k - j) - 1 = (k - 1) - j
      BY Sizes
    <3>2. Ext(RingY(x), k - j) = Ext(x, (k - 1) - j)
      BY <3>1, ExtShifted
    <3> QED  BY <3>2 DEF ExtTerms
  <2>2. ExtTerms(RingY(x), y, k) = ExtTerms(x, y, k - 1)
    BY <2>1 DEF ExtTerms
  <2> QED  BY <2>2
<1>2. \A k \in 0..K - 1 : IntProduct(RingY(x), y)[k] = RingY(IntProduct(x, y))[k]
  BY <1>1, ProductTimesY DEF IntProduct
<1> QED  BY <1>2 DEF IntProduct, RingY

\* And in its second factor.
LEMMA ProductLinear2 ==
  ASSUME NEW x \in PolyRows, NEW y \in PolyRows
  PROVE  /\ \A z \in PolyRows : IntProduct(x, RingPlus(y, z)) = RingPlus(IntProduct(x, y), IntProduct(x, z))
         /\ IntProduct(x, RingX(y)) = RingX(IntProduct(x, y))
<1>0. \A k \in 0..K - 1 : k \in -1..K - 1
  BY Sizes
<1>1. ASSUME NEW z \in PolyRows, NEW k \in 0..K - 1
      PROVE  RowSum(ExtTerms(x, RingPlus(y, z), k))
               = PolyPlus(RowSum(ExtTerms(x, y, k)), RowSum(ExtTerms(x, z, k)))
  <2>1. k \in -1..K - 1 /\ RingPlus(y, z) \in PolyRows
    BY <1>0, RingOpTypes
  <2>2. ASSUME NEW j \in 0..K - 1
        PROVE  ExtTerms(x, RingPlus(y, z), k)[j] = PolyPlus(ExtTerms(x, y, k)[j], ExtTerms(x, z, k)[j])
    <3>1. RingPlus(y, z)[j] = PolyPlus(y[j], z[j])
      BY DEF RingPlus
    <3>2. PICK f \in IntPoly, g \in IntPoly, h \in IntPoly :
            f = Ext(x, k - j) /\ g = y[j] /\ h = z[j]
      BY <2>1, ExtTermsType
    <3>3. /\ ExtTerms(x, RingPlus(y, z), k)[j] = Whole(f, PolyPlus(g, h))
          /\ ExtTerms(x, y, k)[j] = Whole(f, g) /\ ExtTerms(x, z, k)[j] = Whole(f, h)
      BY <3>1, <3>2 DEF ExtTerms
    <3> QED  BY <3>3, WholePlus2
  <2> QED  BY <2>1, <2>2, ExtTermsType, RowSumPlus
<1>2. ASSUME NEW k \in 0..K - 1
      PROVE  RowSum(ExtTerms(x, RingX(y), k)) = Shift(RowSum(ExtTerms(x, y, k)))
  <2>1. k \in -1..K - 1 /\ RingX(y) \in PolyRows
    BY <1>0, RingOpTypes
  <2>2. ASSUME NEW j \in 0..K - 1
        PROVE  ExtTerms(x, RingX(y), k)[j] = Shift(ExtTerms(x, y, k)[j])
    <3>1. RingX(y)[j] = Shift(y[j])
      BY DEF RingX
    <3>2. PICK f \in IntPoly, g \in IntPoly : f = Ext(x, k - j) /\ g = y[j]
      BY <2>1, ExtTermsType
    <3>3. ExtTerms(x, RingX(y), k)[j] = Whole(f, Shift(g)) /\ ExtTerms(x, y, k)[j] = Whole(f, g)
      BY <3>1, <3>2 DEF ExtTerms
    <3> QED  BY <3>3, WholeShift2
  <2> QED  BY <2>1, <2>2, ExtTermsType, RowSumShift
<1> QED  BY <1>1, <1>2 DEF IntProduct, RingPlus, RingX

\* A factor Y moves the terms by one row, and the last one comes first.
LEMMA ProductY2 ==
  ASSUME NEW x \in PolyRows, NEW y \in PolyRows
  PROVE  IntProduct(x, RingY(y)) = RingY(IntProduct(x, y))
<1>0. K - 1 \in 0..K - 1 /\ 0 \in 0..K - 1 /\ RingY(y) \in PolyRows
  BY Sizes, RingOpTypes
<1>1. ASSUME NEW k \in 0..K - 1 PROVE RowSum(ExtTerms(x, RingY(y), k)) = RowSum(ExtTerms(x, y, k - 1))
  <2> DEFINE F == ExtTerms(x, RingY(y), k)
             G == ExtTerms(x, y, k - 1)
  <2>0. k \in -1..K - 1 /\ k - 1 \in -1..K - 1
    BY Sizes
  <2>1. F \in PolyRows /\ G \in PolyRows
    BY <1>0, <2>0, ExtTermsType
  <2>2. F[0] = G[K - 1]
    <3>1. Ext(x, k - 0) \in IntPoly /\ y[K - 1] \in IntPoly
      BY <1>0, <2>0, ExtTermsType
    <3>2. F[0] = Whole(Ext(x, k - 0), Twist(y[K - 1]))
      BY <1>0 DEF ExtTerms, RingY
    <3>3. G[K - 1] = Whole(Ext(x, (k - 1) - (K - 1)), y[K - 1])
      BY <1>0 DEF ExtTerms
    <3>4. Ext(x, (k - 1) - (K - 1)) = Twist(Ext(x, k - 0))
      <4>1. (k - 1) - (K - 1) = k - K /\ k - 0 = k
        BY Sizes
      <4> QED  BY <4>1, ExtShifted
    <3> QED  BY <3>1, <3>2, <3>3, <3>4, WholeTwist, WholeTwist2
  <2>3. ASSUME NEW j \in 1..K - 1 PROVE F[j] = G[j - 1]
    <3>1. j \in 0..K - 1 /\ j - 1 \in 0..K - 1 /\ j # 0 /\ (k - 1) - (j - 1) = k - j
      BY Sizes
    <3>2. RingY(y)[j] = y[j - 1]
      BY <3>1 DEF RingY
    <3> QED  BY <3>1, <3>2 DEF ExtTerms
  <2> HIDE DEF F, G
  <2> QED  BY <2>1, <2>2, <2>3, RowSumRotated DEF F, G
<1>2. \A k \in 0..K - 1 : IntProduct(x, RingY(y))[k] = RingY(IntProduct(x, y))[k]
  BY <1>1, ProductTimesY DEF IntProduct
<1> QED  BY <1>2 DEF IntProduct, RingY

\* The second factor a constant.
LEMMA ProductConst ==
  ASSUME NEW x \in PolyRows, NEW c \in Int
  PROVE  IntProduct(x, RingConst(c)) = RingTimes(c, x)
<1> DEFINE y == RingConst(c)
<1>0. /\ 0 \in 0..K - 1 /\ y \in PolyRows /\ y[0] = PolyConst(c)
      /\ \A j \in 0..K - 1 : j # 0 => y[j] = PolyConst(0)
  BY Sizes, RingOpTypes DEF RingConst
<1> HIDE DEF y
<1>1. ASSUME NEW k \in 0..K - 1 PROVE RowSum(ExtTerms(x, y, k)) = PolyTimes(c, x[k])
  <2>0. k \in -1..K - 1 /\ k - 0 = k /\ k >= 0 /\ 0 \in Int
    BY Sizes
  <2>1. ASSUME NEW j \in 0..K - 1, NEW d \in 0..N - 1, j # 0
        PROVE  ExtTerms(x, y, k)[j][d] = 0
    <3>1. PICK f \in IntPoly : f = Ext(x, k - j)
      BY <1>0, <2>0, ExtTermsType
    <3>2. ExtTerms(x, y, k)[j] = PolyTimes(0, f)
      BY <1>0, <2>0, <2>1, <3>1, WholeConst DEF ExtTerms
    <3>3. f[d] \in Int
      BY DEF IntPoly
    <3> QED  BY <3>2, <3>3 DEF PolyTimes
  <2>2. ExtTerms(x, y, k)[0] = PolyTimes(c, x[k])
    <3>1. Ext(x, k - 0) = x[k] /\ x[k] \in IntPoly
      BY <2>0 DEF Ext, PolyRows
    <3> QED  BY <1>0, <3>1, WholeConst DEF ExtTerms
  <2> QED  BY <1>0, <2>0, <2>1, <2>2, ExtTermsType, RowSumOfOne
<1> QED  BY <1>1 DEF IntProduct, RingTimes, y

----------------------------------------------------------------------------
(* Two products in either order.                                           *)

\* Additive, and X and Y can be taken out.
Linear(f) ==
  /\ f \in [PolyRows -> PolyRows]
  /\ \A x, y \in PolyRows : f[RingPlus(x, y)] = RingPlus(f[x], f[y])
  /\ \A x \in PolyRows : f[RingX(x)] = RingX(f[x]) /\ f[RingY(x)] = RingY(f[x])

\* The element with f in its first row.
FirstRow(f) == [k \in 0..K - 1 |-> IF k = 0 THEN f ELSE PolyConst(0)]

\* Zero.
LEMMA ZeroIsFixed ==
  /\ PolyConst(0) \in IntPoly /\ Shift(PolyConst(0)) = PolyConst(0) /\ Twist(PolyConst(0)) = PolyConst(0)
  /\ \A f \in IntPoly : PolyPlus(f, PolyConst(0)) = f /\ PolyPlus(PolyConst(0), f) = f
<1>0. N - 1 \in 0..N - 1 /\ \A d \in 0..N - 1 : d # 0 => d - 1 \in 0..N - 1
  BY SizesAssumption
<1>1. PolyConst(0) = [d \in 0..N - 1 |-> 0] /\ PolyConst(0) \in IntPoly
  BY PolyTypes DEF PolyConst
<1>2. Shift(PolyConst(0)) = PolyConst(0)
  BY <1>0, <1>1 DEF Shift
<1>3. ASSUME NEW f \in IntPoly PROVE PolyPlus(f, PolyConst(0)) = f /\ PolyPlus(PolyConst(0), f) = f
  <2>1. f = [d \in 0..N - 1 |-> f[d]] /\ \A d \in 0..N - 1 : f[d] \in Int
    BY DEF IntPoly
  <2>2. \A d \in 0..N - 1 : PolyConst(0)[d] = 0
    BY <1>1
  <2>3. ASSUME NEW d \in 0..N - 1
        PROVE  PolyPlus(f, PolyConst(0))[d] = f[d] /\ PolyPlus(PolyConst(0), f)[d] = f[d]
    BY <2>1, <2>2 DEF PolyPlus
  <2> QED  BY <2>1, <2>3 DEF PolyPlus
<1> QED  BY <1>1, <1>2, <1>3 DEF Twist

\* What is linear is known from the constants, by Horner's rule in X and then in Y.
LEMMA LinearDetermined ==
  ASSUME NEW F, NEW G, Linear(F), Linear(G), \A c \in Int : F[RingConst(c)] = G[RingConst(c)]
  PROVE  F = G
<1>0. /\ N \in Nat \ {0} /\ K \in Nat \ {0} /\ PolyConst(0) \in IntPoly
      /\ F \in [PolyRows -> PolyRows] /\ G \in [PolyRows -> PolyRows]
  BY Sizes, SizesAssumption, ZeroIsFixed DEF Linear
<1>r. \A f \in IntPoly : FirstRow(f) \in PolyRows
  BY <1>0 DEF FirstRow, PolyRows
<1> DEFINE Below(n) == {f \in IntPoly : \A d \in n..N - 1 : f[d] = 0}
           U == {n \in 0..N : \A f \in Below(n) : F[FirstRow(f)] = G[FirstRow(f)]}
<1>1. 0 \in U
  <2>1. ASSUME NEW f \in Below(0) PROVE F[FirstRow(f)] = G[FirstRow(f)]
    <3>1. f = PolyConst(0)
      BY DEF IntPoly, PolyConst
    <3>2. FirstRow(f) = RingConst(0)
      BY <3>1 DEF FirstRow, RingConst
    <3> QED  BY <3>2
  <2> QED  BY <1>0, <2>1
<1>2. ASSUME NEW n \in 0..N - 1, n \in U PROVE n + 1 \in U
  <2>1. ASSUME NEW f \in Below(n + 1) PROVE F[FirstRow(f)] = G[FirstRow(f)]
    <3> DEFINE g == [d \in 0..N - 1 |-> IF d = N - 1 THEN 0 ELSE f[d + 1]]
    <3>0. /\ f \in IntPoly /\ \A d \in 0..N - 1 : f[d] \in Int
          /\ 0 \in 0..N - 1 /\ N - 1 \in 0..N - 1
          /\ \A d \in 0..N - 1 : d # N - 1 => d + 1 \in 0..N - 1
          /\ \A d \in 0..N - 1 : d # 0 => d - 1 \in 0..N - 1 /\ d - 1 # N - 1 /\ (d - 1) + 1 = d
      BY <1>0 DEF IntPoly
    <3>1. g \in IntPoly
      BY <3>0 DEF IntPoly
    <3>2. g \in Below(n)
      <4>1. ASSUME NEW d \in n..N - 1 PROVE g[d] = 0
        <5>1. d = N - 1 \/ d + 1 \in (n + 1)..N - 1
          BY <1>0
        <5> QED  BY <5>1
      <4> HIDE DEF g
      <4> QED  BY <3>1, <4>1
    <3>3. f = PolyPlus(PolyConst(f[0]), Shift(g))
      <4>1. ASSUME NEW d \in 0..N - 1 PROVE f[d] = PolyPlus(PolyConst(f[0]), Shift(g))[d]
        <5>1. CASE d = 0
          BY <3>0, <5>1 DEF PolyPlus, PolyConst, Shift
        <5>2. CASE d # 0
          BY <3>0, <5>2 DEF PolyPlus, PolyConst, Shift
        <5> QED  BY <5>1, <5>2
      <4> HIDE DEF g
      <4> QED  BY <3>0, <4>1 DEF PolyPlus, IntPoly
    <3> HIDE DEF g
    <3>4. FirstRow(f) = RingPlus(RingConst(f[0]), RingX(FirstRow(g)))
      <4>1. ASSUME NEW k \in 0..K - 1
            PROVE  FirstRow(f)[k] = RingPlus(RingConst(f[0]), RingX(FirstRow(g)))[k]
        BY <3>3, ZeroIsFixed DEF FirstRow, RingPlus, RingConst, RingX
      <4> QED  BY <4>1 DEF FirstRow, RingPlus
    <3>5. F[FirstRow(g)] = G[FirstRow(g)]
      BY <1>2, <3>2
    <3>6. RingConst(f[0]) \in PolyRows /\ FirstRow(g) \in PolyRows /\ RingX(FirstRow(g)) \in PolyRows /\ f[0] \in Int
      BY <1>r, <3>0, <3>1, RingOpTypes
    <3>7. F[FirstRow(f)] = RingPlus(F[RingConst(f[0])], RingX(F[FirstRow(g)]))
      BY <3>4, <3>6 DEF Linear
    <3>8. G[FirstRow(f)] = RingPlus(G[RingConst(f[0])], RingX(G[FirstRow(g)]))
      BY <3>4, <3>6 DEF Linear
    <3> QED  BY <3>5, <3>6, <3>7, <3>8
  <2>2. n + 1 \in 0..N
    BY <1>0
  <2> QED  BY <2>1, <2>2
<1>3. \A f \in IntPoly : F[FirstRow(f)] = G[FirstRow(f)]
  <2>1. 0..N \subseteq U
    <3> HIDE DEF U
    <3> QED  BY <1>0, <1>1, <1>2, UpTo
  <2>2. N \in U /\ \A f \in IntPoly : f \in Below(N)
    BY <1>0, <2>1
  <2> QED  BY <2>2
<1> HIDE DEF U, Below
<1> DEFINE Rest(n) == {x \in PolyRows : \A k \in n..K - 1 : x[k] = PolyConst(0)}
           V == {n \in 0..K : \A x \in Rest(n) : F[x] = G[x]}
<1>4. 0 \in V
  <2>1. ASSUME NEW x \in Rest(0) PROVE F[x] = G[x]
    <3>1. \A k \in 0..K - 1 : x[k] = RingConst(0)[k]
      BY DEF RingConst
    <3>2. x = RingConst(0)
      BY <3>1 DEF PolyRows, RingConst
    <3> QED  BY <3>2
  <2> QED  BY <1>0, <2>1
<1>5. ASSUME NEW n \in 0..K - 1, n \in V PROVE n + 1 \in V
  <2>1. ASSUME NEW x \in Rest(n + 1) PROVE F[x] = G[x]
    <3> DEFINE y == [k \in 0..K - 1 |-> IF k = K - 1 THEN PolyConst(0) ELSE x[k + 1]]
    <3>0. /\ x \in PolyRows /\ \A k \in 0..K - 1 : x[k] \in IntPoly
          /\ 0 \in 0..K - 1 /\ K - 1 \in 0..K - 1
          /\ \A k \in 0..K - 1 : k # K - 1 => k + 1 \in 0..K - 1
          /\ \A k \in 0..K - 1 : k # 0 => k - 1 \in 0..K - 1 /\ k - 1 # K - 1 /\ (k - 1) + 1 = k
      BY <1>0 DEF PolyRows
    <3>1. y \in PolyRows
      BY <1>0, <3>0 DEF PolyRows
    <3>2. y \in Rest(n)
      <4>1. ASSUME NEW k \in n..K - 1 PROVE y[k] = PolyConst(0)
        <5>1. k \in 0..K - 1 /\ (k = K - 1 \/ k + 1 \in (n + 1)..K - 1)
          BY <1>0
        <5> QED  BY <5>1
      <4> HIDE DEF y
      <4> QED  BY <3>1, <4>1
    <3>3. x = RingPlus(FirstRow(x[0]), RingY(y))
      <4>1. ASSUME NEW k \in 0..K - 1 PROVE x[k] = RingPlus(FirstRow(x[0]), RingY(y))[k]
        <5>1. CASE k = 0
          <6>1. RingY(y)[k] = PolyConst(0)
            BY <3>0, <5>1, ZeroIsFixed DEF RingY
          <6> QED  BY <3>0, <5>1, <6>1, ZeroIsFixed DEF RingPlus, FirstRow
        <5>2. CASE k # 0
          <6>1. RingY(y)[k] = x[k]
            BY <3>0, <5>2 DEF RingY
          <6> QED  BY <3>0, <5>2, <6>1, ZeroIsFixed DEF RingPlus, FirstRow
        <5> QED  BY <5>1, <5>2
      <4> HIDE DEF y
      <4> QED  BY <3>0, <4>1 DEF RingPlus, PolyRows
    <3> HIDE DEF y
    <3>4. F[y] = G[y]
      BY <1>5, <3>2
    <3>5. FirstRow(x[0]) \in PolyRows /\ RingY(y) \in PolyRows /\ F[FirstRow(x[0])] = G[FirstRow(x[0])]
      BY <1>r, <1>3, <3>0, <3>1, RingOpTypes
    <3>6. F[x] = RingPlus(F[FirstRow(x[0])], RingY(F[y]))
      BY <3>1, <3>3, <3>5 DEF Linear
    <3>7. G[x] = RingPlus(G[FirstRow(x[0])], RingY(G[y]))
      BY <3>1, <3>3, <3>5 DEF Linear
    <3> QED  BY <3>4, <3>5, <3>6, <3>7
  <2>2. n + 1 \in 0..K
    BY <1>0
  <2> QED  BY <2>1, <2>2
<1>6. \A x \in PolyRows : F[x] = G[x]
  <2>1. 0..K \subseteq V
    <3> HIDE DEF V
    <3> QED  BY <1>0, <1>4, <1>5, UpTo
  <2>2. \A k : ~(k \in K..K - 1)
    BY <1>0
  <2>3. K \in V
    <3>1. K \in 0..K
      BY <1>0
    <3> HIDE DEF V
    <3> QED  BY <2>1, <3>1
  <2> QED  BY <2>2, <2>3
<1> QED  BY <1>0, <1>6

\* The factors of a product of three can change places.
LEMMA ProductsCommute ==
  ASSUME NEW x \in PolyRows, NEW y \in PolyRows, NEW z \in PolyRows
  PROVE  IntProduct(IntProduct(x, y), z) = IntProduct(IntProduct(x, z), y)
<1> DEFINE xy == IntProduct(x, y)
           F == [u \in PolyRows |-> IntProduct(xy, u)]
           G == [u \in PolyRows |-> IntProduct(IntProduct(x, u), y)]
<1>0. xy \in PolyRows
  BY IntProductType
<1>1. Linear(F)
  <2> HIDE DEF xy
  <2>1. F \in [PolyRows -> PolyRows]
    BY <1>0, IntProductType
  <2>2. ASSUME NEW u \in PolyRows, NEW w \in PolyRows PROVE F[RingPlus(u, w)] = RingPlus(F[u], F[w])
    BY <1>0, RingOpTypes, ProductLinear2
  <2>3. ASSUME NEW u \in PolyRows PROVE F[RingX(u)] = RingX(F[u]) /\ F[RingY(u)] = RingY(F[u])
    BY <1>0, RingOpTypes, ProductLinear2, ProductY2
  <2> HIDE DEF F
  <2> QED  BY <2>1, <2>2, <2>3 DEF Linear
<1>2. Linear(G)
  <2>1. G \in [PolyRows -> PolyRows]
    BY IntProductType
  <2>2. ASSUME NEW u \in PolyRows, NEW w \in PolyRows PROVE G[RingPlus(u, w)] = RingPlus(G[u], G[w])
    <3>1. IntProduct(x, RingPlus(u, w)) = RingPlus(IntProduct(x, u), IntProduct(x, w))
      BY ProductLinear2
    <3>2. PICK p \in PolyRows, q \in PolyRows : p = IntProduct(x, u) /\ q = IntProduct(x, w)
      BY IntProductType
    <3>3. IntProduct(RingPlus(p, q), y) = RingPlus(IntProduct(p, y), IntProduct(q, y))
      BY ProductLinear
    <3> QED  BY <3>1, <3>2, <3>3, RingOpTypes
  <2>3. ASSUME NEW u \in PolyRows PROVE G[RingX(u)] = RingX(G[u]) /\ G[RingY(u)] = RingY(G[u])
    <3>1. IntProduct(x, RingX(u)) = RingX(IntProduct(x, u)) /\ IntProduct(x, RingY(u)) = RingY(IntProduct(x, u))
      BY ProductLinear2, ProductY2
    <3> QED  BY <3>1, RingOpTypes, IntProductType, ProductLinear, ProductY
  <2> HIDE DEF G
  <2> QED  BY <2>1, <2>2, <2>3 DEF Linear
<1>3. ASSUME NEW c \in Int PROVE F[RingConst(c)] = G[RingConst(c)]
  <2>1. RingConst(c) \in PolyRows
    BY RingOpTypes
  <2>2. F[RingConst(c)] = RingTimes(c, xy)
    <3> HIDE DEF xy
    <3> QED  BY <1>0, <2>1, ProductConst
  <2>3. G[RingConst(c)] = IntProduct(RingTimes(c, x), y)
    BY <2>1, ProductConst
  <2> HIDE DEF F, G
  <2> QED  BY <2>2, <2>3, ProductLinear
<1>4. F = G
  <2> HIDE DEF F, G
  <2> QED  BY <1>1, <1>2, <1>3, LinearDetermined
<1>5. F[z] = IntProduct(xy, z) /\ G[z] = IntProduct(IntProduct(x, z), y)
  <2> HIDE DEF xy
  <2> QED  OBVIOUS
<1> HIDE DEF F, G
<1> QED  BY <1>4, <1>5

----------------------------------------------------------------------------
(* Modulo q.                                                               *)

SamePoly(f, g) == \A d \in 0..N - 1 : SameMod(f[d], g[d], Q)
SameRows(x, y) == \A k \in 0..K - 1 : SamePoly(x[k], y[k])

\* Congruence of ring elements is reflexive and transitive.
LEMMA SameRowsFacts ==
  /\ \A x \in PolyRows : SameRows(x, x)
  /\ \A x, y, z \in PolyRows : SameRows(x, y) /\ SameRows(y, z) => SameRows(x, z)
<1>1. ASSUME NEW x \in PolyRows, NEW k \in 0..K - 1, NEW d \in 0..N - 1
      PROVE  x[k][d] \in Int
  BY DEF PolyRows, IntPoly
<1>2. ASSUME NEW x \in PolyRows PROVE SameRows(x, x)
  BY <1>1, Moduli, SameModFacts DEF SameRows, SamePoly
<1>3. ASSUME NEW x \in PolyRows, NEW y \in PolyRows, NEW z \in PolyRows, SameRows(x, y), SameRows(y, z)
      PROVE  SameRows(x, z)
  <2>1. ASSUME NEW k \in 0..K - 1, NEW d \in 0..N - 1 PROVE SameMod(x[k][d], z[k][d], Q)
    <3>1. PICK n \in Int, c \in Int, t \in Int : n = x[k][d] /\ c = y[k][d] /\ t = z[k][d]
      BY <1>1
    <3>2. SameMod(n, c, Q) /\ SameMod(c, t, Q)
      BY <1>3, <3>1 DEF SameRows, SamePoly
    <3>3. SameMod(n, t, Q)
      BY <3>2, Moduli, SameModFacts
    <3> QED  BY <3>1, <3>3
  <2> QED  BY <2>1 DEF SameRows, SamePoly
<1> QED  BY <1>2, <1>3

\* Congruent elements stay so in a sum,
LEMMA SameSummed ==
  ASSUME NEW x \in PolyRows, NEW y \in PolyRows, NEW z \in PolyRows, SameRows(x, y)
  PROVE  SameRows(RingPlus(x, z), RingPlus(y, z))
<1>1. ASSUME NEW k \in 0..K - 1, NEW d \in 0..N - 1
      PROVE  SameMod(RingPlus(x, z)[k][d], RingPlus(y, z)[k][d], Q)
  <2>1. PICK n \in Int, c \in Int, t \in Int : n = x[k][d] /\ c = y[k][d] /\ t = z[k][d]
    BY DEF PolyRows, IntPoly
  <2>2. SameMod(n, c, Q) /\ SameMod(t, t, Q)
    BY <2>1, Moduli, SameModFacts DEF SameRows, SamePoly
  <2>3. SameMod(n + t, c + t, Q)
    BY <2>2, Moduli, SameModFacts
  <2> QED  BY <2>1, <2>3 DEF RingPlus, PolyPlus
<1> QED  BY <1>1 DEF SameRows, SamePoly

\* numbers when they are negated,
LEMMA SameNegated ==
  ASSUME NEW x \in Int, NEW y \in Int, SameMod(x, y, Q)
  PROVE  SameMod(-x, -y, Q)
<1>1. PICK c \in Int : c = -1
  OBVIOUS
<1>2. SameMod(c * x, c * y, Q)
  BY Moduli, SameModFacts
<1>3. c * x = -x /\ c * y = -y
  BY <1>1
<1> QED  BY <1>2, <1>3

\* polynomials times X
LEMMA ShiftSame ==
  ASSUME NEW f \in IntPoly, NEW u \in IntPoly, SamePoly(f, u)
  PROVE  SamePoly(Shift(f), Shift(u))
<1>0. N - 1 \in 0..N - 1 /\ \A d \in 0..N - 1 : d # 0 => d - 1 \in 0..N - 1
  BY SizesAssumption
<1>1. \A d \in 0..N - 1 : f[d] \in Int /\ u[d] \in Int /\ SameMod(f[d], u[d], Q)
  BY DEF IntPoly, SamePoly
<1>2. ASSUME NEW d \in 0..N - 1 PROVE SameMod(Shift(f)[d], Shift(u)[d], Q)
  <2>1. CASE d = 0
    <3>1. PICK x \in Int, y \in Int : x = f[N - 1] /\ y = u[N - 1] /\ SameMod(x, y, Q)
      BY <1>0, <1>1
    <3>2. SameMod(-x, -y, Q)
      BY <3>1, SameNegated
    <3> QED  BY <2>1, <3>1, <3>2 DEF Shift
  <2>2. CASE d # 0
    BY <1>0, <1>1, <2>2 DEF Shift
  <2> QED  BY <2>1, <2>2
<1> QED  BY <1>2 DEF SamePoly

\* and times X + 2.
LEMMA TwistSame ==
  ASSUME NEW f \in IntPoly, NEW u \in IntPoly, SamePoly(f, u)
  PROVE  SamePoly(Twist(f), Twist(u))
<1>1. PICK p \in IntPoly, q \in IntPoly : p = Shift(f) /\ q = Shift(u) /\ SamePoly(p, q)
  BY ShiftType, ShiftSame
<1>2. ASSUME NEW d \in 0..N - 1 PROVE SameMod(Twist(f)[d], Twist(u)[d], Q)
  <2>1. PICK x \in Int, y \in Int, z \in Int, w \in Int :
          /\ x = f[d] /\ y = u[d] /\ z = p[d] /\ w = q[d]
          /\ SameMod(x, y, Q) /\ SameMod(z, w, Q)
    BY <1>1 DEF SamePoly, IntPoly
  <2>2. PICK xx \in Int, yy \in Int : xx = x + x /\ yy = y + y /\ SameMod(xx, yy, Q)
    <3>1. SameMod(x + x, y + y, Q)
      BY <2>1, Moduli, SameModFacts
    <3>2. x + x \in Int /\ y + y \in Int
      OBVIOUS
    <3> QED  BY <3>1, <3>2
  <2>3. SameMod(xx + z, yy + w, Q)
    BY <2>1, <2>2, Moduli, SameModFacts
  <2>4. Twist(f)[d] = xx + z /\ Twist(u)[d] = yy + w
    BY <1>1, <2>1, <2>2 DEF Twist, PolyPlus
  <2> QED  BY <2>3, <2>4
<1> QED  BY <1>2 DEF SamePoly

\* poly_mul_x_plus_2 multiplies by X + 2, modulo q.
LEMMA TwistReduced ==
  ASSUME NEW f \in IntPoly
  PROVE  SamePoly(poly_mul_x_plus_2(f), Twist(f))
<1>1. ASSUME NEW d \in 0..N - 1 PROVE SameMod(poly_mul_x_plus_2(f)[d], Twist(f)[d], Q)
  <2>1. PICK x \in Int, y \in Int : x = f[d] /\ y = Shift(f)[d]
    BY ShiftType DEF IntPoly
  <2>2. poly_mul_x_plus_2(f)[d] = (2 * x + y) % Q
    BY <2>1 DEF poly_mul_x_plus_2, Shift
  <2>3. Twist(f)[d] = (x + x) + y
    BY <2>1 DEF Twist, PolyPlus
  <2>4. PICK n \in Int : n = 2 * x + y /\ n = (x + x) + y
    OBVIOUS
  <2> QED  BY <2>2, <2>3, <2>4, Reducing
<1> QED  BY <1>1 DEF SamePoly

\* Congruent polynomials have congruent cofactors,
LEMMA CofactorSame ==
  ASSUME NEW g \in IntPoly, NEW u \in IntPoly, SamePoly(g, u), NEW d \in 0..N - 1, NEW e \in 0..N - 1
  PROVE  SameMod(Cofactor(g, d, e), Cofactor(u, d, e), Q)
<1>1. \A n \in 0..N - 1 : g[n] \in Int /\ u[n] \in Int /\ SameMod(g[n], u[n], Q)
  BY DEF IntPoly, SamePoly
<1>2. CASE e <= d
  <2>1. d - e \in 0..N - 1
    BY <1>2, SizesAssumption
  <2> QED  BY <1>1, <1>2, <2>1 DEF Cofactor
<1>3. CASE ~(e <= d)
  <2>1. N + d - e \in 0..N - 1
    BY <1>3, SizesAssumption
  <2>2. PICK x \in Int, y \in Int : x = g[N + d - e] /\ y = u[N + d - e] /\ SameMod(x, y, Q)
    BY <1>1, <2>1
  <2>3. SameMod(-x, -y, Q)
    BY <2>2, SameNegated
  <2> QED  BY <1>3, <2>2, <2>3 DEF Cofactor
<1> QED  BY <1>2, <1>3

\* congruent products,
LEMMA WholeSame ==
  ASSUME NEW f \in IntPoly, NEW g \in IntPoly, NEW u \in IntPoly, NEW w \in IntPoly,
         SamePoly(f, u), SamePoly(g, w)
  PROVE  SamePoly(Whole(f, g), Whole(u, w))
<1>1. ASSUME NEW d \in 0..N - 1 PROVE SameMod(Whole(f, g)[d], Whole(u, w)[d], Q)
  <2>1. /\ Terms(f, g, d) \in Summands(N) /\ Terms(u, w, d) \in Summands(N)
        /\ \A e \in 0..N - 1 : /\ Cofactor(g, d, e) \in Int /\ Cofactor(w, d, e) \in Int
                               /\ Terms(f, g, d)[e] = f[e] * Cofactor(g, d, e)
                               /\ Terms(u, w, d)[e] = u[e] * Cofactor(w, d, e)
    BY TermsAt
  <2>2. ASSUME NEW e \in 0..N - 1 PROVE SameMod(Terms(f, g, d)[e], Terms(u, w, d)[e], Q)
    <3>1. PICK x \in Int, y \in Int : x = f[e] /\ y = u[e] /\ SameMod(x, y, Q)
      BY DEF IntPoly, SamePoly
    <3>2. PICK z \in Int, t \in Int : z = Cofactor(g, d, e) /\ t = Cofactor(w, d, e) /\ SameMod(z, t, Q)
      BY <2>1, CofactorSame
    <3>3. SameMod(x * z, y * t, Q)
      BY <3>1, <3>2, Moduli, SameModFacts
    <3> QED  BY <2>1, <3>1, <3>2, <3>3
  <2>3. SameMod(SumTo(Terms(f, g, d), N), SumTo(Terms(u, w, d), N), Q)
    BY <2>1, <2>2, Moduli, SizesAssumption, SumSameMod
  <2> QED  BY <2>3 DEF Whole
<1> QED  BY <1>1 DEF SamePoly

\* and congruent sums of rows.
LEMMA RowSumSame ==
  ASSUME NEW F \in PolyRows, NEW G \in PolyRows, SameRows(F, G)
  PROVE  SamePoly(RowSum(F), RowSum(G))
<1>1. ASSUME NEW d \in 0..N - 1 PROVE SameMod(RowSum(F)[d], RowSum(G)[d], Q)
  <2> DEFINE f == [j \in 0..K - 1 |-> F[j][d]]
             g == [j \in 0..K - 1 |-> G[j][d]]
  <2>1. f \in Summands(K) /\ g \in Summands(K)
    BY RowSumAt
  <2>2. \A j \in 0..K - 1 : SameMod(f[j], g[j], Q)
    BY DEF SameRows, SamePoly
  <2>3. RowSum(F)[d] = SumTo(f, K) /\ RowSum(G)[d] = SumTo(g, K)
    BY DEF RowSum
  <2> HIDE DEF f, g
  <2> QED  BY <2>1, <2>2, <2>3, SumSameMod, Sizes, Moduli
<1> QED  BY <1>1 DEF SamePoly

\* The product over the integers of congruent factors is congruent.
LEMMA IntProductSame ==
  ASSUME NEW x \in PolyRows, NEW y \in PolyRows, NEW u \in PolyRows, NEW w \in PolyRows,
         SameRows(x, u), SameRows(y, w)
  PROVE  SameRows(IntProduct(x, y), IntProduct(u, w))
<1>1. ASSUME NEW l \in -K..K - 1 PROVE SamePoly(Ext(x, l), Ext(u, l))
  <2>0. K \in Nat
    BY Sizes
  <2>1. CASE l >= 0
    <3>1. l \in 0..K - 1
      BY <2>0, <2>1
    <3> QED  BY <2>1, <3>1 DEF Ext, SameRows
  <2>2. CASE ~(l >= 0)
    <3>1. l + K \in 0..K - 1
      BY <2>0, <2>2
    <3>2. x[l + K] \in IntPoly /\ u[l + K] \in IntPoly /\ SamePoly(x[l + K], u[l + K])
      BY <3>1 DEF PolyRows, SameRows
    <3> QED  BY <2>2, <3>2, TwistSame DEF Ext
  <2> QED  BY <2>1, <2>2
<1>2. ASSUME NEW k \in 0..K - 1
      PROVE  SamePoly(RowSum(ExtTerms(x, y, k)), RowSum(ExtTerms(u, w, k)))
  <2>0. k \in -1..K - 1
    BY Sizes
  <2>1. ASSUME NEW j \in 0..K - 1 PROVE SamePoly(ExtTerms(x, y, k)[j], ExtTerms(u, w, k)[j])
    <3>1. PICK l \in -K..K - 1 : l = k - j
      BY <2>0, ExtTermsType
    <3>2. /\ Ext(x, l) \in IntPoly /\ y[j] \in IntPoly /\ Ext(u, l) \in IntPoly /\ w[j] \in IntPoly
          /\ ExtTerms(x, y, k)[j] = Whole(Ext(x, l), y[j])
          /\ ExtTerms(u, w, k)[j] = Whole(Ext(u, l), w[j])
      BY <2>0, <3>1, ExtTermsType
    <3>3. SamePoly(y[j], w[j]) /\ SamePoly(Ext(x, l), Ext(u, l))
      BY <1>1 DEF SameRows
    <3> QED  BY <3>2, <3>3, WholeSame
  <2>2. ExtTerms(x, y, k) \in PolyRows /\ ExtTerms(u, w, k) \in PolyRows
    BY <2>0, ExtTermsType
  <2>3. SameRows(ExtTerms(x, y, k), ExtTerms(u, w, k))
    BY <2>1 DEF SameRows
  <2> QED  BY <2>2, <2>3, RowSumSame
<1> QED  BY <1>2 DEF SameRows, IntProduct
\* The product of the specification is the one over the integers, modulo q.
LEMMA RingProductSame ==
  ASSUME NEW x \in Ring, NEW y \in Ring
  PROVE  SameRows(RingProduct(x, y), IntProduct(x, y))
<1>0. K \in Nat \ {0} /\ x \in PolyRows /\ y \in PolyRows
  BY Sizes, PolyInt DEF Ring, PolyRows
<1>1. ASSUME NEW k \in 0..K - 1, NEW d \in 0..N - 1
      PROVE  SameMod(RingProduct(x, y)[k][d], IntProduct(x, y)[k][d], Q)
  <2> DEFINE f == [j \in 0..K - 1 |-> Product(Awin(x)[K - 1 - k + j], y[j])[d]]
             g == [j \in 0..K - 1 |-> ExtTerms(x, y, k)[j][d]]
  <2>0. k \in -1..K - 1
    BY <1>0
  <2>1. g \in Summands(K) /\ IntProduct(x, y)[k][d] = SumTo(g, K)
    BY <1>0, <2>0, ExtTermsType, RowSumAt DEF IntProduct, RowSum
  <2>2. RingProduct(x, y)[k][d] = SumTo(f, K) % Q
    BY RowOfProduct
  <2>3. ASSUME NEW j \in 0..K - 1 PROVE f[j] \in Int /\ SameMod(f[j], g[j], Q)
    <3>1. PICK l \in -K..K - 1 : l = k - j
      BY <1>0, <2>0, ExtTermsType
    <3>2. Ext(x, l) \in IntPoly /\ y[j] \in IntPoly /\ ExtTerms(x, y, k)[j] = Whole(Ext(x, l), y[j])
      BY <1>0, <2>0, <3>1, ExtTermsType
    <3>3. PICK n \in 0..2 * K - 2 : n = K - 1 - k + j
      BY <1>0
    <3>4. PICK u \in IntPoly : u = Awin(x)[n] /\ SamePoly(u, Ext(x, l))
      <4>1. Awin(x)[n] \in IntPoly
        BY AwinType, PolyInt
      <4>2. CASE l >= 0
        <5>1. n < K /\ K - 1 - n = l
          BY <1>0, <3>1, <3>3, <4>2
        <5>2. Awin(x)[n] = Ext(x, l)
          BY <4>2, <5>1 DEF Awin, Ext
        <5>3. \A c \in 0..N - 1 : SameMod(Awin(x)[n][c], Awin(x)[n][c], Q)
          BY <4>1, Moduli, SameModFacts DEF IntPoly
        <5> QED  BY <4>1, <5>2, <5>3 DEF SamePoly
      <4>3. CASE ~(l >= 0)
        <5>1. ~(n < K) /\ 2 * K - 1 - n = l + K /\ l + K \in 0..K - 1
          BY <1>0, <3>1, <3>3, <4>3
        <5>2. PICK w \in IntPoly : w = x[l + K]
          BY <1>0, <5>1 DEF PolyRows
        <5>3. Awin(x)[n] = poly_mul_x_plus_2(w) /\ Ext(x, l) = Twist(w)
          BY <4>3, <5>1, <5>2 DEF Awin, Ext
        <5>4. SamePoly(poly_mul_x_plus_2(w), Twist(w))
          BY TwistReduced
        <5> QED  BY <4>1, <5>3, <5>4
      <4> QED  BY <4>2, <4>3
    <3>5. PICK p \in IntPoly, q \in IntPoly : p = Whole(u, y[j]) /\ q = Whole(Ext(x, l), y[j]) /\ SamePoly(p, q)
      <4>1. SamePoly(y[j], y[j])
        BY <3>2, Moduli, SameModFacts DEF SamePoly, IntPoly
      <4> QED  BY <3>2, <3>4, <4>1, WholeSame, WholeProduct
    <3>6. Product(u, y[j])[d] = p[d] % Q
      <4>1. PICK t \in IntPoly : t = y[j]
        BY <3>2
      <4>2. Product(u, t) = Reduced(Whole(u, t))
        BY WholeProduct
      <4> QED  BY <3>5, <4>1, <4>2 DEF Reduced
    <3>7. f[j] = p[d] % Q /\ g[j] = q[d]
      BY <3>2, <3>3, <3>4, <3>5, <3>6
    <3>8. PICK h \in Int, t \in Int, z \in Int :
            h = p[d] /\ t = q[d] /\ SameMod(h, t, Q) /\ z = h % Q /\ SameMod(z, h, Q)
      <4>1. p[d] \in Int /\ q[d] \in Int /\ SameMod(p[d], q[d], Q)
        BY <3>5 DEF IntPoly, SamePoly
      <4>2. p[d] % Q \in Int
        BY <4>1, Moduli
      <4> QED  BY <4>1, <4>2, Reducing
    <3>9. SameMod(z, t, Q)
      BY <3>8, Moduli, SameModFacts
    <3> QED  BY <3>7, <3>8, <3>9
  <2>4. f \in Summands(K)
    <3>1. f = [j \in 0..K - 1 |-> f[j]]
      OBVIOUS
    <3> HIDE DEF f
    <3> QED  BY <2>3, <3>1 DEF Summands
  <2> HIDE DEF f, g
  <2>5. PICK h \in Int, t \in Int, z \in Int :
          h = SumTo(f, K) /\ t = SumTo(g, K) /\ SameMod(h, t, Q) /\ z = h % Q /\ SameMod(z, h, Q)
    <3>1. SumTo(f, K) \in Int /\ SumTo(g, K) \in Int
      BY <1>0, <2>1, <2>4, SumInt
    <3>2. SameMod(SumTo(f, K), SumTo(g, K), Q)
      BY <1>0, <2>1, <2>3, <2>4, Moduli, SumSameMod
    <3>3. SumTo(f, K) % Q \in Int
      BY <3>1, Moduli
    <3> QED  BY <3>1, <3>2, <3>3, Reducing
  <2>6. SameMod(z, t, Q)
    BY <2>5, Moduli, SameModFacts
  <2> QED  BY <2>1, <2>2, <2>5, <2>6
<1> QED  BY <1>1 DEF SameRows, SamePoly

----------------------------------------------------------------------------
(* How large a product can be.                                             *)

Norm(g) == SumTo([d \in 0..N - 1 |-> AbsOf(g[d])], N)

\* Every coefficient lies between -B and B.
PolyWithin(f, B) == \A d \in 0..N - 1 : -B <= f[d] /\ f[d] <= B

\* A number lies within its absolute value.
LEMMA AbsType == \A x \in Int : AbsOf(x) \in Nat /\ AbsOf(-x) = AbsOf(x) /\ -AbsOf(x) <= x /\ x <= AbsOf(x)
  BY DEF AbsOf

\* A multiple of a bounded number.
LEMMA ProductOfBounds ==
  ASSUME NEW x \in Int, NEW c \in Int, NEW B \in Nat, -B <= x, x <= B
  PROVE  -(B * AbsOf(c)) <= x * c /\ x * c <= B * AbsOf(c)
<1>1. ASSUME NEW p \in Nat, NEW n \in Nat PROVE p * n >= 0
  OBVIOUS
<1>2. PICK u \in Nat, w \in Nat : u = B - x /\ w = B + x
  OBVIOUS
<1>3. PICK z \in Int, y \in Int : z = x * c /\ y = B * c
  OBVIOUS
<1>4. CASE c >= 0
  <2>1. u * c >= 0 /\ w * c >= 0
    BY <1>1, <1>4
  <2>2. u * c = y - z /\ w * c = y + z
    BY <1>2, <1>3
  <2>3. AbsOf(c) = c
    BY <1>4 DEF AbsOf
  <2> QED  BY <1>3, <2>1, <2>2, <2>3
<1>5. CASE ~(c >= 0)
  <2>1. PICK n \in Nat : n = -c
    BY <1>5
  <2>2. u * n >= 0 /\ w * n >= 0
    BY <1>1
  <2>3. x * n = -z /\ B * n = -y
    BY <1>3, <2>1
  <2>4. u * n = B * n - x * n /\ w * n = B * n + x * n
    BY <1>2
  <2>5. AbsOf(c) = n
    BY <1>5, <2>1 DEF AbsOf
  <2> QED  BY <1>3, <2>2, <2>3, <2>4, <2>5
<1> QED  BY <1>4, <1>5

\* The sum of the absolute values is a number.
LEMMA NormType ==
  ASSUME NEW g \in IntPoly
  PROVE  [d \in 0..N - 1 |-> AbsOf(g[d])] \in Summands(N) /\ Norm(g) \in Int
<1>1. \A d \in 0..N - 1 : AbsOf(g[d]) \in Int
  <2>1. ASSUME NEW d \in 0..N - 1 PROVE AbsOf(g[d]) \in Int
    <3>1. g[d] \in Int
      BY DEF IntPoly
    <3> QED  BY <3>1, AbsType
  <2> QED  BY <2>1
<1>2. [d \in 0..N - 1 |-> AbsOf(g[d])] \in Summands(N)
  BY <1>1 DEF Summands
<1> QED  BY <1>2, SumInt, Sizes DEF Norm

\* The cofactors of a coefficient are the coefficients of g, some negated.
LEMMA CofactorNorm ==
  ASSUME NEW g \in IntPoly, NEW d \in 0..N - 1
  PROVE  /\ [e \in 0..N - 1 |-> AbsOf(Cofactor(g, d, e))] \in Summands(N)
         /\ SumTo([e \in 0..N - 1 |-> AbsOf(Cofactor(g, d, e))], N) = Norm(g)
<1> DEFINE C(c) == [e \in 0..N - 1 |-> AbsOf(Cofactor(g, c, e))]
           V == {n \in 0..N - 1 : SumTo(C(N - 1 - n), N) = Norm(g)}
<1>0. N \in Nat \ {0} /\ N - 1 \in Nat /\ N - 1 \in 0..N - 1 /\ \A n \in 0..N - 1 : g[n] \in Int
  BY SizesAssumption DEF IntPoly
<1>1. ASSUME NEW c \in 0..N - 1 PROVE C(c) \in Summands(N)
  <2>1. \A e \in 0..N - 1 : AbsOf(Cofactor(g, c, e)) \in Int
    BY TermsAt, AbsType
  <2> QED  BY <2>1 DEF Summands
<1>2. 0 \in V
  <2> DEFINE f == [n \in 0..N - 1 |-> AbsOf(g[n])]
  <2>1. f \in Summands(N) /\ Norm(g) = SumTo(f, N)
    BY NormType DEF Norm
  <2>2. ASSUME NEW n \in 0..N - 1 PROVE C(N - 1)[n] = f[N - 1 - n]
    <3>1. n <= N - 1 /\ N - 1 - n \in 0..N - 1
      BY <1>0
    <3> QED  BY <3>1 DEF Cofactor
  <2>3. C(N - 1) \in Summands(N)
    BY <1>0, <1>1
  <2> HIDE DEF C, f
  <2>4. SumTo(C(N - 1), N) = Norm(g)
    BY <1>0, <2>1, <2>2, <2>3, SumReversed
  <2>5. N - 1 - 0 = N - 1 /\ 0 \in 0..N - 1
    BY <1>0
  <2> QED  BY <2>4, <2>5
<1>3. ASSUME NEW n \in 0..(N - 1) - 1, n \in V PROVE n + 1 \in V
  <2>1. PICK c \in 1..N - 1 : c = N - 1 - n /\ c - 1 = N - 1 - (n + 1) /\ c \in 0..N - 1 /\ c - 1 \in 0..N - 1
    BY <1>0
  <2>2. C(c)[0] = C(c - 1)[N - 1]
    <3>1. ~(N - 1 <= c - 1) /\ N + (c - 1) - (N - 1) = c /\ 0 <= c /\ c - 0 = c
      BY <1>0, <2>1
    <3>2. Cofactor(g, c, 0) = g[c] /\ Cofactor(g, c - 1, N - 1) = -g[c]
      BY <3>1 DEF Cofactor
    <3> QED  BY <1>0, <2>1, <3>2, AbsType
  <2>3. ASSUME NEW e \in 1..N - 1 PROVE C(c)[e] = C(c - 1)[e - 1]
    <3>1. e - 1 \in 0..N - 1 /\ e \in 0..N - 1 /\ (e <= c <=> e - 1 <= c - 1)
          /\ c - e = (c - 1) - (e - 1) /\ N + c - e = N + (c - 1) - (e - 1)
      BY <1>0, <2>1
    <3>2. Cofactor(g, c, e) = Cofactor(g, c - 1, e - 1)
      BY <3>1 DEF Cofactor
    <3> QED  BY <3>1, <3>2
  <2>4. C(c) \in Summands(N) /\ C(c - 1) \in Summands(N)
    BY <1>1, <2>1
  <2> HIDE DEF C
  <2>5. SumTo(C(c), N) = SumTo(C(c - 1), N)
    BY <1>0, <2>2, <2>3, <2>4, SumRotated
  <2>6. SumTo(C(c), N) = Norm(g)
    BY <1>3, <2>1
  <2>7. n + 1 \in 0..N - 1
    BY <1>0
  <2> QED  BY <2>1, <2>5, <2>6, <2>7
<1>4. SumTo(C(d), N) = Norm(g)
  <2> HIDE DEF C
  <2>1. N - 1 - d \in 0..N - 1 /\ N - 1 - (N - 1 - d) = d
    BY <1>0
  <2>2. 0..N - 1 \subseteq V
    <3> HIDE DEF V
    <3> QED  BY <1>0, <1>2, <1>3, UpTo
  <2>3. N - 1 - d \in V
    <3> HIDE DEF V
    <3> QED  BY <2>1, <2>2
  <2> QED  BY <2>1, <2>3
<1> QED  BY <1>1, <1>4

\* A product with a polynomial of bounded coefficients.
LEMMA WholeBound ==
  ASSUME NEW f \in IntPoly, NEW g \in IntPoly, NEW B \in Nat, PolyWithin(f, B)
  PROVE  PolyWithin(Whole(f, g), B * Norm(g))
<1>1. ASSUME NEW d \in 0..N - 1
      PROVE  -(B * Norm(g)) <= Whole(f, g)[d] /\ Whole(f, g)[d] <= B * Norm(g)
  <2> DEFINE c == [e \in 0..N - 1 |-> AbsOf(Cofactor(g, d, e))]
             h == [e \in 0..N - 1 |-> B * c[e]]
             t == Terms(f, g, d)
  <2>0. N \in Nat
    BY Sizes
  <2>1. c \in Summands(N) /\ SumTo(c, N) = Norm(g)
    BY CofactorNorm
  <2>2. /\ t \in Summands(N)
        /\ \A e \in 0..N - 1 : Cofactor(g, d, e) \in Int /\ t[e] = f[e] * Cofactor(g, d, e)
    BY TermsAt
  <2>3. Whole(f, g)[d] = SumTo(t, N)
    BY DEF Whole
  <2>4. \A e \in 0..N - 1 : c[e] = AbsOf(Cofactor(g, d, e))
    OBVIOUS
  <2> HIDE DEF c, t
  <2>5. h \in Summands(N) /\ \A e \in 0..N - 1 : h[e] = B * c[e]
    BY <2>1 DEF Summands
  <2> HIDE DEF h
  <2>6. ASSUME NEW e \in 0..N - 1 PROVE -h[e] <= t[e] /\ t[e] <= h[e]
    <3>1. PICK x \in Int, y \in Int : x = f[e] /\ y = Cofactor(g, d, e) /\ -B <= x /\ x <= B
      BY <2>2 DEF IntPoly, PolyWithin
    <3>2. -(B * AbsOf(y)) <= x * y /\ x * y <= B * AbsOf(y)
      BY <3>1, ProductOfBounds
    <3> QED  BY <2>2, <2>4, <2>5, <3>1, <3>2
  <2>7. -SumTo(h, N) <= SumTo(t, N) /\ SumTo(t, N) <= SumTo(h, N)
    BY <2>0, <2>2, <2>5, <2>6, SumBound
  <2>8. SumTo(h, N) = B * SumTo(c, N)
    BY <2>0, <2>1, <2>5, SumScale
  <2> QED  BY <2>1, <2>3, <2>7, <2>8
<1> QED  BY <1>1 DEF PolyWithin

\* Rows that wrap at Y^K come back times X + 2.
Factor(j, k) == IF j <= k THEN 1 ELSE 3

\* The rows of the continuation are bounded, those that wrap by three times as much.
LEMMA ExtBound ==
  ASSUME NEW x \in PolyRows, NEW B \in Nat, \A k \in 0..K - 1 : PolyWithin(x[k], B),
         NEW k \in 0..K - 1, NEW j \in 0..K - 1
  PROVE  PolyWithin(Ext(x, k - j), Factor(j, k) * B)
<1>0. K \in Nat
  BY Sizes
<1>1. CASE j <= k
  <2>1. k - j \in 0..K - 1 /\ k - j >= 0
    BY <1>0, <1>1
  <2>2. Factor(j, k) * B = B
    BY <1>1 DEF Factor
  <2> QED  BY <2>1, <2>2 DEF Ext
<1>2. CASE ~(j <= k)
  <2>1. k - j + K \in 0..K - 1 /\ ~(k - j >= 0)
    BY <1>0, <1>2
  <2>2. PICK f \in IntPoly : f = x[k - j + K] /\ PolyWithin(f, B) /\ Ext(x, k - j) = Twist(f)
    BY <2>1 DEF Ext, PolyRows
  <2>3. ASSUME NEW d \in 0..N - 1 PROVE -(3 * B) <= Twist(f)[d] /\ Twist(f)[d] <= 3 * B
    <3>1. PICK u \in Int : u = f[d] /\ -B <= u /\ u <= B
      BY <2>2 DEF PolyWithin, IntPoly
    <3>2. PICK w \in Int : w = Shift(f)[d] /\ -B <= w /\ w <= B
      <4>1. N - 1 \in 0..N - 1 /\ (d # 0 => d - 1 \in 0..N - 1)
        BY SizesAssumption
      <4>2. \A n \in 0..N - 1 : f[n] \in Int /\ -B <= f[n] /\ f[n] <= B
        BY <2>2 DEF PolyWithin, IntPoly
      <4>3. CASE d = 0
        <5>1. PICK n \in Int : n = f[N - 1] /\ -B <= n /\ n <= B
          BY <4>1, <4>2
        <5>2. Shift(f)[d] = -n
          BY <4>3, <5>1 DEF Shift
        <5> QED  BY <5>1, <5>2
      <4>4. CASE d # 0
        <5>1. Shift(f)[d] = f[d - 1]
          BY <4>4 DEF Shift
        <5> QED  BY <4>1, <4>2, <4>4, <5>1
      <4> QED  BY <4>3, <4>4
    <3>3. Twist(f)[d] = (u + u) + w
      BY <3>1, <3>2 DEF Twist, PolyPlus
    <3> QED  BY <3>1, <3>2, <3>3
  <2>4. Factor(j, k) * B = 3 * B
    BY <1>2 DEF Factor
  <2> QED  BY <2>2, <2>3, <2>4 DEF PolyWithin
<1> QED  BY <1>0, <1>1, <1>2

\* What row k of a product with y adds up.
Weighed(y, k) == [j \in 0..K - 1 |-> Factor(j, k) * Norm(y[j])]

\* A product with a ring element of bounded coefficients.
LEMMA ProductBound ==
  ASSUME NEW x \in PolyRows, NEW y \in PolyRows, NEW B \in Nat, \A k \in 0..K - 1 : PolyWithin(x[k], B),
         NEW k \in 0..K - 1, NEW d \in 0..N - 1
  PROVE  /\ Weighed(y, k) \in Summands(K)
         /\ -(B * SumTo(Weighed(y, k), K)) <= IntProduct(x, y)[k][d]
         /\ IntProduct(x, y)[k][d] <= B * SumTo(Weighed(y, k), K)
<1> DEFINE t == [j \in 0..K - 1 |-> ExtTerms(x, y, k)[j][d]]
           g == Weighed(y, k)
           h == [j \in 0..K - 1 |-> B * g[j]]
<1>0. K \in Nat /\ k \in -1..K - 1
  BY Sizes
<1>1. t \in Summands(K) /\ IntProduct(x, y)[k][d] = SumTo(t, K)
  BY <1>0, ExtTermsType, RowSumAt DEF IntProduct, RowSum
<1>2. \A j \in 0..K - 1 : t[j] = ExtTerms(x, y, k)[j][d]
  OBVIOUS
<1> HIDE DEF t
<1>3. ASSUME NEW j \in 0..K - 1 PROVE Factor(j, k) \in {1, 3} /\ y[j] \in IntPoly /\ Norm(y[j]) \in Int
  BY NormType DEF Factor, PolyRows
<1>4. g \in Summands(K) /\ \A j \in 0..K - 1 : g[j] = Factor(j, k) * Norm(y[j])
  <2>1. ASSUME NEW j \in 0..K - 1 PROVE Factor(j, k) * Norm(y[j]) \in Int
    BY <1>3
  <2> QED  BY <2>1 DEF Weighed, Summands
<1> HIDE DEF g
<1>5. h \in Summands(K) /\ \A j \in 0..K - 1 : h[j] = B * g[j]
  BY <1>4 DEF Summands
<1> HIDE DEF h
<1>6. ASSUME NEW j \in 0..K - 1 PROVE -h[j] <= t[j] /\ t[j] <= h[j]
  <2>1. PICK f \in IntPoly, u \in IntPoly, c \in {1, 3}, n \in Int :
          f = Ext(x, k - j) /\ u = y[j] /\ c = Factor(j, k) /\ n = Norm(u)
    BY <1>0, <1>3, ExtTermsType
  <2>2. t[j] = Whole(f, u)[d]
    BY <1>0, <1>2, <2>1, ExtTermsType
  <2>3. PolyWithin(f, c * B) /\ c * B \in Nat
    BY <2>1, ExtBound
  <2>4. PolyWithin(Whole(f, u), (c * B) * Norm(u))
    BY <2>3, WholeBound
  <2>5. (c * B) * n = B * (c * n)
    BY <2>1
  <2>6. h[j] = B * (c * n)
    BY <1>4, <1>5, <2>1
  <2> QED  BY <2>1, <2>2, <2>4, <2>5, <2>6 DEF PolyWithin
<1>7. -SumTo(h, K) <= SumTo(t, K) /\ SumTo(t, K) <= SumTo(h, K)
  BY <1>0, <1>1, <1>5, <1>6, SumBound
<1>8. SumTo(h, K) = B * SumTo(g, K)
  BY <1>0, <1>4, <1>5, SumScale
<1> QED  BY <1>1, <1>4, <1>7, <1>8 DEF g

----------------------------------------------------------------------------
(* The error of rounding.                                                  *)

D == Q \div P

\* One unit of Z_p is D units of Z_q, and H1 is half of it.
LEMMA Units == D \in Nat \ {0} /\ H1 \in Nat \ {0} /\ D = 2 * H1 /\ Q = P * D
<1>1. P \in Nat \ {0} /\ Q \in Nat /\ Q % (2 * P) = 0 /\ Q >= 2 * P
  BY Moduli, CodeAssumption
<1> HIDE DEF P
<1>2. PICK u \in Nat \ {0} : u = 2 * P
  BY <1>1
<1>3. PICK q \in Int : q = Q \div u /\ Q = u * q + 0
  <2>1. Q \in Int /\ Q % u = 0
    BY <1>1, <1>2
  <2>2. Q \div u \in Int /\ Q = u * (Q \div u) + (Q % u)
    BY <2>1, Division
  <2> QED  BY <2>1, <2>2
<1>4. q >= 1
  <2>1. ASSUME q <= 0 PROVE FALSE
    <3>1. u * q <= u * 0
      BY <2>1
    <3>2. Q <= 0
      BY <1>3, <3>1
    <3> QED  BY <1>1, <1>2, <3>2
  <2> QED  BY <2>1
<1>5. H1 = q
  BY <1>2, <1>3 DEF H1
<1>6. Q = P * (2 * q) + 0
  BY <1>1, <1>2, <1>3
<1>7. PICK n \in Int : n = 2 * q /\ Q = P * n + 0
  BY <1>6
<1>8. D = n
  <2>1. 0 \in 0..P - 1
    BY <1>1
  <2> QED  BY <1>1, <1>7, <2>1, DivisionUnique DEF D
<1>9. Q = P * D
  <2>1. PICK y \in Int : y = P * n
    BY <1>1
  <2> QED  BY <1>7, <1>8, <2>1
<1>10. D = 2 * H1 /\ D \in Nat \ {0} /\ H1 \in Nat \ {0}
  BY <1>4, <1>5, <1>7, <1>8
<1> QED  BY <1>9, <1>10

\* What rounding adds, in units of Z_q.
Error(n) == H1 - ((n + H1) % D)

\* Rounding moves a value by at most half a unit.
LEMMA RoundingError ==
  ASSUME NEW x \in Int
  PROVE  /\ Error(x) \in Int /\ -H1 <= Error(x) /\ Error(x) <= H1
         /\ round_q_to_p(x) \in Int /\ SameMod(D * round_q_to_p(x), x + Error(x), Q)
<1>1. D \in Nat \ {0} /\ H1 \in Nat \ {0} /\ D = 2 * H1 /\ Q = P * D /\ P \in Nat \ {0}
  BY Units, Moduli
<1>2. round_q_to_p(x) = ((x + H1) \div D) % P
  BY DEF round_q_to_p, H1, D
<1> HIDE DEF D, H1, P
<1>3. PICK z \in Int : z = x + H1
  BY <1>1
<1>4. PICK w \in Int, c \in 0..D - 1 : w = z \div D /\ c = z % D /\ z = D * w + c
  BY <1>1, Division
<1>5. PICK t \in Int, u \in 0..P - 1 : t = w \div P /\ u = w % P /\ w = P * t + u
  BY <1>1, Division
<1>6. Error(x) = H1 - c
  BY <1>3, <1>4 DEF Error
<1>7. round_q_to_p(x) = u
  BY <1>2, <1>3, <1>4, <1>5
<1>8. D * u = (x + (H1 - c)) + Q * (-t)
  <2>1. PICK y \in Int : y = P * t
    BY <1>1
  <2>2. D * w = D * y + D * u
    <3>1. w = y + u /\ D \in Int /\ u \in Int
      BY <1>1, <1>5, <2>1
    <3>2. D * (y + u) = D * y + D * u
      BY <3>1
    <3> QED  BY <3>1, <3>2
  <2>3. Q * t = D * y
    BY <1>1, <2>1
  <2>4. PICK g \in Int, h \in Int : g = D * y /\ h = Q * t /\ g = h
    BY <1>1, <2>3
  <2>5. Q * (-t) = -h
    <3>1. Q \in Int
      BY Moduli
    <3>2. Q * (-t) = -(Q * t)
      BY <3>1
    <3> QED  BY <2>4, <3>2
  <2>6. PICK k \in Int, l \in Int : k = D * w /\ l = D * u
    BY <1>1
  <2> QED  BY <1>1, <1>3, <1>4, <2>2, <2>4, <2>5, <2>6
<1>9. SameMod(D * u, x + (H1 - c), Q)
  <2>1. -t \in Int
    OBVIOUS
  <2> QED  BY <1>8, <2>1 DEF SameMod
<1>10. H1 - c \in Int /\ -H1 <= H1 - c /\ H1 - c <= H1 /\ u \in Int
  BY <1>1, <1>4
<1> QED  BY <1>6, <1>7, <1>9, <1>10

\* The element of the rounding errors.
Errors(x) == [k \in 0..K - 1 |-> [d \in 0..N - 1 |-> Error(x[k][d])]]

\* A rounded element is the element and its errors.
LEMMA ErrorsAre ==
  ASSUME NEW x \in Ring, NEW y \in Ring, \A k \in 0..K - 1 : y[k] = Rounded(x[k])
  PROVE  /\ Errors(x) \in PolyRows /\ \A k \in 0..K - 1 : PolyWithin(Errors(x)[k], H1)
         /\ SameRows(RingTimes(D, y), RingPlus(x, Errors(x)))
<1>1. ASSUME NEW k \in 0..K - 1, NEW d \in 0..N - 1
      PROVE  /\ Error(x[k][d]) \in Int /\ -H1 <= Error(x[k][d]) /\ Error(x[k][d]) <= H1
             /\ SameMod(D * y[k][d], x[k][d] + Error(x[k][d]), Q)
  <2>1. PICK n \in Int : n = x[k][d]
    BY PolyInt DEF Ring, IntPoly
  <2>2. y[k][d] = round_q_to_p(n)
    BY <2>1 DEF Rounded
  <2> QED  BY <2>1, <2>2, RoundingError
<1>2. Errors(x) \in PolyRows
  BY <1>1 DEF Errors, PolyRows, IntPoly
<1>3. \A k \in 0..K - 1 : PolyWithin(Errors(x)[k], H1)
  BY <1>1 DEF Errors, PolyWithin
<1>4. SameRows(RingTimes(D, y), RingPlus(x, Errors(x)))
  BY <1>1 DEF SameRows, SamePoly, RingTimes, PolyTimes, RingPlus, PolyPlus, Errors
<1> QED  BY <1>2, <1>3, <1>4

----------------------------------------------------------------------------
(* Representatives around zero.                                            *)

\* A representative is congruent.
LEMMA CentredFacts ==
  ASSUME NEW q \in Nat \ {0}, NEW x \in Int
  PROVE  Centred(x, q) \in Int /\ SameMod(Centred(x, q), x, q)
<1>1. PICK t \in Int, u \in 0..q - 1 : t = x \div q /\ u = x % q /\ x = q * t + u
  BY Division
<1>2. PICK y \in Int : y = q * t
  OBVIOUS
<1>3. q * (-t) = -y /\ q * (-t - 1) = -y - q /\ -t - 1 \in Int /\ -t \in Int
  BY <1>2
<1>4. u = x + q * (-t) /\ u - q = x + q * (-t - 1)
  BY <1>1, <1>2, <1>3
<1>5. Centred(x, q) = u \/ Centred(x, q) = u - q
  BY <1>1 DEF Centred
<1>6. SameMod(u, x, q) /\ SameMod(u - q, x, q)
  BY <1>3, <1>4 DEF SameMod
<1>7. u \in Int /\ u - q \in Int
  OBVIOUS
<1> QED  BY <1>5, <1>6, <1>7

\* No representative is nearer to zero.
LEMMA CentredIsLeast ==
  ASSUME NEW q \in Nat \ {0}, NEW h \in Nat, q = 2 * h, NEW x \in Int, NEW w \in Int, SameMod(x, w, q)
  PROVE  AbsOf(Centred(x, q)) <= AbsOf(w)
<1>1. PICK t \in Int, u \in 0..q - 1 : t = w \div q /\ u = w % q /\ w = q * t + u
  BY Division
<1>2. x % q = u
  BY <1>1, SameModRemainder
<1>3. q \div 2 = h
  OBVIOUS
<1>4. Centred(x, q) = IF u >= h THEN u - q ELSE u
  BY <1>2, <1>3 DEF Centred
<1>5. PICK y \in Int : y = q * t
  OBVIOUS
<1>6. t >= 1 => y >= q
  <2>1. ASSUME t >= 1 PROVE q * t >= q * 1
    BY <2>1
  <2> QED  BY <1>5, <2>1
<1>7. t <= -1 => y <= -q
  <2>1. ASSUME t <= -1 PROVE q * t <= q * (-1)
    BY <2>1
  <2> QED  BY <1>5, <2>1
<1>8. t = 0 => y = 0
  BY <1>5
<1>9. t >= 1 \/ t <= -1 \/ t = 0
  OBVIOUS
<1> QED  BY <1>1, <1>4, <1>5, <1>6, <1>7, <1>8, <1>9 DEF AbsOf

Centre(x) == [k \in 0..K - 1 |-> [d \in 0..N - 1 |-> Centred(x[k][d], Q)]]

\* An element, its representatives, and what they weigh.
LEMMA CentreOf ==
  ASSUME NEW x \in Ring
  PROVE  /\ x \in PolyRows /\ Centre(x) \in PolyRows /\ SameRows(x, Centre(x))
         /\ \A k \in 0..K - 1 : Weight(x, k) = SumTo(Weighed(Centre(x), k), K)
<1>1. x \in PolyRows
  BY PolyInt DEF Ring, PolyRows
<1>2. ASSUME NEW k \in 0..K - 1, NEW d \in 0..N - 1
      PROVE  Centred(x[k][d], Q) \in Int /\ SameMod(x[k][d], Centred(x[k][d], Q), Q)
  <2>1. PICK n \in Int, c \in Int : n = x[k][d] /\ c = Centred(n, Q) /\ SameMod(c, n, Q)
    BY <1>1, CentredFacts, Moduli DEF PolyRows, IntPoly
  <2>2. SameMod(n, c, Q)
    BY <2>1, Moduli, SameModFacts
  <2> QED  BY <2>1, <2>2
<1>3. Centre(x) \in PolyRows
  BY <1>2 DEF Centre, PolyRows, IntPoly
<1>4. SameRows(x, Centre(x))
  BY <1>2 DEF Centre, SameRows, SamePoly
<1>5. ASSUME NEW k \in 0..K - 1 PROVE Weight(x, k) = SumTo(Weighed(Centre(x), k), K)
  <2>1. ASSUME NEW j \in 0..K - 1
        PROVE  Norm(Centre(x)[j]) = SumTo([d \in 0..N - 1 |-> AbsOf(Centred(x[j][d], Q))], N)
    <3>1. [d \in 0..N - 1 |-> AbsOf(Centre(x)[j][d])] = [d \in 0..N - 1 |-> AbsOf(Centred(x[j][d], Q))]
      BY DEF Centre
    <3> QED  BY <3>1 DEF Norm
  <2>2. Weighed(Centre(x), k)
          = [j \in 0..K - 1 |-> (IF j <= k THEN 1 ELSE 3) *
               SumTo([d \in 0..N - 1 |-> AbsOf(Centred(x[j][d], Q))], N)]
    BY <2>1 DEF Weighed, Factor
  <2> QED  BY <2>2 DEF Weight
<1> QED  BY <1>1, <1>3, <1>4, <1>5

\* A product with a rounded product is, in units of Z_q, the product of the three
\* and what the rounding errors add up to.
LEMMA Accumulated ==
  ASSUME NEW x \in Ring, NEW y \in Ring, NEW z \in Ring, NEW w \in Ring,
         \A k \in 0..K - 1 : w[k] = Rounded(RingProduct(x, y)[k]),
         NEW k \in 0..K - 1, NEW d \in 0..N - 1
  PROVE  \E e \in Int :
           /\ -(H1 * Weight(z, k)) <= e /\ e <= H1 * Weight(z, k)
           /\ SameMod(D * RingProduct(w, z)[k][d],
                      IntProduct(IntProduct(x, Centre(y)), Centre(z))[k][d] + e, Q)
<1> DEFINE U == RingProduct(x, y)
           E == Errors(U)
           cy == Centre(y)
           cz == Centre(z)
           xy == IntProduct(x, cy)
<1>1. U \in Ring /\ U \in PolyRows /\ SameRows(U, IntProduct(x, y))
  BY RingProductType, RingProductSame, CentreOf
<1>2. E \in PolyRows /\ (\A c \in 0..K - 1 : PolyWithin(E[c], H1)) /\ SameRows(RingTimes(D, w), RingPlus(U, E))
  <2> HIDE DEF U
  <2> QED  BY <1>1, ErrorsAre DEF U
<1>3. /\ x \in PolyRows /\ y \in PolyRows /\ z \in PolyRows /\ w \in PolyRows
      /\ cy \in PolyRows /\ cz \in PolyRows /\ SameRows(y, cy) /\ SameRows(z, cz)
  BY CentreOf
<1>4. Weight(z, k) = SumTo(Weighed(cz, k), K)
  BY CentreOf
<1> HIDE DEF cy, cz, E
<1>5. xy \in PolyRows /\ SameRows(U, xy)
  <2>1. xy \in PolyRows /\ IntProduct(x, y) \in PolyRows
    BY <1>3, IntProductType
  <2>2. SameRows(x, x)
    BY <1>3, SameRowsFacts
  <2>3. SameRows(IntProduct(x, y), xy)
    BY <1>3, <2>2, IntProductSame
  <2> HIDE DEF U, xy
  <2> QED  BY <1>1, <2>1, <2>3, SameRowsFacts
<1>6. SameRows(RingProduct(w, z), IntProduct(w, z)) /\ IntProduct(w, z) \in PolyRows
  BY <1>3, RingProductSame, IntProductType
<1> HIDE DEF U, xy
<1>7. SameRows(RingPlus(U, E), RingPlus(xy, E)) /\ RingPlus(U, E) \in PolyRows /\ RingPlus(xy, E) \in PolyRows
  BY <1>1, <1>2, <1>5, RingOpTypes, SameSummed
<1>8. /\ RingTimes(D, w) \in PolyRows /\ RingTimes(D, IntProduct(w, z)) = IntProduct(RingTimes(D, w), z)
  BY <1>3, Units, RingOpTypes, ProductLinear
<1>9. SameRows(RingTimes(D, w), RingPlus(xy, E))
  BY <1>2, <1>7, <1>8, SameRowsFacts
<1>10. SameRows(IntProduct(RingTimes(D, w), z), IntProduct(RingPlus(xy, E), cz))
  BY <1>3, <1>7, <1>8, <1>9, IntProductSame
<1>11. IntProduct(RingPlus(xy, E), cz) = RingPlus(IntProduct(xy, cz), IntProduct(E, cz))
  BY <1>2, <1>3, <1>5, ProductLinear
<1>12. PICK e \in Int, t \in Int, p \in Int, n \in Int :
         /\ e = IntProduct(E, cz)[k][d] /\ t = IntProduct(xy, cz)[k][d]
         /\ p = IntProduct(w, z)[k][d] /\ n = RingProduct(w, z)[k][d]
  <2>1. IntProduct(E, cz) \in PolyRows /\ IntProduct(xy, cz) \in PolyRows /\ RingProduct(w, z) \in PolyRows
    BY <1>2, <1>3, <1>5, IntProductType, RingProductType, CentreOf
  <2> QED  BY <1>6, <2>1 DEF PolyRows, IntPoly
<1>13. SameMod(D * p, t + e, Q)
  <2>1. SameRows(RingTimes(D, IntProduct(w, z)), RingPlus(IntProduct(xy, cz), IntProduct(E, cz)))
    BY <1>8, <1>10, <1>11
  <2>2. RingTimes(D, IntProduct(w, z))[k][d] = D * p
    BY <1>12 DEF RingTimes, PolyTimes
  <2>3. RingPlus(IntProduct(xy, cz), IntProduct(E, cz))[k][d] = t + e
    BY <1>12 DEF RingPlus, PolyPlus
  <2> QED  BY <2>1, <2>2, <2>3 DEF SameRows, SamePoly
<1>14. SameMod(D * n, t + e, Q)
  <2>1. SameMod(n, p, Q)
    BY <1>6, <1>12 DEF SameRows, SamePoly
  <2>2. PICK c \in Int, q \in Int, r0 \in Int, o \in Int : c = D /\ q = D * n /\ r0 = D * p /\ o = t + e
    BY Units
  <2>3. SameMod(q, r0, Q)
    BY <2>1, <2>2, Moduli, SameModFacts
  <2>4. SameMod(r0, o, Q)
    BY <1>13, <2>2
  <2>5. SameMod(q, o, Q)
    BY <2>3, <2>4, Moduli, SameModFacts
  <2> QED  BY <2>2, <2>5
<1>15. -(H1 * Weight(z, k)) <= e /\ e <= H1 * Weight(z, k)
  BY <1>2, <1>3, <1>4, <1>12, Units, ProductBound
<1> QED  BY <1>12, <1>14, <1>15 DEF cy, cz, xy

\* A weight is a number.
LEMMA WeightType ==
  ASSUME NEW x \in Ring, NEW k \in 0..K - 1
  PROVE  Weight(x, k) \in Int
<1>1. Centre(x) \in PolyRows /\ Weight(x, k) = SumTo(Weighed(Centre(x), k), K)
  BY CentreOf
<1>2. ASSUME NEW j \in 0..K - 1 PROVE Factor(j, k) * Norm(Centre(x)[j]) \in Int
  <2>1. Norm(Centre(x)[j]) \in Int /\ Factor(j, k) \in Int
    <3>1. PICK g \in IntPoly : g = Centre(x)[j]
      BY <1>1 DEF PolyRows
    <3>2. Norm(g) \in Int /\ Factor(j, k) \in {1, 3}
      BY NormType DEF Factor
    <3> QED  BY <3>1, <3>2
  <2> QED  BY <2>1
<1>3. Weighed(Centre(x), k) \in Summands(K)
  BY <1>2 DEF Weighed, Summands
<1> QED  BY <1>1, <1>3, SumInt, Sizes

\* The two parties' products of three differ by their errors alone.
LEMMA NoiseOfProducts ==
  ASSUME NEW x \in Ring, NEW y \in Ring, NEW z \in Ring, NEW u \in Ring, NEW w \in Ring,
         \A k \in 0..K - 1 : u[k] = Rounded(RingProduct(x, y)[k]),
         \A k \in 0..K - 1 : w[k] = Rounded(RingProduct(x, z)[k]),
         NEW k \in 0..K - 1, NEW d \in 0..N - 1
  PROVE  2 * AbsOf(Centred((RingProduct(w, y)[k][d] % P) - (RingProduct(u, z)[k][d] % P), P))
           <= Weight(y, k) + Weight(z, k)
<1>0. P \in Nat \ {0} /\ D \in Nat \ {0} /\ H1 \in Nat \ {0} /\ D = 2 * H1 /\ Q = P * D
  BY Units, Moduli
<1>1. PICK t \in Int : /\ t = IntProduct(IntProduct(x, Centre(y)), Centre(z))[k][d]
                       /\ t = IntProduct(IntProduct(x, Centre(z)), Centre(y))[k][d]
  <2>1. x \in PolyRows /\ Centre(y) \in PolyRows /\ Centre(z) \in PolyRows
    BY CentreOf
  <2>2. IntProduct(IntProduct(x, Centre(y)), Centre(z)) = IntProduct(IntProduct(x, Centre(z)), Centre(y))
    BY <2>1, ProductsCommute
  <2>3. IntProduct(IntProduct(x, Centre(y)), Centre(z)) \in PolyRows
    BY <2>1, IntProductType
  <2> QED  BY <2>2, <2>3 DEF PolyRows, IntPoly
<1>2. PICK f \in Int, g \in Int : f = RingProduct(w, y)[k][d] /\ g = RingProduct(u, z)[k][d]
  <2>1. RingProduct(w, y) \in PolyRows /\ RingProduct(u, z) \in PolyRows
    BY RingProductType, CentreOf
  <2> QED  BY <2>1 DEF PolyRows, IntPoly
<1>3. PICK wy \in Int, wz \in Int : wy = Weight(y, k) /\ wz = Weight(z, k)
  BY WeightType
<1>4. PICK e1 \in Int : -(H1 * wy) <= e1 /\ e1 <= H1 * wy /\ SameMod(D * f, t + e1, Q)
  <2>1. \E e \in Int :
          /\ -(H1 * Weight(y, k)) <= e /\ e <= H1 * Weight(y, k)
          /\ SameMod(D * RingProduct(w, y)[k][d],
                     IntProduct(IntProduct(x, Centre(z)), Centre(y))[k][d] + e, Q)
    BY Accumulated
  <2> QED  BY <1>1, <1>2, <1>3, <2>1
<1>5. PICK e2 \in Int : -(H1 * wz) <= e2 /\ e2 <= H1 * wz /\ SameMod(D * g, t + e2, Q)
  <2>1. \E e \in Int :
          /\ -(H1 * Weight(z, k)) <= e /\ e <= H1 * Weight(z, k)
          /\ SameMod(D * RingProduct(u, z)[k][d],
                     IntProduct(IntProduct(x, Centre(y)), Centre(z))[k][d] + e, Q)
    BY Accumulated
  <2> QED  BY <1>1, <1>2, <1>3, <2>1
<1> HIDE DEF D, H1, P
<1>6. PICK n \in Int : n = f - g /\ SameMod(D * n, e1 - e2, Q)
  <2>1. PICK df \in Int, dg \in Int, o1 \in Int, o2 \in Int : df = D * f /\ dg = D * g /\ o1 = t + e1 /\ o2 = t + e2
    BY <1>0
  <2>2. SameMod(df - dg, o1 - o2, Q)
    BY <1>4, <1>5, <2>1, Moduli, SameModFacts
  <2>3. o1 - o2 = e1 - e2
    BY <2>1
  <2>4. D * (f - g) = df - dg
    BY <1>0, <2>1
  <2> QED  BY <2>2, <2>3, <2>4
<1>7. PICK c \in Int : D * n = (e1 - e2) + Q * c
  BY <1>6 DEF SameMod
<1>8. PICK o \in Int : o = n - P * c /\ D * o = e1 - e2
  <2>1. PICK l \in Int : l = P * c
    BY <1>0
  <2>2. Q * c = D * l
    BY <1>0, <2>1
  <2>3. D * (n - l) = D * n - D * l
    BY <1>0
  <2>4. PICK i1 \in Int, i2 \in Int : i1 = D * n /\ i2 = D * l
    BY <1>0
  <2> QED  BY <1>7, <2>1, <2>2, <2>3, <2>4
<1>9. 2 * AbsOf(o) <= wy + wz
  <2>1. PICK x1 \in Int, x2 \in Int, x3 \in Int : x1 = H1 * wy /\ x2 = H1 * wz /\ x3 = H1 * o
    BY <1>0
  <2>2. D * o = 2 * x3
    BY <1>0, <2>1
  <2>3. 2 * x3 <= x1 + x2 /\ -(x1 + x2) <= 2 * x3
    BY <1>4, <1>5, <1>8, <2>1, <2>2
  <2>4. PICK s1 \in Int : s1 = (wy + wz) - 2 * o /\ H1 * s1 = (x1 + x2) - 2 * x3
    <3>1. H1 * ((wy + wz) - 2 * o) = (H1 * wy + H1 * wz) - 2 * (H1 * o)
      BY <1>0
    <3> QED  BY <2>1, <3>1
  <2>5. PICK s2 \in Int : s2 = (wy + wz) + 2 * o /\ H1 * s2 = (x1 + x2) + 2 * x3
    <3>1. H1 * ((wy + wz) + 2 * o) = (H1 * wy + H1 * wz) + 2 * (H1 * o)
      BY <1>0
    <3> QED  BY <2>1, <3>1
  <2>6. ASSUME NEW j \in Int, H1 * j >= 0 PROVE j >= 0
    <3>1. ASSUME j <= -1 PROVE FALSE
      <4>1. H1 * j <= H1 * (-1)
        BY <1>0, <3>1
      <4> QED  BY <1>0, <2>6, <4>1
    <3> QED  BY <3>1
  <2>7. s1 >= 0 /\ s2 >= 0
    BY <2>3, <2>4, <2>5, <2>6
  <2> QED  BY <2>4, <2>5, <2>7 DEF AbsOf
<1>10. PICK q \in Int : q = (f % P) - (g % P) /\ SameMod(q, o, P)
  <2>1. PICK fp \in Int, gp \in Int, m1 \in Int, m2 \in Int :
          fp = f % P /\ gp = g % P /\ f = P * m1 + fp /\ g = P * m2 + gp
    <3>1. f \div P \in Int /\ f % P \in Int /\ f = P * (f \div P) + (f % P)
      BY <1>0, Division
    <3>2. g \div P \in Int /\ g % P \in Int /\ g = P * (g \div P) + (g % P)
      BY <1>0, Division
    <3> QED  BY <3>1, <3>2
  <2>2. PICK y1 \in Int, y2 \in Int, y3 \in Int : y1 = P * m1 /\ y2 = P * m2 /\ y3 = P * c
    BY <1>0
  <2>3. PICK j \in Int : j = (c - m1) + m2 /\ P * j = (y3 - y1) + y2
    BY <1>0, <2>2
  <2>4. fp - gp = o + P * j
    <3>1. f = y1 + fp /\ g = y2 + gp /\ n = f - g /\ o = n - y3
      BY <1>6, <1>8, <2>1, <2>2
    <3>2. o + P * j = o + ((y3 - y1) + y2)
      BY <2>3
    <3> QED  BY <3>1, <3>2
  <2>5. SameMod(fp - gp, o, P)
    BY <2>4 DEF SameMod
  <2> QED  BY <2>1, <2>5
<1>11. AbsOf(Centred(q, P)) <= AbsOf(o)
  <2>1. PICK h \in Nat : P = 2 * h
    <3>1. P = 2 * (2 * Quarter) /\ 2 * Quarter \in Nat
      BY Types
    <3> QED  BY <3>1
  <2> QED  BY <1>0, <1>10, <2>1, CentredIsLeast
<1>12. PICK y1 \in Int, y2 \in Int : y1 = AbsOf(Centred(q, P)) /\ y2 = AbsOf(o)
  <2>1. Centred(q, P) \in Int
    BY <1>0, <1>10, CentredFacts
  <2> QED  BY <2>1, AbsType
<1>13. 2 * y1 <= wy + wz
  BY <1>9, <1>11, <1>12
<1> QED  BY <1>2, <1>3, <1>10, <1>12, <1>13

\* What decapsulation rests on: the values that the two parties pack agree up to
\* half a unit for each unit of the secrets, three times that where a row wraps at
\* Y^K.  The bound holds for every secret, matrix and message, and for all moduli.
THEOREM NoiseBound == Spec => []NoiseIsBounded
<1>1. PkeInv => NoiseIsBounded
  <2> SUFFICES ASSUME PkeInv, pc = "done", NEW k \in row_min..K - 1, NEW d \in 0..N - 1
               PROVE  2 * AbsOf(Centred(v[k - row_min][d] - vp[k - row_min][d], P))
                        <= Weight(s, k) + Weight(sp, k)
    BY DEF NoiseIsBounded
  <2>1. bDone(0) /\ bpDone(0) /\ vpDone(0) /\ vDone(0)
    BY DEF PkeInv, DoneInv
  <2>2. a \in Ring /\ s \in Ring /\ sp \in Ring /\ b \in Ring /\ bp \in Ring
    BY Elements DEF PkeInv
  <2>3. k \in 0..K - 1 /\ k >= row_min
    BY Sizes
  <2>4. /\ \A l \in 0..K - 1 : b[l] = Rounded(RingProduct(a, s)[l])
        /\ \A l \in 0..K - 1 : bp[l] = Rounded(RingProduct(a, sp)[l])
    BY <2>1 DEF bDone, bpDone
  <2>5. /\ v[k - row_min][d] = RingProduct(bp, s)[k][d] % P
        /\ vp[k - row_min][d] = RingProduct(b, sp)[k][d] % P
    BY <2>1, <2>3 DEF vDone, vpDone, ModP
  <2> QED  BY <2>2, <2>3, <2>4, <2>5, NoiseOfProducts
<1> QED  BY <1>1, Invariant, PTL
=============================================================================
