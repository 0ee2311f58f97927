--------------------------- MODULE Fips202Proofs ---------------------------
(***************************************************************************)
(* Theorems about the two models of fips202.c.                             *)
(*                                                                         *)
(* About Sponge, for every rate, digest and bound on the input and the     *)
(* output.  The inductive invariant is TypeOK, AbsorbInv (the bytes that   *)
(* calls have handed over and that are still outstanding, against the      *)
(* blocks permuted in and the position), PaddedInv (what the absorption    *)
(* left behind) and StreamInv (where in the stream the position of         *)
(* squeezing is).                                                          *)
(*                                                                         *)
(* About Keccak, for every state, chunk, padding and place to squeeze      *)
(* from.  The lanes are read as the bit string of the standard (BitsOf);   *)
(* theta, rho and pi, chi, and iota are shown equal to those of the        *)
(* standard one after the other, so that half of the loop body is a round  *)
(* (RoundIs), and the ways to XOR bytes in, and to take bytes out, to be   *)
(* those of its string.  The inductive invariant KeccakInv has the types,  *)
(* the even round between the halves, and that what was squeezed is still  *)
(* in the state.                                                           *)
(***************************************************************************)
EXTENDS Sponge, Keccak, NumberLemmas, FiniteSetTheorems, SequenceTheorems, TLAPS

----------------------------------------------------------------------------
(* The inductive invariant.                                                *)

Absorbing == pc \in {"start", "absorbing", "absorb", "once"}

\* The first n bytes of block b of the message, before any padding.
Filled(b, n) == [j \in 0..R - 1 |-> IF j < n THEN {R * b + j + 1} ELSE {}]

\* While it absorbs, the state is the message as far as it was given and is not
\* outstanding: whole blocks permuted in, and pos bytes of the next.
AbsorbInv ==
  Absorbing =>
    /\ given - inlen = R * Len(past) + pos
    /\ pc \in {"start", "absorbing"} => inlen = 0
    /\ pc \in {"start", "once"} => pos = 0
    /\ pc = "start" => given = 0
    /\ \A b \in 1..Len(past) : past[b] = Filled(b - 1, R)
    /\ lane = Filled(Len(past), pos)
    /\ out = <<>>

\* Blocks of the padded message that come before its last one.
Whole == given \div R

\* After the absorption: the whole message, then nothing.
PaddedInv ==
  Absorbed =>
    /\ Len(past) >= Whole
    /\ \A b \in 1..Len(past) :
         past[b] = IF b <= Whole + 1 THEN MessageBlock(given, b - 1) ELSE Empty
    /\ lane = IF Len(past) = Whole THEN MessageBlock(given, Whole) ELSE Empty

\* pos is the place in the stream: the blocks squeezed before, and pos bytes of this one.
StreamInv ==
  /\ pc \in {"squeezing", "squeeze", "blocks"} =>
       Len(out) = R * (Len(past) - Whole - 1) + pos
  /\ pc = "blocks" => pos = R

SpongeInv == TypeOK /\ AbsorbInv /\ PaddedInv /\ OutputIsStream /\ StreamInv

----------------------------------------------------------------------------
(* Blocks.                                                                 *)

StateType == [0..R - 1 -> SUBSET Int]

LEMMA BlockTypes ==
  ASSUME NEW b \in Nat, NEW n \in Nat, NEW m \in Int
  PROVE  Filled(b, m) \in StateType /\ MessageBlock(n, b) \in StateType /\ Empty \in StateType
<1> USE SpongeAssumption DEF StateType
<1>1. PICK x \in Int : x = R * b
  OBVIOUS
<1>2. Filled(b, m) = [j \in 0..R - 1 |-> IF j < m THEN {x + j + 1} ELSE {}]
  BY <1>1 DEF Filled
<1>3. Filled(b, m) \in StateType
  BY <1>2
<1>4. MessageBlock(n, b) =
        [j \in 0..R - 1 |->
           (IF x + j < n THEN {x + j + 1} ELSE {}) \cup (IF x + j = n THEN {DomainByte} ELSE {})
             \cup (IF b = n \div R /\ j = R - 1 THEN {LastBit} ELSE {})]
  BY <1>1 DEF MessageBlock
<1>5. MessageBlock(n, b) \in StateType
  BY <1>4 DEF DomainByte, LastBit
<1> QED  BY <1>3, <1>5 DEF Empty

\* Message bytes that are XORed in behind the ones before them fill the block further.
LEMMA FillFurther ==
  ASSUME NEW b \in Nat, NEW p \in Nat, NEW n \in Nat, p + n <= R
  PROVE  XorBytes(Filled(b, p), p, n, R * b + p + 1) = Filled(b, p + n)
<1> USE SpongeAssumption
<1>1. PICK x \in Int : x = R * b
  OBVIOUS
<1>2. ASSUME NEW j \in 0..R - 1
      PROVE  (IF j \in p..p + n - 1 THEN Xor(Filled(b, p)[j], {x + p + 1 + j - p}) ELSE Filled(b, p)[j])
               = (IF j < p + n THEN {x + j + 1} ELSE {})
  <2>1. Filled(b, p)[j] = IF j < p THEN {x + j + 1} ELSE {}
    BY <1>1 DEF Filled
  <2>2. CASE j < p
    BY <2>1, <2>2
  <2>3. CASE j \in p..p + n - 1
    <3>1. Xor({}, {x + p + 1 + j - p}) = {x + p + 1 + j - p}
      BY DEF Xor
    <3>2. x + p + 1 + j - p = x + j + 1
      BY <2>3
    <3> QED  BY <2>1, <2>3, <3>1, <3>2
  <2>4. CASE j >= p + n
    BY <2>1, <2>4
  <2> QED  BY <2>2, <2>3, <2>4
<1>3. XorBytes(Filled(b, p), p, n, R * b + p + 1)
        = [j \in 0..R - 1 |-> IF j \in p..p + n - 1
                              THEN Xor(Filled(b, p)[j], {x + p + 1 + j - p}) ELSE Filled(b, p)[j]]
  BY <1>1 DEF XorBytes
<1>4. Filled(b, p + n) = [j \in 0..R - 1 |-> IF j < p + n THEN {x + j + 1} ELSE {}]
  BY <1>1 DEF Filled
<1> QED  BY <1>2, <1>3, <1>4

\* A full block is a block of the message before its last.
LEMMA FullBlock ==
  ASSUME NEW b \in Nat, NEW n \in Nat, b < n \div R
  PROVE  Filled(b, R) = MessageBlock(n, b)
<1> USE SpongeAssumption
<1>1. PICK x \in Int : x = R * b
  OBVIOUS
<1>2. x + R <= n
  <2>1. PICK t \in Int, r \in 0..R - 1 : t = n \div R /\ r = n % R /\ n = R * t + r
    BY Division
  <2>2. R * (b + 1) <= R * t
    BY <2>1
  <2>3. R * (b + 1) = x + R
    BY <1>1
  <2>4. R * t \in Int
    BY <2>1
  <2> QED  BY <2>1, <2>2, <2>3, <2>4
<1>3. ASSUME NEW j \in 0..R - 1
      PROVE  x + j < n /\ x + j # n /\ j < R
  BY <1>2
<1>4. b # n \div R
  OBVIOUS
<1>5. Filled(b, R) = [j \in 0..R - 1 |-> IF j < R THEN {x + j + 1} ELSE {}]
  BY <1>1 DEF Filled
<1>6. MessageBlock(n, b) =
        [j \in 0..R - 1 |->
           (IF x + j < n THEN {x + j + 1} ELSE {}) \cup (IF x + j = n THEN {DomainByte} ELSE {})
             \cup (IF b = n \div R /\ j = R - 1 THEN {LastBit} ELSE {})]
  BY <1>1 DEF MessageBlock
<1> QED  BY <1>3, <1>4, <1>5, <1>6

\* The padding completes the last block, also when its two marks meet in one byte.
LEMMA PaddedBlock ==
  ASSUME NEW b \in Nat, NEW p \in 0..R - 1
  PROVE  Padded(Filled(b, p), p) = MessageBlock(R * b + p, b) /\ (R * b + p) \div R = b
<1> USE SpongeAssumption
<1>1. PICK x \in Int : x = R * b
  OBVIOUS
<1>2. (R * b + p) \div R = b
  <2>1. PICK n \in Int : n = R * b + p
    OBVIOUS
  <2> QED  BY <2>1, DivisionUnique
<1> DEFINE f == Filled(b, p)
           d == [f EXCEPT ![p] = Xor(@, {DomainByte})]
<1>3. f = [j \in 0..R - 1 |-> IF j < p THEN {x + j + 1} ELSE {}]
  BY <1>1 DEF Filled
<1>4. Padded(f, p) = [d EXCEPT ![R - 1] = Xor(@, {LastBit})]
  BY DEF Padded
<1> HIDE DEF f
<1>5. ASSUME NEW j \in 0..R - 1
      PROVE  d[j] = (IF j < p THEN {x + j + 1} ELSE {}) \cup (IF j = p THEN {DomainByte} ELSE {})
  <2>1. CASE j = p
    <3>1. d[j] = Xor(f[p], {DomainByte}) /\ f[p] = {}
      BY <1>3, <2>1
    <3> QED  BY <2>1, <3>1 DEF Xor
  <2>2. CASE j # p
    <3>1. d[j] = f[j]
      BY <1>3, <2>2
    <3> QED  BY <1>3, <2>2, <3>1
  <2> QED  BY <2>1, <2>2
<1>6. d = [j \in 0..R - 1 |-> d[j]] /\ R - 1 \in 0..R - 1
  <2>1. DOMAIN f = 0..R - 1 /\ f = [j \in 0..R - 1 |-> f[j]]
    BY <1>3
  <2> HIDE <1>3
  <2>2. d = [j \in 0..R - 1 |-> IF j = p THEN Xor(f[p], {DomainByte}) ELSE f[j]]
    BY <2>1
  <2>3. \A j \in 0..R - 1 : d[j] = IF j = p THEN Xor(f[p], {DomainByte}) ELSE f[j]
    BY <2>1
  <2> HIDE DEF d
  <2>4. d = [j \in 0..R - 1 |-> d[j]]
    BY <2>2, <2>3
  <2> QED  BY <2>4
<1> HIDE DEF d
<1>7. ASSUME NEW j \in 0..R - 1
      PROVE  [d EXCEPT ![R - 1] = Xor(@, {LastBit})][j] =
               d[j] \cup (IF j = R - 1 THEN {LastBit} ELSE {})
  <2>1. CASE j = R - 1
    <3>1. [d EXCEPT ![R - 1] = Xor(@, {LastBit})][j] = Xor(d[j], {LastBit})
      BY <1>6, <2>1
    <3>2. LastBit \notin d[j]
      BY <1>1, <1>5 DEF LastBit, DomainByte
    <3> QED  BY <2>1, <3>1, <3>2 DEF Xor
  <2>2. CASE j # R - 1
    BY <1>6, <2>2
  <2> QED  BY <2>1, <2>2
<1>8. Padded(f, p) = [j \in 0..R - 1 |-> d[j] \cup (IF j = R - 1 THEN {LastBit} ELSE {})]
  BY <1>4, <1>6, <1>7
<1>9. ASSUME NEW j \in 0..R - 1
      PROVE  d[j] \cup (IF j = R - 1 THEN {LastBit} ELSE {}) =
               (IF x + j < x + p THEN {x + j + 1} ELSE {})
                 \cup (IF x + j = x + p THEN {DomainByte} ELSE {})
                 \cup (IF j = R - 1 THEN {LastBit} ELSE {})
  <2>1. (x + j < x + p <=> j < p) /\ (x + j = x + p <=> j = p)
    OBVIOUS
  <2> QED  BY <1>5, <2>1
<1>10. MessageBlock(R * b + p, b) =
        [j \in 0..R - 1 |->
           (IF x + j < x + p THEN {x + j + 1} ELSE {}) \cup (IF x + j = x + p THEN {DomainByte} ELSE {})
             \cup (IF j = R - 1 THEN {LastBit} ELSE {})]
  BY <1>1, <1>2 DEF MessageBlock
<1> QED  BY <1>2, <1>8, <1>9, <1>10 DEF f

\* A message ends in the block that its length divided by the rate says.
LEMMA WholeBlocks ==
  ASSUME NEW b \in Nat, NEW p \in 0..R - 1, NEW n \in Int, n = R * b + p
  PROVE  n \div R = b
  BY SpongeAssumption, DivisionUnique

----------------------------------------------------------------------------
(* The steps.                                                              *)

Bytes == [perms : Nat, at : 0..R - 1]

ByteAt(c, j) == [perms |-> c, at |-> j]
PartOfBlock(c, from, to) == c \in Nat /\ from \in Nat /\ to \in Nat /\ from <= to /\ to <= R

LEMMA StateBytesType ==
  ASSUME NEW c, NEW from, NEW to, PartOfBlock(c, from, to)
  PROVE  /\ StateBytes(c, from, to) \in Seq(Bytes)
         /\ Len(StateBytes(c, from, to)) = to - from
         /\ \A k \in 1..to - from : StateBytes(c, from, to)[k] = ByteAt(c, from + k - 1)
<1> USE SpongeAssumption
<1> DEFINE u == StateBytes(c, from, to)
<1>1. PICK n \in Nat : n = to - from
  BY DEF PartOfBlock
<1>2. u = [k \in 1..n |-> ByteAt(c, from + k - 1)]
  BY <1>1 DEF StateBytes, ByteAt
<1>3. ASSUME NEW k \in 1..n
      PROVE  ByteAt(c, from + k - 1) \in Bytes
  <2>1. from + k - 1 \in 0..R - 1 /\ c \in Nat
    BY <1>1 DEF PartOfBlock
  <2> QED  BY <2>1 DEF Bytes, ByteAt
<1> HIDE DEF u
<1>4. u \in [1..n -> Bytes]
  BY <1>2, <1>3
<1>5. u \in Seq(Bytes)
  BY <1>4, SeqDef
<1>6. DOMAIN u = 1..n /\ Len(u) \in Nat /\ DOMAIN u = 1..Len(u)
  BY <1>4, <1>5, LenProperties
<1>7. Len(u) = n
  BY <1>6
<1>8. \A k \in 1..n : u[k] = ByteAt(c, from + k - 1)
  BY <1>2
<1> QED  BY <1>1, <1>5, <1>7, <1>8, Zenon DEF u

\* Byte k of the output, for a message of q whole blocks and a rest.
StreamByte(q, k) == [perms |-> q + 1 + (k - 1) \div R, at |-> (k - 1) % R]
IsStream(q, s) == s \in Seq(Bytes) /\ \A k \in 1..Len(s) : s[k] = StreamByte(q, k)

\* A stream that ends before byte from of the state after c permutations.
EndsBefore(q, s, c, from) == q \in Nat /\ q < c /\ Len(s) = R * (c - q - 1) + from

\* A stream goes on behind the bytes that were squeezed.
LEMMA StreamGoesOn ==
  ASSUME NEW q, NEW c, NEW from, NEW to, NEW s, NEW t,
         PartOfBlock(c, from, to), IsStream(q, s), EndsBefore(q, s, c, from),
         t = s \o StateBytes(c, from, to)
  PROVE  IsStream(q, t) /\ EndsBefore(q, t, c, to)
<1> DEFINE u == StateBytes(c, from, to)
<1>1. PICK p \in Nat, n \in Nat, l \in Nat :
        /\ p = c - q - 1 /\ n = to - from /\ l = Len(s) /\ c = q + 1 + p /\ from + n <= R
        /\ from \in Nat /\ q \in Nat /\ c \in Nat
  <2>1. s \in Seq(Bytes) /\ Len(s) \in Nat
    BY LenProperties DEF IsStream
  <2>2. /\ c - q - 1 \in Nat /\ to - from \in Nat
        /\ from + (to - from) <= R /\ c = q + 1 + (c - q - 1)
        /\ from \in Nat /\ q \in Nat /\ c \in Nat
    BY SpongeAssumption DEF PartOfBlock, EndsBefore
  <2> QED  BY <2>1, <2>2, Zenon
<1>2. /\ u \in Seq(Bytes) /\ Len(u) = n
      /\ \A k \in 1..n : u[k] = ByteAt(c, from + k - 1)
  <2>1. /\ u \in Seq(Bytes) /\ Len(u) = to - from
        /\ \A k \in 1..to - from : u[k] = ByteAt(c, from + k - 1)
    BY StateBytesType
  <2> QED  BY <1>1, <2>1
<1>3. t = s \o u /\ s \in Seq(Bytes) /\ l = R * p + from
  BY <1>1 DEF IsStream, EndsBefore
<1> HIDE DEF u
<1>4. /\ t \in Seq(Bytes) /\ Len(t) = l + n
      /\ \A k \in 1..l + n : t[k] = IF k <= l THEN s[k] ELSE u[k - l]
  <2>2. /\ s \o u \in Seq(Bytes) /\ Len(s \o u) = Len(s) + Len(u)
        /\ \A k \in 1..Len(s) + Len(u) : (s \o u)[k] = IF k <= Len(s) THEN s[k] ELSE u[k - Len(s)]
    BY <1>2, <1>3, ConcatProperties
  <2>1. /\ t \in Seq(Bytes) /\ Len(t) = Len(s) + Len(u)
        /\ \A k \in 1..Len(s) + Len(u) : t[k] = IF k <= Len(s) THEN s[k] ELSE u[k - Len(s)]
    BY <1>3, <2>2, Zenon
  <2> QED  BY <1>1, <1>2, <2>1, Zenon
<1>5. ASSUME NEW k \in l + 1..l + n
      PROVE  t[k] = StreamByte(q, k)
  <2>1. (k - 1) \div R = p /\ (k - 1) % R = from + (k - l) - 1
    <3>1. PICK x \in Int : x = R * p
      BY SpongeAssumption
    <3>2. PICK r \in 0..R - 1 : r = from + (k - l) - 1
      <4>1. from \in Nat /\ from + n <= R
        BY <1>1
      <4> QED  BY <4>1, SpongeAssumption
    <3>3. PICK m \in Int : m = k - 1
      OBVIOUS
    <3>4. m = R * p + r
      BY <1>1, <1>3, <3>1, <3>2, <3>3, SpongeAssumption
    <3>5. R \in Nat \ {0} /\ p \in Int
      BY SpongeAssumption
    <3>6. m \div R = p /\ m % R = r
      BY <3>4, <3>5, DivisionUnique
    <3> QED  BY <3>2, <3>3, <3>6
  <2>2. k \in 1..l + n /\ ~(k <= l) /\ k - l \in 1..n
    OBVIOUS
  <2>3. t[k] = u[k - l]
    BY <1>4, <2>2
  <2>4. u[k - l] = ByteAt(c, from + (k - l) - 1)
    BY <1>2, <2>2
  <2> QED  BY <1>1, <2>1, <2>3, <2>4 DEF StreamByte, ByteAt
<1>6. ASSUME NEW k \in 1..l
      PROVE  t[k] = StreamByte(q, k)
  <2>1. k \in 1..l + n /\ k <= l
    OBVIOUS
  <2> QED  BY <1>1, <1>4, <2>1 DEF IsStream
<1>7. ASSUME NEW k \in 1..l + n
      PROVE  k \in 1..l \/ k \in l + 1..l + n
  OBVIOUS
<1>8. IsStream(q, t)
  BY <1>4, <1>5, <1>6, <1>7 DEF IsStream
<1>9. Len(t) = R * (c - q - 1) + to /\ q < c
  <2>1. PICK x \in Int : x = R * p
    BY SpongeAssumption
  <2>2. to \in Int /\ n = to - from
    BY <1>1 DEF PartOfBlock
  <2>3. Len(t) = x + to
    BY <1>1, <1>3, <1>4, <2>1, <2>2
  <2> QED  BY <1>1, <2>1, <2>3
<1> QED  BY <1>1, <1>8, <1>9 DEF EndsBefore

\* What a permutation of state l does to the list of blocks.
LEMMA PermuteAppends ==
  ASSUME TypeOK, NEW l \in StateType, Permute(l)
  PROVE  /\ past' \in Seq(StateType) /\ Len(past) \in Nat /\ Len(past') = Len(past) + 1
         /\ \A b \in 1..Len(past) : past'[b] = past[b]
         /\ past'[Len(past) + 1] = l
         /\ lane' = Empty /\ Empty \in StateType
<1>1. past \in Seq(StateType)
  BY DEF TypeOK, StateType
<1>2. past' = Append(past, l)
  BY DEF Permute
<1>3. Empty \in StateType
  BY DEF Empty, StateType
<1> QED  BY <1>1, <1>2, <1>3, AppendProperties, LenProperties DEF Permute

LEMMA InitSponge == Init => SpongeInv
<1> SUFFICES ASSUME Init PROVE SpongeInv
  OBVIOUS
<1> USE SpongeAssumption
<1>1. TypeOK
  BY EmptySeq DEF Init, TypeOK, Empty
<1>2. AbsorbInv
  <2>1. Filled(0, 0) = Empty
    BY DEF Filled, Empty
  <2>2. Len(past) = 0
    BY DEF Init
  <2>3. R * 0 = 0
    OBVIOUS
  <2> QED  BY <2>1, <2>2, <2>3 DEF Init, AbsorbInv
<1> QED  BY <1>1, <1>2 DEF Init, SpongeInv, PaddedInv, Absorbed, OutputIsStream, StreamInv

\* The calls that begin an absorption, or hand it more bytes.
LEMMA BeginAbsorb ==
  ASSUME SpongeInv, shake_init \/ shake_absorb \/ shake_absorb_once
  PROVE  SpongeInv'
<1> USE SpongeAssumption
<1>1. CASE shake_absorb
  <2>1. TypeOK'
    BY <1>1 DEF shake_absorb, SpongeInv, TypeOK
  <2>2. AbsorbInv'
    <3>1. PICK n \in Nat : inlen' = n /\ given' = given + n
      BY <1>1 DEF shake_absorb
    <3>2. given' - inlen' = given - inlen
      BY <1>1, <3>1 DEF shake_absorb, SpongeInv, AbsorbInv, Absorbing, TypeOK
    <3> QED  BY <1>1, <3>2 DEF shake_absorb, SpongeInv, AbsorbInv, Absorbing, Filled
  <2> QED  BY <1>1, <2>1, <2>2 DEF shake_absorb, SpongeInv, PaddedInv, Absorbed, OutputIsStream,
             StreamInv, AbsorbInv, Absorbing
<1>2. CASE shake_init \/ shake_absorb_once
  <2>1. /\ past' = <<>> /\ Len(past') = 0 /\ lane' = Empty /\ pos' = 0 /\ out' = <<>>
        /\ inlen' \in Nat /\ given' = inlen'
        /\ pc' \in {"absorbing", "once"} /\ (pc' = "absorbing" => inlen' = 0)
        /\ UNCHANGED <<outlen, nblocks>>
    <3>1. pos = 0 /\ out = <<>> /\ (pc = "start" => given = 0 /\ inlen = 0) /\ pc = "start"
      BY <1>2 DEF shake_init, shake_absorb_once, SpongeInv, AbsorbInv, Absorbing
    <3>2. CASE shake_init
      BY <3>1, <3>2 DEF shake_init
    <3>3. CASE shake_absorb_once
      BY <3>1, <3>3 DEF shake_absorb_once
    <3> QED  BY <1>2, <3>2, <3>3
  <2>2. TypeOK'
    BY <2>1, EmptySeq DEF SpongeInv, TypeOK, Empty
  <2>3. AbsorbInv'
    <3>1. Filled(0, 0) = Empty
      BY DEF Filled, Empty
    <3>2. given' - inlen' = R * Len(past') + pos'
      <4>1. R * 0 + 0 = 0
        OBVIOUS
      <4>2. R * Len(past') + pos' = R * 0 + 0
        BY <2>1
      <4>3. given' - inlen' = 0
        <5>1. PICK m \in Nat : m = inlen' /\ m = given'
          BY <2>1
        <5>2. given' - inlen' = m - m
          BY <5>1, Zenon
        <5>3. m - m = 0
          OBVIOUS
        <5> QED  BY <5>2, <5>3, Zenon
      <4> QED  BY <4>1, <4>2, <4>3
    <3>3. lane' = Filled(Len(past'), pos')
      BY <2>1, <3>1
    <3>4. \A b \in 1..Len(past') : past'[b] = Filled(b - 1, R)
      BY <2>1
    <3> QED  BY <2>1, <3>2, <3>3, <3>4 DEF AbsorbInv
  <2> QED  BY <2>1, <2>2, <2>3 DEF SpongeInv, PaddedInv, Absorbed, OutputIsStream, StreamInv
<1> QED  BY <1>1, <1>2

\* The blocks that the message fills.
LEMMA AbsorbBlock ==
  ASSUME SpongeInv, absorb_block \/ once_block
  PROVE  SpongeInv'
<1> USE SpongeAssumption
<1> DEFINE L == Len(past)
           X == XorBytes(lane, pos, R - pos, given - inlen + 1)
<1>1. past \in Seq(StateType) /\ L \in Nat /\ pos \in 0..R - 1 /\ inlen \in Nat /\ given \in Nat
  BY LenProperties DEF SpongeInv, TypeOK, AbsorbInv, Absorbing, absorb_block, once_block, StateType
<1>2. PICK x \in Int : x = R * L
  BY <1>1
<1>3. /\ given - inlen = x + pos /\ out = <<>> /\ lane = Filled(L, pos)
      /\ \A b \in 1..L : past[b] = Filled(b - 1, R)
      /\ pc = "once" => pos = 0
      /\ pc = "absorb" \/ pc = "once"
  BY <1>2 DEF SpongeInv, AbsorbInv, Absorbing, absorb_block, once_block
<1>4. X = Filled(L, R) /\ X \in StateType
  <2>1. given - inlen + 1 = R * L + pos + 1
    BY <1>1, <1>2, <1>3
  <2>2. X = XorBytes(Filled(L, pos), pos, R - pos, R * L + pos + 1)
    BY <1>3, <2>1
  <2>3. pos \in Nat /\ R - pos \in Nat /\ pos + (R - pos) = R
    BY <1>1
  <2> QED  BY <1>1, <2>2, <2>3, FillFurther, BlockTypes
<1>5. /\ Permute(X) /\ inlen' = inlen - (R - pos) /\ inlen' \in Nat /\ pos' = 0
      /\ UNCHANGED <<pc, outlen, nblocks, given, out>>
  BY <1>1, <1>3 DEF absorb_block, once_block, Full
<1> HIDE DEF L, X
<1>6. /\ past' \in Seq(StateType) /\ Len(past') = L + 1 /\ lane' = Empty /\ Empty \in StateType
      /\ \A b \in 1..L : past'[b] = past[b]
      /\ past'[L + 1] = Filled(L, R)
  BY <1>4, <1>5, PermuteAppends DEF SpongeInv, L
<1>7. TypeOK'
  BY <1>1, <1>5, <1>6 DEF SpongeInv, TypeOK, StateType
<1>8. AbsorbInv'
  <2>1. R * (L + 1) = x + R
    BY <1>1, <1>2
  <2>2. given' - inlen' = R * Len(past') + pos'
    BY <1>1, <1>2, <1>3, <1>5, <1>6, <2>1
  <2>3. ASSUME NEW b \in 1..Len(past')
        PROVE  past'[b] = Filled(b - 1, R)
    <3>1. CASE b \in 1..L
      BY <1>3, <1>6, <3>1
    <3>2. CASE b = L + 1
      <4>1. b - 1 = L
        BY <1>1, <3>2
      <4> QED  BY <1>6, <3>2, <4>1
    <3> QED  BY <1>1, <1>6, <3>1, <3>2
  <2>4. lane' = Filled(Len(past'), 0)
    BY <1>6 DEF Filled, Empty
  <2> QED  BY <1>3, <1>5, <2>2, <2>3, <2>4 DEF AbsorbInv, Filled
<1> QED  BY <1>3, <1>5, <1>7, <1>8 DEF SpongeInv, PaddedInv, Absorbed, OutputIsStream, StreamInv

\* The bytes that are left behind the last full block.
LEMMA AbsorbRest ==
  ASSUME SpongeInv, absorb_rest
  PROVE  SpongeInv'
<1> USE SpongeAssumption
<1> DEFINE L == Len(past)
<1>1. L \in Nat /\ pos \in Nat /\ inlen \in Nat /\ given \in Nat /\ pos + inlen < R
  BY LenProperties DEF SpongeInv, TypeOK, absorb_rest, Full
<1>2. PICK x \in Int : x = R * L
  BY <1>1
<1>3. /\ given - inlen = x + pos /\ out = <<>> /\ lane = Filled(L, pos)
      /\ \A b \in 1..L : past[b] = Filled(b - 1, R)
  BY <1>2 DEF SpongeInv, AbsorbInv, Absorbing, absorb_rest
<1>4. lane' = Filled(L, pos + inlen) /\ lane' \in StateType
  <2>1. given - inlen + 1 = R * L + pos + 1
    BY <1>1, <1>2, <1>3
  <2>2. lane' = XorBytes(Filled(L, pos), pos, inlen, R * L + pos + 1)
    BY <1>3, <2>1 DEF absorb_rest
  <2> QED  BY <1>1, <2>2, FillFurther, BlockTypes
<1>5. TypeOK'
  BY <1>1, <1>4 DEF SpongeInv, TypeOK, StateType, absorb_rest
<1>6. AbsorbInv'
  <2>1. given' - inlen' = R * Len(past') + pos'
    BY <1>1, <1>2, <1>3 DEF absorb_rest
  <2>2. lane' = Filled(Len(past'), pos')
    BY <1>4 DEF absorb_rest
  <2> QED  BY <1>3, <2>1, <2>2 DEF AbsorbInv, absorb_rest
<1> QED  BY <1>3, <1>5, <1>6 DEF SpongeInv, PaddedInv, Absorbed, OutputIsStream, StreamInv, absorb_rest

\* The padding ends the absorption.
LEMMA Finish ==
  ASSUME SpongeInv, shake_finalize \/ once_rest
  PROVE  SpongeInv'
<1> USE SpongeAssumption
<1> DEFINE L == Len(past)
<1>1. L \in Nat /\ pos \in Nat /\ inlen \in Nat /\ given \in Nat
  BY LenProperties DEF SpongeInv, TypeOK
<1>2. PICK x \in Int : x = R * L
  BY <1>1
<1>3. /\ given - inlen = x + pos /\ out = <<>> /\ lane = Filled(L, pos)
      /\ \A b \in 1..L : past[b] = Filled(b - 1, R)
      /\ shake_finalize => inlen = 0
      /\ once_rest => pos = 0
  BY <1>2 DEF SpongeInv, AbsorbInv, Absorbing, shake_finalize, once_rest
<1>4. PICK p \in 0..R - 1 : given = x + p /\ lane' = Padded(Filled(L, p), p)
  <2>1. CASE shake_finalize
    BY <1>1, <1>3, <2>1 DEF shake_finalize, SpongeInv, TypeOK
  <2>2. CASE once_rest
    <3>1. inlen < R /\ lane' = Padded(XorBytes(Filled(L, 0), 0, inlen, R * L + 0 + 1), inlen)
      <4>1. given - inlen + 1 = R * L + 0 + 1
        BY <1>1, <1>2, <1>3, <2>2
      <4> QED  BY <1>3, <2>2, <4>1 DEF once_rest
    <3>2. XorBytes(Filled(L, 0), 0, inlen, R * L + 0 + 1) = Filled(L, 0 + inlen)
      <4>1. 0 \in Nat /\ 0 + inlen <= R
        BY <1>1, <3>1
      <4> QED  BY <1>1, <4>1, FillFurther
    <3>3. 0 + inlen = inlen /\ given = x + inlen
      BY <1>1, <1>2, <1>3, <2>2
    <3> QED  BY <1>1, <3>1, <3>2, <3>3
  <2> QED  BY <2>1, <2>2
<1>5. lane' = MessageBlock(given, L) /\ given \div R = L
  <2>1. given = R * L + p
    BY <1>2, <1>4
  <2> QED  BY <1>1, <1>4, <2>1, PaddedBlock
<1>6. /\ UNCHANGED <<past, outlen, nblocks, given, out>>
      /\ pc' = "squeezing" /\ pos' = R /\ inlen' = 0
  BY <1>3 DEF shake_finalize, once_rest
<1>7. TypeOK'
  <2>1. lane' \in StateType
    BY <1>1, <1>5, BlockTypes
  <2> QED  BY <1>6, <2>1 DEF SpongeInv, TypeOK, StateType
<1>8. PaddedInv'
  <2>1. \A b \in 1..L : past[b] = MessageBlock(given, b - 1)
    <3>1. ASSUME NEW b \in 1..L
          PROVE  past[b] = MessageBlock(given, b - 1)
      <4>1. PICK c \in Nat : c = b - 1 /\ c < given \div R
        BY <1>1, <1>5
      <4> QED  BY <1>1, <1>3, <4>1, FullBlock
    <3> QED  BY <3>1
  <2>2. Whole' = L /\ L <= L + 1
    BY <1>1, <1>5, <1>6 DEF Whole
  <2> QED  BY <1>1, <1>5, <1>6, <2>1, <2>2 DEF PaddedInv, Absorbed
<1>9. StreamInv'
  <2>1. Whole' = L /\ Len(past') = L /\ Len(out') = 0
    BY <1>3, <1>5, <1>6 DEF Whole
  <2>2. R * (L - L - 1) + R = 0
    BY <1>1
  <2> QED  BY <1>6, <2>1, <2>2 DEF StreamInv
<1> QED  BY <1>3, <1>6, <1>7, <1>8, <1>9 DEF SpongeInv, AbsorbInv, Absorbing, OutputIsStream

LEMMA WholeIsNat ==
  ASSUME TypeOK
  PROVE  Whole \in Nat
<1> USE SpongeAssumption
<1>1. given \in Nat
  BY DEF TypeOK
<1>2. PICK t \in Int, r \in 0..R - 1 : t = given \div R /\ given = R * t + r
  BY <1>1, Division
<1>3. ASSUME t <= -1 PROVE FALSE
  <2>1. R * t <= R * (-1)
    BY <1>2, <1>3
  <2>2. R * t \in Int /\ R * (-1) = -R
    BY <1>2
  <2> QED  BY <1>1, <1>2, <2>1, <2>2
<1> QED  BY <1>2, <1>3 DEF Whole

\* Another permutation leaves the padded message behind it, and nothing after.
LEMMA PermuteKeepsPadded ==
  ASSUME SpongeInv, Absorbed, Absorbed', given' = given, Permute(lane)
  PROVE  /\ PaddedInv'
         /\ past' \in Seq(StateType) /\ lane' \in StateType
         /\ Len(past) \in Nat /\ Whole \in Nat /\ Len(past) >= Whole /\ Len(past') = Len(past) + 1
<1> USE SpongeAssumption
<1> DEFINE L == Len(past)
<1>1. /\ L >= Whole
      /\ \A b \in 1..L : past[b] = IF b <= Whole + 1 THEN MessageBlock(given, b - 1) ELSE Empty
      /\ lane = IF L = Whole THEN MessageBlock(given, Whole) ELSE Empty
  BY DEF SpongeInv, PaddedInv
<1>2. /\ past' \in Seq(StateType) /\ L \in Nat /\ Len(past') = L + 1
      /\ \A b \in 1..L : past'[b] = past[b]
      /\ past'[L + 1] = lane /\ lane' = Empty /\ Empty \in StateType
  <2>1. lane \in StateType
    BY DEF SpongeInv, TypeOK, StateType
  <2> QED  BY <2>1, PermuteAppends DEF SpongeInv
<1>3. Whole \in Nat /\ Whole' = Whole
  BY WholeIsNat DEF SpongeInv, Whole
<1>4. ASSUME NEW b \in 1..L + 1
      PROVE  past'[b] = IF b <= Whole + 1 THEN MessageBlock(given, b - 1) ELSE Empty
  <2>1. CASE b \in 1..L
    BY <1>1, <1>2, <2>1
  <2>2. CASE b = L + 1
    <3>1. b - 1 = L /\ (b <= Whole + 1 <=> L = Whole)
      BY <1>1, <1>2, <1>3, <2>2
    <3> QED  BY <1>1, <1>2, <2>2, <3>1
  <2> QED  BY <1>2, <2>1, <2>2
<1>5. PaddedInv'
  BY <1>1, <1>2, <1>3, <1>4 DEF PaddedInv
<1> QED  BY <1>1, <1>2, <1>3, <1>5

\* A call of squeezing begins or returns.
LEMMA SqueezeCalls ==
  ASSUME SpongeInv, shake_squeeze \/ squeeze_return \/ shake_squeezeblocks \/ squeezeblocks_return
  PROVE  SpongeInv'
<1> USE SpongeAssumption
<1>1. /\ UNCHANGED <<past, lane, pos, inlen, given, out>>
      /\ pc \in {"squeezing", "squeeze", "blocks"} /\ pc' \in {"squeezing", "squeeze", "blocks"}
      /\ pc' = "blocks" => pos = R
      /\ outlen' \in Nat /\ nblocks' \in Nat
  BY DEF SpongeInv, TypeOK, StreamInv, shake_squeeze, squeeze_return, shake_squeezeblocks,
         squeezeblocks_return
<1>2. TypeOK'
  BY <1>1 DEF SpongeInv, TypeOK
<1>3. PaddedInv'
  BY <1>1 DEF SpongeInv, PaddedInv, Absorbed, Whole
<1>4. StreamInv'
  BY <1>1 DEF SpongeInv, StreamInv, Whole
<1> QED  BY <1>1, <1>2, <1>3, <1>4 DEF SpongeInv, AbsorbInv, Absorbing, OutputIsStream

\* Squeezing n bytes of a block that was permuted just now: all that is left of the
\* stream so far is whole blocks.
LEMMA FreshBlock ==
  ASSUME SpongeInv, Absorbed, pc # "done", pos = R, Absorbed', given' = given, Permute(lane),
         NEW n \in 0..R, out' = out \o StateBytes(Len(past'), 0, n)
  PROVE  /\ PaddedInv' /\ OutputIsStream'
         /\ past' \in Seq(StateType) /\ lane' \in StateType /\ out' \in Seq(Bytes)
         /\ Len(out') = R * (Len(past') - Whole' - 1) + n
<1> USE SpongeAssumption
<1>1. /\ PaddedInv' /\ past' \in Seq(StateType) /\ lane' \in StateType
      /\ Len(past) \in Nat /\ Whole \in Nat /\ Len(past) >= Whole /\ Len(past') = Len(past) + 1
  BY PermuteKeepsPadded
<1>2. PICK p \in Nat : p = Len(past) - Whole
  <2>1. Len(past) - Whole \in Nat
    BY <1>1
  <2> QED  BY <2>1, Zenon
<1>3. out \in Seq(Bytes) /\ Len(out) = R * (p - 1) + R
  BY <1>1, <1>2 DEF SpongeInv, TypeOK, StreamInv, Absorbed, Bytes
<1>4. Len(out) = R * p + 0
  <2>1. PICK x \in Int : x = R * p
    OBVIOUS
  <2>2. R * (p - 1) = x - R
    BY <2>1
  <2> QED  BY <1>3, <2>1, <2>2
<1>5. IsStream(Whole, out)
  BY <1>3 DEF SpongeInv, OutputIsStream, IsStream, StreamByte, Whole
<1>6. PICK c \in Nat : c = Len(past') /\ Whole < c /\ c - Whole - 1 = p
  <2>1. PICK c \in Nat : c = Len(past) + 1
    BY <1>1
  <2>2. Whole < c /\ c - Whole - 1 = p
    BY <1>1, <1>2, <2>1
  <2>3. c = Len(past')
    BY <1>1, <2>1, Zenon
  <2> QED  BY <2>2, <2>3
<1>7. IsStream(Whole, out') /\ EndsBefore(Whole, out', c, n)
  <2>1. EndsBefore(Whole, out, c, 0) /\ PartOfBlock(c, 0, n)
    <3>1. Len(out) = R * (c - Whole - 1) + 0
      BY <1>4, <1>6
    <3> QED  BY <1>1, <1>6, <3>1 DEF EndsBefore, PartOfBlock
  <2>2. out' = out \o StateBytes(c, 0, n)
    BY <1>6
  <2> QED  BY <1>5, <2>1, <2>2, StreamGoesOn
<1>8. Whole' = Whole
  BY DEF Whole
<1>9. OutputIsStream' /\ out' \in Seq(Bytes)
  BY <1>7, <1>8 DEF OutputIsStream, IsStream, StreamByte, Whole
<1>10. Len(out') = R * p + n
  BY <1>6, <1>7 DEF EndsBefore
<1> QED  BY <1>1, <1>6, <1>8, <1>9, <1>10

\* One iteration of keccak_squeeze.
LEMMA SqueezePart ==
  ASSUME SpongeInv, squeeze_part
  PROVE  SpongeInv'
<1> USE SpongeAssumption
<1> DEFINE from == IF pos = R THEN 0 ELSE pos
           n == Taken(from, outlen)
<1>1. pos \in 0..R /\ outlen \in Nat /\ from \in 0..R - 1
  BY DEF SpongeInv, TypeOK
<1>2. n \in Nat /\ n <= outlen /\ from + n <= R
  BY <1>1 DEF Taken
<1>3. /\ out' = out \o StateBytes(Len(past'), from, from + n)
      /\ outlen' = outlen - n /\ pos' = from + n
      /\ UNCHANGED <<pc, inlen, nblocks, given>> /\ pc = "squeeze"
  BY DEF squeeze_part
<1> HIDE DEF n
<1>4. Absorbed /\ Absorbed' /\ pc # "done"
  BY <1>3 DEF Absorbed
<1>5. CASE pos = R
  <2>1. Permute(lane)
    BY <1>5 DEF squeeze_part
  <2>2. out' = out \o StateBytes(Len(past'), 0, n) /\ n \in 0..R /\ pos' = n
    BY <1>2, <1>3, <1>5
  <2>3. /\ PaddedInv' /\ OutputIsStream'
        /\ past' \in Seq(StateType) /\ lane' \in StateType /\ out' \in Seq(Bytes)
        /\ Len(out') = R * (Len(past') - Whole' - 1) + n
    BY <1>3, <1>4, <1>5, <2>1, <2>2, FreshBlock
  <2>4. TypeOK'
    BY <1>1, <1>2, <1>3, <2>2, <2>3 DEF SpongeInv, TypeOK, StateType, Bytes
  <2> QED  BY <1>3, <2>2, <2>3, <2>4 DEF SpongeInv, AbsorbInv, Absorbing, StreamInv
<1>6. CASE pos # R
  <2>1. UNCHANGED <<past, lane>>
    BY <1>6 DEF squeeze_part
  <2>2. past \in Seq(StateType) /\ Len(past) \in Nat /\ given \in Nat /\ out \in Seq(Bytes)
    BY LenProperties DEF SpongeInv, TypeOK, StateType, Bytes
  <2>3. Whole \in Int
    BY <2>2 DEF Whole
  <2>4. PICK p \in Int : p = Len(past) - Whole - 1
    <3>1. Len(past) - Whole - 1 \in Int
      BY <2>2, <2>3
    <3> QED  BY <3>1, Zenon
  <2>5. Len(out) = R * p + from
    BY <1>3, <1>6, <2>4 DEF SpongeInv, StreamInv
  <2>6. p \in Nat
    <3>1. ASSUME p <= -1 PROVE FALSE
      <4>1. R * p <= R * (-1)
        BY <3>1
      <4>2. R * p \in Int /\ R * (-1) = -R /\ Len(out) \in Nat
        BY <2>2
      <4> QED  BY <1>1, <2>5, <4>1, <4>2
    <3> QED  BY <3>1
  <2>7. IsStream(Whole, out)
    BY <2>2 DEF SpongeInv, OutputIsStream, IsStream, StreamByte, Whole
  <2>8. Whole \in Nat
    BY WholeIsNat DEF SpongeInv
  <2>9. PICK c \in Nat : c = Len(past') /\ Whole < c /\ c - Whole - 1 = p
    <3>1. Len(past) \in Nat /\ Whole < Len(past) /\ Len(past) - Whole - 1 = p /\ Len(past') = Len(past)
      BY <2>1, <2>2, <2>4, <2>6, <2>8
    <3> QED  BY <3>1, Zenon
  <2>15. PICK to \in Nat : to = from + n
    BY <1>1, <1>2
  <2>10. IsStream(Whole, out') /\ EndsBefore(Whole, out', c, to) /\ out' \in Seq(Bytes)
    <3>1. EndsBefore(Whole, out, c, from)
      BY <2>5, <2>8, <2>9 DEF EndsBefore
    <3>2. PartOfBlock(c, from, to)
      BY <1>1, <1>2, <2>15 DEF PartOfBlock
    <3>3. out' = out \o StateBytes(c, from, to)
      BY <1>3, <2>9, <2>15
    <3> HIDE DEF from
    <3>4. IsStream(Whole, out') /\ EndsBefore(Whole, out', c, to)
      BY <2>7, <3>1, <3>2, <3>3, StreamGoesOn
    <3> QED  BY <3>4 DEF IsStream
  <2>11. TypeOK'
    BY <1>1, <1>2, <1>3, <2>1, <2>10 DEF SpongeInv, TypeOK, Bytes
  <2>12. OutputIsStream'
    BY <1>3, <2>10 DEF OutputIsStream, IsStream, StreamByte, Whole
  <2>13. PaddedInv'
    BY <1>3, <1>4, <2>1 DEF SpongeInv, PaddedInv, Absorbed, Whole
  <2>14. StreamInv'
    <3>2. Len(out') = R * p + (from + n)
      BY <2>9, <2>10, <2>15 DEF EndsBefore
    <3>3. Len(past') - Whole' - 1 = p
      BY <1>3, <2>1, <2>4 DEF Whole
    <3> QED  BY <1>3, <3>2, <3>3 DEF StreamInv
  <2> QED  BY <1>3, <2>11, <2>12, <2>13, <2>14 DEF SpongeInv, AbsorbInv, Absorbing
<1> QED  BY <1>5, <1>6

\* One iteration of keccak_squeezeblocks.
LEMMA SqueezeBlock ==
  ASSUME SpongeInv, squeeze_block
  PROVE  SpongeInv'
<1> USE SpongeAssumption
<1>1. /\ Permute(lane) /\ out' = out \o StateBytes(Len(past'), 0, R) /\ nblocks' = nblocks - 1
      /\ UNCHANGED <<pos, pc, inlen, outlen, given>> /\ pc = "blocks" /\ nblocks # 0
  BY DEF squeeze_block
<1>2. Absorbed /\ Absorbed' /\ pc # "done" /\ pos = R /\ R \in 0..R
  BY <1>1 DEF Absorbed, SpongeInv, StreamInv
<1>3. /\ PaddedInv' /\ OutputIsStream'
      /\ past' \in Seq(StateType) /\ lane' \in StateType /\ out' \in Seq(Bytes)
      /\ Len(out') = R * (Len(past') - Whole' - 1) + R
  BY <1>1, <1>2, FreshBlock
<1>4. TypeOK'
  BY <1>1, <1>3 DEF SpongeInv, TypeOK, StateType, Bytes
<1> QED  BY <1>1, <1>2, <1>3, <1>4 DEF SpongeInv, AbsorbInv, Absorbing, StreamInv

\* The digest of sha3_256 and sha3_512.
LEMMA Digest ==
  ASSUME SpongeInv, sha3_digest
  PROVE  SpongeInv'
<1> USE SpongeAssumption
<1>1. /\ Permute(lane) /\ out' = out \o StateBytes(Len(past'), 0, DIGEST)
      /\ UNCHANGED <<pos, inlen, outlen, nblocks, given>> /\ pc = "squeezing" /\ pc' = "done"
      /\ pos = R
  <2>1. Permute(lane) /\ out = <<>> /\ out' = StateBytes(Len(past'), 0, DIGEST)
    BY DEF sha3_digest
  <2>2. Len(past) \in Nat /\ Len(past') = Len(past) + 1
    <3>1. lane \in StateType
      BY DEF SpongeInv, TypeOK, StateType
    <3> QED  BY <2>1, <3>1, PermuteAppends DEF SpongeInv
  <2>3. StateBytes(Len(past'), 0, DIGEST) \in Seq(Bytes)
    <3>1. PartOfBlock(Len(past'), 0, DIGEST)
      BY <2>2 DEF PartOfBlock
    <3> QED  BY <3>1, StateBytesType
  <2>4. out' = out \o StateBytes(Len(past'), 0, DIGEST)
    BY <2>1, <2>3, ConcatEmptySeq
  <2> QED  BY <2>1, <2>4 DEF sha3_digest
<1>2. Absorbed /\ Absorbed' /\ pc # "done" /\ DIGEST \in 0..R /\ given' = given
  BY <1>1 DEF Absorbed
<1>3. /\ PaddedInv' /\ OutputIsStream'
      /\ past' \in Seq(StateType) /\ lane' \in StateType /\ out' \in Seq(Bytes)
  BY <1>1, <1>2, FreshBlock
<1>4. TypeOK'
  BY <1>1, <1>3 DEF SpongeInv, TypeOK, StateType, Bytes
<1> QED  BY <1>1, <1>3, <1>4 DEF SpongeInv, AbsorbInv, Absorbing, StreamInv

----------------------------------------------------------------------------
(* The theorems.                                                           *)

\* The invariant is inductive.
LEMMA SpongeInvInductive == SpongeInv /\ [Next]_vars => SpongeInv'
<1> SUFFICES ASSUME SpongeInv, [Next]_vars PROVE SpongeInv'
  OBVIOUS
<1>1. CASE shake_init \/ shake_absorb \/ shake_absorb_once
  BY <1>1, BeginAbsorb
<1>2. CASE absorb_block \/ once_block
  BY <1>2, AbsorbBlock
<1>3. CASE absorb_rest
  BY <1>3, AbsorbRest
<1>4. CASE shake_finalize \/ once_rest
  BY <1>4, Finish
<1>5. CASE shake_squeeze \/ squeeze_return \/ shake_squeezeblocks \/ squeezeblocks_return
  BY <1>5, SqueezeCalls
<1>6. CASE squeeze_part
  BY <1>6, SqueezePart
<1>7. CASE squeeze_block
  BY <1>7, SqueezeBlock
<1>8. CASE sha3_digest
  BY <1>8, Digest
<1>9. CASE UNCHANGED vars
  BY <1>9 DEF vars, SpongeInv, TypeOK, AbsorbInv, Absorbing, PaddedInv, Absorbed, Whole,
              OutputIsStream, StreamInv
<1> QED  BY <1>1, <1>2, <1>3, <1>4, <1>5, <1>6, <1>7, <1>8, <1>9 DEF Next

LEMMA SpongeInvariant == Spec => []SpongeInv
<1> QED  BY InitSponge, SpongeInvInductive, PTL DEF Spec

\* Every variable of the sponge keeps its type: no length goes below zero, and no
\* position out of the block (fips202.c:369-447).
THEOREM SpongeTyping == Spec => []TypeOK
<1>1. SpongeInv => TypeOK
  BY DEF SpongeInv
<1> QED  BY <1>1, SpongeInvariant, PTL

\* Whatever chunks the message came in, and for every rate: what is absorbed in the end
\* is the padded message, block by block, and nothing after it (fips202.c:369-420,533-558).
THEOREM MessageAbsorbed == Spec => []MessageIsAbsorbed
<1>1. SpongeInv => MessageIsAbsorbed
  <2> SUFFICES ASSUME SpongeInv, Absorbed PROVE MessageIsAbsorbed
    BY DEF MessageIsAbsorbed
  <2>1. /\ Len(past) \in Nat /\ Whole \in Nat /\ Len(past) >= Whole
        /\ \A b \in 1..Len(past) :
             past[b] = IF b <= Whole + 1 THEN MessageBlock(given, b - 1) ELSE Empty
        /\ lane = IF Len(past) = Whole THEN MessageBlock(given, Whole) ELSE Empty
    BY WholeIsNat, LenProperties DEF SpongeInv, PaddedInv, TypeOK
  <2>2. ASSUME NEW b \in 0..Whole
        PROVE  (IF b + 1 <= Len(past) THEN past[b + 1] ELSE lane) = MessageBlock(given, b)
    <3>1. CASE b + 1 <= Len(past)
      <4>1. b + 1 \in 1..Len(past) /\ b + 1 <= Whole + 1 /\ (b + 1) - 1 = b
        BY <2>1, <3>1
      <4>2. past[b + 1] = MessageBlock(given, (b + 1) - 1)
        BY <2>1, <4>1
      <4> QED  BY <3>1, <4>1, <4>2
    <3>2. CASE ~(b + 1 <= Len(past))
      <4>1. b = Whole /\ Len(past) = Whole
        BY <2>1, <3>2
      <4> QED  BY <2>1, <3>2, <4>1
    <3> QED  BY <3>1, <3>2
  <2>3. ASSUME NEW b \in Whole + 2..Len(past)
        PROVE  past[b] = Empty
    <3>1. b \in 1..Len(past) /\ ~(b <= Whole + 1)
      BY <2>1
    <3> QED  BY <2>1, <3>1
  <2> QED  BY <2>2, <2>3 DEF MessageIsAbsorbed, Whole
<1> QED  BY <1>1, SpongeInvariant, PTL

\* Whatever chunks or blocks the output is squeezed in, and for every rate: it is the
\* stream of the padded message, without a gap or a repetition (fips202.c:422-447,560-575).
THEOREM StreamSqueezed == Spec => []OutputIsStream
<1>1. SpongeInv => OutputIsStream
  BY DEF SpongeInv
<1> QED  BY <1>1, SpongeInvariant, PTL

\* Inside a call, what its loops have still to do, and its return.
Inside == pc \in {"absorb", "once", "squeeze", "blocks"}
Work == inlen + outlen + nblocks + (IF Inside THEN 1 ELSE 0)

\* For every rate, length and position that earlier calls left: an iteration of a loop of
\* keccak_absorb, keccak_absorb_once, keccak_squeeze or keccak_squeezeblocks, or its return,
\* leaves less to do, and never less than nothing (fips202.c:381-392,434-443,472-485,505-513).
THEOREM CallsProgress == Spec => [][Inside => Work' \in Nat /\ Work' < Work]_vars
<1>1. SpongeInv /\ [Next]_vars => [Inside => Work' \in Nat /\ Work' < Work]_vars
  <2> SUFFICES ASSUME SpongeInv, Next, Inside PROVE Work' \in Nat /\ Work' < Work
    OBVIOUS
  <2>1. /\ R \in Nat \ {0} /\ pos \in 0..R /\ (pc = "absorb" => pos < R)
        /\ inlen \in Nat /\ outlen \in Nat /\ nblocks \in Nat
    BY SpongeAssumption DEF SpongeInv, TypeOK
  <2>2. Work = inlen + outlen + nblocks + 1
    BY DEF Work
  <2>3. ASSUME NEW i \in Nat, NEW o \in Nat, NEW n \in Nat,
               inlen' = i /\ outlen' = o /\ nblocks' = n,
               i + o + n <= inlen + outlen + nblocks,
               Inside' => i + o + n < inlen + outlen + nblocks
        PROVE  Work' \in Nat /\ Work' < Work
    <3>1. CASE Inside'
      <4>1. Work' = i + o + n + 1
        BY <2>3, <3>1 DEF Work
      <4>2. i + o + n + 1 \in Nat /\ i + o + n + 1 < Work
        BY <2>1, <2>2, <2>3, <3>1
      <4> QED  BY <4>1, <4>2
    <3>2. CASE ~Inside'
      <4>1. Work' = i + o + n + 0
        BY <2>3, <3>2 DEF Work
      <4>2. i + o + n + 0 \in Nat /\ i + o + n + 0 < Work
        BY <2>1, <2>2, <2>3
      <4> QED  BY <4>1, <4>2
    <3> QED  BY <3>1, <3>2
  <2>4. CASE absorb_block
    <3>1. PICK i \in Nat : i = inlen - (R - pos) /\ i < inlen
      BY <2>1, <2>4 DEF absorb_block, Full
    <3> QED  BY <2>1, <2>3, <2>4, <3>1 DEF absorb_block
  <2>5. CASE once_block
    <3>1. PICK i \in Nat : i = inlen - R /\ i < inlen
      BY <2>1, <2>5 DEF once_block
    <3> QED  BY <2>1, <2>3, <2>5, <3>1 DEF once_block
  <2>6. CASE absorb_rest \/ once_rest
    BY <2>1, <2>3, <2>6 DEF absorb_rest, once_rest, Inside
  <2>7. CASE squeeze_part
    <3>1. PICK from \in 0..R - 1 : from = IF pos = R THEN 0 ELSE pos
      BY <2>1
    <3>2. outlen' = outlen - Taken(from, outlen) /\ UNCHANGED <<pc, inlen, nblocks>> /\ outlen # 0
      BY <2>7, <3>1 DEF squeeze_part
    <3>3. Taken(from, outlen) \in 1..outlen
      BY <2>1, <3>2 DEF Taken
    <3>4. PICK o \in Nat : o = outlen - Taken(from, outlen) /\ o < outlen
      BY <2>1, <3>3
    <3> QED  BY <2>1, <2>3, <3>2, <3>4
  <2>8. CASE squeeze_block
    <3>1. PICK n \in Nat : n = nblocks - 1
      BY <2>1, <2>8 DEF squeeze_block
    <3> QED  BY <2>1, <2>3, <2>8, <3>1 DEF squeeze_block
  <2>9. CASE squeeze_return \/ squeezeblocks_return
    BY <2>1, <2>3, <2>9 DEF squeeze_return, squeezeblocks_return, Inside
  <2>10. ~(shake_init \/ shake_absorb \/ shake_finalize \/ shake_absorb_once \/ shake_squeeze
             \/ shake_squeezeblocks \/ sha3_digest)
    BY DEF Inside, shake_init, shake_absorb, shake_finalize, shake_absorb_once, shake_squeeze,
           shake_squeezeblocks, sha3_digest
  <2> QED  BY <2>4, <2>5, <2>6, <2>7, <2>8, <2>9, <2>10 DEF Next
<1> QED  BY <1>1, SpongeInvariant, PTL DEF Spec

----------------------------------------------------------------------------
(* The state of fips202.c as the bit string of the standard.               *)

Lane == SUBSET (0..63)
BitNumbers == 0..1599
BitString == SUBSET BitNumbers
LaneState == [0..24 -> Lane]

\* Bit z of lane l is bit 64 * l + z.
BitsOf(s) == UNION {{64 * l + z : z \in s[l]} : l \in 0..24}

\* Every bit of the string is a bit of a lane.
LEMMA PlaceOfBit ==
  ASSUME NEW j \in 0..1599
  PROVE  j \div 64 \in 0..24 /\ j % 64 \in 0..63 /\ j = 64 * (j \div 64) + (j % 64)
OBVIOUS

\* A bit is in the string if it is in its lane.
LEMMA BitIn ==
  ASSUME NEW s \in LaneState
  PROVE  /\ BitsOf(s) \in BitString
         /\ \A l \in 0..24, z \in 0..63 : (64 * l + z \in BitsOf(s)) <=> (z \in s[l])
<1>1. \A l \in 0..24 : s[l] \subseteq 0..63
  BY DEF LaneState, Lane
<1>2. \A j : j \in BitsOf(s) <=> \E l \in 0..24 : \E z \in s[l] : j = 64 * l + z
  BY DEF BitsOf
<1>3. ASSUME NEW j \in BitsOf(s) PROVE j \in BitNumbers
  <2>1. PICK l \in 0..24 : \E z \in s[l] : j = 64 * l + z
    BY <1>2
  <2>2. PICK z \in s[l] : j = 64 * l + z
    BY <2>1
  <2>3. z \in 0..63
    BY <1>1
  <2>4. 64 * l + z \in BitNumbers
    <3>1. 64 * l + z \in 0..1599
      BY <2>3
    <3> QED  BY <3>1 DEF BitNumbers
  <2> QED  BY <2>2, <2>4
<1>4. ASSUME NEW l \in 0..24, NEW z \in 0..63, 64 * l + z \in BitsOf(s) PROVE z \in s[l]
  <2>1. PICK m \in 0..24 : \E y \in s[m] : 64 * l + z = 64 * m + y
    BY <1>2, <1>4
  <2>2. PICK y \in s[m] : 64 * l + z = 64 * m + y
    BY <2>1
  <2>3. y \in 0..63 /\ l = m /\ z = y
    BY <1>1, <2>2 DEF Lanes
  <2> QED  BY <2>3
<1>5. ASSUME NEW l \in 0..24, NEW z \in 0..63, z \in s[l] PROVE 64 * l + z \in BitsOf(s)
  BY <1>2, <1>5
<1>6. BitsOf(s) \in BitString
  BY <1>3 DEF BitString
<1>7. ASSUME NEW l \in 0..24, NEW z \in 0..63 PROVE (64 * l + z \in BitsOf(s)) <=> (z \in s[l])
  BY <1>4, <1>5
<1>8. \A l \in 0..24 : \A z \in 0..63 : (64 * l + z \in BitsOf(s)) <=> (z \in s[l])
  BY <1>7
<1> QED  BY <1>6, <1>8

SameBits(P, Q) == \A l \in 0..24, z \in 0..63 : (64 * l + z \in P) <=> (64 * l + z \in Q)

\* Strings are equal when they have the same bits of the same lanes.
LEMMA SameString ==
  ASSUME NEW P \in BitString, NEW Q \in BitString, SameBits(P, Q)
  PROVE  P = Q
<1>1. ASSUME NEW j \in BitNumbers PROVE j \in P <=> j \in Q
  <2>0. j \div 64 \in 0..24 /\ j % 64 \in 0..63 /\ j = 64 * (j \div 64) + (j % 64)
    BY PlaceOfBit DEF BitNumbers
  <2>1. PICK l \in 0..24 : l = j \div 64
    BY <2>0
  <2>2. PICK z \in 0..63 : j = 64 * l + z
    BY <2>0, <2>1
  <2>3. (64 * l + z \in P) <=> (64 * l + z \in Q)
    BY DEF SameBits
  <2> QED  BY <2>2, <2>3
<1>2. \A j \in P : j \in BitNumbers
  BY DEF BitString
<1>3. \A j \in Q : j \in BitNumbers
  BY DEF BitString
<1>4. ASSUME NEW j \in P PROVE j \in Q
  BY <1>1, <1>2
<1>5. ASSUME NEW j \in Q PROVE j \in P
  BY <1>1, <1>3
<1> QED  BY <1>4, <1>5

\* The bit of the string with coordinates x, y, z.
LEMMA BitAt ==
  \A c, y, z \in Nat : /\ Fips!Bit(c, y, z) = 64 * (5 * (y % 5) + (c % 5)) + (z % 64)
                       /\ 5 * (y % 5) + (c % 5) \in 0..24 /\ z % 64 \in 0..63
                       /\ (5 * (y % 5) + (c % 5)) % 5 = c % 5 /\ (5 * (y % 5) + (c % 5)) \div 5 = y % 5
BY DEF Fips!Bit, Lanes

\* The operations on lanes, bit by bit.
LEMMA XorIs ==
  \A p, q : XorLanes(p, q) \in Lane /\ \A z \in 0..63 : (z \in XorLanes(p, q)) <=> ((z \in p) # (z \in q))
BY DEF XorLanes, Lane

\* (~a) & b, bit by bit.
LEMMA AndNotIs ==
  \A p, q : /\ q \in Lane => AndNot(p, q) \in Lane
            /\ \A z : (z \in AndNot(p, q)) <=> (z \in q /\ z \notin p)
BY DEF AndNot, Lane

\* A rotation, bit by bit.
LEMMA RolIs ==
  ASSUME NEW p \in Lane, NEW n \in 1..63
  PROVE  ROL(p, n) \in Lane /\ \A z \in 0..63 : (z \in ROL(p, n)) <=> ((z + (64 - n)) % 64 \in p)
<1>1. p \subseteq 0..63
  BY DEF Lane
<1>2. ASSUME NEW z \in 0..63
      PROVE  (z \in Shl(p, n)) <=> (z >= n /\ z - n \in p)
  <2>1. (z \in Shl(p, n)) <=> \E y \in p : y + n < 64 /\ z = y + n
    BY DEF Shl
  <2>2. ASSUME NEW y \in p, z = y + n PROVE z >= n /\ y = z - n
    BY <1>1, <2>2
  <2>3. z >= n => z = (z - n) + n /\ (z - n) + n < 64
    OBVIOUS
  <2> QED  BY <2>1, <2>2, <2>3
<1>3. ASSUME NEW z \in 0..63
      PROVE  (z \in Shr(p, 64 - n)) <=> (z + (64 - n) \in p)
  <2>1. (z \in Shr(p, 64 - n)) <=> \E y \in p : y >= 64 - n /\ z = y - (64 - n)
    BY DEF Shr
  <2>2. ASSUME NEW y \in p, z = y - (64 - n) PROVE y = z + (64 - n)
    BY <1>1, <2>2
  <2>3. z = (z + (64 - n)) - (64 - n) /\ z + (64 - n) >= 64 - n
    OBVIOUS
  <2> QED  BY <2>1, <2>2, <2>3
<1>4. ASSUME NEW z \in 0..63
      PROVE  (z \in ROL(p, n)) <=> ((z + (64 - n)) % 64 \in p)
  <2>1. (z \in ROL(p, n)) <=> ((z >= n /\ z - n \in p) # (z + (64 - n) \in p))
    BY <1>2, <1>3, XorIs DEF ROL
  <2>2. CASE z >= n
    <3>1. (z + (64 - n)) % 64 = z - n /\ z + (64 - n) \notin 0..63
      BY <2>2
    <3> QED  BY <1>1, <2>1, <2>2, <3>1
  <2>3. CASE ~(z >= n)
    <3>1. (z + (64 - n)) % 64 = z + (64 - n)
      BY <2>3
    <3> QED  BY <2>1, <2>3, <3>1
  <2> QED  BY <2>2, <2>3
<1> QED  BY <1>4, XorIs DEF ROL

----------------------------------------------------------------------------
(* Theta.                                                                  *)

\* One more number may be counted.
LEMMA CountOne ==
  ASSUME NEW T, NEW U, NEW k, IsFiniteSet(U), k \notin U, T = U \/ T = U \cup {k}
  PROVE  /\ IsFiniteSet(T) /\ Cardinality(T) \in Nat
         /\ (Cardinality(T) % 2 = 1) <=> ((Cardinality(U) % 2 = 1) # (k \in T))
<1>1. Cardinality(U) \in Nat
  BY FS_CardinalityType
<1>2. CASE T = U
  BY <1>1, <1>2
<1>3. CASE T = U \cup {k}
  <2>1. IsFiniteSet(T) /\ Cardinality(T) = Cardinality(U) + 1
    BY <1>3, FS_AddElement
  <2>2. k \in T
    BY <1>3
  <2>3. PICK n \in Nat : n = Cardinality(U)
    BY <1>1
  <2>4. (n + 1) % 2 = 1 <=> ~(n % 2 = 1)
    OBVIOUS
  <2> QED  BY <2>1, <2>2, <2>3, <2>4
<1> QED  BY <1>2, <1>3

\* A set of rows has an odd number of them.
LEMMA OddIs ==
  ASSUME NEW T, \A y \in T : y \in 0..4
  PROVE  (Cardinality(T) % 2 = 1) <=> (((((0 \in T) # (1 \in T)) # (2 \in T)) # (3 \in T)) # (4 \in T))
<1> DEFINE U(k) == {y \in T : y <= k}
           Odd(S) == Cardinality(S) % 2 = 1
<1>0. IsFiniteSet({}) /\ Cardinality({}) = 0
  BY FS_EmptySet
<1>1. ASSUME NEW k \in 0..4 PROVE /\ U(k) = U(k - 1) \/ U(k) = U(k - 1) \cup {k}
                                  /\ k \notin U(k - 1) /\ (k \in U(k) <=> k \in T)
  <2>1. \A y \in T : y <= k <=> y <= k - 1 \/ y = k
    OBVIOUS
  <2> QED  BY <2>1
<1>2. U(0 - 1) = {} /\ U(4) = T
  OBVIOUS
<1> HIDE DEF U
<1>3. ASSUME NEW k \in 0..4, IsFiniteSet(U(k - 1))
      PROVE  IsFiniteSet(U(k)) /\ (Odd(U(k)) <=> (Odd(U(k - 1)) # (k \in T)))
  <2>1. (U(k) = U(k - 1) \/ U(k) = U(k - 1) \cup {k}) /\ k \notin U(k - 1) /\ (k \in U(k) <=> k \in T)
    BY <1>1
  <2>2. IsFiniteSet(U(k)) /\ (Odd(U(k)) <=> (Odd(U(k - 1)) # (k \in U(k))))
    BY <1>3, <2>1, CountOne
  <2> QED  BY <2>1, <2>2
<1>4. ~Odd(U(0 - 1)) /\ IsFiniteSet(U(0 - 1))
  BY <1>0, <1>2
<1>5. 1 - 1 = 0 /\ 2 - 1 = 1 /\ 3 - 1 = 2 /\ 4 - 1 = 3
  OBVIOUS
<1>6. IsFiniteSet(U(0)) /\ (Odd(U(0)) <=> (0 \in T))
  <2>1. 0 \in 0..4
    OBVIOUS
  <2> QED  BY <1>3, <1>4, <2>1
<1>7. IsFiniteSet(U(1)) /\ (Odd(U(1)) <=> (Odd(U(0)) # (1 \in T)))
  BY <1>3, <1>5, <1>6
<1>8. IsFiniteSet(U(2)) /\ (Odd(U(2)) <=> (Odd(U(1)) # (2 \in T)))
  BY <1>3, <1>5, <1>7
<1>9. IsFiniteSet(U(3)) /\ (Odd(U(3)) <=> (Odd(U(2)) # (3 \in T)))
  BY <1>3, <1>5, <1>8
<1>10. Odd(U(4)) <=> (Odd(U(3)) # (4 \in T))
  BY <1>3, <1>5, <1>9
<1>11. Odd(T) <=> (((((0 \in T) # (1 \in T)) # (2 \in T)) # (3 \in T)) # (4 \in T))
  BY <1>2, <1>6, <1>7, <1>8, <1>9, <1>10
<1> QED  BY <1>11 DEF Odd

\* The column parities in the code.
Parity(s) == [k \in 0..4 |-> XorLanes(XorLanes(XorLanes(XorLanes(s[k], s[k + 5]), s[k + 10]), s[k + 15]), s[k + 20])]

\* They are the odd columns of the standard.
LEMMA ParityIs ==
  ASSUME NEW s \in LaneState, NEW k \in 0..4, NEW z \in 0..63
  PROVE  (<<k, z>> \in Fips!OddColumns(BitsOf(s))) <=> (z \in Parity(s)[k])
<1> DEFINE T == Fips!Column(BitsOf(s), k, z)
<1>1. ASSUME NEW y \in 0..4 PROVE (y \in T) <=> (z \in s[(5 * y) + k])
  <2>0. (y \in T) <=> (Fips!Bit(k, y, z) \in BitsOf(s))
    BY DEF Fips!Column
  <2>1. Fips!Bit(k, y, z) = 64 * ((5 * y) + k) + z /\ (5 * y) + k \in 0..24
    BY DEF Fips!Bit
  <2>2. (64 * ((5 * y) + k) + z \in BitsOf(s)) <=> (z \in s[(5 * y) + k])
    <3>1. PICK l \in 0..24 : l = (5 * y) + k
      BY <2>1
    <3>2. (64 * l + z \in BitsOf(s)) <=> (z \in s[l])
      BY BitIn
    <3> QED  BY <3>1, <3>2
  <2> HIDE DEF T
  <2> QED  BY <2>0, <2>1, <2>2
<1>2. (0 \in T <=> z \in s[k]) /\ (1 \in T <=> z \in s[k + 5]) /\ (2 \in T <=> z \in s[k + 10])
      /\ (3 \in T <=> z \in s[k + 15]) /\ (4 \in T <=> z \in s[k + 20])
  <2>1. /\ (5 * 0) + k = k /\ (5 * 1) + k = k + 5 /\ (5 * 2) + k = k + 10 /\ (5 * 3) + k = k + 15
        /\ (5 * 4) + k = k + 20
    OBVIOUS
  <2> HIDE DEF T
  <2>2. /\ (0 \in T) <=> (z \in s[(5 * 0) + k])
        /\ (1 \in T) <=> (z \in s[(5 * 1) + k])
        /\ (2 \in T) <=> (z \in s[(5 * 2) + k])
        /\ (3 \in T) <=> (z \in s[(5 * 3) + k])
        /\ (4 \in T) <=> (z \in s[(5 * 4) + k])
    <3>1. 0 \in 0..4 /\ 1 \in 0..4 /\ 2 \in 0..4 /\ 3 \in 0..4 /\ 4 \in 0..4
      OBVIOUS
    <3> QED  BY <1>1, <3>1, Zenon
  <2> QED  BY <2>1, <2>2
<1>3. \A y \in T : y \in 0..4
  BY DEF Fips!Column
<1>4. (<<k, z>> \in Fips!OddColumns(BitsOf(s))) <=> (Cardinality(T) % 2 = 1)
  BY DEF Fips!OddColumns, Fips!Cardinality, Cardinality
<1> HIDE DEF T
<1>5. (Cardinality(T) % 2 = 1) <=> (((((0 \in T) # (1 \in T)) # (2 \in T)) # (3 \in T)) # (4 \in T))
  BY <1>3, OddIs
<1>6. (z \in Parity(s)[k])
        <=> (((((z \in s[k]) # (z \in s[k + 5])) # (z \in s[k + 10])) # (z \in s[k + 15])) # (z \in s[k + 20]))
  BY DEF Parity, XorLanes
<1> QED  BY <1>2, <1>4, <1>5, <1>6

\* prepareTheta is the standard's theta.
LEMMA ThetaIs ==
  ASSUME NEW s \in LaneState
  PROVE  prepareTheta(s) \in LaneState /\ BitsOf(prepareTheta(s)) = Fips!theta(BitsOf(s))
<1> DEFINE S == BitsOf(s)
           t == prepareTheta(s)
<1>0. S \in BitString
  BY BitIn
<1>1. \A k \in 0..4 : Parity(s)[k] \in Lane
  BY XorIs DEF Parity
<1>2. \A k \in 0..4 : D(s)[k] = XorLanes(Parity(s)[(k + 4) % 5], ROL(Parity(s)[(k + 1) % 5], 1))
  BY DEF D, Parity
<1>3. t = [l \in 0..24 |-> XorLanes(s[l], D(s)[l % 5])]
  BY DEF prepareTheta, Lanes
<1>4. t \in LaneState
  BY <1>3, XorIs DEF LaneState
<1>5. Fips!theta(S) = {j \in 0..1599 : (j \in S) # (<<Fips!X(j), Fips!Z(j)>> \in Fips!Flipped(S))}
  BY DEF Fips!theta
<1>6. Fips!theta(S) \in BitString
  BY <1>5 DEF BitString, BitNumbers
<1>7. ASSUME NEW k \in 0..4, NEW z \in 0..63
      PROVE  (<<k, z>> \in Fips!Flipped(S)) <=> (z \in D(s)[k])
  <2>1. (k + 4) % 5 \in 0..4 /\ (k + 1) % 5 \in 0..4 /\ (z + 63) % 64 \in 0..63
    OBVIOUS
  <2>2. (<<(k + 4) % 5, z>> \in Fips!OddColumns(S)) <=> (z \in Parity(s)[(k + 4) % 5])
    BY <2>1, ParityIs
  <2>3. (<<(k + 1) % 5, (z + 63) % 64>> \in Fips!OddColumns(S)) <=> ((z + 63) % 64 \in Parity(s)[(k + 1) % 5])
    BY <2>1, ParityIs
  <2>4. (z \in ROL(Parity(s)[(k + 1) % 5], 1)) <=> ((z + 63) % 64 \in Parity(s)[(k + 1) % 5])
    <3>1. PICK p \in Lane : p = Parity(s)[(k + 1) % 5]
      BY <1>1, <2>1
    <3>2. (z \in ROL(p, 1)) <=> ((z + (64 - 1)) % 64 \in p)
      <4>1. 1 \in 1..63
        OBVIOUS
      <4> QED  BY <4>1, RolIs, Zenon
    <3> QED  BY <3>1, <3>2
  <2>5. (<<k, z>> \in Fips!Flipped(S)) <=> ((<<(k + 4) % 5, z>> \in Fips!OddColumns(S)) # (<<(k + 1) % 5, (z + 63) % 64>> \in Fips!OddColumns(S)))
    BY DEF Fips!Flipped
  <2>6. (z \in D(s)[k]) <=> ((z \in Parity(s)[(k + 4) % 5]) # (z \in ROL(Parity(s)[(k + 1) % 5], 1)))
    BY <1>2, XorIs
  <2> QED  BY <2>2, <2>3, <2>4, <2>5, <2>6
<1>8. SameBits(BitsOf(t), Fips!theta(S))
  <2> SUFFICES ASSUME NEW l \in 0..24, NEW z \in 0..63
               PROVE  (64 * l + z \in BitsOf(t)) <=> (64 * l + z \in Fips!theta(S))
    BY DEF SameBits
  <2>1. 64 * l + z \in 0..1599 /\ Fips!X(64 * l + z) = l % 5 /\ Fips!Z(64 * l + z) = z
    <3>1. 64 * l + z \in 0..1599 /\ (64 * l + z) \div 64 = l /\ (64 * l + z) % 64 = z
      OBVIOUS
    <3> QED  BY <3>1 DEF Fips!X, Fips!Z
  <2>2. (64 * l + z \in Fips!theta(S)) <=> ((64 * l + z \in S) # (<<l % 5, z>> \in Fips!Flipped(S)))
    <3>1. PICK j \in 0..1599 : j = 64 * l + z
      BY <2>1
    <3>2. Fips!X(j) = l % 5 /\ Fips!Z(j) = z
      BY <2>1, <3>1
    <3> HIDE DEF S
    <3>3. (j \in Fips!theta(S)) <=> ((j \in S) # (<<l % 5, z>> \in Fips!Flipped(S)))
      BY <1>5, <3>2
    <3> QED  BY <3>1, <3>3
  <2>3. (64 * l + z \in S) <=> (z \in s[l])
    BY BitIn
  <2>4. (64 * l + z \in BitsOf(t)) <=> (z \in t[l])
    BY <1>4, BitIn
  <2>5. (z \in t[l]) <=> ((z \in s[l]) # (z \in D(s)[l % 5]))
    BY <1>3, XorIs
  <2>6. l % 5 \in 0..4
    OBVIOUS
  <2> HIDE DEF S, t
  <2>7. (<<l % 5, z>> \in Fips!Flipped(S)) <=> (z \in D(s)[l % 5])
    <3>1. PICK k \in 0..4 : k = l % 5
      BY <2>6
    <3> QED  BY <1>7, <3>1
  <2> QED  BY <2>2, <2>3, <2>4, <2>5, <2>7
<1>9. BitsOf(t) \in BitString
  BY <1>4, BitIn
<1> QED  BY <1>4, <1>6, <1>8, <1>9, SameString

----------------------------------------------------------------------------
(* Rho and pi.                                                             *)

\* The lanes in the order in which the standard walks over them.
Lap ==
  << <<1, 0>>, <<0, 2>>, <<2, 1>>, <<1, 2>>, <<2, 3>>, <<3, 3>>, <<3, 0>>, <<0, 1>>,
     <<1, 3>>, <<3, 1>>, <<1, 4>>, <<4, 4>>, <<4, 0>>, <<0, 3>>, <<3, 4>>, <<4, 3>>,
     <<3, 2>>, <<2, 2>>, <<2, 0>>, <<0, 4>>, <<4, 2>>, <<2, 4>>, <<4, 1>>, <<1, 1>> >>

\* How far each lane is turned, by its number.
Lag ==
  << 0, 1, 62, 28, 27,  36, 44, 6, 55, 20,  3, 10, 43, 25, 39,  41, 45, 15, 21, 8,  18, 2, 61, 56, 14 >>

\* Each step of the walk, from its table.
LEMMA LapStep ==
  ASSUME NEW t \in 1..23
  PROVE  Lap[t + 1] = <<Lap[t][2], (2 * Lap[t][1] + 3 * Lap[t][2]) % 5>>
BY DEF Lap

\* The walk of the standard is the lap.
LEMMA WalkIs == \A t \in 0..23 : Fips!Walk[t] = Lap[t + 1]
<1> DEFINE Onward(p) == <<p[2], (2 * p[1] + 3 * p[2]) % 5>>
           Is(f) == f = [t \in 0..23 |-> IF t = 0 THEN <<1, 0>> ELSE Onward(f[t - 1])]
           g == [t \in 0..23 |-> Lap[t + 1]]
<1>1. Lap[1] = <<1, 0>>
  BY DEF Lap
<1>2. ASSUME NEW t \in 0..23 PROVE g[t] = IF t = 0 THEN <<1, 0>> ELSE Onward(g[t - 1])
  <2>1. CASE t = 0
    BY <1>1, <2>1
  <2>2. CASE t \in 1..23
    <3>1. g[t] = Lap[t + 1] /\ g[t - 1] = Lap[t]
      BY <2>2
    <3>2. Lap[t + 1] = Onward(Lap[t])
      BY <2>2, LapStep
    <3> QED  BY <2>2, <3>1, <3>2
  <2> QED  BY <2>1, <2>2
<1>3. Is(g)
  <2> HIDE DEF Onward
  <2> QED  BY <1>2
<1>4. Fips!Walk = CHOOSE f : Is(f)
  BY DEF Fips!Walk
<1>5. Is(Fips!Walk)
  <2> HIDE DEF Is
  <2> QED  BY <1>3, <1>4
<1>6. Fips!Walk[0] = <<1, 0>> /\ \A t \in 1..23 : Fips!Walk[t] = Onward(Fips!Walk[t - 1])
  <2> HIDE DEF Onward
  <2> QED  BY <1>5
<1> HIDE DEF Onward, Is, g
<1> DEFINE T == {t \in 0..23 : Fips!Walk[t] = Lap[t + 1]}
<1>7. 0 \in T
  BY <1>1, <1>6
<1>8. ASSUME NEW t \in 0..23 - 1, t \in T PROVE t + 1 \in T
  <2>1. t + 1 \in 1..23 /\ (t + 1) - 1 = t
    OBVIOUS
  <2>2. Fips!Walk[t + 1] = Onward(Lap[t + 1])
    BY <1>6, <1>8, <2>1
  <2>3. Lap[(t + 1) + 1] = Onward(Lap[t + 1])
    BY <2>1, LapStep DEF Onward
  <2> QED  BY <2>1, <2>2, <2>3
<1>9. 0..23 \subseteq T
  <2> HIDE DEF T
  <2> QED  BY <1>7, <1>8, UpTo
<1> QED  BY <1>9

\* The lane visited at step t.
Visited(t) == 5 * Lap[t + 1][2] + Lap[t + 1][1]

\* A lane of the walk is turned by its lag, and all lanes but the first are walked over.
LEMMA LagIs ==
  ASSUME NEW t \in 0..23
  PROVE  /\ Lap[t + 1][1] \in 0..4 /\ Lap[t + 1][2] \in 0..4
         /\ Visited(t) \in 1..24
         /\ Fips!Offset[t] = Lag[Visited(t) + 1]
<1>1. /\ Fips!Offset[0] = 1 /\ Fips!Offset[1] = 3 /\ Fips!Offset[2] = 6 /\ Fips!Offset[3] = 10
      /\ Fips!Offset[4] = 15 /\ Fips!Offset[5] = 21 /\ Fips!Offset[6] = 28 /\ Fips!Offset[7] = 36
      /\ Fips!Offset[8] = 45 /\ Fips!Offset[9] = 55 /\ Fips!Offset[10] = 2 /\ Fips!Offset[11] = 14
      /\ Fips!Offset[12] = 27 /\ Fips!Offset[13] = 41 /\ Fips!Offset[14] = 56 /\ Fips!Offset[15] = 8
      /\ Fips!Offset[16] = 25 /\ Fips!Offset[17] = 43 /\ Fips!Offset[18] = 62 /\ Fips!Offset[19] = 18
      /\ Fips!Offset[20] = 39 /\ Fips!Offset[21] = 61 /\ Fips!Offset[22] = 20 /\ Fips!Offset[23] = 44
  BY DEF Fips!Offset
<1>2. /\ Lap[t + 1][1] \in 0..4 /\ Lap[t + 1][2] \in 0..4
      /\ Visited(t) \in 1..24
  BY DEF Lap, Visited
<1>3. Fips!Offset[t] = Lag[Visited(t) + 1]
  BY <1>1 DEF Lap, Lag, Visited
<1> QED  BY <1>2, <1>3

\* Every lane but the first is visited.
LEMMA LapVisits ==
  ASSUME NEW l \in 1..24
  PROVE  \E t \in 0..23 : l = Visited(t)
BY DEF Lap, Visited

\* Only the first lane stays as it is.
LEMMA LagRange == \A l \in 0..24 : Lag[l + 1] \in 0..63 /\ (Lag[l + 1] = 0 <=> l = 0)
BY DEF Lag

\* The bits of a turned lane.
LEMMA TurnedIs ==
  ASSUME NEW s \in LaneState, NEW c \in 0..4, NEW y \in 0..4, NEW n \in 0..63, NEW l \in 0..24, NEW z \in 0..63
  PROVE  (64 * l + z \in Fips!Turned(BitsOf(s), c, y, n)) <=> (l = 5 * y + c /\ (z + (64 - n)) % 64 \in s[l])
<1> DEFINE m == 5 * y + c
<1>1. ASSUME NEW w \in 0..63
      PROVE  /\ Fips!Bit(c, y, w) = 64 * m + w
             /\ Fips!Bit(c, y, w + n) = 64 * m + ((w + n) % 64)
             /\ m \in 0..24 /\ (w + n) % 64 \in 0..63
  BY DEF Fips!Bit
<1>2. ASSUME NEW w \in 0..63
      PROVE  (Fips!Bit(c, y, w) \in BitsOf(s)) <=> (w \in s[m])
  <2>1. PICK k \in 0..24 : k = m
    BY <1>1
  <2>2. (64 * k + w \in BitsOf(s)) <=> (w \in s[k])
    BY BitIn
  <2> QED  BY <1>1, <2>1, <2>2
<1>3. (64 * l + z \in Fips!Turned(BitsOf(s), c, y, n))
        <=> \E w \in 0..63 : w \in s[m] /\ 64 * l + z = Fips!Bit(c, y, w + n)
  BY <1>2 DEF Fips!Turned
<1>4. ASSUME NEW w \in 0..63
      PROVE  (64 * l + z = Fips!Bit(c, y, w + n)) <=> (l = m /\ w = (z + (64 - n)) % 64)
  <2>1. (64 * l + z = 64 * m + ((w + n) % 64)) <=> (l = m /\ z = (w + n) % 64)
    BY <1>1
  <2>2. (z = (w + n) % 64) <=> (w = (z + (64 - n)) % 64)
    OBVIOUS
  <2> QED  BY <1>1, <2>1, <2>2
<1>5. (z + (64 - n)) % 64 \in 0..63
  OBVIOUS
<1> HIDE DEF m
<1>6. (\E w \in 0..63 : w \in s[m] /\ 64 * l + z = Fips!Bit(c, y, w + n))
        <=> (l = m /\ (z + (64 - n)) % 64 \in s[l])
  BY <1>4, <1>5
<1> QED  BY <1>3, <1>6 DEF m

\* Rho turns each lane by its lag.
LEMMA RhoIs ==
  ASSUME NEW s \in LaneState
  PROVE  /\ Fips!rho(BitsOf(s)) \in BitString
         /\ \A l \in 0..24, z \in 0..63 :
              (64 * l + z \in Fips!rho(BitsOf(s))) <=> ((z + (64 - Lag[l + 1])) % 64 \in s[l])
<1> DEFINE S == BitsOf(s)
           At(t) == Fips!Turned(S, Fips!Walk[t][1], Fips!Walk[t][2], Fips!Offset[t])
<1>1. \A j : (j \in Fips!rho(S)) <=> (j \in S /\ j < 64) \/ \E t \in 0..23 : j \in At(t)
  BY DEF Fips!rho
<1>2. S \in BitString
  BY BitIn
<1>3. ASSUME NEW t \in 0..23, NEW l \in 0..24, NEW z \in 0..63
      PROVE  (64 * l + z \in At(t))
               <=> (l = Visited(t) /\ (z + (64 - Lag[l + 1])) % 64 \in s[l])
  <2>1. PICK c \in 0..4, y \in 0..4 : c = Lap[t + 1][1] /\ y = Lap[t + 1][2]
    BY LagIs
  <2>2. Fips!Walk[t][1] = c /\ Fips!Walk[t][2] = y
    BY <2>1, WalkIs
  <2>3. Visited(t) = 5 * y + c /\ Visited(t) \in 0..24 /\ Fips!Offset[t] = Lag[Visited(t) + 1]
    <3>1. Visited(t) = 5 * y + c
      BY <2>1 DEF Visited
    <3>2. Visited(t) \in 1..24 /\ Fips!Offset[t] = Lag[Visited(t) + 1]
      BY LagIs, Zenon
    <3> QED  BY <3>1, <3>2
  <2>4. PICK n \in 0..63 : n = Fips!Offset[t]
    BY <2>3, LagRange
  <2>5. (64 * l + z \in Fips!Turned(S, c, y, n)) <=> (l = 5 * y + c /\ (z + (64 - n)) % 64 \in s[l])
    BY TurnedIs, ZenonT(40)
  <2>6. (64 * l + z \in At(t)) <=> (l = 5 * y + c /\ (z + (64 - n)) % 64 \in s[l])
    BY <2>2, <2>4, <2>5
  <2>7. l = Visited(t) => n = Lag[l + 1]
    BY <2>3, <2>4
  <2> HIDE DEF At
  <2> QED  BY <2>3, <2>6, <2>7
<1>4. ASSUME NEW l \in 0..24, NEW z \in 0..63
      PROVE  (64 * l + z \in Fips!rho(S)) <=> ((z + (64 - Lag[l + 1])) % 64 \in s[l])
  <2>1. (64 * l + z \in S /\ 64 * l + z < 64) <=> (l = 0 /\ z \in s[l])
    BY BitIn
  <2>2. l = 0 => (z + (64 - Lag[l + 1])) % 64 = z
    BY LagRange
  <2>3. CASE l = 0
    <3>1. ASSUME NEW t \in 0..23 PROVE 64 * l + z \notin At(t)
      <4>1. l # Visited(t)
        BY <2>3, LagIs
      <4> HIDE DEF At
      <4> QED  BY <1>3, <4>1
    <3> HIDE DEF At, S
    <3> QED  BY <1>1, <2>1, <2>2, <2>3, <3>1
  <2>4. CASE l # 0
    <3>1. PICK t \in 0..23 : l = Visited(t)
      BY <2>4, LapVisits
    <3> HIDE DEF At, S
    <3>2. (\E u \in 0..23 : 64 * l + z \in At(u)) <=> ((z + (64 - Lag[l + 1])) % 64 \in s[l])
      BY <1>3, <3>1
    <3> QED  BY <1>1, <2>1, <2>4, <3>2
  <2> QED  BY <2>3, <2>4
<1>5. ASSUME NEW j \in Fips!rho(S) PROVE j \in BitNumbers
  <2>1. CASE j \in S
    BY <1>2, <2>1 DEF BitString
  <2>2. CASE \E t \in 0..23 : j \in At(t)
    <3>1. PICK t \in 0..23 : j \in At(t)
      BY <2>2
    <3>2. Fips!Walk[t][1] \in 0..4 /\ Fips!Walk[t][2] \in 0..4 /\ Fips!Offset[t] \in 0..63
      <4>1. Fips!Walk[t] = Lap[t + 1] /\ Visited(t) \in 0..24
        BY WalkIs, LagIs
      <4>2. Lag[Visited(t) + 1] \in 0..63
        BY <4>1, LagRange
      <4> QED  BY <4>1, <4>2, LagIs
    <3>3. PICK c \in 0..4, y \in 0..4, n \in 0..63 : j \in Fips!Turned(S, c, y, n)
      BY <3>1, <3>2
    <3>4. PICK w \in 0..63 : j = Fips!Bit(c, y, w + n)
      BY <3>3 DEF Fips!Turned
    <3>5. j \in 0..1599
      BY <3>4 DEF Fips!Bit
    <3> QED  BY <3>5 DEF BitNumbers
  <2> QED  BY <1>1, <2>1, <2>2
<1>6. Fips!rho(S) \in BitString
  BY <1>5 DEF BitString
<1> HIDE DEF S
<1>7. \A l \in 0..24 : \A z \in 0..63 : (64 * l + z \in Fips!rho(S)) <=> ((z + (64 - Lag[l + 1])) % 64 \in s[l])
  BY <1>4
<1> QED  BY <1>6, <1>7 DEF S

\* The lane that pi moves to lane l.
From(l) == 5 * (l % 5) + (((l % 5) + 3 * (l \div 5)) % 5)

\* Pi moves whole lanes.
LEMMA PiIs ==
  ASSUME NEW S \in BitString
  PROVE  /\ Fips!pi(S) \in BitString
         /\ \A l \in 0..24, z \in 0..63 : (64 * l + z \in Fips!pi(S)) <=> (64 * From(l) + z \in S)
<1>1. Fips!pi(S) \in BitString
  BY DEF Fips!pi, BitString, BitNumbers
<1>2. ASSUME NEW l \in 0..24, NEW z \in 0..63
      PROVE  (64 * l + z \in Fips!pi(S)) <=> (64 * From(l) + z \in S)
  <2>1. 64 * l + z \in 0..1599 /\ Fips!X(64 * l + z) = l % 5 /\ Fips!Z(64 * l + z) = z
    <3>1. 64 * l + z \in 0..1599 /\ (64 * l + z) \div 64 = l /\ (64 * l + z) % 64 = z
      OBVIOUS
    <3> QED  BY <3>1 DEF Fips!X, Fips!Z
  <2>2. Fips!Y(64 * l + z) = l \div 5
    <3>1. (64 * l + z) \div 320 = l \div 5
      OBVIOUS
    <3> QED  BY <3>1 DEF Fips!Y
  <2>3. (64 * l + z \in Fips!pi(S)) <=> (Fips!Bit((l % 5) + 3 * (l \div 5), l % 5, z) \in S)
    BY <2>1, <2>2 DEF Fips!pi
  <2>4. Fips!Bit((l % 5) + 3 * (l \div 5), l % 5, z) = 64 * From(l) + z
    BY DEF Fips!Bit, From
  <2> QED  BY <2>3, <2>4
<1> QED  BY <1>1, <1>2

\* The lanes after rho and pi.
Moved(s) == [l \in 0..24 |-> IF Lag[From(l) + 1] = 0 THEN s[From(l)] ELSE ROL(s[From(l)], Lag[From(l) + 1])]

\* It is a lane.
LEMMA FromRange == \A l \in 0..24 : From(l) \in 0..24
BY DEF From

\* They are rho and pi of the standard.
LEMMA MovedIs ==
  ASSUME NEW s \in LaneState
  PROVE  Moved(s) \in LaneState /\ BitsOf(Moved(s)) = Fips!pi(Fips!rho(BitsOf(s)))
<1> DEFINE P == Fips!pi(Fips!rho(BitsOf(s)))
<1>1. Fips!rho(BitsOf(s)) \in BitString /\ P \in BitString
  BY RhoIs, PiIs
<1>2. ASSUME NEW l \in 0..24
      PROVE  Moved(s)[l] \in Lane
  <2>1. PICK m \in 0..24 : m = From(l)
    BY FromRange
  <2>2. PICK n \in 0..63, p \in Lane : n = Lag[m + 1] /\ p = s[m]
    BY LagRange DEF LaneState
  <2>3. ASSUME n # 0 PROVE ROL(p, n) \in Lane
    <3>1. n \in 1..63
      BY <2>3
    <3> QED  BY <3>1, RolIs, Zenon
  <2> QED  BY <2>1, <2>2, <2>3 DEF Moved
<1>3. ASSUME NEW l \in 0..24, NEW z \in 0..63
      PROVE  (z \in Moved(s)[l]) <=> (64 * l + z \in P)
  <2>1. PICK m \in 0..24 : m = From(l)
    BY FromRange
  <2>2. PICK n \in 0..63 : n = Lag[m + 1]
    BY LagRange
  <2>3. (64 * l + z \in P) <=> ((z + (64 - n)) % 64 \in s[m])
    <3>1. (64 * l + z \in P) <=> (64 * m + z \in Fips!rho(BitsOf(s)))
      BY <1>1, <2>1, PiIs
    <3>2. (64 * m + z \in Fips!rho(BitsOf(s))) <=> ((z + (64 - n)) % 64 \in s[m])
      BY <2>2, RhoIs
    <3> QED  BY <3>1, <3>2
  <2>4. Moved(s)[l] = IF n = 0 THEN s[m] ELSE ROL(s[m], n)
    BY <2>1, <2>2 DEF Moved
  <2>5. CASE n = 0
    <3>1. (z + (64 - n)) % 64 = z
      BY <2>5
    <3> QED  BY <2>3, <2>4, <2>5, <3>1
  <2>6. CASE n # 0
    <3>0. n \in 1..63
      BY <2>6
    <3>1. PICK p \in Lane : p = s[m]
      BY DEF LaneState
    <3>2. (z \in ROL(p, n)) <=> ((z + (64 - n)) % 64 \in p)
      BY <3>0, RolIs, Zenon
    <3> QED  BY <2>3, <2>4, <2>6, <3>1, <3>2
  <2> QED  BY <2>5, <2>6
<1>4. Moved(s) \in LaneState
  BY <1>2 DEF Moved, LaneState
<1>5. SameBits(BitsOf(Moved(s)), P)
  <2> SUFFICES ASSUME NEW l \in 0..24, NEW z \in 0..63
               PROVE  (64 * l + z \in BitsOf(Moved(s))) <=> (64 * l + z \in P)
    BY DEF SameBits
  <2>1. (64 * l + z \in BitsOf(Moved(s))) <=> (z \in Moved(s)[l])
    BY <1>4, BitIn
  <2> HIDE DEF P
  <2> QED  BY <1>3, <2>1
<1>6. BitsOf(Moved(s)) \in BitString
  BY <1>4, BitIn
<1> QED  BY <1>1, <1>4, <1>5, <1>6, SameString

\* The code's lanes and rotations are those.
LEMMA GroupsAre ==
  ASSUME NEW l \in 0..24
  PROVE  BC[(l \div 5) + 1][(l % 5) + 1] = <<From(l), Lag[From(l) + 1]>>
<1>1. /\ From(0) = 0 /\ From(1) = 6 /\ From(2) = 12 /\ From(3) = 18 /\ From(4) = 24
      /\ From(5) = 3 /\ From(6) = 9 /\ From(7) = 10 /\ From(8) = 16 /\ From(9) = 22
      /\ From(10) = 1 /\ From(11) = 7 /\ From(12) = 13 /\ From(13) = 19 /\ From(14) = 20
      /\ From(15) = 4 /\ From(16) = 5 /\ From(17) = 11 /\ From(18) = 17 /\ From(19) = 23
      /\ From(20) = 2 /\ From(21) = 8 /\ From(22) = 14 /\ From(23) = 15 /\ From(24) = 21
  BY DEF From
<1>2. /\ BC[1][1] = <<0, Lag[1]>> /\ BC[1][2] = <<6, Lag[7]>> /\ BC[1][3] = <<12, Lag[13]>> /\ BC[1][4] = <<18, Lag[19]>> /\ BC[1][5] = <<24, Lag[25]>>
      /\ BC[2][1] = <<3, Lag[4]>> /\ BC[2][2] = <<9, Lag[10]>> /\ BC[2][3] = <<10, Lag[11]>> /\ BC[2][4] = <<16, Lag[17]>> /\ BC[2][5] = <<22, Lag[23]>>
      /\ BC[3][1] = <<1, Lag[2]>> /\ BC[3][2] = <<7, Lag[8]>> /\ BC[3][3] = <<13, Lag[14]>> /\ BC[3][4] = <<19, Lag[20]>> /\ BC[3][5] = <<20, Lag[21]>>
      /\ BC[4][1] = <<4, Lag[5]>> /\ BC[4][2] = <<5, Lag[6]>> /\ BC[4][3] = <<11, Lag[12]>> /\ BC[4][4] = <<17, Lag[18]>> /\ BC[4][5] = <<23, Lag[24]>>
      /\ BC[5][1] = <<2, Lag[3]>> /\ BC[5][2] = <<8, Lag[9]>> /\ BC[5][3] = <<14, Lag[15]>> /\ BC[5][4] = <<15, Lag[16]>> /\ BC[5][5] = <<21, Lag[22]>>
  BY DEF BC, Lag
<1>3. CASE l = 0
  BY <1>1, <1>2, <1>3
<1>4. CASE l = 1
  BY <1>1, <1>2, <1>4
<1>5. CASE l = 2
  BY <1>1, <1>2, <1>5
<1>6. CASE l = 3
  BY <1>1, <1>2, <1>6
<1>7. CASE l = 4
  BY <1>1, <1>2, <1>7
<1>8. CASE l = 5
  BY <1>1, <1>2, <1>8
<1>9. CASE l = 6
  BY <1>1, <1>2, <1>9
<1>10. CASE l = 7
  BY <1>1, <1>2, <1>10
<1>11. CASE l = 8
  BY <1>1, <1>2, <1>11
<1>12. CASE l = 9
  BY <1>1, <1>2, <1>12
<1>13. CASE l = 10
  BY <1>1, <1>2, <1>13
<1>14. CASE l = 11
  BY <1>1, <1>2, <1>14
<1>15. CASE l = 12
  BY <1>1, <1>2, <1>15
<1>16. CASE l = 13
  BY <1>1, <1>2, <1>16
<1>17. CASE l = 14
  BY <1>1, <1>2, <1>17
<1>18. CASE l = 15
  BY <1>1, <1>2, <1>18
<1>19. CASE l = 16
  BY <1>1, <1>2, <1>19
<1>20. CASE l = 17
  BY <1>1, <1>2, <1>20
<1>21. CASE l = 18
  BY <1>1, <1>2, <1>21
<1>22. CASE l = 19
  BY <1>1, <1>2, <1>22
<1>23. CASE l = 20
  BY <1>1, <1>2, <1>23
<1>24. CASE l = 21
  BY <1>1, <1>2, <1>24
<1>25. CASE l = 22
  BY <1>1, <1>2, <1>25
<1>26. CASE l = 23
  BY <1>1, <1>2, <1>26
<1>27. CASE l = 24
  BY <1>1, <1>2, <1>27
<1> QED  BY <1>3, <1>4, <1>5, <1>6, <1>7, <1>8, <1>9, <1>10, <1>11, <1>12, <1>13, <1>14, <1>15, <1>16, <1>17, <1>18, <1>19, <1>20, <1>21, <1>22, <1>23, <1>24, <1>25, <1>26, <1>27

----------------------------------------------------------------------------
(* Chi and iota.                                                           *)

\* The lane n places to the right of lane l in its plane.
Right(l, n) == 5 * (l \div 5) + (((l % 5) + n) % 5)

\* It is in the same plane.
LEMMA RightRange ==
  \A l \in 0..24, n \in 0..4 :
    Right(l, n) \in 0..24 /\ Right(l, n) \div 5 = l \div 5 /\ Right(l, n) % 5 = ((l % 5) + n) % 5
BY DEF Right

\* The lanes after chi.
Mixed(s) == [l \in 0..24 |-> XorLanes(s[l], AndNot(s[Right(l, 1)], s[Right(l, 2)]))]

\* They are chi of the standard.
LEMMA MixedIs ==
  ASSUME NEW s \in LaneState
  PROVE  Mixed(s) \in LaneState /\ BitsOf(Mixed(s)) = Fips!chi(BitsOf(s))
<1> DEFINE S == BitsOf(s)
<1>1. Mixed(s) \in LaneState
  BY XorIs DEF Mixed, LaneState
<1>2. Fips!chi(S) \in BitString
  BY DEF Fips!chi, BitString, BitNumbers
<1>3. ASSUME NEW l \in 0..24, NEW z \in 0..63
      PROVE  (64 * l + z \in BitsOf(Mixed(s))) <=> (64 * l + z \in Fips!chi(S))
  <2>1. 64 * l + z \in 0..1599 /\ Fips!X(64 * l + z) = l % 5 /\ Fips!Z(64 * l + z) = z
    <3>1. 64 * l + z \in 0..1599 /\ (64 * l + z) \div 64 = l /\ (64 * l + z) % 64 = z
      OBVIOUS
    <3> QED  BY <3>1 DEF Fips!X, Fips!Z
  <2>2. Fips!Y(64 * l + z) = l \div 5
    <3>1. (64 * l + z) \div 320 = l \div 5
      OBVIOUS
    <3> QED  BY <3>1 DEF Fips!Y
  <2>3. /\ (64 * l + z \in Fips!chi(S)) <=> ((64 * l + z \in S) # (64 * l + z \in Fips!Masked(S)))
        /\ (64 * l + z \in Fips!Masked(S))
             <=> /\ Fips!Bit((l % 5) + 1, l \div 5, z) \notin S
                 /\ Fips!Bit((l % 5) + 2, l \div 5, z) \in S
    <3>1. (64 * l + z \in Fips!chi(S)) <=> ((64 * l + z \in S) # (64 * l + z \in Fips!Masked(S)))
      BY <2>1 DEF Fips!chi
    <3>2. (64 * l + z \in Fips!Masked(S))
            <=> /\ Fips!Bit((l % 5) + 1, l \div 5, z) \notin S
                /\ Fips!Bit((l % 5) + 2, l \div 5, z) \in S
      BY <2>1, <2>2 DEF Fips!Masked
    <3> QED  BY <3>1, <3>2
  <2>4. /\ Fips!Bit((l % 5) + 1, l \div 5, z) = 64 * Right(l, 1) + z
        /\ Fips!Bit((l % 5) + 2, l \div 5, z) = 64 * Right(l, 2) + z
    BY DEF Fips!Bit, Right
  <2>5. PICK m \in 0..24, k \in 0..24 : m = Right(l, 1) /\ k = Right(l, 2)
    BY RightRange
  <2>6. /\ (64 * l + z \in S) <=> (z \in s[l])
        /\ (64 * m + z \in S) <=> (z \in s[m])
        /\ (64 * k + z \in S) <=> (z \in s[k])
    BY BitIn
  <2>7. (64 * l + z \in BitsOf(Mixed(s))) <=> (z \in Mixed(s)[l])
    BY <1>1, BitIn
  <2>8. Mixed(s)[l] = XorLanes(s[l], AndNot(s[m], s[k]))
    BY <2>5 DEF Mixed
  <2>9. (z \in Mixed(s)[l]) <=> ((z \in s[l]) # (z \notin s[m] /\ z \in s[k]))
    BY <2>8, XorIs, AndNotIs
  <2> HIDE DEF S
  <2>10. (64 * l + z \in Fips!Masked(S)) <=> (z \notin s[m] /\ z \in s[k])
    BY <2>3, <2>4, <2>5, <2>6
  <2>11. (z \in Mixed(s)[l]) <=> ((64 * l + z \in S) # (64 * l + z \in Fips!Masked(S)))
    BY <2>6, <2>9, <2>10
  <2> QED  BY <2>3, <2>7, <2>11
<1>4. SameBits(BitsOf(Mixed(s)), Fips!chi(S))
  <2> HIDE DEF S
  <2> QED  BY <1>3 DEF SameBits
<1>5. BitsOf(Mixed(s)) \in BitString
  BY <1>1, BitIn
<1> QED  BY <1>1, <1>2, <1>4, <1>5, SameString

\* The lanes after iota.
Marked(s, c) == [s EXCEPT ![0] = XorLanes(@, c)]

\* They are iota of the standard, for the same constant.
LEMMA MarkedIs ==
  ASSUME NEW s \in LaneState, NEW k, Fips!RC[k] \in Lane
  PROVE  /\ Marked(s, Fips!RC[k]) \in LaneState
         /\ BitsOf(Marked(s, Fips!RC[k])) = Fips!iota(BitsOf(s), k)
<1> DEFINE S == BitsOf(s)
<1>0. PICK c \in Lane : c = Fips!RC[k]
  OBVIOUS
<1>1. Marked(s, c) \in LaneState
  BY XorIs DEF Marked, LaneState
<1>2. S \in BitString
  BY BitIn
<1>3. \A j : (j \in Fips!iota(S, k)) <=> ((j \in S) # (j \in c))
  BY <1>0 DEF Fips!iota
<1>4. Fips!iota(S, k) \in BitString
  <2>1. \A j : j \in S => j \in BitNumbers
    BY <1>2 DEF BitString
  <2>2. \A j : j \in c => j \in BitNumbers
    BY DEF Lane, BitNumbers
  <2>3. \A j : j \in Fips!iota(S, k) => j \in BitNumbers
    BY <1>3, <2>1, <2>2
  <2> QED  BY <2>3 DEF BitString
<1>5. ASSUME NEW l \in 0..24, NEW z \in 0..63
      PROVE  (64 * l + z \in BitsOf(Marked(s, c))) <=> (64 * l + z \in Fips!iota(S, k))
  <2>1. (64 * l + z \in BitsOf(Marked(s, c))) <=> (z \in Marked(s, c)[l])
    BY <1>1, BitIn
  <2>2. (64 * l + z \in S) <=> (z \in s[l])
    BY BitIn
  <2>3. (64 * l + z \in Fips!iota(S, k)) <=> ((64 * l + z \in S) # (64 * l + z \in c))
    BY <1>3
  <2>4. (64 * l + z \in c) <=> (l = 0 /\ z \in c)
    BY DEF Lane
  <2>5. (z \in Marked(s, c)[l]) <=> ((z \in s[l]) # (l = 0 /\ z \in c))
    <3>1. CASE l = 0
      <4>1. Marked(s, c)[l] = XorLanes(s[l], c)
        BY <3>1 DEF Marked, LaneState
      <4> QED  BY <3>1, <4>1, XorIs
    <3>2. CASE l # 0
      <4>1. Marked(s, c)[l] = s[l]
        BY <3>2 DEF Marked, LaneState
      <4> QED  BY <3>2, <4>1
    <3> QED  BY <3>1, <3>2
  <2> HIDE DEF S
  <2> QED  BY <2>1, <2>2, <2>3, <2>4, <2>5
<1>6. SameBits(BitsOf(Marked(s, c)), Fips!iota(S, k))
  <2> HIDE DEF S
  <2> QED  BY <1>5 DEF SameBits
<1>7. BitsOf(Marked(s, c)) \in BitString
  BY <1>1, BitIn
<1> QED  BY <1>0, <1>1, <1>4, <1>6, <1>7, SameString

\* The code does rho, pi, chi and iota in one sweep over the lanes.
LEMMA SweepIs ==
  ASSUME NEW s \in LaneState, NEW c
  PROVE  RhoPiChiIota(s, c) = Marked(Mixed(Moved(s)), c)
<1> DEFINE b == [g \in 0..4 |-> [x \in 0..4 |-> LET lane_ == BC[g + 1][x + 1]
                                                IN  IF lane_[2] = 0 THEN s[lane_[1]]
                                                    ELSE ROL(s[lane_[1]], lane_[2])]]
           mix(l) == XorLanes(b[l \div 5][l % 5],
                              AndNot(b[l \div 5][((l % 5) + 1) % 5], b[l \div 5][((l % 5) + 2) % 5]))
           chi == [l \in 0..24 |-> mix(l)]
<1>1. RhoPiChiIota(s, c) = [chi EXCEPT ![0] = XorLanes(@, c)]
  BY DEF RhoPiChiIota, Lanes
<1>2. ASSUME NEW l \in 0..24
      PROVE  b[l \div 5][l % 5] = Moved(s)[l]
  <2>0. l \div 5 \in 0..4 /\ l % 5 \in 0..4
    OBVIOUS
  <2>1. b[l \div 5][l % 5] = LET lane_ == BC[(l \div 5) + 1][(l % 5) + 1]
                             IN  IF lane_[2] = 0 THEN s[lane_[1]] ELSE ROL(s[lane_[1]], lane_[2])
    BY <2>0
  <2> HIDE DEF b
  <2>2. BC[(l \div 5) + 1][(l % 5) + 1] = <<From(l), Lag[From(l) + 1]>>
    BY GroupsAre
  <2> QED  BY <2>1, <2>2 DEF Moved
<1>3. ASSUME NEW l \in 0..24
      PROVE  mix(l) = Mixed(Moved(s))[l]
  <2>1. mix(l) = XorLanes(b[l \div 5][l % 5],
                          AndNot(b[l \div 5][((l % 5) + 1) % 5], b[l \div 5][((l % 5) + 2) % 5]))
    OBVIOUS
  <2> HIDE DEF b, mix, chi
  <2>2. PICK m \in 0..24, k \in 0..24 : m = Right(l, 1) /\ k = Right(l, 2)
    BY RightRange
  <2>3. m \div 5 = l \div 5 /\ m % 5 = ((l % 5) + 1) % 5 /\ k \div 5 = l \div 5 /\ k % 5 = ((l % 5) + 2) % 5
    <3>1. m \div 5 = l \div 5 /\ m % 5 = ((l % 5) + 1) % 5
      BY <2>2 DEF Right
    <3>2. k \div 5 = l \div 5 /\ k % 5 = ((l % 5) + 2) % 5
      BY <2>2 DEF Right
    <3> QED  BY <3>1, <3>2
  <2>4. /\ b[l \div 5][l % 5] = Moved(s)[l]
        /\ b[m \div 5][m % 5] = Moved(s)[m]
        /\ b[k \div 5][k % 5] = Moved(s)[k]
    BY <1>2
  <2>5. Mixed(Moved(s))[l] = XorLanes(Moved(s)[l], AndNot(Moved(s)[m], Moved(s)[k]))
    BY <2>2 DEF Mixed
  <2> QED  BY <2>1, <2>3, <2>4, <2>5
<1>4. chi = Mixed(Moved(s))
  <2>1. Mixed(Moved(s)) = [l \in 0..24 |-> Mixed(Moved(s))[l]]
    BY DEF Mixed
  <2> HIDE DEF b, mix
  <2> QED  BY <1>3, <2>1
<1> HIDE DEF b, mix, chi
<1> QED  BY <1>1, <1>4 DEF Marked

\* One half of the loop body is one round of the standard.
LEMMA RoundIs ==
  ASSUME NEW s \in LaneState, NEW k, Fips!RC[k] \in Lane
  PROVE  /\ RhoPiChiIota(prepareTheta(s), Fips!RC[k]) \in LaneState
         /\ BitsOf(RhoPiChiIota(prepareTheta(s), Fips!RC[k])) = Fips!Rnd(BitsOf(s), k)
<1>1. prepareTheta(s) \in LaneState /\ BitsOf(prepareTheta(s)) = Fips!theta(BitsOf(s))
  BY ThetaIs
<1>2. PICK t \in LaneState : t = prepareTheta(s)
  BY <1>1
<1>3. PICK u \in LaneState : u = Moved(t) /\ BitsOf(u) = Fips!pi(Fips!rho(BitsOf(t)))
  BY MovedIs
<1>4. PICK v \in LaneState : v = Mixed(u) /\ BitsOf(v) = Fips!chi(BitsOf(u))
  BY MixedIs
<1>5. PICK w \in LaneState : w = Marked(v, Fips!RC[k]) /\ BitsOf(w) = Fips!iota(BitsOf(v), k)
  BY MarkedIs
<1>6. RhoPiChiIota(t, Fips!RC[k]) = w
  BY <1>3, <1>4, <1>5, SweepIs
<1>7. BitsOf(w) = Fips!Rnd(BitsOf(s), k)
  BY <1>1, <1>2, <1>3, <1>4, <1>5 DEF Fips!Rnd
<1> QED  BY <1>2, <1>6, <1>7

----------------------------------------------------------------------------
(* The round constants.                                                    *)

\* Each entry of a row is the one before it, shifted.
Follows(q) ==
  /\ q[2] = Fips!Shifted(q[1])
  /\ q[3] = Fips!Shifted(q[2])
  /\ q[4] = Fips!Shifted(q[3])
  /\ q[5] = Fips!Shifted(q[4])
  /\ q[6] = Fips!Shifted(q[5])
  /\ q[7] = Fips!Shifted(q[6])
  /\ q[8] = Fips!Shifted(q[7])

\* Seven shifts.
LEMMA AfterIs ==
  ASSUME NEW r, NEW q, q[1] = r, Follows(q)
  PROVE  \A k \in 0..7 : Fips!After(r)[k] = q[k + 1]
<1> DEFINE Is(f) == f = [k \in 0..7 |-> IF k = 0 THEN r ELSE Fips!Shifted(f[k - 1])]
           g == [k \in 0..7 |-> q[k + 1]]
<1>1. ASSUME NEW k \in 0..7 PROVE g[k] = IF k = 0 THEN r ELSE Fips!Shifted(g[k - 1])
  <2>1. CASE k = 0
    BY <2>1
  <2>2. CASE k \in 1..7
    <3>1. g[k] = q[k + 1] /\ g[k - 1] = q[k]
      BY <2>2
    <3> QED  BY <2>2, <3>1 DEF Follows
  <2> QED  BY <2>1, <2>2
<1>2. Is(g)
  BY <1>1
<1>3. Fips!After(r) = CHOOSE f : Is(f)
  BY DEF Fips!After
<1>4. Is(Fips!After(r))
  <2> HIDE DEF Is
  <2> QED  BY <1>2, <1>3
<1>5. Fips!After(r)[0] = r /\ \A k \in 1..7 : Fips!After(r)[k] = Fips!Shifted(Fips!After(r)[k - 1])
  BY <1>4
<1> HIDE DEF Is, g
<1> DEFINE T == {k \in 0..7 : Fips!After(r)[k] = q[k + 1]}
<1>6. 0 \in T
  BY <1>5
<1>7. ASSUME NEW k \in 0..7 - 1, k \in T PROVE k + 1 \in T
  <2>1. k + 1 \in 1..7 /\ (k + 1) - 1 = k
    OBVIOUS
  <2>2. Fips!After(r)[k + 1] = Fips!Shifted(q[k + 1])
    BY <1>5, <1>7, <2>1
  <2>3. q[(k + 1) + 1] = Fips!Shifted(q[k + 1])
    BY <2>1 DEF Follows
  <2> QED  BY <2>1, <2>2, <2>3
<1>8. 0..7 \subseteq T
  <2> HIDE DEF T
  <2> QED  BY <1>6, <1>7, UpTo
<1> QED  BY <1>8

\* The constant of a round that starts with register r.
Constant(r) == {2^j - 1 : j \in {k \in 0..6 : 0 \in Fips!After(r)[k]}}

\* z is a bit of the constant that the registers q give.
Tapped(q, z) ==
  \/ z = 0 /\ 0 \in q[1]
  \/ z = 1 /\ 0 \in q[2]
  \/ z = 3 /\ 0 \in q[3]
  \/ z = 7 /\ 0 \in q[4]
  \/ z = 15 /\ 0 \in q[5]
  \/ z = 31 /\ 0 \in q[6]
  \/ z = 63 /\ 0 \in q[7]

\* Seven bits of the register are the constant; after them it is at the next round.
LEMMA ConstantIs ==
  ASSUME NEW r, NEW q, q[1] = r, Follows(q)
  PROVE  /\ Fips!After(r)[7] = q[8]
         /\ \A z : (z \in Constant(r)) <=> Tapped(q, z)
<1>1. \A k \in 0..7 : Fips!After(r)[k] = q[k + 1]
  BY AfterIs
<1>2. Constant(r) = {2^j - 1 : j \in {k \in 0..6 : 0 \in Fips!After(r)[k]}}
  BY DEF Constant
<1>3. {k \in 0..6 : 0 \in Fips!After(r)[k]} = {k \in 0..6 : 0 \in q[k + 1]}
  BY <1>1
<1>4. \A z : (z \in Constant(r)) <=> \E j \in 0..6 : 0 \in q[j + 1] /\ z = 2^j - 1
  BY <1>2, <1>3
<1>5. /\ 2^0 - 1 = 0 /\ 2^1 - 1 = 1 /\ 2^2 - 1 = 3 /\ 2^3 - 1 = 7
      /\ 2^4 - 1 = 15 /\ 2^5 - 1 = 31 /\ 2^6 - 1 = 63
  OBVIOUS
<1>6. ASSUME NEW z PROVE (z \in Constant(r)) <=> Tapped(q, z)
  BY <1>4, <1>5 DEF Tapped
<1> QED  BY <1>1, <1>6

\* Round 0: the register moves on, and the constant is that of the code.
LEMMA Constant0 == Fips!After({0})[7] = {7} /\ Constant({0}) = {0}
<1> DEFINE q == <<{0}, {1}, {2}, {3},
                 {4}, {5}, {6}, {7}>>
<1>1. /\ Fips!Shifted({0}) = {1}
      /\ Fips!Shifted({1}) = {2}
      /\ Fips!Shifted({2}) = {3}
      /\ Fips!Shifted({3}) = {4}
      /\ Fips!Shifted({4}) = {5}
      /\ Fips!Shifted({5}) = {6}
      /\ Fips!Shifted({6}) = {7}
  BY DEF Fips!Shifted
<1>2. q[1] = {0} /\ Follows(q)
  BY <1>1 DEF Follows
<1>3. /\ 0 \in q[1] /\ 0 \notin q[2] /\ 0 \notin q[3] /\ 0 \notin q[4] /\ 0 \notin q[5] /\ 0 \notin q[6] /\ 0 \notin q[7]
      /\ q[8] = {7}
  OBVIOUS
<1> HIDE DEF q
<1>4. /\ Fips!After({0})[7] = q[8]
      /\ \A z : (z \in Constant({0})) <=> Tapped(q, z)
  BY <1>2, ConstantIs
<1>5. \A z : (z \in Constant({0})) <=> z = 0
  BY <1>3, <1>4 DEF Tapped
<1> QED  BY <1>3, <1>4, <1>5

\* Round 1: the register moves on, and the constant is that of the code.
LEMMA Constant1 == Fips!After({7})[7] = {3, 4, 6, 7} /\ Constant({7}) = {1, 7, 15}
<1> DEFINE q == <<{7}, {0, 4, 5, 6}, {1, 5, 6, 7}, {0, 2, 4, 5, 7},
                 {0, 1, 3, 4}, {1, 2, 4, 5}, {2, 3, 5, 6}, {3, 4, 6, 7}>>
<1>1. /\ Fips!Shifted({7}) = {0, 4, 5, 6}
      /\ Fips!Shifted({0, 4, 5, 6}) = {1, 5, 6, 7}
      /\ Fips!Shifted({1, 5, 6, 7}) = {0, 2, 4, 5, 7}
      /\ Fips!Shifted({0, 2, 4, 5, 7}) = {0, 1, 3, 4}
      /\ Fips!Shifted({0, 1, 3, 4}) = {1, 2, 4, 5}
      /\ Fips!Shifted({1, 2, 4, 5}) = {2, 3, 5, 6}
      /\ Fips!Shifted({2, 3, 5, 6}) = {3, 4, 6, 7}
  BY DEF Fips!Shifted
<1>2. q[1] = {7} /\ Follows(q)
  BY <1>1 DEF Follows
<1>3. /\ 0 \notin q[1] /\ 0 \in q[2] /\ 0 \notin q[3] /\ 0 \in q[4] /\ 0 \in q[5] /\ 0 \notin q[6] /\ 0 \notin q[7]
      /\ q[8] = {3, 4, 6, 7}
  OBVIOUS
<1> HIDE DEF q
<1>4. /\ Fips!After({7})[7] = q[8]
      /\ \A z : (z \in Constant({7})) <=> Tapped(q, z)
  BY <1>2, ConstantIs
<1>5. \A z : (z \in Constant({7})) <=> z = 1 \/ z = 7 \/ z = 15
  BY <1>3, <1>4 DEF Tapped
<1> QED  BY <1>3, <1>4, <1>5

\* Round 2: the register moves on, and the constant is that of the code.
LEMMA Constant2 == Fips!After({3, 4, 6, 7})[7] = {1, 3, 4} /\ Constant({3, 4, 6, 7}) = {1, 3, 7, 15, 63}
<1> DEFINE q == <<{3, 4, 6, 7}, {0, 6, 7}, {0, 1, 4, 5, 6, 7}, {0, 1, 2, 4, 7},
                 {0, 1, 2, 3, 4, 6}, {1, 2, 3, 4, 5, 7}, {0, 2, 3}, {1, 3, 4}>>
<1>1. /\ Fips!Shifted({3, 4, 6, 7}) = {0, 6, 7}
      /\ Fips!Shifted({0, 6, 7}) = {0, 1, 4, 5, 6, 7}
      /\ Fips!Shifted({0, 1, 4, 5, 6, 7}) = {0, 1, 2, 4, 7}
      /\ Fips!Shifted({0, 1, 2, 4, 7}) = {0, 1, 2, 3, 4, 6}
      /\ Fips!Shifted({0, 1, 2, 3, 4, 6}) = {1, 2, 3, 4, 5, 7}
      /\ Fips!Shifted({1, 2, 3, 4, 5, 7}) = {0, 2, 3}
      /\ Fips!Shifted({0, 2, 3}) = {1, 3, 4}
  BY DEF Fips!Shifted
<1>2. q[1] = {3, 4, 6, 7} /\ Follows(q)
  BY <1>1 DEF Follows
<1>3. /\ 0 \notin q[1] /\ 0 \in q[2] /\ 0 \in q[3] /\ 0 \in q[4] /\ 0 \in q[5] /\ 0 \notin q[6] /\ 0 \in q[7]
      /\ q[8] = {1, 3, 4}
  OBVIOUS
<1> HIDE DEF q
<1>4. /\ Fips!After({3, 4, 6, 7})[7] = q[8]
      /\ \A z : (z \in Constant({3, 4, 6, 7})) <=> Tapped(q, z)
  BY <1>2, ConstantIs
<1>5. \A z : (z \in Constant({3, 4, 6, 7})) <=> z = 1 \/ z = 3 \/ z = 7 \/ z = 15 \/ z = 63
  BY <1>3, <1>4 DEF Tapped
<1> QED  BY <1>3, <1>4, <1>5

\* Round 3: the register moves on, and the constant is that of the code.
LEMMA Constant3 == Fips!After({1, 3, 4})[7] = {0, 1, 2, 3, 4, 6, 7} /\ Constant({1, 3, 4}) = {15, 31, 63}
<1> DEFINE q == <<{1, 3, 4}, {2, 4, 5}, {3, 5, 6}, {4, 6, 7},
                 {0, 4, 6, 7}, {0, 1, 4, 6, 7}, {0, 1, 2, 4, 6, 7}, {0, 1, 2, 3, 4, 6, 7}>>
<1>1. /\ Fips!Shifted({1, 3, 4}) = {2, 4, 5}
      /\ Fips!Shifted({2, 4, 5}) = {3, 5, 6}
      /\ Fips!Shifted({3, 5, 6}) = {4, 6, 7}
      /\ Fips!Shifted({4, 6, 7}) = {0, 4, 6, 7}
      /\ Fips!Shifted({0, 4, 6, 7}) = {0, 1, 4, 6, 7}
      /\ Fips!Shifted({0, 1, 4, 6, 7}) = {0, 1, 2, 4, 6, 7}
      /\ Fips!Shifted({0, 1, 2, 4, 6, 7}) = {0, 1, 2, 3, 4, 6, 7}
  BY DEF Fips!Shifted
<1>2. q[1] = {1, 3, 4} /\ Follows(q)
  BY <1>1 DEF Follows
<1>3. /\ 0 \notin q[1] /\ 0 \notin q[2] /\ 0 \notin q[3] /\ 0 \notin q[4] /\ 0 \in q[5] /\ 0 \in q[6] /\ 0 \in q[7]
      /\ q[8] = {0, 1, 2, 3, 4, 6, 7}
  OBVIOUS
<1> HIDE DEF q
<1>4. /\ Fips!After({1, 3, 4})[7] = q[8]
      /\ \A z : (z \in Constant({1, 3, 4})) <=> Tapped(q, z)
  BY <1>2, ConstantIs
<1>5. \A z : (z \in Constant({1, 3, 4})) <=> z = 15 \/ z = 31 \/ z = 63
  BY <1>3, <1>4 DEF Tapped
<1> QED  BY <1>3, <1>4, <1>5

\* Round 4: the register moves on, and the constant is that of the code.
LEMMA Constant4 == Fips!After({0, 1, 2, 3, 4, 6, 7})[7] = {0, 3} /\ Constant({0, 1, 2, 3, 4, 6, 7}) = {0, 1, 3, 7, 15}
<1> DEFINE q == <<{0, 1, 2, 3, 4, 6, 7}, {0, 1, 2, 3, 6, 7}, {0, 1, 2, 3, 5, 6, 7}, {0, 1, 2, 3, 5, 7},
                 {0, 1, 2, 3, 5}, {1, 2, 3, 4, 6}, {2, 3, 4, 5, 7}, {0, 3}>>
<1>1. /\ Fips!Shifted({0, 1, 2, 3, 4, 6, 7}) = {0, 1, 2, 3, 6, 7}
      /\ Fips!Shifted({0, 1, 2, 3, 6, 7}) = {0, 1, 2, 3, 5, 6, 7}
      /\ Fips!Shifted({0, 1, 2, 3, 5, 6, 7}) = {0, 1, 2, 3, 5, 7}
      /\ Fips!Shifted({0, 1, 2, 3, 5, 7}) = {0, 1, 2, 3, 5}
      /\ Fips!Shifted({0, 1, 2, 3, 5}) = {1, 2, 3, 4, 6}
      /\ Fips!Shifted({1, 2, 3, 4, 6}) = {2, 3, 4, 5, 7}
      /\ Fips!Shifted({2, 3, 4, 5, 7}) = {0, 3}
  BY DEF Fips!Shifted
<1>2. q[1] = {0, 1, 2, 3, 4, 6, 7} /\ Follows(q)
  BY <1>1 DEF Follows
<1>3. /\ 0 \in q[1] /\ 0 \in q[2] /\ 0 \in q[3] /\ 0 \in q[4] /\ 0 \in q[5] /\ 0 \notin q[6] /\ 0 \notin q[7]
      /\ q[8] = {0, 3}
  OBVIOUS
<1> HIDE DEF q
<1>4. /\ Fips!After({0, 1, 2, 3, 4, 6, 7})[7] = q[8]
      /\ \A z : (z \in Constant({0, 1, 2, 3, 4, 6, 7})) <=> Tapped(q, z)
  BY <1>2, ConstantIs
<1>5. \A z : (z \in Constant({0, 1, 2, 3, 4, 6, 7})) <=> z = 0 \/ z = 1 \/ z = 3 \/ z = 7 \/ z = 15
  BY <1>3, <1>4 DEF Tapped
<1> QED  BY <1>3, <1>4, <1>5

\* Round 5: the register moves on, and the constant is that of the code.
LEMMA Constant5 == Fips!After({0, 3})[7] = {0, 2, 4, 5} /\ Constant({0, 3}) = {0, 31}
<1> DEFINE q == <<{0, 3}, {1, 4}, {2, 5}, {3, 6},
                 {4, 7}, {0, 4, 6}, {1, 5, 7}, {0, 2, 4, 5}>>
<1>1. /\ Fips!Shifted({0, 3}) = {1, 4}
      /\ Fips!Shifted({1, 4}) = {2, 5}
      /\ Fips!Shifted({2, 5}) = {3, 6}
      /\ Fips!Shifted({3, 6}) = {4, 7}
      /\ Fips!Shifted({4, 7}) = {0, 4, 6}
      /\ Fips!Shifted({0, 4, 6}) = {1, 5, 7}
      /\ Fips!Shifted({1, 5, 7}) = {0, 2, 4, 5}
  BY DEF Fips!Shifted
<1>2. q[1] = {0, 3} /\ Follows(q)
  BY <1>1 DEF Follows
<1>3. /\ 0 \in q[1] /\ 0 \notin q[2] /\ 0 \notin q[3] /\ 0 \notin q[4] /\ 0 \notin q[5] /\ 0 \in q[6] /\ 0 \notin q[7]
      /\ q[8] = {0, 2, 4, 5}
  OBVIOUS
<1> HIDE DEF q
<1>4. /\ Fips!After({0, 3})[7] = q[8]
      /\ \A z : (z \in Constant({0, 3})) <=> Tapped(q, z)
  BY <1>2, ConstantIs
<1>5. \A z : (z \in Constant({0, 3})) <=> z = 0 \/ z = 31
  BY <1>3, <1>4 DEF Tapped
<1> QED  BY <1>3, <1>4, <1>5

\* Round 6: the register moves on, and the constant is that of the code.
LEMMA Constant6 == Fips!After({0, 2, 4, 5})[7] = {0, 1, 2, 3, 6} /\ Constant({0, 2, 4, 5}) = {0, 7, 15, 31, 63}
<1> DEFINE q == <<{0, 2, 4, 5}, {1, 3, 5, 6}, {2, 4, 6, 7}, {0, 3, 4, 6, 7},
                 {0, 1, 6, 7}, {0, 1, 2, 4, 5, 6, 7}, {0, 1, 2, 3, 4, 7}, {0, 1, 2, 3, 6}>>
<1>1. /\ Fips!Shifted({0, 2, 4, 5}) = {1, 3, 5, 6}
      /\ Fips!Shifted({1, 3, 5, 6}) = {2, 4, 6, 7}
      /\ Fips!Shifted({2, 4, 6, 7}) = {0, 3, 4, 6, 7}
      /\ Fips!Shifted({0, 3, 4, 6, 7}) = {0, 1, 6, 7}
      /\ Fips!Shifted({0, 1, 6, 7}) = {0, 1, 2, 4, 5, 6, 7}
      /\ Fips!Shifted({0, 1, 2, 4, 5, 6, 7}) = {0, 1, 2, 3, 4, 7}
      /\ Fips!Shifted({0, 1, 2, 3, 4, 7}) = {0, 1, 2, 3, 6}
  BY DEF Fips!Shifted
<1>2. q[1] = {0, 2, 4, 5} /\ Follows(q)
  BY <1>1 DEF Follows
<1>3. /\ 0 \in q[1] /\ 0 \notin q[2] /\ 0 \notin q[3] /\ 0 \in q[4] /\ 0 \in q[5] /\ 0 \in q[6] /\ 0 \in q[7]
      /\ q[8] = {0, 1, 2, 3, 6}
  OBVIOUS
<1> HIDE DEF q
<1>4. /\ Fips!After({0, 2, 4, 5})[7] = q[8]
      /\ \A z : (z \in Constant({0, 2, 4, 5})) <=> Tapped(q, z)
  BY <1>2, ConstantIs
<1>5. \A z : (z \in Constant({0, 2, 4, 5})) <=> z = 0 \/ z = 7 \/ z = 15 \/ z = 31 \/ z = 63
  BY <1>3, <1>4 DEF Tapped
<1> QED  BY <1>3, <1>4, <1>5

\* Round 7: the register moves on, and the constant is that of the code.
LEMMA Constant7 == Fips!After({0, 1, 2, 3, 6})[7] = {1, 3, 6, 7} /\ Constant({0, 1, 2, 3, 6}) = {0, 3, 15, 63}
<1> DEFINE q == <<{0, 1, 2, 3, 6}, {1, 2, 3, 4, 7}, {0, 2, 3, 6}, {1, 3, 4, 7},
                 {0, 2, 6}, {1, 3, 7}, {0, 2, 5, 6}, {1, 3, 6, 7}>>
<1>1. /\ Fips!Shifted({0, 1, 2, 3, 6}) = {1, 2, 3, 4, 7}
      /\ Fips!Shifted({1, 2, 3, 4, 7}) = {0, 2, 3, 6}
      /\ Fips!Shifted({0, 2, 3, 6}) = {1, 3, 4, 7}
      /\ Fips!Shifted({1, 3, 4, 7}) = {0, 2, 6}
      /\ Fips!Shifted({0, 2, 6}) = {1, 3, 7}
      /\ Fips!Shifted({1, 3, 7}) = {0, 2, 5, 6}
      /\ Fips!Shifted({0, 2, 5, 6}) = {1, 3, 6, 7}
  BY DEF Fips!Shifted
<1>2. q[1] = {0, 1, 2, 3, 6} /\ Follows(q)
  BY <1>1 DEF Follows
<1>3. /\ 0 \in q[1] /\ 0 \notin q[2] /\ 0 \in q[3] /\ 0 \notin q[4] /\ 0 \in q[5] /\ 0 \notin q[6] /\ 0 \in q[7]
      /\ q[8] = {1, 3, 6, 7}
  OBVIOUS
<1> HIDE DEF q
<1>4. /\ Fips!After({0, 1, 2, 3, 6})[7] = q[8]
      /\ \A z : (z \in Constant({0, 1, 2, 3, 6})) <=> Tapped(q, z)
  BY <1>2, ConstantIs
<1>5. \A z : (z \in Constant({0, 1, 2, 3, 6})) <=> z = 0 \/ z = 3 \/ z = 15 \/ z = 63
  BY <1>3, <1>4 DEF Tapped
<1> QED  BY <1>3, <1>4, <1>5

\* Round 8: the register moves on, and the constant is that of the code.
LEMMA Constant8 == Fips!After({1, 3, 6, 7})[7] = {4, 5, 6} /\ Constant({1, 3, 6, 7}) = {1, 3, 7}
<1> DEFINE q == <<{1, 3, 6, 7}, {0, 2, 5, 6, 7}, {0, 1, 3, 4, 5, 7}, {0, 1, 2},
                 {1, 2, 3}, {2, 3, 4}, {3, 4, 5}, {4, 5, 6}>>
<1>1. /\ Fips!Shifted({1, 3, 6, 7}) = {0, 2, 5, 6, 7}
      /\ Fips!Shifted({0, 2, 5, 6, 7}) = {0, 1, 3, 4, 5, 7}
      /\ Fips!Shifted({0, 1, 3, 4, 5, 7}) = {0, 1, 2}
      /\ Fips!Shifted({0, 1, 2}) = {1, 2, 3}
      /\ Fips!Shifted({1, 2, 3}) = {2, 3, 4}
      /\ Fips!Shifted({2, 3, 4}) = {3, 4, 5}
      /\ Fips!Shifted({3, 4, 5}) = {4, 5, 6}
  BY DEF Fips!Shifted
<1>2. q[1] = {1, 3, 6, 7} /\ Follows(q)
  BY <1>1 DEF Follows
<1>3. /\ 0 \notin q[1] /\ 0 \in q[2] /\ 0 \in q[3] /\ 0 \in q[4] /\ 0 \notin q[5] /\ 0 \notin q[6] /\ 0 \notin q[7]
      /\ q[8] = {4, 5, 6}
  OBVIOUS
<1> HIDE DEF q
<1>4. /\ Fips!After({1, 3, 6, 7})[7] = q[8]
      /\ \A z : (z \in Constant({1, 3, 6, 7})) <=> Tapped(q, z)
  BY <1>2, ConstantIs
<1>5. \A z : (z \in Constant({1, 3, 6, 7})) <=> z = 1 \/ z = 3 \/ z = 7
  BY <1>3, <1>4 DEF Tapped
<1> QED  BY <1>3, <1>4, <1>5

\* Round 9: the register moves on, and the constant is that of the code.
LEMMA Constant9 == Fips!After({4, 5, 6})[7] = {0, 6} /\ Constant({4, 5, 6}) = {3, 7}
<1> DEFINE q == <<{4, 5, 6}, {5, 6, 7}, {0, 4, 5, 7}, {0, 1, 4},
                 {1, 2, 5}, {2, 3, 6}, {3, 4, 7}, {0, 6}>>
<1>1. /\ Fips!Shifted({4, 5, 6}) = {5, 6, 7}
      /\ Fips!Shifted({5, 6, 7}) = {0, 4, 5, 7}
      /\ Fips!Shifted({0, 4, 5, 7}) = {0, 1, 4}
      /\ Fips!Shifted({0, 1, 4}) = {1, 2, 5}
      /\ Fips!Shifted({1, 2, 5}) = {2, 3, 6}
      /\ Fips!Shifted({2, 3, 6}) = {3, 4, 7}
      /\ Fips!Shifted({3, 4, 7}) = {0, 6}
  BY DEF Fips!Shifted
<1>2. q[1] = {4, 5, 6} /\ Follows(q)
  BY <1>1 DEF Follows
<1>3. /\ 0 \notin q[1] /\ 0 \notin q[2] /\ 0 \in q[3] /\ 0 \in q[4] /\ 0 \notin q[5] /\ 0 \notin q[6] /\ 0 \notin q[7]
      /\ q[8] = {0, 6}
  OBVIOUS
<1> HIDE DEF q
<1>4. /\ Fips!After({4, 5, 6})[7] = q[8]
      /\ \A z : (z \in Constant({4, 5, 6})) <=> Tapped(q, z)
  BY <1>2, ConstantIs
<1>5. \A z : (z \in Constant({4, 5, 6})) <=> z = 3 \/ z = 7
  BY <1>3, <1>4 DEF Tapped
<1> QED  BY <1>3, <1>4, <1>5

\* Round 10: the register moves on, and the constant is that of the code.
LEMMA Constant10 == Fips!After({0, 6})[7] = {2, 3, 5, 6, 7} /\ Constant({0, 6}) = {0, 3, 15, 31}
<1> DEFINE q == <<{0, 6}, {1, 7}, {0, 2, 4, 5, 6}, {1, 3, 5, 6, 7},
                 {0, 2, 5, 7}, {0, 1, 3, 4, 5}, {1, 2, 4, 5, 6}, {2, 3, 5, 6, 7}>>
<1>1. /\ Fips!Shifted({0, 6}) = {1, 7}
      /\ Fips!Shifted({1, 7}) = {0, 2, 4, 5, 6}
      /\ Fips!Shifted({0, 2, 4, 5, 6}) = {1, 3, 5, 6, 7}
      /\ Fips!Shifted({1, 3, 5, 6, 7}) = {0, 2, 5, 7}
      /\ Fips!Shifted({0, 2, 5, 7}) = {0, 1, 3, 4, 5}
      /\ Fips!Shifted({0, 1, 3, 4, 5}) = {1, 2, 4, 5, 6}
      /\ Fips!Shifted({1, 2, 4, 5, 6}) = {2, 3, 5, 6, 7}
  BY DEF Fips!Shifted
<1>2. q[1] = {0, 6} /\ Follows(q)
  BY <1>1 DEF Follows
<1>3. /\ 0 \in q[1] /\ 0 \notin q[2] /\ 0 \in q[3] /\ 0 \notin q[4] /\ 0 \in q[5] /\ 0 \in q[6] /\ 0 \notin q[7]
      /\ q[8] = {2, 3, 5, 6, 7}
  OBVIOUS
<1> HIDE DEF q
<1>4. /\ Fips!After({0, 6})[7] = q[8]
      /\ \A z : (z \in Constant({0, 6})) <=> Tapped(q, z)
  BY <1>2, ConstantIs
<1>5. \A z : (z \in Constant({0, 6})) <=> z = 0 \/ z = 3 \/ z = 15 \/ z = 31
  BY <1>3, <1>4 DEF Tapped
<1> QED  BY <1>3, <1>4, <1>5

\* Round 11: the register moves on, and the constant is that of the code.
LEMMA Constant11 == Fips!After({2, 3, 5, 6, 7})[7] = {0, 2, 4, 6, 7} /\ Constant({2, 3, 5, 6, 7}) = {1, 3, 31}
<1> DEFINE q == <<{2, 3, 5, 6, 7}, {0, 3, 5, 7}, {0, 1, 5}, {1, 2, 6},
                 {2, 3, 7}, {0, 3, 5, 6}, {1, 4, 6, 7}, {0, 2, 4, 6, 7}>>
<1>1. /\ Fips!Shifted({2, 3, 5, 6, 7}) = {0, 3, 5, 7}
      /\ Fips!Shifted({0, 3, 5, 7}) = {0, 1, 5}
      /\ Fips!Shifted({0, 1, 5}) = {1, 2, 6}
      /\ Fips!Shifted({1, 2, 6}) = {2, 3, 7}
      /\ Fips!Shifted({2, 3, 7}) = {0, 3, 5, 6}
      /\ Fips!Shifted({0, 3, 5, 6}) = {1, 4, 6, 7}
      /\ Fips!Shifted({1, 4, 6, 7}) = {0, 2, 4, 6, 7}
  BY DEF Fips!Shifted
<1>2. q[1] = {2, 3, 5, 6, 7} /\ Follows(q)
  BY <1>1 DEF Follows
<1>3. /\ 0 \notin q[1] /\ 0 \in q[2] /\ 0 \in q[3] /\ 0 \notin q[4] /\ 0 \notin q[5] /\ 0 \in q[6] /\ 0 \notin q[7]
      /\ q[8] = {0, 2, 4, 6, 7}
  OBVIOUS
<1> HIDE DEF q
<1>4. /\ Fips!After({2, 3, 5, 6, 7})[7] = q[8]
      /\ \A z : (z \in Constant({2, 3, 5, 6, 7})) <=> Tapped(q, z)
  BY <1>2, ConstantIs
<1>5. \A z : (z \in Constant({2, 3, 5, 6, 7})) <=> z = 1 \/ z = 3 \/ z = 31
  BY <1>3, <1>4 DEF Tapped
<1> QED  BY <1>3, <1>4, <1>5

\* Round 12: the register moves on, and the constant is that of the code.
LEMMA Constant12 == Fips!After({0, 2, 4, 6, 7})[7] = {0, 2, 3, 6, 7} /\ Constant({0, 2, 4, 6, 7}) = {0, 1, 3, 7, 15, 31}
<1> DEFINE q == <<{0, 2, 4, 6, 7}, {0, 1, 3, 4, 6, 7}, {0, 1, 2, 6, 7}, {0, 1, 2, 3, 4, 5, 6, 7},
                 {0, 1, 2, 3, 7}, {0, 1, 2, 3, 5, 6}, {1, 2, 3, 4, 6, 7}, {0, 2, 3, 6, 7}>>
<1>1. /\ Fips!Shifted({0, 2, 4, 6, 7}) = {0, 1, 3, 4, 6, 7}
      /\ Fips!Shifted({0, 1, 3, 4, 6, 7}) = {0, 1, 2, 6, 7}
      /\ Fips!Shifted({0, 1, 2, 6, 7}) = {0, 1, 2, 3, 4, 5, 6, 7}
      /\ Fips!Shifted({0, 1, 2, 3, 4, 5, 6, 7}) = {0, 1, 2, 3, 7}
      /\ Fips!Shifted({0, 1, 2, 3, 7}) = {0, 1, 2, 3, 5, 6}
      /\ Fips!Shifted({0, 1, 2, 3, 5, 6}) = {1, 2, 3, 4, 6, 7}
      /\ Fips!Shifted({1, 2, 3, 4, 6, 7}) = {0, 2, 3, 6, 7}
  BY DEF Fips!Shifted
<1>2. q[1] = {0, 2, 4, 6, 7} /\ Follows(q)
  BY <1>1 DEF Follows
<1>3. /\ 0 \in q[1] /\ 0 \in q[2] /\ 0 \in q[3] /\ 0 \in q[4] /\ 0 \in q[5] /\ 0 \in q[6] /\ 0 \notin q[7]
      /\ q[8] = {0, 2, 3, 6, 7}
  OBVIOUS
<1> HIDE DEF q
<1>4. /\ Fips!After({0, 2, 4, 6, 7})[7] = q[8]
      /\ \A z : (z \in Constant({0, 2, 4, 6, 7})) <=> Tapped(q, z)
  BY <1>2, ConstantIs
<1>5. \A z : (z \in Constant({0, 2, 4, 6, 7})) <=> z = 0 \/ z = 1 \/ z = 3 \/ z = 7 \/ z = 15 \/ z = 31
  BY <1>3, <1>4 DEF Tapped
<1> QED  BY <1>3, <1>4, <1>5

\* Round 13: the register moves on, and the constant is that of the code.
LEMMA Constant13 == Fips!After({0, 2, 3, 6, 7})[7] = {0, 1, 5, 6} /\ Constant({0, 2, 3, 6, 7}) = {0, 1, 3, 7, 63}
<1> DEFINE q == <<{0, 2, 3, 6, 7}, {0, 1, 3, 5, 6, 7}, {0, 1, 2, 5, 7}, {0, 1, 2, 3, 4, 5},
                 {1, 2, 3, 4, 5, 6}, {2, 3, 4, 5, 6, 7}, {0, 3, 7}, {0, 1, 5, 6}>>
<1>1. /\ Fips!Shifted({0, 2, 3, 6, 7}) = {0, 1, 3, 5, 6, 7}
      /\ Fips!Shifted({0, 1, 3, 5, 6, 7}) = {0, 1, 2, 5, 7}
      /\ Fips!Shifted({0, 1, 2, 5, 7}) = {0, 1, 2, 3, 4, 5}
      /\ Fips!Shifted({0, 1, 2, 3, 4, 5}) = {1, 2, 3, 4, 5, 6}
      /\ Fips!Shifted({1, 2, 3, 4, 5, 6}) = {2, 3, 4, 5, 6, 7}
      /\ Fips!Shifted({2, 3, 4, 5, 6, 7}) = {0, 3, 7}
      /\ Fips!Shifted({0, 3, 7}) = {0, 1, 5, 6}
  BY DEF Fips!Shifted
<1>2. q[1] = {0, 2, 3, 6, 7} /\ Follows(q)
  BY <1>1 DEF Follows
<1>3. /\ 0 \in q[1] /\ 0 \in q[2] /\ 0 \in q[3] /\ 0 \in q[4] /\ 0 \notin q[5] /\ 0 \notin q[6] /\ 0 \in q[7]
      /\ q[8] = {0, 1, 5, 6}
  OBVIOUS
<1> HIDE DEF q
<1>4. /\ Fips!After({0, 2, 3, 6, 7})[7] = q[8]
      /\ \A z : (z \in Constant({0, 2, 3, 6, 7})) <=> Tapped(q, z)
  BY <1>2, ConstantIs
<1>5. \A z : (z \in Constant({0, 2, 3, 6, 7})) <=> z = 0 \/ z = 1 \/ z = 3 \/ z = 7 \/ z = 63
  BY <1>3, <1>4 DEF Tapped
<1> QED  BY <1>3, <1>4, <1>5

\* Round 14: the register moves on, and the constant is that of the code.
LEMMA Constant14 == Fips!After({0, 1, 5, 6})[7] = {0, 1, 3, 5, 7} /\ Constant({0, 1, 5, 6}) = {0, 3, 7, 15, 63}
<1> DEFINE q == <<{0, 1, 5, 6}, {1, 2, 6, 7}, {0, 2, 3, 4, 5, 6, 7}, {0, 1, 3, 7},
                 {0, 1, 2, 5, 6}, {1, 2, 3, 6, 7}, {0, 2, 3, 5, 6, 7}, {0, 1, 3, 5, 7}>>
<1>1. /\ Fips!Shifted({0, 1, 5, 6}) = {1, 2, 6, 7}
      /\ Fips!Shifted({1, 2, 6, 7}) = {0, 2, 3, 4, 5, 6, 7}
      /\ Fips!Shifted({0, 2, 3, 4, 5, 6, 7}) = {0, 1, 3, 7}
      /\ Fips!Shifted({0, 1, 3, 7}) = {0, 1, 2, 5, 6}
      /\ Fips!Shifted({0, 1, 2, 5, 6}) = {1, 2, 3, 6, 7}
      /\ Fips!Shifted({1, 2, 3, 6, 7}) = {0, 2, 3, 5, 6, 7}
      /\ Fips!Shifted({0, 2, 3, 5, 6, 7}) = {0, 1, 3, 5, 7}
  BY DEF Fips!Shifted
<1>2. q[1] = {0, 1, 5, 6} /\ Follows(q)
  BY <1>1 DEF Follows
<1>3. /\ 0 \in q[1] /\ 0 \notin q[2] /\ 0 \in q[3] /\ 0 \in q[4] /\ 0 \in q[5] /\ 0 \notin q[6] /\ 0 \in q[7]
      /\ q[8] = {0, 1, 3, 5, 7}
  OBVIOUS
<1> HIDE DEF q
<1>4. /\ Fips!After({0, 1, 5, 6})[7] = q[8]
      /\ \A z : (z \in Constant({0, 1, 5, 6})) <=> Tapped(q, z)
  BY <1>2, ConstantIs
<1>5. \A z : (z \in Constant({0, 1, 5, 6})) <=> z = 0 \/ z = 3 \/ z = 7 \/ z = 15 \/ z = 63
  BY <1>3, <1>4 DEF Tapped
<1> QED  BY <1>3, <1>4, <1>5

\* Round 15: the register moves on, and the constant is that of the code.
LEMMA Constant15 == Fips!After({0, 1, 3, 5, 7})[7] = {1, 3, 5, 7} /\ Constant({0, 1, 3, 5, 7}) = {0, 1, 15, 63}
<1> DEFINE q == <<{0, 1, 3, 5, 7}, {0, 1, 2, 5}, {1, 2, 3, 6}, {2, 3, 4, 7},
                 {0, 3, 6}, {1, 4, 7}, {0, 2, 4, 6}, {1, 3, 5, 7}>>
<1>1. /\ Fips!Shifted({0, 1, 3, 5, 7}) = {0, 1, 2, 5}
      /\ Fips!Shifted({0, 1, 2, 5}) = {1, 2, 3, 6}
      /\ Fips!Shifted({1, 2, 3, 6}) = {2, 3, 4, 7}
      /\ Fips!Shifted({2, 3, 4, 7}) = {0, 3, 6}
      /\ Fips!Shifted({0, 3, 6}) = {1, 4, 7}
      /\ Fips!Shifted({1, 4, 7}) = {0, 2, 4, 6}
      /\ Fips!Shifted({0, 2, 4, 6}) = {1, 3, 5, 7}
  BY DEF Fips!Shifted
<1>2. q[1] = {0, 1, 3, 5, 7} /\ Follows(q)
  BY <1>1 DEF Follows
<1>3. /\ 0 \in q[1] /\ 0 \in q[2] /\ 0 \notin q[3] /\ 0 \notin q[4] /\ 0 \in q[5] /\ 0 \notin q[6] /\ 0 \in q[7]
      /\ q[8] = {1, 3, 5, 7}
  OBVIOUS
<1> HIDE DEF q
<1>4. /\ Fips!After({0, 1, 3, 5, 7})[7] = q[8]
      /\ \A z : (z \in Constant({0, 1, 3, 5, 7})) <=> Tapped(q, z)
  BY <1>2, ConstantIs
<1>5. \A z : (z \in Constant({0, 1, 3, 5, 7})) <=> z = 0 \/ z = 1 \/ z = 15 \/ z = 63
  BY <1>3, <1>4 DEF Tapped
<1> QED  BY <1>3, <1>4, <1>5

\* Round 16: the register moves on, and the constant is that of the code.
LEMMA Constant16 == Fips!After({1, 3, 5, 7})[7] = {1, 3, 5} /\ Constant({1, 3, 5, 7}) = {1, 15, 63}
<1> DEFINE q == <<{1, 3, 5, 7}, {0, 2, 5}, {1, 3, 6}, {2, 4, 7},
                 {0, 3, 4, 6}, {1, 4, 5, 7}, {0, 2, 4}, {1, 3, 5}>>
<1>1. /\ Fips!Shifted({1, 3, 5, 7}) = {0, 2, 5}
      /\ Fips!Shifted({0, 2, 5}) = {1, 3, 6}
      /\ Fips!Shifted({1, 3, 6}) = {2, 4, 7}
      /\ Fips!Shifted({2, 4, 7}) = {0, 3, 4, 6}
      /\ Fips!Shifted({0, 3, 4, 6}) = {1, 4, 5, 7}
      /\ Fips!Shifted({1, 4, 5, 7}) = {0, 2, 4}
      /\ Fips!Shifted({0, 2, 4}) = {1, 3, 5}
  BY DEF Fips!Shifted
<1>2. q[1] = {1, 3, 5, 7} /\ Follows(q)
  BY <1>1 DEF Follows
<1>3. /\ 0 \notin q[1] /\ 0 \in q[2] /\ 0 \notin q[3] /\ 0 \notin q[4] /\ 0 \in q[5] /\ 0 \notin q[6] /\ 0 \in q[7]
      /\ q[8] = {1, 3, 5}
  OBVIOUS
<1> HIDE DEF q
<1>4. /\ Fips!After({1, 3, 5, 7})[7] = q[8]
      /\ \A z : (z \in Constant({1, 3, 5, 7})) <=> Tapped(q, z)
  BY <1>2, ConstantIs
<1>5. \A z : (z \in Constant({1, 3, 5, 7})) <=> z = 1 \/ z = 15 \/ z = 63
  BY <1>3, <1>4 DEF Tapped
<1> QED  BY <1>3, <1>4, <1>5

\* Round 17: the register moves on, and the constant is that of the code.
LEMMA Constant17 == Fips!After({1, 3, 5})[7] = {1, 4, 5, 6, 7} /\ Constant({1, 3, 5}) = {7, 63}
<1> DEFINE q == <<{1, 3, 5}, {2, 4, 6}, {3, 5, 7}, {0, 5},
                 {1, 6}, {2, 7}, {0, 3, 4, 5, 6}, {1, 4, 5, 6, 7}>>
<1>1. /\ Fips!Shifted({1, 3, 5}) = {2, 4, 6}
      /\ Fips!Shifted({2, 4, 6}) = {3, 5, 7}
      /\ Fips!Shifted({3, 5, 7}) = {0, 5}
      /\ Fips!Shifted({0, 5}) = {1, 6}
      /\ Fips!Shifted({1, 6}) = {2, 7}
      /\ Fips!Shifted({2, 7}) = {0, 3, 4, 5, 6}
      /\ Fips!Shifted({0, 3, 4, 5, 6}) = {1, 4, 5, 6, 7}
  BY DEF Fips!Shifted
<1>2. q[1] = {1, 3, 5} /\ Follows(q)
  BY <1>1 DEF Follows
<1>3. /\ 0 \notin q[1] /\ 0 \notin q[2] /\ 0 \notin q[3] /\ 0 \in q[4] /\ 0 \notin q[5] /\ 0 \notin q[6] /\ 0 \in q[7]
      /\ q[8] = {1, 4, 5, 6, 7}
  OBVIOUS
<1> HIDE DEF q
<1>4. /\ Fips!After({1, 3, 5})[7] = q[8]
      /\ \A z : (z \in Constant({1, 3, 5})) <=> Tapped(q, z)
  BY <1>2, ConstantIs
<1>5. \A z : (z \in Constant({1, 3, 5})) <=> z = 7 \/ z = 63
  BY <1>3, <1>4 DEF Tapped
<1> QED  BY <1>3, <1>4, <1>5

\* Round 18: the register moves on, and the constant is that of the code.
LEMMA Constant18 == Fips!After({1, 4, 5, 6, 7})[7] = {3, 5, 6, 7} /\ Constant({1, 4, 5, 6, 7}) = {1, 3, 15}
<1> DEFINE q == <<{1, 4, 5, 6, 7}, {0, 2, 4, 7}, {0, 1, 3, 4, 6}, {1, 2, 4, 5, 7},
                 {0, 2, 3, 4}, {1, 3, 4, 5}, {2, 4, 5, 6}, {3, 5, 6, 7}>>
<1>1. /\ Fips!Shifted({1, 4, 5, 6, 7}) = {0, 2, 4, 7}
      /\ Fips!Shifted({0, 2, 4, 7}) = {0, 1, 3, 4, 6}
      /\ Fips!Shifted({0, 1, 3, 4, 6}) = {1, 2, 4, 5, 7}
      /\ Fips!Shifted({1, 2, 4, 5, 7}) = {0, 2, 3, 4}
      /\ Fips!Shifted({0, 2, 3, 4}) = {1, 3, 4, 5}
      /\ Fips!Shifted({1, 3, 4, 5}) = {2, 4, 5, 6}
      /\ Fips!Shifted({2, 4, 5, 6}) = {3, 5, 6, 7}
  BY DEF Fips!Shifted
<1>2. q[1] = {1, 4, 5, 6, 7} /\ Follows(q)
  BY <1>1 DEF Follows
<1>3. /\ 0 \notin q[1] /\ 0 \in q[2] /\ 0 \in q[3] /\ 0 \notin q[4] /\ 0 \in q[5] /\ 0 \notin q[6] /\ 0 \notin q[7]
      /\ q[8] = {3, 5, 6, 7}
  OBVIOUS
<1> HIDE DEF q
<1>4. /\ Fips!After({1, 4, 5, 6, 7})[7] = q[8]
      /\ \A z : (z \in Constant({1, 4, 5, 6, 7})) <=> Tapped(q, z)
  BY <1>2, ConstantIs
<1>5. \A z : (z \in Constant({1, 4, 5, 6, 7})) <=> z = 1 \/ z = 3 \/ z = 15
  BY <1>3, <1>4 DEF Tapped
<1> QED  BY <1>3, <1>4, <1>5

\* Round 19: the register moves on, and the constant is that of the code.
LEMMA Constant19 == Fips!After({3, 5, 6, 7})[7] = {0, 1, 2, 4, 5} /\ Constant({3, 5, 6, 7}) = {1, 3, 31, 63}
<1> DEFINE q == <<{3, 5, 6, 7}, {0, 5, 7}, {0, 1, 4, 5}, {1, 2, 5, 6},
                 {2, 3, 6, 7}, {0, 3, 5, 6, 7}, {0, 1, 5, 7}, {0, 1, 2, 4, 5}>>
<1>1. /\ Fips!Shifted({3, 5, 6, 7}) = {0, 5, 7}
      /\ Fips!Shifted({0, 5, 7}) = {0, 1, 4, 5}
      /\ Fips!Shifted({0, 1, 4, 5}) = {1, 2, 5, 6}
      /\ Fips!Shifted({1, 2, 5, 6}) = {2, 3, 6, 7}
      /\ Fips!Shifted({2, 3, 6, 7}) = {0, 3, 5, 6, 7}
      /\ Fips!Shifted({0, 3, 5, 6, 7}) = {0, 1, 5, 7}
      /\ Fips!Shifted({0, 1, 5, 7}) = {0, 1, 2, 4, 5}
  BY DEF Fips!Shifted
<1>2. q[1] = {3, 5, 6, 7} /\ Follows(q)
  BY <1>1 DEF Follows
<1>3. /\ 0 \notin q[1] /\ 0 \in q[2] /\ 0 \in q[3] /\ 0 \notin q[4] /\ 0 \notin q[5] /\ 0 \in q[6] /\ 0 \in q[7]
      /\ q[8] = {0, 1, 2, 4, 5}
  OBVIOUS
<1> HIDE DEF q
<1>4. /\ Fips!After({3, 5, 6, 7})[7] = q[8]
      /\ \A z : (z \in Constant({3, 5, 6, 7})) <=> Tapped(q, z)
  BY <1>2, ConstantIs
<1>5. \A z : (z \in Constant({3, 5, 6, 7})) <=> z = 1 \/ z = 3 \/ z = 31 \/ z = 63
  BY <1>3, <1>4 DEF Tapped
<1> QED  BY <1>3, <1>4, <1>5

\* Round 20: the register moves on, and the constant is that of the code.
LEMMA Constant20 == Fips!After({0, 1, 2, 4, 5})[7] = {1, 2, 3, 4, 5} /\ Constant({0, 1, 2, 4, 5}) = {0, 7, 15, 31, 63}
<1> DEFINE q == <<{0, 1, 2, 4, 5}, {1, 2, 3, 5, 6}, {2, 3, 4, 6, 7}, {0, 3, 6, 7},
                 {0, 1, 5, 6, 7}, {0, 1, 2, 4, 5, 7}, {0, 1, 2, 3, 4}, {1, 2, 3, 4, 5}>>
<1>1. /\ Fips!Shifted({0, 1, 2, 4, 5}) = {1, 2, 3, 5, 6}
      /\ Fips!Shifted({1, 2, 3, 5, 6}) = {2, 3, 4, 6, 7}
      /\ Fips!Shifted({2, 3, 4, 6, 7}) = {0, 3, 6, 7}
      /\ Fips!Shifted({0, 3, 6, 7}) = {0, 1, 5, 6, 7}
      /\ Fips!Shifted({0, 1, 5, 6, 7}) = {0, 1, 2, 4, 5, 7}
      /\ Fips!Shifted({0, 1, 2, 4, 5, 7}) = {0, 1, 2, 3, 4}
      /\ Fips!Shifted({0, 1, 2, 3, 4}) = {1, 2, 3, 4, 5}
  BY DEF Fips!Shifted
<1>2. q[1] = {0, 1, 2, 4, 5} /\ Follows(q)
  BY <1>1 DEF Follows
<1>3. /\ 0 \in q[1] /\ 0 \notin q[2] /\ 0 \notin q[3] /\ 0 \in q[4] /\ 0 \in q[5] /\ 0 \in q[6] /\ 0 \in q[7]
      /\ q[8] = {1, 2, 3, 4, 5}
  OBVIOUS
<1> HIDE DEF q
<1>4. /\ Fips!After({0, 1, 2, 4, 5})[7] = q[8]
      /\ \A z : (z \in Constant({0, 1, 2, 4, 5})) <=> Tapped(q, z)
  BY <1>2, ConstantIs
<1>5. \A z : (z \in Constant({0, 1, 2, 4, 5})) <=> z = 0 \/ z = 7 \/ z = 15 \/ z = 31 \/ z = 63
  BY <1>3, <1>4 DEF Tapped
<1> QED  BY <1>3, <1>4, <1>5

\* Round 21: the register moves on, and the constant is that of the code.
LEMMA Constant21 == Fips!After({1, 2, 3, 4, 5})[7] = {0, 1, 3} /\ Constant({1, 2, 3, 4, 5}) = {7, 15, 63}
<1> DEFINE q == <<{1, 2, 3, 4, 5}, {2, 3, 4, 5, 6}, {3, 4, 5, 6, 7}, {0, 7},
                 {0, 1, 4, 5, 6}, {1, 2, 5, 6, 7}, {0, 2, 3, 4, 5, 7}, {0, 1, 3}>>
<1>1. /\ Fips!Shifted({1, 2, 3, 4, 5}) = {2, 3, 4, 5, 6}
      /\ Fips!Shifted({2, 3, 4, 5, 6}) = {3, 4, 5, 6, 7}
      /\ Fips!Shifted({3, 4, 5, 6, 7}) = {0, 7}
      /\ Fips!Shifted({0, 7}) = {0, 1, 4, 5, 6}
      /\ Fips!Shifted({0, 1, 4, 5, 6}) = {1, 2, 5, 6, 7}
      /\ Fips!Shifted({1, 2, 5, 6, 7}) = {0, 2, 3, 4, 5, 7}
      /\ Fips!Shifted({0, 2, 3, 4, 5, 7}) = {0, 1, 3}
  BY DEF Fips!Shifted
<1>2. q[1] = {1, 2, 3, 4, 5} /\ Follows(q)
  BY <1>1 DEF Follows
<1>3. /\ 0 \notin q[1] /\ 0 \notin q[2] /\ 0 \notin q[3] /\ 0 \in q[4] /\ 0 \in q[5] /\ 0 \notin q[6] /\ 0 \in q[7]
      /\ q[8] = {0, 1, 3}
  OBVIOUS
<1> HIDE DEF q
<1>4. /\ Fips!After({1, 2, 3, 4, 5})[7] = q[8]
      /\ \A z : (z \in Constant({1, 2, 3, 4, 5})) <=> Tapped(q, z)
  BY <1>2, ConstantIs
<1>5. \A z : (z \in Constant({1, 2, 3, 4, 5})) <=> z = 7 \/ z = 15 \/ z = 63
  BY <1>3, <1>4 DEF Tapped
<1> QED  BY <1>3, <1>4, <1>5

\* Round 22: the register moves on, and the constant is that of the code.
LEMMA Constant22 == Fips!After({0, 1, 3})[7] = {2, 6} /\ Constant({0, 1, 3}) = {0, 31}
<1> DEFINE q == <<{0, 1, 3}, {1, 2, 4}, {2, 3, 5}, {3, 4, 6},
                 {4, 5, 7}, {0, 4}, {1, 5}, {2, 6}>>
<1>1. /\ Fips!Shifted({0, 1, 3}) = {1, 2, 4}
      /\ Fips!Shifted({1, 2, 4}) = {2, 3, 5}
      /\ Fips!Shifted({2, 3, 5}) = {3, 4, 6}
      /\ Fips!Shifted({3, 4, 6}) = {4, 5, 7}
      /\ Fips!Shifted({4, 5, 7}) = {0, 4}
      /\ Fips!Shifted({0, 4}) = {1, 5}
      /\ Fips!Shifted({1, 5}) = {2, 6}
  BY DEF Fips!Shifted
<1>2. q[1] = {0, 1, 3} /\ Follows(q)
  BY <1>1 DEF Follows
<1>3. /\ 0 \in q[1] /\ 0 \notin q[2] /\ 0 \notin q[3] /\ 0 \notin q[4] /\ 0 \notin q[5] /\ 0 \in q[6] /\ 0 \notin q[7]
      /\ q[8] = {2, 6}
  OBVIOUS
<1> HIDE DEF q
<1>4. /\ Fips!After({0, 1, 3})[7] = q[8]
      /\ \A z : (z \in Constant({0, 1, 3})) <=> Tapped(q, z)
  BY <1>2, ConstantIs
<1>5. \A z : (z \in Constant({0, 1, 3})) <=> z = 0 \/ z = 31
  BY <1>3, <1>4 DEF Tapped
<1> QED  BY <1>3, <1>4, <1>5

\* Round 23: the register moves on, and the constant is that of the code.
LEMMA Constant23 == Fips!After({2, 6})[7] = {1, 2, 3, 7} /\ Constant({2, 6}) = {3, 15, 31, 63}
<1> DEFINE q == <<{2, 6}, {3, 7}, {0, 5, 6}, {1, 6, 7},
                 {0, 2, 4, 5, 6, 7}, {0, 1, 3, 4, 7}, {0, 1, 2, 6}, {1, 2, 3, 7}>>
<1>1. /\ Fips!Shifted({2, 6}) = {3, 7}
      /\ Fips!Shifted({3, 7}) = {0, 5, 6}
      /\ Fips!Shifted({0, 5, 6}) = {1, 6, 7}
      /\ Fips!Shifted({1, 6, 7}) = {0, 2, 4, 5, 6, 7}
      /\ Fips!Shifted({0, 2, 4, 5, 6, 7}) = {0, 1, 3, 4, 7}
      /\ Fips!Shifted({0, 1, 3, 4, 7}) = {0, 1, 2, 6}
      /\ Fips!Shifted({0, 1, 2, 6}) = {1, 2, 3, 7}
  BY DEF Fips!Shifted
<1>2. q[1] = {2, 6} /\ Follows(q)
  BY <1>1 DEF Follows
<1>3. /\ 0 \notin q[1] /\ 0 \notin q[2] /\ 0 \in q[3] /\ 0 \notin q[4] /\ 0 \in q[5] /\ 0 \in q[6] /\ 0 \in q[7]
      /\ q[8] = {1, 2, 3, 7}
  OBVIOUS
<1> HIDE DEF q
<1>4. /\ Fips!After({2, 6})[7] = q[8]
      /\ \A z : (z \in Constant({2, 6})) <=> Tapped(q, z)
  BY <1>2, ConstantIs
<1>5. \A z : (z \in Constant({2, 6})) <=> z = 3 \/ z = 15 \/ z = 31 \/ z = 63
  BY <1>3, <1>4 DEF Tapped
<1> QED  BY <1>3, <1>4, <1>5

\* The register at the start of each round.
Heads ==
  << {0}, {7}, {3, 4, 6, 7}, {1, 3, 4}, {0, 1, 2, 3, 4, 6, 7}, {0, 3},
     {0, 2, 4, 5}, {0, 1, 2, 3, 6}, {1, 3, 6, 7}, {4, 5, 6}, {0, 6}, {2, 3, 5, 6, 7},
     {0, 2, 4, 6, 7}, {0, 2, 3, 6, 7}, {0, 1, 5, 6}, {0, 1, 3, 5, 7}, {1, 3, 5, 7}, {1, 3, 5},
     {1, 4, 5, 6, 7}, {3, 5, 6, 7}, {0, 1, 2, 4, 5}, {1, 2, 3, 4, 5}, {0, 1, 3}, {2, 6} >>

\* Each is seven shifts after the one before it.
LEMMA HeadStep ==
  ASSUME NEW m \in 1..23
  PROVE  Heads[m + 1] = Fips!After(Heads[m])[7]
<1>1. CASE m = 1
  BY <1>1, Constant0 DEF Heads
<1>2. CASE m = 2
  BY <1>2, Constant1 DEF Heads
<1>3. CASE m = 3
  BY <1>3, Constant2 DEF Heads
<1>4. CASE m = 4
  BY <1>4, Constant3 DEF Heads
<1>5. CASE m = 5
  BY <1>5, Constant4 DEF Heads
<1>6. CASE m = 6
  BY <1>6, Constant5 DEF Heads
<1>7. CASE m = 7
  BY <1>7, Constant6 DEF Heads
<1>8. CASE m = 8
  BY <1>8, Constant7 DEF Heads
<1>9. CASE m = 9
  BY <1>9, Constant8 DEF Heads
<1>10. CASE m = 10
  BY <1>10, Constant9 DEF Heads
<1>11. CASE m = 11
  BY <1>11, Constant10 DEF Heads
<1>12. CASE m = 12
  BY <1>12, Constant11 DEF Heads
<1>13. CASE m = 13
  BY <1>13, Constant12 DEF Heads
<1>14. CASE m = 14
  BY <1>14, Constant13 DEF Heads
<1>15. CASE m = 15
  BY <1>15, Constant14 DEF Heads
<1>16. CASE m = 16
  BY <1>16, Constant15 DEF Heads
<1>17. CASE m = 17
  BY <1>17, Constant16 DEF Heads
<1>18. CASE m = 18
  BY <1>18, Constant17 DEF Heads
<1>19. CASE m = 19
  BY <1>19, Constant18 DEF Heads
<1>20. CASE m = 20
  BY <1>20, Constant19 DEF Heads
<1>21. CASE m = 21
  BY <1>21, Constant20 DEF Heads
<1>22. CASE m = 22
  BY <1>22, Constant21 DEF Heads
<1>23. CASE m = 23
  BY <1>23, Constant22 DEF Heads
<1> QED  BY <1>1, <1>2, <1>3, <1>4, <1>5, <1>6, <1>7, <1>8, <1>9, <1>10, <1>11, <1>12, <1>13, <1>14, <1>15, <1>16, <1>17, <1>18, <1>19, <1>20, <1>21, <1>22, <1>23

\* The register of the standard goes through the heads.
LEMMA RegisterIs == \A m \in 0..23 : Fips!Register[m] = Heads[m + 1]
<1> DEFINE Onward(p) == UNION {Fips!After(r)[7] : r \in {p}}
           Is(f) == f = [m \in 0..23 |-> IF m = 0 THEN {0} ELSE Onward(f[m - 1])]
           g == [m \in 0..23 |-> Heads[m + 1]]
<1>0. ASSUME NEW p PROVE Onward(p) = Fips!After(p)[7]
  OBVIOUS
<1> HIDE DEF Onward
<1>1. Heads[1] = {0}
  BY DEF Heads
<1>2. ASSUME NEW m \in 0..23
      PROVE  g[m] = IF m = 0 THEN {0} ELSE Onward(g[m - 1])
  <2>1. CASE m = 0
    BY <1>1, <2>1
  <2>2. CASE m \in 1..23
    <3>1. g[m] = Heads[m + 1] /\ g[m - 1] = Heads[m]
      BY <2>2
    <3>2. Heads[m + 1] = Fips!After(Heads[m])[7]
      BY <2>2, HeadStep
    <3> HIDE DEF g
    <3> QED  BY <1>0, <2>2, <3>1, <3>2
  <2> QED  BY <2>1, <2>2
<1>3. Is(g)
  BY <1>2
<1>4. Fips!Register = CHOOSE f : Is(f)
  BY DEF Fips!Register, Onward
<1>5. Is(Fips!Register)
  <2> HIDE DEF Is
  <2> QED  BY <1>3, <1>4
<1>6. /\ Fips!Register[0] = {0}
      /\ \A m \in 1..23 : Fips!Register[m] = Onward(Fips!Register[m - 1])
  BY <1>5
<1>7. ASSUME NEW m \in 1..23 PROVE Fips!Register[m] = Fips!After(Fips!Register[m - 1])[7]
  BY <1>0, <1>6
<1> HIDE DEF Is, g
<1> DEFINE T == {m \in 0..23 : Fips!Register[m] = Heads[m + 1]}
<1>8. 0 \in T
  BY <1>1, <1>6
<1>9. ASSUME NEW m \in 0..23 - 1, m \in T PROVE m + 1 \in T
  <2>1. m + 1 \in 1..23 /\ (m + 1) - 1 = m
    OBVIOUS
  <2>2. Fips!Register[m + 1] = Fips!After(Heads[m + 1])[7]
    BY <1>7, <1>9, <2>1
  <2>3. Heads[(m + 1) + 1] = Fips!After(Heads[m + 1])[7]
    BY <2>1, HeadStep
  <2> QED  BY <2>1, <2>2, <2>3
<1>10. 0..23 \subseteq T
  <2> HIDE DEF T
  <2> QED  BY <1>8, <1>9, UpTo
<1> QED  BY <1>10

\* The standard's constants are those of the code.
LEMMA ConstantsAre ==
  ASSUME NEW m \in 0..23
  PROVE  Fips!RC[m] = KeccakF_RoundConstants[m + 1] /\ Fips!RC[m] \in Lane
<1>1. Fips!RC[m] = Constant(Heads[m + 1])
  <2>1. Fips!RC[m] = {2^j - 1 : j \in {k \in 0..6 : 0 \in Fips!After(Fips!Register[m])[k]}}
    BY DEF Fips!RC
  <2>2. Fips!Register[m] = Heads[m + 1]
    BY RegisterIs
  <2> QED  BY <2>1, <2>2 DEF Constant
<1>2. Constant(Heads[m + 1]) = KeccakF_RoundConstants[m + 1]
  <2>0. CASE m = 0
    BY <2>0, Constant0 DEF Heads, KeccakF_RoundConstants
  <2>1. CASE m = 1
    BY <2>1, Constant1 DEF Heads, KeccakF_RoundConstants
  <2>2. CASE m = 2
    BY <2>2, Constant2 DEF Heads, KeccakF_RoundConstants
  <2>3. CASE m = 3
    BY <2>3, Constant3 DEF Heads, KeccakF_RoundConstants
  <2>4. CASE m = 4
    BY <2>4, Constant4 DEF Heads, KeccakF_RoundConstants
  <2>5. CASE m = 5
    BY <2>5, Constant5 DEF Heads, KeccakF_RoundConstants
  <2>6. CASE m = 6
    BY <2>6, Constant6 DEF Heads, KeccakF_RoundConstants
  <2>7. CASE m = 7
    BY <2>7, Constant7 DEF Heads, KeccakF_RoundConstants
  <2>8. CASE m = 8
    BY <2>8, Constant8 DEF Heads, KeccakF_RoundConstants
  <2>9. CASE m = 9
    BY <2>9, Constant9 DEF Heads, KeccakF_RoundConstants
  <2>10. CASE m = 10
    BY <2>10, Constant10 DEF Heads, KeccakF_RoundConstants
  <2>11. CASE m = 11
    BY <2>11, Constant11 DEF Heads, KeccakF_RoundConstants
  <2>12. CASE m = 12
    BY <2>12, Constant12 DEF Heads, KeccakF_RoundConstants
  <2>13. CASE m = 13
    BY <2>13, Constant13 DEF Heads, KeccakF_RoundConstants
  <2>14. CASE m = 14
    BY <2>14, Constant14 DEF Heads, KeccakF_RoundConstants
  <2>15. CASE m = 15
    BY <2>15, Constant15 DEF Heads, KeccakF_RoundConstants
  <2>16. CASE m = 16
    BY <2>16, Constant16 DEF Heads, KeccakF_RoundConstants
  <2>17. CASE m = 17
    BY <2>17, Constant17 DEF Heads, KeccakF_RoundConstants
  <2>18. CASE m = 18
    BY <2>18, Constant18 DEF Heads, KeccakF_RoundConstants
  <2>19. CASE m = 19
    BY <2>19, Constant19 DEF Heads, KeccakF_RoundConstants
  <2>20. CASE m = 20
    BY <2>20, Constant20 DEF Heads, KeccakF_RoundConstants
  <2>21. CASE m = 21
    BY <2>21, Constant21 DEF Heads, KeccakF_RoundConstants
  <2>22. CASE m = 22
    BY <2>22, Constant22 DEF Heads, KeccakF_RoundConstants
  <2>23. CASE m = 23
    BY <2>23, Constant23 DEF Heads, KeccakF_RoundConstants
  <2> QED  BY <2>0, <2>1, <2>2, <2>3, <2>4, <2>5, <2>6, <2>7, <2>8, <2>9, <2>10, <2>11, <2>12, <2>13, <2>14, <2>15, <2>16, <2>17, <2>18, <2>19, <2>20, <2>21, <2>22, <2>23
<1>3. KeccakF_RoundConstants[m + 1] \in Lane
  BY DEF KeccakF_RoundConstants, Lane
<1> QED  BY <1>1, <1>2, <1>3

----------------------------------------------------------------------------
(* Bytes.                                                                  *)

\* The byte with given bits, bit by bit.
LEMMA ByteIs ==
  ASSUME NEW a
  PROVE  /\ Byte(a) \in 0..255
         /\ \A b \in 0..7 : Fips!BitOf(Byte(a), b) <=> b \in a
<1> DEFINE f == [b \in 0..7 |-> IF b \in a THEN 2^b ELSE 0]
<1>1. /\ 2^0 = 1 /\ 2^1 = 2 /\ 2^2 = 4 /\ 2^3 = 8 /\ 2^4 = 16 /\ 2^5 = 32 /\ 2^6 = 64 /\ 2^7 = 128
  OBVIOUS
<1>2. /\ f[0] = (IF 0 \in a THEN 1 ELSE 0)  /\ f[1] = (IF 1 \in a THEN 2 ELSE 0)
      /\ f[2] = (IF 2 \in a THEN 4 ELSE 0)  /\ f[3] = (IF 3 \in a THEN 8 ELSE 0)
      /\ f[4] = (IF 4 \in a THEN 16 ELSE 0) /\ f[5] = (IF 5 \in a THEN 32 ELSE 0)
      /\ f[6] = (IF 6 \in a THEN 64 ELSE 0) /\ f[7] = (IF 7 \in a THEN 128 ELSE 0)
  BY <1>1
<1>3. Byte(a) = SumTo(f, 8)
  BY DEF Byte
<1> HIDE DEF f
<1>4. f \in Summands(8)
  BY DEF Summands, f
<1>5. SumTo(f, 0) = 0 /\ \A n \in 0..7 : SumTo(f, n + 1) = SumTo(f, n) + f[n]
  BY <1>4, SumFacts
<1>6. /\ SumTo(f, 1) = SumTo(f, 0) + f[0] /\ SumTo(f, 2) = SumTo(f, 1) + f[1]
      /\ SumTo(f, 3) = SumTo(f, 2) + f[2] /\ SumTo(f, 4) = SumTo(f, 3) + f[3]
      /\ SumTo(f, 5) = SumTo(f, 4) + f[4] /\ SumTo(f, 6) = SumTo(f, 5) + f[5]
      /\ SumTo(f, 7) = SumTo(f, 6) + f[6] /\ SumTo(f, 8) = SumTo(f, 7) + f[7]
  BY <1>5
<1>8. Byte(a) = f[0] + f[1] + f[2] + f[3] + f[4] + f[5] + f[6] + f[7]
  BY <1>2, <1>3, <1>5, <1>6
<1>9. Byte(a) \in 0..255
  BY <1>2, <1>8
<1>10. ASSUME NEW b \in 0..7 PROVE ((Byte(a) \div 2^b) % 2 = 1) <=> b \in a
  <2>0. (Byte(a) % 2 = 1) <=> 0 \in a
    BY <1>2, <1>8
  <2>1. ((Byte(a) \div 2) % 2 = 1) <=> 1 \in a
    BY <1>2, <1>8
  <2>2. ((Byte(a) \div 4) % 2 = 1) <=> 2 \in a
    BY <1>2, <1>8
  <2>3. ((Byte(a) \div 8) % 2 = 1) <=> 3 \in a
    BY <1>2, <1>8
  <2>4. ((Byte(a) \div 16) % 2 = 1) <=> 4 \in a
    BY <1>2, <1>8
  <2>5. ((Byte(a) \div 32) % 2 = 1) <=> 5 \in a
    BY <1>2, <1>8
  <2>6. ((Byte(a) \div 64) % 2 = 1) <=> 6 \in a
    BY <1>2, <1>8
  <2>7. ((Byte(a) \div 128) % 2 = 1) <=> 7 \in a
    BY <1>2, <1>8
  <2>8. Byte(a) \div 1 = Byte(a)
    BY <1>9
  <2>9. CASE b = 0
    BY <1>1, <2>0, <2>8, <2>9
  <2>10. CASE b = 1
    BY <1>1, <2>1, <2>10
  <2>11. CASE b = 2
    BY <1>1, <2>2, <2>11
  <2>12. CASE b = 3
    BY <1>1, <2>3, <2>12
  <2>13. CASE b = 4
    BY <1>1, <2>4, <2>13
  <2>14. CASE b = 5
    BY <1>1, <2>5, <2>14
  <2>15. CASE b = 6
    BY <1>1, <2>6, <2>15
  <2>16. CASE b = 7
    BY <1>1, <2>7, <2>16
  <2> QED  BY <2>9, <2>10, <2>11, <2>12, <2>13, <2>14, <2>15, <2>16
<1> QED  BY <1>9, <1>10 DEF Fips!BitOf

\* The bits of a byte that is shifted to its place in a lane, and of one that is shifted out.
LEMMA ShlWord ==
  ASSUME NEW byte, NEW k \in 0..7, NEW z \in 0..63
  PROVE  (z \in Shl(Word(byte), 8 * k)) <=> (k = z \div 8 /\ Fips!BitOf(byte, z % 8))
<1>1. (z \in Shl(Word(byte), 8 * k)) <=> \E b \in 0..7 : Fips!BitOf(byte, b) /\ b + 8 * k < 64 /\ z = b + 8 * k
  BY DEF Shl, Word, Fips!BitOf
<1>2. ASSUME NEW b \in 0..7 PROVE (b + 8 * k < 64 /\ z = b + 8 * k) <=> (k = z \div 8 /\ b = z % 8)
  OBVIOUS
<1>3. z % 8 \in 0..7
  OBVIOUS
<1> QED  BY <1>1, <1>2, <1>3

\* A bit of a lane that is shifted down by whole bytes.
LEMMA ShrLane ==
  ASSUME NEW p \in Lane, NEW k \in 0..7, NEW b \in 0..7
  PROVE  (b \in Shr(p, 8 * k)) <=> (8 * k + b \in p)
<1>1. p \subseteq 0..63
  BY DEF Lane
<1>2. (b \in Shr(p, 8 * k)) <=> \E c \in p : c >= 8 * k /\ b = c - 8 * k
  BY DEF Shr
<1>3. ASSUME NEW c \in p PROVE (c >= 8 * k /\ b = c - 8 * k) <=> c = 8 * k + b
  BY <1>1
<1> QED  BY <1>2, <1>3

\* The bits of lane l that a byte string put at byte at has.
StringLane(at, bytes, l) ==
  {z \in 0..63 : /\ 8 * l + (z \div 8) \in at..at + Len(bytes) - 1
                 /\ Fips!BitOf(bytes[8 * l + (z \div 8) - at + 1], z % 8)}

\* They are the standard's bits of the string.
LEMMA StringBits ==
  ASSUME NEW at \in Nat, NEW bytes \in ByteString, at + Len(bytes) <= 200
  PROVE  /\ Fips!Bits(at, bytes) \in BitString
         /\ \A l \in 0..24, z \in 0..63 : (64 * l + z \in Fips!Bits(at, bytes)) <=> (z \in StringLane(at, bytes, l))
<1>0. PICK n \in Nat : n = Len(bytes)
  BY DEF ByteString
<1>1. Fips!Bits(at, bytes)
        = {j \in 8 * at..8 * (at + Len(bytes)) - 1 : Fips!BitOf(bytes[(j \div 8) - at + 1], j % 8)}
  BY DEF Fips!Bits
<1>2. \A j \in 8 * at..8 * (at + n) - 1 : j \in BitNumbers
  BY <1>0 DEF BitNumbers
<1>3. Fips!Bits(at, bytes) \in BitString
  BY <1>0, <1>1, <1>2 DEF BitString
<1>4. ASSUME NEW l \in 0..24, NEW z \in 0..63
      PROVE  (64 * l + z \in Fips!Bits(at, bytes)) <=> (z \in StringLane(at, bytes, l))
  <2>1. (64 * l + z) \div 8 = 8 * l + (z \div 8) /\ (64 * l + z) % 8 = z % 8
    OBVIOUS
  <2>2. (64 * l + z \in 8 * at..8 * (at + n) - 1) <=> (8 * l + (z \div 8) \in at..at + n - 1)
    OBVIOUS
  <2> QED  BY <1>0, <1>1, <2>1, <2>2 DEF StringLane
<1>5. \A l \in 0..24 : \A z \in 0..63 : (64 * l + z \in Fips!Bits(at, bytes)) <=> (z \in StringLane(at, bytes, l))
  BY <1>4
<1> QED  BY <1>3, <1>5

\* XOR of two strings.
Plus(P, Q) == (P \ Q) \cup (Q \ P)

Differs(s, t, Q) == \A l \in 0..24, z \in 0..63 : (z \in t[l]) <=> ((z \in s[l]) # (64 * l + z \in Q))

\* Lanes into which a string is XORed bit by bit hold the XOR of the strings.
LEMMA PlusIs ==
  ASSUME NEW s \in LaneState, NEW t \in LaneState, NEW Q \in BitString, Differs(s, t, Q)
  PROVE  BitsOf(t) = Plus(BitsOf(s), Q)
<1>1. BitsOf(t) \in BitString /\ BitsOf(s) \in BitString
  BY BitIn
<1>2. Plus(BitsOf(s), Q) \in BitString
  <2>1. \A j \in Plus(BitsOf(s), Q) : j \in BitsOf(s) \/ j \in Q
    BY DEF Plus
  <2> QED  BY <1>1, <2>1 DEF BitString
<1>3. ASSUME NEW l \in 0..24, NEW z \in 0..63
      PROVE  (64 * l + z \in BitsOf(t)) <=> (64 * l + z \in Plus(BitsOf(s), Q))
  <2>1. (64 * l + z \in BitsOf(t)) <=> (z \in t[l])
    BY BitIn
  <2>2. (64 * l + z \in BitsOf(s)) <=> (z \in s[l])
    BY BitIn
  <2>0. (z \in t[l]) <=> ((z \in s[l]) # (64 * l + z \in Q))
    BY DEF Differs
  <2>3. (64 * l + z \in Plus(BitsOf(s), Q)) <=> ((64 * l + z \in BitsOf(s)) # (64 * l + z \in Q))
    BY DEF Plus
  <2> QED  BY <2>0, <2>1, <2>2, <2>3
<1>4. SameBits(BitsOf(t), Plus(BitsOf(s), Q))
  BY <1>3 DEF SameBits
<1> QED  BY <1>1, <1>2, <1>4, SameString

\* Bytes XORed one by one.
LEMMA XorIntoIs ==
  ASSUME NEW s \in LaneState, NEW at \in Nat, NEW bytes \in ByteString, at + Len(bytes) <= 200
  PROVE  /\ XorIntoLanes(s, at, bytes) \in LaneState
         /\ \A l \in 0..24, z \in 0..63 :
              (z \in XorIntoLanes(s, at, bytes)[l]) <=> ((z \in s[l]) # (z \in StringLane(at, bytes, l)))
<1> DEFINE Mine(l) == {n \in at..at + Len(bytes) - 1 : n \div 8 = l}
           Added(l) == UNION {Shl(Word(bytes[n - at + 1]), 8 * (n % 8)) : n \in Mine(l)}
           t == XorIntoLanes(s, at, bytes)
<1>0. Len(bytes) \in Nat
  BY DEF ByteString
<1>1. t = [l \in 0..24 |-> XorLanes(s[l], Added(l))]
  BY DEF XorIntoLanes, Lanes
<1>2. ASSUME NEW l \in 0..24, NEW z \in 0..63
      PROVE  (z \in Added(l)) <=> (z \in StringLane(at, bytes, l))
  <2>1. (z \in Added(l)) <=> \E n \in Mine(l) : z \in Shl(Word(bytes[n - at + 1]), 8 * (n % 8))
    OBVIOUS
  <2>2. ASSUME NEW n \in Mine(l)
        PROVE  (z \in Shl(Word(bytes[n - at + 1]), 8 * (n % 8)))
                 <=> (n = 8 * l + (z \div 8) /\ Fips!BitOf(bytes[n - at + 1], z % 8))
    <3>1. n \in Nat /\ n \div 8 = l
      BY <1>0
    <3>2. PICK k \in 0..7 : k = n % 8
      BY <3>1
    <3>3. (z \in Shl(Word(bytes[n - at + 1]), 8 * k)) <=> (k = z \div 8 /\ Fips!BitOf(bytes[n - at + 1], z % 8))
      BY ShlWord
    <3>4. (k = z \div 8) <=> (n = 8 * l + (z \div 8))
      BY <3>1, <3>2
    <3> QED  BY <3>2, <3>3, <3>4
  <2>3. (8 * l + (z \div 8) \in Mine(l)) <=> (8 * l + (z \div 8) \in at..at + Len(bytes) - 1)
    BY <1>0
  <2> HIDE DEF Mine, Added
  <2> QED  BY <2>1, <2>2, <2>3 DEF StringLane
<1>3. t \in LaneState
  <2>1. ASSUME NEW l \in 0..24 PROVE XorLanes(s[l], Added(l)) \in Lane
    <3> HIDE DEF Added
    <3> QED  BY XorIs
  <2> HIDE DEF Added, t
  <2> QED  BY <1>1, <2>1 DEF LaneState
<1>4. ASSUME NEW l \in 0..24, NEW z \in 0..63
      PROVE  (z \in t[l]) <=> ((z \in s[l]) # (z \in StringLane(at, bytes, l)))
  <2>1. t[l] = XorLanes(s[l], Added(l))
    BY <1>1
  <2>2. PICK a : a = Added(l)
    OBVIOUS
  <2> HIDE DEF Added, t
  <2>3. (z \in t[l]) <=> ((z \in s[l]) # (z \in a))
    <3>1. (z \in XorLanes(s[l], a)) <=> ((z \in s[l]) # (z \in a))
      BY DEF XorLanes
    <3>2. t[l] = XorLanes(s[l], a)
      BY <2>1, <2>2
    <3> QED  BY <3>1, <3>2
  <2>4. (z \in a) <=> (z \in StringLane(at, bytes, l))
    BY <1>2, <2>2
  <2> QED  BY <2>3, <2>4
<1>5. \A l \in 0..24 : \A z \in 0..63 : (z \in t[l]) <=> ((z \in s[l]) # (z \in StringLane(at, bytes, l)))
  BY <1>4
<1> QED  BY <1>3, <1>5

\* A call of keccak_absorb.
LEMMA AbsorbIs ==
  ASSUME NEW s \in LaneState, NEW at \in Nat, NEW bytes \in ByteString, at + Len(bytes) <= 200
  PROVE  /\ XorIntoLanes(s, at, bytes) \in LaneState
         /\ BitsOf(XorIntoLanes(s, at, bytes)) = Plus(BitsOf(s), Fips!Bits(at, bytes))
<1>1. PICK t \in LaneState :
        /\ t = XorIntoLanes(s, at, bytes)
        /\ \A l \in 0..24, z \in 0..63 : (z \in t[l]) <=> ((z \in s[l]) # (z \in StringLane(at, bytes, l)))
  BY XorIntoIs
<1>2. PICK Q \in BitString :
        /\ Q = Fips!Bits(at, bytes)
        /\ \A l \in 0..24, z \in 0..63 : (64 * l + z \in Q) <=> (z \in StringLane(at, bytes, l))
  BY StringBits
<1>3. Differs(s, t, Q)
  <2> SUFFICES ASSUME NEW l \in 0..24, NEW z \in 0..63
               PROVE  (z \in t[l]) <=> ((z \in s[l]) # (64 * l + z \in Q))
    BY DEF Differs
  <2>1. (z \in t[l]) <=> ((z \in s[l]) # (z \in StringLane(at, bytes, l)))
    BY <1>1
  <2>2. (64 * l + z \in Q) <=> (z \in StringLane(at, bytes, l))
    BY <1>2
  <2> QED  BY <2>1, <2>2
<1>4. BitsOf(t) = Plus(BitsOf(s), Q)
  BY <1>3, PlusIs
<1> QED  BY <1>1, <1>2, <1>4

\* A lane that is loaded from eight bytes.
LEMMA LoadIs ==
  ASSUME NEW x, NEW z \in 0..63
  PROVE  (z \in load64(x)) <=> Fips!BitOf(x[(z \div 8) + 1], z % 8)
<1>1. (z \in load64(x)) <=> \E n \in 0..7 : z \in Shl(Word(x[n + 1]), 8 * n)
  BY DEF load64
<1>2. ASSUME NEW n \in 0..7
      PROVE  (z \in Shl(Word(x[n + 1]), 8 * n)) <=> (n = z \div 8 /\ Fips!BitOf(x[n + 1], z % 8))
  BY ShlWord
<1>3. z \div 8 \in 0..7
  OBVIOUS
<1> QED  BY <1>1, <1>2, <1>3

Loaded(s, bytes) ==
  [l \in Lanes |-> IF 8 * l >= Len(bytes) THEN s[l]
                   ELSE XorLanes(s[l], load64(SubSeq(bytes, 8 * l + 1, 8 * l + 8)))]

\* A block of keccak_absorb_once.
LEMMA LoadedIs ==
  ASSUME NEW s \in LaneState, NEW bytes \in ByteString, Len(bytes) <= 200, Len(bytes) % 8 = 0
  PROVE  /\ Loaded(s, bytes) \in LaneState
         /\ BitsOf(Loaded(s, bytes)) = Plus(BitsOf(s), Fips!Bits(0, bytes))
<1> DEFINE word(l) == load64(SubSeq(bytes, 8 * l + 1, 8 * l + 8))
<1>0. PICK n \in Nat : n = Len(bytes) /\ n <= 200 /\ n % 8 = 0
  BY DEF ByteString
<1>1. PICK t : t = Loaded(s, bytes)
  OBVIOUS
<1>2. t = [l \in 0..24 |-> IF 8 * l >= n THEN s[l] ELSE XorLanes(s[l], word(l))]
  BY <1>0, <1>1 DEF Loaded, Lanes
<1>3. t \in LaneState
  <2>1. ASSUME NEW l \in 0..24 PROVE t[l] \in Lane
    <3>1. s[l] \in Lane /\ XorLanes(s[l], word(l)) \in Lane
      BY XorIs DEF LaneState
    <3> HIDE DEF word
    <3> QED  BY <1>2, <3>1
  <2> HIDE DEF word
  <2> QED  BY <1>2, <2>1 DEF LaneState
<1>4. ASSUME NEW l \in 0..24, NEW z \in 0..63, 8 * l < n
      PROVE  (z \in word(l)) <=> Fips!BitOf(bytes[8 * l + (z \div 8) + 1], z % 8)
  <2>1. 8 * l + 8 <= n
    BY <1>0, <1>4
  <2>2. z \div 8 \in 0..7
    OBVIOUS
  <2>3. SubSeq(bytes, 8 * l + 1, 8 * l + 8)[(z \div 8) + 1] = bytes[8 * l + (z \div 8) + 1]
    BY <1>0, <2>1, <2>2 DEF ByteString
  <2>4. (z \in word(l)) <=> Fips!BitOf(SubSeq(bytes, 8 * l + 1, 8 * l + 8)[(z \div 8) + 1], z % 8)
    BY LoadIs
  <2> QED  BY <2>3, <2>4
<1>5. PICK Q \in BitString :
        /\ Q = Fips!Bits(0, bytes)
        /\ \A l \in 0..24, z \in 0..63 : (64 * l + z \in Q) <=> (z \in StringLane(0, bytes, l))
  BY <1>0, StringBits
<1>6. ASSUME NEW l \in 0..24, NEW z \in 0..63
      PROVE  (z \in t[l]) <=> ((z \in s[l]) # (64 * l + z \in Q))
  <2>1. (64 * l + z \in Q)
          <=> (8 * l + (z \div 8) \in 0..n - 1 /\ Fips!BitOf(bytes[8 * l + (z \div 8) + 1], z % 8))
    <3>1. (8 * l + (z \div 8)) - 0 = 8 * l + (z \div 8) /\ 0 + n = n
      BY <1>0
    <3>2. (64 * l + z \in Q) <=> (z \in StringLane(0, bytes, l))
      BY <1>5
    <3>3. (z \in StringLane(0, bytes, l))
            <=> (/\ 8 * l + (z \div 8) \in 0..0 + n - 1
                 /\ Fips!BitOf(bytes[(8 * l + (z \div 8)) - 0 + 1], z % 8))
      BY <1>0 DEF StringLane
    <3> QED  BY <3>1, <3>2, <3>3
  <2>2. CASE 8 * l >= n
    <3>1. 8 * l + (z \div 8) \notin 0..n - 1
      BY <2>2
    <3> HIDE DEF word
    <3>2. t[l] = s[l]
      BY <1>2, <2>2
    <3> QED  BY <2>1, <3>1, <3>2
  <2>3. CASE ~(8 * l >= n)
    <3>1. 8 * l + (z \div 8) \in 0..n - 1
      BY <1>0, <2>3
    <3>2. (64 * l + z \in Q) <=> (z \in word(l))
      <4>1. 8 * l < n
        BY <1>0, <2>3
      <4>2. (z \in word(l)) <=> Fips!BitOf(bytes[8 * l + (z \div 8) + 1], z % 8)
        BY <1>4, <4>1
      <4> HIDE DEF word
      <4> QED  BY <2>1, <3>1, <4>2
    <3>3. t[l] = XorLanes(s[l], word(l))
      BY <1>2, <2>3
    <3>4. PICK w : w = word(l)
      OBVIOUS
    <3> HIDE DEF word
    <3>5. (z \in XorLanes(s[l], w)) <=> ((z \in s[l]) # (z \in w))
      BY DEF XorLanes
    <3> QED  BY <3>2, <3>3, <3>4, <3>5
  <2> QED  BY <2>2, <2>3
<1>7. Differs(s, t, Q)
  BY <1>6 DEF Differs
<1>8. BitsOf(t) = Plus(BitsOf(s), Q)
  BY <1>3, <1>7, PlusIs
<1> QED  BY <1>1, <1>3, <1>5, <1>8

Finished(s, pos_, r, p) == [XorIntoLanes(s, pos_, <<p>>) EXCEPT ![r \div 8 - 1] = XorLanes(@, {63})]

\* The last bit of a block.
LEMMA LastBitIs ==
  ASSUME NEW r \in 1..200, r % 8 = 0, NEW l \in 0..24, NEW z \in 0..63
  PROVE  (z \in StringLane(r - 1, <<128>>, l)) <=> (l = r \div 8 - 1 /\ z = 63)
<1>1. Len(<<128>>) = 1 /\ <<128>>[1] = 128
  OBVIOUS
<1>2. (z \in StringLane(r - 1, <<128>>, l))
        <=> (8 * l + (z \div 8) = r - 1 /\ Fips!BitOf(<<128>>[8 * l + (z \div 8) - (r - 1) + 1], z % 8))
  BY <1>1 DEF StringLane
<1>3. ASSUME 8 * l + (z \div 8) = r - 1 PROVE 8 * l + (z \div 8) - (r - 1) + 1 = 1
  BY <1>3
<1>4. ASSUME NEW b \in 0..7 PROVE Fips!BitOf(128, b) <=> b = 7
  <2>1. /\ 2^0 = 1 /\ 2^1 = 2 /\ 2^2 = 4 /\ 2^3 = 8 /\ 2^4 = 16 /\ 2^5 = 32 /\ 2^6 = 64 /\ 2^7 = 128
    OBVIOUS
  <2>2. CASE b = 0
    BY <2>1, <2>2 DEF Fips!BitOf
  <2>3. CASE b = 1
    BY <2>1, <2>3 DEF Fips!BitOf
  <2>4. CASE b = 2
    BY <2>1, <2>4 DEF Fips!BitOf
  <2>5. CASE b = 3
    BY <2>1, <2>5 DEF Fips!BitOf
  <2>6. CASE b = 4
    BY <2>1, <2>6 DEF Fips!BitOf
  <2>7. CASE b = 5
    BY <2>1, <2>7 DEF Fips!BitOf
  <2>8. CASE b = 6
    BY <2>1, <2>8 DEF Fips!BitOf
  <2>9. CASE b = 7
    BY <2>1, <2>9 DEF Fips!BitOf
  <2> QED  BY <2>2, <2>3, <2>4, <2>5, <2>6, <2>7, <2>8, <2>9
<1>5. z % 8 \in 0..7
  OBVIOUS
<1>6. (8 * l + (z \div 8) = r - 1 /\ z % 8 = 7) <=> (l = r \div 8 - 1 /\ z = 63)
  OBVIOUS
<1> QED  BY <1>1, <1>2, <1>3, <1>4, <1>5, <1>6

IsEnd(q, r, p) == r \in 1..200 /\ r % 8 = 0 /\ q \in 0..r - 1 /\ p \in 0..127

\* A call of keccak_finalize.
LEMMA FinishedIs ==
  ASSUME NEW s \in LaneState, NEW q, NEW r, NEW p, IsEnd(q, r, p)
  PROVE  /\ Finished(s, q, r, p) \in LaneState
         /\ BitsOf(Finished(s, q, r, p)) = Plus(BitsOf(s), Fips!Bits(q, <<p>>) \cup Fips!Bits(r - 1, <<128>>))
<1> USE DEF IsEnd
<1>0. /\ <<p>> \in ByteString /\ <<128>> \in ByteString /\ Len(<<p>>) = 1 /\ Len(<<128>>) = 1
      /\ q + 1 <= 200 /\ (r - 1) + 1 <= 200 /\ q \in Nat /\ r - 1 \in Nat
  BY DEF ByteString
<1>1. PICK t \in LaneState :
        /\ t = XorIntoLanes(s, q, <<p>>)
        /\ \A l \in 0..24, z \in 0..63 : (z \in t[l]) <=> ((z \in s[l]) # (z \in StringLane(q, <<p>>, l)))
  <2>1. PICK y : y = <<p>> /\ y \in ByteString /\ q + Len(y) <= 200
    BY <1>0
  <2>2. PICK t \in LaneState :
          /\ t = XorIntoLanes(s, q, y)
          /\ \A l \in 0..24, z \in 0..63 : (z \in t[l]) <=> ((z \in s[l]) # (z \in StringLane(q, y, l)))
    <3>1. y \in ByteString /\ q + Len(y) <= 200 /\ q \in Nat
      BY <1>0, <2>1
    <3> QED  BY <3>1, XorIntoIs
  <2> QED  BY <2>1, <2>2
<1>2. PICK P \in BitString :
        /\ P = Fips!Bits(q, <<p>>)
        /\ \A l \in 0..24, z \in 0..63 : (64 * l + z \in P) <=> (z \in StringLane(q, <<p>>, l))
  BY <1>0, StringBits
<1>3. PICK Q \in BitString :
        /\ Q = Fips!Bits(r - 1, <<128>>)
        /\ \A l \in 0..24, z \in 0..63 : (64 * l + z \in Q) <=> (z \in StringLane(r - 1, <<128>>, l))
  BY <1>0, StringBits
<1>4. ASSUME NEW l \in 0..24 PROVE 63 \notin StringLane(q, <<p>>, l)
  <2>1. 2^7 = 128 /\ p \div 128 = 0 /\ 63 % 8 = 7
    OBVIOUS
  <2>2. ~Fips!BitOf(p, 7)
    BY <2>1 DEF Fips!BitOf
  <2>3. (63 \in StringLane(q, <<p>>, l))
          <=> (8 * l + (63 \div 8) = q /\ Fips!BitOf(<<p>>[8 * l + (63 \div 8) - q + 1], 63 % 8))
    BY <1>0 DEF StringLane
  <2>4. 8 * l + (63 \div 8) = q => <<p>>[8 * l + (63 \div 8) - q + 1] = p
    OBVIOUS
  <2> QED  BY <2>1, <2>2, <2>3, <2>4
<1>5. PICK m \in 0..24 : m = r \div 8 - 1
  OBVIOUS
<1>6. PICK u : u = Finished(s, q, r, p)
  OBVIOUS
<1>7. u = [t EXCEPT ![m] = XorLanes(@, {63})]
  BY <1>1, <1>5, <1>6 DEF Finished
<1>8. u \in LaneState
  BY <1>7, XorIs DEF LaneState
<1>9. P \cup Q \in BitString
  BY DEF BitString
<1>10. ASSUME NEW l \in 0..24, NEW z \in 0..63
       PROVE  (z \in u[l]) <=> ((z \in s[l]) # (64 * l + z \in P \cup Q))
  <2>0. r \in 1..200 /\ r % 8 = 0
    OBVIOUS
  <2>1. (64 * l + z \in Q) <=> (l = m /\ z = 63)
    <3>1. (64 * l + z \in Q) <=> (z \in StringLane(r - 1, <<128>>, l))
      BY <1>3
    <3>2. (z \in StringLane(r - 1, <<128>>, l)) <=> (l = r \div 8 - 1 /\ z = 63)
      BY <2>0, LastBitIs, ZenonT(40)
    <3> QED  BY <1>5, <3>1, <3>2
  <2>2. (64 * l + z \in P) <=> (z \in StringLane(q, <<p>>, l))
    BY <1>2
  <2>3. (z \in t[l]) <=> ((z \in s[l]) # (64 * l + z \in P))
    <3>1. (z \in t[l]) <=> ((z \in s[l]) # (z \in StringLane(q, <<p>>, l)))
      BY <1>1
    <3> QED  BY <2>2, <3>1
  <2>4. z = 63 => 64 * l + z \notin P
    BY <1>4, <2>2
  <2>5. (z \in u[l]) <=> ((z \in t[l]) # (l = m /\ z = 63))
    <3>1. CASE l = m
      <4>1. u[l] = XorLanes(t[l], {63})
        BY <1>7, <3>1 DEF LaneState
      <4>2. (z \in XorLanes(t[l], {63})) <=> ((z \in t[l]) # (z \in {63}))
        BY DEF XorLanes
      <4> QED  BY <3>1, <4>1, <4>2
    <3>2. CASE l # m
      <4>1. u[l] = t[l]
        BY <1>7, <3>2 DEF LaneState
      <4> QED  BY <3>2, <4>1
    <3> QED  BY <3>1, <3>2
  <2> QED  BY <2>1, <2>3, <2>4, <2>5
<1>11. Differs(s, u, P \cup Q)
  BY <1>10 DEF Differs
<1>12. BitsOf(u) = Plus(BitsOf(s), P \cup Q)
  BY <1>8, <1>9, <1>11, PlusIs
<1> QED  BY <1>2, <1>3, <1>6, <1>8, <1>12

----------------------------------------------------------------------------
(* The machine.                                                            *)

\* Between two calls of half a round, round is even.
KeccakType ==
  /\ state \in LaneState /\ A \in LaneState /\ E \in LaneState
  /\ round \in 0..24 /\ round % 2 = 0
  /\ stage \in {"idle", "A", "E"}
  /\ stage = "E" => round < 24

\* What the standard sees of the state, by stage.
LEMMA OnesIs ==
  /\ Ones = BitsOf(Current)
  /\ stage = "idle" => Current = state /\ RoundsDone = 24
  /\ stage = "A" => Current = A /\ RoundsDone = round
  /\ stage = "E" => Current = E /\ RoundsDone = round + 1
BY DEF Ones, BitsOf, Lanes, Current, RoundsDone, NROUNDS

\* The same after a step.
LEMMA OnesIsNext ==
  /\ Ones' = BitsOf(Current')
  /\ stage' = "idle" => Current' = state' /\ RoundsDone' = 24
  /\ stage' = "A" => Current' = A' /\ RoundsDone' = round'
  /\ stage' = "E" => Current' = E' /\ RoundsDone' = round' + 1
BY DEF Ones, BitsOf, Lanes, Current, RoundsDone, NROUNDS

\* The zero lanes are the empty string.
LEMMA ZeroIs == Zero \in LaneState /\ BitsOf(Zero) = {}
<1>1. Zero \in LaneState
  BY DEF Zero, LaneState, Lanes, Lane
<1>2. \A l \in 0..24 : Zero[l] = {}
  BY DEF Zero, Lanes
<1>3. BitsOf(Zero) = {}
  BY <1>2 DEF BitsOf
<1> QED  BY <1>1, <1>3

\* The string that pieces make up.
StringOf(pieces) == UNION {Fips!Bits(piece.at, piece.bytes) : piece \in pieces}

\* A new state of the lanes that is the old one XOR a string is a step of the standard.
LEMMA XorStep ==
  ASSUME KeccakType, NEW t \in LaneState, XorIn(t), NEW pieces \in Pieces,
         BitsOf(t) = Plus(BitsOf(state), StringOf(pieces))
  PROVE  KeccakType' /\ squeezed' = NoOutput /\ stage' = "idle" /\ Fips!XorIn
<1>1. /\ stage = "idle" /\ stage' = "idle" /\ state' = t /\ A' = A /\ E' = E /\ round' = round
      /\ squeezed' = NoOutput
  BY DEF XorIn
<1>2. KeccakType'
  BY <1>1 DEF KeccakType
<1>3. /\ Ones = BitsOf(state) /\ RoundsDone = 24 /\ Ones' = BitsOf(t) /\ RoundsDone' = 24
  BY <1>1, OnesIs, OnesIsNext
<1>4. Ones' = (Ones \ StringOf(pieces)) \cup (StringOf(pieces) \ Ones)
  BY <1>3 DEF Plus
<1>5. Fips!XorIn
  BY <1>3, <1>4 DEF Fips!XorIn, StringOf, NROUNDS
<1> QED  BY <1>1, <1>2, <1>5

\* keccak_absorb adds its chunk to the state of the standard.
LEMMA AbsorbStep ==
  ASSUME KeccakType, keccak_absorb
  PROVE  KeccakType' /\ squeezed' = NoOutput /\ stage' = "idle" /\ Fips!XorIn
<1>1. PICK c \in Chunks : XorIn(XorIntoLanes(state, c.at, c.bytes))
  BY DEF keccak_absorb
<1>2. c.at \in Nat /\ c.bytes \in ByteString /\ c.at + Len(c.bytes) <= 200
  BY ChunksAssumption
<1>3. state \in LaneState
  BY DEF KeccakType
<1>4. PICK t \in LaneState :
        /\ t = XorIntoLanes(state, c.at, c.bytes)
        /\ BitsOf(t) = Plus(BitsOf(state), Fips!Bits(c.at, c.bytes))
  BY <1>2, <1>3, AbsorbIs
<1>5. {c} \in Pieces /\ StringOf({c}) = Fips!Bits(c.at, c.bytes)
  BY DEF Pieces, StringOf
<1> QED  BY <1>1, <1>4, <1>5, XorStep

\* So does keccak_absorb_once, with a whole block.
LEMMA AbsorbOnceStep ==
  ASSUME KeccakType, keccak_absorb_once_block
  PROVE  KeccakType' /\ squeezed' = NoOutput /\ stage' = "idle" /\ Fips!XorIn
<1>1. PICK c \in Chunks : c.at = 0 /\ Len(c.bytes) % 8 = 0 /\ XorIn(Loaded(state, c.bytes))
  BY DEF keccak_absorb_once_block, Loaded
<1>2. c.bytes \in ByteString /\ c.at + Len(c.bytes) <= 200
  BY ChunksAssumption
<1>3. Len(c.bytes) \in Nat /\ Len(c.bytes) <= 200
  BY <1>1, <1>2 DEF ByteString
<1>4. state \in LaneState
  BY DEF KeccakType
<1>5. PICK t \in LaneState :
        /\ t = Loaded(state, c.bytes)
        /\ BitsOf(t) = Plus(BitsOf(state), Fips!Bits(0, c.bytes))
  BY <1>1, <1>2, <1>3, <1>4, LoadedIs
<1>6. {c} \in Pieces /\ StringOf({c}) = Fips!Bits(0, c.bytes)
  BY <1>1 DEF Pieces, StringOf
<1> QED  BY <1>1, <1>5, <1>6, XorStep

\* keccak_finalize adds the padding, in two pieces that share no bit.
LEMMA FinalizeStep ==
  ASSUME KeccakType, keccak_finalize
  PROVE  KeccakType' /\ squeezed' = NoOutput /\ stage' = "idle" /\ Fips!XorIn
<1>1. PICK e \in Ends : XorIn(Finished(state, e.pos, e.r, e.p))
  BY DEF keccak_finalize, Finished
<1>2. IsEnd(e.pos, e.r, e.p)
  BY EndsAssumption DEF IsEnd
<1>3. state \in LaneState
  BY DEF KeccakType
<1>4. PICK t \in LaneState :
        /\ t = Finished(state, e.pos, e.r, e.p)
        /\ BitsOf(t) = Plus(BitsOf(state), Fips!Bits(e.pos, <<e.p>>) \cup Fips!Bits(e.r - 1, <<128>>))
  BY <1>2, <1>3, FinishedIs
<1> DEFINE pieces == {[at |-> e.pos, bytes |-> <<e.p>>], [at |-> e.r - 1, bytes |-> <<128>>]}
<1>5. pieces \in Pieces
  BY DEF Pieces
<1>6. StringOf(pieces) = Fips!Bits(e.pos, <<e.p>>) \cup Fips!Bits(e.r - 1, <<128>>)
  BY DEF StringOf
<1> HIDE DEF pieces
<1> QED  BY <1>1, <1>4, <1>5, <1>6, XorStep

\* A call of the permutation starts the rounds of the standard.
LEMMA StartStep ==
  ASSUME KeccakType, copyFromState
  PROVE  KeccakType' /\ squeezed' = NoOutput /\ Fips!Start
<1>1. /\ stage = "idle" /\ stage' = "A" /\ A' = state /\ round' = 0 /\ squeezed' = NoOutput
      /\ state' = state /\ E' = E
  BY DEF copyFromState
<1>2. KeccakType'
  BY <1>1 DEF KeccakType
<1>3. Ones = BitsOf(state) /\ RoundsDone = 24 /\ Ones' = BitsOf(state) /\ RoundsDone' = 0
  BY <1>1, OnesIs, OnesIsNext
<1> QED  BY <1>1, <1>2, <1>3 DEF Fips!Start, NROUNDS

\* The first half of the loop body is a round of the standard,
LEMMA AtoEStep ==
  ASSUME KeccakType, AtoE
  PROVE  KeccakType' /\ squeezed' = squeezed /\ stage' # "idle" /\ Fips!Round
<1>1. /\ stage = "A" /\ stage' = "E" /\ round < 24 /\ round' = round /\ state' = state /\ squeezed' = squeezed
      /\ A' = prepareTheta(A) /\ E' = RhoPiChiIota(prepareTheta(A), KeccakF_RoundConstants[round + 1])
  BY DEF AtoE, NROUNDS
<1>2. round \in 0..23 /\ A \in LaneState
  BY <1>1 DEF KeccakType
<1>3. Fips!RC[round] = KeccakF_RoundConstants[round + 1] /\ Fips!RC[round] \in Lane
  BY <1>2, ConstantsAre
<1>4. A' \in LaneState
  BY <1>1, <1>2, ThetaIs
<1>5. E' \in LaneState /\ BitsOf(E') = Fips!Rnd(BitsOf(A), round)
  BY <1>1, <1>2, <1>3, RoundIs
<1>6. KeccakType'
  BY <1>1, <1>4, <1>5 DEF KeccakType
<1>7. Ones = BitsOf(A) /\ RoundsDone = round /\ Ones' = BitsOf(E') /\ RoundsDone' = round + 1
  BY <1>1, OnesIs, OnesIsNext
<1>8. Fips!Round
  BY <1>2, <1>5, <1>7 DEF Fips!Round, NROUNDS
<1> QED  BY <1>1, <1>6, <1>8

\* and the second half is the next one.
LEMMA EtoAStep ==
  ASSUME KeccakType, EtoA
  PROVE  KeccakType' /\ squeezed' = squeezed /\ stage' # "idle" /\ Fips!Round
<1>1. /\ stage = "E" /\ stage' = "A" /\ round' = round + 2 /\ state' = state /\ squeezed' = squeezed
      /\ E' = prepareTheta(E) /\ A' = RhoPiChiIota(prepareTheta(E), KeccakF_RoundConstants[round + 2])
  BY DEF EtoA
<1>2. round \in 0..22 /\ round % 2 = 0 /\ E \in LaneState
  BY <1>1 DEF KeccakType
<1>3. PICK k \in 0..23 : k = round + 1 /\ k + 1 = round + 2
  BY <1>2
<1>4. Fips!RC[k] = KeccakF_RoundConstants[k + 1] /\ Fips!RC[k] \in Lane
  BY ConstantsAre
<1>5. E' \in LaneState
  BY <1>1, <1>2, ThetaIs
<1>6. A' \in LaneState /\ BitsOf(A') = Fips!Rnd(BitsOf(E), k)
  BY <1>1, <1>2, <1>3, <1>4, RoundIs
<1>7. KeccakType'
  BY <1>1, <1>2, <1>5, <1>6 DEF KeccakType
<1>8. Ones = BitsOf(E) /\ RoundsDone = k /\ Ones' = BitsOf(A') /\ RoundsDone' = k + 1
  BY <1>1, <1>3, OnesIs, OnesIsNext
<1>9. Fips!Round
  BY <1>6, <1>8 DEF Fips!Round, NROUNDS
<1> QED  BY <1>1, <1>7, <1>9

\* The call ends when 24 rounds are done, and puts the lanes back.
LEMMA EndStep ==
  ASSUME KeccakType, copyToState
  PROVE  KeccakType' /\ squeezed' = squeezed /\ stage = "A" /\ UNCHANGED Fips!vars
<1>1. /\ stage = "A" /\ stage' = "idle" /\ round >= 24 /\ state' = A /\ A' = Zero /\ E' = Zero /\ round' = 0
      /\ squeezed' = squeezed
  BY DEF copyToState, NROUNDS
<1>2. round = 24
  BY <1>1 DEF KeccakType
<1>3. KeccakType'
  BY <1>1, ZeroIs DEF KeccakType
<1>4. Ones = BitsOf(A) /\ RoundsDone = 24 /\ Ones' = BitsOf(A) /\ RoundsDone' = 24
  BY <1>1, <1>2, OnesIs, OnesIsNext
<1> QED  BY <1>1, <1>3, <1>4 DEF Fips!vars

----------------------------------------------------------------------------
(* What is squeezed.                                                       *)

\* The bytes of q are those of s, from byte q.at on.
Matches(q, s) ==
  \A k \in 1..Len(q.bytes), b \in 0..7 :
    LET j == 8 * (q.at + k - 1) + b
    IN  Fips!BitOf(q.bytes[k], b) <=> j % 64 \in s[j \div 64]

\* Bytes that are cut out of the lanes one after the other match.
LEMMA MatchesIs ==
  ASSUME NEW s \in LaneState, NEW at \in Nat, NEW n \in Nat, at + n <= 200, NEW bytes, Len(bytes) = n,
         \A k \in 1..n : bytes[k] = Byte(Shr(s[(at + k - 1) \div 8], 8 * ((at + k - 1) % 8)))
  PROVE  Matches([at |-> at, bytes |-> bytes], s)
<1> SUFFICES ASSUME NEW k \in 1..n, NEW b \in 0..7
             PROVE  Fips!BitOf(bytes[k], b)
                      <=> (8 * (at + k - 1) + b) % 64 \in s[(8 * (at + k - 1) + b) \div 64]
  BY DEF Matches
<1>1. PICK place \in 0..199 : place = at + k - 1
  OBVIOUS
<1>2. PICK m \in 0..24, c \in 0..7 : m = place \div 8 /\ c = place % 8 /\ place = 8 * m + c
  OBVIOUS
<1>3. (8 * place + b) % 64 = 8 * c + b /\ (8 * place + b) \div 64 = m
  <2>1. PICK z \in 0..63 : z = 8 * c + b
    OBVIOUS
  <2>2. 8 * place + b = 64 * m + z
    BY <1>2, <2>1
  <2> QED  BY <2>1, <2>2
<1>4. bytes[k] = Byte(Shr(s[m], 8 * c))
  BY <1>1, <1>2
<1>5. PICK p \in Lane : p = s[m]
  BY DEF LaneState
<1>6. Fips!BitOf(Byte(Shr(p, 8 * c)), b) <=> b \in Shr(p, 8 * c)
  BY ByteIs
<1>7. (b \in Shr(p, 8 * c)) <=> (8 * c + b \in p)
  BY ShrLane
<1> QED  BY <1>1, <1>3, <1>4, <1>5, <1>6, <1>7

KeccakInv ==
  /\ KeccakType
  /\ stage # "idle" => squeezed = NoOutput
  /\ Matches(squeezed, state)

\* Nothing has been squeezed that could differ.
LEMMA NothingMatches == \A s : Matches(NoOutput, s)
BY DEF Matches, NoOutput

\* Squeezing bytes that match keeps the invariant and leaves the state alone.
LEMMA SqueezeKeeps ==
  ASSUME KeccakType, NEW at, NEW bytes, Squeeze(at, bytes), Matches([at |-> at, bytes |-> bytes], state)
  PROVE  KeccakInv' /\ UNCHANGED Fips!vars
<1>1. /\ stage = "idle" /\ squeezed' = [at |-> at, bytes |-> bytes]
      /\ state' = state /\ A' = A /\ E' = E /\ round' = round /\ stage' = stage
  BY DEF Squeeze
<1>2. KeccakType'
  BY <1>1 DEF KeccakType
<1>3. Ones = BitsOf(state) /\ RoundsDone = 24 /\ Ones' = BitsOf(state) /\ RoundsDone' = 24
  BY <1>1, OnesIs, OnesIsNext
<1>4. Matches(squeezed', state')
  BY <1>1
<1>5. Matches(squeezed, state)'
  BY <1>4 DEF Matches
<1> QED  BY <1>1, <1>2, <1>3, <1>5 DEF KeccakInv, Fips!vars

\* keccak_squeeze cuts its bytes out of the lanes,
LEMMA SqueezeBytesStep ==
  ASSUME KeccakType, NEW t \in Takes, keccak_squeeze(t.pos, t.n)
  PROVE  KeccakInv' /\ UNCHANGED Fips!vars
<1> DEFINE bytes == [k \in 1..t.n |-> LET j == t.pos + k - 1 IN Byte(Shr(state[j \div 8], 8 * (j % 8)))]
<1>1. t.pos \in Nat /\ t.n \in Nat /\ t.pos + t.n <= 200
  BY TakesAssumption
<1>2. Squeeze(t.pos, bytes)
  BY DEF keccak_squeeze
<1>3. Len(bytes) = t.n
  BY <1>1
<1>4. \A k \in 1..t.n : bytes[k] = Byte(Shr(state[(t.pos + k - 1) \div 8], 8 * ((t.pos + k - 1) % 8)))
  OBVIOUS
<1>5. state \in LaneState
  BY DEF KeccakType
<1> HIDE DEF bytes
<1>6. Matches([at |-> t.pos, bytes |-> bytes], state)
  BY <1>1, <1>3, <1>4, <1>5, MatchesIs
<1> QED  BY <1>2, <1>6, SqueezeKeeps

\* and keccak_squeezeblocks stores whole lanes: the bytes are the same.
LEMMA SqueezeBlocksStep ==
  ASSUME KeccakType, NEW e \in Ends, keccak_squeezeblocks(e.r)
  PROVE  KeccakInv' /\ UNCHANGED Fips!vars
<1> DEFINE bytes == [k \in 1..e.r |-> store64(state[(k - 1) \div 8])[((k - 1) % 8) + 1]]
<1>1. e.r \in Nat /\ 0 + e.r <= 200
  <2>1. e.r \in 1..200
    BY EndsAssumption
  <2> QED  BY <2>1
<1>2. Squeeze(0, bytes)
  BY DEF keccak_squeezeblocks
<1>3. Len(bytes) = e.r
  BY <1>1
<1>4. ASSUME NEW k \in 1..e.r
      PROVE  bytes[k] = Byte(Shr(state[(0 + k - 1) \div 8], 8 * ((0 + k - 1) % 8)))
  <2>1. PICK m \in 1..8 : m = ((k - 1) % 8) + 1 /\ m - 1 = (k - 1) % 8
    BY <1>1
  <2>2. bytes[k] = store64(state[(k - 1) \div 8])[m]
    BY <2>1
  <2>3. 0 + k - 1 = k - 1
    BY <1>1
  <2> HIDE DEF bytes
  <2>4. store64(state[(k - 1) \div 8])[m] = Byte(Shr(state[(k - 1) \div 8], 8 * (m - 1)))
    BY DEF store64
  <2> QED  BY <2>1, <2>2, <2>3, <2>4
<1>5. state \in LaneState
  BY DEF KeccakType
<1> HIDE DEF bytes
<1>6. Matches([at |-> 0, bytes |-> bytes], state)
  BY <1>1, <1>3, <1>4, <1>5, MatchesIs
<1> QED  BY <1>2, <1>6, SqueezeKeeps

----------------------------------------------------------------------------
(* The theorems.                                                           *)

\* The initial state is that of the standard, and has the invariant.
LEMMA KeccakStart == KeccakInit => KeccakInv /\ Fips!Init
<1> SUFFICES ASSUME KeccakInit PROVE KeccakInv /\ Fips!Init
  OBVIOUS
<1>1. /\ state = Zero /\ A = Zero /\ E = Zero /\ round = 0 /\ stage = "idle" /\ squeezed = NoOutput
  BY DEF KeccakInit
<1>2. KeccakType
  BY <1>1, ZeroIs DEF KeccakType
<1>3. Ones = {} /\ RoundsDone = 24
  BY <1>1, OnesIs, ZeroIs
<1>4. Matches(squeezed, state)
  BY <1>1, NothingMatches
<1> QED  BY <1>1, <1>2, <1>3, <1>4 DEF KeccakInv, Fips!Init, NROUNDS

\* Where nothing is left of what was squeezed, the types are all there is to keep.
LEMMA KeptIfNothing ==
  ASSUME KeccakType', squeezed' = NoOutput
  PROVE  KeccakInv'
<1>1. Matches(squeezed, state)'
  BY NothingMatches DEF Matches, NoOutput
<1> QED  BY <1>1 DEF KeccakInv

\* Every step keeps the invariant, and is a step of the standard or none.
LEMMA KeccakStep ==
  ASSUME KeccakInv, [KeccakNext]_keccakVars
  PROVE  KeccakInv' /\ [Fips!Next]_Fips!vars
<1>0. KeccakType /\ (stage # "idle" => squeezed = NoOutput)
  BY DEF KeccakInv
<1>1. CASE keccak_absorb
  BY <1>0, <1>1, AbsorbStep, KeptIfNothing DEF Fips!Next
<1>2. CASE keccak_absorb_once_block
  BY <1>0, <1>2, AbsorbOnceStep, KeptIfNothing DEF Fips!Next
<1>3. CASE keccak_finalize
  BY <1>0, <1>3, FinalizeStep, KeptIfNothing DEF Fips!Next
<1>4. CASE copyFromState
  BY <1>0, <1>4, StartStep, KeptIfNothing DEF Fips!Next
<1>5. CASE AtoE
  <2>1. squeezed = NoOutput
    BY <1>0, <1>5 DEF AtoE
  <2> QED  BY <1>0, <1>5, <2>1, AtoEStep, KeptIfNothing DEF Fips!Next
<1>6. CASE EtoA
  <2>1. squeezed = NoOutput
    BY <1>0, <1>6 DEF EtoA
  <2> QED  BY <1>0, <1>6, <2>1, EtoAStep, KeptIfNothing DEF Fips!Next
<1>7. CASE copyToState
  BY <1>0, <1>7, EndStep, KeptIfNothing
<1>8. CASE \E t \in Takes : keccak_squeeze(t.pos, t.n)
  BY <1>0, <1>8, SqueezeBytesStep
<1>9. CASE \E e \in Ends : keccak_squeezeblocks(e.r)
  BY <1>0, <1>9, SqueezeBlocksStep
<1>10. CASE UNCHANGED keccakVars
  <2>1. /\ state' = state /\ A' = A /\ E' = E /\ round' = round /\ stage' = stage /\ squeezed' = squeezed
    BY <1>10 DEF keccakVars
  <2>2. KeccakInv'
    BY <2>1 DEF KeccakInv, KeccakType, Matches
  <2>3. UNCHANGED Fips!vars
    BY <2>1 DEF Fips!vars, Ones, RoundsDone, Current
  <2> QED  BY <2>2, <2>3
<1> QED  BY <1>1, <1>2, <1>3, <1>4, <1>5, <1>6, <1>7, <1>8, <1>9, <1>10 DEF KeccakNext

\* The invariant.
LEMMA KeccakInvariant == KeccakSpec => []KeccakInv
<1>1. KeccakInit => KeccakInv
  BY KeccakStart
<1>2. KeccakInv /\ [KeccakNext]_keccakVars => KeccakInv'
  BY KeccakStep
<1> QED  BY <1>1, <1>2, PTL DEF KeccakSpec

\* The permutation of fips202.c, absorption and padding included, is the standard's.
THEOREM KeccakIsFips202 == KeccakSpec => RefinesFips202
<1>1. KeccakInit => Fips!Init
  BY KeccakStart
<1>2. KeccakInv /\ [KeccakNext]_keccakVars => [Fips!Next]_Fips!vars
  BY KeccakStep
<1> QED  BY <1>1, <1>2, KeccakInvariant, PTL DEF KeccakSpec, RefinesFips202, Fips!Spec

\* What is squeezed, by bytes or by lanes, is the standard's string.
THEOREM SqueezedIsState == KeccakSpec => []SqueezedInOrder
<1>1. KeccakInv => SqueezedInOrder
  BY DEF KeccakInv, Matches, SqueezedInOrder
<1> QED  BY <1>1, KeccakInvariant, PTL
=============================================================================
