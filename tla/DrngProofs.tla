----------------------------- MODULE DrngProofs -----------------------------
(***************************************************************************)
(* Theorems about Drng, for every size of number, digest, block, buffer    *)
(* and request, and for every hash function.                               *)
(*                                                                         *)
(* The inductive invariant is TypeOK, LoopInv (how far the block loop is), *)
(* DrawsInv (what a finished draw delivered) and ChainInv (the context of  *)
(* each draw is the successor of the context of the draw before).          *)
(***************************************************************************)
EXTENDS Drng, NumberLemmas, TLAPS

----------------------------------------------------------------------------
(* Arithmetic.                                                             *)

LEMMA RoundUp ==
  ASSUME NEW a \in Nat, NEW d \in Nat \ {0}
  PROVE  LET q == DIVISION_ROUND_UP(a, d)
         IN  q \in Nat /\ a <= d * q /\ (q >= 1 => d * (q - 1) < a) /\ (q = 0 => a = 0)
<1> DEFINE t == a \div d
           r == a % d
<1>1. t \in Int /\ r \in 0..d - 1 /\ a = d * t + r
  OBVIOUS
<1>2. t \in Nat
  <2>1. ASSUME t <= -1 PROVE FALSE
    <3>1. d * t <= d * (-1)
      BY <1>1, <2>1
    <3> QED  BY <1>1, <3>1
  <2> QED  BY <1>1, <2>1
<1>3. DIVISION_ROUND_UP(a, d) = t + (IF r # 0 THEN 1 ELSE 0)
  BY DEF DIVISION_ROUND_UP
<1> HIDE DEF t, r
<1>4. PICK p \in Int : p = d * t
  BY <1>2
<1>5. d * (t + 1) = p + d /\ d * (t - 1) = p - d
  BY <1>2, <1>4
<1>6. CASE r = 0
  <2>1. DIVISION_ROUND_UP(a, d) = t /\ a = p
    BY <1>1, <1>2, <1>3, <1>4, <1>6
  <2>2. t = 0 => p = 0
    BY <1>4
  <2> QED  BY <1>2, <1>4, <1>5, <2>1, <2>2
<1>7. CASE r # 0
  <2>1. DIVISION_ROUND_UP(a, d) = t + 1 /\ a = p + r /\ (t + 1) - 1 = t
    BY <1>1, <1>2, <1>3, <1>4, <1>7
  <2> QED  BY <1>1, <1>2, <1>4, <1>5, <1>7, <2>1
<1> QED  BY <1>6, <1>7

\* The blocks of a request cover its bytes, and the last block has some of them.
LEMMA BlocksCoverBytes ==
  ASSUME NEW bits \in Nat
  PROVE  LET bytes == DIVISION_ROUND_UP(bits, 8)
             blocks == DIVISION_ROUND_UP(bits, OUTLEN * 8)
         IN  /\ bytes \in Nat /\ blocks \in Nat
             /\ bytes <= OUTLEN * blocks
             /\ blocks >= 1 => OUTLEN * (blocks - 1) < bytes
             /\ bits <= 8 * bytes /\ (bytes >= 1 => 8 * (bytes - 1) < bits)
<1> USE SizesAssumption
<1> DEFINE q == DIVISION_ROUND_UP(bits, 8)
           b == DIVISION_ROUND_UP(bits, OUTLEN * 8)
<1>1. q \in Nat /\ bits <= 8 * q /\ (q >= 1 => 8 * (q - 1) < bits) /\ (q = 0 => bits = 0)
  BY RoundUp
<1>2. OUTLEN * 8 \in Nat \ {0}
  OBVIOUS
<1>3. /\ b \in Nat /\ bits <= (OUTLEN * 8) * b
      /\ b >= 1 => (OUTLEN * 8) * (b - 1) < bits
  BY <1>2, RoundUp
<1> HIDE DEF q, b
<1>4. PICK x \in Int, y \in Int : x = OUTLEN * b /\ y = OUTLEN * (b - 1)
  BY <1>3
<1>5. (OUTLEN * 8) * b = 8 * x /\ (OUTLEN * 8) * (b - 1) = 8 * y
  BY <1>3, <1>4
<1>6. x \in Nat
  BY <1>3, <1>4
<1>7. q <= x
  BY <1>1, <1>3, <1>5, <1>6
<1>8. b >= 1 => y < q
  BY <1>1, <1>3, <1>4, <1>5
<1> QED  BY <1>1, <1>3, <1>4, <1>7, <1>8 DEF q, b

\* Position k of the output lies in block n exactly when k is n digests in.
LEMMA BlockOf ==
  ASSUME NEW k \in Nat, NEW n \in Nat, k - OUTLEN * n \in 0..OUTLEN - 1
  PROVE  k \div OUTLEN = n /\ k % OUTLEN = k - OUTLEN * n
<1>1. k = OUTLEN * n + (k - OUTLEN * n)
  BY SizesAssumption
<1> QED  BY <1>1, DivisionUnique, SizesAssumption

\* Adding two numbers below MODULUS to a third gives the same only if they are the same.
LEMMA AddInjective ==
  ASSUME NEW v \in Seed, NEW a \in Seed, NEW b \in Seed, (v + a) % MODULUS = (v + b) % MODULUS
  PROVE  a = b
<1> USE SizesAssumption DEF Seed
<1>1. (v + a) % MODULUS = (IF v + a < MODULUS THEN v + a ELSE v + a - MODULUS)
  <2>1. CASE v + a < MODULUS
    BY <2>1
  <2>2. CASE v + a >= MODULUS
    BY <2>2
  <2> QED  BY <2>1, <2>2
<1>2. (v + b) % MODULUS = (IF v + b < MODULUS THEN v + b ELSE v + b - MODULUS)
  <2>1. CASE v + b < MODULUS
    BY <2>1
  <2>2. CASE v + b >= MODULUS
    BY <2>2
  <2> QED  BY <2>1, <2>2
<1> QED  BY <1>1, <1>2

\* One more increment of a number that already wrapped.
LEMMA IncSum ==
  ASSUME NEW v \in Nat, NEW n \in Nat
  PROVE  inc((v + n) % MODULUS) = (v + n + 1) % MODULUS
<1> USE SizesAssumption
<1> DEFINE s == v + n
<1>1. s \in Nat /\ inc(s % MODULUS) = ((s % MODULUS) + 1) % MODULUS
  BY DEF inc
<1>2. PICK t \in Int, r \in 0..MODULUS - 1 :
        t = s \div MODULUS /\ r = s % MODULUS /\ s = MODULUS * t + r
  BY <1>1
<1> HIDE DEF s
<1>3. CASE r + 1 < MODULUS
  <2>1. (r + 1) % MODULUS = r + 1
    BY <1>3
  <2>2. s + 1 = MODULUS * t + (r + 1)
    BY <1>1, <1>2
  <2>3. (s + 1) % MODULUS = r + 1
    <3>1. MODULUS \in Nat \ {0} /\ s + 1 \in Int /\ t \in Int /\ r + 1 \in 0..MODULUS - 1
      BY <1>1, <1>2, <1>3
    <3> QED  BY <2>2, <3>1, DivisionUnique
  <2> QED  BY <1>1, <1>2, <2>1, <2>3 DEF s
<1>4. CASE r + 1 = MODULUS
  <2>1. (r + 1) % MODULUS = 0
    BY <1>4
  <2>2. s + 1 = MODULUS * (t + 1) + 0
    BY <1>1, <1>2, <1>4
  <2>3. (s + 1) % MODULUS = 0
    <3>1. MODULUS \in Nat \ {0} /\ s + 1 \in Int /\ t + 1 \in Int /\ 0 \in 0..MODULUS - 1
      BY <1>1, <1>2
    <3> QED  BY <2>2, <3>1, DivisionUnique
  <2> QED  BY <1>1, <1>2, <2>1, <2>3 DEF s
<1> QED  BY <1>2, <1>3, <1>4

----------------------------------------------------------------------------
(* The inductive invariant.                                                *)

\* The byte of the output stream of a context at position k - 1.
StreamByte(v, k, high) ==
  [data |-> (v + (k - 1) \div OUTLEN) % MODULUS, j |-> (k - 1) % OUTLEN, high |-> high]

LoopInv ==
  pc = "loop" =>
    /\ requested_no_of_Byte = DIVISION_ROUND_UP(requested_no_of_bits, 8)
    /\ m = DIVISION_ROUND_UP(requested_no_of_bits, OUTLEN * 8)
    /\ i \in 0..m
    /\ i < m => remainder_Byte = requested_no_of_Byte - OUTLEN * i
    /\ data = (drng.V + i) % MODULUS
    /\ \A k \in 1..BUF :
         return_bits[k] = IF k <= OUTLEN * i /\ k <= requested_no_of_Byte
                          THEN StreamByte(drng.V, k, 8) ELSE Old

HighBits(bits, k) == IF bits >= 8 * k THEN 8 ELSE bits - 8 * (k - 1)

DrawsInv ==
  \A d \in draws : \A k \in 1..BUF :
    d.out[k] = IF 8 * (k - 1) < d.bits THEN StreamByte(d.from.V, k, HighBits(d.bits, k)) ELSE Old

Follows(ctx, nonce, n) ==
  \/ n = 0 /\ ctx = SeededBy(nonce)
  \/ n # 0 /\ \E d \in draws : d.nonce = nonce /\ d.n = n - 1 /\ ctx = Advanced(d.from)

ChainInv ==
  /\ seeded # NoNonce => Follows(drng, seeded, calls)
  /\ \A d \in draws : d.nonce # NoNonce => Follows(d.from, d.nonce, d.n)

\* Draws with the same seed and number start from the same context.
SameStart ==
  \A d, e \in draws : d.nonce = e.nonce /\ d.nonce # NoNonce /\ d.n = e.n => d.from = e.from

IInv == TypeOK /\ LoopInv /\ DrawsInv /\ ChainInv /\ SameStart

----------------------------------------------------------------------------
(* Each action preserves it.                                               *)

LEMMA ModulusSeed == \A n \in Int : n % MODULUS \in Seed
<1>1. MODULUS \in Nat \ {0}
  BY SizesAssumption
<1> QED  BY <1>1 DEF Seed

LEMMA SeedInt == Seed \subseteq Nat
  BY DEF Seed

LEMMA ContextTypes ==
  /\ \A v, c \in Seed : Instantiated(v, c) \in Context
  /\ \A n \in Nonces, ok \in BOOLEAN : SHA3_df_nonce(n, ok) \in Seed
  /\ \A v \in Seed, ok \in BOOLEAN : SHA3_df_padded(v, ok) \in Seed
  /\ \A c \in Context : Advanced(c) \in Context
  /\ \A v \in Seed : inc(v) \in Seed
<1> USE SizesAssumption, HashAssumption
<1>1. \A v \in Seed : inc(v) \in Seed
  <2>1. ASSUME NEW v \in Seed PROVE inc(v) \in Seed
    <3>1. v + 1 \in Int
      BY SeedInt
    <3> QED  BY <3>1, ModulusSeed DEF inc
  <2> QED  BY <2>1
<1>2. 0 \in Seed
  BY DEF Seed
<1>3. \A v, c \in Seed : Instantiated(v, c) \in Context
  BY <1>1, <1>2 DEF Instantiated, Context
<1>4. \A n \in Nonces, ok \in BOOLEAN : SHA3_df_nonce(n, ok) \in Seed
  BY DEF SHA3_df_nonce
<1>5. \A v \in Seed, ok \in BOOLEAN : SHA3_df_padded(v, ok) \in Seed
  <2>1. ASSUME NEW v \in Seed PROVE v \div BYTE \in Seed
    <3>0. v \in Int /\ BYTE \in Nat \ {0}
      BY DEF Seed
    <3>1. PICK t \in Int, r \in Nat, p \in Int : t = v \div BYTE /\ p = BYTE * t /\ v = p + r
      BY <3>0
    <3>2. t >= 0
      <4>1. ASSUME t <= -1 PROVE FALSE
        <5>1. BYTE * t <= -BYTE
          BY <3>0, <3>1, <4>1
        <5>2. r <= BYTE - 1
          BY <3>0, <3>1
        <5> QED  BY <3>0, <3>1, <5>1, <5>2, SeedInt
      <4> QED  BY <3>1, <4>1
    <3>3. BYTE * t >= t
      BY <3>0, <3>1, <3>2
    <3>4. v = p + r /\ p >= t
      BY <3>1, <3>3
    <3>5. v \in 0..MODULUS - 1 /\ MODULUS \in Int
      BY DEF Seed
    <3>6. t \in 0..MODULUS - 1
      BY <3>2, <3>4, <3>5
    <3> QED  BY <3>1, <3>6 DEF Seed
  <2> QED  BY <2>1 DEF SHA3_df_padded
<1>6. ASSUME NEW c \in Context PROVE Advanced(c) \in Context
  <2>1. c.V \in Seed /\ c.C \in Seed /\ c.reseed_counter \in Seed
    BY DEF Context
  <2>2. Sha3Padded[c.V] \in Nat
    BY <2>1
  <2>3. (c.V + Sha3Padded[c.V] + c.C + c.reseed_counter) % MODULUS \in Seed
    <3>1. c.V \in Nat /\ c.C \in Nat /\ c.reseed_counter \in Nat
      BY <2>1, SeedInt
    <3>2. c.V + Sha3Padded[c.V] + c.C + c.reseed_counter \in Int
      BY <2>2, <3>1
    <3> QED  BY <3>2, ModulusSeed
  <2> QED  BY <1>1, <2>1, <2>3 DEF Advanced, Context
<1> QED  BY <1>1, <1>3, <1>4, <1>5, <1>6

LEMMA InitInv == Init => IInv
<1> USE SizesAssumption, BoundsAssumption
<1> SUFFICES ASSUME Init PROVE IInv
  OBVIOUS
<1>1. TypeOK
  BY DEF Init, TypeOK, Context, Seed, Zeros, Buffer
<1> QED  BY <1>1 DEF Init, IInv, LoopInv, DrawsInv, ChainInv, SameStart

LEMMA InstantiateInv == IInv /\ init_random_number => IInv'
<1> USE SizesAssumption, BoundsAssumption, NoncesAssumption
<1> SUFFICES ASSUME IInv, init_random_number PROVE IInv'
  OBVIOUS
<1>1. PICK nonce \in Nonces, ok \in BOOLEAN, ok1 \in BOOLEAN, ok2 \in BOOLEAN :
        /\ failures + (IF ok /\ ok1 /\ ok2 THEN 0 ELSE 1) <= MaxFailures
        /\ failures' = failures + (IF ok /\ ok1 /\ ok2 THEN 0 ELSE 1)
        /\ seeded' = IF ok /\ ok1 /\ ok2 THEN nonce ELSE NoNonce
        /\ \/ ~ok /\ drng' = Zeros /\ rc' = DRNG_MEMORY_ALLOCATION_FAILED
           \/ /\ ok /\ rc' = DRNG_SUCCESS
              /\ drng' = Instantiated(SHA3_df_nonce(nonce, ok1),
                           SHA3_df_padded(SHA3_df_nonce(nonce, ok1), ok2))
  BY DEF init_random_number
<1>2. /\ pc = "idle" /\ total < MaxCalls /\ total' = total + 1 /\ calls' = 0
      /\ UNCHANGED <<pc, requested_no_of_bits, requested_no_of_Byte, m, i, remainder_Byte,
                     data, return_bits, draws>>
  BY DEF init_random_number, request
<1>3. drng' \in Context
  <2>1. Zeros \in Context
    BY DEF Zeros, Context, Seed
  <2> QED  BY <1>1, <2>1, ContextTypes
<1>4. rc' \in {NotCalled, DRNG_SUCCESS, DRNG_MEMORY_ALLOCATION_FAILED}
      /\ seeded' \in Nonces \cup {NoNonce}
  BY <1>1
<1>5. failures' \in 0..MaxFailures /\ total' \in 0..MaxCalls
  <2>1. failures \in 0..MaxFailures /\ total \in 0..MaxCalls
    BY DEF IInv, TypeOK
  <2>2. CASE ok /\ ok1 /\ ok2
    BY <1>1, <1>2, <2>1, <2>2
  <2>3. CASE ~(ok /\ ok1 /\ ok2)
    BY <1>1, <1>2, <2>1, <2>3
  <2> QED  BY <2>2, <2>3
<1>6. TypeOK'
  BY <1>2, <1>3, <1>4, <1>5 DEF IInv, TypeOK, Buffer, Context
<1>7. LoopInv' /\ DrawsInv' /\ SameStart'
  BY <1>2 DEF IInv, LoopInv, DrawsInv, SameStart
<1>8. ChainInv'
  <2>1. seeded' # NoNonce => drng' = SeededBy(seeded')
    BY <1>1 DEF SeededBy, SHA3_df_nonce, SHA3_df_padded
  <2>2. seeded' # NoNonce => Follows(drng, seeded, calls)'
    BY <1>2, <2>1 DEF Follows
  <2>3. \A d \in draws : d.nonce # NoNonce => Follows(d.from, d.nonce, d.n)
    BY DEF IInv, ChainInv
  <2> QED  BY <1>2, <2>2, <2>3 DEF ChainInv, Follows
<1> QED  BY <1>6, <1>7, <1>8 DEF IInv

LEMMA RequestInv == IInv /\ get_random_number => IInv'
<1> USE SizesAssumption, BoundsAssumption
<1> SUFFICES ASSUME IInv, get_random_number PROVE IInv'
  OBVIOUS
<1>1. PICK bits \in Requests :
        /\ requested_no_of_bits' = bits
        /\ m' = DIVISION_ROUND_UP(bits, OUTLEN * 8)
        /\ requested_no_of_Byte' = DIVISION_ROUND_UP(bits, 8)
  BY DEF get_random_number
<1>2. /\ remainder_Byte' = requested_no_of_Byte' /\ data' = drng.V /\ i' = 0
      /\ return_bits' = [k \in 1..BUF |-> Old]
      /\ pc' = "loop" /\ total < MaxCalls /\ total' = total + 1
      /\ UNCHANGED <<drng, rc, seeded, calls, draws, failures>>
  BY DEF get_random_number
<1>3. bits \in 0..8 * BUF /\ m' \in Nat /\ requested_no_of_Byte' \in 0..BUF
  <2>1. bits \in 0..8 * BUF
    BY RequestsAssumption
  <2>2. /\ requested_no_of_Byte' \in Nat /\ m' \in Nat
        /\ requested_no_of_Byte' >= 1 => 8 * (requested_no_of_Byte' - 1) < bits
    BY <1>1, <2>1, BlocksCoverBytes
  <2>3. requested_no_of_Byte' <= BUF
    <3>1. PICK x \in Nat : x = requested_no_of_Byte'
      BY <2>2
    <3>2. BUF \in Nat /\ bits <= 8 * BUF /\ bits \in Int
      BY <2>1, SizesAssumption
    <3>3. x >= 1 => 8 * (x - 1) < bits
      BY <2>2, <3>1, Zenon
    <3>4. x <= BUF
      BY <3>2, <3>3
    <3> QED  BY <3>1, <3>4, Zenon
  <2> QED  BY <2>1, <2>2, <2>3
<1>4. drng.V \in Seed
  BY DEF IInv, TypeOK, Context
<1>5. TypeOK'
  <2>1. return_bits' \in Buffer /\ total' \in 0..MaxCalls
    BY <1>2 DEF IInv, TypeOK, Buffer
  <2> QED  BY <1>1, <1>2, <1>3, <1>4, <2>1 DEF IInv, TypeOK, Buffer, Context
<1>6. LoopInv'
  <2>1. data' = (drng'.V + i') % MODULUS
    BY <1>2, <1>4 DEF Seed
  <2>2. OUTLEN * i' = 0 /\ i' \in 0..m'
    BY <1>2, <1>3
  <2>3. \A k \in 1..BUF : return_bits'[k] = Old /\ ~(k <= OUTLEN * i')
    BY <1>2, <2>2
  <2>4. remainder_Byte' = requested_no_of_Byte' - OUTLEN * i'
    <3>1. requested_no_of_Byte' \in Int
      BY <1>3
    <3>2. \A n \in Int : n - 0 = n
      OBVIOUS
    <3> QED  BY <1>2, <2>2, <3>1, <3>2, Zenon
  <2> QED  BY <1>1, <1>2, <2>1, <2>2, <2>3, <2>4 DEF LoopInv
<1>7. DrawsInv' /\ SameStart' /\ ChainInv'
  BY <1>2 DEF IInv, DrawsInv, SameStart, ChainInv, Follows
<1> QED  BY <1>5, <1>6, <1>7 DEF IInv

\* Where the loop is, in numbers, for use in the actions of the loop.
LEMMA LoopFacts ==
  ASSUME IInv, pc = "loop"
  PROVE  /\ requested_no_of_Byte \in 0..BUF /\ m \in Nat /\ i \in 0..m
         /\ requested_no_of_Byte <= OUTLEN * m
         /\ m >= 1 => OUTLEN * (m - 1) < requested_no_of_Byte
         /\ requested_no_of_bits \in 0..8 * BUF
         /\ requested_no_of_bits <= 8 * requested_no_of_Byte
         /\ requested_no_of_Byte >= 1 => 8 * (requested_no_of_Byte - 1) < requested_no_of_bits
<1>1. /\ requested_no_of_Byte = DIVISION_ROUND_UP(requested_no_of_bits, 8)
      /\ m = DIVISION_ROUND_UP(requested_no_of_bits, OUTLEN * 8) /\ i \in 0..m
  BY DEF IInv, LoopInv
<1>2. requested_no_of_bits \in 0..8 * BUF /\ requested_no_of_Byte \in 0..BUF
  BY DEF IInv, TypeOK
<1>3. requested_no_of_bits \in Nat
  BY <1>2, SizesAssumption
<1> QED  BY <1>1, <1>2, <1>3, BlocksCoverBytes

LEMMA StreamTypes ==
  ASSUME NEW v \in Seed, NEW k \in 1..BUF, NEW high \in 1..8
  PROVE  StreamByte(v, k, high) \in Byte
<1> USE SizesAssumption
<1>1. k - 1 \in Nat /\ v \in Nat
  BY SeedInt
<1>2. (k - 1) \div OUTLEN \in Int /\ (k - 1) % OUTLEN \in 0..OUTLEN - 1
  BY <1>1
<1>3. v + (k - 1) \div OUTLEN \in Int
  BY <1>1, <1>2
<1>4. (v + (k - 1) \div OUTLEN) % MODULUS \in Seed
  BY <1>3, ModulusSeed
<1> QED  BY <1>2, <1>4 DEF StreamByte, Byte

\* The buffer has fewer blocks than there are numbers.
LEMMA BlockNumber ==
  ASSUME NEW k \in 1..BUF
  PROVE  (k - 1) \div OUTLEN \in Seed
<1>1. OUTLEN \in Nat \ {0} /\ MODULUS \in Nat \ {0} /\ BUF \in Nat /\ k - 1 \in 0..BUF - 1
  BY SizesAssumption
<1>2. PICK t \in Int, r \in 0..OUTLEN - 1 :
        t = (k - 1) \div OUTLEN /\ k - 1 = OUTLEN * t + r
  BY <1>1
<1>3. ASSUME t <= -1 PROVE FALSE
  <2>1. OUTLEN * t <= OUTLEN * (-1)
    BY <1>1, <1>2, <1>3
  <2> QED  BY <1>1, <1>2, <2>1
<1>4. ASSUME t >= MODULUS PROVE FALSE
  <2>1. OUTLEN * t >= OUTLEN * MODULUS
    BY <1>1, <1>2, <1>4
  <2> QED  BY <1>1, <1>2, <2>1, BlocksAssumption
<1> QED  BY <1>1, <1>2, <1>3, <1>4 DEF Seed

LEMMA BlockInv == IInv /\ block => IInv'
<1> USE SizesAssumption, BoundsAssumption
<1> SUFFICES ASSUME IInv, block PROVE IInv'
  OBVIOUS
<1> DEFINE bytes == requested_no_of_Byte
           from == OUTLEN * i
           copied == Copied(remainder_Byte)
<1>1. /\ pc = "loop" /\ i < m /\ i' = i + 1 /\ data' = inc(data)
      /\ remainder_Byte' = (remainder_Byte - copied) % WORD
      /\ return_bits' = [k \in 1..BUF |-> IF k - 1 - from \in 0..copied - 1
                                          THEN Digest(data)[k - 1 - from] ELSE return_bits[k]]
      /\ UNCHANGED <<drng, rc, pc, requested_no_of_bits, requested_no_of_Byte, m,
                     seeded, calls, draws, total, failures>>
  BY DEF block, CopyDigest
<1>2. /\ bytes \in 0..BUF /\ m \in Nat /\ i \in 0..m /\ bytes <= OUTLEN * m
      /\ OUTLEN * (m - 1) < bytes
  BY <1>1, LoopFacts
<1>3. /\ remainder_Byte = bytes - from /\ data = (drng.V + i) % MODULUS
      /\ \A k \in 1..BUF : return_bits[k] = IF k <= from /\ k <= bytes
                                            THEN StreamByte(drng.V, k, 8) ELSE Old
      /\ bytes = DIVISION_ROUND_UP(requested_no_of_bits, 8)
      /\ m = DIVISION_ROUND_UP(requested_no_of_bits, OUTLEN * 8)
  BY <1>1 DEF IInv, LoopInv
<1>4. drng.V \in Seed /\ drng \in Context
  BY DEF IInv, TypeOK, Context
<1>5. from \in Nat /\ OUTLEN * (i + 1) = from + OUTLEN /\ from <= OUTLEN * (m - 1)
      /\ (i + 1 < m => from + OUTLEN <= OUTLEN * (m - 1))
  <2>1. i \in Nat /\ i <= m - 1
    BY <1>1, <1>2
  <2>2. OUTLEN * (i + 1) = OUTLEN * i + OUTLEN
    BY <2>1
  <2>3. OUTLEN * i <= OUTLEN * (m - 1)
    BY <1>2, <2>1
  <2>4. i + 1 < m => OUTLEN * (i + 1) <= OUTLEN * (m - 1)
    BY <1>2, <2>1
  <2>5. OUTLEN * i \in Nat
    BY <2>1
  <2> QED  BY <2>2, <2>3, <2>4, <2>5
<1> HIDE DEF from
<1>6. from < bytes
  <2>1. OUTLEN * (m - 1) \in Int
    BY <1>2
  <2> QED  BY <1>2, <1>5, <2>1
<1>7. copied = IF bytes - from <= OUTLEN THEN bytes - from ELSE OUTLEN
  BY <1>2, <1>3, <1>5, <1>6 DEF Copied
<1>8. copied \in 1..OUTLEN /\ copied <= bytes - from
  BY <1>2, <1>5, <1>6, <1>7
<1>9. remainder_Byte' = bytes - from - copied
  <2>1. remainder_Byte - copied = bytes - from - copied
    BY <1>3
  <2>2. bytes - from - copied \in Nat /\ bytes - from - copied < WORD
    BY <1>2, <1>5, <1>8
  <2>3. \A n \in Nat : n < WORD => n % WORD = n
    OBVIOUS
  <2> QED  BY <1>1, <2>1, <2>2, <2>3
<1> HIDE DEF copied
<1>10. ASSUME NEW k \in 1..BUF
       PROVE  return_bits'[k] = IF k <= from + OUTLEN /\ k <= bytes
                                THEN StreamByte(drng.V, k, 8) ELSE Old
  <2>1. CASE k - 1 - from \in 0..copied - 1
    <3>1. k - 1 - from \in 0..OUTLEN - 1 /\ k <= from + OUTLEN /\ k <= bytes
      BY <1>2, <1>5, <1>8, <2>1
    <3>2. return_bits'[k] = [data |-> data, j |-> k - 1 - from, high |-> 8]
      BY <1>1, <2>1, <3>1 DEF Digest
    <3>3. (k - 1) \div OUTLEN = i /\ (k - 1) % OUTLEN = k - 1 - from
      <4>1. k - 1 \in Nat /\ i \in Nat /\ k - 1 - OUTLEN * i \in 0..OUTLEN - 1
        BY <1>2, <3>1 DEF from
      <4> QED  BY <4>1, BlockOf DEF from
    <3> QED  BY <1>3, <3>1, <3>2, <3>3 DEF StreamByte
  <2>2. CASE ~(k - 1 - from \in 0..copied - 1)
    <3>1. return_bits'[k] = return_bits[k]
      BY <1>1, <2>2
    <3>2. (k <= from /\ k <= bytes) <=> (k <= from + OUTLEN /\ k <= bytes)
      BY <1>2, <1>5, <1>6, <1>7, <2>2
    <3> QED  BY <1>3, <3>1, <3>2
  <2> QED  BY <2>1, <2>2
<1>11. data' \in Seed /\ data' = (drng.V + (i + 1)) % MODULUS
  <2>1. drng.V \in Nat /\ i \in Nat
    BY <1>2, <1>4 DEF Seed
  <2>2. data' = (drng.V + i + 1) % MODULUS
    BY <1>1, <1>3, <2>1, IncSum
  <2> QED  BY <2>1, <2>2 DEF Seed
<1>12. LoopInv'
  <2>1. i' \in 0..m'
    BY <1>1, <1>2
  <2>2. i' < m' => remainder_Byte' = bytes' - OUTLEN * i'
    <3> SUFFICES ASSUME i + 1 < m PROVE remainder_Byte' = bytes - (from + OUTLEN)
      BY <1>1, <1>5
    <3>1. from + OUTLEN < bytes
      <4>1. OUTLEN * (m - 1) \in Int
        BY <1>2
      <4> QED  BY <1>2, <1>5, <4>1
    <3> QED  BY <1>2, <1>5, <1>7, <1>9, <3>1
  <2>3. \A k \in 1..BUF : return_bits'[k] = IF k <= OUTLEN * i' /\ k <= bytes'
                                            THEN StreamByte(drng'.V, k, 8) ELSE Old
    BY <1>1, <1>5, <1>10
  <2> QED  BY <1>1, <1>3, <1>11, <2>1, <2>2, <2>3 DEF LoopInv
<1>13. TypeOK'
  <2>1. return_bits' \in Buffer
    <3>1. \A k \in 1..BUF : StreamByte(drng.V, k, 8) \in Byte
      BY <1>4, StreamTypes
    <3>2. \A k \in 1..BUF : return_bits'[k] \in Byte \cup {Old}
      BY <1>10, <3>1
    <3> QED  BY <1>1, <3>2 DEF Buffer
  <2>2. remainder_Byte' \in Nat /\ i' \in Nat
    BY <1>1, <1>2, <1>5, <1>8, <1>9
  <2> QED  BY <1>1, <1>11, <2>1, <2>2 DEF IInv, TypeOK
<1>14. DrawsInv' /\ SameStart' /\ ChainInv'
  BY <1>1 DEF IInv, DrawsInv, SameStart, ChainInv, Follows
<1> QED  BY <1>12, <1>13, <1>14 DEF IInv

\* The bits kept of byte k, in terms of the bytes of the request.
LEMMA LastByte ==
  ASSUME NEW bits \in Nat, NEW bytes \in Nat, NEW k \in Nat \ {0},
         bits <= 8 * bytes, bytes >= 1 => 8 * (bytes - 1) < bits
  PROVE  /\ 8 * (k - 1) < bits <=> k <= bytes
         /\ k < bytes => HighBits(bits, k) = 8
         /\ k = bytes => HighBits(bits, k) = 8 - (8 * bytes - bits) /\ HighBits(bits, k) \in 1..8
BY DEF HighBits

LEMMA ReturnInv == IInv /\ get_random_number_return => IInv'
<1> USE SizesAssumption, BoundsAssumption
<1> SUFFICES ASSUME IInv, get_random_number_return PROVE IInv'
  OBVIOUS
<1> DEFINE bytes == requested_no_of_Byte
           bits == requested_no_of_bits
           draw == [nonce |-> seeded, n |-> calls, from |-> drng, bits |-> bits,
                    out |-> return_bits']
<1>1. /\ pc = "loop" /\ i >= m /\ pc' = "idle" /\ drng' = Advanced(drng) /\ calls' = calls + 1
      /\ return_bits' = Masked(return_bits, bytes, bits)
      /\ draws' = draws \cup {draw}
      /\ UNCHANGED <<rc, requested_no_of_bits, requested_no_of_Byte, m, i, remainder_Byte,
                     data, seeded, total, failures>>
  BY DEF get_random_number_return, request
<1>2. /\ bytes \in 0..BUF /\ m \in Nat /\ i \in 0..m /\ bytes <= OUTLEN * m
      /\ bits \in 0..8 * BUF /\ bits <= 8 * bytes
      /\ bytes >= 1 => 8 * (bytes - 1) < bits
  BY <1>1, LoopFacts
<1>3. i = m
  BY <1>1, <1>2
<1>4. \A k \in 1..BUF : return_bits[k] = IF k <= bytes THEN StreamByte(drng.V, k, 8) ELSE Old
  <2>1. \A k \in 1..BUF : return_bits[k] = IF k <= OUTLEN * i /\ k <= bytes
                                           THEN StreamByte(drng.V, k, 8) ELSE Old
    BY <1>1 DEF IInv, LoopInv
  <2>2. OUTLEN * i \in Nat /\ bytes <= OUTLEN * i
    BY <1>2, <1>3
  <2>3. \A k \in 1..BUF : k <= bytes => k <= OUTLEN * i
    BY <1>2, <2>2
  <2> QED  BY <2>1, <2>3
<1>5. return_bits \in Buffer
  BY DEF IInv, TypeOK
<1>6. ASSUME NEW k \in 1..BUF
      PROVE  return_bits'[k] = IF 8 * (k - 1) < bits
                               THEN StreamByte(drng.V, k, HighBits(bits, k)) ELSE Old
  <2>1. /\ 8 * (k - 1) < bits <=> k <= bytes
        /\ k < bytes => HighBits(bits, k) = 8
        /\ k = bytes => HighBits(bits, k) = 8 - (8 * bytes - bits)
    <3>1. bits \in Nat /\ bytes \in Nat /\ k \in Nat \ {0}
      BY <1>2
    <3> QED  BY <1>2, <3>1, LastByte
  <2>2. CASE k = bytes
    <3>1. bytes >= 1 /\ bytes \in 1..BUF
      BY <2>2
    <3>2. return_bits' = [return_bits EXCEPT ![bytes].high = 8 - (8 * bytes - bits)]
      BY <1>1, <3>1 DEF Masked
    <3>3. return_bits'[k] = [return_bits[k] EXCEPT !.high = 8 - (8 * bytes - bits)]
      BY <1>5, <2>2, <3>2 DEF Buffer
    <3>4. return_bits[k] = StreamByte(drng.V, k, 8)
      BY <1>4, <2>2, <3>1
    <3>5. return_bits'[k] = StreamByte(drng.V, k, 8 - (8 * bytes - bits))
      BY <3>3, <3>4 DEF StreamByte
    <3> QED  BY <2>1, <2>2, <3>1, <3>5
  <2>3. CASE k # bytes
    <3>1. return_bits'[k] = return_bits[k]
      BY <1>1, <1>5, <2>3 DEF Masked, Buffer
    <3>2. k < bytes \/ ~(k <= bytes)
      BY <1>2, <2>3
    <3> QED  BY <1>4, <2>1, <3>1, <3>2
  <2> QED  BY <2>2, <2>3
<1>7. drng \in Context /\ drng.V \in Seed
  BY DEF IInv, TypeOK, Context
<1>8. return_bits' \in Buffer
  <2>1. ASSUME NEW k \in 1..BUF, 8 * (k - 1) < bits
        PROVE  StreamByte(drng.V, k, HighBits(bits, k)) \in Byte
    <3>1. HighBits(bits, k) \in 1..8
      BY <1>2, <2>1 DEF HighBits
    <3> QED  BY <1>7, <3>1, StreamTypes
  <2>2. \A k \in 1..BUF : return_bits'[k] \in Byte \cup {Old}
    BY <1>6, <2>1
  <2>3. return_bits' = [k \in 1..BUF |-> return_bits'[k]]
    BY <1>1, <1>5 DEF Masked, Buffer
  <2> QED  BY <2>2, <2>3 DEF Buffer
<1>9. TypeOK'
  <2>1. drng' \in Context
    BY <1>1, <1>7, ContextTypes
  <2>2. draw \in [nonce : Nonces \cup {NoNonce}, n : Nat, from : Context,
                  bits : 0..8 * BUF, out : Buffer]
    BY <1>2, <1>7, <1>8 DEF IInv, TypeOK
  <2>3. calls' \in Nat
    BY <1>1 DEF IInv, TypeOK
  <2> HIDE DEF draw
  <2> QED  BY <1>1, <1>8, <2>1, <2>2, <2>3 DEF IInv, TypeOK
<1>10. LoopInv'
  BY <1>1 DEF LoopInv
<1>11. DrawsInv'
  <2>1. \A k \in 1..BUF : draw.out[k] = IF 8 * (k - 1) < draw.bits
          THEN StreamByte(draw.from.V, k, HighBits(draw.bits, k)) ELSE Old
    BY <1>6
  <2> HIDE DEF draw
  <2>2. \A d \in draws' : d \in draws \/ d = draw
    BY <1>1
  <2> QED  BY <2>1, <2>2 DEF IInv, DrawsInv
<1>12. ASSUME NEW c, NEW a, NEW n, Follows(c, a, n) PROVE Follows(c, a, n)'
  BY <1>1, <1>12 DEF Follows
<1>13. ChainInv'
  <2>1. seeded # NoNonce => Follows(draw.from, seeded, draw.n)
    BY DEF IInv, ChainInv
  <2>2. draw \in draws' /\ draw.nonce = seeded /\ draw.n = calls /\ draw.from = drng
    BY <1>1
  <2>3. \A d \in draws' : d \in draws \/ d = draw
    BY <1>1
  <2> HIDE DEF draw
  <2>4. calls \in Nat /\ calls' # 0 /\ calls' - 1 = calls
    BY <1>1 DEF IInv, TypeOK
  <2>5. Follows(drng, seeded, calls)'
    BY <1>1, <2>2, <2>4 DEF Follows
  <2>6. ASSUME NEW d \in draws', d.nonce # NoNonce PROVE Follows(d.from, d.nonce, d.n)'
    <3>1. Follows(d.from, d.nonce, d.n)
      BY <2>1, <2>2, <2>3, <2>6 DEF IInv, ChainInv
    <3> QED  BY <1>1, <3>1 DEF Follows
  <2> QED  BY <2>5, <2>6 DEF ChainInv
<1>14. SameStart'
  <2>1. ASSUME NEW d \in draws, d.nonce = seeded, seeded # NoNonce, d.n = calls
        PROVE  d.from = drng
    <3>1. Follows(d.from, seeded, calls) /\ Follows(drng, seeded, calls)
      BY <2>1 DEF IInv, ChainInv
    <3>2. CASE calls = 0
      BY <3>1, <3>2 DEF Follows
    <3>3. CASE calls # 0
      <4>1. PICK e \in draws : e.nonce = seeded /\ e.n = calls - 1 /\ d.from = Advanced(e.from)
        BY <3>1, <3>3 DEF Follows
      <4>2. PICK f \in draws : f.nonce = seeded /\ f.n = calls - 1 /\ drng = Advanced(f.from)
        BY <3>1, <3>3 DEF Follows
      <4>3. e.from = f.from
        BY <2>1, <4>1, <4>2 DEF IInv, SameStart
      <4> QED  BY <4>1, <4>2, <4>3
    <3> QED  BY <3>2, <3>3
  <2>2. draw.nonce = seeded /\ draw.n = calls /\ draw.from = drng
    OBVIOUS
  <2>3. \A d \in draws' : d \in draws \/ d = draw
    BY <1>1
  <2> HIDE DEF draw
  <2> SUFFICES ASSUME NEW d \in draws', NEW e \in draws',
                      d.nonce = e.nonce, d.nonce # NoNonce, d.n = e.n
               PROVE  d.from = e.from
    BY DEF SameStart
  <2>4. CASE d \in draws /\ e \in draws
    BY <2>4 DEF IInv, SameStart
  <2>5. CASE d = draw \/ e = draw
    BY <2>1, <2>2, <2>3, <2>5
  <2> QED  BY <2>3, <2>4, <2>5
<1> QED  BY <1>9, <1>10, <1>11, <1>13, <1>14 DEF IInv

LEMMA Invariance == Spec => []IInv
<1>1. IInv /\ [Next]_vars => IInv'
  <2> SUFFICES ASSUME IInv, [Next]_vars PROVE IInv'
    OBVIOUS
  <2>1. CASE UNCHANGED vars
    BY <2>1 DEF vars, request, IInv, TypeOK, LoopInv, DrawsInv, ChainInv, SameStart, Follows,
                Buffer, Context
  <2> QED  BY <2>1, InstantiateInv, RequestInv, BlockInv, ReturnInv DEF Next
<1> QED  BY <1>1, InitInv, PTL DEF Spec

----------------------------------------------------------------------------
(* The theorems.                                                           *)

\* Every variable keeps its type; in particular no request, whatever its length,
\* makes a counter of drng.c:137-163 negative.
THEOREM DrngTypes == Spec => []TypeOK
<1>1. IInv => TypeOK
  BY DEF IInv
<1> QED  BY <1>1, Invariance, PTL

\* The loop of drng.c:144-166 writes the request block by block: no gap, and
\* nothing past the last byte.
THEOREM LoopWritesTheRequest == Spec => []WrittenSoFar
<1>1. IInv => WrittenSoFar
  <2> SUFFICES ASSUME IInv, pc = "loop", NEW k \in 1..BUF
               PROVE  return_bits[k] # Old <=> k <= OUTLEN * i /\ k <= requested_no_of_Byte
    BY DEF WrittenSoFar
  <2>1. return_bits[k] = IF k <= OUTLEN * i /\ k <= requested_no_of_Byte
                         THEN StreamByte(drng.V, k, 8) ELSE Old
    BY DEF IInv, LoopInv
  <2>2. StreamByte(drng.V, k, 8) # Old
    <3>1. return_bits[k] \in Byte \cup {Old} /\ drng.V \in Seed
      BY DEF IInv, TypeOK, Buffer, Context
    <3>2. StreamByte(drng.V, k, 8) \in Byte
      BY <3>1, StreamTypes
    <3> QED  BY <3>2, OldAssumption
  <2> QED  BY <2>1, <2>2
<1> QED  BY <1>1, Invariance, PTL

\* A draw delivers the bytes and the bits that were asked for and no other.
THEOREM DrawsFitTheRequest == Spec => []ExactlyTheRequest
<1>1. IInv => ExactlyTheRequest
  <2> SUFFICES ASSUME IInv, NEW d \in draws, NEW k \in 1..BUF
               PROVE  /\ d.out[k] # Old <=> 8 * (k - 1) < d.bits
                      /\ d.out[k] # Old =>
                           d.out[k].high = IF d.bits >= 8 * k THEN 8 ELSE d.bits - 8 * (k - 1)
    BY DEF ExactlyTheRequest
  <2>1. d.out[k] = IF 8 * (k - 1) < d.bits
                   THEN StreamByte(d.from.V, k, HighBits(d.bits, k)) ELSE Old
    BY DEF IInv, DrawsInv
  <2>2. d.from.V \in Seed /\ d.bits \in Nat
    BY SizesAssumption DEF IInv, TypeOK, Context
  <2>3. CASE 8 * (k - 1) < d.bits
    <3>1. HighBits(d.bits, k) \in 1..8
      BY <2>2, <2>3 DEF HighBits
    <3>2. d.out[k] # Old
      BY <2>1, <2>2, <2>3, <3>1, StreamTypes, OldAssumption
    <3>3. d.out[k].high = HighBits(d.bits, k)
      BY <2>1, <2>3 DEF StreamByte
    <3> QED  BY <2>3, <3>2, <3>3 DEF HighBits
  <2>4. CASE ~(8 * (k - 1) < d.bits)
    BY <2>1, <2>4
  <2> QED  BY <2>3, <2>4
<1> QED  BY <1>1, Invariance, PTL

\* What a draw delivers depends on its seed and number only: the stream of
\* get_random_number does not depend on how the requests before it were cut.
THEOREM StreamIsDeterministic == Spec => []Deterministic
<1>1. IInv => Deterministic
  <2> SUFFICES ASSUME IInv, NEW d \in draws, NEW e \in draws,
                      d.nonce = e.nonce, d.nonce # NoNonce, d.n = e.n,
                      NEW k \in 1..BUF, 8 * k <= d.bits, 8 * k <= e.bits
               PROVE  d.out[k] = e.out[k]
    BY DEF Deterministic
  <2>1. d.from = e.from
    BY DEF IInv, SameStart
  <2>2. d.bits \in Nat /\ e.bits \in Nat
    BY SizesAssumption DEF IInv, TypeOK
  <2>3. /\ d.out[k] = StreamByte(d.from.V, k, HighBits(d.bits, k))
        /\ e.out[k] = StreamByte(e.from.V, k, HighBits(e.bits, k))
    <3>1. 8 * (k - 1) < d.bits /\ 8 * (k - 1) < e.bits
      BY <2>2
    <3> QED  BY <3>1 DEF IInv, DrawsInv
  <2>4. HighBits(d.bits, k) = 8 /\ HighBits(e.bits, k) = 8
    BY <2>2 DEF HighBits
  <2> QED  BY <2>1, <2>3, <2>4
<1> QED  BY <1>1, Invariance, PTL

\* No two bytes of a draw are the same byte of the same hash.
THEOREM DrawsDoNotRepeat == Spec => []BlocksDiffer
<1>1. IInv => BlocksDiffer
  <2> SUFFICES ASSUME IInv, NEW d \in draws, NEW k \in 1..BUF, NEW l \in 1..BUF,
                      d.out[k] # Old, d.out[l] # Old,
                      d.out[k].data = d.out[l].data, d.out[k].j = d.out[l].j
               PROVE  k = l
    BY DEF BlocksDiffer
  <2> DEFINE a == (k - 1) \div OUTLEN
             b == (l - 1) \div OUTLEN
  <2>1. /\ d.out[k] = StreamByte(d.from.V, k, HighBits(d.bits, k))
        /\ d.out[l] = StreamByte(d.from.V, l, HighBits(d.bits, l))
    BY DEF IInv, DrawsInv
  <2>2. /\ (d.from.V + a) % MODULUS = (d.from.V + b) % MODULUS
        /\ (k - 1) % OUTLEN = (l - 1) % OUTLEN
    BY <2>1 DEF StreamByte
  <2>3. d.from.V \in Seed
    BY DEF IInv, TypeOK, Context
  <2>4. a \in Seed /\ b \in Seed
    BY BlockNumber
  <2>5. a = b
    <3> HIDE DEF a, b
    <3> QED  BY <2>2, <2>3, <2>4, AddInjective
  <2>6. /\ k - 1 = OUTLEN * a + ((k - 1) % OUTLEN)
        /\ l - 1 = OUTLEN * b + ((l - 1) % OUTLEN)
    BY SizesAssumption
  <2> HIDE DEF a, b
  <2>7. k - 1 = l - 1
    BY <2>2, <2>5, <2>6, Zenon
  <2> QED  BY <2>7
<1> QED  BY <1>1, Invariance, PTL
=============================================================================
