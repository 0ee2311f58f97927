-------------------------------- MODULE Drng --------------------------------
(***************************************************************************)
(* The deterministic random number generator of drng.c: init_random_number *)
(* with its allocations, and get_random_number with its block loop.        *)
(*                                                                         *)
(* The SEEDLEN-byte numbers V, C and reseed_counter are integers below     *)
(* MODULUS = 256^SEEDLEN; BigNumber shows that the loops on their bytes    *)
(* add modulo MODULUS.  An output byte is named by the data that was       *)
(* hashed, its position in the digest, and how many high bits are kept.    *)
(***************************************************************************)
EXTENDS Integers, Sequences

CONSTANTS
  Nonces,     \* the seeds a caller passes
  NoNonce,    \* no seed, or one that an allocation failure kept out of V and C
  MODULUS,    \* 256^SEEDLEN
  BYTE,       \* 256
  DIGEST,     \* 256^OUTLEN
  OUTLEN,     \* bytes of a sha3_256 digest
  WORD,       \* 2^64, the width of the byte counters
  DfNonce,    \* SHA3_df of a nonce
  RawNonce,   \* the first SEEDLEN bytes of a nonce, padded with zeros
  DfPadded,   \* SHA3_df of 00 || V
  Sha3Padded, \* sha3_256 of 03 || V
  Requests,   \* numbers of bits that callers ask for
  BUF,        \* bytes of the caller's buffer
  Old,        \* a byte that the call has not written
  MaxCalls, MaxFailures

Seed == 0..MODULUS - 1

ASSUME SizesAssumption ==
  /\ MODULUS \in Nat \ {0} /\ BYTE \in Nat \ {0} /\ OUTLEN \in Nat \ {0}
  /\ DIGEST \in 1..MODULUS /\ WORD \in Nat /\ BUF \in Nat /\ BUF < WORD
\* A buffer has fewer blocks than there are numbers: 256^55.
ASSUME BlocksAssumption == BUF <= OUTLEN * MODULUS
ASSUME NoncesAssumption == NoNonce \notin Nonces
ASSUME HashAssumption ==
  /\ DfNonce \in [Nonces -> Seed] /\ RawNonce \in [Nonces -> Seed]
  /\ DfPadded \in [Seed -> Seed] /\ Sha3Padded \in [Seed -> 0..DIGEST - 1]
ASSUME RequestsAssumption == Requests \subseteq 0..8 * BUF
ASSUME BoundsAssumption == MaxCalls \in Nat /\ MaxFailures \in Nat

VARIABLES
  drng,        \* DRNG_ctx: V, C, reseed_counter
  rc,          \* what init_random_number returned last
  pc,          \* "idle", or "loop" inside SHA3_DRNG_Generate
  requested_no_of_bits, requested_no_of_Byte, m, i, remainder_Byte, data,
  return_bits, \* the caller's buffer
  seeded,      \* the nonce that V and C were derived from
  calls,       \* calls of get_random_number since then
  draws,       \* every draw: its nonce and number, the context, the bits asked for, the bytes
  total, failures   \* calls, and instantiations in which an allocation failed

request == <<requested_no_of_bits, requested_no_of_Byte, m, i, remainder_Byte, data>>
vars == <<drng, rc, pc, request, return_bits, seeded, calls, draws, total, failures>>

NotCalled == 1
DRNG_SUCCESS == 0
DRNG_MEMORY_ALLOCATION_FAILED == -2
Byte == [data : Seed, j : 0..OUTLEN - 1, high : 1..8]
ASSUME OldAssumption == Old \notin Byte

\* Mutant: rounds up what divides exactly as well.
DIVISION_ROUND_UP_always(dividend, divisor) == dividend \div divisor + 1

DIVISION_ROUND_UP(dividend, divisor) ==
  dividend \div divisor + (IF dividend % divisor # 0 THEN 1 ELSE 0)

inc(n) == (n + 1) % MODULUS

Zeros == [V |-> 0, C |-> 0, reseed_counter |-> 0]

Init ==
  /\ drng = Zeros /\ rc = NotCalled /\ pc = "idle"
  /\ requested_no_of_bits = 0 /\ requested_no_of_Byte = 0 /\ m = 0 /\ i = 0
  /\ remainder_Byte = 0 /\ data = 0
  /\ return_bits = [k \in 1..BUF |-> Old]
  /\ seeded = NoNonce /\ calls = 0 /\ draws = {} /\ total = 0 /\ failures = 0

----------------------------------------------------------------------------
\* SHA3_df leaves its input as it was when one of its allocations fails.
SHA3_df_nonce(nonce, ok) == IF ok THEN DfNonce[nonce] ELSE RawNonce[nonce]
SHA3_df_padded(v, ok) == IF ok THEN DfPadded[v] ELSE v \div BYTE

Instantiated(v, c) == [V |-> v, C |-> c, reseed_counter |-> inc(0)]

\* The context after every allocation succeeded.
SeededBy(nonce) == Instantiated(DfNonce[nonce], DfPadded[DfNonce[nonce]])

\* SHA3_DRNG_Instantiate: the results of SHA3_df are not looked at.
init_random_number ==
  /\ pc = "idle" /\ total < MaxCalls
  /\ total' = total + 1 /\ calls' = 0
  /\ \E nonce \in Nonces, ok, ok1, ok2 \in BOOLEAN :
       /\ failures + (IF ok /\ ok1 /\ ok2 THEN 0 ELSE 1) <= MaxFailures
       /\ failures' = failures + (IF ok /\ ok1 /\ ok2 THEN 0 ELSE 1)
       /\ seeded' = IF ok /\ ok1 /\ ok2 THEN nonce ELSE NoNonce
       /\ \/ ~ok /\ drng' = Zeros /\ rc' = DRNG_MEMORY_ALLOCATION_FAILED
          \/ /\ ok /\ rc' = DRNG_SUCCESS
             /\ LET v == SHA3_df_nonce(nonce, ok1)
                IN  drng' = Instantiated(v, SHA3_df_padded(v, ok2))
  /\ UNCHANGED <<pc, request, return_bits, draws>>

\* SHA3_DRNG_Generate up to its loop.
get_random_number ==
  /\ pc = "idle" /\ total < MaxCalls
  /\ \E bits \in Requests :
       /\ requested_no_of_bits' = bits
       /\ m' = DIVISION_ROUND_UP(bits, OUTLEN * 8)
       /\ requested_no_of_Byte' = DIVISION_ROUND_UP(bits, 8)
  /\ remainder_Byte' = requested_no_of_Byte'
  /\ data' = drng.V /\ i' = 0
  /\ return_bits' = [k \in 1..BUF |-> Old]
  /\ pc' = "loop" /\ total' = total + 1
  /\ UNCHANGED <<drng, rc, seeded, calls, draws, failures>>

\* Mutant: the last block is copied whole.
Copied_whole(remainder) == OUTLEN

\* Bytes of the digest that an iteration copies: the inner loop stops when the
\* counter reaches zero, so from zero it copies them all.
Copied(remainder) == IF remainder \in 1..OUTLEN THEN remainder ELSE OUTLEN

Digest(v) == [j \in 0..OUTLEN - 1 |-> [data |-> v, j |-> j, high |-> 8]]

\* Hash data, copy what is still due, count down.
CopyDigest ==
  /\ pc = "loop" /\ i < m
  /\ return_bits' = [k \in 1..BUF |->
       IF k - 1 - OUTLEN * i \in 0..Copied(remainder_Byte) - 1
       THEN Digest(data)[k - 1 - OUTLEN * i] ELSE return_bits[k]]
  /\ remainder_Byte' = (remainder_Byte - Copied(remainder_Byte)) % WORD
  /\ i' = i + 1
  /\ UNCHANGED <<rc, pc, requested_no_of_bits, requested_no_of_Byte, m,
                 seeded, calls, draws, total, failures>>

\* Mutant: data is not advanced.
block_same_data == CopyDigest /\ UNCHANGED <<data, drng>>

\* Mutant: data is drng->V itself and not a copy of it.
block_on_V == CopyDigest /\ data' = inc(data) /\ drng' = [drng EXCEPT !.V = inc(@)]

\* One iteration of the loop.
block == CopyDigest /\ data' = inc(data) /\ UNCHANGED drng

\* Mutant: no request was made for a part of a byte.
Masked_whole(buf, bytes, bits) == buf

\* The last byte keeps its high bits only.
Masked(buf, bytes, bits) ==
  IF bytes >= 1 THEN [buf EXCEPT ![bytes].high = 8 - (8 * bytes - bits)] ELSE buf

Advanced(ctx) ==
  [ctx EXCEPT !.V = (@ + Sha3Padded[ctx.V] + ctx.C + ctx.reseed_counter) % MODULUS,
              !.reseed_counter = inc(@)]

\* SHA3_DRNG_Generate after its loop.
get_random_number_return ==
  /\ pc = "loop" /\ i >= m
  /\ pc' = "idle"
  /\ return_bits' = Masked(return_bits, requested_no_of_Byte, requested_no_of_bits)
  /\ drng' = Advanced(drng)
  /\ calls' = calls + 1
  /\ draws' = draws \cup {[nonce |-> seeded, n |-> calls, from |-> drng,
                           bits |-> requested_no_of_bits, out |-> return_bits']}
  /\ UNCHANGED <<rc, request, seeded, total, failures>>

Next == init_random_number \/ get_random_number \/ block \/ get_random_number_return

Spec == Init /\ [][Next]_vars

----------------------------------------------------------------------------
(* Properties.                                                             *)

Context == [V : Seed, C : Seed, reseed_counter : Seed]
Buffer == [1..BUF -> Byte \cup {Old}]

\* Every variable has its type.
TypeOK ==
  /\ drng \in Context /\ pc \in {"idle", "loop"}
  /\ rc \in {NotCalled, DRNG_SUCCESS, DRNG_MEMORY_ALLOCATION_FAILED}
  /\ requested_no_of_bits \in 0..8 * BUF /\ requested_no_of_Byte \in 0..BUF
  /\ m \in Nat /\ i \in Nat /\ remainder_Byte \in Nat /\ data \in Seed
  /\ return_bits \in Buffer
  /\ seeded \in Nonces \cup {NoNonce} /\ calls \in Nat
  /\ draws \subseteq [nonce : Nonces \cup {NoNonce}, n : Nat, from : Context,
                  bits : 0..8 * BUF, out : Buffer]
  /\ total \in 0..MaxCalls /\ failures \in 0..MaxFailures

\* While the loop runs, exactly the first OUTLEN * i bytes are written, as far as
\* the request goes: the 64-bit remainder never wraps below zero, no block
\* writes past the request, and none leaves a gap.
WrittenSoFar ==
  pc = "loop" =>
    \A k \in 1..BUF :
      return_bits[k] # Old <=> k <= OUTLEN * i /\ k <= requested_no_of_Byte

\* A finished draw has written each byte of the request and none after it, and
\* of the bits of the last byte only those that were asked for.
ExactlyTheRequest ==
  \A d \in draws : \A k \in 1..BUF :
    /\ d.out[k] # Old <=> 8 * (k - 1) < d.bits
    /\ d.out[k] # Old =>
         d.out[k].high = IF d.bits >= 8 * k THEN 8 ELSE d.bits - 8 * (k - 1)

\* The n-th draw after a seed is determined by the seed and n: two draws with the
\* same seed and number agree in every byte that both have whole, whatever their
\* lengths and the lengths of the draws before them.  (Kem names a draw by its
\* seed and its number.)
Deterministic ==
  \A d, e \in draws :
    d.nonce = e.nonce /\ d.nonce # NoNonce /\ d.n = e.n =>
      \A k \in 1..BUF : 8 * k <= d.bits /\ 8 * k <= e.bits => d.out[k] = e.out[k]

\* No two bytes of a draw are the same byte of the same hash: the blocks of a
\* request are hashed from different data.
BlocksDiffer ==
  \A d \in draws : \A k, l \in 1..BUF :
    d.out[k] # Old /\ d.out[l] # Old /\ k # l =>
      <<d.out[k].data, d.out[k].j>> # <<d.out[l].data, d.out[l].j>>

\* drng.h:34, "0 for success, others for error": init_random_number returns 0 only
\* if it has derived V and C from the seed.  The code ignores the result of
\* SHA3_df (drng.c:117,122).
SuccessMeansSeeded == rc = DRNG_SUCCESS => seeded # NoNonce
=============================================================================
