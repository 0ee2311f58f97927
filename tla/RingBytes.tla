----------------------------- MODULE RingBytes -----------------------------
(***************************************************************************)
(* Ring elements and bytes: the calls of ring.c, packing.c and uniform.c   *)
(* that pack an element, unpack one, or fill one from streams of shake128, *)
(* a polynomial after the other.  Each polynomial is a run of Packing, the *)
(* module this one extends, with its input taken from the place and its    *)
(* output put at the place that the offsets of the caller give.            *)
(*                                                                         *)
(* A bit of an element is named by row, word and place; a squeezed bit by  *)
(* the nonce of its stream, the byte in it and the place.                  *)
(***************************************************************************)
EXTENDS Packing, FiniteSets

CONSTANTS
  LOGQ,      \* RRLWR_PKE_LOGQ
  LOGP,      \* RRLWR_PKE_LOGP
  RATE,      \* SHAKE128_RATE
  Requests,  \* the calls: records [fn, K, ELL, bitlen]
  Garbage    \* what a bit of a buffer is before

ASSUME RatesAssumption == N % 32 = 0 /\ RATE \in Nat \ {0} /\ LOGQ \in Nat
ASSUME GarbageAssumption == Garbage \notin Nat \X Nat \X Nat

VARIABLES
  fn,      \* the function that runs
  K, ELL,  \* of the build
  buf,     \* bytes: each a function from places to sets of bits
  nonce,   \* streams that were squeezed
  i,       \* polynomials that were dealt with
  x        \* row of the element that is filled -> word -> place -> set of bits

ring == <<fn, K, ELL, buf, nonce, i, x>>

Packers == {"ring_pack", "ring_mul_Awin_add_msg_pack_t"}
Fused == {"ring_mul_Awin_add_msg_pack_t", "ring_mul_Awin_sub_cm_pack_msg"}
Samplers == {"ring_uniform", "ring_uniform_Awin_base", "poly_uniform"}

\* The fused functions are written for the two values of LOGT, and ring_pack_11 for a LOGP
\* of 11; the buffer for streams is sized for LOGQ bits.
ASSUME RequestsAssumption ==
  \A r \in Requests :
    /\ r.fn \in Packers \cup Samplers
    /\ r.K \in Nat \ {0} /\ r.ELL \in 1..r.K /\ r.bitlen \in Bitlens \cup DOMAIN Name
    /\ r.fn \in Fused => r.bitlen \in {3, 8}
    /\ r.fn = "ring_pack" /\ r.bitlen = 11 => LOGP = 11
    /\ r.fn \in Samplers \ {"poly_uniform"} => r.bitlen <= LOGQ

\* The functions that read what a packer wrote.
Readers == [f \in Packers |-> IF f = "ring_pack" THEN {"ring_unpack", "ring_unpack_Awin"}
                              ELSE {"ring_mul_Awin_sub_cm_pack_msg"}]

----------------------------------------------------------------------------
(* Sizes and offsets.                                                      *)

RRLWR_MAX_OUTLEN == (((LOGQ * N) \div 4) * K) \div 8
RRLWR_XOF_BUFLEN == (((RRLWR_MAX_OUTLEN + RATE) - 1) \div RATE) * RATE
RRLWR_MAX_SAMPLING_BITLEN == 24

outlen == bitlen * (N \div 8)

\* Mutant: the quotient is rounded down.
nblocks_down == ((outlen \div 4) * K) \div RATE

nblocks == (((outlen \div 4) * K + RATE) - 1) \div RATE

\* poly_uniform has one stream of the length of its polynomial.
Streams == CASE fn = "poly_uniform" -> 1 [] fn \in Samplers \ {"poly_uniform"} -> 4 [] OTHER -> 0
StreamLen == IF fn = "poly_uniform" THEN outlen ELSE nblocks * RATE

Polys == IF fn = "poly_uniform" THEN 1 ELSE IF fn \in Fused THEN ELL ELSE K

BufLen == CASE fn = "poly_uniform" -> RRLWR_MAX_SAMPLING_BITLEN * (N \div 8)
            [] fn \in Samplers \ {"poly_uniform"} -> 4 * RRLWR_XOF_BUFLEN
            [] OTHER -> Polys * outlen

RRLWR_PACKED_POLY2_LEN == (2 * N) \div 8
RRLWR_PKE_PACKED_POLYP_LEN == (LOGP * N) \div 8

\* A fused function packs LOGT bits.
RRLWR_PKE_PACKED_POLYT_LEN == (bitlen * N) \div 8

\* The polynomial of this iteration.  The fused functions begin with the last row.
Poly == IF fn \in Fused THEN (ELL - 1) - i ELSE i

\* Mutant: the unrolled functions of ring_pack share an offset.
PackOffset_2 ==
  IF unrolled THEN Poly * RRLWR_PACKED_POLY2_LEN ELSE Poly * outlen

\* Where the loops of the packers, one for each function, put the bytes of a polynomial.
PackOffset ==
  CASE fn \in Fused -> Poly * RRLWR_PKE_PACKED_POLYT_LEN
    [] fn = "ring_pack" /\ bitlen = 2 -> Poly * RRLWR_PACKED_POLY2_LEN
    [] fn = "ring_pack" /\ bitlen = 11 -> Poly * RRLWR_PKE_PACKED_POLYP_LEN
    [] OTHER -> Poly * outlen

\* Where those of the readers look for them.
UnpackOffset ==
  CASE fn \in Fused -> Poly * RRLWR_PKE_PACKED_POLYT_LEN
    [] fn = "ring_unpack" /\ bitlen = 2 -> Poly * RRLWR_PACKED_POLY2_LEN
    [] OTHER -> Poly * outlen

\* Mutant: the rows are filled from the front.
Row_front == Poly

\* The windows hold row K - 1 of the element first.
Row == IF fn \in {"ring_uniform_Awin_base", "ring_unpack_Awin"} THEN K - 1 - Poly ELSE Poly

\* The function that poly_pack and poly_unpack choose; the fused ones are unrolled.
Unrolled(f, d) == f \in Fused \/ bitlen \in (IF d = "pack" THEN {2, 11} ELSE {2, 11, 13})

----------------------------------------------------------------------------
(* The calls.                                                              *)

NoBits == [j \in 0..7 |-> {Garbage}]

RingInit ==
  /\ \E r \in Requests : fn = r.fn /\ K = r.K /\ ELL = r.ELL /\ bitlen = r.bitlen
  /\ buf = [p \in 0..BufLen - 1 |-> NoBits]
  /\ nonce = 0 /\ i = 0 /\ x = <<>>
  /\ dir = (IF fn \in Packers THEN "pack" ELSE "unpack")
  /\ unrolled = Unrolled(fn, dir)
  /\ acc = {} /\ acc_shift = 0 /\ in = 0 /\ out = <<>>

\* poly_pack or poly_unpack starts.
Enter(f, d) ==
  /\ dir' = d /\ unrolled' = Unrolled(f, d)
  /\ acc' = {} /\ acc_shift' = 0 /\ in' = 0 /\ out' = <<>>
  /\ UNCHANGED bitlen

\* Mutant: the nonce is not passed on.
NonceOf_zero(n) == 0

NonceOf(n) == n

\* shake128 into buf, behind the stream before.
squeeze_seed_nonce ==
  LET start == nonce * StreamLen
  IN  /\ nonce < Streams /\ nonce' = nonce + 1
      /\ buf' = [p \in DOMAIN buf \cup start..(start + StreamLen) - 1 |->
                   IF p \in start..(start + StreamLen) - 1
                   THEN [j \in 0..7 |-> {<<NonceOf(nonce), p - start, j>>}]
                   ELSE buf[p]]
      /\ UNCHANGED <<fn, K, ELL, i, x, vars>>

\* An iteration of the loops of Packing.
poly_step == nonce = Streams /\ i < Polys /\ Next /\ UNCHANGED ring

Returned == nonce = Streams /\ i < Polys /\ in = Units /\ (unrolled \/ ~Full)

\* The bits that a unit of the output was made of, of the units that went in.
Made(bits, units) == [j \in 0..To - 1 |-> UNION {units[b[1]][b[2]] : b \in bits[j]}]

\* A row of the element that is packed.
Packed == [w \in 0..N - 1 |-> [j \in 0..bitlen - 1 |-> {<<Poly, w, j>>}]]

poly_pack_return ==
  /\ dir = "pack" /\ Returned
  /\ buf' = [p \in DOMAIN buf \cup PackOffset..(PackOffset + outlen) - 1 |->
               IF p \in PackOffset..(PackOffset + outlen) - 1
               THEN Made(out[(p - PackOffset) + 1], Packed)
               ELSE buf[p]]
  /\ IF i + 1 < Polys
     THEN i' = i + 1 /\ UNCHANGED fn /\ Enter(fn, "pack")
     ELSE i' = 0 /\ fn' \in Readers[fn] /\ Enter(fn', "unpack")
  /\ UNCHANGED <<K, ELL, nonce, x>>

poly_unpack_return ==
  LET bytes == [n \in 0..outlen - 1 |-> buf[UnpackOffset + n]]
  IN  /\ dir = "unpack" /\ Returned /\ i' = i + 1
      /\ x' = [u \in DOMAIN x \cup {Row} |->
                 IF u = Row THEN [w \in 0..N - 1 |-> Made(out[w + 1], bytes)] ELSE x[u]]
      /\ Enter(fn, "unpack")
      /\ UNCHANGED <<fn, K, ELL, buf, nonce>>

RingNext == squeeze_seed_nonce \/ poly_step \/ poly_pack_return \/ poly_unpack_return

RingSpec == RingInit /\ [][RingNext]_<<ring, vars>>

----------------------------------------------------------------------------
(* Properties.                                                             *)

Filled == dir = "unpack" /\ i = Polys

\* Unpacking gives back the element that was packed, every row and every bit, whether
\* generic or unrolled functions did either, and the window of an element holds its
\* rows backwards (packing.c:316-345,384-411, ring.c:59-66,144-182): each packer and each
\* reader has an offset expression of its own, which must agree for the lengths of
\* parameters.h:63-66, and the fused pair works from the last row down.
RoundTrip ==
  Filled /\ fn \notin Samplers =>
    \A u \in 0..Polys - 1 : \A w \in 0..N - 1 : \A j \in 0..bitlen - 1 :
      x[IF fn = "ring_unpack_Awin" THEN K - 1 - u ELSE u][w][j] = {<<u, w, j>>}

\* A sampled element is made of squeezed bits only, one to each bit of each
\* coefficient, and none is used twice, in one coefficient or in two: the four
\* streams leave no gap between them, reach to the end of the last polynomial, do
\* not run over the end of the buffer, and are different (uniform.c:61-78).
FreshCoefficients ==
  /\ DOMAIN buf = 0..BufLen - 1
  /\ Filled /\ fn \in Samplers =>
       LET used == UNION {x[u][w][j] : u \in DOMAIN x, w \in 0..N - 1, j \in 0..bitlen - 1}
       IN  /\ DOMAIN x = 0..Polys - 1 /\ Garbage \notin used
           /\ \A u \in DOMAIN x : \A w \in 0..N - 1 : \A j \in 0..bitlen - 1 :
                Cardinality(x[u][w][j]) = 1
           /\ Cardinality(used) = Polys * N * bitlen
=============================================================================
