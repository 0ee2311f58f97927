-------------------------------- MODULE Pke --------------------------------
(***************************************************************************)
(* One key generation, encryption and decryption of pke.c: four products   *)
(* of ring.c over windows of rows, two of them rounded from R_q to R_p, two*)
(* of them cut to their last ELL rows and packed with a message, or        *)
(* unpacked to one.  Or, alone: one call of ring_mul; or the two packers on*)
(* accumulators of any values that differ by any noise.                    *)
(*                                                                         *)
(* R_q is Z_q[X, Y] with X^N = -1 and Y^K = X + 2; an element is K         *)
(* polynomials, its rows.  Sums of products of words are written modulo q: *)
(* q divides 2^16, and every use of an accumulator is modulo p or q.       *)
(***************************************************************************)
EXTENDS MessageCode, Sums

CONSTANTS
  N, K, ELL,   \* RRLWR_N, RRLWR_K, RRLWR_PKE_ELL
  As,          \* what ring_uniform makes of a seedA: ring elements
  Ss,          \* and of a secret seed: ring elements with entries in -2..1
  Messages,    \* messages: the bits of ELL rows
  Accs,        \* accumulators modulo P, for the packers alone
  Noises       \* and what the decryptor's differ by

Poly == [0..N - 1 -> 0..Q - 1]
Ring == [0..K - 1 -> Poly]
Rows(S) == [0..ELL - 1 -> [0..N - 1 -> S]]

ASSUME SizesAssumption ==
  N \in Nat \ {0, 1} /\ K \in Nat \ {0} /\ ELL \in 1..K
ASSUME UniformAssumption == As \subseteq Ring /\ Ss \subseteq Ring
ASSUME PackersAssumption ==
  Messages \subseteq Rows({0, 1}) /\ Accs \subseteq Rows(0..P - 1) /\ Noises \subseteq Rows(Int)

VARIABLES
  a, s, sp,   \* from the seeds
  b, bp,      \* the public key's and the ciphertext's element of R_p
  msg, cm, m, \* the message, its codes in the ciphertext, and what they decrypt to
  vp, v,      \* the accumulators that encryptor and decryptor packed, modulo P
  ncoeffs, r, \* of ring_mul: the last rows asked for, and where they go
  aw, i,      \* the window of the running product, and its next row
  pc

vars == <<half, a, s, sp, b, bp, msg, cm, m, vp, v, ncoeffs, r, aw, i, pc>>

NoWindow == <<>>
Zeros == [k \in 0..ELL - 1 |-> [d \in 0..N - 1 |-> 0]]

Init ==
  /\ half \in Halves /\ a \in As /\ s \in Ss /\ sp \in Ss /\ msg \in Messages
  /\ b = [k \in 0..K - 1 |-> [d \in 0..N - 1 |-> 0]] /\ bp = b
  /\ cm = Zeros /\ m = Zeros /\ vp = Zeros /\ v = Zeros
  /\ \/ pc = "keygen" /\ ncoeffs = 0
     \/ pc = "mul" /\ ncoeffs \in 1..K /\ sp = s
     \/ pc = "pack" /\ ncoeffs = 0 /\ a = (CHOOSE x \in As : TRUE) /\ s = (CHOOSE x \in Ss : TRUE) /\ sp = s
  /\ r = [k \in 0..ncoeffs - 1 |-> [d \in 0..N - 1 |-> 0]]
  /\ aw = NoWindow /\ i = 0

----------------------------------------------------------------------------
(* Polynomials and windows.                                                *)

\* What coefficient e of f adds to coefficient d of the product of f and g.
Terms(f, g, d) ==
  [e \in 0..N - 1 |-> IF e <= d THEN f[e] * g[d - e] ELSE -(f[e] * g[N + d - e])]

\* poly_mul_toom4_u16, by its result (Toom4).
Product(f, g) == [d \in 0..N - 1 |-> SumTo(Terms(f, g, d), N) % Q]

\* Mutant: what leaves at the top comes back without its sign.
poly_mul_x_plus_2_unsigned(f) ==
  [d \in 0..N - 1 |-> (2 * f[d] + (IF d = 0 THEN f[N - 1] ELSE f[d - 1])) % Q]

poly_mul_x_plus_2(f) ==
  [d \in 0..N - 1 |-> (2 * f[d] + (IF d = 0 THEN -f[N - 1] ELSE f[d - 1])) % Q]

\* The rows of x backwards, and again times X + 2.
Awin(x) ==
  [w \in 0..2 * K - 2 |->
     IF w < K THEN x[K - 1 - w] ELSE poly_mul_x_plus_2(x[2 * K - 1 - w])]

\* acc after the loop over j, for the current row.
Acc(y) ==
  [d \in 0..N - 1 |-> SumTo([j \in 0..K - 1 |-> Product(aw[K - 1 - i + j], y[j])[d]], K) % Q]

\* Mutant: rounds down.
round_q_to_p_down(x) == (x \div (Q \div P)) % P

round_q_to_p(x) == ((x + Q \div (2 * P)) \div (Q \div P)) % P

Rounded(f) == [d \in 0..N - 1 |-> round_q_to_p(f[d])]
ModP(f) == [d \in 0..N - 1 |-> f[d] % P]

\* The codes of a row of accumulators and bits, and the bits of accumulators and codes.
StoredRow(f, bits) == [d \in 0..N - 1 |-> Stored(f[d], bits[d])]
DecodedRow(f, codes) == [d \in 0..N - 1 |-> Decoded(f[d], codes[d])]

----------------------------------------------------------------------------
(* The four products.  Each begins with its window, and counts its rows    *)
(* down from K - 1.                                                        *)

Begin(x) == aw = NoWindow /\ aw' = Awin(x) /\ i' = K - 1

\* One row is done; after the last one the window is dropped.
RowDone(last, next) ==
  IF i > last THEN i' = i - 1 /\ UNCHANGED <<aw, pc>>
              ELSE i' = 0 /\ aw' = NoWindow /\ pc' = next

ring_uniform_Awin ==
  /\ pc \in {"keygen", "encrypt"} /\ Begin(a)
  /\ UNCHANGED <<half, a, s, sp, b, bp, msg, cm, m, vp, v, ncoeffs, r, pc>>

ring_unpack_Awin ==
  /\ \/ pc = "encrypt_v" /\ Begin(b)
     \/ pc = "decrypt" /\ Begin(bp)
  /\ UNCHANGED <<half, a, s, sp, b, bp, msg, cm, m, vp, v, ncoeffs, r, pc>>

ring_to_Awin ==
  /\ pc = "mul" /\ Begin(a)
  /\ UNCHANGED <<half, a, s, sp, b, bp, msg, cm, m, vp, v, ncoeffs, r, pc>>

\* ring_mul after its window.
ring_mul_Awin ==
  LET row_0 == K - ncoeffs
  IN  /\ pc = "mul" /\ aw # NoWindow
      /\ r' = [r EXCEPT ![i - row_0] = Acc(s)]
      /\ RowDone(row_0, "done_mul")
      /\ UNCHANGED <<half, a, s, sp, b, bp, msg, cm, m, vp, v, ncoeffs>>

ring_mul_Awin_round_p ==
  /\ aw # NoWindow
  /\ \/ pc = "keygen" /\ b' = [b EXCEPT ![i] = Rounded(Acc(s))] /\ UNCHANGED bp
        /\ RowDone(0, "encrypt")
     \/ pc = "encrypt" /\ bp' = [bp EXCEPT ![i] = Rounded(Acc(sp))] /\ UNCHANGED b
        /\ RowDone(0, "encrypt_v")
  /\ UNCHANGED <<half, a, s, sp, msg, cm, m, vp, v, ncoeffs, r>>

\* Mutant: the first ELL rows instead of the last.
row_min_first == 0

row_min == K - ELL

ring_mul_Awin_add_msg_pack_t ==
  /\ pc = "encrypt_v" /\ aw # NoWindow
  /\ LET out == i - row_min
     IN  /\ cm' = [cm EXCEPT ![out] = StoredRow(Acc(sp), msg[out])]
         /\ vp' = [vp EXCEPT ![out] = ModP(Acc(sp))]
  /\ RowDone(row_min, "decrypt")
  /\ UNCHANGED <<half, a, s, sp, b, bp, msg, m, v, ncoeffs, r>>

\* Mutant: the loop over the last ELL rows runs once more.
ring_mul_Awin_sub_cm_pack_msg_more ==
  /\ pc = "decrypt" /\ aw # NoWindow
  /\ LET out == i - row_min
     IN  /\ m' = [m EXCEPT ![out] = DecodedRow(Acc(s), cm[out])]
         /\ v' = [v EXCEPT ![out] = ModP(Acc(s))]
  /\ RowDone(row_min - 1, "done")
  /\ UNCHANGED <<half, a, s, sp, b, bp, msg, cm, vp, ncoeffs, r>>

ring_mul_Awin_sub_cm_pack_msg ==
  /\ pc = "decrypt" /\ aw # NoWindow
  /\ LET out == i - row_min
     IN  /\ m' = [m EXCEPT ![out] = DecodedRow(Acc(s), cm[out])]
         /\ v' = [v EXCEPT ![out] = ModP(Acc(s))]
  /\ RowDone(row_min, "done")
  /\ UNCHANGED <<half, a, s, sp, b, bp, msg, cm, vp, ncoeffs, r>>

----------------------------------------------------------------------------
(* The packers alone, all rows at once.                                    *)

poly_pack_ciphertext_t_from_acc_msg ==
  /\ pc = "pack" /\ pc' = "unpack"
  /\ vp' \in Accs
  /\ cm' = [k \in 0..ELL - 1 |-> StoredRow(vp'[k], msg[k])]
  /\ UNCHANGED <<half, a, s, sp, b, bp, msg, m, v, ncoeffs, r, aw, i>>

poly_pack_message_from_acc_cm ==
  /\ pc = "unpack" /\ pc' = "unpacked"
  /\ \E e \in Noises :
       v' = [k \in 0..ELL - 1 |-> [d \in 0..N - 1 |-> (vp[k][d] + e[k][d]) % P]]
  /\ m' = [k \in 0..ELL - 1 |-> DecodedRow(v'[k], cm[k])]
  /\ UNCHANGED <<half, a, s, sp, b, bp, msg, cm, vp, ncoeffs, r, aw, i>>

Next ==
  \/ ring_uniform_Awin \/ ring_unpack_Awin \/ ring_mul_Awin_round_p
  \/ ring_mul_Awin_add_msg_pack_t \/ ring_mul_Awin_sub_cm_pack_msg
  \/ ring_to_Awin \/ ring_mul_Awin
  \/ poly_pack_ciphertext_t_from_acc_msg \/ poly_pack_message_from_acc_cm

Spec == Init /\ [][Next]_vars

----------------------------------------------------------------------------
(* Properties.                                                             *)

RingP == [0..K - 1 -> [0..N - 1 -> 0..P - 1]]

\* A code has LOGT bits.
VariableTypes ==
  /\ half \in Halves /\ a \in As /\ s \in Ss /\ sp \in Ss /\ msg \in Messages
  /\ b \in RingP /\ bp \in RingP
  /\ cm \in Rows(0..T - 1) /\ m \in Rows({0, 1})
  /\ vp \in Rows(0..P - 1) /\ v \in Rows(0..P - 1)
  /\ ncoeffs \in 0..K /\ r \in [0..ncoeffs - 1 -> Poly]
  /\ aw \in {NoWindow} \cup [0..2 * K - 2 -> Poly] /\ i \in 0..K - 1
  /\ pc \in {"keygen", "encrypt", "encrypt_v", "decrypt", "done", "mul", "done_mul",
            "pack", "unpack", "unpacked"}

\* The row of the result that the running product writes next, and how many it has.
OutRow == i - (CASE pc = "mul" -> K - ncoeffs [] pc \in {"encrypt_v", "decrypt"} -> row_min [] OTHER -> 0)
OutRows == CASE pc = "mul" -> ncoeffs [] pc \in {"encrypt_v", "decrypt"} -> ELL [] OTHER -> K

\* Every variable has its type, and each of the four products addresses only rows that
\* its result has: K of them, the last ELL, or the ncoeffs that the caller asked for
\* (the counter of ring.c:99,123,146,170 stops in time, and out is counted from row_min).
\* The rows of the window follow from i \in 0..K - 1.
TypeOK ==
  /\ VariableTypes
  /\ aw # NoWindow => OutRow \in 0..OutRows - 1

\* The product in R_q: rows of the product over Z_q[X][Y], and those that
\* reach Y^K come back K rows lower, times X + 2.
RowOf(x, y, k) ==
  [d \in 0..N - 1 |->
     SumTo([j \in 0..K - 1 |-> IF k - j \in 0..K - 1 THEN Product(x[k - j], y[j])[d] ELSE 0], K)
       % Q]
XPlus2 == [d \in 0..N - 1 |-> CASE d = 0 -> 2 [] d = 1 -> 1 [] OTHER -> 0]
RingProduct(x, y) ==
  [k \in 0..K - 1 |-> [d \in 0..N - 1 |->
     (RowOf(x, y, k)[d] + Product(XPlus2, RowOf(x, y, k + K))[d]) % Q]]

\* The windows of rows multiply in R_q (ring.c:45-183): each result is the
\* rounded product of its operands, or the last rows of it.
ProductsAreRight ==
  /\ pc = "done_mul" => r = [k \in 0..ncoeffs - 1 |-> RingProduct(a, s)[k + K - ncoeffs]]
  /\ pc \in {"encrypt", "encrypt_v", "decrypt", "done"} =>
       b = [k \in 0..K - 1 |-> Rounded(RingProduct(a, s)[k])]
  /\ pc = "done" =>
       /\ bp = [k \in 0..K - 1 |-> Rounded(RingProduct(a, sp)[k])]
       /\ vp = [k \in 0..ELL - 1 |-> ModP(RingProduct(b, sp)[k + K - ELL])]
       /\ v = [k \in 0..ELL - 1 |-> ModP(RingProduct(bp, s)[k + K - ELL])]

Centred(x, q) == IF x % q >= q \div 2 THEN (x % q) - q ELSE x % q
AbsOf(x) == IF x < 0 THEN -x ELSE x

\* What row k of a product with x adds up of an error of one unit everywhere:
\* rows that wrap at Y^K come back with the factor X + 2.
Weight(x, k) ==
  SumTo([j \in 0..K - 1 |-> (IF j <= k THEN 1 ELSE 3) *
           SumTo([d \in 0..N - 1 |-> AbsOf(Centred(x[j][d], Q))], N)], K)

\* What decapsulation rests on: the two parties' values agree up to the rounding
\* errors of b and b', half a unit each, times the secrets.  The last rows have
\* the fewest factors X + 2, the last one none (row_min of ring.c).
NoiseIsBounded ==
  pc = "done" =>
    \A k \in row_min..K - 1, d \in 0..N - 1 :
      2 * AbsOf(Centred(v[k - row_min][d] - vp[k - row_min][d], P)) <= Weight(s, k) + Weight(sp, k)

\* A message bit survives any noise in the window, whatever the accumulator is
\* and wherever it wraps modulo P (packing.c:162-271).
DecodesInWindow ==
  pc \in {"done", "unpacked"} =>
    \A k \in 0..ELL - 1, d \in 0..N - 1 :
      InWindow(v[k][d] - vp[k][d]) => m[k][d] = msg[k][d]

\* The window is exact: noise one beyond either end is decoded wrongly for the
\* coefficients that the encryptor's rounding moved the most.
WindowIsExact ==
  pc \in {"done", "unpacked"} =>
    \A k \in 0..ELL - 1, d \in 0..N - 1 :
      LET e == v[k][d] - vp[k][d]
          low == (vp[k][d] + H1) % Step[half]
      IN  /\ (e - (Highest + 1)) % P = 0 /\ low = Step[half] - 1 => m[k][d] # msg[k][d]
          /\ (e - (Lowest - 1)) % P = 0 /\ low = 0 => m[k][d] # msg[k][d]

\* The fused code computes what the separate steps of pke.c and poly.c compute.
FusedAgrees ==
  /\ pc \in {"decrypt", "done", "unpack", "unpacked"} =>
       \A k \in 0..ELL - 1, d \in 0..N - 1 :
         cm[k][d] = pack_t(compress(add_msg(vp[k][d], msg[k][d])))
  /\ pc \in {"done", "unpacked"} =>
       \A k \in 0..ELL - 1, d \in 0..N - 1 :
         m[k][d] = round_to_bit(subp(v[k][d], decompress(unpack_t(cm[k][d]))))
=============================================================================
