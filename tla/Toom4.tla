------------------------------- MODULE Toom4 -------------------------------
(***************************************************************************)
(* The product of poly.c: Toom-Cook with four blocks, each of the seven    *)
(* products by a two-level Karatsuba, interpolated in 16-bit words and     *)
(* folded modulo X^N + 1 into r.                                           *)
(*                                                                         *)
(* The interpolation divides by powers of two after words have lost their  *)
(* high bits, so three bits of the result are rubbish: the product is      *)
(* right modulo W / 8, which is q.                                         *)
(***************************************************************************)
EXTENDS Integers, Sequences, Sums

CONSTANTS
  W,                    \* values of a uint16_t; a uint32_t has W * W
  INV3, INV9, INV15,    \* inverses modulo W: 43691, 36409, 61167
  Quart,                \* TOOM4_BLK / 4
  Operands, Starts      \* polynomials: factors, and what r holds before

Blk == 4 * Quart
N == 4 * Blk
RES == 2 * Blk - 1
Word == 0..W - 1

ASSUME WordAssumption ==
  /\ W \in Nat /\ W % 64 = 0
  /\ INV3 \in Word /\ INV9 \in Word /\ INV15 \in Word
  /\ (3 * INV3) % W = 1 /\ (9 * INV9) % W = 1 /\ (15 * INV15) % W = 1
ASSUME QuartAssumption == Quart \in Nat \ {0}
ASSUME OperandsAssumption ==
  Operands \subseteq [0..N - 1 -> Word] /\ Starts \subseteq [0..N - 1 -> Word]

VARIABLES
  a, b, r,
  before,   \* what r held at the call, zero if clear was set
  w,        \* w1 to w7
  i, pc

vars == <<a, b, r, before, w, i, pc>>

Zero == [k \in 0..N - 1 |-> 0]
NoProducts == <<>>

Init ==
  /\ a \in Operands /\ b \in Operands /\ r \in Starts
  /\ before = Zero /\ w = NoProducts /\ i = 0 /\ pc = "call"

----------------------------------------------------------------------------
(* karatsuba32_simple_u16.                                                 *)

\* The k-th quarter of a block.
Part(x, k) == [n \in 0..Quart - 1 |-> x[n + (k * Quart)]]
Plus(x, y) == [n \in DOMAIN x |-> (x[n] + y[n]) % W]
At(x, n) == IF n \in DOMAIN x THEN x[n] ELSE 0

\* The product of two blocks of len words.
Conv(x, y, len) ==
  [n \in 0..(2 * len) - 2 |-> SumTo([k \in 0..len - 1 |-> x[k] * At(y, n - k)], len) % W]

\* Mutant: the high product is not taken out of the middle one.
Combine_nohi(lo, mid, hi, len) ==
  [n \in 0..(4 * len) - 2 |->
     (At(lo, n) + At(hi, n - (2 * len)) + (At(mid, n - len) - At(lo, n - len))) % W]

\* Mutant: the sums are kept in wider words.
Combine_wide(lo, mid, hi, len) ==
  [n \in 0..(4 * len) - 2 |->
     At(lo, n) + At(hi, n - (2 * len))
        + ((At(mid, n - len) - At(lo, n - len)) - At(hi, n - len))]

\* The product of two blocks of 2 * len words from the products of their lower
\* halves, of the sums of their halves, and of their upper halves.
Combine(lo, mid, hi, len) ==
  [n \in 0..(4 * len) - 2 |->
     (At(lo, n) + At(hi, n - (2 * len))
        + ((At(mid, n - len) - At(lo, n - len)) - At(hi, n - len))) % W]

karatsuba32_simple_u16(x, y) ==
  LET Half(x0, x1, y0, y1) ==
        Combine(Conv(x0, y0, Quart), Conv(Plus(x0, x1), Plus(y0, y1), Quart),
                Conv(x1, y1, Quart), Quart)
      x02 == Plus(Part(x, 0), Part(x, 2))
      x13 == Plus(Part(x, 1), Part(x, 3))
      y02 == Plus(Part(y, 0), Part(y, 2))
      y13 == Plus(Part(y, 1), Part(y, 3))
  IN  Combine(Half(Part(x, 0), Part(x, 1), Part(y, 0), Part(y, 1)),
              Half(x02, x13, y02, y13),
              Half(Part(x, 2), Part(x, 3), Part(y, 2), Part(y, 3)), 2 * Quart)

----------------------------------------------------------------------------
(* toom4_128_fold_u16.                                                     *)

\* The blocks x0 to x3 as a polynomial at infinity, 2, 1, -1, 1/2, -1/2 (these
\* two times 8) and 0.
Evaluated(x, point) ==
  [j \in 0..Blk - 1 |->
     LET x0 == x[j]
         x1 == x[j + Blk]
         x2 == x[j + (2 * Blk)]
         x3 == x[j + (3 * Blk)]
     IN  (CASE point = 1 -> x3
            [] point = 2 -> 8 * x3 + 4 * x2 + 2 * x1 + x0
            [] point = 3 -> x0 + x2 + x1 + x3
            [] point = 4 -> (x0 + x2) - (x1 + x3)
            [] point = 5 -> 8 * x0 + 2 * x2 + 4 * x1 + x3
            [] point = 6 -> (8 * x0 + 2 * x2) - (4 * x1 + x3)
            [] point = 7 -> x0) % W]

\* x, an int, times an inverse as a uint32_t, shifted, and cut to a word.
DivBy(x, inv, pow) == (((x * inv) % (W * W)) \div pow) % W

\* Mutant: the last correction of r1 is forgotten.
Interpolated_early(p) ==
  LET r5 == (p[6] - p[5]) % W
      r3 == ((p[4] - p[3]) \div 2) % W
      r4 == (2 * ((p[5] - p[1]) - 64 * p[7]) + r5) % W
      s2 == (p[3] + r3) % W
      r2 == ((s2 - p[7]) - p[1]) % W
      s1 == (((p[2] + p[5]) - 65 * s2) + 45 * r2) % W
      t4 == DivBy(r4 - 8 * r2, INV3, 8)
      t1 == DivBy(s1 + 16 * r3, INV9, 2)
      t5 == DivBy(30 * t1 - ((r5 + s1) % W), INV15, 4)
  IN  <<p[7], t5, t4, (-(r3 + t1)) % W, (r2 - t4) % W, t1, p[1]>>

\* One word of the product of the two polynomials in the point: its coefficients
\* of degree 0 to 6.
Interpolated(p) ==
  LET r5 == (p[6] - p[5]) % W
      r3 == ((p[4] - p[3]) \div 2) % W
      r4 == (2 * ((p[5] - p[1]) - 64 * p[7]) + r5) % W
      s2 == (p[3] + r3) % W
      r2 == ((s2 - p[7]) - p[1]) % W
      s1 == (((p[2] + p[5]) - 65 * s2) + 45 * r2) % W
      t4 == DivBy(r4 - 8 * r2, INV3, 8)
      t1 == DivBy(s1 + 16 * r3, INV9, 2)
      t5 == DivBy(30 * t1 - ((r5 + s1) % W), INV15, 4)
  IN  <<p[7], t5, t4, (-(r3 + t1)) % W, (r2 - t4) % W, (t1 - t5) % W, p[1]>>

\* poly_macc_toom4_u16, and poly_mul_toom4_u16, which clears r.
toom4_128_fold_u16 ==
  /\ pc = "call" /\ pc' = "fold"
  /\ r' \in {r, Zero} /\ before' = r'
  /\ w' = [point \in 1..7 |->
             karatsuba32_simple_u16(Evaluated(a, point), Evaluated(b, point))]
  /\ UNCHANGED <<a, b, i>>

\* Mutant: what wraps around X^N keeps its sign.
Wrapped_plus(x, c) == x + c

Wrapped(x, c) == x - c

\* One iteration of the last loop: coefficient k of word i belongs to word
\* i + k * Blk of the product, and comes back negated from N on.
fold ==
  /\ pc = "fold" /\ i < RES
  /\ LET c == Interpolated([point \in 1..7 |-> w[point][i]])
         three == IF i < Blk THEN i + (3 * Blk) ELSE i - Blk
     IN  r' = [r EXCEPT ![i]             = Wrapped(@ + c[1], c[5]) % W,
                        ![i + Blk]       = Wrapped(@ + c[2], c[6]) % W,
                        ![i + (2 * Blk)] = Wrapped(@ + c[3], c[7]) % W,
                        ![three] = (IF i < Blk THEN @ + c[4] ELSE Wrapped(@, c[4])) % W]
  /\ i' = i + 1
  /\ UNCHANGED <<a, b, before, w, pc>>

fold_done ==
  /\ pc = "fold" /\ i = RES /\ pc' = "done"
  /\ UNCHANGED <<a, b, r, before, w, i>>

Next == toom4_128_fold_u16 \/ fold \/ fold_done

Spec == Init /\ [][Next]_vars

----------------------------------------------------------------------------
(* Properties.                                                             *)

\* Every variable has its type; in particular no index of r leaves it.
TypeOK ==
  /\ a \in Operands /\ b \in Operands
  /\ r \in [0..N - 1 -> Word] /\ before \in Starts \cup {Zero}
  /\ w = NoProducts \/ w \in [1..7 -> [0..RES - 1 -> Word]]
  /\ i \in 0..RES /\ pc \in {"call", "fold", "done"}

\* Karatsuba loses nothing: the seven products are right in all 16 bits.
ProductsAreExact ==
  pc # "call" =>
    \A point \in 1..7 : w[point] = Conv(Evaluated(a, point), Evaluated(b, point), Blk)

\* poly_mul_schoolbook.
Schoolbook(f, g, d) ==
  SumTo([k \in 0..N - 1 |-> IF k <= d THEN f[k] * g[d - k] ELSE -(f[k] * g[(N + d) - k])], N) % W

\* The result is the product modulo X^N + 1, added to what was there, in the low
\* 13 bits that R_q has: the words that the divisions spoil are spoiled only
\* above, whatever the factors are (unit_tests_KEM.c compares random ones).
RightModuloQ ==
  pc = "done" =>
    \A d \in 0..N - 1 : ((r[d] - before[d]) - Schoolbook(a, b, d)) % (W \div 8) = 0
=============================================================================
