----------------------------- MODULE MessageCode -----------------------------
(***************************************************************************)
(* One coefficient of a message on its way through a ciphertext: the       *)
(* encryptor adds a message bit to the product v' and stores it rounded in *)
(* LOGT bits; the decryptor subtracts the stored value from its own product*)
(* v, which differs from v' by noise, and rounds to a bit.                 *)
(*                                                                         *)
(* The fused code of packing.c is what pke.c runs; the separate steps      *)
(* poly_add_msg, poly_compress, poly_decompress, poly_subp, poly_round_xtoy*)
(* are still there and are stated next to it.  All words of the code have  *)
(* a power of two of values and every result is masked to P or T values, so*)
(* a masked difference is a difference modulo P or T.                      *)
(***************************************************************************)
EXTENDS Integers

CONSTANTS
  Q,         \* RRLWR_PKE_Q
  Quarter,   \* RRLWR_PKE_P / 4
  Halves,    \* values of 2^(LOGT-1), one for each build
  Step       \* p/t for each of them

P == 4 * Quarter

ASSUME CodeAssumption ==
  /\ Quarter \in Nat \ {0} /\ Q \in Nat /\ Q % (2 * P) = 0 /\ Q >= 2 * P
  /\ Halves \subseteq Nat \ {0} /\ Step \in [Halves -> Nat \ {0}]
  /\ \A h \in Halves : Step[h] * h = 2 * Quarter

VARIABLE half   \* 2^(LOGT-1): RRLWR_PKE_LOGT is a build constant

H1 == Q \div (2 * P)

T == 2 * half
H2 == (Step[half] \div 2) - H1

----------------------------------------------------------------------------
(* The separate steps.                                                     *)

add_msg(v, m) == (v + H1 + m * 2 * Quarter) % P
compress(c) == c \div Step[half]
pack_t(c) == (half - 1 - c) % T
unpack_t(c) == (half - 1 - c) % T
decompress(c) == c * Step[half]
subp(f, g) == (f - g + H2) % P
Signed(c) == IF c >= 2 * Quarter THEN c - P ELSE c
round_to_bit(c) == ((Signed(c) + Quarter) \div (2 * Quarter)) % 2

(* The fused code. *)

\* Mutant: h1 is not added.
Stored_unrounded(v, m) == (half - 1 - ((v % P) \div Step[half]) - m * half) % T

\* Mutant: the code is not masked to LOGT bits.
Stored_unmasked(v, m) == half - 1 - (((v + H1) % P) \div Step[half]) - m * half

\* poly_pack_ciphertext_t_from_acc_msg, one coefficient.
Stored(v, m) == (half - 1 - (((v + H1) % P) \div Step[half]) - m * half) % T

\* The rounding of a value modulo P to one bit.
Bit(x) == (((x % P) + Quarter) \div (2 * Quarter)) % 2

\* Mutant: h2 is left out of the rounding.
Decoded_without_h2(v, c) == Bit((v % P) - (half - 1 - c) * Step[half])

\* poly_pack_message_from_acc_cm, one coefficient.
Decoded(v, c) == Bit((v % P) - (half - 1 - c) * Step[half] + H2)

----------------------------------------------------------------------------
(* What the rounding of a coefficient tolerates.                           *)

\* What the rounding adds to the noise: at least this, and at most Step - 1 more.
Offset == H2 - H1
Lowest == -Quarter - Offset
Highest == Quarter - 1 - Offset - (Step[half] - 1)

\* e lies, modulo P, between Lowest and Highest.
InWindow(e) == (e - Lowest) % P <= Highest - Lowest
=============================================================================
