------------------------------ MODULE Fips202 ------------------------------
(***************************************************************************)
(* The standard's view of the Keccak state: a string of 1600 bits, into    *)
(* which bytes are XORed, and to which Keccak-p[1600, 24] is applied one   *)
(* round at a time.  The five step mappings are defined by coordinates;    *)
(* fips202.c is written from tables.                                       *)
(*                                                                         *)
(* Bit z of lane (x, y) is bit 64 * (5 * y + x) + z of the string; the     *)
(* state is the set of the bits that are 1.                                *)
(***************************************************************************)
EXTENDS Integers, Sequences, FiniteSets

CONSTANTS
  Inputs,   \* what may be XORed in: sets of pieces [at, bytes] that share no bit
  Rounds    \* 24

VARIABLES
  S,   \* the state
  ir   \* the next round; Rounds when none is due

vars == <<S, ir>>

Bit(x, y, z) == 64 * (5 * (y % 5) + (x % 5)) + (z % 64)
X(j) == (j \div 64) % 5
Y(j) == j \div 320
Z(j) == j % 64

BitOf(byte, b) == (byte \div 2^b) % 2 = 1

----------------------------------------------------------------------------
(* The step mappings.                                                      *)

\* The columns with an odd number of ones, and those whose two neighbours differ.
Column(s, x, z) == {y \in 0..4 : Bit(x, y, z) \in s}
OddColumns(s) == {c \in (0..4) \X (0..63) : Cardinality(Column(s, c[1], c[2])) % 2 = 1}
Flipped(s) ==
  {c \in (0..4) \X (0..63) : (<<(c[1] + 4) % 5, c[2]>> \in OddColumns(s))
                               # (<<(c[1] + 1) % 5, (c[2] + 63) % 64>> \in OddColumns(s))}

theta(s) == {j \in 0..1599 : (j \in s) # (<<X(j), Z(j)>> \in Flipped(s))}

\* The walk over the 24 lanes other than (0, 0).
Walk[t \in 0..23] ==
  IF t = 0 THEN <<1, 0>>
  ELSE LET p == Walk[t - 1] IN <<p[2], (2 * p[1] + 3 * p[2]) % 5>>

Offset == [t \in 0..23 |-> (((t + 1) * (t + 2)) \div 2) % 64]

\* The lane (x, y), turned by n.
Turned(s, x, y, n) == {Bit(x, y, z + n) : z \in {w \in 0..63 : Bit(x, y, w) \in s}}

rho(s) ==
  {j \in s : j < 64}
    \cup UNION {Turned(s, Walk[t][1], Walk[t][2], Offset[t]) : t \in 0..23}

pi(s) == {j \in 0..1599 : Bit(X(j) + 3 * Y(j), X(j), Z(j)) \in s}

\* The bits whose right neighbour is 0 and whose next one is 1.
Masked(s) ==
  {j \in 0..1599 : Bit(X(j) + 1, Y(j), Z(j)) \notin s /\ Bit(X(j) + 2, Y(j), Z(j)) \in s}
chi(s) == LET masked == Masked(s) IN {j \in 0..1599 : (j \in s) # (j \in masked)}

\* The shift register of eight bits that gives the round constants: the bit that
\* is pushed out is added to four of the others.  A round takes seven bits of it.
Shifted(r) ==
  LET up == {b + 1 : b \in r}
  IN  IF 8 \in up THEN {b \in 0..7 : (b \in up) # (b \in {0, 4, 5, 6})} ELSE up

After(r) == LET f[k \in 0..7] == IF k = 0 THEN r ELSE Shifted(f[k - 1]) IN f

Register[i \in 0..23] ==
  IF i = 0 THEN {0} ELSE UNION {After(r)[7] : r \in {Register[i - 1]}}

RC == [i \in 0..23 |-> {2^j - 1 : j \in {k \in 0..6 : 0 \in After(Register[i])[k]}}]

iota(s, i) == (s \ RC[i]) \cup (RC[i] \ s)

Rnd(s, i) == iota(chi(pi(rho(theta(s)))), i)

----------------------------------------------------------------------------
(* The state machine.                                                      *)

\* The bits of a byte string put at byte at, the least significant bit of each first.
Bits(at, bytes) ==
  {j \in 8 * at..8 * (at + Len(bytes)) - 1 : BitOf(bytes[(j \div 8) - at + 1], j % 8)}

Init == S = {} /\ ir = Rounds

XorIn ==
  /\ ir = Rounds /\ UNCHANGED ir
  /\ \E in \in Inputs :
       LET string == UNION {Bits(piece.at, piece.bytes) : piece \in in}
       IN  S' = (S \ string) \cup (string \ S)

Start == ir = Rounds /\ ir' = 0 /\ UNCHANGED S

Round ==
  /\ ir < Rounds /\ ir' = ir + 1
  /\ S' = Rnd(S, ir)

Next == XorIn \/ Start \/ Round

Spec == Init /\ [][Next]_vars
=============================================================================
