------------------------------- MODULE Keccak -------------------------------
(***************************************************************************)
(* The state of fips202.c bit by bit: 25 lanes of uint64_t, the byte-wise  *)
(* and the lane-wise ways in and out of it, and the permutation, whose     *)
(* loop body is two rounds written out by hand, from A to E and back.      *)
(*                                                                         *)
(* A uint64_t is the set of its bits that are 1.  Lanes are numbered as in *)
(* state[], so Aba..Abu are 0..4, Aga..Agu 5..9, and so on.                *)
(***************************************************************************)
EXTENDS Integers, Sequences, FiniteSets, Sums

CONSTANTS
  Chunks,     \* byte strings that calls absorb: records [at, bytes]
  Ends,       \* paddings: records [pos, r, p]
  Takes,      \* what is squeezed byte by byte: records [pos, n]
  MaxXors,    \* bound: absorptions and paddings
  MaxCalls    \* bound: calls of the permutation

ByteString == Seq(0..255)

\* A chunk lies within the state.
ASSUME ChunksAssumption ==
  \A c \in Chunks : c.at \in Nat /\ c.bytes \in ByteString /\ c.at + Len(c.bytes) <= 200
\* The last byte of a block has the domain byte's bits and bit 7, which domain
\* bytes do not have.
ASSUME EndsAssumption ==
  \A e \in Ends : /\ e.r \in 1..200 /\ e.r % 8 = 0 /\ e.pos \in 0..e.r - 1
                 /\ e.p \in 0..127
ASSUME TakesAssumption ==
  \A t \in Takes : t.pos \in Nat /\ t.n \in Nat /\ t.pos + t.n <= 200
ASSUME BoundsAssumption == MaxXors \in Nat /\ MaxCalls \in Nat

VARIABLES
  state,      \* s[25]
  A, E,       \* the local lanes of the permutation
  round, stage,
  squeezed,   \* the bytes squeezed last, and where they were taken: [at, bytes]
  xors, calls

keccakVars == <<state, A, E, round, stage, squeezed, xors, calls>>

NROUNDS == 24

\* uint64_t arithmetic.
XorLanes(a, b) == {z \in 0..63 : (z \in a) # (z \in b)}
AndNot(a, b) == {z \in b : z \notin a}   \* (~a) & b
Shl(a, n) == {b + n : b \in {c \in a : c + n < 64}}
Shr(a, n) == {b - n : b \in {c \in a : c >= n}}
ROL(a, n) == XorLanes(Shl(a, n), Shr(a, 64 - n))

Lanes == 0..24
Zero == [l \in Lanes |-> {}]

----------------------------------------------------------------------------
(* Bytes and lanes.                                                        *)

\* A byte as a uint64_t, and a uint64_t cut to its low byte.
Word(byte) == {b \in 0..7 : (byte \div 2^b) % 2 = 1}
Byte(a) == SumTo([b \in 0..7 |-> IF b \in a THEN 2^b ELSE 0], 8)

\* Mutant: big-endian.
load64_reversed(x) == UNION {Shl(Word(x[i + 1]), 8 * (7 - i)) : i \in 0..7}

load64(x) == UNION {Shl(Word(x[i + 1]), 8 * i) : i \in 0..7}

\* Mutant: as many bits as bytes.
store64_short(a) == [i \in 1..8 |-> Byte(Shr(a, i - 1))]

store64(a) == [i \in 1..8 |-> Byte(Shr(a, 8 * (i - 1)))]

\* s[i / 8] ^= byte << 8 * (i % 8), for bytes that lie from byte at on.
XorIntoLanes(s, at, bytes) ==
  [l \in Lanes |->
     LET mine == {i \in at..at + Len(bytes) - 1 : i \div 8 = l}
     IN  XorLanes(s[l], UNION {Shl(Word(bytes[i - at + 1]), 8 * (i % 8)) : i \in mine})]

NoOutput == [at |-> 0, bytes |-> <<>>]

KeccakInit ==
  /\ state = Zero /\ A = Zero /\ E = Zero /\ round = 0 /\ stage = "idle"
  /\ squeezed = NoOutput /\ xors = 0 /\ calls = 0

XorIn(s) ==
  /\ stage = "idle" /\ xors < MaxXors
  /\ state' = s /\ xors' = xors + 1 /\ squeezed' = NoOutput
  /\ UNCHANGED <<A, E, round, stage, calls>>

keccak_absorb == \E c \in Chunks : XorIn(XorIntoLanes(state, c.at, c.bytes))

\* Whole blocks of keccak_absorb_once: s[i] ^= load64(in + 8 * i).
keccak_absorb_once_block ==
  \E c \in Chunks :
    /\ c.at = 0 /\ Len(c.bytes) % 8 = 0
    /\ XorIn([l \in Lanes |-> IF 8 * l >= Len(c.bytes) THEN state[l]
                              ELSE XorLanes(state[l], load64(SubSeq(c.bytes, 8 * l + 1, 8 * l + 8)))])

\* The domain byte at pos, and the last bit of the block.
keccak_finalize ==
  \E e \in Ends :
    LET s == XorIntoLanes(state, e.pos, <<e.p>>)
    IN  XorIn([s EXCEPT ![e.r \div 8 - 1] = XorLanes(@, {63})])

Squeeze(at, bytes) ==
  /\ stage = "idle" /\ calls > 0 /\ squeezed = NoOutput
  /\ squeezed' = [at |-> at, bytes |-> bytes]
  /\ UNCHANGED <<state, A, E, round, stage, xors, calls>>

\* *out++ = s[i / 8] >> 8 * (i % 8).
keccak_squeeze(pos, n) ==
  Squeeze(pos, [k \in 1..n |-> LET i == pos + k - 1 IN Byte(Shr(state[i \div 8], 8 * (i % 8)))])

\* store64(out + 8 * i, s[i]).
keccak_squeezeblocks(r) ==
  Squeeze(0, [k \in 1..r |-> store64(state[(k - 1) \div 8])[((k - 1) % 8) + 1]])

----------------------------------------------------------------------------
(* The permutation.                                                        *)

KeccakF_RoundConstants ==
  <<{0}, {1, 7, 15}, {1, 3, 7, 15, 63}, {15, 31, 63},
    {0, 1, 3, 7, 15}, {0, 31}, {0, 7, 15, 31, 63}, {0, 3, 15, 63},
    {1, 3, 7}, {3, 7}, {0, 3, 15, 31}, {1, 3, 31},
    {0, 1, 3, 7, 15, 31}, {0, 1, 3, 7, 63}, {0, 3, 7, 15, 63}, {0, 1, 15, 63},
    {1, 15, 63}, {7, 63}, {1, 3, 15}, {1, 3, 31, 63},
    {0, 7, 15, 31, 63}, {7, 15, 63}, {0, 31}, {3, 15, 31, 63}>>

\* The five groups of a half: the lanes that BCa, BCe, BCi, BCo and BCu are
\* taken from, and how far they are rotated.
BC ==
  << <<<<0, 0>>, <<6, 44>>, <<12, 43>>, <<18, 21>>, <<24, 14>>>>,
     <<<<3, 28>>, <<9, 20>>, <<10, 3>>, <<16, 45>>, <<22, 61>>>>,
     <<<<1, 1>>, <<7, 6>>, <<13, 25>>, <<19, 8>>, <<20, 18>>>>,
     <<<<4, 27>>, <<5, 36>>, <<11, 10>>, <<17, 15>>, <<23, 56>>>>,
     <<<<2, 62>>, <<8, 55>>, <<14, 39>>, <<15, 41>>, <<21, 2>>>> >>

\* Da..Du from the column parities BCa..BCu.
D(s) ==
  LET parity == [x \in 0..4 |-> XorLanes(XorLanes(XorLanes(XorLanes(
                                  s[x], s[x + 5]), s[x + 10]), s[x + 15]), s[x + 20])]
  IN  [x \in 0..4 |-> XorLanes(parity[(x + 4) % 5], ROL(parity[(x + 1) % 5], 1))]

\* Aba ^= Da, and so on for every lane.
prepareTheta(s) == LET d == D(s) IN [l \in Lanes |-> XorLanes(s[l], d[l % 5])]

\* thetaRhoPiChiIota from the lanes after prepareTheta.
RhoPiChiIota(t, constant) ==
  LET b == [g \in 0..4 |-> [x \in 0..4 |-> LET lane == BC[g + 1][x + 1]
                                           IN  IF lane[2] = 0 THEN t[lane[1]]
                                               ELSE ROL(t[lane[1]], lane[2])]]
      chi == [l \in Lanes |->
                LET bc == b[l \div 5]
                    x  == l % 5
                IN  XorLanes(bc[x], AndNot(bc[(x + 1) % 5], bc[(x + 2) % 5]))]
  IN  [chi EXCEPT ![0] = XorLanes(@, constant)]

copyFromState ==
  /\ stage = "idle" /\ calls < MaxCalls /\ stage' = "A"
  /\ A' = state /\ round' = 0 /\ calls' = calls + 1 /\ squeezed' = NoOutput
  /\ UNCHANGED <<state, E, xors>>

AtoE ==
  /\ stage = "A" /\ round < NROUNDS /\ stage' = "E"
  /\ A' = prepareTheta(A)
  /\ E' = RhoPiChiIota(A', KeccakF_RoundConstants[round + 1])
  /\ UNCHANGED <<state, round, squeezed, xors, calls>>

\* Mutant: the second half takes the constant of the first.
EtoA_same_constant ==
  /\ stage = "E" /\ stage' = "A"
  /\ E' = prepareTheta(E)
  /\ A' = RhoPiChiIota(E', KeccakF_RoundConstants[round + 1])
  /\ round' = round + 2
  /\ UNCHANGED <<state, squeezed, xors, calls>>

EtoA ==
  /\ stage = "E" /\ stage' = "A"
  /\ E' = prepareTheta(E)
  /\ A' = RhoPiChiIota(E', KeccakF_RoundConstants[round + 2])
  /\ round' = round + 2
  /\ UNCHANGED <<state, squeezed, xors, calls>>

\* The locals end with the call.
copyToState ==
  /\ stage = "A" /\ round >= NROUNDS /\ stage' = "idle"
  /\ state' = A /\ A' = Zero /\ E' = Zero /\ round' = 0
  /\ UNCHANGED <<squeezed, xors, calls>>

KeccakNext ==
  \/ keccak_absorb \/ keccak_absorb_once_block \/ keccak_finalize
  \/ copyFromState \/ AtoE \/ EtoA \/ copyToState
  \/ \E t \in Takes : keccak_squeeze(t.pos, t.n)
  \/ \E e \in Ends : keccak_squeezeblocks(e.r)

KeccakSpec == KeccakInit /\ [][KeccakNext]_keccakVars
----------------------------------------------------------------------------
\* The lanes that hold the state of the standard, and the rounds done.
Current == IF stage = "E" THEN E ELSE IF stage = "A" THEN A ELSE state
Ones == UNION {{64 * l + z : z \in Current[l]} : l \in Lanes}
RoundsDone == IF stage = "E" THEN round + 1 ELSE IF stage = "A" THEN round ELSE NROUNDS

Pieces ==
  {{c} : c \in Chunks}
    \cup {{[at |-> e.pos, bytes |-> <<e.p>>], [at |-> e.r - 1, bytes |-> <<128>>]} : e \in Ends}

Fips == INSTANCE Fips202 WITH S <- Ones, ir <- RoundsDone, Inputs <- Pieces, Rounds <- NROUNDS

\* Each half of the loop body, with its hand-written rotations, lane numbers and
\* round constants, is one round of the standard, for theta, rho, pi, chi and iota
\* defined by coordinates; and both ways of absorbing bytes into lanes, and the
\* padding, XOR in the standard's bit string (fips202.c:82-344,373-409,461-485).
RefinesFips202 == Fips!Spec

\* What is squeezed, byte by byte from any place or lane by lane, is the standard's
\* bit string of the state: the two ways give one stream (fips202.c:426-446,500-514).
SqueezedInOrder ==
  \A k \in 1..Len(squeezed.bytes), b \in 0..7 :
    LET j == 8 * (squeezed.at + k - 1) + b
    IN  Fips!BitOf(squeezed.bytes[k], b) <=> j % 64 \in state[j \div 64]
=============================================================================
