----------------------------- MODULE MCKeccak ------------------------------
(* Absorbed and squeezed strings with the rates of the code, for TLC. *)
EXTENDS Keccak

Pattern(n, a) == [i \in 1..n |-> (a * i * i + 31 * i) % 256]

MCChunks ==
  {[at |-> 0, bytes |-> Pattern(136, 7)],   \* a whole block of SHA3-256 and SHAKE256
   [at |-> 129, bytes |-> Pattern(7, 90)],  \* the end of a block, inside one lane
   [at |-> 5, bytes |-> Pattern(6, 201)]}   \* across two lanes
MCEnds ==
  {[pos |-> 0, r |-> 136, p |-> 6],         \* SHA3-256
   [pos |-> 167, r |-> 168, p |-> 31]}      \* SHAKE128, both in the last byte
MCTakes == {[pos |-> 0, n |-> 32], [pos |-> 61, n |-> 9], [pos |-> 135, n |-> 1]}
=============================================================================
