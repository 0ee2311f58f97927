------------------------------- MODULE Sponge -------------------------------
(***************************************************************************)
(* The sponge of fips202.c: incremental absorption in chunks of any size,  *)
(* the one-shot absorption, padding, and squeezing in chunks or in blocks. *)
(*                                                                         *)
(* The permutation is not opened: the state is the list of blocks that     *)
(* were permuted in, and what has been XORed into each byte since.  A      *)
(* message byte is its number, from 1; an output byte is the number of     *)
(* permutations before it and its place in the state.                      *)
(***************************************************************************)
EXTENDS Integers, Sequences

CONSTANTS
  R,        \* the rate in bytes
  DIGEST,   \* bytes of a sha3 digest
  MaxIn, MaxOut

ASSUME SpongeAssumption ==
  R \in Nat \ {0} /\ DIGEST \in 1..R /\ MaxIn \in Nat /\ MaxOut \in Nat

VARIABLES
  past,     \* the blocks that were permuted in
  lane,     \* what was XORed into each byte of the state since
  pos,      \* state->pos
  pc,
  inlen,    \* bytes of the call that are still to be absorbed
  outlen,   \* bytes of the call that are still to be squeezed
  nblocks,  \* blocks of the call that are still to be squeezed
  given,    \* bytes that all calls have handed over
  out       \* bytes squeezed by all calls

vars == <<past, lane, pos, pc, inlen, outlen, nblocks, given, out>>

DomainByte == 0
LastBit == -1
Empty == [j \in 0..R - 1 |-> {}]
Xor(a, b) == (a \ b) \cup (b \ a)

\* XOR n message bytes into the state from byte lo on; first is the first one's number.
XorBytes(l, lo, n, first) ==
  [j \in 0..R - 1 |-> IF j \in lo..lo + n - 1 THEN Xor(l[j], {first + j - lo}) ELSE l[j]]

\* Mutant: the last bit of the padding is left out when its byte has the domain byte.
Padded_once(l, i) ==
  [j \in 0..R - 1 |-> IF j = i THEN Xor(l[j], {DomainByte})
                      ELSE IF j = R - 1 THEN Xor(l[j], {LastBit}) ELSE l[j]]

\* The domain byte at i, and the last bit of the block, also when i is its last byte.
Padded(l, i) ==
  LET d == [l EXCEPT ![i] = Xor(@, {DomainByte})]
  IN  [d EXCEPT ![R - 1] = Xor(@, {LastBit})]

\* KeccakF1600_StatePermute.
Permute(l) == past' = Append(past, l) /\ lane' = Empty

Init ==
  /\ past = <<>> /\ lane = Empty /\ pos = 0 /\ pc = "start"
  /\ inlen = 0 /\ outlen = 0 /\ nblocks = 0 /\ given = 0 /\ out = <<>>

----------------------------------------------------------------------------
(* Absorbing.                                                              *)

shake_init ==
  /\ pc = "start" /\ pc' = "absorbing"
  /\ past' = <<>> /\ lane' = Empty /\ pos' = 0
  /\ UNCHANGED <<inlen, outlen, nblocks, given, out>>

shake_absorb ==
  /\ pc = "absorbing" /\ pc' = "absorb"
  /\ \E n \in 0..MaxIn - given : inlen' = n /\ given' = given + n
  /\ UNCHANGED <<past, lane, pos, outlen, nblocks, out>>

\* Mutant: a block that is exactly filled is not permuted.
Full_strict(position, remaining) == position + remaining > R

Full(position, remaining) == position + remaining >= R

absorb_block ==
  /\ pc = "absorb" /\ Full(pos, inlen)
  /\ Permute(XorBytes(lane, pos, R - pos, given - inlen + 1))
  /\ inlen' = inlen - (R - pos) /\ pos' = 0
  /\ UNCHANGED <<pc, outlen, nblocks, given, out>>

absorb_rest ==
  /\ pc = "absorb" /\ ~Full(pos, inlen) /\ pc' = "absorbing"
  /\ lane' = XorBytes(lane, pos, inlen, given - inlen + 1)
  /\ pos' = pos + inlen /\ inlen' = 0
  /\ UNCHANGED <<past, outlen, nblocks, given, out>>

\* Mutant: pos is left where the message ended.
shake_finalize_keeps_pos ==
  /\ pc = "absorbing" /\ pc' = "squeezing"
  /\ lane' = Padded(lane, pos)
  /\ UNCHANGED <<past, pos, inlen, outlen, nblocks, given, out>>

shake_finalize ==
  /\ pc = "absorbing" /\ pc' = "squeezing"
  /\ lane' = Padded(lane, pos) /\ pos' = R
  /\ UNCHANGED <<past, inlen, outlen, nblocks, given, out>>

shake_absorb_once ==
  /\ pc = "start" /\ pc' = "once"
  /\ past' = <<>> /\ lane' = Empty
  /\ \E n \in 0..MaxIn : inlen' = n /\ given' = n
  /\ UNCHANGED <<pos, outlen, nblocks, out>>

once_block ==
  /\ pc = "once" /\ inlen >= R
  /\ Permute(XorBytes(lane, 0, R, given - inlen + 1))
  /\ inlen' = inlen - R
  /\ UNCHANGED <<pos, pc, outlen, nblocks, given, out>>

once_rest ==
  /\ pc = "once" /\ inlen < R /\ pc' = "squeezing"
  /\ lane' = Padded(XorBytes(lane, 0, inlen, given - inlen + 1), inlen)
  /\ pos' = R /\ inlen' = 0
  /\ UNCHANGED <<past, outlen, nblocks, given, out>>

----------------------------------------------------------------------------
(* Squeezing.                                                              *)

\* Bytes lo..hi - 1 of a state that went through p permutations.
StateBytes(p, lo, hi) == [k \in 1..hi - lo |-> [perms |-> p, at |-> lo + k - 1]]

shake_squeeze ==
  /\ pc = "squeezing" /\ pc' = "squeeze"
  /\ outlen' \in 0..MaxOut - Len(out)
  /\ UNCHANGED <<past, lane, pos, inlen, nblocks, given, out>>

\* Mutant: the loop runs to the end of the block.
Taken_block(position, remaining) == R - position

\* Mutant: the loop stops one byte before the end of the block.
Taken_short(position, remaining) ==
  IF R - 1 - position < remaining THEN R - 1 - position ELSE remaining

Taken(position, remaining) == IF R - position < remaining THEN R - position ELSE remaining

\* One iteration: a fresh block if the last one is used up.
squeeze_part ==
  /\ pc = "squeeze" /\ outlen # 0
  /\ LET from == IF pos = R THEN 0 ELSE pos
         n == Taken(from, outlen)
     IN  /\ IF pos = R THEN Permute(lane) ELSE UNCHANGED <<past, lane>>
         /\ out' = out \o StateBytes(Len(past'), from, from + n)
         /\ outlen' = outlen - n /\ pos' = from + n
  /\ UNCHANGED <<pc, inlen, nblocks, given>>

squeeze_return ==
  /\ pc = "squeeze" /\ outlen = 0 /\ pc' = "squeezing"
  /\ UNCHANGED <<past, lane, pos, inlen, outlen, nblocks, given, out>>

\* The comment of keccak_squeezeblocks asks that no byte of the current block
\* has been squeezed; the callers do so right after the absorption.
shake_squeezeblocks ==
  /\ pc = "squeezing" /\ pos = R /\ pc' = "blocks"
  /\ nblocks' \in {n \in 0..MaxOut : Len(out) + n * R <= MaxOut}
  /\ UNCHANGED <<past, lane, pos, inlen, outlen, given, out>>

squeeze_block ==
  /\ pc = "blocks" /\ nblocks # 0
  /\ Permute(lane)
  /\ out' = out \o StateBytes(Len(past'), 0, R)
  /\ nblocks' = nblocks - 1
  /\ UNCHANGED <<pos, pc, inlen, outlen, given>>

squeezeblocks_return ==
  /\ pc = "blocks" /\ nblocks = 0 /\ pc' = "squeezing"
  /\ UNCHANGED <<past, lane, pos, inlen, outlen, nblocks, given, out>>

\* sha3_256 and sha3_512 after keccak_absorb_once: one permutation, one digest.
sha3_digest ==
  /\ pc = "squeezing" /\ pos = R /\ out = <<>> /\ pc' = "done"
  /\ Permute(lane)
  /\ out' = StateBytes(Len(past'), 0, DIGEST)
  /\ UNCHANGED <<pos, inlen, outlen, nblocks, given>>

Next ==
  \/ shake_init \/ shake_absorb \/ absorb_block \/ absorb_rest \/ shake_finalize
  \/ shake_absorb_once \/ once_block \/ once_rest
  \/ shake_squeeze \/ squeeze_part \/ squeeze_return
  \/ shake_squeezeblocks \/ squeeze_block \/ squeezeblocks_return \/ sha3_digest

Spec == Init /\ [][Next]_vars

\* Inside a call the code goes on; between two calls the caller may stop.
InCall ==
  \/ absorb_block \/ absorb_rest \/ once_block \/ once_rest
  \/ squeeze_part \/ squeeze_return \/ squeeze_block \/ squeezeblocks_return

FairSpec == Spec /\ WF_vars(InCall)

----------------------------------------------------------------------------
(* Properties.                                                             *)

\* Every variable has its type: no length becomes negative, and no position
\* leaves the block.
TypeOK ==
  /\ past \in Seq([0..R - 1 -> SUBSET Int]) /\ lane \in [0..R - 1 -> SUBSET Int]
  /\ pos \in 0..R /\ (pc \in {"absorbing", "absorb"} => pos < R)
  /\ pc \in {"start", "absorbing", "absorb", "once", "squeezing", "squeeze", "blocks", "done"}
  /\ inlen \in Nat /\ outlen \in Nat /\ nblocks \in Nat /\ given \in Nat
  /\ out \in Seq([perms : Nat, at : 0..R - 1])

\* Block b, from 0, of the padded message of n bytes.
MessageBlock(n, b) ==
  [j \in 0..R - 1 |->
     LET k == R * b + j
     IN  (IF k < n THEN {k + 1} ELSE {}) \cup (IF k = n THEN {DomainByte} ELSE {})
           \cup (IF b = n \div R /\ j = R - 1 THEN {LastBit} ELSE {})]

Absorbed == pc \in {"squeezing", "squeeze", "blocks", "done"}

\* Whatever the chunks were, and in the one-shot function as well, what has been
\* absorbed in the end is the padded message, block by block: no byte is lost,
\* doubled or misplaced where a chunk ends on, before or after the end of a
\* block, the padding has both its marks, and nothing is absorbed after it.
MessageIsAbsorbed ==
  Absorbed =>
    /\ \A b \in 0..given \div R :
      (IF b + 1 <= Len(past) THEN past[b + 1] ELSE lane) = MessageBlock(given, b)
    /\ \A b \in given \div R + 2..Len(past) : past[b] = Empty

\* The output is the stream of the padded message, in order, whatever the chunks
\* of squeezing were: byte k is byte k % R of the state after another k \div R
\* permutations.
OutputIsStream ==
  \A k \in 1..Len(out) :
    out[k] = [perms |-> given \div R + 1 + (k - 1) \div R, at |-> (k - 1) % R]

\* Every call returns, whatever calls and lengths came before: the loops of
\* keccak_absorb and keccak_squeeze (fips202.c:381-387,434-443) end only because
\* each of their iterations makes progress from the position the last call left.
CallsReturn == pc \in {"absorb", "once", "squeeze", "blocks"} ~> pc \in {"absorbing", "squeezing"}
=============================================================================
