------------------------------ MODULE Packing ------------------------------
(***************************************************************************)
(* The packers and unpackers of packing.c as what they do with bits: words *)
(* of bitlen bits become bytes, and bytes become words.  The generic loops *)
(* run bits through a 32-bit accumulator; the unrolled functions for the   *)
(* bit lengths of the scheme are tables of shifts.                         *)
(*                                                                         *)
(* A bit is named by its unit (word or byte) in the input and its place in *)
(* it.  A word w is stored as 2^(bitlen-1) - 1 - w, on the way in and on   *)
(* the way out (MessageCode); the words here are the stored ones.          *)
(***************************************************************************)
EXTENDS Integers, Sequences, SequencesExt

CONSTANTS
  N,        \* RRLWR_N
  Bitlens,  \* bit lengths given to the generic loops
  ACC       \* bits of the accumulator, 32

\* The accumulator takes a word of 16 bits or a byte on top of less than a byte or a word.
ASSUME SizesAssumption == N \in Nat /\ N > 0 /\ N % 8 = 0 /\ ACC \in Nat /\ ACC >= 24
ASSUME BitlensAssumption == Bitlens \subseteq 1..16

VARIABLES
  dir,      \* "pack" or "unpack"
  bitlen,
  unrolled, \* the function for this bit length, or the generic loop
  acc,      \* pairs of a place and a bit
  acc_shift,
  in,       \* units of the input that were taken
  out       \* units of the output: at each place the bits that were put there

vars == <<dir, bitlen, unrolled, acc, acc_shift, in, out>>

From == IF dir = "pack" THEN bitlen ELSE 8
To == IF dir = "pack" THEN 8 ELSE bitlen
Units == IF dir = "pack" THEN N ELSE (N * bitlen) \div 8

----------------------------------------------------------------------------
(* The unrolled functions: for each unit of the output the units of the    *)
(* input that are ORed into it, with their shift to the right.             *)

\* poly_pack_2, poly_pack_11, and the two builds of
\* poly_pack_ciphertext_t_from_acc_msg.
PackTable ==
  [ n2 |-> << {<<0, 0>>, <<1, -2>>, <<2, -4>>, <<3, -6>>} >>,
    n3 |-> << {<<0, 0>>, <<1, -3>>, <<2, -6>>},
              {<<2, 2>>, <<3, -1>>, <<4, -4>>, <<5, -7>>},
              {<<5, 1>>, <<6, -2>>, <<7, -5>>} >>,
    n8 |-> << {<<0, 0>>} >>,
    n11 |-> << {<<0, 0>>}, {<<0, 8>>, <<1, -3>>}, {<<1, 5>>, <<2, -6>>}, {<<2, 2>>},
               {<<2, 10>>, <<3, -1>>}, {<<3, 7>>, <<4, -4>>}, {<<4, 4>>, <<5, -7>>},
               {<<5, 1>>}, {<<5, 9>>, <<6, -2>>}, {<<6, 6>>, <<7, -5>>}, {<<7, 3>>} >> ]

\* poly_unpack_2, poly_unpack_11, poly_unpack_13, and the two builds of
\* poly_pack_message_from_acc_cm.
UnpackTable ==
  [ n2 |-> << {<<0, 0>>}, {<<0, 2>>}, {<<0, 4>>}, {<<0, 6>>} >>,
    n3 |-> << {<<0, 0>>}, {<<0, 3>>}, {<<0, 6>>, <<1, -2>>}, {<<1, 1>>}, {<<1, 4>>},
              {<<1, 7>>, <<2, -1>>}, {<<2, 2>>}, {<<2, 5>>} >>,
    n8 |-> << {<<0, 0>>} >>,
    n11 |-> << {<<0, 0>>, <<1, -8>>}, {<<1, 3>>, <<2, -5>>}, {<<2, 6>>, <<3, -2>>, <<4, -10>>},
               {<<4, 1>>, <<5, -7>>}, {<<5, 4>>, <<6, -4>>}, {<<6, 7>>, <<7, -1>>, <<8, -9>>},
               {<<8, 2>>, <<9, -6>>}, {<<9, 5>>, <<10, -3>>} >>,
    n13 |-> << {<<0, 0>>, <<1, -8>>}, {<<1, 5>>, <<2, -3>>, <<3, -11>>}, {<<3, 2>>, <<4, -6>>},
               {<<4, 7>>, <<5, -1>>, <<6, -9>>}, {<<6, 4>>, <<7, -4>>, <<8, -12>>},
               {<<8, 1>>, <<9, -7>>}, {<<9, 6>>, <<10, -2>>, <<11, -10>>},
               {<<11, 3>>, <<12, -5>>} >> ]

Name == [n \in {2, 3, 8, 11, 13} |->
           CASE n = 2 -> "n2" [] n = 3 -> "n3" [] n = 8 -> "n8" [] n = 11 -> "n11" [] n = 13 -> "n13"]

HasTable(d, n) == n \in DOMAIN Name /\ Name[n] \in DOMAIN (IF d = "pack" THEN PackTable ELSE UnpackTable)
Table == (IF dir = "pack" THEN PackTable ELSE UnpackTable)[Name[bitlen]]

\* Units of the input that one iteration takes.
Group == (Len(Table) * To) \div From

\* Mutant: left shifts that pass the middle of a byte are one short.
Or_short(terms, first) ==
  [j \in 0..To - 1 |->
     {<<first + t[1], j + t[2] + (IF t[2] = -7 THEN 1 ELSE 0)>> :
        t \in {u \in terms : j + u[2] \in 0..From - 1}}]

\* The OR of shifted units, cut to the bits of a unit of the output.
Or(terms, first) ==
  [j \in 0..To - 1 |->
     {<<first + t[1], j + t[2]>> : t \in {u \in terms : j + u[2] \in 0..From - 1}}]

Init ==
  /\ dir \in {"pack", "unpack"} /\ unrolled \in BOOLEAN
  /\ bitlen \in (IF unrolled THEN {n \in DOMAIN Name : HasTable(dir, n)} ELSE Bitlens)
  /\ acc = {} /\ acc_shift = 0 /\ in = 0 /\ out = <<>>

\* One iteration of an unrolled function.
group ==
  /\ unrolled /\ in < Units
  /\ out' = out \o [u \in 1..Len(Table) |-> Or(Table[u], in)]
  /\ in' = in + Group
  /\ UNCHANGED <<dir, bitlen, unrolled, acc, acc_shift>>

----------------------------------------------------------------------------
(* The generic loops.                                                      *)

\* acc |= unit << acc_shift
Take ==
  /\ in < Units
  /\ acc' = acc \cup {<<j + acc_shift, <<in, j>>>> : j \in {q \in 0..From - 1 : q + acc_shift < ACC}}
  /\ acc_shift' = acc_shift + From
  /\ in' = in + 1
  /\ UNCHANGED <<dir, bitlen, unrolled, out>>

\* acc >>= n
Shifted(n) == {<<e[1] - n, e[2]>> : e \in {f \in acc : f[1] >= n}}

\* A unit of the output is the low bits of acc.
Emit ==
  /\ out' = Append(out, [j \in 0..To - 1 |-> {e[2] : e \in {f \in acc : f[1] = j}}])
  /\ acc' = Shifted(To)
  /\ acc_shift' = acc_shift - To
  /\ UNCHANGED <<dir, bitlen, unrolled, in>>

\* Mutant: a unit that is just full is kept back.
Full_late == acc_shift > To

\* poly_pack empties the accumulator of whole bytes after every word, and
\* poly_unpack fills it with bytes until there is a word.
Full == acc_shift >= To

poly_pack == dir = "pack" /\ ~unrolled /\ IF Full THEN Emit ELSE Take
poly_unpack == dir = "unpack" /\ ~unrolled /\ IF Full THEN Emit ELSE Take

Next == group \/ poly_pack \/ poly_unpack

Spec == Init /\ [][Next]_vars

----------------------------------------------------------------------------
(* Properties.                                                             *)

\* The order of bits is kept: bit t of the output is bit t of the input, and no
\* other bit is in its place, for the generic loops and the unrolled functions
\* alike.  So packing is undone by unpacking whichever of them does which.
InOrder ==
  \A u \in 1..Len(out) : \A j \in 0..To - 1 :
    LET t == (u - 1) * To + j
    IN  out[u][j] = {<<t \div From, t % From>>}

\* The accumulator of a generic loop holds the bits that were taken and have not
\* come out, each at its place: the 32 bits are enough.  In the end, every bit of
\* the input has come out, of the unrolled functions as well.
NothingIsLost ==
  /\ ~unrolled =>
       acc = {<<t - (Len(out) * To), <<t \div From, t % From>>>> :
                t \in (Len(out) * To)..(in * From) - 1}
  /\ in = Units /\ (unrolled \/ ~Full) => Len(out) * To = N * bitlen
=============================================================================
