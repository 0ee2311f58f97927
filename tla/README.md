# RRLWR KEM: a TLA+ development

This directory holds TLA+ modules for the key encapsulation mechanism in `src/`
(ring learning with rounding over Z_q[X, Y], X^128 = -1, Y^K = X + 2), the TLC
configurations that check them, and proofs that TLAPS checks.

    tlc -workers 2 -config MCKem.cfg MCKem     # any run of PROJECT.json
    tlapm KemProofs.tla                               # any of the proof modules

## 1. The system

The library is sequential: no thread, no callback, no file, and the only thing
that outlives a call is the generator's context and what the caller keeps. The
known-answer program in `KAT/` adds files, and runs that follow one another.

| component | state | operations | what makes it correct | module |
| --- | --- | --- | --- | --- |
| `kem.c` | the caller's buffers, the global `drng_algorithm` | `kem_keygen`, `kem_enc`, `kem_dec` | both parties get one secret; any other ciphertext or key gives a rejection secret; randomness is neither reused nor drawn in vain | `Kem`, `IdealKem` |
| `pke.c`, `ring.c` | locals: window of rows, accumulator | `pke_keygen`, `pke_encrypt`, `pke_decrypt`, four products by rows | the windows multiply in R_q; both parties' values differ by no more than the roundings; a message comes back | `Pke`, with `MessageCode` |
| `poly.c` | locals: the seven products, `r` | `toom4_128_fold_u16` | the product modulo q although words lose bits | `Toom4` |
| `packing.c` | accumulator of bits | pack and unpack, generic and unrolled, of polynomials and elements; the fused encoding and decoding of a message | bits keep their order; an element comes back whole; a message bit survives the noise | `Packing`, `RingBytes`, `MessageCode` |
| `uniform.c` | a fixed buffer | `poly_uniform`, `poly_uniform_kx` | the buffer suffices; no bit of a coefficient is unsqueezed or used twice | `RingBytes` |
| `drng.c` | `DRNG_ctx`: V, C, reseed_counter | `init_random_number`, `get_random_number`, big-number loops | exactly the request is written; the n-th draw depends on seed and n alone; carries are right | `Drng`, `BigNumber` |
| `fips202.c` | `keccak_state`: lanes, pos | init, absorb, finalize, squeeze, one-shot forms | the padded message is absorbed and one stream comes out, whatever the chunks; calls return; lanes and rounds are those of the standard | `Sponge`, `Keccak`, `Fips202` |
| `KAT_KEM.c` | two generators, a folder, a file | `main`, run again and again | a record is the known answer whatever else failed; the exit status is right about the file | `Kat` |

Interaction is by calls: `kem.c` draws from `drng.c`, calls `pke.c` and hashes
with `fips202.c`; `pke.c` calls `ring.c`, which calls `poly.c`, `packing.c` and
`uniform.c`; `uniform.c` and `drng.c` call `fips202.c`. State is shared through the
global generator and, between calls, through the caller's buffers, which a
transport, a disk or a test (`test_kem_negative`) may change. `KAT_KEM.c` seeds that
global generator itself, once for each record, from a second one.

What is hard here is not concurrency. It is sequences of calls that mix buffers of
several parties, damage that a rounding hides, arithmetic that loses bits on
purpose, loops over bytes at the ends of blocks, hand-unrolled code that only ever
meets its own inverse, and failures that are ignored. The
list of hazards with their lines is in `PROJECT.json`.

## 2. The modules

### Kem, IdealKem

One action per call. A byte string is a term: hashes and the generator are ideal,
so two strings are equal iff they were computed alike. F, G and H of `parameters.h`
are one function in the model as in the code (all are `shake256`): only inputs tell
them apart. Of the arithmetic the model keeps what `kem.c` depends on:

* `Decryptable`: decryption returns the message iff ciphertext and private key
  belong to one A, one s, one s', and noise is in the window; otherwise it returns a
  message determined by ciphertext and key.
* `err` of a field counts damage as the roundings see it. `ABSORBED` is hidden by
  the rounding of v' to t bits (flipping low bits of b in the public key copy inside
  a private key leaves the ciphertext, and the secret, as they were), `TOLERATED` is
  visible but inside the decoding window, `BROKEN` is outside it.
* `Unlucky` names draws whose use as a message gives an encapsulation that does not
  decrypt: with these parameters decryption is right with overwhelming probability,
  not always.
* `ct_cmp` and the select are modelled as they are computed: an OR of byte
  differences, the 32-bit negation and shift, a mask. Only 2^31 is scaled down
  (`HALF`), because TLC's integers have 32 bits; the proofs hold for any `HALF` of at
  least 256. Of the possible ORs of differing bytes (`Diffs`) TLC tries 1, 127, 128
  and 255, the proofs cover all.
* `kem_enc` and `kem_dec` check lengths first and return -1 with nothing done;
  `Encapsulate` and `Decapsulate` are what comes after. `DrawsAccounted` counts: every
  string drawn since the generator was initialised is in a key pair or an encapsulation,
  so no call, refused or not, draws one and drops it.
* `Damage` changes one field of one buffer, or repairs it; `Truncate` makes a length
  wrong. Both may happen between any two calls.
* `init_random_number` always succeeds here; its failures are in `Drng` and `Kat`.

`keys`, `encs`, `decs` are history variables. `IdealKem` is the abstract promise: a
table of issued secrets and a table of answers. `Kem` refines it with
`owners <- Owners, issued <- Issued, answered <- Answered`: a private key answers for
its public key as long as it is as it was generated, and is `Corrupt` otherwise.

`FreshSeeds` is an assumption on the caller, not a fact about the code: a generator
seeded twice with one seed repeats every key (that is what the KAT program relies
on). Type correctness, `Agreement`, `SecretBinding`, `ImplicitRejection` need no such
assumption; the separation of draws and the refinement do.

### Drng, BigNumber

`Drng` has the DRNG of `drng.c` with its control: three allocations that may fail in
`init_random_number`, and `get_random_number` split at its loop. V, C and
reseed_counter are numbers; `BigNumber` justifies that, one iteration of the byte
loops per step. An output byte is named by the data it was hashed from, its place in
the digest and the number of high bits kept. `SHA3_df` and `sha3_256` are arbitrary
functions (constants). `Kem` names a draw by its seed and its number:
`Deterministic` is what makes this sound.

### Pke, MessageCode, Toom4

`Pke` runs the four products of key generation, encryption and decryption by rows, on
a window of rows built as `ring_to_Awin`, `ring_unpack_Awin` and `ring_uniform_Awin`
build it, and compares with multiplication in Z_q[X, Y]. Products of polynomials are
by their result, as sums of products of coefficients (`SumTo` of `Sums`).
`ring_mul`, which the tests call with all rows and with one, runs the same loop
without rounding, for every number of rows. TLA+ ignores an assignment to an index that a
function does not have, so `TypeOK` says that the row a product is about to write
(`OutRow`, the code's `out` or `i`) is one of the `OutRows` of its result.

The products of encryption and decryption go through `MessageCode`: one coefficient from
message bit to code and back, both by the fused functions of `packing.c` that `pke.c` runs
and by the separate steps (`poly_add_msg`, `poly_compress`, `poly_decompress`, `poly_subp`,
`poly_round_xtoy`) that they replace. The window of noise that is removed is [-636, 132]
with t = 2^3 (levels 128 and 256: h2 = p/2t - q/2p = 126 moves it) and [-512, 504] with
t = 2^8 (level 512). `vp` and `v` remember the two accumulators modulo p, so that
`DecodesInWindow` relates the message decrypted to the noise between the two parties'
products. The noise that a small ring gives stays near the middle of the window; so the
two packers also run alone (`poly_pack_ciphertext_t_from_acc_msg`, then
`poly_pack_message_from_acc_cm`), on every accumulator and on noise at, inside and beyond
the ends of both windows.

`Toom4` is how the products of polynomials are computed: evaluation in seven points,
two-level Karatsuba in words, interpolation with shifts after words were cut, folding
modulo X^N + 1. Three bits of each word are rubbish in the end, so the result is right
modulo 2^13 = q, and not more.

### Packing, RingBytes

`Packing` follows bits, not values: the generic loops and the unrolled functions (as
tables of shifts) must put bit t of the input at bit t of the output. `RingBytes`
extends it: a call of `ring_pack`, `ring_unpack`, `ring_unpack_Awin`, `ring_uniform`,
`ring_uniform_Awin_base` or `poly_uniform`, or the encoding and decoding of a message
inside a product, is a run of `Packing` for each polynomial, with the function the code
chooses for the bit length, its input read and its output written at the offset and row
the caller gives. Each loop has its own expression for the offset, as in the code: the
length of a polynomial of 2 bits, of LOGP bits or of LOGT bits (`parameters.h:63-66`), or
one computed from the bit length; the fused functions work from the last row down. After a packer, one of the functions that read its bytes runs on
them: `ring_pack` and both unpackers of `pke.c` and the tests, the fused encoder
and the fused decoder. A sampler fills its buffer from named streams first. Every bit
carries its name to the end, so `RoundTrip` and `FreshCoefficients` are about what the
caller sees: the element that comes back, and the squeezed bits a coefficient is made of.

### Sponge, Keccak, Fips202

`Sponge` follows message bytes into blocks and output bytes out of them, in any chunks,
with the permutation as one step. `Keccak` opens the state: 25 lanes as sets of bits, the
byte-wise and the lane-wise ways in and out, and the permutation as the code has it,
two rounds to a pass of the loop from A to E and back, with its table of rotations,
lane numbers and round constants. `Fips202` is the standard: the state as one string of
bits, theta, rho, pi, chi and iota by coordinates, offsets and round constants by the
walk and the shift register that define them. `Keccak` refines it, one half of the loop
body to one round, with `S <- Ones, ir <- RoundsDone`. (The digest of the empty string
that both compute is the published one of SHA3-256.)

### Kat

One action for each stretch of `main` between two calls of the library or of stdio. A
generator is the term it was derived from and a count; `HalfSeeded` lists the contexts
that a failed allocation inside `init_random_number` leaves, whose result `main` ignores.
Folder and file outlive a run, and before the first there may be nothing, a folder, a file
or a dangling link at the place of the folder: `create_directory` takes an existing folder
or file for success, and `fopen` then fails on the file.
`out` is what was printed, `text` what of it stdio and the file hold. stdio holds back up to
`Buffered` fields. Any `fprintf` may have to write, and that may fail (`fprint`): the field
is lost, with any part of what was held back (`Reached`), `lost` remembers it and `main` goes
on, as it looks at no result. `fclose` reports its own last write alone. A return from `main` writes
what stdio holds if it can, and a kill (`Killed`, also for a `calloc` that gave NULL)
leaves what was written. A field of which only a part was written counts as missing. `KnownAnswers` says what a record must be in terms of the nonce
alone. `ExitStatusIsRight` says what status 0 is worth: a file with this run's fields in
order, complete if no write failed. `SavedWhenReported` is what the program claims, and is violated.
`NoStringTwice` holds with one failed seeding; with two it does not, and it is stated so:
both generators may then start from the all-zero state, and a printed seed is the
seed of a key.

How the modules fit together: what one module takes by its result is what another
checks. `Kem` rests on `Drng` (draws by number) and `Pke` (who can decrypt
what); `Pke` extends `MessageCode` and rests on `Toom4` (products) and `RingBytes` (operands), which runs `Packing`;
`Kat` rests on `Drng` and `Kem`; `Drng` on `BigNumber`; hashes anywhere on `Sponge`, whose
permutation and bytes are those of `Keccak`.

## 3. The runs

| run | shows | bounds, and why they are enough |
| --- | --- | --- |
| kem | agreement, separation and count of draws, binding, implicit rejection, refinement | two symmetric slots for each kind of buffer, six draws (two keys, or one key and three encapsulations with overwriting), two decapsulations remembered, the fourth draw unlucky, two faults. An action constraint (`MixingOrFaults` of `MCKem`) keeps the product of both small: once anything is damaged or truncated, one slot is in use, with at most two encapsulations and one decapsulation; and a history without damage or decapsulation ends at its last draw. The properties relate at most two keys, two encapsulations and two decapsulations, and two faults can damage a key and a ciphertext, or damage and repair. |
| kem_dec_rc | finding 1 | one slot, five draws, one decapsulation, two faults |
| drng | write bounds, determinism, distinct blocks | numbers modulo 16, digests of 2 bytes, requests of 0 to 5 bytes that end inside a byte, inside a block, at its end and at the buffer's end; six calls, one allocation failure |
| drng_alloc | finding 2 | three calls |
| big_number | carries, wrap | base 2 with three digits: sums reach 4 + 3, so all carries 0 to 3 occur, at every digit |
| sponge | padding, stream, termination | blocks of 4, up to 10 bytes in and out: chunks end before, at and after the end of a block, twice |
| pke | products, noise, messages, window, fused code | the real p, q, t; N = 4, K = 3, ELL = 2: rows that wrap at Y^K and rows that do not, coefficients that wrap at X^N; dense operands and monomials at the ends; two messages that differ in every bit; `ring_mul` with 1 to 3 rows. The packers alone: every accumulator, noise at the ends of both windows, one beyond them, and inside |
| toom4 | product modulo q | words of 12 bits, so that the 32-bit intermediates fit TLC's integers, blocks of 8: every branch of the loops, operands at the ends of blocks and at the maximum of words |
| ring_bytes | order of bits, whole elements, sampling | none on sizes: N = 128, LOGP = 11, K = 5, 9, 17 and ELL as in the levels, rate 168. The bit lengths that `pke.c` asks for (2, 11, 13, and t) at every level; 1, 3, 7, 8, 13 and 16 through the generic loops at the lowest |
| keccak | permutation, bytes in lanes | two absorptions or paddings and two permutations in any order; real rates; chunks of a whole block, across two lanes, and inside the last; paddings at the first byte and where both bits share the last |
| kat | known answers, exit status | three records: a first, a last and one between, since no record sees more of another than the generator and the file it leaves (the proofs are for any number); stdio holds back up to four fields, a whole record; two runs in one place; three failures (allocation, folder, file, write, decapsulation) or kills, in either run or both; instance names of 64 and 65 bytes and with a character that is refused |
| kat_write | finding 3 | three records, one run, one failure |

Deadlock is not checked: a caller stops when it likes, bounds run out, and modules of
one computation end.

**Fairness.** Only `Sponge` states any: `WF_vars(InCall)`, the code inside a call goes
on, which a sequential program does. Between calls the caller may stop for ever.
`CallsReturn` then says that no loop spins: `while(outlen)` in `keccak_squeeze` would,
from a position from which no byte is taken. The other modules have loops with a
counter, or one step per call, and no liveness worth stating.

Each property has a mutant in `PROJECT.json`: a change of a definition that a plausible
bug would make, under which TLC finds the property violated.

## 4. The proofs

All are for every value of the constants, under the `ASSUME`s of the modules.

* **KemProofs.** `TypeCorrect` is the induction; the type already says that a select is
  by a mask (`CtCmpIsMask`: for every byte r, `ct_cmp` is 0 or 255, by arithmetic) and
  that an accepted message is a message. `HistoryCorrect` proves `HistoryInv`: keys,
  encapsulations and decapsulations are as computed, and the values of every
  ciphertext in a buffer stem from one encapsulation; damage changes `err` only.
  `BothPartiesAgree`, `SecretsAreBound` and `ForgeriesAreRejected` follow from it without
  induction. They are not inductive themselves: a decapsulation recorded earlier must
  be known to be what the code computes, and a ciphertext to have an origin.
  `RandomnessSeparate` needs `DrawsInv` (every draw in use lies behind the generator; a
  theorem of its own, `DrawsLieBehind`) and `FreshSeeds`. `KemImplementsIdeal` takes each step to one of `IdealKem` or a stutter.
  `EveryDrawAccounted` proves `DrawsAccounted`: each call adds as many members to the
  histories as it draws strings, which are new since draws in use lie behind the generator
  (`DrawsInv` again), and `z` and `m` tell members apart.
* **ArithmeticProofs, big numbers.** The value of a number is a recursive function over its digits
  (`Low`), with weights `Power`. `Accounting` says that what has been added so far is what
  has been written plus the carry at its weight; the inductive invariant `BigInv` adds the
  type (a carry of at most 3) and `LoopInv` (digits that the loop has not reached are
  those of the operand, and a loop that broke has no carry). When the loops end this is
  `IncAddsOne` and `PlusAddsAll`: the value modulo `BYTE^LEN`, for every base and length.
* **ArithmeticProofs, the product.** For every width of a word that 64 divides, every size of
  a block, all factors and whatever `r` holds. Words modulo W are compared with coefficients
  over the integers (`Coeff`). Karatsuba: a coefficient of a product is made of those of
  the products of the halves (`CoeffHalves`), so two levels give every word of it
  (`KaratsubaExact`), and `ProductsAreExact` follows. Evaluation: what is multiplied at a point
  is a combination of the four blocks with fixed coefficients, so its product is, modulo W, a
  polynomial in the point whose seven coefficients are sums of products of two blocks
  (`PointsRight`). Interpolation: with W = 64 units, each word of it is right up to a multiple
  of 64, 32, 16 or 8 units (`Known`), and a division by 2, 4 or 8, done by an inverse and a
  shift, loses that many bits (`DivByRight`); the last words are right up to 8 units, which is
  `InterpolatedRight` and the reason for three spoiled bits. Fold: `ToomInv` says of each word e
  of block q what the iterations so far have added to it (`Folded`), e and then
  e + Blk of the product, with the sign of X^N = -1. `RightModuloQ` speaks of the end only
  and is not inductive; when the loop is done, `Folded` is the coefficient of the product less
  the one N places higher (`FoldedAll`), which is `Schoolbook`.
* **DrngProofs.** The loop invariant (bytes written, remainder, data =
  V + i), then the draws. `Deterministic` needs that the context after n draws is a
  function of seed and n; the invariant states it pairwise, so no recursion is needed.
* **PkeProofs.** For every N, K and ELL and every ring element. First sums: that they add up,
  scale, and may be reduced modulo q term by term or at the end. From these, that
  multiplication by X + 2 is what a product with the polynomial X + 2 gives, that it is linear
  modulo q, and that it commutes with products: (X + 2) f times g is X + 2 times f g, for which
  the sum of one coefficient is rotated by one place. So a row of the window that stands for a
  row past Y^K may be multiplied before the accumulation instead of after it, and `Acc` is the
  row of the product in R_q. `PkeInv` says what the window holds in each phase
  (`WindowInv`) and which rows of each result are done (`DoneInv`); `PkeTypes` and
  `ProductsCorrect` follow; `PkeTypes` needs from `WindowInv` where `i` is in each phase,
  for the row written to lie in its result. `ProductsAreRight` is not inductive: it says nothing while a product
  is under way, and nothing of the window.
* **The message, in PkeProofs.** The window, for every p, t, q of the form the code has. The
  argument reduces the codes and the bits to one integer quotient and a case split on where
  the coefficient wraps (`RoundedValue`, `DecodedBit`). `DoneInv` keeps that the codes stored
  are those of `vp` and the message, and the bits those of `v` and the codes, so that
  `NoiseIsRemoved`, `WindowCannotGrow` and `FusionIsSound` are about encryption followed by
  decryption, not about one coefficient alone: by `ProductsCorrect` the noise is that of
  b s' and b' s in the ring, and by `NoiseIsRemoved` every message bit whose noise
  is inside the window comes back.
* **The noise, in PkeProofs.** `NoiseBound` compares b s' with b' s, that is (A s) s' with
  (A s') s, so it needs that multiplication in R_q commutes. Not by exchanging double sums over
  rows and coefficients: over the integers, multiplication by a fixed element is linear and
  commutes with multiplication by X and by Y, and such a map is determined by what it does to
  constants (`LinearDetermined`, by Horner's rule over the coefficients and then the rows). Two
  such maps that agree on 1 are one, hence `ProductsCommute`. Rounding b loses at most
  q/2p in each coefficient, so the two products differ, modulo q, by the products of these errors
  with the centred secrets (`Accumulated`), each no larger than the sum of the secret's
  sizes (`ProductBound`); the centred representative is no larger than any other.
* **Fips202Proofs, the sponge.** For every rate, message and chunks. `MessageIsAbsorbed` speaks of the end
  of the absorption only; `AbsorbInv` says what holds inside it: given bytes less those
  outstanding are whole blocks permuted in plus `pos` bytes, each in its place. `PaddedInv`
  keeps what padding left, and `StreamInv` relates `pos`, the blocks squeezed and the bytes
  handed out, whichever of the entry points runs. `CallsProgress` is the argument why calls
  return: what is left of the lengths, plus one for the return, is a natural number that every
  step inside a call makes smaller, since the invariant has `pos` below R while absorbing.
* **Fips202Proofs, Keccak.** For every state, chunk, padding and place to squeeze from, and any
  number of calls: `KeccakIsFips202` is the refinement. The lanes are read as the standard's
  string of bits (`BitsOf`), one bit of one lane at a time (`BitIn`, `RolIs`). `prepareTheta` is
  theta, because the XOR of five bits tells whether their number is odd. The rotations and lane
  numbers of the code (`BC`) are rho and pi: the standard's walk goes once round the 24 lanes
  (`WalkIs`, `LapVisits`), and its triangular offsets modulo 64 are the code's, lane by lane
  (`LagRange`, `TurnedIs`, `RhoIs`). The five groups are chi (`MixedIs`). The constants of iota
  are those that the shift register makes, 168 shifts from its start, row by row. Together,
  half of the loop body is a round (`RoundIs`), for any lanes and the constant of that round.
  Then bytes: what `keccak_absorb`, `keccak_absorb_once` and `keccak_finalize` XOR into lanes is
  what the standard adds to its string (`AbsorbStep`, `AbsorbOnceStep`, `FinalizeStep`).
  `KeccakInv` has what the refinement and `SqueezedInOrder` need besides: that lanes have 64 bits,
  that `round` is even between passes, and that bytes squeezed still match the state, both when
  cut out one after the other and when stored by whole lanes.
* **RingBytesProofs.** First the tables of shifts of the unrolled functions, term by term
  (`RightTable`): each unit of output gets each of its bits from the right place. Then
  `PackInv` for the loops of `Packing`: type, `InOrder`, and `LoopInv`, the relation of
  units taken, units written and the bits in the accumulator, which fit because `ACC` holds
  a word and a byte. `RingInv` lifts this to elements: `BufInv` names the bits of the buffer
  between `WrittenFrom` and `WrittenTo` (a fused packer fills it from its end), once `Offsets` has shown
  that the expressions of all functions are one number,
  `RowsInv` says that bit t of polynomial u is bit t of its bytes. `ElementsComeBack` and
  `CoefficientsAreFresh` follow with arithmetic on sizes (`RoundUp`: blocks asked for suffice)
  and counting (a bijection between bits of coefficients and squeezed bits).
* **KatProofs.** For any number of records, runs, failures and kills, and any `Buffered`.
  `OutInv`: what was printed is a prefix of the fields in order, how much of it at each `pc`, and a
  file is open only in a folder. `TextInv`: what stdio and the file hold are printed fields, each at
  its place (`PlaceOf`) and in order, and all of them unless a write failed; cutting text off
  (`Beginning`) or adding the next field (`TextPrinted`) keeps this. `StatusTrue` follows. `KnownInv`: generators
  whose seeding succeeded are those of the known answers, in place and count. `DrawsInv`:
  the derivation of each printed string names the generator it came from and its place
  there. `StringsDiffer` then shows that two equal strings are one, as long as the
  starting states of the generators differ, which at most one failed seeding assures.

All of these but `KemProofs` and `KatProofs` use **NumberLemmas**: division with remainder,
sums, and induction. The induction theorems of the library take an operator as a parameter, which
the provers at hand cannot instantiate; the lemmas take a *set* instead. `Least` (a set of
naturals has a least member, from the well-foundedness of <) gives `UpTo` (a set with 0 and
closed under successor has all numbers up to m) and `Recursion` (a recursive definition over
0..m has a solution), from which recursive functions get their equations.

The assumptions are the `ASSUME`s of the modules, and TLC evaluates them in the runs. Those
that say more than "is a natural number": the accumulator of `packing.c` has at least 24 bits
(it has 32), N is a multiple of 32 (it is 128), the functions with t bits are for 3 and 8
bits, a buffer of the generator has fewer blocks than there are numbers (256^55), 2 p divides q
(2^12 divides 2^13), p/2 is t/2 times the step between codes, and 64 divides the number
of values of a word (2^16), modulo which the three constants of the interpolation are the
inverses of 3, 9 and 15. In `Keccak`, a chunk and what is squeezed lie within the 200 bytes of
the state, rates are whole lanes, and the domain byte leaves bit 7 to the padding (it is 0x06
or 0x1F).

**Only model-checked.** All safety properties of all modules, and both refinements, are theorems.
With TLC alone stays `CallsReturn` of `Sponge`: it is liveness under fairness, which TLAPS does
not prove. (`CallsProgress` proves the decreasing measure; that a step inside a call is always
possible, and with fairness is taken, is left to TLC.)

Theorems listed in `PROJECT.json` name the run that shows the same property on a small
instance.

## 5. What the code does otherwise than it says

1. `kem_dec` returns 0 on implicit rejection; `kem.h:90` promises -1 (run kem_dec_rc).
2. `init_random_number` returns 0 although an allocation failed inside it; `drng.h:34`
   promises an error (run drng_alloc).
3. `KAT_KEM.c:162` reports "Files have been saved in the 'output' folder", with status 0, of a
   file in which a write failed before the end: results of `fprintf` are ignored, `ferror`
   is not asked, and `fclose` fails only for its own last write (run kat_write).

Observations without a run:

* The default flags of the Makefile contain `-DNDEBUG`, and the tests consist of
  `assert`: as built, `test_KEM` and `unit_tests_KEM` cannot fail.
* `test_kem_negative` flips bit `i & 7` of byte `i >> 3` for i below the length in
  *bytes*: it damages the first eighth of the ciphertext and of the private key (all of
  it in s). Flips elsewhere do not all lead to a rejection: z is not used when a
  ciphertext is accepted, and b in the private key may change within `ABSORBED`.
* `get_random_number` always returns 0, `kem.c` looks at no result of it, and a context
  that was never initialised is not noticed.
* The worst-case noise of `NoiseIsBounded` is larger than the decoding window at
  the real sizes, for dense secrets even larger than p/2: decryption succeeds with high
  probability only, and the bound says nothing about how high.
* With `RRLWR_PACKING_16BIT_SCALAR`, `(3 - c) << 8` shifts a negative `int` to the left,
  which C leaves undefined; compilers in use shift as the model does.
* Two allocations that fail inside two calls of `init_random_number` can leave the two
  generators of `KAT_KEM.c` in one state, unnoticed: a printed seed is then a seed of s.
* With bit length 2 and K = 5 one polynomial fits into the first stream several times:
  only stream 0 is used, the other three are squeezed in vain.

## 6. Not modelled

Timing: constant-time behaviour is not a property of states; the benchmarks
(`test_speed_KEM.c`, `cpucycles.c`, `speed_print.c`) measure it and keep no state that
anything reads. The Makefile: it chooses the level, whose parameters appear as constants, and
`RRLWR_PACKING_16BIT_SCALAR`, the type of the words that unrolled packers shift in. No module
models that type: what a shift to the left pushes past 16 bits is not in the byte that is
stored. `poly_add` and `poly_sub` (called by the benchmark only) and `poly_reduce_pow2`
(called nowhere): one masked operation for each coefficient. The branches of `packing.c` for LOGT other than 3 and 8
(compiled by no target; the decoder there returns zeros). In `KAT_KEM.c`: the wording
of the file, with it `OUTPUT_BLANK_TEST_VECTORS` (lines 209-212: the numbers after `PK_Len = `
and the like are left out or printed, one `fprintf` either way), and the statuses -3 and -4: the first
needs a wrong length, which `main` never passes, the second is never returned. The
probability of decryption failure and the hardness assumptions, which are not about this
code.

## 7. Plan

Done, in this order: `Kem` with `IdealKem` (the behaviour that matters most), `Drng` and
`BigNumber`, `MessageCode`, `Sponge`, `Pke`, `Toom4`, `Packing`; proofs of the first four; then
`Keccak` with `Fips202`, `Kat`, and `RingBytes` over `Packing`; then the proofs about `Sponge`,
`Packing` and `RingBytes`, the values of `BigNumber`, and `Kat`; then `MessageCode` composed
into `Pke`, with the proofs about both; then the noise of `Pke`, the product of `Toom4`, and the
refinement of `Fips202` by `Keccak`.

Next:

1. A composition of `Drng` with the loops of `BigNumber`, and of `Kem` with the calls of `Drng`,
   so that numbers and the naming of draws become refinements instead of arguments.
