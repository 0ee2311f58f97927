-------------------------------- MODULE Kem --------------------------------
(***************************************************************************)
(* The key encapsulation mechanism of src/kem.c over the public-key        *)
(* encryption of src/pke.c: a caller that owns buffers for public keys,    *)
(* private keys, ciphertexts and shared secrets calls init_random_number,  *)
(* kem_keygen, kem_enc and kem_dec in any order and on any of its buffers, *)
(* and the buffers may be damaged or cut short between two calls, as the   *)
(* tests do on purpose and a transport does by accident.                   *)
(*                                                                         *)
(* The library is single-threaded, so a call is one action.  Byte strings  *)
(* are terms: two strings are equal in the model iff they were computed by *)
(* the same function from the same inputs (an ideal hash, an ideal         *)
(* generator).  The ring arithmetic appears only through what kem.c needs  *)
(* of it: who can decrypt what, and how much damage the roundings hide.    *)
(***************************************************************************)
EXTENDS Integers, FiniteSets

CONSTANTS
  Slots,        \* the caller's buffer numbers
  Seeds,        \* the seeds the caller gives to init_random_number
  NoSeed,       \* stands for the all-zero state of a DRNG never initialised
  FreshSeeds,   \* TRUE: the caller never initialises twice with one seed
  PK_LEN, SK_LEN, CT_LEN, SS_LEN,   \* the four lengths of parameters.h
  Unlucky,      \* draw numbers whose use as a message gives an encapsulation
                \* with noise outside the decoding window
  Diffs,        \* what the bytes of two different ciphertexts may differ in
  HALF,         \* half the modulus of the uint32_t arithmetic of ct_cmp
  MaxDraws,     \* bound: random strings drawn since the last initialisation
  MaxDecs,      \* bound: distinct decapsulations remembered in decs
  MaxFaults     \* bound: times a buffer is damaged, repaired or cut short

ASSUME LengthsAssumption ==
  /\ PK_LEN \in Nat \ {0} /\ SK_LEN \in Nat \ {0}
  /\ CT_LEN \in Nat \ {0} /\ SS_LEN \in Nat \ {0}
ASSUME SeedsAssumption == NoSeed \notin Seeds
ASSUME FreshAssumption == FreshSeeds \in BOOLEAN
ASSUME DiffsAssumption == Diffs \subseteq 1..255
ASSUME HalfAssumption == HALF \in Nat /\ HALF >= 256

VARIABLES
  drng,    \* drng_algorithm: [seed, n], n strings drawn since initialisation
  used,    \* the seeds given to init_random_number so far
  pk, sk, ct,   \* the caller's buffers, with the length kept beside each
  ss,      \* the caller's shared-secret buffers, one for each party
  rc,      \* what the last call returned
  keys, encs, decs,   \* history: what keygen, enc and dec computed
  faults   \* how often a buffer was damaged, repaired or cut short

vars == <<drng, used, pk, sk, ct, ss, rc, keys, encs, decs, faults>>

----------------------------------------------------------------------------
(***************************************************************************)
(* Byte strings.  A field of a buffer is the value that was written there  *)
(* and the damage it has taken since; err counts bits in the sense of the  *)
(* roundings that the value goes through, so damages of two operands add.  *)
(***************************************************************************)
ABSORBED == 1   \* hidden by the rounding of v' to t bits
TOLERATED == 2  \* visible in the ciphertext, within the decoding window
BROKEN == 3     \* outside the decoding window

Clean(v) == [val |-> v, err |-> 0]

\* shake256 of a concatenation of fields, cut into its first SS_LEN bytes and
\* the bytes after them.  F, G and H of parameters.h are one function: only
\* their inputs tell them apart.
shake256_head(in) == [stream |-> in, part |-> "head"]
shake256_tail(in) == [stream |-> in, part |-> "tail"]

HASH_F(p) == Clean(shake256_head(<<p>>))
G_K(hpk, m) == shake256_head(<<hpk, m>>)
G_seedSp(hpk, m) == shake256_tail(<<hpk, m>>)
HASH_H(c, z) == shake256_head(<<c, z>>)

----------------------------------------------------------------------------
(* The public-key encryption of pke.c.                                     *)

\* pk = (seedA, b) with b = round(p/q * A * s); the private key is s itself.
pke_keygen(seedA, seedS) ==
  [A |-> Clean(seedA), b |-> Clean([A |-> seedA, s |-> seedS])]

\* The t bits of v' = b * s' that cm keeps do not show a small change of b.
Rounded(b) == IF b.err <= ABSORBED THEN Clean(b.val) ELSE b

\* ct = (cm, b'): b' from A and s', cm from b * s', rounded, and the message.
pke_encrypt(p, m, seedSp) ==
  [bp |-> Clean([A |-> p.A, sp |-> seedSp]),
   cm |-> Clean([b |-> Rounded(p.b), sp |-> seedSp, m |-> m])]

Noise(c) == c.bp.err + c.cm.err + c.cm.val.b.err
              + (IF c.cm.val.m.n \in Unlucky THEN BROKEN ELSE 0)

\* b' * s and b * s' agree up to noise iff b = A * s, b' = A * s' for one A and
\* one s'.  Anything else decodes to some message that ct and s determine.
Decryptable(c, s) ==
  /\ s = Clean(c.cm.val.b.val.s)
  /\ c.bp.val.A = Clean(c.cm.val.b.val.A)
  /\ c.bp.val.sp = c.cm.val.sp
  /\ Noise(c) <= TOLERATED

pke_decrypt(c, s) ==
  IF Decryptable(c, s) THEN c.cm.val.m ELSE [garbled |-> <<c, s>>]

\* Mutants: the comparison stops before b', or keeps the low bits of a sum in a
\* byte, or is not stretched to a mask; the select takes its operands in the
\* other order.
DiffBytes_cm_only(c1, c2) == IF c1.cm = c2.cm THEN {0} ELSE Diffs
ct_cmp_8bit(r) == (256 - ((256 - r) % 256) \div 128) % 256
ct_cmp_unstretched(r) == IF r = 0 THEN 0 ELSE 1
Select_swapped(K, Kb, compare) == IF compare = 0 THEN Kb ELSE K

\* The bitwise OR of the differences of two ciphertexts: some non-zero byte
\* when they differ.
DiffBytes(c1, c2) == IF c1 = c2 THEN {0} ELSE Diffs

\* -((-(uint32_t)r) >> 31), as a uint8_t, with 2^31 written HALF.
ct_cmp(r) ==
  LET neg == (2 * HALF - r) % (2 * HALF)
  IN  (256 - neg \div HALF) % 256

\* K ^ ((K ^ Kb) & compare) on every byte.
Select(K, Kb, compare) ==
  CASE compare = 0 -> K
    [] compare = 255 -> Kb
    [] OTHER -> [mixed |-> <<K, Kb, compare>>]

----------------------------------------------------------------------------
(* Buffers and the DRNG as kem.c sees it.                                  *)

Blank == [len |-> 0, body |-> [blank |-> TRUE]]
Filled(n, b) == [len |-> n, body |-> b]

\* Mutants: the state is updated once too little, or not between the strings of
\* one call.
GENERATE_RANDOM_BYTES_short(d, k) == [d EXCEPT !.n = d.n + k - 1]
Drawn_stuck(d, k) == d

\* The state after k strings, and the k-th string drawn from a state.
GENERATE_RANDOM_BYTES(d, k) == [d EXCEPT !.n = d.n + k]
Drawn(d, k) == [d EXCEPT !.n = d.n + k - 1]

Init ==
  /\ drng = [seed |-> NoSeed, n |-> 0]
  /\ used = {}
  /\ pk = [i \in Slots |-> Blank]
  /\ sk = [i \in Slots |-> Blank]
  /\ ct = [i \in Slots |-> Blank]
  /\ ss = [party \in {"enc", "dec"} |-> Blank]
  /\ rc = 0
  /\ keys = {} /\ encs = {} /\ decs = {}
  /\ faults = 0

----------------------------------------------------------------------------
(* The calls.                                                              *)

init_random_number(seed) ==
  /\ FreshSeeds => seed \notin used
  /\ drng' = [seed |-> seed, n |-> 0]
  /\ used' = used \cup {seed}
  /\ rc' = 0
  /\ UNCHANGED <<pk, sk, ct, ss, keys, encs, decs, faults>>

kem_keygen(i) ==
  LET seedA == Drawn(drng, 1)
      seedS == Drawn(drng, 2)
      z     == Drawn(drng, 3)
      p     == pke_keygen(seedA, seedS)
      s     == [s |-> Clean(seedS), pk |-> p, hpk |-> HASH_F(p), z |-> Clean(z)]
  IN  /\ drng.n + 3 <= MaxDraws
      /\ drng' = GENERATE_RANDOM_BYTES(drng, 3)
      /\ pk' = [pk EXCEPT ![i] = Filled(PK_LEN, p)]
      /\ sk' = [sk EXCEPT ![i] = Filled(SK_LEN, s)]
      /\ keys' = keys \cup {s}
      /\ rc' = 0
      /\ UNCHANGED <<used, ct, ss, encs, decs, faults>>

\* kem_enc behind its check.
Encapsulate(i, j) ==
  LET p   == pk[i].body
      m   == Drawn(drng, 1)
      hpk == HASH_F(p)
      c   == pke_encrypt(p, m, G_seedSp(hpk, m))
      K   == G_K(hpk, m)
  IN  /\ drng.n + 1 <= MaxDraws
      /\ drng' = GENERATE_RANDOM_BYTES(drng, 1)
      /\ ct' = [ct EXCEPT ![j] = Filled(CT_LEN, c)]
      /\ ss' = [ss EXCEPT !["enc"] = Filled(SS_LEN, K)]
      /\ encs' = encs \cup {[pk |-> p, m |-> m, ct |-> c, ss |-> K]}
      /\ rc' = 0
      /\ UNCHANGED <<used, pk, sk, keys, decs, faults>>

\* Mutant: the message is drawn before the length is looked at.
kem_enc_draws_first(i, j) ==
  \/ /\ pk[i].len # PK_LEN /\ rc' = -1
     /\ drng' = GENERATE_RANDOM_BYTES(drng, 1)
     /\ UNCHANGED <<used, pk, sk, ct, ss, keys, encs, decs, faults>>
  \/ pk[i].len = PK_LEN /\ Encapsulate(i, j)

kem_enc(i, j) ==
  \/ /\ pk[i].len # PK_LEN /\ rc' = -1
     /\ UNCHANGED <<drng, used, pk, sk, ct, ss, keys, encs, decs, faults>>
  \/ pk[i].len = PK_LEN /\ Encapsulate(i, j)

\* The FO transform: re-encrypt what was decrypted, compare, select.
Decapsulations(key, c) ==
  LET mp  == pke_decrypt(c, key.s)
      K   == G_K(key.hpk, mp)
      ctp == pke_encrypt(key.pk, mp, G_seedSp(key.hpk, mp))
      Kb  == HASH_H(c, key.z)
  IN  {Select(K, Kb, ct_cmp(r)) : r \in DiffBytes(c, ctp)}

\* kem_dec behind its check.
Decapsulate(i, j) ==
  /\ \E K \in Decapsulations(sk[i].body, ct[j].body) :
       LET d == [sk |-> sk[i].body, ct |-> ct[j].body, ss |-> K]
       IN  /\ Cardinality(decs \cup {d}) <= MaxDecs
           /\ decs' = decs \cup {d}
           /\ ss' = [ss EXCEPT !["dec"] = Filled(SS_LEN, K)]
  /\ rc' = 0
  /\ UNCHANGED <<drng, used, pk, sk, ct, keys, encs, faults>>

kem_dec(i, j) ==
  \/ /\ sk[i].len # SK_LEN \/ ct[j].len # CT_LEN
     /\ rc' = -1
     /\ UNCHANGED <<drng, used, pk, sk, ct, ss, keys, encs, decs, faults>>
  \/ sk[i].len = SK_LEN /\ ct[j].len = CT_LEN /\ Decapsulate(i, j)

----------------------------------------------------------------------------
(* What happens to buffers between calls: a field is damaged (or repaired, *)
(* as test_kem_negative undoes its bit flips), or the end is lost.         *)

\* Only b has damage that a rounding absorbs; a changed seed or hash input is
\* a different input, and one changed coefficient of s spoils every bit of v.
DamagePk(p) ==
  {[p EXCEPT !.A.err = e] : e \in {0, BROKEN}} \cup {[p EXCEPT !.b.err = e] : e \in 0..BROKEN}
DamageSk(s) ==
  {[s EXCEPT !.s.err = e] : e \in {0, BROKEN}} \cup {[s EXCEPT !.pk = p] : p \in DamagePk(s.pk)}
    \cup {[s EXCEPT !.hpk.err = e] : e \in {0, BROKEN}}
    \cup {[s EXCEPT !.z.err = e] : e \in {0, BROKEN}}
DamageCt(c) ==
  {[c EXCEPT !.bp.err = e] : e \in {0, TOLERATED, BROKEN}}
    \cup {[c EXCEPT !.cm.err = e] : e \in {0, TOLERATED, BROKEN}}

Damage(i) ==
  /\ \/ /\ pk[i].len = PK_LEN
        /\ \E p \in DamagePk(pk[i].body) \ {pk[i].body} : pk' = [pk EXCEPT ![i].body = p]
        /\ UNCHANGED <<sk, ct>>
     \/ /\ sk[i].len = SK_LEN
        /\ \E s \in DamageSk(sk[i].body) \ {sk[i].body} : sk' = [sk EXCEPT ![i].body = s]
        /\ UNCHANGED <<pk, ct>>
     \/ /\ ct[i].len = CT_LEN
        /\ \E c \in DamageCt(ct[i].body) \ {ct[i].body} : ct' = [ct EXCEPT ![i].body = c]
        /\ UNCHANGED <<pk, sk>>
  /\ faults < MaxFaults
  /\ faults' = faults + 1
  /\ rc' = 0
  /\ UNCHANGED <<drng, used, ss, keys, encs, decs>>

Truncate(i) ==
  /\ \/ pk[i].len = PK_LEN /\ pk' = [pk EXCEPT ![i].len = PK_LEN - 1] /\ UNCHANGED <<sk, ct>>
     \/ sk[i].len = SK_LEN /\ sk' = [sk EXCEPT ![i].len = SK_LEN - 1] /\ UNCHANGED <<pk, ct>>
     \/ ct[i].len = CT_LEN /\ ct' = [ct EXCEPT ![i].len = CT_LEN - 1] /\ UNCHANGED <<pk, sk>>
  /\ faults < MaxFaults
  /\ faults' = faults + 1
  /\ rc' = 0
  /\ UNCHANGED <<drng, used, ss, keys, encs, decs>>

Next ==
  \/ \E seed \in Seeds : init_random_number(seed)
  \/ \E i \in Slots : kem_keygen(i)
  \/ \E i, j \in Slots : kem_enc(i, j)
  \/ \E i, j \in Slots : kem_dec(i, j)
  \/ \E i \in Slots : Damage(i)
  \/ \E i \in Slots : Truncate(i)

Spec == Init /\ [][Next]_vars
----------------------------------------------------------------------------
(* Types.                                                                  *)

Draw == [seed : Seeds \cup {NoSeed}, n : Nat]
Field(S) == [val : S, err : 0..BROKEN]
PublicKey == [A : Field(Draw), b : Field([A : Draw, s : Draw])]
HashOfKey == [stream : [1..1 -> PublicKey], part : {"head"}]
PrivateKey == [s : Field(Draw), pk : PublicKey, hpk : Field(HashOfKey), z : Field(Draw)]
SecretInput == Field(HashOfKey) \X Draw
Coins == [stream : SecretInput, part : {"tail"}]
Ciphertext ==
  [bp : Field([A : Field(Draw), sp : Coins]),
   cm : Field([b : Field([A : Draw, s : Draw]), sp : Coins, m : Draw])]
SharedSecret ==
  [stream : SecretInput \cup (Ciphertext \X Field(Draw)), part : {"head"}]
Buffer(S, n) == {Blank} \cup [len : {n, n - 1}, body : S]

\* The type invariant.  It already says that a decapsulation never hands out a
\* secret computed from a garbled message: that would not be a SharedSecret.
TypeOK ==
  /\ drng \in Draw
  /\ used \in SUBSET Seeds
  /\ pk \in [Slots -> Buffer(PublicKey, PK_LEN)]
  /\ sk \in [Slots -> Buffer(PrivateKey, SK_LEN)]
  /\ ct \in [Slots -> Buffer(Ciphertext, CT_LEN)]
  /\ ss \in [{"enc", "dec"} -> Buffer(SharedSecret, SS_LEN)]
  /\ rc \in {0, -1} /\ faults \in Nat
  /\ keys \subseteq PrivateKey
  /\ encs \subseteq [pk : PublicKey, m : Draw, ct : Ciphertext, ss : SharedSecret]
  /\ decs \subseteq [sk : PrivateKey, ct : Ciphertext, ss : SharedSecret]

----------------------------------------------------------------------------
(* Safety.                                                                 *)

\* Both parties hold one secret: whatever was called before and between, a
\* ciphertext as kem_enc made it for a key of kem_keygen, decapsulated with the
\* matching private key (whatever became of its z), gives what kem_enc gave
\* (kem.c:85-173), unless its noise is outside the decoding window.
Agreement ==
  \A e \in encs, d \in decs :
    /\ d.ct = e.ct /\ e.m.n \notin Unlucky
    /\ d.sk.pk = e.pk /\ \E k \in keys : d.sk = [k EXCEPT !.z = d.sk.z]
    => d.ss = e.ss

\* The secret of an encapsulation comes out of kem_dec only for that very
\* ciphertext, and only under a private key that holds the hash of the public
\* key the sender used and whose own copy of that key re-encrypts alike: a
\* damaged ciphertext, a substituted or damaged public key, or another
\* recipient's key never yields it (the binding of hpk into G, kem.c:106-109,145-151).
SecretBinding ==
  \A e \in encs, d \in decs :
    d.ss = e.ss =>
      /\ d.ct = e.ct
      /\ d.sk.hpk = HASH_F(e.pk)
      /\ d.sk.pk.A = e.pk.A /\ Rounded(d.sk.pk.b) = Rounded(e.pk.b)

\* Implicit rejection: a ciphertext that no kem_enc produced decapsulates to
\* H(ct, z), the same for every call with that key (kem.c:156-167).
ImplicitRejection ==
  \A d \in decs : (\A e \in encs : e.ct # d.ct) => d.ss = HASH_H(d.ct, d.sk.z)

\* Randomness: the seed of A, which is published, is never also a secret (a
\* seed of s, a z, a message), and no two secrets come from one draw, over all
\* keys and encapsulations, across initialisations with different seeds
\* (kem.c:65,66,76,103 share one generator).
DrawsSeparate ==
  /\ \A k \in keys : k.s.val # k.z.val
  /\ \A k, l \in keys :
       /\ k.pk.A.val \notin {l.s.val, l.z.val}
       /\ k # l => {k.s.val, k.z.val} \cap {l.s.val, l.z.val} = {}
  /\ \A k \in keys, e \in encs : e.m \notin {k.pk.A.val, k.s.val, k.z.val}
  /\ \A e, f \in encs : e.m = f.m => e = f

\* Every string that was drawn since the generator was initialised is in exactly one
\* place: three in each key pair, one in each encapsulation.  A call that is refused
\* takes none, whatever buffer it was given and however often (kem.c:97-103), no
\* call draws a string and drops it, and none uses a string it did not draw.
DrawsAccounted ==
  FreshSeeds =>
    drng.n = 3 * Cardinality({k \in keys : k.z.val.seed = drng.seed})
               + Cardinality({e \in encs : e.m.seed = drng.seed})

(***************************************************************************)
(* The inductive invariant: what the history and the buffers remember.     *)
(***************************************************************************)

\* Keys, encapsulations and decapsulations are what the code computes, and every
\* ciphertext around is one of kem_enc up to damage.
KeyMade(k) ==
  /\ k.pk = pke_keygen(k.pk.A.val, k.s.val)
  /\ k.s = Clean(k.s.val)
  /\ k.hpk = HASH_F(k.pk)
EncMade(e) ==
  LET hpk == HASH_F(e.pk)
  IN  /\ e.ct = pke_encrypt(e.pk, e.m, G_seedSp(hpk, e.m))
      /\ e.ss = G_K(hpk, e.m)
DecMade(d) ==
  LET m == d.ct.cm.val.m
      accepted == /\ Decryptable(d.ct, d.sk.s)
                  /\ d.ct = pke_encrypt(d.sk.pk, m, G_seedSp(d.sk.hpk, m))
  IN  d.ss = (IF accepted THEN G_K(d.sk.hpk, m) ELSE HASH_H(d.ct, d.sk.z))
Origin(c) == \E e \in encs : c.bp.val = e.ct.bp.val /\ c.cm.val = e.ct.cm.val

\* A draw that the generator has left behind.
Past(d) ==
  IF d.seed = drng.seed THEN d.n < drng.n ELSE d.seed \in used \cup {NoSeed}

HistoryInv ==
  /\ \A k \in keys : KeyMade(k)
  /\ \A e \in encs : EncMade(e)
  /\ \A d \in decs : DecMade(d) /\ Origin(d.ct)
  /\ \A j \in Slots : ct[j] # Blank => Origin(ct[j].body)

DrawsInv ==
  /\ drng.seed \in used \cup {NoSeed}
  /\ \A k \in keys : Past(k.pk.A.val) /\ Past(k.s.val) /\ Past(k.z.val)
  /\ \A e \in encs : Past(e.m)
  /\ \A i \in Slots : sk[i] # Blank => Past(sk[i].body.s.val)
  /\ \A d \in decs : Past(d.sk.s.val)

----------------------------------------------------------------------------
(* The refinement: the history of the calls, seen as the tables of IdealKem. *)

\* A private key answers for its public key as long as it is as generated.
Corrupt == [corrupt |-> TRUE]
Owner(key) == IF key \in keys THEN key.pk ELSE Corrupt

Issue(e) == [to |-> e.pk, ct |-> e.ct, ss |-> e.ss, sound |-> e.m.n \notin Unlucky]
Answer(d) == [by |-> Owner(d.sk), ct |-> d.ct, ss |-> d.ss]

Owners == {k.pk : k \in keys}
Issued == {Issue(e) : e \in encs}
Answered == {Answer(d) : d \in decs}

Ideal == INSTANCE IdealKem WITH owners <- Owners, issued <- Issued, answered <- Answered

\* Every history of calls, with whatever happened to the buffers in between, is
\* one of the ideal mechanism: kem_keygen, kem_enc and kem_dec map to Generate,
\* Encapsulate and Accept or Reject (or to nothing new).
RefinesIdealKem == Ideal!Spec

\* kem.h:90 says of kem_dec: "If decapsulation successfully, return 0; if
\* decapsulation unsuccessfully, return -1".  The code returns 0 on an implicit
\* rejection, and the caller cannot tell it from a success.
DecReportsFailure ==
  [][\A d \in decs' \ decs : d.ss = HASH_H(d.ct, d.sk.z) => rc' = -1]_vars
=============================================================================
