----------------------------- MODULE KemProofs -----------------------------
(***************************************************************************)
(* Theorems about Kem, for every set of buffers and seeds, every length,   *)
(* every noise pattern (Unlucky) and every bound.                          *)
(***************************************************************************)
EXTENDS Kem, FiniteSetTheorems, TLAPS

USE DEF ABSORBED, TOLERATED, BROKEN

----------------------------------------------------------------------------
(* Lemmas about the operators.                                             *)

\* ct_cmp returns one of the two masks, 0 exactly when nothing differs
\* (pke.c:40-47).
LEMMA CtCmpIsMask ==
  /\ ct_cmp(0) = 0
  /\ \A r \in 1..255 : ct_cmp(r) = 255
<1>1. ct_cmp(0) = 0
  BY HalfAssumption DEF ct_cmp
<1>2. ASSUME NEW r \in 1..255 PROVE ct_cmp(r) = 255
  <2>1. (2 * HALF - r) % (2 * HALF) = 2 * HALF - r
    BY HalfAssumption
  <2>2. (2 * HALF - r) \div HALF = 1
    BY HalfAssumption
  <2> QED  BY <2>1, <2>2 DEF ct_cmp
<1> QED  BY <1>1, <1>2

\* The values the hash functions and pke_keygen return.
LEMMA KeyTypes ==
  ASSUME NEW a \in Draw, NEW s \in Draw
  PROVE  pke_keygen(a, s) \in PublicKey
BY DEF pke_keygen, PublicKey, Field, Clean

LEMMA HashTypes ==
  /\ \A p \in PublicKey : HASH_F(p) \in Field(HashOfKey)
  /\ \A h \in Field(HashOfKey), m \in Draw :
       G_K(h, m) \in SharedSecret /\ G_seedSp(h, m) \in Coins
  /\ \A c \in Ciphertext, z \in Field(Draw) : HASH_H(c, z) \in SharedSecret
<1>1. ASSUME NEW p \in PublicKey PROVE HASH_F(p) \in Field(HashOfKey)
  <2>1. <<p>> \in [1..1 -> PublicKey]
    OBVIOUS
  <2> QED  BY <2>1 DEF HASH_F, Clean, Field, shake256_head, HashOfKey
<1>2. ASSUME NEW h \in Field(HashOfKey), NEW m \in Draw
      PROVE  G_K(h, m) \in SharedSecret /\ G_seedSp(h, m) \in Coins
  <2>1. <<h, m>> \in SecretInput
    BY DEF SecretInput
  <2> QED
    BY <2>1 DEF G_K, G_seedSp, shake256_head, shake256_tail, SharedSecret, Coins
<1>3. ASSUME NEW c \in Ciphertext, NEW z \in Field(Draw)
      PROVE  HASH_H(c, z) \in SharedSecret
  BY DEF HASH_H, shake256_head, SharedSecret
<1> QED  BY <1>1, <1>2, <1>3

LEMMA EncryptType ==
  ASSUME NEW p \in PublicKey, NEW m \in Draw, NEW sp \in Coins
  PROVE  pke_encrypt(p, m, sp) \in Ciphertext
<1>1. Rounded(p.b) \in Field([A : Draw, s : Draw])
  BY DEF Rounded, PublicKey, Field, Clean
<1> QED
  BY <1>1 DEF pke_encrypt, Ciphertext, PublicKey, Field, Clean

\* The two outcomes of a decapsulation: the ciphertext is the one re-encrypted,
\* and then the message it carries was decrypted and kem_dec returns the secret
\* of that message; or kem_dec returns H(ct, z).  A garbled message is never
\* re-encrypted to the ciphertext it came from.
LEMMA DecapsulationOutcome ==
  ASSUME NEW key \in PrivateKey, NEW c \in Ciphertext,
         NEW K \in Decapsulations(key, c)
  PROVE  \/ /\ Decryptable(c, key.s)
            /\ c = pke_encrypt(key.pk, c.cm.val.m, G_seedSp(key.hpk, c.cm.val.m))
            /\ K = G_K(key.hpk, c.cm.val.m)
         \/ /\ ~ /\ Decryptable(c, key.s)
                 /\ c = pke_encrypt(key.pk, c.cm.val.m, G_seedSp(key.hpk, c.cm.val.m))
            /\ K = HASH_H(c, key.z)
<1> DEFINE mp == pke_decrypt(c, key.s)
           ctp == pke_encrypt(key.pk, mp, G_seedSp(key.hpk, mp))
<1>1. PICK r \in DiffBytes(c, ctp) :
        K = Select(G_K(key.hpk, mp), HASH_H(c, key.z), ct_cmp(r))
  BY DEF Decapsulations
<1>2. CASE c = ctp
  <2>1. r = 0
    BY <1>1, <1>2 DEF DiffBytes
  <2>2. K = G_K(key.hpk, mp)
    BY <1>1, <2>1, CtCmpIsMask DEF Select
  <2>3. Decryptable(c, key.s)
    <3>1. ctp.cm.val.m = mp
      BY DEF pke_encrypt, Clean
    <3>2. c.cm.val.m \in Draw
      BY DEF Ciphertext, Field
    <3>3. mp # [garbled |-> <<c, key.s>>]
      BY <1>2, <3>1, <3>2 DEF Draw
    <3> QED  BY <3>3 DEF pke_decrypt
  <2>4. mp = c.cm.val.m
    BY <2>3 DEF pke_decrypt
  <2> QED  BY <1>2, <2>2, <2>3, <2>4
<1>3. CASE c # ctp
  <2>1. r \in 1..255
    BY <1>1, <1>3, DiffsAssumption DEF DiffBytes
  <2>2. K = HASH_H(c, key.z)
    BY <1>1, <2>1, CtCmpIsMask DEF Select
  <2>3. Decryptable(c, key.s) => mp = c.cm.val.m
    BY DEF pke_decrypt
  <2> QED  BY <1>3, <2>2, <2>3
<1> QED  BY <1>2, <1>3

----------------------------------------------------------------------------
(* Type correctness.                                                       *)

\* Damage changes the err of a field and nothing else.
LEMMA DamageTypes ==
  /\ \A p \in PublicKey : DamagePk(p) \subseteq PublicKey
  /\ \A s \in PrivateKey : DamageSk(s) \subseteq PrivateKey
  /\ \A c \in Ciphertext : DamageCt(c) \subseteq Ciphertext
<1>1. ASSUME NEW p \in PublicKey PROVE DamagePk(p) \subseteq PublicKey
  BY DEF DamagePk, PublicKey, Field
<1>2. ASSUME NEW s \in PrivateKey PROVE DamageSk(s) \subseteq PrivateKey
  <2>1. s.pk \in PublicKey
    BY DEF PrivateKey
  <2>2. \A p \in DamagePk(s.pk) : [s EXCEPT !.pk = p] \in PrivateKey
    BY <1>1, <2>1 DEF PrivateKey
  <2>3. \A e \in {0, BROKEN} : /\ [s EXCEPT !.s.err = e] \in PrivateKey
                              /\ [s EXCEPT !.hpk.err = e] \in PrivateKey
                              /\ [s EXCEPT !.z.err = e] \in PrivateKey
    BY DEF PrivateKey, Field
  <2> QED  BY <2>2, <2>3 DEF DamageSk
<1>3. ASSUME NEW c \in Ciphertext PROVE DamageCt(c) \subseteq Ciphertext
  BY DEF DamageCt, Ciphertext, Field
<1> QED  BY <1>1, <1>2, <1>3

\* A buffer is blank, or it holds a body of its type and one of two lengths.
LEMMA BufferLengths ==
  /\ PK_LEN # 0 /\ PK_LEN # PK_LEN - 1
  /\ SK_LEN # 0 /\ SK_LEN # SK_LEN - 1
  /\ CT_LEN # 0 /\ CT_LEN # CT_LEN - 1
BY LengthsAssumption

\* Every call keeps the types of the DRNG, the buffers and the history.
THEOREM TypeCorrect == Spec => []TypeOK
<1> USE LengthsAssumption
<1>1. Init => TypeOK
  BY DEF Init, TypeOK, Draw, Buffer, Blank
<1>2. TypeOK /\ [Next]_vars => TypeOK'
  <2> SUFFICES ASSUME TypeOK, [Next]_vars PROVE TypeOK'
    OBVIOUS
  <2>1. CASE \E seed \in Seeds : init_random_number(seed)
    BY <2>1 DEF init_random_number, TypeOK, Draw
  <2>2. ASSUME NEW i \in Slots, kem_keygen(i) PROVE TypeOK'
    <3> DEFINE a == Drawn(drng, 1)
               b == Drawn(drng, 2)
               z == Drawn(drng, 3)
               p == pke_keygen(a, b)
               s == [s |-> Clean(b), pk |-> p, hpk |-> HASH_F(p), z |-> Clean(z)]
    <3>1. a \in Draw /\ b \in Draw /\ z \in Draw /\ drng' \in Draw
      BY <2>2 DEF kem_keygen, GENERATE_RANDOM_BYTES, Drawn, Draw, TypeOK
    <3>2. p \in PublicKey
      BY <3>1, KeyTypes
    <3>3. HASH_F(p) \in Field(HashOfKey)
      BY <3>2, HashTypes
    <3>4. s \in PrivateKey
      BY <3>1, <3>2, <3>3 DEF PrivateKey, Field, Clean
    <3>5. /\ pk' = [pk EXCEPT ![i] = Filled(PK_LEN, p)]
          /\ sk' = [sk EXCEPT ![i] = Filled(SK_LEN, s)]
          /\ keys' = keys \cup {s}
          /\ rc' = 0 /\ UNCHANGED <<used, ct, ss, encs, decs, faults>>
      BY <2>2 DEF kem_keygen
    <3>6. Filled(PK_LEN, p) \in Buffer(PublicKey, PK_LEN)
      BY <3>2 DEF Filled, Buffer
    <3>7. Filled(SK_LEN, s) \in Buffer(PrivateKey, SK_LEN)
      BY <3>4 DEF Filled, Buffer
    <3> HIDE DEF a, b, z, p, s
    <3> QED  BY <3>1, <3>4, <3>5, <3>6, <3>7 DEF TypeOK
  <2>3. ASSUME NEW i \in Slots, NEW j \in Slots, pk[i].len = PK_LEN, Encapsulate(i, j) PROVE TypeOK'
    <3> DEFINE p == pk[i].body
               m == Drawn(drng, 1)
               hpk == HASH_F(p)
               c == pke_encrypt(p, m, G_seedSp(hpk, m))
               K == G_K(hpk, m)
    <3>1. m \in Draw /\ drng' \in Draw
      BY <2>3 DEF Encapsulate, GENERATE_RANDOM_BYTES, Drawn, Draw, TypeOK
    <3>2. p \in PublicKey
      BY <2>3 DEF Encapsulate, TypeOK, Buffer, Blank
    <3>3. c \in Ciphertext /\ K \in SharedSecret
      BY <3>1, <3>2, HashTypes, EncryptType
    <3>4. /\ ct' = [ct EXCEPT ![j] = Filled(CT_LEN, c)]
          /\ ss' = [ss EXCEPT !["enc"] = Filled(SS_LEN, K)]
          /\ encs' = encs \cup {[pk |-> p, m |-> m, ct |-> c, ss |-> K]}
          /\ rc' = 0 /\ UNCHANGED <<used, pk, sk, keys, decs, faults>>
      BY <2>3 DEF Encapsulate
    <3>5. Filled(CT_LEN, c) \in Buffer(Ciphertext, CT_LEN)
      BY <3>3 DEF Filled, Buffer
    <3>6. Filled(SS_LEN, K) \in Buffer(SharedSecret, SS_LEN)
      BY <3>3 DEF Filled, Buffer
    <3> HIDE DEF p, m, hpk, c, K
    <3> QED  BY <3>1, <3>2, <3>3, <3>4, <3>5, <3>6 DEF TypeOK
  <2>4. ASSUME NEW i \in Slots, NEW j \in Slots, sk[i].len = SK_LEN, ct[j].len = CT_LEN,
               Decapsulate(i, j)
        PROVE  TypeOK'
    <3>1. sk[i].body \in PrivateKey /\ ct[j].body \in Ciphertext
      BY <2>4 DEF Decapsulate, TypeOK, Buffer, Blank
    <3>2. PICK K \in Decapsulations(sk[i].body, ct[j].body) :
            /\ decs' = decs \cup {[sk |-> sk[i].body, ct |-> ct[j].body, ss |-> K]}
            /\ ss' = [ss EXCEPT !["dec"] = Filled(SS_LEN, K)]
      BY <2>4 DEF Decapsulate
    <3>3. K \in SharedSecret
      <4>1. sk[i].body.hpk \in Field(HashOfKey) /\ sk[i].body.z \in Field(Draw)
        BY <3>1 DEF PrivateKey
      <4>2. ct[j].body.cm.val.m \in Draw
        BY <3>1 DEF Ciphertext, Field
      <4> QED  BY <3>1, <4>1, <4>2, HashTypes, DecapsulationOutcome
    <3>4. Filled(SS_LEN, K) \in Buffer(SharedSecret, SS_LEN)
      BY <3>3 DEF Filled, Buffer
    <3>5. rc' = 0 /\ UNCHANGED <<drng, used, pk, sk, ct, keys, encs, faults>>
      BY <2>4 DEF Decapsulate
    <3> QED  BY <3>1, <3>2, <3>3, <3>4, <3>5 DEF TypeOK
  <2>5. ASSUME rc' = -1, UNCHANGED <<drng, used, pk, sk, ct, ss, keys, encs, decs, faults>>
        PROVE  TypeOK'
    BY <2>5 DEF TypeOK
  <2>6. ASSUME NEW i \in Slots, Damage(i) PROVE TypeOK'
    <3>1. /\ pk' \in [Slots -> Buffer(PublicKey, PK_LEN)]
          /\ sk' \in [Slots -> Buffer(PrivateKey, SK_LEN)]
          /\ ct' \in [Slots -> Buffer(Ciphertext, CT_LEN)]
      BY <2>6, DamageTypes, BufferLengths DEF Damage, TypeOK, Buffer, Blank
    <3> QED  BY <2>6, <3>1 DEF Damage, TypeOK
  <2>7. ASSUME NEW i \in Slots, Truncate(i) PROVE TypeOK'
    <3>1. /\ pk' \in [Slots -> Buffer(PublicKey, PK_LEN)]
          /\ sk' \in [Slots -> Buffer(PrivateKey, SK_LEN)]
          /\ ct' \in [Slots -> Buffer(Ciphertext, CT_LEN)]
      BY <2>7, BufferLengths DEF Truncate, TypeOK, Buffer, Blank
    <3> QED  BY <2>7, <3>1 DEF Truncate, TypeOK
  <2>8. CASE UNCHANGED vars
    BY <2>8 DEF vars, TypeOK
  <2> QED  BY <2>1, <2>2, <2>3, <2>4, <2>5, <2>6, <2>7, <2>8
           DEF Next, kem_enc, kem_dec
<1> QED  BY <1>1, <1>2, PTL DEF Spec

----------------------------------------------------------------------------
(* The history invariant and the properties it gives.                      *)

\* Damage keeps the value of every field, so a damaged ciphertext still comes
\* from the encapsulation it came from.
LEMMA DamageKeepsValues ==
  /\ \A c \in Ciphertext : \A d \in DamageCt(c) :
       d.bp.val = c.bp.val /\ d.cm.val = c.cm.val
  /\ \A s \in PrivateKey : \A t \in DamageSk(s) : t.s.val = s.s.val
<1>1. ASSUME NEW c \in Ciphertext, NEW d \in DamageCt(c)
      PROVE  d.bp.val = c.bp.val /\ d.cm.val = c.cm.val
  BY DEF DamageCt, Ciphertext, Field
<1>2. ASSUME NEW s \in PrivateKey, NEW t \in DamageSk(s)
      PROVE  t.s.val = s.s.val
  BY DEF DamageSk, PrivateKey, Field
<1> QED  BY <1>1, <1>2

\* What one decapsulation adds to the history has the shape DecMade describes.
LEMMA DecapsulationMade ==
  ASSUME NEW key \in PrivateKey, NEW c \in Ciphertext,
         NEW K \in Decapsulations(key, c)
  PROVE  DecMade([sk |-> key, ct |-> c, ss |-> K])
BY DecapsulationOutcome DEF DecMade

\* The history invariant holds in every reachable state.
THEOREM HistoryCorrect == Spec => []HistoryInv
<1>1. Init => HistoryInv
  BY DEF Init, HistoryInv
<1>2. TypeOK /\ HistoryInv /\ [Next]_vars => HistoryInv'
  <2> SUFFICES ASSUME TypeOK, HistoryInv, [Next]_vars PROVE HistoryInv'
    OBVIOUS
  <2>0. ASSUME encs \subseteq encs', NEW c, Origin(c) PROVE Origin(c)'
    BY <2>0 DEF Origin
  <2>1. ASSUME UNCHANGED <<ct, keys, encs, decs>> PROVE HistoryInv'
    BY <2>1 DEF HistoryInv, Origin
  <2>2. ASSUME NEW i \in Slots, kem_keygen(i) PROVE HistoryInv'
    <3> DEFINE a == Drawn(drng, 1)
               b == Drawn(drng, 2)
               z == Drawn(drng, 3)
               p == pke_keygen(a, b)
               s == [s |-> Clean(b), pk |-> p, hpk |-> HASH_F(p), z |-> Clean(z)]
    <3>2. KeyMade(s)
      BY DEF KeyMade, pke_keygen, Clean
    <3>3. keys' = keys \cup {s} /\ UNCHANGED <<ct, encs, decs>>
      BY <2>2 DEF kem_keygen
    <3> HIDE DEF s
    <3> QED  BY <3>2, <3>3 DEF HistoryInv, Origin
  <2>3. ASSUME NEW i \in Slots, NEW j \in Slots, pk[i].len = PK_LEN, Encapsulate(i, j) PROVE HistoryInv'
    <3> DEFINE p == pk[i].body
               m == Drawn(drng, 1)
               hpk == HASH_F(p)
               c == pke_encrypt(p, m, G_seedSp(hpk, m))
               e == [pk |-> p, m |-> m, ct |-> c, ss |-> G_K(hpk, m)]
    <3>1. EncMade(e)
      BY DEF EncMade
    <3>2. /\ encs' = encs \cup {e} /\ UNCHANGED <<keys, decs>>
          /\ ct' = [ct EXCEPT ![j] = Filled(CT_LEN, c)]
      BY <2>3 DEF Encapsulate
    <3>3. e.ct = c /\ Filled(CT_LEN, c).body = c
      BY DEF Filled
    <3> HIDE DEF e, c
    <3>4. \A l \in Slots : (ct[l] # Blank => Origin(ct[l].body))'
      <4> SUFFICES ASSUME NEW l \in Slots, ct'[l] # Blank
                   PROVE  \E f \in encs' : /\ ct'[l].body.bp.val = f.ct.bp.val
                                           /\ ct'[l].body.cm.val = f.ct.cm.val
        BY DEF Origin
      <4>1. CASE l = j
        <5>1. ct'[l].body = e.ct
          BY <3>2, <3>3, <4>1 DEF TypeOK
        <5> QED  BY <3>2, <5>1
      <4>2. CASE l # j
        <5>1. ct'[l] = ct[l]
          BY <3>2, <4>2 DEF TypeOK
        <5>2. \E f \in encs : /\ ct[l].body.bp.val = f.ct.bp.val
                              /\ ct[l].body.cm.val = f.ct.cm.val
          BY <5>1 DEF HistoryInv, Origin
        <5> QED  BY <3>2, <5>1, <5>2
      <4> QED  BY <4>1, <4>2
    <3>5. \A d \in decs : Origin(d.ct)'
      BY <2>0, <3>2 DEF HistoryInv
    <3> QED  BY <3>1, <3>2, <3>4, <3>5 DEF HistoryInv
  <2>4. ASSUME NEW i \in Slots, NEW j \in Slots, sk[i].len = SK_LEN, ct[j].len = CT_LEN,
               Decapsulate(i, j)
        PROVE  HistoryInv'
    <3>1. sk[i].body \in PrivateKey /\ ct[j].body \in Ciphertext /\ ct[j] # Blank
      BY <2>4, BufferLengths DEF Decapsulate, TypeOK, Buffer, Blank
    <3>2. PICK K \in Decapsulations(sk[i].body, ct[j].body) :
            decs' = decs \cup {[sk |-> sk[i].body, ct |-> ct[j].body, ss |-> K]}
      BY <2>4 DEF Decapsulate
    <3>3. DecMade([sk |-> sk[i].body, ct |-> ct[j].body, ss |-> K])
      BY <3>1, <3>2, DecapsulationMade
    <3>4. Origin(ct[j].body)
      BY <3>1 DEF HistoryInv
    <3>5. UNCHANGED <<ct, keys, encs>>
      BY <2>4 DEF Decapsulate
    <3> QED  BY <3>2, <3>3, <3>4, <3>5 DEF HistoryInv, Origin
  <2>5. ASSUME NEW i \in Slots, Damage(i) PROVE HistoryInv'
    <3>1. UNCHANGED <<keys, encs, decs>>
      BY <2>5 DEF Damage
    <3>2. \A l \in Slots : ct'[l] # Blank => Origin(ct'[l].body)
      <4>1. CASE UNCHANGED ct
        BY <4>1 DEF HistoryInv
      <4>2. ASSUME ct[i].len = CT_LEN, NEW c \in DamageCt(ct[i].body),
                   ct' = [ct EXCEPT ![i].body = c]
            PROVE  \A l \in Slots : ct'[l] # Blank => Origin(ct'[l].body)
        <5>1. /\ ct[i] # Blank /\ ct[i].body \in Ciphertext
              /\ ct[i] \in [len : {CT_LEN, CT_LEN - 1}, body : Ciphertext]
          <6>1. ct[i] \in Buffer(Ciphertext, CT_LEN)
            BY DEF TypeOK
          <6>2. ct[i] # Blank
            BY <4>2, BufferLengths DEF Blank
          <6> QED  BY <6>1, <6>2 DEF Buffer
        <5>2. Origin(c)
          <6>1. Origin(ct[i].body)
            BY <5>1 DEF HistoryInv
          <6>2. c.bp.val = ct[i].body.bp.val /\ c.cm.val = ct[i].body.cm.val
            BY <4>2, <5>1, DamageKeepsValues
          <6> QED  BY <6>1, <6>2 DEF Origin
        <5>3. ct'[i].body = c /\ \A l \in Slots \ {i} : ct'[l] = ct[l]
          BY <4>2, <5>1 DEF TypeOK, Buffer
        <5> QED  BY <5>2, <5>3 DEF HistoryInv
      <4> QED  BY <2>5, <4>1, <4>2 DEF Damage
    <3> QED  BY <3>1, <3>2 DEF HistoryInv, Origin
  <2>6. ASSUME NEW i \in Slots, Truncate(i) PROVE HistoryInv'
    <3>1. UNCHANGED <<keys, encs, decs>>
      BY <2>6 DEF Truncate
    <3>2. \A l \in Slots : ct'[l] # Blank => ct[l] # Blank /\ ct'[l].body = ct[l].body
      <4>1. CASE UNCHANGED ct
        BY <4>1
      <4>2. CASE ct[i].len = CT_LEN /\ ct' = [ct EXCEPT ![i].len = CT_LEN - 1]
        <5>1. ct[i] \in Buffer(Ciphertext, CT_LEN) /\ ct[i] # Blank
          BY <4>2, BufferLengths DEF TypeOK, Blank
        <5>2. ct'[i].body = ct[i].body /\ \A l \in Slots \ {i} : ct'[l] = ct[l]
          BY <4>2, <5>1 DEF TypeOK, Buffer
        <5> QED  BY <5>1, <5>2
      <4> QED  BY <2>6, <4>1, <4>2 DEF Truncate
    <3> QED  BY <3>1, <3>2 DEF HistoryInv, Origin
  <2> QED
    BY <2>1, <2>2, <2>3, <2>4, <2>5, <2>6
       DEF Next, init_random_number, kem_enc, kem_dec, vars
<1> QED  BY <1>1, <1>2, TypeCorrect, PTL DEF Spec
\* The structure of an honest encapsulation: its fields carry no damage, its
\* message is a draw.
LEMMA HonestCiphertext ==
  ASSUME TypeOK, HistoryInv, NEW e \in encs
  PROVE  /\ e.m \in Draw /\ e.ct.cm.val.m = e.m
         /\ e.ct.bp.err = 0 /\ e.ct.cm.err = 0
         /\ e.ct.bp.val.A = e.pk.A /\ e.ct.cm.val.b = Rounded(e.pk.b)
         /\ e.ct.bp.val.sp = G_seedSp(HASH_F(e.pk), e.m)
         /\ e.ct.cm.val.sp = G_seedSp(HASH_F(e.pk), e.m)
<1>1. e.m \in Draw
  BY DEF TypeOK
<1>2. EncMade(e)
  BY DEF HistoryInv
<1> QED  BY <1>1, <1>2 DEF EncMade, pke_encrypt, Clean

\* A ciphertext that kem_dec accepts is one that kem_enc made, not a bit
\* different.
LEMMA AcceptedIsHonest ==
  ASSUME TypeOK, HistoryInv, NEW c \in Ciphertext, Origin(c),
         NEW p, NEW m, NEW sp, c = pke_encrypt(p, m, sp)
  PROVE  \E e \in encs : e.ct = c
<1>1. PICK e \in encs : c.bp.val = e.ct.bp.val /\ c.cm.val = e.ct.cm.val
  BY DEF Origin
<1>2. c.bp.err = 0 /\ c.cm.err = 0
  BY DEF pke_encrypt, Clean
<1>3. e.ct.bp.err = 0 /\ e.ct.cm.err = 0
  BY HonestCiphertext
<1>4. e.ct \in Ciphertext
  BY DEF TypeOK
<1>5. c.bp = e.ct.bp /\ c.cm = e.ct.cm
  BY <1>1, <1>2, <1>3, <1>4 DEF Ciphertext, Field
<1> QED  BY <1>4, <1>5 DEF Ciphertext

\* Hash inputs are told apart: equal secrets come from equal inputs, and the
\* input of G is never one of H.
LEMMA HashInputs ==
  /\ \A h, k, m, n : G_K(h, m) = G_K(k, n) => h = k /\ m = n
  /\ \A h, k, m, n : G_seedSp(h, m) = G_seedSp(k, n) => h = k /\ m = n
  /\ \A p, q : HASH_F(p) = HASH_F(q) => p = q
  /\ \A h, m, c, z : m \in Draw /\ z \in Field(Draw) => G_K(h, m) # HASH_H(c, z)
<1>1. \A h, k, m, n : G_K(h, m) = G_K(k, n) => h = k /\ m = n
  BY DEF G_K, shake256_head
<1>2. \A h, k, m, n : G_seedSp(h, m) = G_seedSp(k, n) => h = k /\ m = n
  BY DEF G_seedSp, shake256_tail
<1>3. \A p, q : HASH_F(p) = HASH_F(q) => p = q
  BY DEF HASH_F, Clean, shake256_head
<1>4. ASSUME NEW h, NEW c, NEW m \in Draw, NEW z \in Field(Draw)
      PROVE  G_K(h, m) # HASH_H(c, z)
  <2>1. m # z
    BY DEF Draw, Field
  <2> QED  BY <2>1 DEF G_K, HASH_H, shake256_head
<1> QED  BY <1>1, <1>2, <1>3, <1>4

\* What kem_enc made for a key, and no bad luck, that key accepts.
LEMMA HonestAccepted ==
  ASSUME TypeOK, HistoryInv, NEW e \in encs, NEW k \in keys,
         k.pk = e.pk, e.m.n \notin Unlucky
  PROVE  /\ Decryptable(e.ct, k.s)
         /\ e.ct = pke_encrypt(k.pk, e.m, G_seedSp(k.hpk, e.m))
         /\ e.ss = G_K(k.hpk, e.m)
<1>1. EncMade(e) /\ KeyMade(k)
  BY DEF HistoryInv
<1>2. /\ Rounded(e.pk.b) = e.pk.b
      /\ e.pk.b = Clean([A |-> k.pk.A.val, s |-> k.s.val])
      /\ e.pk.A = Clean(k.pk.A.val)
  BY <1>1 DEF KeyMade, pke_keygen, Rounded, Clean
<1>3. Decryptable(e.ct, k.s)
  <2>0. e.ct.cm.val.b = Clean([A |-> k.pk.A.val, s |-> k.s.val])
    BY <1>2, HonestCiphertext
  <2>1. k.s = Clean(e.ct.cm.val.b.val.s)
    BY <1>1, <2>0 DEF KeyMade, Clean
  <2>2. e.ct.bp.val.A = Clean(e.ct.cm.val.b.val.A)
    <3>1. e.ct.cm.val.b.val.A = k.pk.A.val
      BY <2>0 DEF Clean
    <3> QED  BY <1>2, <3>1, HonestCiphertext
  <2>3. Noise(e.ct) <= TOLERATED
    <3>1. e.ct.cm.val.b.err = 0
      BY <2>0 DEF Clean
    <3> QED  BY <3>1, HonestCiphertext DEF Noise
  <2> QED  BY <2>1, <2>2, <2>3, HonestCiphertext DEF Decryptable
<1> QED  BY <1>1, <1>3 DEF EncMade, KeyMade

\* An accepted ciphertext is that of one encapsulation, whose secret it gives,
\* and the private key holds the hash of the public key that one used.
LEMMA AcceptedSecret ==
  ASSUME TypeOK, HistoryInv, NEW c \in Ciphertext, Origin(c), NEW p, NEW hpk,
         c = pke_encrypt(p, c.cm.val.m, G_seedSp(hpk, c.cm.val.m))
  PROVE  \E f \in encs : /\ f.ct = c /\ f.m = c.cm.val.m
                         /\ hpk = HASH_F(f.pk)
                         /\ f.ss = G_K(hpk, c.cm.val.m)
<1>1. PICK m : m = c.cm.val.m
  OBVIOUS
<1>2. PICK f \in encs : f.ct = c
  BY AcceptedIsHonest
<1>3. f.m = m
  BY <1>1, <1>2, HonestCiphertext
<1>4. c.bp.val.sp = G_seedSp(hpk, m)
  BY <1>1 DEF pke_encrypt, Clean
<1>5. G_seedSp(HASH_F(f.pk), f.m) = G_seedSp(hpk, m)
  BY <1>2, <1>4, HonestCiphertext
<1>6. HASH_F(f.pk) = hpk
  BY <1>5, HashInputs
<1> QED  BY <1>1, <1>2, <1>3, <1>6 DEF HistoryInv, EncMade

\* Both parties hold one secret (the property Agreement).
THEOREM BothPartiesAgree == Spec => []Agreement
<1>1. TypeOK /\ HistoryInv => Agreement
  <2> SUFFICES ASSUME TypeOK, HistoryInv, NEW e \in encs, NEW d \in decs,
                      d.ct = e.ct, e.m.n \notin Unlucky, d.sk.pk = e.pk,
                      NEW k \in keys, d.sk = [k EXCEPT !.z = d.sk.z]
               PROVE  d.ss = e.ss
    BY DEF Agreement
  <2>1. DecMade(d)
    BY DEF HistoryInv
  <2>2. d.sk.s = k.s /\ d.sk.pk = k.pk /\ d.sk.hpk = k.hpk
    <3>1. k \in PrivateKey
      BY DEF TypeOK
    <3> QED  BY <3>1 DEF PrivateKey
  <2>3. /\ Decryptable(e.ct, k.s)
        /\ e.ct = pke_encrypt(k.pk, e.m, G_seedSp(k.hpk, e.m))
        /\ e.ss = G_K(k.hpk, e.m)
    BY <2>2, HonestAccepted
  <2> QED  BY <2>1, <2>2, <2>3, HonestCiphertext DEF DecMade
<1> QED  BY <1>1, TypeCorrect, HistoryCorrect, PTL

\* The secret of an encapsulation is bound to its ciphertext and to the public
\* key it was made for (the property SecretBinding).
THEOREM SecretsAreBound == Spec => []SecretBinding
<1>1. TypeOK /\ HistoryInv => SecretBinding
  <2> SUFFICES ASSUME TypeOK, HistoryInv, NEW e \in encs, NEW d \in decs, d.ss = e.ss
               PROVE  /\ d.ct = e.ct
                      /\ d.sk.hpk = HASH_F(e.pk)
                      /\ d.sk.pk.A = e.pk.A /\ Rounded(d.sk.pk.b) = Rounded(e.pk.b)
    BY DEF SecretBinding
  <2> DEFINE m == d.ct.cm.val.m
  <2>1. EncMade(e) /\ DecMade(d) /\ Origin(d.ct) /\ d.ct \in Ciphertext
    BY DEF HistoryInv, TypeOK
  <2>2. d.ss # HASH_H(d.ct, d.sk.z)
    <3>1. d.sk.z \in Field(Draw)
      BY DEF TypeOK, PrivateKey
    <3> QED  BY <2>1, <3>1, HashInputs, HonestCiphertext DEF EncMade
  <2>3. d.ct = pke_encrypt(d.sk.pk, m, G_seedSp(d.sk.hpk, m))
        /\ d.ss = G_K(d.sk.hpk, m)
    BY <2>1, <2>2 DEF DecMade
  <2>4. d.sk.hpk = HASH_F(e.pk) /\ m = e.m
    BY <2>1, <2>3, HashInputs DEF EncMade
  <2>5. PICK f \in encs : f.ct = d.ct /\ f.m = m /\ d.sk.hpk = HASH_F(f.pk)
    BY <2>1, <2>3, AcceptedSecret
  <2>6. f.pk = e.pk
    BY <2>4, <2>5, HashInputs
  <2>7. d.ct = e.ct
    BY <2>1, <2>4, <2>5, <2>6 DEF HistoryInv, EncMade
  <2>8. d.sk.pk.A = e.pk.A /\ Rounded(d.sk.pk.b) = Rounded(e.pk.b)
    <3>1. d.ct.bp.val.A = d.sk.pk.A
      BY <2>3 DEF pke_encrypt, Clean
    <3>2. d.ct.cm.val.b = Rounded(d.sk.pk.b)
      BY <2>3 DEF pke_encrypt, Clean
    <3> QED  BY <2>7, <3>1, <3>2, HonestCiphertext
  <2> QED  BY <2>4, <2>7, <2>8
<1> QED  BY <1>1, TypeCorrect, HistoryCorrect, PTL

\* A ciphertext that no kem_enc made is answered with H(ct, z) (the property
\* ImplicitRejection).
THEOREM ForgeriesAreRejected == Spec => []ImplicitRejection
<1>1. TypeOK /\ HistoryInv => ImplicitRejection
  <2> SUFFICES ASSUME TypeOK, HistoryInv, NEW d \in decs,
                      \A e \in encs : e.ct # d.ct
               PROVE  d.ss = HASH_H(d.ct, d.sk.z)
    BY DEF ImplicitRejection
  <2>1. DecMade(d)
    BY DEF HistoryInv
  <2>2. \A p, m, sp : d.ct # pke_encrypt(p, m, sp)
    BY AcceptedIsHonest DEF HistoryInv, TypeOK
  <2> QED  BY <2>1, <2>2 DEF DecMade
<1> QED  BY <1>1, TypeCorrect, HistoryCorrect, PTL

----------------------------------------------------------------------------
(* Randomness.                                                             *)

\* The strings of the present call are none of those of earlier calls.
LEMMA NextDrawIsNew ==
  ASSUME TypeOK, NEW k \in 1..3, NEW d, Past(d)
  PROVE  d # Drawn(drng, k)
<1>1. /\ Drawn(drng, k).seed = drng.seed /\ drng.n \in Nat
      /\ Drawn(drng, k).n \in Nat /\ Drawn(drng, k).n >= drng.n
  BY DEF Drawn, TypeOK, Draw
<1> QED  BY <1>1 DEF Past

LEMMA DrawsOfOneCall ==
  ASSUME TypeOK
  PROVE  /\ Drawn(drng, 1) # Drawn(drng, 2)
         /\ Drawn(drng, 1) # Drawn(drng, 3)
         /\ Drawn(drng, 2) # Drawn(drng, 3)
BY DEF Drawn, TypeOK, Draw

\* Where the draws of DrawsInv are kept, they are draws.
LEMMA DrawTypes ==
  ASSUME TypeOK
  PROVE  /\ \A k \in keys : k.pk.A.val \in Draw /\ k.s.val \in Draw /\ k.z.val \in Draw
         /\ \A e \in encs : e.m \in Draw
         /\ \A i \in Slots : sk[i] # Blank => sk[i].body.s.val \in Draw
         /\ \A d \in decs : d.sk.s.val \in Draw
<1>1. \A k \in PrivateKey : k.pk.A.val \in Draw /\ k.s.val \in Draw /\ k.z.val \in Draw
  BY DEF PrivateKey, PublicKey, Field
<1>2. \A i \in Slots : sk[i] # Blank => sk[i].body \in PrivateKey
  BY DEF TypeOK, Buffer
<1> QED  BY <1>1, <1>2 DEF TypeOK

\* Time passes for the draws too: what is past stays past.
LEMMA PastStays ==
  ASSUME TypeOK, NEW k \in 1..3, NEW d \in Draw, Past(d),
         drng' = GENERATE_RANDOM_BYTES(drng, k), UNCHANGED used
  PROVE  IF d.seed = drng'.seed THEN d.n < drng'.n ELSE d.seed \in used' \cup {NoSeed}
BY DEF Past, GENERATE_RANDOM_BYTES, TypeOK, Draw

\* As long as the caller does not initialise twice with one seed, no random
\* string serves twice (the property DrawsSeparate, with its invariant).
THEOREM RandomnessSeparate ==
  ASSUME FreshSeeds
  PROVE  Spec => [](DrawsInv /\ DrawsSeparate)
<1> USE DEF Past
<1> DEFINE Inv == DrawsInv /\ DrawsSeparate
<1>1. Init => Inv
  BY DEF Init, DrawsInv, DrawsSeparate
<1>2. TypeOK /\ Inv /\ [Next]_vars => Inv'
  <2> SUFFICES ASSUME TypeOK, Inv, [Next]_vars PROVE Inv'
    OBVIOUS
  <2>1. ASSUME UNCHANGED <<drng, used, sk, keys, encs, decs>> PROVE Inv'
    BY <2>1 DEF DrawsInv, DrawsSeparate
  <2>2. ASSUME NEW seed \in Seeds, init_random_number(seed) PROVE Inv'
    <3>1. /\ seed \notin used /\ drng' = [seed |-> seed, n |-> 0]
          /\ used' = used \cup {seed}
          /\ UNCHANGED <<sk, keys, encs, decs>>
      BY <2>2 DEF init_random_number
    <3>2. \A d : Past(d) => Past(d)'
      BY <3>1, SeedsAssumption DEF DrawsInv
    <3>3. DrawsInv'
      BY <3>1, <3>2 DEF DrawsInv
    <3> QED  BY <3>1, <3>3 DEF DrawsSeparate
  <2>3. ASSUME NEW i \in Slots, kem_keygen(i) PROVE Inv'
    <3>0. PICK a, b, z : a = Drawn(drng, 1) /\ b = Drawn(drng, 2) /\ z = Drawn(drng, 3)
      OBVIOUS
    <3> DEFINE p == pke_keygen(a, b)
               s == [s |-> Clean(b), pk |-> p, hpk |-> HASH_F(p), z |-> Clean(z)]
    <3>1. s.pk.A.val = a /\ s.s.val = b /\ s.z.val = z
      BY DEF pke_keygen, Clean
    <3>2. /\ drng' = GENERATE_RANDOM_BYTES(drng, 3)
          /\ sk' = [sk EXCEPT ![i] = Filled(SK_LEN, s)]
          /\ keys' = keys \cup {s} /\ UNCHANGED <<used, encs, decs>>
      BY <2>3, <3>0 DEF kem_keygen
    <3>3. \A d \in Draw : Past(d) => Past(d)'
      BY <3>2, PastStays
    <3>4. Past(a)' /\ Past(b)' /\ Past(z)'
      BY <3>0, <3>2 DEF GENERATE_RANDOM_BYTES, Drawn, TypeOK, Draw
    <3>5. \A d : Past(d) => d \notin {a, b, z}
      BY <3>0, NextDrawIsNew
    <3>6. a # b /\ a # z /\ b # z
      BY <3>0, DrawsOfOneCall
    <3>7. Filled(SK_LEN, s).body = s
      BY DEF Filled
    <3> HIDE DEF p, s
    <3>8. DrawsInv'
      <4>1. drng'.seed = drng.seed
        BY <3>2 DEF GENERATE_RANDOM_BYTES, TypeOK, Draw
      <4>2. \A l \in Slots : (sk[l] # Blank => Past(sk[l].body.s.val))'
        BY <3>1, <3>2, <3>3, <3>4, <3>7, DrawTypes DEF TypeOK, DrawsInv
      <4> QED  BY <3>1, <3>2, <3>3, <3>4, <4>1, <4>2, DrawTypes DEF DrawsInv
    <3>9. DrawsSeparate'
      <4>1. \A k \in keys : /\ k.pk.A.val \notin {a, b, z} /\ k.s.val \notin {a, b, z}
                            /\ k.z.val \notin {a, b, z}
        BY <3>5 DEF DrawsInv
      <4>2. \A e \in encs : e.m \notin {a, b, z}
        BY <3>5 DEF DrawsInv
      <4>3. \A k \in keys' : k \in keys \/ k = s
        BY <3>2
      <4>4. (\A k \in keys : k.s.val # k.z.val)'
        BY <3>1, <3>6, <4>3 DEF DrawsSeparate
      <4>5. (\A k, l \in keys : k.pk.A.val \notin {l.s.val, l.z.val})'
        BY <3>1, <3>6, <4>1, <4>3 DEF DrawsSeparate
      <4>6. (\A k, l \in keys : k # l => {k.s.val, k.z.val} \cap {l.s.val, l.z.val} = {})'
        BY <3>1, <4>1, <4>3 DEF DrawsSeparate
      <4>7. (\A k \in keys, e \in encs : e.m \notin {k.pk.A.val, k.s.val, k.z.val})'
        BY <3>1, <3>2, <4>2, <4>3 DEF DrawsSeparate
      <4>8. (\A e, f \in encs : e.m = f.m => e = f)'
        BY <3>2 DEF DrawsSeparate
      <4> QED  BY <4>4, <4>5, <4>6, <4>7, <4>8 DEF DrawsSeparate
    <3> QED  BY <3>8, <3>9
  <2>4. ASSUME NEW i \in Slots, NEW j \in Slots, pk[i].len = PK_LEN, Encapsulate(i, j) PROVE Inv'
    <3>0. PICK m : m = Drawn(drng, 1)
      OBVIOUS
    <3>1. PICK e : e.m = m /\ encs' = encs \cup {e}
      BY <2>4, <3>0 DEF Encapsulate
    <3>2. drng' = GENERATE_RANDOM_BYTES(drng, 1) /\ UNCHANGED <<used, sk, keys, decs>>
      BY <2>4 DEF Encapsulate
    <3>3. \A d \in Draw : Past(d) => Past(d)'
      BY <3>2, PastStays
    <3>4. Past(m)' /\ drng'.seed = drng.seed
      BY <3>0, <3>2 DEF GENERATE_RANDOM_BYTES, Drawn, TypeOK, Draw
    <3>5. \A d : Past(d) => d # m
      BY <3>0, NextDrawIsNew
    <3>6. DrawsInv'
      BY <3>1, <3>2, <3>3, <3>4, DrawTypes DEF DrawsInv
    <3>7. DrawsSeparate'
      BY <3>1, <3>2, <3>5 DEF DrawsSeparate, DrawsInv
    <3> QED  BY <3>6, <3>7
  <2>5. ASSUME NEW i \in Slots, NEW j \in Slots, sk[i].len = SK_LEN, ct[j].len = CT_LEN,
               Decapsulate(i, j)
        PROVE  Inv'
    <3>1. PICK d : d.sk = sk[i].body /\ decs' = decs \cup {d}
      BY <2>5 DEF Decapsulate
    <3>2. UNCHANGED <<drng, used, sk, keys, encs>>
      BY <2>5 DEF Decapsulate
    <3>3. Past(d.sk.s.val)
      BY <2>5, <3>1, BufferLengths DEF Decapsulate, DrawsInv, Blank
    <3> QED  BY <3>1, <3>2, <3>3 DEF DrawsInv, DrawsSeparate
  <2>6. ASSUME NEW i \in Slots, Damage(i) \/ Truncate(i) PROVE Inv'
    <3>1. UNCHANGED <<drng, used, keys, encs, decs>>
      BY <2>6 DEF Damage, Truncate
    <3>2. \A l \in Slots : sk'[l] # Blank =>
            sk[l] # Blank /\ sk'[l].body.s.val = sk[l].body.s.val
      <4>1. CASE UNCHANGED sk
        BY <4>1
      <4>2. ASSUME sk[i].len = SK_LEN,
                   \/ \E t \in DamageSk(sk[i].body) : sk' = [sk EXCEPT ![i].body = t]
                   \/ sk' = [sk EXCEPT ![i].len = SK_LEN - 1]
            PROVE  \A l \in Slots : sk'[l] # Blank =>
                     sk[l] # Blank /\ sk'[l].body.s.val = sk[l].body.s.val
        <5>1. sk[i] \in Buffer(PrivateKey, SK_LEN) /\ sk[i] # Blank
          BY <4>2, BufferLengths DEF TypeOK, Blank
        <5>2. \A l \in Slots \ {i} : sk'[l] = sk[l]
          BY <4>2 DEF TypeOK
        <5>3. sk'[i].body.s.val = sk[i].body.s.val
          BY <4>2, <5>1, DamageKeepsValues DEF TypeOK, Buffer
        <5> QED  BY <5>1, <5>2, <5>3
      <4> QED  BY <2>6, <4>1, <4>2 DEF Damage, Truncate
    <3> QED  BY <3>1, <3>2 DEF DrawsInv, DrawsSeparate
  <2> QED
    BY <2>1, <2>2, <2>3, <2>4, <2>5, <2>6
       DEF Next, kem_enc, kem_dec, vars
<1> QED  BY <1>1, <1>2, TypeCorrect, PTL DEF Spec

\* Every draw that a key, an encapsulation or a decapsulation rests on lies behind
\* the generator: no call hands out what a later call can draw (DrawsInv).
THEOREM DrawsLieBehind ==
  ASSUME FreshSeeds
  PROVE  Spec => []DrawsInv
<1>1. Spec => [](DrawsInv /\ DrawsSeparate)
  BY RandomnessSeparate
<1> QED  BY <1>1, PTL

\* The keys and encapsulations of the current seed.
CurrentKeys == {k \in keys : k.z.val.seed = drng.seed}
CurrentEncs == {e \in encs : e.m.seed = drng.seed}

CountInv ==
  /\ IsFiniteSet(CurrentKeys) /\ IsFiniteSet(CurrentEncs)
  /\ drng.n = 3 * Cardinality(CurrentKeys) + Cardinality(CurrentEncs)

\* One more element is counted once.
LEMMA OneMore ==
  ASSUME NEW S, IsFiniteSet(S), NEW x, x \notin S, NEW T, T = S \cup {x}
  PROVE  IsFiniteSet(T) /\ Cardinality(T) = Cardinality(S) + 1
BY FS_AddElement

\* Every string that was drawn since the last initialisation is in exactly one key
\* pair or encapsulation (the property DrawsAccounted), whatever calls were refused.
THEOREM EveryDrawAccounted ==
  ASSUME FreshSeeds
  PROVE  Spec => []DrawsAccounted
<1>1. Init => CountInv
  <2> SUFFICES ASSUME Init PROVE CountInv
    OBVIOUS
  <2>1. CurrentKeys = {} /\ CurrentEncs = {} /\ drng.n = 0
    BY DEF Init, CurrentKeys, CurrentEncs
  <2> QED  BY <2>1, FS_EmptySet DEF CountInv
<1>2. TypeOK /\ DrawsInv /\ CountInv /\ [Next]_vars => CountInv'
  <2> SUFFICES ASSUME TypeOK, DrawsInv, CountInv, [Next]_vars PROVE CountInv'
    OBVIOUS
  <2>0. Cardinality(CurrentKeys) \in Nat /\ Cardinality(CurrentEncs) \in Nat
    BY FS_CardinalityType DEF CountInv
  <2>1. ASSUME UNCHANGED <<drng, keys, encs>> PROVE CountInv'
    BY <2>1 DEF CountInv, CurrentKeys, CurrentEncs
  <2>2. ASSUME NEW seed \in Seeds, init_random_number(seed) PROVE CountInv'
    <3>1. /\ seed \notin used \cup {NoSeed} /\ drng' = [seed |-> seed, n |-> 0]
          /\ UNCHANGED <<keys, encs>>
      BY <2>2, SeedsAssumption DEF init_random_number
    <3>2. \A d : Past(d) => d.seed # seed
      BY <3>1 DEF Past, DrawsInv
    <3>3. CurrentKeys' = {} /\ CurrentEncs' = {} /\ drng'.n = 0
      BY <3>1, <3>2 DEF DrawsInv, CurrentKeys, CurrentEncs
    <3> QED  BY <3>3, FS_EmptySet DEF CountInv
  <2>3. ASSUME NEW i \in Slots, kem_keygen(i) PROVE CountInv'
    <3>1. PICK s : s.z.val = Drawn(drng, 3) /\ keys' = keys \cup {s}
      BY <2>3 DEF kem_keygen, Clean
    <3>2. /\ drng'.seed = drng.seed /\ drng'.n = drng.n + 3 /\ encs' = encs
          /\ s.z.val.seed = drng.seed
      BY <2>3, <3>1 DEF kem_keygen, GENERATE_RANDOM_BYTES, Drawn, TypeOK, Draw
    <3>3. s \notin keys
      BY <3>1, NextDrawIsNew DEF DrawsInv
    <3>4. CurrentKeys' = CurrentKeys \cup {s} /\ s \notin CurrentKeys
            /\ CurrentEncs' = CurrentEncs
      BY <3>1, <3>2, <3>3 DEF CurrentKeys, CurrentEncs
    <3>5. IsFiniteSet(CurrentKeys') /\ Cardinality(CurrentKeys') = Cardinality(CurrentKeys) + 1
      BY <3>4, OneMore DEF CountInv
    <3> QED  BY <2>0, <3>2, <3>4, <3>5 DEF CountInv
  <2>4. ASSUME NEW i \in Slots, NEW j \in Slots, Encapsulate(i, j) PROVE CountInv'
    <3>1. PICK e : e.m = Drawn(drng, 1) /\ encs' = encs \cup {e}
      BY <2>4 DEF Encapsulate
    <3>2. /\ drng'.seed = drng.seed /\ drng'.n = drng.n + 1 /\ keys' = keys
          /\ e.m.seed = drng.seed
      BY <2>4, <3>1 DEF Encapsulate, GENERATE_RANDOM_BYTES, Drawn, TypeOK, Draw
    <3>3. e \notin encs
      BY <3>1, NextDrawIsNew DEF DrawsInv
    <3>4. CurrentEncs' = CurrentEncs \cup {e} /\ e \notin CurrentEncs
            /\ CurrentKeys' = CurrentKeys
      BY <3>1, <3>2, <3>3 DEF CurrentKeys, CurrentEncs
    <3>5. IsFiniteSet(CurrentEncs') /\ Cardinality(CurrentEncs') = Cardinality(CurrentEncs) + 1
      BY <3>4, OneMore DEF CountInv
    <3> QED  BY <2>0, <3>2, <3>4, <3>5 DEF CountInv
  <2> QED
    BY <2>1, <2>2, <2>3, <2>4
       DEF Next, kem_enc, kem_dec, Decapsulate, Damage, Truncate, vars
<1>3. CountInv => DrawsAccounted
  BY DEF CountInv, DrawsAccounted, CurrentKeys, CurrentEncs
<1>4. Spec => []DrawsInv
  BY DrawsLieBehind
<1> QED  BY <1>1, <1>2, <1>3, <1>4, TypeCorrect, PTL DEF Spec

----------------------------------------------------------------------------
(* The refinement.                                                         *)

\* Generating a key leaves every earlier answer with the owner it had: the key
\* is new, because its seed is.
LEMMA OwnersStay ==
  ASSUME TypeOK, DrawsInv, NEW i \in Slots, kem_keygen(i), NEW d \in decs
  PROVE  d.sk \in keys' <=> d.sk \in keys
<1>1. PICK s : s.s.val = Drawn(drng, 2) /\ keys' = keys \cup {s}
  BY DEF kem_keygen, Clean
<1>2. Past(d.sk.s.val)
  BY DEF DrawsInv
<1>3. d.sk # s
  BY <1>1, <1>2, NextDrawIsNew
<1> QED  BY <1>1, <1>3

\* A key pair is determined by its seed.
LEMMA OneKeyPerOwner ==
  ASSUME HistoryInv, DrawsSeparate, NEW k \in keys, NEW l \in keys, k.pk = l.pk
  PROVE  k = l
<1>1. ASSUME NEW j \in keys PROVE j.pk.b.val.s = j.s.val
  <2>1. KeyMade(j)
    BY DEF HistoryInv
  <2>2. pke_keygen(j.pk.A.val, j.s.val).b.val.s = j.s.val
    BY DEF pke_keygen, Clean
  <2> QED  BY <2>1, <2>2 DEF KeyMade
<1>2. k.s.val = l.s.val
  BY <1>1
<1>3. k # l => {k.s.val, k.z.val} \cap {l.s.val, l.z.val} = {}
  BY DEF DrawsSeparate
<1> QED  BY <1>2, <1>3

\* The calls of the code are steps of the ideal mechanism, as long as no seed is
\* used twice (the property RefinesIdealKem).
THEOREM KemImplementsIdeal ==
  ASSUME FreshSeeds
  PROVE  Spec => RefinesIdealKem
<1> DEFINE Inv == TypeOK /\ HistoryInv /\ DrawsInv /\ DrawsSeparate
<1>1. Init => Ideal!Init
  BY DEF Init, Ideal!Init, Owners, Issued, Answered
<1>2. Inv /\ Inv' /\ SecretBinding' /\ [Next]_vars => [Ideal!Next]_(Ideal!vars)
  <2> SUFFICES ASSUME Inv, Inv', SecretBinding', [Next]_vars
               PROVE  Ideal!Next \/ UNCHANGED <<Owners, Issued, Answered>>
    BY DEF Ideal!vars
  <2>1. ASSUME UNCHANGED <<keys, encs, decs>>
        PROVE  UNCHANGED <<Owners, Issued, Answered>>
    BY <2>1 DEF Owners, Issued, Answered, Issue, Answer, Owner
  <2>2. ASSUME NEW i \in Slots, kem_keygen(i) PROVE Ideal!Generate
    <3>1. PICK s : keys' = keys \cup {s} /\ UNCHANGED <<encs, decs>>
      BY <2>2 DEF kem_keygen
    <3>2. Owners' = Owners \cup {s.pk}
      BY <3>1 DEF Owners
    <3>3. Issued' = Issued
      BY <3>1 DEF Issued, Issue
    <3>4. Answered' = Answered
      <4>1. \A d \in decs : Answer(d)' = Answer(d)
        BY <2>2, <3>1, OwnersStay DEF Answer, Owner
      <4> QED  BY <3>1, <4>1 DEF Answered
    <3> QED  BY <3>2, <3>3, <3>4 DEF Ideal!Generate
  <2>3. ASSUME NEW i \in Slots, NEW j \in Slots, pk[i].len = PK_LEN, Encapsulate(i, j)
        PROVE  Ideal!Encapsulate
    <3>1. PICK e : e.m = Drawn(drng, 1) /\ encs' = encs \cup {e}
      BY <2>3 DEF Encapsulate
    <3>2. UNCHANGED <<keys, decs>>
      BY <2>3 DEF Encapsulate
    <3>3. Issued' = Issued \cup {Issue(e)}
      BY <3>1 DEF Issued, Issue
    <3>4. Owners' = Owners /\ Answered' = Answered
      BY <3>2 DEF Owners, Answered, Answer, Owner
    <3>5. EncMade(e) /\ e.ct.cm.val.m = e.m /\ e.m \in Draw
      <4>1. EncMade(e) /\ e.m \in Draw
        BY <3>1 DEF HistoryInv, TypeOK
      <4>2. e.ct.cm.val.m = e.m
        BY <4>1 DEF EncMade, pke_encrypt, Clean
      <4> QED  BY <4>1, <4>2
    <3>6. \A f \in encs : f.m # e.m
      BY <3>1, NextDrawIsNew DEF DrawsInv
    <3>7. \A f \in encs : f.ct # e.ct /\ f.ss # e.ss
      <4> SUFFICES ASSUME NEW f \in encs PROVE f.ct # e.ct /\ f.ss # e.ss
        OBVIOUS
      <4>1. EncMade(f) /\ f.ct.cm.val.m = f.m
        BY HonestCiphertext DEF HistoryInv
      <4>2. f.ct # e.ct
        BY <3>5, <3>6, <4>1
      <4>3. f.ss # e.ss
        BY <3>5, <3>6, <4>1, HashInputs DEF EncMade
      <4> QED  BY <4>2, <4>3
    <3>8. \A d \in decs : d.ct # e.ct /\ d.ss # e.ss
      <4> SUFFICES ASSUME NEW d \in decs PROVE d.ct # e.ct /\ d.ss # e.ss
        OBVIOUS
      <4>1. PICK f \in encs : d.ct.cm.val = f.ct.cm.val
        BY DEF HistoryInv, Origin
      <4>2. d.ct # e.ct
        BY <3>5, <3>6, <4>1, HonestCiphertext
      <4>3. d.ss = e.ss => d.ct = e.ct
        BY <3>1, <3>2 DEF SecretBinding
      <4> QED  BY <4>2, <4>3
    <3>9. /\ \A f \in Issued : Issue(e).ct # f.ct /\ Issue(e).ss # f.ss
          /\ \A a \in Answered : Issue(e).ct # a.ct /\ Issue(e).ss # a.ss
      BY <3>7, <3>8 DEF Issued, Issue, Answered, Answer
    <3> QED  BY <3>3, <3>4, <3>9 DEF Ideal!Encapsulate
  <2>4. ASSUME NEW i \in Slots, NEW j \in Slots, sk[i].len = SK_LEN, ct[j].len = CT_LEN,
               Decapsulate(i, j)
        PROVE  Ideal!Accept \/ Ideal!Reject
    <3>1. PICK d : d.sk = sk[i].body /\ d.ct = ct[j].body /\ decs' = decs \cup {d}
      BY <2>4 DEF Decapsulate
    <3>2. UNCHANGED <<keys, encs>>
      BY <2>4 DEF Decapsulate
    <3>3. Answered' = Answered \cup {Answer(d)}
      BY <3>1, <3>2 DEF Answered, Answer, Owner
    <3>4. Owners' = Owners /\ Issued' = Issued
      BY <3>2 DEF Owners, Issued, Issue
    <3>5. /\ DecMade(d) /\ Origin(d.ct)
          /\ d.ct \in Ciphertext /\ d.sk \in PrivateKey
      BY <3>1, <3>2 DEF HistoryInv, TypeOK, Origin
    <3> DEFINE m == d.ct.cm.val.m
               reencrypted == d.ct = pke_encrypt(d.sk.pk, m, G_seedSp(d.sk.hpk, m))
    <3>6. CASE Decryptable(d.ct, d.sk.s) /\ reencrypted
      <4>1. PICK f \in encs : /\ f.ct = d.ct /\ d.sk.hpk = HASH_F(f.pk)
                             /\ f.ss = G_K(d.sk.hpk, m)
        BY <3>5, <3>6, AcceptedSecret
      <4>2. d.ss = f.ss
        BY <3>5, <3>6, <4>1 DEF DecMade
      <4>3. d.sk \in keys => d.sk.pk = f.pk
        BY <4>1, HashInputs DEF HistoryInv, KeyMade
      <4>4. Answer(d).by \in {Issue(f).to, Corrupt}
        BY <4>3 DEF Answer, Issue, Owner
      <4>5. Issue(f) \in Issued /\ Issue(f).ct = Answer(d).ct /\ Issue(f).ss = Answer(d).ss
        BY <4>1, <4>2 DEF Issued, Issue, Answer
      <4> QED  BY <3>3, <3>4, <4>4, <4>5 DEF Ideal!Accept
    <3>7. CASE ~(Decryptable(d.ct, d.sk.s) /\ reencrypted)
      <4>1. d.ss = HASH_H(d.ct, d.sk.z) /\ d.sk.z \in Field(Draw)
        BY <3>5, <3>7 DEF DecMade, PrivateKey
      <4>2. \A e \in encs : e.ss # d.ss
        BY <4>1, HashInputs, HonestCiphertext DEF HistoryInv, EncMade
      <4>3. \A e \in encs : e.pk = Owner(d.sk) /\ e.ct = d.ct => e.m.n \in Unlucky
        <5> SUFFICES ASSUME NEW e \in encs, e.pk = Owner(d.sk), e.ct = d.ct,
                            e.m.n \notin Unlucky
                     PROVE  FALSE
          OBVIOUS
        <5>1. e.pk # Corrupt
          BY DEF TypeOK, PublicKey, Corrupt
        <5>2. d.sk \in keys /\ d.sk.pk = e.pk
          BY <5>1 DEF Owner
        <5>3. m = e.m
          BY HonestCiphertext
        <5> QED  BY <3>7, <5>2, <5>3, HonestAccepted
      <4>4. \A c \in decs : Owner(c.sk) = Owner(d.sk) /\ Owner(d.sk) # Corrupt
                              /\ c.ct = d.ct => c.ss = d.ss
        <5> SUFFICES ASSUME NEW c \in decs, Owner(c.sk) = Owner(d.sk),
                            Owner(d.sk) # Corrupt, c.ct = d.ct
                     PROVE  c.ss = d.ss
          OBVIOUS
        <5>1. d.sk \in keys /\ c.sk \in keys /\ c.sk.pk = d.sk.pk
          BY DEF Owner
        <5>2. c.sk = d.sk
          BY <5>1, OneKeyPerOwner
        <5> QED  BY <3>5, <5>2 DEF HistoryInv, DecMade
      <4>5. Answer(d).ss \notin Ideal!Secrets
        BY <4>2 DEF Ideal!Secrets, Issued, Issue, Answer
      <4>6. \A f \in Ideal!Entries(Answer(d).by, Answer(d).ct) : ~f.sound
        <5> SUFFICES ASSUME NEW f \in Issued, f.to = Owner(d.sk), f.ct = d.ct
                     PROVE  ~f.sound
          BY DEF Ideal!Entries, Answer
        <5>1. PICK e \in encs : f = Issue(e)
          BY DEF Issued
        <5> QED  BY <4>3, <5>1 DEF Issue
      <4>7. Answer(d).by # Corrupt =>
              \A b \in Answered : b.by = Answer(d).by /\ b.ct = Answer(d).ct
                                   => b.ss = Answer(d).ss
        BY <4>4 DEF Answered, Answer
      <4> QED  BY <3>3, <3>4, <4>5, <4>6, <4>7 DEF Ideal!Reject
    <3> QED  BY <3>6, <3>7
  <2> QED
    BY <2>1, <2>2, <2>3, <2>4
       DEF Next, init_random_number, kem_enc, kem_dec, Damage, Truncate,
           vars, Ideal!Next
<1> QED
  BY <1>1, <1>2, TypeCorrect, HistoryCorrect, RandomnessSeparate, SecretsAreBound, PTL
     DEF Spec, RefinesIdealKem, Ideal!Spec

=============================================================================
