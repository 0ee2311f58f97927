----------------------------- MODULE KatProofs -----------------------------
(***************************************************************************)
(* Theorems about the known-answer program, for every number of records,   *)
(* runs and faults.  OutInv says what has been printed when; TextInv what  *)
(* of it stdio has kept; KnownInv that generators whose seeding succeeded  *)
(* are those of the known answers; DrawsInv which generator each printed   *)
(* string was drawn from.                                                  *)
(***************************************************************************)
EXTENDS Kat, FiniteSetTheorems, TLAPS

Printing == {"init", "keygen", "enc", "dec"}

----------------------------------------------------------------------------
(* What has been printed.                                                  *)

FieldAt(k) == <<"Seed", "Keys", "Enc", "End">>[((k - 1) % 4) + 1]

IsText(t) ==
  /\ t \in Seq({t[k] : k \in DOMAIN t})
  /\ \A k \in 1..Len(t) : t[k].i = (k - 1) \div 4 /\ t[k].field = FieldAt(k)

OutInv ==
  /\ IsText(out) /\ i \in 0..Count
  /\ pc \in {"off", "nonce", "dir", "open", "record"} \cup Printing
  /\ pc \in {"nonce", "dir", "open"} => i = 0 /\ out = <<>>
  /\ pc = "record" => Len(out) = 4 * i
  /\ pc \in {"init", "keygen"} => Len(out) = 4 * i + 1
  /\ pc = "enc" => Len(out) = 4 * i + 2
  /\ pc = "dec" => Len(out) = 4 * i + 3
  /\ pc \in Printing => i < Count
  /\ pc = "open" => dir \in {"folder", "file"}

\* Printing the next field keeps the text in order.
LEMMA Grown ==
  ASSUME NEW old, IsText(old), NEW r \in Nat, NEW j \in 0..3, Len(old) = 4 * r + j, NEW f,
         f = <<"Seed", "Keys", "Enc", "End">>[j + 1], NEW v
  PROVE  LET t == Append(old, [i |-> r, field |-> f, value |-> v])
         IN  /\ IsText(t) /\ Len(t) = Len(old) + 1
             /\ t[Len(old) + 1] = [i |-> r, field |-> f, value |-> v]
             /\ \A k \in 1..Len(old) : t[k] = old[k]
<1> DEFINE item == [i |-> r, field |-> f, value |-> v]
           t == Append(old, item)
           S == {old[k] : k \in DOMAIN old} \cup {item}
<1>1. old \in Seq(S) /\ item \in S /\ item.i = r /\ item.field = f
  <2>1. old \in Seq({old[k] : k \in DOMAIN old})
    BY DEF IsText
  <2> QED  BY <2>1
<1> HIDE DEF S, item
<1>2. /\ t \in Seq(S) /\ Len(t) = Len(old) + 1 /\ t[Len(old) + 1] = item
      /\ \A k \in 1..Len(old) : t[k] = old[k]
  BY <1>1
<1>3. t \in Seq({t[k] : k \in DOMAIN t})
  <2> HIDE DEF t
  <2> QED  BY <1>2
<1>4. ASSUME NEW k \in 1..Len(old) + 1
      PROVE  t[k].i = (k - 1) \div 4 /\ t[k].field = FieldAt(k)
  <2> HIDE DEF t
  <2>1. CASE k \in 1..Len(old)
    BY <1>2, <2>1 DEF IsText
  <2>2. CASE k = Len(old) + 1
    <3>1. (k - 1) \div 4 = r /\ (k - 1) % 4 = j
      BY <2>2
    <3> QED  BY <1>1, <1>2, <2>2, <3>1 DEF FieldAt
  <2> QED  BY <2>1, <2>2, <1>2
<1> QED  BY <1>2, <1>3, <1>4 DEF IsText, item

\* The field that the text has come to.
Due(f) ==
  \/ f = "Seed" /\ Len(out) = 4 * i
  \/ f = "Keys" /\ Len(out) = 4 * i + 1
  \/ f = "Enc" /\ Len(out) = 4 * i + 2
  \/ f = "End" /\ Len(out) = 4 * i + 3

\* fprint of the field that is due.
LEMMA Printed ==
  ASSUME OutInv, NEW f, Due(f), NEW v, fprint(f, v)
  PROVE  /\ IsText(out') /\ Len(out') = Len(out) + 1
         /\ out'[Len(out) + 1] = [i |-> i, field |-> f, value |-> v]
         /\ \A k \in 1..Len(out) : out'[k] = out[k]
<1>1. IsText(out) /\ i \in Nat
  BY KatAssumption DEF OutInv
<1>2. PICK j \in 0..3 : Len(out) = 4 * i + j /\ f = <<"Seed", "Keys", "Enc", "End">>[j + 1]
  <2> DEFINE At(j) == Len(out) = 4 * i + j /\ f = <<"Seed", "Keys", "Enc", "End">>[j + 1]
  <2>1. At(0) \/ At(1) \/ At(2) \/ At(3)
    BY <1>1 DEF Due
  <2> HIDE DEF At
  <2>2. \E j \in 0..3 : At(j)
    BY <2>1
  <2> QED  BY <2>2 DEF At
<1> QED  BY <1>1, <1>2, Grown DEF fprint

LEMMA OutInvHolds == Spec => []OutInv
<1> USE KatAssumption
<1>0. IsText(<<>>)
  BY DEF IsText
<1>1. Init => OutInv
  BY <1>0 DEF Init, OutInv, Printing
<1>2. OutInv /\ [Next]_vars => OutInv'
  <2> SUFFICES ASSUME OutInv, [Next]_vars PROVE OutInv'
    OBVIOUS
  <2>1. CASE main
    BY <1>0, <2>1 DEF main, OutInv, Printing
  <2>2. CASE init_drng_seed \/ make_directory \/ open_file
    BY <2>2 DEF init_drng_seed, make_directory, create_directory, open_file, world,
                OutInv, Printing
  <2>3. CASE draw_seed
    <3>1. /\ Due("Seed") /\ Len(out) = 4 * i + 0 /\ fprint("Seed", seed')
          /\ pc' = "init" /\ i < Count /\ i' = i
      BY <2>3 DEF draw_seed, OutInv, Due
    <3>2. IsText(out') /\ Len(out') = Len(out) + 1
      BY <3>1, Printed
    <3> QED  BY <3>1, <3>2 DEF OutInv, Printing
  <2>4. CASE init_drng_algorithm
    BY <2>4 DEF init_drng_algorithm, world, OutInv, Printing
  <2>5. CASE kem_keygen
    <3>1. /\ Due("Keys") /\ Len(out) = 4 * i + 1 /\ fprint("Keys", sk')
          /\ pc' = "enc" /\ i < Count /\ i' = i
      BY <2>5 DEF kem_keygen, OutInv, Printing, Due
    <3>2. IsText(out') /\ Len(out') = Len(out) + 1
      BY <3>1, Printed
    <3> QED  BY <3>1, <3>2 DEF OutInv, Printing
  <2>6. CASE kem_enc
    <3>1. /\ Due("Enc") /\ Len(out) = 4 * i + 2 /\ fprint("Enc", ct')
          /\ pc' = "dec" /\ i < Count /\ i' = i
      BY <2>6 DEF kem_enc, OutInv, Printing, Due
    <3>2. IsText(out') /\ Len(out') = Len(out) + 1
      BY <3>1, Printed
    <3> QED  BY <3>1, <3>2 DEF OutInv, Printing
  <2>7. CASE kem_dec
    <3>1. CASE pc' = "off" /\ UNCHANGED <<out, i>>
      BY <3>1 DEF OutInv, Printing
    <3>2. CASE pc' = "record" /\ i' = i + 1 /\ fprint("End", Empty)
      <4>1. Due("End") /\ Len(out) = 4 * i + 3 /\ i < Count
        BY <2>7 DEF kem_dec, OutInv, Printing, Due
      <4>2. IsText(out') /\ Len(out') = Len(out) + 1
        BY <3>2, <4>1, Printed
      <4> QED  BY <3>2, <4>1, <4>2 DEF OutInv, Printing
    <3> QED  BY <2>7, <3>1, <3>2 DEF kem_dec, Return
  <2>8. CASE close_file \/ Killed
    BY <2>8 DEF close_file, Killed, OutInv, Printing
  <2>9. CASE UNCHANGED vars
    BY <2>9 DEF vars, world, OutInv
  <2> QED  BY <2>1, <2>2, <2>3, <2>4, <2>5, <2>6, <2>7, <2>8, <2>9 DEF Next
<1> QED  BY <1>1, <1>2, PTL DEF Spec

----------------------------------------------------------------------------
(* What stdio and the file hold.                                           *)

\* Items of what was printed, in its order.
Part(t) ==
  /\ t \in Seq({t[k] : k \in DOMAIN t})
  /\ \A k \in 1..Len(t) : PlaceOf(t[k]) \in 1..Len(out) /\ t[k] = out[PlaceOf(t[k])]
  /\ \A k \in 2..Len(t) : PlaceOf(t[k - 1]) < PlaceOf(t[k])

TextInv == Part(text) /\ (~lost => text = out)

\* A field is where it was printed.
LEMMA PrintedPlace ==
  ASSUME NEW t, IsText(t), NEW k \in 1..Len(t)
  PROVE  PlaceOf(t[k]) = k
<1>1. k \in Nat \ {0} /\ t[k].i = (k - 1) \div 4 /\ t[k].field = FieldAt(k)
  <2>1. Len(t) \in Nat
    BY DEF IsText
  <2>2. t[k].i = (k - 1) \div 4 /\ t[k].field = FieldAt(k)
    BY DEF IsText
  <2> QED  BY <2>1, <2>2
<1>2. PICK d \in Int, m \in 0..3 : d = (k - 1) \div 4 /\ m = (k - 1) % 4 /\ k - 1 = 4 * d + m
  BY <1>1
<1>3. [Seed |-> 1, Keys |-> 2, Enc |-> 3, End |-> 4][FieldAt(k)] = m + 1
  <2>1. FieldAt(k) = <<"Seed", "Keys", "Enc", "End">>[m + 1]
    BY <1>2 DEF FieldAt
  <2>2. m = 0 \/ m = 1 \/ m = 2 \/ m = 3
    OBVIOUS
  <2> QED  BY <2>1, <2>2
<1> QED  BY <1>1, <1>2, <1>3 DEF PlaceOf

\* The beginning of a part is a part.
LEMMA Beginning ==
  ASSUME Part(text), NEW t \in Reached
  PROVE  Part(t)
<1>1. /\ text \in Seq({text[k] : k \in DOMAIN text}) /\ Len(text) \in Nat
      /\ \A k \in 1..Len(text) : PlaceOf(text[k]) \in 1..Len(out) /\ text[k] = out[PlaceOf(text[k])]
      /\ \A k \in 2..Len(text) : PlaceOf(text[k - 1]) < PlaceOf(text[k])
  BY DEF Part
<1>2. PICK n \in 0..Len(text) : t = SubSeq(text, 1, n)
  BY DEF Reached
<1>3. Len(t) = n /\ DOMAIN t = 1..n /\ \A k \in 1..n : t[k] = text[k]
  BY <1>1, <1>2
<1>4. t \in Seq({t[k] : k \in DOMAIN t})
  <2>1. t = [k \in 1..n |-> t[k]]
    BY <1>1, <1>2
  <2>2. n \in Nat
    BY <1>1
  <2> QED  BY <1>3, <2>1, <2>2
<1>5. \A k \in 1..n : k \in 1..Len(text)
  BY <1>1
<1>6. ASSUME NEW k \in 2..n
      PROVE  PlaceOf(t[k - 1]) < PlaceOf(t[k])
  <2>1. k \in 2..Len(text) /\ k \in 1..n /\ k - 1 \in 1..n
    BY <1>1
  <2>2. t[k] = text[k] /\ t[k - 1] = text[k - 1]
    BY <1>3, <2>1
  <2> QED  BY <1>1, <2>1, <2>2
<1> QED  BY <1>1, <1>3, <1>4, <1>5, <1>6 DEF Part

\* The field that is printed goes behind those that are there, or a write fails.
LEMMA TextPrinted ==
  ASSUME OutInv, TextInv, NEW f, Due(f), NEW v, fprint(f, v)
  PROVE  TextInv'
<1> DEFINE item == [i |-> i, field |-> f, value |-> v]
<1>1. /\ IsText(out') /\ Len(out') = Len(out) + 1 /\ Len(out) \in Nat
      /\ out'[Len(out) + 1] = item
      /\ \A k \in 1..Len(out) : out'[k] = out[k]
  <2>1. Len(out) \in Nat
    BY DEF OutInv, IsText
  <2> QED  BY <2>1, Printed
<1>2. PlaceOf(item) = Len(out) + 1
  <2>1. Len(out) + 1 \in 1..Len(out')
    BY <1>1
  <2>2. PlaceOf(out'[Len(out) + 1]) = Len(out) + 1
    BY <1>1, <2>1, PrintedPlace
  <2> QED  BY <1>1, <2>2
<1> HIDE DEF item
<1>3. ASSUME NEW t, Part(t)
      PROVE  /\ \A k \in 1..Len(t) : PlaceOf(t[k]) \in 1..Len(out') /\ t[k] = out'[PlaceOf(t[k])]
             /\ t \in Seq({t[k] : k \in DOMAIN t})
             /\ \A k \in 2..Len(t) : PlaceOf(t[k - 1]) < PlaceOf(t[k])
  BY <1>1, <1>3 DEF Part
<1>4. CASE text' = Append(text, item) /\ UNCHANGED lost
  <2>1. /\ text \in Seq({text[k] : k \in DOMAIN text}) /\ Len(text) \in Nat
        /\ \A k \in 1..Len(text) : PlaceOf(text[k]) \in 1..Len(out)
    BY DEF TextInv, Part
  <2>2. /\ Len(text') = Len(text) + 1 /\ text'[Len(text) + 1] = item
        /\ \A k \in 1..Len(text) : text'[k] = text[k]
        /\ text' \in Seq({text[k] : k \in DOMAIN text} \cup {item})
    BY <1>4, <2>1
  <2>3. text' \in Seq({text'[k] : k \in DOMAIN text'})
    BY <2>2
  <2>4. ASSUME NEW k \in 1..Len(text) + 1
        PROVE  PlaceOf(text'[k]) \in 1..Len(out') /\ text'[k] = out'[PlaceOf(text'[k])]
    <3>1. CASE k \in 1..Len(text)
      <4>1. PlaceOf(text[k]) \in 1..Len(out') /\ text[k] = out'[PlaceOf(text[k])]
        BY <1>3, <3>1 DEF TextInv
      <4> QED  BY <2>2, <3>1, <4>1
    <3>2. CASE k = Len(text) + 1
      <4>1. text'[k] = item /\ Len(out) + 1 \in 1..Len(out')
        BY <1>1, <2>2, <3>2
      <4> QED  BY <1>1, <1>2, <4>1
    <3> QED  BY <2>1, <3>1, <3>2
  <2>5. ASSUME NEW k \in 2..Len(text) + 1
        PROVE  PlaceOf(text'[k - 1]) < PlaceOf(text'[k])
    <3>1. CASE k \in 2..Len(text)
      <4>1. k \in 1..Len(text) /\ k - 1 \in 1..Len(text)
        BY <2>1, <3>1
      <4> QED  BY <1>3, <2>2, <3>1, <4>1 DEF TextInv
    <3>2. CASE k = Len(text) + 1
      <4>1. k - 1 \in 1..Len(text)
        BY <2>1, <3>2
      <4>2. text'[k - 1] = text[k - 1] /\ PlaceOf(text[k - 1]) \in 1..Len(out)
        BY <2>1, <2>2, <4>1
      <4>3. PlaceOf(text'[k]) = Len(out) + 1
        BY <1>2, <2>2, <3>2
      <4> QED  BY <1>1, <4>2, <4>3
    <3> QED  BY <2>1, <3>1, <3>2
  <2>6. ~lost' => text' = out'
    BY <1>4 DEF TextInv, fprint, item
  <2>7. Part(text)'
    BY <2>2, <2>3, <2>4, <2>5 DEF Part
  <2> QED  BY <2>6, <2>7 DEF TextInv
<1>5. CASE text' \in Reached /\ lost' = TRUE
  <2>1. Part(text')
    BY <1>5, Beginning DEF TextInv
  <2>2. Part(text)'
    BY <1>3, <2>1 DEF Part
  <2> QED  BY <1>5, <2>2 DEF TextInv
<1> QED  BY <1>4, <1>5 DEF fprint, item

LEMMA TextInvHolds == Spec => []TextInv
<1>0. ASSUME NEW t, t = <<>> PROVE Part(t)
  BY <1>0 DEF Part
<1>1. Init => TextInv
  BY <1>0 DEF Init, TextInv
<1>2. OutInv /\ TextInv /\ [Next]_vars => TextInv'
  <2> SUFFICES ASSUME OutInv, TextInv, [Next]_vars PROVE TextInv'
    OBVIOUS
  <2>0. ASSUME UNCHANGED <<out, text, lost>> PROVE TextInv'
    BY <2>0 DEF TextInv, Part
  <2>1. CASE main
    <3>1. out' = <<>> /\ text' = <<>>
      BY <2>1 DEF main
    <3> QED  BY <3>1 DEF TextInv, Part
  <2>2. CASE init_drng_seed \/ init_drng_algorithm
    BY <2>0, <2>2 DEF init_drng_seed, init_drng_algorithm, world
  <2>3. CASE make_directory \/ open_file \/ close_file \/ Killed
    BY <2>0, <2>3 DEF make_directory, open_file, close_file, Killed
  <2>4. CASE draw_seed
    BY <2>4, TextPrinted DEF draw_seed, OutInv, Due
  <2>5. CASE kem_keygen
    BY <2>5, TextPrinted DEF kem_keygen, OutInv, Due
  <2>6. CASE kem_enc
    BY <2>6, TextPrinted DEF kem_enc, OutInv, Due
  <2>7. CASE kem_dec
    <3>1. CASE UNCHANGED <<out, text, lost>>
      BY <2>0, <3>1
    <3>2. CASE fprint("End", Empty)
      <4>1. Due("End")
        BY <2>7 DEF kem_dec, OutInv, Due
      <4> QED  BY <3>2, <4>1, TextPrinted
    <3> QED  BY <2>7, <3>1, <3>2 DEF kem_dec, Return
  <2>8. CASE UNCHANGED vars
    BY <2>0, <2>8 DEF vars, world
  <2> QED  BY <2>1, <2>2, <2>3, <2>4, <2>5, <2>6, <2>7, <2>8 DEF Next
<1> QED  BY <1>1, <1>2, OutInvHolds, PTL DEF Spec

\* The exit status is right, for any number of records, runs and failures, failed
\* writes included: with status 0 the file holds fields of this run in their order, and
\* all of them unless a write failed; where nothing fails the status is 0
\* (KAT_KEM.c:72-82,94-163,184-221).
THEOREM StatusTrue == Spec => []ExitStatusIsRight
<1> USE KatAssumption
<1>1. Init => ExitStatusIsRight
  BY DEF Init, ExitStatusIsRight
<1>2. OutInv /\ TextInv /\ ExitStatusIsRight /\ [Next]_vars => ExitStatusIsRight'
  <2> SUFFICES ASSUME OutInv, TextInv, ExitStatusIsRight, [Next]_vars PROVE ExitStatusIsRight'
    OBVIOUS
  <2> USE DEF KAT_KEM_SUCCESS, KAT_ALGORITHM_INSTANCE_NAME_INVALID, KAT_FILE_OPERATE_FAILED,
              KAT_KEM_SS_UNEQUAL, KILLED
  <2>1. CASE main
    BY <2>1 DEF main, ExitStatusIsRight
  <2>2. CASE init_drng_seed \/ draw_seed \/ init_drng_algorithm \/ kem_keygen \/ kem_enc
    BY <2>2 DEF init_drng_seed, draw_seed, init_drng_algorithm, kem_keygen, kem_enc,
                ExitStatusIsRight
  <2>3. CASE make_directory
    <3>1. PICK rt \in {0, 1} :
            /\ create_directory(rt)
            /\ IF rt # 0 THEN pc' = "off" /\ exit' = KAT_FILE_OPERATE_FAILED
                         ELSE pc' = "open" /\ UNCHANGED exit
      BY <2>3 DEF make_directory
    <3>2. rt # 0 => clean' = FALSE \/ dir' = "dangling"
      BY <3>1 DEF create_directory, Fault
    <3> QED  BY <3>1, <3>2 DEF ExitStatusIsRight
  <2>4. CASE open_file
    <3>1. dir' = dir /\ (pc' = "record" \/ exit' = KAT_FILE_OPERATE_FAILED)
            /\ (dir = "folder" /\ pc' # "record" => clean' = FALSE) /\ pc = "open"
      BY <2>4 DEF open_file, Fault
    <3>2. dir # "absent"
      BY <3>1 DEF OutInv
    <3> QED  BY <3>1, <3>2 DEF ExitStatusIsRight
  <2>5. CASE kem_dec
    BY <2>5 DEF kem_dec, Return, Fault, ExitStatusIsRight
  <2>6. CASE close_file
    <3>1. CASE exit' = KAT_KEM_SUCCESS
      <4>1. /\ disk' = text /\ UNCHANGED <<out, lost, clean>> /\ i = Count /\ Len(out) = 4 * Count
        BY <2>6, <3>1 DEF close_file, NoFault, OutInv
      <4> QED  BY <3>1, <4>1 DEF TextInv, Part, ExitStatusIsRight
    <3>2. CASE exit' = KAT_FILE_OPERATE_FAILED /\ clean' = FALSE
      BY <3>2 DEF ExitStatusIsRight
    <3> QED  BY <2>6, <3>1, <3>2 DEF close_file, Fault
  <2>7. CASE Killed
    BY <2>7 DEF Killed, Fault, ExitStatusIsRight
  <2>8. CASE UNCHANGED vars
    BY <2>8 DEF vars, world, bounds, ExitStatusIsRight
  <2> QED  BY <2>1, <2>2, <2>3, <2>4, <2>5, <2>6, <2>7, <2>8 DEF Next
<1> QED  BY <1>1, <1>2, OutInvHolds, TextInvHolds, PTL DEF Spec

----------------------------------------------------------------------------
(* Known answers.                                                          *)

Moved(ctx, n) == [ctx EXCEPT !.n = n]

\* The generators whose seeding succeeded, and what is drawn from them.
KnownInv ==
  NONCE \notin failed =>
    /\ pc \in {"dir", "open", "record"} => drng_seed = Moved(Seeded(nonce), i)
    /\ pc \in Printing => drng_seed = Moved(Seeded(nonce), i + 1) /\ seed = KnownSeed(i)
    /\ i \notin failed =>
         /\ pc = "keygen" => drng_algorithm = Seeded(KnownSeed(i))
         /\ pc = "enc" => drng_algorithm = Moved(Seeded(KnownSeed(i)), 3) /\ pk = KnownKey(i).pk

\* A field that is printed is known if the seedings before it succeeded.
LEMMA KnownPrinted ==
  ASSUME OutInv, KnownAnswers, NEW f, Due(f), NEW v, fprint(f, v), failed' = failed,
         i \notin failed /\ NONCE \notin failed => v = KnownAnswer(i, f)
  PROVE  KnownAnswers'
<1>1. /\ IsText(out') /\ Len(out') = Len(out) + 1 /\ Len(out) \in Nat
      /\ out'[Len(out) + 1] = [i |-> i, field |-> f, value |-> v]
      /\ \A k \in 1..Len(out) : out'[k] = out[k]
  <2>1. Len(out) \in Nat
    BY DEF OutInv, IsText
  <2>2. /\ IsText(out') /\ Len(out') = Len(out) + 1
        /\ out'[Len(out) + 1] = [i |-> i, field |-> f, value |-> v]
        /\ \A k \in 1..Len(out) : out'[k] = out[k]
    BY Printed
  <2> QED  BY <2>1, <2>2
<1> SUFFICES ASSUME NEW k \in 1..Len(out'), out'[k].i \notin failed, NONCE \notin failed
             PROVE  out'[k].value = KnownAnswer(out'[k].i, out'[k].field)
  BY DEF KnownAnswers
<1>2. CASE k \in 1..Len(out)
  BY <1>1, <1>2 DEF KnownAnswers
<1>3. CASE k = Len(out) + 1
  BY <1>1, <1>3
<1> QED  BY <1>1, <1>2, <1>3

\* Every record whose own seedings succeeded is the known answer, however many other
\* records were half-seeded, in this run or before (drng.c:108, KAT_KEM.c:66,98,105).
THEOREM AnswersKnown == Spec => []KnownAnswers
<1> USE KatAssumption
<1>1. Init => KnownInv /\ KnownAnswers
  BY DEF Init, KnownInv, KnownAnswers, Printing
<1>2. OutInv /\ KnownInv /\ KnownAnswers /\ [Next]_vars => KnownInv' /\ KnownAnswers'
  <2> SUFFICES ASSUME OutInv, KnownInv, KnownAnswers, [Next]_vars
               PROVE  KnownInv' /\ KnownAnswers'
    OBVIOUS
  <2>0. ASSUME UNCHANGED <<out, failed>> PROVE KnownAnswers'
    BY <2>0 DEF KnownAnswers
  <2>1. CASE main
    BY <2>1 DEF main, KnownInv, KnownAnswers, Printing
  <2>2. CASE init_drng_seed
    <3>1. pc' = "dir" /\ i' = i /\ i = 0 /\ out' = out /\ out = <<>>
      BY <2>2 DEF init_drng_seed, world, OutInv
    <3>2. NONCE \notin failed' => drng_seed' = Moved(Seeded(nonce), 0)
      BY <2>2 DEF init_drng_seed, Seeding, Seeded, Ctx, Moved
    <3> QED  BY <3>1, <3>2 DEF KnownInv, KnownAnswers, Printing
  <2>3. CASE make_directory \/ open_file
    <3>1. /\ UNCHANGED <<out, failed, i, drng_seed>> /\ pc \in {"dir", "open"}
          /\ pc' \in {"off", "open", "record"}
      BY <2>3 DEF make_directory, create_directory, open_file
    <3> QED  BY <2>0, <3>1 DEF KnownInv, Printing
  <2>4. CASE draw_seed
    <3>1. /\ pc = "record" /\ pc' = "init" /\ i' = i /\ failed' = failed
          /\ seed' = Drawn(drng_seed, drng_seed.n) /\ drng_seed' = get_random_number(drng_seed, 1)
          /\ fprint("Seed", seed') /\ Due("Seed")
      BY <2>4 DEF draw_seed, bounds, OutInv, Due
    <3>2. ASSUME NONCE \notin failed
          PROVE  drng_seed' = Moved(Seeded(nonce), i + 1) /\ seed' = KnownSeed(i)
      BY <3>1, <3>2 DEF KnownInv, Seeded, Ctx, Moved, Drawn, KnownSeed, get_random_number
    <3>3. KnownAnswers'
      BY <3>1, <3>2, KnownPrinted DEF KnownAnswer
    <3> QED  BY <3>1, <3>2, <3>3 DEF KnownInv, Printing
  <2>5. CASE init_drng_algorithm
    <3>1. /\ pc = "init" /\ pc' = "keygen" /\ UNCHANGED <<i, drng_seed, seed, out>>
          /\ failed \subseteq failed'
      BY <2>5 DEF init_drng_algorithm, buffers, world, Seeding
    <3>2. i \notin failed' => drng_algorithm' = Seeded(seed)
      BY <2>5 DEF init_drng_algorithm, Seeding
    <3>3. KnownAnswers'
      BY <3>1 DEF KnownAnswers
    <3> QED  BY <3>1, <3>2, <3>3 DEF KnownInv, Printing
  <2>6. CASE kem_keygen
    <3>1. /\ pc = "keygen" /\ pc' = "enc" /\ UNCHANGED <<i, drng_seed, seed, failed>>
          /\ pk' = [A |-> Drawn(drng_algorithm, drng_algorithm.n + 0),
                    s |-> Drawn(drng_algorithm, drng_algorithm.n + 1)]
          /\ sk' = [pk |-> pk', z |-> Drawn(drng_algorithm, drng_algorithm.n + 2)]
          /\ drng_algorithm' = get_random_number(drng_algorithm, 3)
          /\ fprint("Keys", sk') /\ Due("Keys")
      BY <2>6 DEF kem_keygen, bounds, OutInv, Printing, Due
    <3>2. ASSUME NONCE \notin failed, i \notin failed
          PROVE  drng_algorithm' = Moved(Seeded(KnownSeed(i)), 3) /\ sk' = KnownKey(i)
                   /\ pk' = KnownKey(i).pk
      <4>1. drng_algorithm = Seeded(KnownSeed(i))
        BY <3>1, <3>2 DEF KnownInv
      <4> QED  BY <3>1, <4>1 DEF Seeded, Ctx, Moved, Drawn, KnownDraw, KnownKey, get_random_number
    <3>3. KnownAnswers'
      BY <3>1, <3>2, KnownPrinted DEF KnownAnswer
    <3> QED  BY <3>1, <3>2, <3>3 DEF KnownInv, Printing
  <2>7. CASE kem_enc
    <3>1. /\ pc = "enc" /\ pc' = "dec" /\ UNCHANGED <<i, drng_seed, seed, failed>>
          /\ ct' = [pk |-> pk, m |-> Drawn(drng_algorithm, drng_algorithm.n)]
          /\ fprint("Enc", ct') /\ Due("Enc")
      BY <2>7 DEF kem_enc, bounds, OutInv, Printing, Due
    <3>2. ASSUME NONCE \notin failed, i \notin failed
          PROVE  ct' = [pk |-> KnownKey(i).pk, m |-> KnownDraw(i, 3)]
      <4>1. drng_algorithm = Moved(Seeded(KnownSeed(i)), 3) /\ pk = KnownKey(i).pk
        BY <3>1, <3>2 DEF KnownInv
      <4>2. Drawn(drng_algorithm, drng_algorithm.n) = KnownDraw(i, 3)
        BY <4>1 DEF Seeded, Ctx, Moved, Drawn, KnownDraw
      <4> QED  BY <3>1, <4>1, <4>2
    <3>3. KnownAnswers'
      BY <3>1, <3>2, KnownPrinted DEF KnownAnswer
    <3> QED  BY <3>1, <3>3 DEF KnownInv, Printing
  <2>8. CASE kem_dec
    <3>1. pc = "dec" /\ UNCHANGED <<drng_seed, failed>> /\ Due("End")
      BY <2>8 DEF kem_dec, OutInv, Printing, Due
    <3>2. CASE pc' = "off" /\ UNCHANGED <<out, i>>
      BY <2>0, <3>1, <3>2 DEF KnownInv, Printing
    <3>3. CASE pc' = "record" /\ i' = i + 1 /\ fprint("End", Empty)
      <4>1. KnownAnswers'
        BY <3>1, <3>3, KnownPrinted DEF KnownAnswer
      <4> QED  BY <3>1, <3>3, <4>1 DEF KnownInv, Printing
    <3> QED  BY <2>8, <3>2, <3>3 DEF kem_dec, Return
  <2>9. CASE close_file \/ Killed
    BY <2>0, <2>9 DEF close_file, Killed, KnownInv, Printing
  <2>10. CASE UNCHANGED vars
    BY <2>0, <2>10 DEF vars, world, buffers, bounds, KnownInv
  <2> QED  BY <2>1, <2>2, <2>3, <2>4, <2>5, <2>6, <2>7, <2>8, <2>9, <2>10 DEF Next
<1> QED  BY <1>1, <1>2, OutInvHolds, PTL DEF Spec

----------------------------------------------------------------------------
(* Where the strings come from.  g is the generator of the seeds, fs the    *)
(* seedings that failed.                                                   *)

IsCtx(ctx) == ctx = [V |-> ctx.V, C |-> ctx.C, n |-> ctx.n]

\* What a generator was seeded with: the nonce, or the seed of record who.
SeedOf(g, who) == IF who = NONCE THEN nonce ELSE Drawn(g, who)

\* What V may be in it then.
Origin(g, fs, who) ==
  {[df |-> SeedOf(g, who)]} \cup
  (IF who \in fs THEN {[raw |-> SeedOf(g, who)], [zero |-> TRUE]} ELSE {})

\* The generator a printed string comes from, and how many it had drawn before.
Who(item) == IF item.field = "Seed" THEN NONCE ELSE item.i
Nth(item, m) ==
  IF item.field = "Seed" THEN item.i ELSE IF item.field = "Keys" THEN m - 1 ELSE 3

Sourced(g, fs, item) ==
  \A m \in DOMAIN DrawsOf(item) :
    DrawsOf(item)[m].V \in Origin(g, fs, Who(item)) /\ DrawsOf(item)[m].n = Nth(item, m)

DrawsInv ==
  /\ failed \subseteq {NONCE} \cup 0..Count
  /\ IsCtx(drng_seed) /\ IsCtx(drng_algorithm)
  /\ pc \in {"dir", "open", "record"} =>
       drng_seed.V \in Origin(drng_seed, failed, NONCE) /\ drng_seed.n = i
  /\ pc \in Printing =>
       /\ drng_seed.V \in Origin(drng_seed, failed, NONCE) /\ drng_seed.n = i + 1
       /\ seed = SeedOf(drng_seed, i)
  /\ pc = "keygen" => drng_algorithm.V \in Origin(drng_seed, failed, i) /\ drng_algorithm.n = 0
  /\ pc = "enc" => drng_algorithm.V \in Origin(drng_seed, failed, i) /\ drng_algorithm.n = 3
  /\ \A k \in 1..Len(out) : Sourced(drng_seed, failed, out[k])

\* No generator has the V of one that was seeded in full.
LEMMA OriginsDiffer ==
  ASSUME NEW g, NEW fs, NEW a \in {NONCE} \cup Nat, NEW b \in {NONCE} \cup Nat, a \notin fs,
         NEW v, v \in Origin(g, fs, a), v \in Origin(g, fs, b)
  PROVE  a = b
<1>1. v = [df |-> SeedOf(g, a)]
  BY DEF Origin
<1>2. v # [raw |-> SeedOf(g, b)] /\ v # [zero |-> TRUE]
  BY <1>1
<1>3. v = [df |-> SeedOf(g, b)]
  BY <1>2 DEF Origin
<1>4. SeedOf(g, a) = SeedOf(g, b)
  BY <1>1, <1>3
<1>5. \A w : nonce # Drawn(g, w)
  BY DEF nonce, Drawn
<1>6. \A w : Drawn(g, w).n = w
  BY DEF Drawn
<1> QED  BY <1>4, <1>5, <1>6 DEF SeedOf

\* Drawing from g, or a seeding that fails, leaves the origins of what is printed.
LEMMA OriginKept ==
  ASSUME NEW g, NEW h, NEW fs, NEW hs, fs \subseteq hs, h.V = g.V, h.C = g.C, NEW who
  PROVE  SeedOf(h, who) = SeedOf(g, who) /\ Origin(g, fs, who) \subseteq Origin(h, hs, who)
<1>1. SeedOf(h, who) = SeedOf(g, who)
  BY DEF SeedOf, Drawn
<1> QED  BY <1>1 DEF Origin

LEMMA SourcedKept ==
  ASSUME NEW g, NEW h, NEW fs, NEW hs, fs \subseteq hs, h.V = g.V, h.C = g.C,
         NEW item, Sourced(g, fs, item)
  PROVE  Sourced(h, hs, item)
BY OriginKept DEF Sourced

\* What the two functions of the generator do to its parts.
LEMMA CtxFacts ==
  ASSUME NEW ctx, IsCtx(ctx), NEW k, NEW n
  PROVE  /\ IsCtx(get_random_number(ctx, k))
         /\ get_random_number(ctx, k).V = ctx.V /\ get_random_number(ctx, k).C = ctx.C
         /\ get_random_number(ctx, k).n = ctx.n + k
         /\ Drawn(ctx, n).V = ctx.V /\ Drawn(ctx, n).n = n
<1>1. get_random_number(ctx, k) = [V |-> ctx.V, C |-> ctx.C, n |-> ctx.n + k]
  BY DEF IsCtx, get_random_number
<1>2. Drawn(ctx, n).V = ctx.V /\ Drawn(ctx, n).n = n
  BY DEF Drawn
<1> QED  BY <1>1, <1>2 DEF IsCtx

\* A seeding of the generator that is seeded with the seed of who.
LEMMA SeedingFacts ==
  ASSUME NEW ctx, NEW g, NEW who, Seeding(ctx, SeedOf(g, who), who)
  PROVE  IsCtx(ctx) /\ ctx.n = 0 /\ ctx.V \in Origin(g, failed', who) /\ failed \subseteq failed'
           /\ failed' \subseteq failed \cup {who}
<1> DEFINE s == SeedOf(g, who)
<1>1. CASE ctx = Seeded(s) /\ failed' = failed
  <2>1. IsCtx(ctx) /\ ctx.n = 0 /\ ctx.V = [df |-> s]
    BY <1>1 DEF Seeded, Ctx, IsCtx
  <2> QED  BY <1>1, <2>1 DEF Origin
<1>2. CASE ctx \in HalfSeeded(s) /\ failed' = failed \cup {who}
  <2>1. IsCtx(ctx) /\ ctx.n = 0 /\ ctx.V \in {[zero |-> TRUE], [raw |-> s], [df |-> s]}
    BY <1>2 DEF HalfSeeded, ZeroCtx, Ctx, IsCtx
  <2> QED  BY <1>2, <2>1 DEF Origin
<1> QED  BY <1>1, <1>2 DEF Seeding

LEMMA SourcesPrinted ==
  ASSUME OutInv, \A k \in 1..Len(out) : Sourced(drng_seed, failed, out[k]), failed' = failed,
         drng_seed'.V = drng_seed.V, drng_seed'.C = drng_seed.C,
         NEW f, Due(f), NEW v, fprint(f, v),
         Sourced(drng_seed, failed, [i |-> i, field |-> f, value |-> v])
  PROVE  \A k \in 1..Len(out') : Sourced(drng_seed', failed', out'[k])
<1>1. /\ Len(out') = Len(out) + 1 /\ Len(out) \in Nat
      /\ out'[Len(out) + 1] = [i |-> i, field |-> f, value |-> v]
      /\ \A k \in 1..Len(out) : out'[k] = out[k]
  <2>1. /\ Len(out') = Len(out) + 1
        /\ out'[Len(out) + 1] = [i |-> i, field |-> f, value |-> v]
        /\ \A k \in 1..Len(out) : out'[k] = out[k]
    BY Printed
  <2>2. Len(out) \in Nat
    BY DEF OutInv, IsText
  <2> QED  BY <2>1, <2>2
<1> SUFFICES ASSUME NEW k \in 1..Len(out') PROVE Sourced(drng_seed', failed', out'[k])
  OBVIOUS
<1>2. Sourced(drng_seed, failed, out'[k])
  BY <1>1
<1> QED  BY <1>2, SourcedKept

LEMMA DrawsInvHolds == Spec => []DrawsInv
<1> USE KatAssumption
<1>0. IsCtx(ZeroCtx)
  BY DEF IsCtx, ZeroCtx
<1>1. Init => DrawsInv
  BY <1>0 DEF Init, DrawsInv, Printing
<1>2. OutInv /\ DrawsInv /\ [Next]_vars => DrawsInv'
  <2> SUFFICES ASSUME OutInv, DrawsInv, [Next]_vars PROVE DrawsInv'
    OBVIOUS
  <2>1. CASE main
    BY <1>0, <2>1 DEF main, DrawsInv, Printing
  <2>2. CASE init_drng_seed
    <3>1. /\ pc' = "dir" /\ i' = i /\ i = 0 /\ out' = out /\ out = <<>>
          /\ drng_algorithm' = drng_algorithm
      BY <2>2 DEF init_drng_seed, world, OutInv
    <3>2. Seeding(drng_seed', SeedOf(drng_seed', NONCE), NONCE)
      BY <2>2 DEF init_drng_seed, SeedOf
    <3>3. /\ IsCtx(drng_seed') /\ drng_seed'.n = 0
          /\ drng_seed'.V \in Origin(drng_seed', failed', NONCE)
          /\ failed' \subseteq failed \cup {NONCE}
      BY <3>2, SeedingFacts
    <3> QED  BY <3>1, <3>3 DEF DrawsInv, Printing
  <2>3. CASE make_directory \/ open_file
    <3>1. /\ UNCHANGED <<out, failed, i, drng_seed, drng_algorithm>> /\ pc \in {"dir", "open"}
          /\ pc' \in {"off", "open", "record"}
      BY <2>3 DEF make_directory, create_directory, open_file
    <3> QED  BY <3>1 DEF DrawsInv, Printing
  <2>4. CASE draw_seed
    <3>1. /\ pc = "record" /\ pc' = "init" /\ i' = i /\ failed' = failed
          /\ drng_algorithm' = drng_algorithm
          /\ seed' = Drawn(drng_seed, drng_seed.n) /\ drng_seed' = get_random_number(drng_seed, 1)
          /\ fprint("Seed", seed') /\ Due("Seed")
      BY <2>4 DEF draw_seed, bounds, OutInv, Due
    <3>2. /\ IsCtx(drng_seed) /\ drng_seed.V \in Origin(drng_seed, failed, NONCE)
          /\ drng_seed.n = i
      BY <3>1 DEF DrawsInv
    <3>3. /\ IsCtx(drng_seed') /\ drng_seed'.V = drng_seed.V /\ drng_seed'.C = drng_seed.C
          /\ drng_seed'.n = i + 1 /\ seed'.V = drng_seed.V /\ seed'.n = i
      BY <3>1, <3>2, CtxFacts
    <3>4. seed' = SeedOf(drng_seed', i)
      <4>1. i # NONCE
        BY DEF NONCE, OutInv
      <4> QED  BY <3>1, <3>2, <3>3, <4>1 DEF SeedOf, Drawn
    <3>5. drng_seed'.V \in Origin(drng_seed', failed', NONCE)
      BY <3>1, <3>2, <3>3, OriginKept
    <3>6. Sourced(drng_seed, failed, [i |-> i, field |-> "Seed", value |-> seed'])
      BY <3>2, <3>3 DEF Sourced, DrawsOf, Who, Nth
    <3>7. \A k \in 1..Len(out') : Sourced(drng_seed', failed', out'[k])
      BY <3>1, <3>3, <3>6, SourcesPrinted DEF DrawsInv
    <3> QED  BY <3>1, <3>3, <3>4, <3>5, <3>7 DEF DrawsInv, Printing
  <2>5. CASE init_drng_algorithm
    <3>1. /\ pc = "init" /\ pc' = "keygen" /\ UNCHANGED <<i, drng_seed, seed, out>>
          /\ Seeding(drng_algorithm', seed, i) /\ i \in 0..Count
      BY <2>5 DEF init_drng_algorithm, buffers, world, OutInv
    <3>2. seed = SeedOf(drng_seed, i) /\ drng_seed.V \in Origin(drng_seed, failed, NONCE)
      BY <3>1 DEF DrawsInv, Printing
    <3>3. /\ IsCtx(drng_algorithm') /\ drng_algorithm'.n = 0
          /\ drng_algorithm'.V \in Origin(drng_seed, failed', i)
          /\ failed \subseteq failed' /\ failed' \subseteq failed \cup {i}
      BY <3>1, <3>2, SeedingFacts
    <3>4. drng_seed.V \in Origin(drng_seed, failed', NONCE)
      BY <3>2, <3>3, OriginKept
    <3>5. \A k \in 1..Len(out') : Sourced(drng_seed', failed', out'[k])
      BY <3>1, <3>3, SourcedKept DEF DrawsInv
    <3> QED  BY <3>1, <3>2, <3>3, <3>4, <3>5 DEF DrawsInv, Printing
  <2>6. CASE kem_keygen
    <3>1. /\ pc = "keygen" /\ pc' = "enc" /\ UNCHANGED <<i, drng_seed, seed, failed>>
          /\ pk' = [A |-> Drawn(drng_algorithm, drng_algorithm.n + 0),
                    s |-> Drawn(drng_algorithm, drng_algorithm.n + 1)]
          /\ sk' = [pk |-> pk', z |-> Drawn(drng_algorithm, drng_algorithm.n + 2)]
          /\ drng_algorithm' = get_random_number(drng_algorithm, 3)
          /\ fprint("Keys", sk') /\ Due("Keys") /\ i # NONCE
      BY <2>6 DEF kem_keygen, bounds, OutInv, Printing, Due, NONCE
    <3>2. /\ IsCtx(drng_algorithm) /\ drng_algorithm.n = 0
          /\ drng_algorithm.V \in Origin(drng_seed, failed, i)
      BY <3>1 DEF DrawsInv
    <3>3. /\ IsCtx(drng_algorithm') /\ drng_algorithm'.n = 3
          /\ drng_algorithm'.V = drng_algorithm.V
      BY <3>1, <3>2, CtxFacts
    <3>4. Sourced(drng_seed, failed, [i |-> i, field |-> "Keys", value |-> sk'])
      <4> DEFINE item == [i |-> i, field |-> "Keys", value |-> sk']
                 d(n) == Drawn(drng_algorithm, n)
      <4>1. DrawsOf(item) = <<d(0), d(1), d(2)>>
        BY <3>1, <3>2 DEF DrawsOf
      <4>2. \A n : d(n).V = drng_algorithm.V /\ d(n).n = n
        BY <3>2, CtxFacts
      <4>3. Who(item) = i /\ \A m : Nth(item, m) = m - 1
        BY DEF Who, Nth
      <4> HIDE DEF item, d
      <4>4. ASSUME NEW m \in 1..3
            PROVE  DrawsOf(item)[m] = d(m - 1)
        BY <4>1
      <4>5. DOMAIN DrawsOf(item) = 1..3
        BY <4>1
      <4>6. Sourced(drng_seed, failed, item)
        BY <3>2, <4>2, <4>3, <4>4, <4>5 DEF Sourced
      <4> QED  BY <4>6 DEF item
    <3>5. \A k \in 1..Len(out') : Sourced(drng_seed', failed', out'[k])
      BY <3>1, <3>4, SourcesPrinted DEF DrawsInv
    <3> QED  BY <3>1, <3>2, <3>3, <3>5 DEF DrawsInv, Printing
  <2>7. CASE kem_enc
    <3>1. /\ pc = "enc" /\ pc' = "dec" /\ UNCHANGED <<i, drng_seed, seed, failed>>
          /\ ct' = [pk |-> pk, m |-> Drawn(drng_algorithm, drng_algorithm.n)]
          /\ drng_algorithm' = get_random_number(drng_algorithm, 1)
          /\ fprint("Enc", ct') /\ Due("Enc")
      BY <2>7 DEF kem_enc, bounds, OutInv, Printing, Due
    <3>2. /\ IsCtx(drng_algorithm) /\ drng_algorithm.n = 3
          /\ drng_algorithm.V \in Origin(drng_seed, failed, i)
      BY <3>1 DEF DrawsInv
    <3>3. /\ IsCtx(drng_algorithm')
          /\ ct'.m.V = drng_algorithm.V /\ ct'.m.n = 3
      BY <3>1, <3>2, CtxFacts
    <3>4. Sourced(drng_seed, failed, [i |-> i, field |-> "Enc", value |-> ct'])
      BY <3>2, <3>3 DEF Sourced, DrawsOf, Who, Nth
    <3>5. \A k \in 1..Len(out') : Sourced(drng_seed', failed', out'[k])
      BY <3>1, <3>4, SourcesPrinted DEF DrawsInv
    <3> QED  BY <3>1, <3>2, <3>3, <3>5 DEF DrawsInv, Printing
  <2>8. CASE kem_dec
    <3>1. pc = "dec" /\ UNCHANGED <<drng_seed, drng_algorithm, failed>> /\ Due("End")
      BY <2>8 DEF kem_dec, OutInv, Printing, Due
    <3>2. CASE pc' = "off" /\ UNCHANGED <<out, i>>
      BY <3>1, <3>2 DEF DrawsInv, Printing
    <3>3. CASE pc' = "record" /\ i' = i + 1 /\ fprint("End", Empty)
      <4>1. Sourced(drng_seed, failed, [i |-> i, field |-> "End", value |-> Empty])
        BY DEF Sourced, DrawsOf
      <4>2. \A k \in 1..Len(out') : Sourced(drng_seed', failed', out'[k])
        BY <3>1, <3>3, <4>1, SourcesPrinted DEF DrawsInv
      <4> QED  BY <3>1, <3>3, <4>2 DEF DrawsInv, Printing
    <3> QED  BY <2>8, <3>2, <3>3 DEF kem_dec, Return
  <2>9. CASE close_file \/ Killed
    BY <2>9 DEF close_file, Killed, DrawsInv, Printing
  <2>10. CASE UNCHANGED vars
    BY <2>10 DEF vars, buffers, world, bounds, DrawsInv
  <2> QED  BY <2>1, <2>2, <2>3, <2>4, <2>5, <2>6, <2>7, <2>8, <2>9, <2>10 DEF Next
<1> QED  BY <1>1, <1>2, OutInvHolds, PTL DEF Spec

\* At most one seeding failed: of two generators, one was seeded in full.
LEMMA OneFailed ==
  ASSUME failed \subseteq {NONCE} \cup 0..Count, Cardinality(failed) <= 1,
         NEW a \in failed, NEW b \in failed
  PROVE  a = b
<1>1. IsFiniteSet(failed)
  <2>1. failed \subseteq -1..Count /\ -1 \in Int /\ Count \in Int
    BY KatAssumption DEF NONCE
  <2>2. IsFiniteSet(-1..Count)
    BY <2>1, FS_Interval
  <2> QED  BY <2>1, <2>2, FS_Subset
<1>2. Cardinality(failed) \in Nat
  BY <1>1, FS_CardinalityType
<1> SUFFICES ASSUME a # b PROVE FALSE
  OBVIOUS
<1>3. {a, b} \subseteq failed
  OBVIOUS
<1>4. Cardinality({a, b}) <= Cardinality(failed)
  BY <1>1, <1>3, FS_Subset
<1>5. Cardinality({a, b}) = 2
  <2>1. IsFiniteSet({a}) /\ Cardinality({a}) = 1
    BY FS_Singleton
  <2>2. Cardinality({a} \cup {b}) = Cardinality({a}) + 1
    BY <2>1, FS_AddElement
  <2>3. {a} \cup {b} = {a, b}
    OBVIOUS
  <2> QED  BY <2>1, <2>2, <2>3
<1> QED  BY <1>2, <1>4, <1>5

\* Where a printed string is in the text follows from its generator and its number.
LEMMA PlaceOfDraw ==
  ASSUME OutInv, NEW k \in 1..Len(out), NEW l \in 1..Len(out),
         NEW m \in DOMAIN DrawsOf(out[k]), NEW n \in DOMAIN DrawsOf(out[l]),
         Who(out[k]) = Who(out[l]), Nth(out[k], m) = Nth(out[l], n)
  PROVE  k = l /\ m = n
<1>1. /\ out[k].i = (k - 1) \div 4 /\ out[l].i = (l - 1) \div 4
      /\ out[k].field = FieldAt(k) /\ out[l].field = FieldAt(l)
      /\ k \in Nat \ {0} /\ l \in Nat \ {0}
  <2>1. IsText(out)
    BY DEF OutInv
  <2>2. \A j \in 1..Len(out) : out[j].i = (j - 1) \div 4 /\ out[j].field = FieldAt(j)
    BY <2>1 DEF IsText
  <2>3. Len(out) \in Nat
    BY <2>1 DEF IsText
  <2>4. k \in Nat \ {0} /\ l \in Nat \ {0}
    BY <2>3
  <2> QED  BY <2>2, <2>4
<1>2. ASSUME NEW j \in Nat \ {0}
      PROVE  /\ (j - 1) \div 4 \in Nat /\ (j - 1) % 4 \in 0..3
             /\ j = 4 * ((j - 1) \div 4) + ((j - 1) % 4) + 1
             /\ FieldAt(j) = "Seed" <=> (j - 1) % 4 = 0
             /\ FieldAt(j) = "Keys" <=> (j - 1) % 4 = 1
             /\ FieldAt(j) = "Enc" <=> (j - 1) % 4 = 2
             /\ FieldAt(j) = "End" <=> (j - 1) % 4 = 3
             /\ FieldAt(j) \in {"Seed", "Keys", "Enc", "End"}
  BY DEF FieldAt
<1>3. ASSUME NEW item, NEW j \in DOMAIN DrawsOf(item),
             item.field \in {"Seed", "Keys", "Enc", "End"}
      PROVE  /\ item.field # "End" /\ j \in 1..3
             /\ item.field \in {"Seed", "Enc"} => j = 1
  <2>1. CASE item.field = "Seed"
    BY <1>3, <2>1 DEF DrawsOf
  <2>2. CASE item.field = "Keys"
    BY <1>3, <2>2 DEF DrawsOf
  <2>3. CASE item.field = "Enc"
    BY <1>3, <2>3 DEF DrawsOf
  <2>4. CASE item.field = "End"
    BY <1>3, <2>4 DEF DrawsOf
  <2> QED  BY <1>3, <2>1, <2>2, <2>3, <2>4
<1>4. /\ out[k].field \in {"Seed", "Keys", "Enc", "End"}
      /\ out[l].field \in {"Seed", "Keys", "Enc", "End"}
  BY <1>1, <1>2
<1>5. /\ out[k].field # "End" /\ m \in 1..3 /\ (out[k].field \in {"Seed", "Enc"} => m = 1)
      /\ out[l].field # "End" /\ n \in 1..3 /\ (out[l].field \in {"Seed", "Enc"} => n = 1)
  BY <1>3, <1>4
<1>6. /\ out[k].i \in Nat /\ out[l].i \in Nat
      /\ out[k].i = out[l].i /\ out[k].field = out[l].field => k = l
  <2>1. out[k].i \in Nat /\ out[l].i \in Nat
    BY <1>1, <1>2
  <2>2. ASSUME out[k].i = out[l].i, out[k].field = out[l].field PROVE k = l
    <3>1. (k - 1) % 4 = (l - 1) % 4
      <4>1. PICK r \in 0..3, t \in 0..3 : r = (k - 1) % 4 /\ t = (l - 1) % 4
        BY <1>1, <1>2
      <4>2. /\ (FieldAt(k) = "Seed" <=> r = 0) /\ (FieldAt(l) = "Seed" <=> t = 0)
            /\ (FieldAt(k) = "Keys" <=> r = 1) /\ (FieldAt(l) = "Keys" <=> t = 1)
            /\ (FieldAt(k) = "Enc" <=> r = 2) /\ (FieldAt(l) = "Enc" <=> t = 2)
        BY <1>1, <1>2, <4>1
      <4>3. FieldAt(k) = FieldAt(l)
        BY <1>1, <2>2
      <4> QED  BY <4>1, <4>2, <4>3
    <3>2. (k - 1) \div 4 = (l - 1) \div 4
      BY <1>1, <2>2
    <3> QED  BY <1>1, <1>2, <3>1, <3>2
  <2> QED  BY <2>1, <2>2
<1>7. CASE out[k].field = "Seed" /\ out[l].field = "Seed"
  BY <1>5, <1>6, <1>7 DEF Nth
<1>8. CASE out[k].field = "Seed" /\ out[l].field # "Seed"
  BY <1>6, <1>8 DEF Who, NONCE
<1>9. CASE out[k].field # "Seed" /\ out[l].field = "Seed"
  BY <1>6, <1>9 DEF Who, NONCE
<1>10. CASE out[k].field # "Seed" /\ out[l].field # "Seed"
  <2>1. out[k].i = out[l].i
    BY <1>10 DEF Who
  <2>2. CASE out[k].field = "Keys" /\ out[l].field = "Keys"
    BY <1>5, <1>6, <2>1, <2>2 DEF Nth
  <2>3. CASE out[k].field = "Enc" /\ out[l].field = "Enc"
    BY <1>5, <1>6, <2>1, <2>3
  <2>4. CASE out[k].field = "Keys" /\ out[l].field = "Enc"
    BY <1>5, <2>4 DEF Nth
  <2>5. CASE out[k].field = "Enc" /\ out[l].field = "Keys"
    BY <1>5, <2>5 DEF Nth
  <2> QED  BY <1>4, <1>5, <1>10, <2>2, <2>3, <2>4, <2>5
<1> QED  BY <1>7, <1>8, <1>9, <1>10

\* No string is drawn twice in a file, for any number of records, while at most one
\* seeding of the run has failed: every seed, key and message of it is fresh
\* (drng.c:108-178, KAT_KEM.c:94-130).
THEOREM StringsDiffer == Spec => []NoStringTwice
<1>1. OutInv /\ DrawsInv => NoStringTwice
  <2> SUFFICES ASSUME OutInv, DrawsInv, Cardinality(failed) <= 1,
                      NEW k \in 1..Len(out), NEW l \in 1..k,
                      NEW m \in DOMAIN DrawsOf(out[k]), NEW n \in DOMAIN DrawsOf(out[l]),
                      DrawsOf(out[k])[m] = DrawsOf(out[l])[n]
               PROVE  k = l /\ m = n
    BY DEF NoStringTwice
  <2> DEFINE a == Who(out[k])
             b == Who(out[l])
             v == DrawsOf(out[k])[m].V
  <2>1. l \in 1..Len(out) /\ k \in Nat \ {0} /\ l \in Nat \ {0}
    BY DEF OutInv, IsText
  <2>2. /\ v \in Origin(drng_seed, failed, a) /\ v \in Origin(drng_seed, failed, b)
        /\ Nth(out[k], m) = Nth(out[l], n)
    BY <2>1 DEF DrawsInv, Sourced
  <2>3. a \in {NONCE} \cup Nat /\ b \in {NONCE} \cup Nat
    <3>1. out[k].i = (k - 1) \div 4 /\ out[l].i = (l - 1) \div 4
      BY <2>1 DEF OutInv, IsText
    <3>2. (k - 1) \div 4 \in Nat /\ (l - 1) \div 4 \in Nat
      BY <2>1
    <3> QED  BY <3>1, <3>2 DEF Who
  <2> HIDE DEF a, b, v
  <2>4. a = b
    <3>1. CASE a \in failed /\ b \in failed
      BY <3>1, OneFailed DEF DrawsInv
    <3>2. CASE a \notin failed
      BY <2>2, <2>3, <3>2, OriginsDiffer
    <3>3. CASE b \notin failed
      BY <2>2, <2>3, <3>3, OriginsDiffer
    <3> QED  BY <3>1, <3>2, <3>3
  <2> QED  BY <2>1, <2>2, <2>4, PlaceOfDraw DEF a, b
<1> QED  BY <1>1, OutInvHolds, DrawsInvHolds, PTL
=============================================================================
