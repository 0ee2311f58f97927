-------------------------------- MODULE Kat --------------------------------
(***************************************************************************)
(* The known-answer program, KAT/KAT_KEM.c: it seeds one generator with a  *)
(* fixed nonce, draws from it a seed for each record, seeds the generator  *)
(* of the library with that, and prints a key pair, a ciphertext and a     *)
(* secret, which it decapsulates.  The program is run again and again in   *)
(* one directory; allocations, file operations and writes may fail, a run  *)
(* may be cut off anywhere.                                                *)
(*                                                                         *)
(* A generator is the term it was derived from and the number of strings   *)
(* drawn; strings, keys and ciphertexts are terms as in Kem.  Text goes    *)
(* through a buffer of stdio, whose writes the program does not check.     *)
(***************************************************************************)
EXTENDS Integers, Sequences, FiniteSets

CONSTANTS
  Names,       \* what ALGORITHM_INSTANCE may be set to: records [len, plain]
  Count,       \* records of a file: 10
  Buffered,    \* fields that stdio may hold back
  MaxRuns,     \* bound: times the program is started
  MaxFaults    \* bound: failed allocations, file operations, writes, decapsulations; kills

ASSUME KatAssumption ==
  Count \in Nat \ {0} /\ Buffered \in Nat /\ MaxRuns \in Nat /\ MaxFaults \in Nat

VARIABLES
  pc, i,
  drng_seed, drng_algorithm,   \* the two generators
  seed, pk, sk, ct, ss,        \* the buffers of main
  out,      \* what this run has printed
  text,     \* what of it stdio and the file hold, in the order of the file
  lost,     \* a write of this run has failed
  disk,     \* what the file holds once the run is over
  dir,      \* what "output" is
  exit,     \* the status of the last run that ended
  failed,   \* the seedings of this run in which an allocation failed
  clean,    \* nothing has failed in this run
  runs, faults

buffers == <<seed, pk, sk, ct, ss>>
world == <<out, text, lost, disk, dir, exit>>
bounds == <<failed, clean, runs, faults>>
vars == <<pc, i, drng_seed, drng_algorithm, buffers, world, bounds>>

KAT_KEM_SUCCESS == 0
KAT_ALGORITHM_INSTANCE_NAME_INVALID == -1
KAT_FILE_OPERATE_FAILED == -2
KAT_KEM_SS_UNEQUAL == -5
KILLED == -9   \* by a signal: also when a calloc that is not checked gave NULL

----------------------------------------------------------------------------
(* The generator, as drng.c leaves it.                                     *)

Empty == [empty |-> TRUE]
nonce == [string |-> "seedseed"]
ZeroCtx == [V |-> [zero |-> TRUE], C |-> [zero |-> TRUE], n |-> 0]
Ctx(v, c) == [V |-> v, C |-> c, n |-> 0]
Seeded(s) == Ctx([df |-> s], [df |-> [df |-> s]])

\* The contexts that a failed allocation leaves: all zero without seed_material,
\* or V or C taken over as they were before SHA3_df.
HalfSeeded(s) ==
  {ZeroCtx, Ctx([raw |-> s], [df |-> [raw |-> s]]),
   Ctx([df |-> s], [raw |-> [df |-> s]]), Ctx([raw |-> s], [raw |-> [raw |-> s]])}

\* The string after n others.  The first comes from V alone; C moves V on.
Drawn(ctx, n) == [V |-> ctx.V, C |-> IF n = 0 THEN Empty ELSE ctx.C, n |-> n]

\* Mutant: the state does not move on after the last string of a call.
get_random_number_short(ctx, k) == [ctx EXCEPT !.n = @ + k - 1]

get_random_number(ctx, k) == [ctx EXCEPT !.n = @ + k]

Fault == faults < MaxFaults /\ faults' = faults + 1 /\ clean' = FALSE
NoFault == UNCHANGED <<faults, clean>>

\* Mutant: a generator that is in use is not seeded again.
Seeding_once(ctx, s, who) ==
  ctx = (IF i = 0 THEN Seeded(s) ELSE drng_algorithm) /\ NoFault /\ UNCHANGED failed

\* init_random_number, whose result main does not look at; who is the number
\* of the record, or NONCE.
NONCE == -1
Seeding(ctx, s, who) ==
  \/ ctx = Seeded(s) /\ NoFault /\ UNCHANGED failed
  \/ ctx \in HalfSeeded(s) /\ Fault /\ failed' = failed \cup {who}

----------------------------------------------------------------------------
(* The run.                                                                *)

Init ==
  /\ pc = "off" /\ i = 0 /\ drng_seed = ZeroCtx /\ drng_algorithm = ZeroCtx
  /\ seed = Empty /\ pk = Empty /\ sk = Empty /\ ct = Empty /\ ss = Empty
  /\ out = <<>> /\ text = <<>> /\ lost = FALSE /\ disk = <<>>
  /\ dir \in {"absent", "folder", "file", "dangling"} /\ exit = KAT_KEM_SUCCESS
  /\ failed = {} /\ clean = TRUE /\ runs = 0 /\ faults = 0

\* What may have reached the file when stdio could not write more.
Reached == {SubSeq(text, 1, k) : k \in {n \in 0..Len(text) : Len(text) - n <= Buffered}}

\* fprintf, whose result nobody looks at: the field goes to stdio, or a write fails
\* and the field is lost, with some of what was held back.
fprint(field, value) ==
  LET item == [i |-> i, field |-> field, value |-> value]
  IN  /\ out' = Append(out, item)
      /\ \/ text' = Append(text, item) /\ NoFault /\ UNCHANGED lost
         \/ text' \in Reached /\ Fault /\ lost' = TRUE

\* return from main: the C library writes what stdio still holds, if it can.
Return(status) ==
  /\ pc' = "off" /\ exit' = status
  /\ disk' \in Reached
  /\ UNCHANGED <<out, text, lost, dir>>

validate_algorithm_instance_name(name) ==
  IF name.len > 64 \/ ~name.plain THEN KAT_ALGORITHM_INSTANCE_NAME_INVALID ELSE 0

\* A process starts with zero in its globals and anything in main's locals.
main ==
  /\ pc = "off" /\ runs < MaxRuns
  /\ runs' = runs + 1 /\ failed' = {} /\ clean' = TRUE
  /\ out' = <<>> /\ text' = <<>> /\ lost' = FALSE
  /\ drng_seed' = ZeroCtx /\ drng_algorithm' = ZeroCtx /\ i' = 0
  /\ seed' = Empty /\ pk' = Empty /\ sk' = Empty /\ ct' = Empty /\ ss' = Empty
  /\ \E name \in Names :
       IF validate_algorithm_instance_name(name) # 0
       THEN pc' = "off" /\ exit' = KAT_ALGORITHM_INSTANCE_NAME_INVALID
       ELSE pc' = "nonce" /\ UNCHANGED exit
  /\ UNCHANGED <<disk, dir, faults>>

init_drng_seed ==
  /\ pc = "nonce" /\ pc' = "dir"
  /\ Seeding(drng_seed', nonce, NONCE)
  /\ UNCHANGED <<i, drng_algorithm, buffers, world, runs>>

\* Mutant: a folder that exists is a failure.
create_directory_strict(rt) ==
  \/ dir = "absent" /\ dir' = "folder" /\ rt = 0 /\ NoFault
  \/ dir # "absent" /\ rt = 1 /\ NoFault /\ UNCHANGED dir
  \/ rt = 1 /\ Fault /\ UNCHANGED dir

\* mkdir; after EEXIST, access, which finds what a link points to.
create_directory(rt) ==
  \/ dir = "absent" /\ dir' = "folder" /\ rt = 0 /\ NoFault
  \/ dir \in {"folder", "file"} /\ rt = 0 /\ NoFault /\ UNCHANGED dir
  \/ dir = "dangling" /\ rt = 1 /\ NoFault /\ UNCHANGED dir
  \/ rt = 1 /\ Fault /\ UNCHANGED dir

make_directory ==
  /\ pc = "dir"
  /\ \E rt \in {0, 1} :
       /\ create_directory(rt)
       /\ IF rt # 0 THEN pc' = "off" /\ exit' = KAT_FILE_OPERATE_FAILED
                    ELSE pc' = "open" /\ UNCHANGED exit
  /\ UNCHANGED <<i, drng_seed, drng_algorithm, buffers, out, text, lost, disk, failed, runs>>

\* "wb": the file of an earlier run is emptied.
open_file ==
  /\ pc = "open"
  /\ \/ /\ dir = "folder" /\ NoFault
        /\ pc' = "record" /\ disk' = <<>> /\ UNCHANGED exit
     \/ /\ IF dir = "folder" THEN Fault ELSE NoFault
        /\ pc' = "off" /\ exit' = KAT_FILE_OPERATE_FAILED /\ UNCHANGED disk
  /\ UNCHANGED <<i, drng_seed, drng_algorithm, buffers, out, text, lost, dir, failed, runs>>

draw_seed ==
  /\ pc = "record" /\ i < Count /\ pc' = "init"
  /\ seed' = Drawn(drng_seed, drng_seed.n)
  /\ drng_seed' = get_random_number(drng_seed, 1)
  /\ fprint("Seed", seed')
  /\ UNCHANGED <<i, drng_algorithm, pk, sk, ct, ss, disk, dir, exit, failed, runs>>

init_drng_algorithm ==
  /\ pc = "init" /\ pc' = "keygen"
  /\ Seeding(drng_algorithm', seed, i)
  /\ UNCHANGED <<i, drng_seed, buffers, world, runs>>

\* kem_keygen: the seed of A, the seed of s, and z.
kem_keygen ==
  LET draw(k) == Drawn(drng_algorithm, drng_algorithm.n + k)
  IN  /\ pc = "keygen" /\ pc' = "enc"
      /\ pk' = [A |-> draw(0), s |-> draw(1)]
      /\ sk' = [pk |-> pk', z |-> draw(2)]
      /\ drng_algorithm' = get_random_number(drng_algorithm, 3)
      /\ fprint("Keys", sk')
      /\ UNCHANGED <<i, drng_seed, seed, ct, ss, disk, dir, exit, failed, runs>>

\* kem_enc: the message; ct and ss follow from it and pk.
kem_enc ==
  /\ pc = "enc" /\ pc' = "dec"
  /\ ct' = [pk |-> pk, m |-> Drawn(drng_algorithm, drng_algorithm.n)]
  /\ ss' = [K |-> ct']
  /\ drng_algorithm' = get_random_number(drng_algorithm, 1)
  /\ fprint("Enc", ct')
  /\ UNCHANGED <<i, drng_seed, seed, pk, sk, disk, dir, exit, failed, runs>>

\* kem_dec gives ss, or another secret if the noise of ct is outside the window;
\* then memcmp.
kem_dec ==
  /\ pc = "dec"
  /\ \E ss1 \in {ss, [reject |-> <<ct, sk.z>>]} :
       IF ss1 # ss
       THEN Fault /\ Return(KAT_KEM_SS_UNEQUAL) /\ UNCHANGED i
       ELSE /\ pc' = "record" /\ i' = i + 1
            /\ fprint("End", Empty)
            /\ UNCHANGED <<disk, dir, exit>>
  /\ UNCHANGED <<drng_seed, drng_algorithm, buffers, failed, runs>>

\* Mutant: the file is not closed before the end is reported.
close_file_late ==
  /\ pc = "record" /\ i >= Count /\ pc' = "off" /\ exit' = KAT_KEM_SUCCESS
  /\ \/ disk' = text /\ NoFault
     \/ disk' \in Reached /\ Fault
  /\ UNCHANGED <<i, drng_seed, drng_algorithm, buffers, out, text, lost, dir, failed, runs>>

\* fclose writes what stdio holds; it knows nothing of a write that failed before.
close_file ==
  /\ pc = "record" /\ i >= Count /\ pc' = "off"
  /\ \/ disk' = text /\ NoFault /\ exit' = KAT_KEM_SUCCESS
     \/ disk' \in Reached /\ Fault /\ exit' = KAT_FILE_OPERATE_FAILED
  /\ UNCHANGED <<i, drng_seed, drng_algorithm, buffers, out, text, lost, dir, failed, runs>>

\* The run is cut off.
Killed ==
  /\ pc # "off" /\ Fault /\ pc' = "off" /\ exit' = KILLED
  /\ IF pc \in {"nonce", "dir", "open"} THEN UNCHANGED disk ELSE disk' \in Reached
  /\ UNCHANGED <<i, drng_seed, drng_algorithm, buffers, out, text, lost, dir, failed, runs>>

Next ==
  \/ main \/ init_drng_seed \/ make_directory \/ open_file \/ draw_seed
  \/ init_drng_algorithm \/ kem_keygen \/ kem_enc \/ kem_dec \/ close_file \/ Killed

Spec == Init /\ [][Next]_vars

----------------------------------------------------------------------------
(* Properties.                                                             *)

\* The seed and the record that the nonce determines.
KnownSeed(k) == Drawn(Seeded(nonce), k)
KnownDraw(k, n) == Drawn(Seeded(KnownSeed(k)), n)
KnownKey(k) == [pk |-> [A |-> KnownDraw(k, 0), s |-> KnownDraw(k, 1)], z |-> KnownDraw(k, 2)]
KnownAnswer(k, field) ==
  CASE field = "Seed" -> KnownSeed(k)
    [] field = "Keys" -> KnownKey(k)
    [] field = "Enc"  -> [pk |-> KnownKey(k).pk, m |-> KnownDraw(k, 3)]
    [] OTHER -> Empty

\* A record is the known answer in every run whose own two seedings succeeded: a
\* generator that was left half-seeded, by another record or by a run before, leaves
\* no trace in it (drng.c:108, KAT_KEM.c:66,98,105).
KnownAnswers ==
  \A k \in 1..Len(out) :
    out[k].i \notin failed /\ NONCE \notin failed =>
      out[k].value = KnownAnswer(out[k].i, out[k].field)

\* The strings of the generators that a printed field is made of.
DrawsOf(item) ==
  CASE item.field = "Seed" -> <<item.value>>
    [] item.field = "Keys" -> <<item.value.pk.A, item.value.pk.s, item.value.z>>
    [] item.field = "Enc"  -> <<item.value.m>>
    [] OTHER -> <<>>

\* No string is drawn twice in a file, so that no key, secret or message is that of
\* another record or a seed that is printed, as long as at most one seeding failed.
\* (After two, both generators can start from the all-zero state, drng.c:108-114,
\* and a printed seed is the seed of a key.)
NoStringTwice ==
  Cardinality(failed) <= 1 =>
    \A k \in 1..Len(out) : \A l \in 1..k :
      LET d == DrawsOf(out[k])
          e == DrawsOf(out[l])
      IN  \A m \in DOMAIN d, n \in DOMAIN e : d[m] = e[n] => k = l /\ m = n

\* Where a field belongs in the file.
PlaceOf(item) == 4 * item.i + [Seed |-> 1, Keys |-> 2, Enc |-> 3, End |-> 4][item.field]

\* The exit status is right about the file and the folder (KAT_KEM.c:72-82,94-163,
\* 184-221).  A run with status 0 whose writes succeeded leaves every field of every
\* record in order; if a write failed, some fields are missing, but those that are there
\* are in order, none twice and none of an earlier run.  A run of a valid instance in
\* which nothing fails has status 0, whatever file the runs before it left behind,
\* unless "output" is no folder.
ExitStatusIsRight ==
  pc = "off" /\ runs > 0 =>
    /\ exit = KAT_KEM_SUCCESS =>
         /\ \A k \in 2..Len(disk) : PlaceOf(disk[k - 1]) < PlaceOf(disk[k])
         /\ \A k \in 1..Len(disk) : disk[k] = out[PlaceOf(disk[k])]
         /\ ~lost => Len(disk) = 4 * Count
    /\ clean /\ dir \in {"absent", "folder"} =>
         exit \in {KAT_KEM_SUCCESS, KAT_ALGORITHM_INSTANCE_NAME_INVALID}

\* "Files have been saved in the 'output' folder" is reported, with status 0, only of a
\* file that holds every field (KAT_KEM.c:162).
SavedWhenReported ==
  pc = "off" /\ runs > 0 /\ exit = KAT_KEM_SUCCESS => Len(disk) = 4 * Count
=============================================================================
