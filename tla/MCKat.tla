------------------------------- MODULE MCKat -------------------------------
(* Instance names at the limit of 64 bytes, and one with a character that is refused. *)
EXTENDS Kat

MCNames == {[len |-> 64, plain |-> TRUE], [len |-> 65, plain |-> TRUE], [len |-> 9, plain |-> FALSE]}
=============================================================================
