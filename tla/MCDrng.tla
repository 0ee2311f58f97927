------------------------------- MODULE MCDrng -------------------------------
(* Two nonces, numbers of four bits, digests of two bytes.                  *)
EXTENDS Drng

MCDfNonce == [n \in Nonces |-> IF n = "a" THEN 14 ELSE 3]
MCRawNonce == [n \in Nonces |-> IF n = "a" THEN 7 ELSE 1]
MCDfPadded == [v \in Seed |-> (5 * v + 9) % MODULUS]
MCSha3Padded == [v \in Seed |-> (3 * v + 2) % DIGEST]
=============================================================================
