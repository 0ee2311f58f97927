------------------------------ MODULE IdealKem ------------------------------
(***************************************************************************)
(* What a key encapsulation mechanism promises, with no key, hash or       *)
(* cipher in sight: a table of the secrets that were issued, each under    *)
(* the public key and the ciphertext it was issued with, and a table of    *)
(* the answers that decapsulation gave.                                    *)
(*                                                                         *)
(* The module only says which new entries a step may add, so its           *)
(* quantifiers range over the tables after the step.                       *)
(***************************************************************************)
CONSTANT Corrupt   \* stands for a private key that is not as it was generated

VARIABLES
  owners,    \* the public keys that were generated
  issued,    \* records [to, ct, ss, sound]: ss was issued to `to' under ct
  answered   \* records [by, ct, ss]: the owner of `by' decapsulated ct to ss

vars == <<owners, issued, answered>>

Secrets == {e.ss : e \in issued}

\* The table lookup an ideal decapsulation is.
Entries(by, c) == {e \in issued : e.to = by /\ e.ct = c}

Init == owners = {} /\ issued = {} /\ answered = {}

Generate ==
  /\ \E k \in owners' : owners' = owners \cup {k}
  /\ UNCHANGED <<issued, answered>>

\* A new entry carries a new ciphertext, and a secret that nobody was given yet,
\* not even as the answer to a ciphertext that was rejected.
Encapsulate ==
  /\ \E e \in issued' :
       /\ issued' = issued \cup {e}
       /\ \A f \in issued : e.ct # f.ct /\ e.ss # f.ss
       /\ \A a \in answered : e.ct # a.ct /\ e.ss # a.ss
  /\ UNCHANGED <<owners, answered>>

\* A sound entry for an intact key is answered with its secret.
Accept ==
  /\ \E a \in answered' :
       /\ answered' = answered \cup {a}
       /\ \E e \in issued :
            e.ct = a.ct /\ e.ss = a.ss /\ a.by \in {e.to, Corrupt}
  /\ UNCHANGED <<owners, issued>>

\* Anything else is answered with a secret that was never issued, the same one
\* whenever the same intact key sees the same ciphertext.
Reject ==
  /\ \E a \in answered' :
       /\ answered' = answered \cup {a}
       /\ a.ss \notin Secrets
       /\ \A e \in Entries(a.by, a.ct) : ~e.sound
       /\ a.by # Corrupt =>
            \A b \in answered : b.by = a.by /\ b.ct = a.ct => b.ss = a.ss
  /\ UNCHANGED <<owners, issued>>

Next == Generate \/ Encapsulate \/ Accept \/ Reject

Spec == Init /\ [][Next]_vars
=============================================================================
