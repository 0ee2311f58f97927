------------------------------- MODULE MCKem -------------------------------
(* Small instances of Kem for TLC. *)
EXTENDS Kem, TLC

BufferSymmetry == Permutations(Slots)

\* Without faults every mixture of two slots is explored; with faults, only the
\* histories that use one slot and remember one decapsulation.
Unused(i) == pk[i] = Blank /\ sk[i] = Blank /\ ct[i] = Blank
Complete(i) == pk[i].len = PK_LEN /\ sk[i].len = SK_LEN /\ ct[i].len = CT_LEN
OneSlot ==
  /\ \E i \in Slots : /\ \A j \in Slots \ {i} : Unused(j)
                      /\ rc # 0 => ~Complete(i)
  /\ Cardinality(encs) <= 2 /\ Cardinality(decs) <= 1

\* The last draw of all is for histories of keys and encapsulations alone.
LastDraw == faults = 0 /\ decs = {}

MixingOrFaults ==
  /\ faults' > 0 => OneSlot'
  /\ drng'.n = MaxDraws => LastDraw'
  /\ drng.n # MaxDraws
=============================================================================
