---------------------------- MODULE MCRingBytes ----------------------------
(* The calls of pke.c and of the unit tests at all three levels; every other bit *)
(* length of the generic loops at the lowest.                                    *)
EXTENDS RingBytes

Levels == { [K |-> 5, ELL |-> 1, LOGT |-> 3], [K |-> 9, ELL |-> 2, LOGT |-> 3],
            [K |-> 17, ELL |-> 4, LOGT |-> 8] }

Request(f, l, n) == [fn |-> f, K |-> l.K, ELL |-> l.ELL, bitlen |-> n]
Lowest == CHOOSE l \in Levels : l.K = 5

MCRequests ==
  {Request("ring_pack", l, n) : l \in Levels, n \in {2, 11}}
  \cup {Request("ring_mul_Awin_add_msg_pack_t", l, l.LOGT) : l \in Levels}
  \cup {Request(f, l, n) : f \in {"ring_uniform", "ring_uniform_Awin_base"}, l \in Levels, n \in {2, LOGQ}}
  \cup {Request(f, Lowest, n) : f \in {"ring_pack", "poly_uniform"}, n \in Bitlens}
=============================================================================
