------------------------------- MODULE MCPke -------------------------------
(* Small rings with the real moduli and both values of LOGT.  Elements are *)
(* dense, from linear congruences, or single monomials.  The packers alone *)
(* get every accumulator modulo p in every place, and in each place a noise*)
(* from the ends of both windows, one beyond, and some inside.             *)
EXTENDS Pke

Dense(c, e) == [k \in 0..K - 1 |-> [d \in 0..N - 1 |-> (c * (5 * k * N + 3 * d * d + k * d + 1) + e) % Q]]
Small(c, e) == [k \in 0..K - 1 |-> [d \in 0..N - 1 |-> ((((c * (5 * k + 3 * d + k * d) + e) % 7) % 4) - 2) % Q]]
Monomial(k, d, c) == [l \in 0..K - 1 |-> [e \in 0..N - 1 |-> IF l = k /\ e = d THEN c % Q ELSE 0]]

MCStep == [h \in Halves |-> (2 * Quarter) \div h]
MCAs == {Dense(37, 11), Dense(1001, 200), Monomial(K - 1, N - 1, 777)}
MCSs == {Small(1, 0), Small(3, 2), Monomial(0, 0, 1), Monomial(K - 1, N - 1, -2), Monomial(1, 0, -1)}

MCMessages == {[k \in 0..ELL - 1 |-> [d \in 0..N - 1 |-> (k + d + c) % 2]] : c \in 0..1}
MCAccs == {[k \in 0..ELL - 1 |-> [d \in 0..N - 1 |-> x]] : x \in 0..P - 1}
Edges == <<-637, -636, -513, -512, 132, 133, 504, 505, -150, 0>>
MCNoises == {[k \in 0..ELL - 1 |-> [d \in 0..N - 1 |-> Edges[((N * k + d + c) % 10) + 1]]] : c \in {0, 2}}
=============================================================================
