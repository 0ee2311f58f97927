-------------------------------- MODULE Sums --------------------------------
(* Sums of numbers, by recursion over the places.                            *)
EXTENDS Integers

\* f[0] + ... + f[n - 1]
SumTo(f, n) ==
  LET sum[k \in 0..n] == IF k = 0 THEN 0 ELSE sum[k - 1] + f[k - 1]
  IN  sum[n]
=============================================================================
