------------------------------ MODULE MCToom4 ------------------------------
(* Words of 12 bits, with the code's inverses modulo 2^12, blocks of 8      *)
(* coefficients: single coefficients at the ends of the blocks, dense       *)
(* polynomials, and all words at their maximum.                             *)
EXTENDS Toom4

Single(k, c) == [n \in 0..N - 1 |-> IF n = k THEN c ELSE 0]
Dense(m, c) == [n \in 0..N - 1 |-> ((m * n * n) + (c * n) + 4001) % W]
Small(c) == [n \in 0..N - 1 |-> ((((n * n) + (c * n) + 1) % 4) - 2) % W]
Top == [n \in 0..N - 1 |-> W - 1]

MCOperands ==
  {Single(k, 1) : k \in {0, Blk - 1, 2 * Blk, N - 1}}
    \cup {Dense(37, 5), Dense(211, 1023), Small(1), Small(3), Top, Single(3 * Blk, W \div 2)}
MCStarts == {Dense(3, 7)}
=============================================================================
