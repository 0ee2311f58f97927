----------------------------- MODULE BigNumber -----------------------------
(***************************************************************************)
(* The two loops of drng.c on big-endian numbers of bytes:                 *)
(* inc_Big_Number adds one and stops at the first byte that does not wrap, *)
(* plus_Big_Number adds three numbers into a fourth and carries up to 3.   *)
(* One step is one iteration.  The variable operand only remembers the      *)
(* number that BN1 was at the call.                                        *)
(***************************************************************************)
EXTENDS Integers

CONSTANTS
  BYTE,   \* values of a byte: 256 in the code
  LEN     \* bytes of a number: SEEDLEN, 55 in the code

ASSUME SizesAssumption == BYTE \in Nat /\ BYTE >= 2 /\ LEN \in Nat /\ LEN >= 1

VARIABLES
  op,       \* which of the two functions runs
  BN1, BN2, BN3, BN4,   \* the operands; BN1 is also the result
  len,      \* BN_len_bytes, counting down
  carry,    \* plus: the carry; inc: 1 until the loop breaks
  running,
  operand   \* the value BN1 had at the call

numberVars == <<op, BN1, BN2, BN3, BN4, len, carry, running, operand>>

Number == [1..LEN -> 0..BYTE - 1]

NumberInit ==
  /\ op \in {"inc", "plus"}
  /\ BN1 \in Number
  /\ IF op = "plus" THEN BN2 \in Number /\ BN3 \in Number /\ BN4 \in Number
                    ELSE BN2 = BN1 /\ BN3 = BN1 /\ BN4 = BN1
  /\ len = LEN
  /\ carry = IF op = "inc" THEN 1 ELSE 0
  /\ running = TRUE
  /\ operand = BN1

\* Mutant: break as soon as the byte has wrapped.
inc_Big_Number_early ==
  /\ op = "inc" /\ running /\ len # 0
  /\ BN1' = [BN1 EXCEPT ![len] = (@ + 1) % BYTE]
  /\ carry' = IF BN1'[len] # 0 THEN 1 ELSE 0
  /\ running' = (BN1'[len] # 0)
  /\ len' = len - 1
  /\ UNCHANGED <<op, BN2, BN3, BN4, operand>>

inc_Big_Number ==
  /\ op = "inc" /\ running /\ len # 0
  /\ BN1' = [BN1 EXCEPT ![len] = (@ + 1) % BYTE]
  /\ carry' = IF BN1'[len] # 0 THEN 0 ELSE 1
  /\ running' = (BN1'[len] = 0)
  /\ len' = len - 1
  /\ UNCHANGED <<op, BN2, BN3, BN4, operand>>

\* Mutant: the carry is taken for one bit.
CarryOf_bit(sum) == IF sum >= BYTE THEN 1 ELSE 0

CarryOf(sum) == sum \div BYTE

plus_Big_Number ==
  LET sum == BN1[len] + BN2[len] + BN3[len] + BN4[len] + carry
  IN  /\ op = "plus" /\ running /\ len # 0
      /\ carry' = CarryOf(sum)
      /\ BN1' = [BN1 EXCEPT ![len] = sum % BYTE]
      /\ len' = len - 1
      /\ UNCHANGED <<op, BN2, BN3, BN4, running, operand>>

return ==
  /\ running /\ len = 0
  /\ running' = FALSE
  /\ UNCHANGED <<op, BN1, BN2, BN3, BN4, len, carry, operand>>

NumberNext == inc_Big_Number \/ plus_Big_Number \/ return

NumberSpec == NumberInit /\ [][NumberNext]_numberVars

----------------------------------------------------------------------------
(* Properties.                                                             *)

Power[n \in 0..LEN] == IF n = 0 THEN 1 ELSE Power[n - 1] * BYTE
Modulus == Power[LEN]

\* Low(bn)[n] is the number that the last n bytes of bn are.
Low(bn) ==
  LET low[n \in 0..LEN] == IF n = 0 THEN 0 ELSE low[n - 1] + bn[LEN - n + 1] * Power[n - 1]
  IN  low

Value(bn) == Low(bn)[LEN]

NumberTypeOK ==
  /\ op \in {"inc", "plus"}
  /\ BN1 \in Number /\ BN2 \in Number /\ BN3 \in Number /\ BN4 \in Number
  /\ operand \in Number
  /\ len \in 0..LEN /\ carry \in 0..3 /\ running \in BOOLEAN

\* What the operands have in the digits that the loop passed is what it has
\* written there, plus the carry it still holds at the weight of the next digit:
\* no carry is lost, doubled or written twice, whatever the bytes are
\* (drng.c:42-63).
Added(n) ==
  IF op = "inc" THEN Low(operand)[n] + 1
                ELSE Low(operand)[n] + Low(BN2)[n] + Low(BN3)[n] + Low(BN4)[n]

Accounting == Added(LEN - len) = Low(BN1)[LEN - len] + carry * Power[LEN - len]

\* inc_Big_Number adds one modulo 256^SEEDLEN, over a run of 0xFF bytes and at
\* the wrap of the whole number as well.
IncAddsOne ==
  op = "inc" /\ ~running => Value(BN1) = (Value(operand) + 1) % Modulus

\* plus_Big_Number adds the four numbers modulo 256^SEEDLEN.
PlusAddsAll ==
  op = "plus" /\ ~running =>
    Value(BN1) = (Value(operand) + Value(BN2) + Value(BN3) + Value(BN4)) % Modulus
=============================================================================
