--------------------------- MODULE HighMultiplier ---------------------------
(***************************************************************************)
(* The upper word of a product, in rtl/riscv_mult.sv: one multiplier of    *)
(* half-words is used four times, and the partial sum waits in operand c   *)
(* of the ID/EX registers (riscv_id_stage.sv) with its sign in a carry     *)
(* bit.  The other products of the unit take one cycle and keep no state.  *)
(***************************************************************************)
EXTENDS Integers

CONSTANT HALF   \* number of values of half a word (2^16 in the core)

ASSUME HalfAssumption == HALF \in Nat \ {0} /\ HALF % 2 = 0

FULL == HALF * HALF
MulWord == 0 .. FULL - 1

VARIABLES
  mulh_CS,        \* FSM of the multiplication
  mulh_carry_q,   \* sign of the partial sum
  mult_operand_c  \* ID/EX: the partial sum

mulhVars == <<mulh_CS, mulh_carry_q, mult_operand_c>>

\* The number below n that represents x, read as two's complement.
AsSigned(x, n) == IF x < n \div 2 THEN x ELSE x - n

\* op has a kind, mulh, mulhsu or mulhu, and the operands a and b.
SignedA(op) == op.kind \in {"mulh", "mulhsu"}
SignedB(op) == op.kind = "mulh"

Upper(x) == x \div HALF
Lower(x) == x % HALF

mulh_active == mulh_CS # "IDLE"
UpperA == mulh_CS \in {"STEP2", "FINISH"}
UpperB == mulh_CS \in {"STEP1", "FINISH"}

short_op_a(op) ==
  IF ~UpperA THEN Lower(op.a)
  ELSE IF SignedA(op) THEN AsSigned(Upper(op.a), HALF) ELSE Upper(op.a)
short_op_b(op) ==
  IF ~UpperB THEN Lower(op.b)
  ELSE IF SignedB(op) THEN AsSigned(Upper(op.b), HALF) ELSE Upper(op.b)

\* {mulh_carry_q, op_c_i} is a signed number of 33 bits
short_op_c == IF mulh_carry_q THEN mult_operand_c - FULL ELSE mult_operand_c

\* 34 bits, signed
short_mac(op) ==
  AsSigned((short_op_c + short_op_a(op) * short_op_b(op)) % (4 * FULL), 4 * FULL)

\* A slip: the sum of the middle products is shifted as an unsigned word.
short_resultLogical(op) ==
  CASE mulh_CS \in {"STEP0", "STEP2"} -> (short_mac(op) % FULL) \div HALF
    [] OTHER -> short_mac(op) % FULL
short_result(op) ==
  CASE mulh_CS = "STEP0" -> (short_mac(op) % FULL) \div HALF
    [] mulh_CS = "STEP2" -> (short_mac(op) \div HALF) % FULL
    [] OTHER -> short_mac(op) % FULL

multicycle_o == mulh_CS \in {"STEP0", "STEP1", "STEP2"}
mult_ready(enable) == IF mulh_CS = "IDLE" THEN ~enable ELSE mulh_CS = "FINISH"

-----------------------------------------------------------------------------
(* One action per state; enable tells that a high product is in EX. *)

MulhIdle(enable) ==
  mulh_CS = "IDLE" /\ mulh_CS' = IF enable THEN "STEP0" ELSE "IDLE"
MulhStep ==
  \/ mulh_CS = "STEP0" /\ mulh_CS' = "STEP1"
  \/ mulh_CS = "STEP1" /\ mulh_CS' = "STEP2"
  \/ mulh_CS = "STEP2" /\ mulh_CS' = "FINISH"
MulhFinish(ex_ready) ==
  mulh_CS = "FINISH" /\ mulh_CS' = IF ex_ready THEN "IDLE" ELSE "FINISH"

Carry(op, ex_ready) ==
  mulh_carry_q' = CASE mulh_CS = "STEP1" -> (short_mac(op) \div FULL) % 2 = 1
                    [] mulh_CS = "STEP2" -> FALSE
                    [] OTHER -> mulh_carry_q /\ ~ex_ready

MulInit == mulh_CS = "IDLE" /\ mulh_carry_q = FALSE /\ mult_operand_c = 0

MulStep(op, enable, ex_ready) ==
  /\ MulhIdle(enable) \/ MulhStep \/ MulhFinish(ex_ready)
  /\ Carry(op, ex_ready)

-----------------------------------------------------------------------------
(* The definition of the instruction: the upper word of the whole product. *)
Value(x, signed) == IF signed THEN AsSigned(x, FULL) ELSE x
HighProduct(op) ==
  ((Value(op.a, SignedA(op)) * Value(op.b, SignedB(op))) \div FULL) % FULL

MulTypeOK ==
  /\ mulh_CS \in {"IDLE", "STEP0", "STEP1", "STEP2", "FINISH"}
  /\ mulh_carry_q \in BOOLEAN
  /\ mult_operand_c \in MulWord
=============================================================================
