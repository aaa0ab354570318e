--------------------------- MODULE SerialDivider ---------------------------
(***************************************************************************)
(* rtl/riscv_alu_div.sv, with the preparation of its operands in           *)
(* rtl/riscv_alu.sv: a serial divider that starts at the first quotient    *)
(* bit that may be set.  Signed operands are not made positive: a dividend *)
(* of the other sign is negated, and a negative divisor turns the          *)
(* comparison around.                                                      *)
(***************************************************************************)
EXTENDS Integers

CONSTANT WIDTH   \* bits of a word (32); a power of 2

ASSUME WidthAssumption == WIDTH \in {2, 4, 8, 16, 32}

Size == 2 ^ WIDTH
DivWord == 0 .. Size - 1
Counts == 0 .. 2 * WIDTH - 1   \* C_LOG_WIDTH bits

VARIABLES
  State_SP,
  AReg_DP, BReg_DP,   \* what is left of the dividend; the shifted divisor
  ResReg_DP_rev,      \* quotient bits found so far
  Cnt_DP,
  RemSel_SP, CompInv_SP, ResInv_SP

divVars == <<State_SP, AReg_DP, BReg_DP, ResReg_DP_rev, Cnt_DP,
             RemSel_SP, CompInv_SP, ResInv_SP>>

Negative(x) == x >= Size \div 2
Negate(x) == (-x) % Size

\* op has a kind, div, divu, rem or remu, the dividend a and the divisor b.
DivSigned(op) == op.kind \in {"div", "rem"}
IsRem(op) == op.kind \in {"rem", "remu"}
OpBSign(op) == DivSigned(op) /\ Negative(op.b)
OpBIsZero(op) == op.b = 0
SignsDiffer(op) == DivSigned(op) /\ Negative(op.a) # OpBSign(op)

-----------------------------------------------------------------------------
(* riscv_alu: shift the divisor up to the top bit, or to the one below it  *)
(* if it is negative.                                                      *)

LeadingZeros(x) == CHOOSE n \in 0 .. WIDTH - 1 : 2 ^ (WIDTH - 1 - n) <= x /\ x < 2 ^ (WIDTH - n)
ff_input(op) == IF OpBSign(op) THEN Size - 1 - op.b ELSE op.b
div_shift_int(op) ==
  IF ff_input(op) = 0 THEN WIDTH - 1 ELSE LeadingZeros(ff_input(op)) - 1
div_shift(op) == (div_shift_int(op) + IF OpBSign(op) THEN 0 ELSE 1) % (2 * WIDTH)
shift_left_result(op) == (op.b * 2 ^ (div_shift(op) % WIDTH)) % Size

-----------------------------------------------------------------------------
ABComp(op) ==
  /\ AReg_DP = BReg_DP \/ (AReg_DP > BReg_DP) # CompInv_SP
  /\ AReg_DP # 0 \/ OpBIsZero(op)

CntZero == Cnt_DP = 0

\* A slip: a quotient by zero is negated like any other.
ResInvByZero(op) == SignsDiffer(op)
ResInv(op) == (~OpBIsZero(op) \/ IsRem(op)) /\ SignsDiffer(op)

Res_DO ==
  LET out == IF RemSel_SP THEN AReg_DP ELSE ResReg_DP_rev
  IN IF ResInv_SP THEN Negate(out) ELSE out

div_ready(valid) == IF State_SP = "IDLE" THEN ~valid ELSE State_SP = "FINISH"

Load(op) ==
  /\ State_SP = "IDLE" /\ State_SP' = "DIVIDE"
  /\ AReg_DP' = IF SignsDiffer(op) THEN Negate(op.a) ELSE op.a
  /\ BReg_DP' = shift_left_result(op)
  /\ ResReg_DP_rev' = 0
  /\ Cnt_DP' = div_shift(op)
  /\ RemSel_SP' = IsRem(op) /\ CompInv_SP' = OpBSign(op) /\ ResInv_SP' = ResInv(op)

\* A slip: the counter goes on after the last bit.
CntDownOn == Cnt_DP' = Cnt_DP - 1
CntDown == Cnt_DP' = IF CntZero THEN Cnt_DP ELSE Cnt_DP - 1

\* A slip: the last cycle is recognised one count early, and missed from zero.
LastEarly == Cnt_DP = 1
Last == CntZero

Divide(op) ==
  /\ State_SP = "DIVIDE" /\ State_SP' = IF Last THEN "FINISH" ELSE "DIVIDE"
  /\ AReg_DP' = IF ABComp(op) THEN (AReg_DP - BReg_DP) % Size ELSE AReg_DP
  /\ BReg_DP' = BReg_DP \div 2 + (IF CompInv_SP THEN Size \div 2 ELSE 0)
  /\ ResReg_DP_rev' = (2 * ResReg_DP_rev + (IF ABComp(op) THEN 1 ELSE 0)) % Size
  /\ CntDown
  /\ UNCHANGED <<RemSel_SP, CompInv_SP, ResInv_SP>>

DivFinish(ex_ready) ==
  /\ State_SP = "FINISH" /\ State_SP' = IF ex_ready THEN "IDLE" ELSE "FINISH"
  /\ UNCHANGED <<AReg_DP, BReg_DP, ResReg_DP_rev, Cnt_DP, RemSel_SP, CompInv_SP, ResInv_SP>>

DivIdle == State_SP = "IDLE" /\ UNCHANGED divVars

DivInit ==
  /\ State_SP = "IDLE" /\ AReg_DP = 0 /\ BReg_DP = 0 /\ ResReg_DP_rev = 0 /\ Cnt_DP = 0
  /\ RemSel_SP = FALSE /\ CompInv_SP = FALSE /\ ResInv_SP = FALSE

DivStep(op, valid, ex_ready) ==
  \/ valid /\ Load(op)
  \/ ~valid /\ DivIdle
  \/ Divide(op)
  \/ DivFinish(ex_ready)

-----------------------------------------------------------------------------
(* The definition of the instructions: division rounds towards zero, the   *)
(* remainder has the sign of the dividend; by zero they give all ones and  *)
(* the dividend.                                                           *)
Number(x, signed) == IF signed /\ Negative(x) THEN x - Size ELSE x
Magnitude(n) == IF n < 0 THEN -n ELSE n
DivResult(op) ==
  LET a == Number(op.a, DivSigned(op))
      b == Number(op.b, DivSigned(op))
      quotient == IF b = 0 THEN -1
                  ELSE LET q == Magnitude(a) \div Magnitude(b)
                       IN IF (a < 0) # (b < 0) THEN -q ELSE q
  IN IF ~IsRem(op) THEN quotient % Size
     ELSE IF b = 0 THEN op.a ELSE (a - quotient * b) % Size

DivTypeOK ==
  /\ State_SP \in {"IDLE", "DIVIDE", "FINISH"}
  /\ AReg_DP \in DivWord /\ BReg_DP \in DivWord /\ ResReg_DP_rev \in DivWord
  /\ Cnt_DP \in Counts
  /\ RemSel_SP \in BOOLEAN /\ CompInv_SP \in BOOLEAN /\ ResInv_SP \in BOOLEAN
=============================================================================
