----------------------------- MODULE MultiCycle -----------------------------
(***************************************************************************)
(* The instructions that stay in the EX stage for several cycles, high     *)
(* products and divisions, with the ID/EX registers that feed them         *)
(* (rtl/riscv_id_stage.sv) and the ready signals of riscv_ex_stage.sv.     *)
(* With a floating-point unit (FPU), a late result of that unit may take   *)
(* the write port of the ALU in any cycle.                                 *)
(***************************************************************************)
EXTENDS HighMultiplier, SerialDivider

CONSTANTS
  FPU,          \* whether the core has a floating-point unit
  ApuResults,   \* results of that unit
  Operations,   \* instructions that may come first
  Followers,    \* instructions that may follow them
  MaxOps        \* bound on the number of instructions

ASSUME WidthsAgree == FULL = Size

Kinds == {"mulh", "mulhsu", "mulhu", "div", "divu", "rem", "remu"}
Operation == [kind : Kinds, a : MulWord, b : MulWord]
NoOp == [kind |-> "none"]

ASSUME OperationsAssumption ==
  /\ Operations \subseteq Operation /\ Followers \subseteq Operations
  /\ ApuResults \subseteq MulWord /\ FPU \in BOOLEAN /\ MaxOps \in Nat \ {0}

VARIABLES
  ex,       \* ID/EX: the instruction in EX
  issued    \* number of instructions so far, up to MaxOps

multiVars == <<mulhVars, divVars, ex, issued>>

\* id is what ID offers, wb_ready is low while a load waits in WB, and apu holds
\* the result of the floating-point unit, if it has one in this cycle.
Offered ==
  {NoOp} \cup (IF issued = 0 THEN Operations ELSE IF issued < MaxOps THEN Followers ELSE {})
Inputs ==
  [id : Offered, wb_ready : BOOLEAN,
   apu : {{}} \cup (IF FPU THEN {{r} : r \in ApuResults} ELSE {})]

IsMulh == ex.kind \in {"mulh", "mulhsu", "mulhu"}
IsDiv == ex.kind \in {"div", "divu", "rem", "remu"}

\* The result of the floating-point unit takes the port of the ALU.
wb_contention(in) == in.apu # {} /\ (IsMulh \/ IsDiv)
units_ready == mult_ready(IsMulh) /\ div_ready(IsDiv)
ex_ready(in) == units_ready /\ in.wb_ready /\ ~wb_contention(in)

alu_wdata == IF IsMulh THEN short_result(ex) ELSE Res_DO
regfile_alu_wdata_fw(in) == IF in.apu # {} THEN CHOOSE r \in in.apu : TRUE ELSE alu_wdata

\* What goes back to operand c is what is forwarded from EX.
OperandC(in) ==
  mult_operand_c' = IF multicycle_o THEN regfile_alu_wdata_fw(in)
                    ELSE IF ex_ready(in) /\ in.id.kind \in {"mulh", "mulhsu", "mulhu"} THEN 0
                    ELSE mult_operand_c

Accept(in) ==
  IF ex_ready(in)
  THEN ex' = in.id /\ issued' = issued + (IF in.id = NoOp THEN 0 ELSE 1)
  ELSE UNCHANGED <<ex, issued>>

Init == MulInit /\ DivInit /\ ex = NoOp /\ issued = 0

Clock(in) ==
  /\ MulStep(ex, IsMulh, ex_ready(in))
  /\ DivStep(ex, IsDiv, ex_ready(in))
  /\ OperandC(in)
  /\ Accept(in)

Next == \E in \in Inputs : Clock(in)

Spec == Init /\ [][Next]_multiVars
LiveSpec == Spec /\ WF_multiVars(Next)

-----------------------------------------------------------------------------
(* Type invariant. *)
TypeOK ==
  /\ MulTypeOK /\ DivTypeOK
  /\ ex \in Operation \cup {NoOp} /\ issued \in 0 .. MaxOps

\* A high product that leaves EX is the upper word of the whole product, also
\* after it was held there and after any other instruction (the assertions at
\* the end of riscv_mult.sv: "check multiplication result for mulh").
ProductExact == IsMulh /\ units_ready => alu_wdata = HighProduct(ex)

\* A quotient or remainder that leaves EX is the one the instruction set
\* defines, by zero and for the most negative number too, also after it was
\* held there and after any other instruction.
QuotientExact == IsDiv /\ units_ready => alu_wdata = DivResult(ex)

\* A unit that works on an instruction ends, whether or not it can leave EX.
UnitsEnd == ~units_ready ~> units_ready
=============================================================================
