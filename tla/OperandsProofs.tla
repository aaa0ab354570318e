--------------------------- MODULE OperandsProofs ---------------------------
(***************************************************************************)
(* Operands are exact for every set of registers and instructions, every   *)
(* stream of them and every timing of units and memories; and the pipeline *)
(* executes the tests as module TestMachine does.                          *)
(*                                                                         *)
(* The invariant says where the newest value of a register is: in EX, else *)
(* in WB, else in the register file.  For that, no load in WB may have the *)
(* destination of the result in EX (both ports would write), and waddr_ex, *)
(* by which loads are stalled for, must name the younger load.             *)
(***************************************************************************)
EXTENDS TestRun, TLAPS

\* Where a register's newest value is.
Newest(r) ==
  IF r \in ex.load THEN ex.loaded
  ELSE IF r \in ex.alu THEN ex.value
  ELSE IF r \in wb.load THEN wb.loaded
  ELSE regs[r]

ZeroKept == arch[Zero] = regs[Zero]
NewestKept == \A r \in Register \ {Zero} : arch[r] = Newest(r)
WellDecoded == {i \in Instruction : i.load # {} => i.kind = "load"}
Fetched == instr \in WellDecoded \cup {NoInstr}
LoadsTracked ==
  /\ ex.load # {} => ex.kind = "load" /\ ex.load = {waddr_ex}
  /\ wb.load # {} => wb.busy /\ (ex.load = {} => wb.load = {waddr_ex})
  /\ wb.load \cap ex.alu = {}

Inv == OperandTypeOK /\ Fetched /\ ZeroKept /\ NewestKept /\ LoadsTracked

Step(in, out, next) ==
  /\ in \in Signals /\ out \in [value : Value, loaded : Value, taken : BOOLEAN]
  /\ next \in WellDecoded \cup {NoInstr}
  /\ OperandStep(in, out, next)

-----------------------------------------------------------------------------
(* What the control signals of a cycle mean, given the invariant. *)

\* The ports show data when their stage is done: the controls of riscv_ex_stage.sv.
LEMMA PortsExact ==
  ASSUME Inv, NEW in \in Signals
  PROVE  /\ ~in.hold => regfile_alu_wdata_fw(in) = ex.value
         /\ wb_ready(in) /\ wb.load # {} => regfile_wdata_wb(in) = wb.loaded
         /\ ex.kind # "multi" => ~in.hold
BY DEF Inv, LoadsTracked, Signals, regfile_alu_wdata_fw, regfile_wdata_wb, wb_ready

\* An instruction leaves ID only past a load that does not write what it reads or
\* writes (riscv_controller.sv, load_stall_o).
LEMMA LeavesPastLoads ==
  ASSUME Inv, NEW in \in Signals, Leaves(in)
  PROVE  /\ ~in.hold /\ ex_ready(in) /\ is_decoding
         /\ ex.load \cap (Used \cup instr.alu) = {}
         /\ wb.load \cap (Used \cup instr.alu) # {} => wb_ready(in)
         /\ ~wb_ready(in) => ex.load = {}
<1>1. ex_ready(in) /\ ~load_stall(in) /\ is_decoding
  BY DEF Leaves, id_ready
<1>2. ~in.hold
  BY <1>1 DEF ex_ready, ex_valid, Signals
<1>3. ex.load \cap (Used \cup instr.alu) = {}
  BY <1>1 DEF load_stall, Inv, LoadsTracked
<1>4. ~wb_ready(in) => ex.kind = "branch" /\ ex.load = {}
  BY <1>1 DEF ex_ready, ex_valid, Inv, LoadsTracked
<1>5. wb.load \cap (Used \cup instr.alu) # {} => wb_ready(in)
  BY <1>1, <1>4 DEF load_stall, Inv, LoadsTracked
<1>6. QED BY <1>1, <1>2, <1>3, <1>4, <1>5

-----------------------------------------------------------------------------
(* The initial states, and one step. *)

LEMMA InitInv == OperandInit => Inv
<1>1. ASSUME OperandInit PROVE Inv
  <2>1. OperandTypeOK
    BY <1>1, RegisterAssumption
       DEF OperandInit, OperandTypeOK, Bubble, NoInstr, Dest
  <2>2. Fetched /\ ZeroKept /\ NewestKept /\ LoadsTracked
    BY <1>1 DEF OperandInit, Fetched, ZeroKept, NewestKept, Newest, LoadsTracked, Bubble
  <2>3. QED BY <2>1, <2>2 DEF Inv
<1>2. QED BY <1>1

LEMMA TypeStep ==
  ASSUME Inv, NEW in, NEW out, NEW next, Step(in, out, next)
  PROVE  OperandTypeOK'
<1> USE DEF Inv, OperandTypeOK, Step, OperandStep
<1>1. in.junk \in Value /\ out.value \in Value /\ out.loaded \in Value /\ out.taken \in BOOLEAN
  BY ResultsAssumption DEF Signals
<1>2. instr_valid_id' \in BOOLEAN /\ instr' \in Instruction \cup {NoInstr}
  BY DEF IdStep, WellDecoded
<1>3. instr.kind \in Kinds \cup {"none"} /\ instr.alu \in Dest /\ instr.load \in Dest
  BY DEF Instruction, NoInstr, Dest
<1>4. ex' \in [kind : Kinds \cup {"none"}, alu : Dest, load : Dest, value : Value,
               loaded : Value, taken : BOOLEAN]
  BY <1>1, <1>3, RegisterAssumption DEF ExStep, Stalled, Bubble, Dest
<1>5. waddr_ex' \in Register
  <2>1. CASE Leaves(in) /\ instr.load # {}
    <3>1. PICK r \in Register : instr.load = {r}
      BY <2>1, <1>3 DEF Dest
    <3>2. QED BY <2>1, <3>1 DEF ExStep
  <2>2. CASE ~(Leaves(in) /\ instr.load # {})
    BY <2>2 DEF ExStep
  <2>3. QED BY <2>1, <2>2
<1>6. wb' \in [busy : BOOLEAN, load : Dest, loaded : Value]
  BY RegisterAssumption DEF WbStep, Dest, Signals
<1>7. regs' \in [Register -> Value]
  BY <1>1 DEF WriteBack, regfile_alu_wdata_fw, regfile_wdata_wb
<1>8. arch' \in [Register -> Value]
  BY <1>1 DEF Retire
<1>9. QED BY <1>2, <1>4, <1>5, <1>6, <1>7, <1>8

\* What enters EX, and what happens to waddr_ex.
LEMMA EntersEx ==
  ASSUME Inv, NEW in, NEW out, NEW next, Step(in, out, next), Leaves(in)
  PROVE  /\ ex'.kind = instr.kind /\ ex'.alu = instr.alu /\ ex'.load = instr.load
         /\ ex'.value = out.value /\ ex'.loaded = out.loaded
         /\ instr.load = {} => waddr_ex' = waddr_ex
         /\ instr.load # {} => instr.kind = "load" /\ instr.load = {waddr_ex'}
<1> USE DEF Step, OperandStep, ExStep
<1>1. instr.load # {} => instr.kind = "load" /\ instr.load = {waddr_ex'}
  <2>1. ASSUME instr.load # {} PROVE instr.kind = "load" /\ instr.load = {waddr_ex'}
    <3>1. PICK r \in Register : instr.load = {r}
      BY <2>1 DEF Inv, OperandTypeOK, Instruction, NoInstr, Dest
    <3>2. waddr_ex' = r
      BY <2>1, <3>1
    <3>3. instr.kind = "load"
      BY <2>1 DEF Inv, Fetched, WellDecoded, NoInstr
    <3>4. QED BY <3>1, <3>2, <3>3
  <2>2. QED BY <2>1
<1>2. QED BY <1>1

\* No two ports write a register, and stalls know the younger load.
LEMMA LoadsStep ==
  ASSUME Inv, NEW in, NEW out, NEW next, Step(in, out, next)
  PROVE  LoadsTracked' /\ Fetched'
<1> USE DEF Step
<1>0. Fetched'
  BY DEF Inv, Fetched, OperandStep, IdStep
<1>1. CASE ex_valid(in)
  <2>1. wb'.load = ex.load /\ (ex.load # {} => wb'.busy)
    BY <1>1 DEF OperandStep, WbStep, ex_valid, lsu_ready_ex, data_req_o, data_req_ex, Inv, LoadsTracked
  <2>2. CASE Leaves(in)
    <3>1. ex.load \cap instr.alu = {}
      BY <2>2, LeavesPastLoads
    <3>2. QED BY <1>0, <2>1, <2>2, <3>1, EntersEx DEF Inv, LoadsTracked
  <2>3. CASE ~Leaves(in)
    <3>1. ex'.load = {} /\ ex'.alu = {} /\ waddr_ex' = waddr_ex
      BY <1>1, <2>3 DEF OperandStep, ExStep, ex_ready, Bubble
    <3>2. QED BY <1>0, <2>1, <3>1 DEF Inv, LoadsTracked
  <2>4. QED BY <2>2, <2>3
<1>2. CASE ~ex_valid(in)
  <2>1. wb'.load = IF wb_ready(in) THEN {} ELSE wb.load
    BY <1>2 DEF OperandStep, WbStep
  <2>2. ~wb_ready(in) => wb'.busy
    BY <1>2 DEF OperandStep, WbStep, wb_ready
  <2>3. CASE Leaves(in)
    <3>1. ex.load = {}
      BY <1>2, <2>3, LeavesPastLoads DEF ex_ready, Inv, LoadsTracked
    <3>2. wb'.load # {} => wb'.load = {waddr_ex} /\ wb'.busy /\ wb.load \cap instr.alu = {}
      BY <2>1, <2>2, <2>3, <3>1, LeavesPastLoads DEF Inv, LoadsTracked
    <3>3. QED BY <1>0, <2>1, <2>3, <3>2, EntersEx DEF LoadsTracked
  <2>4. CASE ~Leaves(in)
    <3>1. /\ waddr_ex' = waddr_ex
          /\ \/ ex'.load = {} /\ ex'.alu = {} /\ ex.load = {}
             \/ ex'.kind = ex.kind /\ ex'.load = ex.load /\ ex'.alu \subseteq ex.alu
      BY <1>2, <2>4
         DEF OperandStep, ExStep, ex_ready, Bubble, Stalled, Inv, OperandTypeOK, LoadsTracked
    <3>2. QED BY <1>0, <2>1, <2>2, <3>1 DEF Inv, LoadsTracked
  <2>5. QED BY <2>3, <2>4
<1>3. QED BY <1>1, <1>2

\* What the clock edge makes of the newest value of a register, if nothing enters EX.
LEMMA NewestMoves ==
  ASSUME Inv, NEW in, NEW out, NEW next, Step(in, out, next), NEW r \in Register \ {Zero}
  PROVE  /\ ex_ready(in) => Newest(r) = IF r \in wb'.load THEN wb'.loaded ELSE regs'[r]
         /\ ~ex_ready(in) => Newest(r)' = Newest(r)
<1> USE DEF Step
<1>1. regs'[r] = IF r \in ex.alu THEN regfile_alu_wdata_fw(in)
                 ELSE IF r \in wb.load THEN regfile_wdata_wb(in) ELSE regs[r]
  BY DEF OperandStep, WriteBack
<1>2. /\ ~in.hold => regfile_alu_wdata_fw(in) = ex.value
      /\ wb_ready(in) /\ wb.load # {} => regfile_wdata_wb(in) = wb.loaded
      /\ ex.kind # "multi" => ~in.hold
  BY PortsExact
<1>3. r \in wb.load => r \notin ex.alu
  BY DEF Inv, LoadsTracked
<1>4. CASE ex_valid(in)
  <2>1. wb'.load = ex.load /\ wb'.loaded = ex.loaded
    BY <1>4 DEF OperandStep, WbStep
  <2>2. ~in.hold /\ wb_ready(in) /\ ex_ready(in)
    BY <1>4 DEF ex_valid, ex_ready
  <2>3. QED BY <1>1, <1>2, <2>1, <2>2 DEF Newest
<1>5. CASE ~ex_valid(in) /\ ex_ready(in)
  <2>1. ~in.hold /\ ex.load = {} /\ ~wb_ready(in)
    BY <1>5, <1>2 DEF ex_ready, ex_valid, lsu_ready_ex, data_req_o, data_req_ex, Inv, LoadsTracked
  <2>2. wb'.load = wb.load /\ wb'.loaded = wb.loaded
    BY <1>5, <2>1 DEF OperandStep, WbStep
  <2>3. QED BY <1>1, <1>2, <1>3, <1>5, <2>1, <2>2 DEF Newest
<1>6. CASE ~ex_ready(in)
  <2>1. ~ex_valid(in) /\ ~Leaves(in)
    BY <1>6 DEF ex_ready, Leaves, id_ready
  <2>2. ex' = Stalled(in)
    BY <1>6, <2>1 DEF OperandStep, ExStep
  <2>3. /\ wb'.load = IF wb_ready(in) THEN {} ELSE wb.load
        /\ ~wb_ready(in) => wb'.loaded = wb.loaded
    BY <2>1 DEF OperandStep, WbStep
  <2>4. CASE ex.kind = "csr"
    <3>1. ex'.load = {} /\ ex.load = {} /\ ex'.alu = {}
      BY <2>2, <2>4 DEF Stalled, Inv, OperandTypeOK, LoadsTracked
    <3>2. ~in.hold
      BY <1>2, <2>4
    <3>3. QED BY <1>1, <1>2, <1>3, <1>6, <2>3, <3>1, <3>2 DEF Newest
  <2>5. CASE ex.kind # "csr"
    <3>1. ex' = ex
      BY <2>2, <2>5 DEF Stalled
    <3>2. QED BY <1>1, <1>2, <1>3, <1>6, <2>3, <3>1 DEF Newest
  <2>6. QED BY <2>4, <2>5
<1>7. QED BY <1>4, <1>5, <1>6

\* The history and the newest values stay equal.
LEMMA NewestStep ==
  ASSUME Inv, NEW in, NEW out, NEW next, Step(in, out, next)
  PROVE  ZeroKept' /\ NewestKept'
<1> USE DEF Step
<1>1. ZeroKept'
  BY RegisterAssumption DEF Inv, ZeroKept, OperandStep, WriteBack, Retire
<1>2. ASSUME NEW r \in Register \ {Zero} PROVE arch'[r] = Newest(r)'
  <2>1. arch[r] = Newest(r)
    BY DEF Inv, NewestKept
  <2>2. CASE Leaves(in)
    <3>1. arch'[r] = IF r \in instr.load THEN out.loaded
                     ELSE IF r \in instr.alu THEN out.value ELSE arch[r]
      BY <2>2 DEF OperandStep, Retire
    <3>2. Newest(r) = IF r \in wb'.load THEN wb'.loaded ELSE regs'[r]
      BY <2>2, NewestMoves, LeavesPastLoads
    <3>3. QED BY <2>1, <2>2, <3>1, <3>2, EntersEx DEF Newest
  <2>3. CASE ~Leaves(in) /\ ex_ready(in)
    <3>1. arch'[r] = arch[r]
      BY <2>3 DEF OperandStep, Retire
    <3>2. ex'.load = {} /\ ex'.alu = {}
      BY <2>3 DEF OperandStep, ExStep, Bubble
    <3>3. QED BY <2>1, <2>3, <3>1, <3>2, NewestMoves DEF Newest
  <2>4. CASE ~ex_ready(in)
    <3>1. arch'[r] = arch[r]
      BY <2>4 DEF OperandStep, Retire, Leaves, id_ready
    <3>2. QED BY <2>1, <2>4, <3>1, NewestMoves
  <2>5. QED BY <2>2, <2>3, <2>4
<1>3. QED BY <1>1, <1>2 DEF NewestKept

-----------------------------------------------------------------------------
(* The operands of the instruction in ID. *)

LEMMA InvImpliesExact == Inv => OperandsExact
<1> SUFFICES ASSUME Inv PROVE OperandsExact
  OBVIOUS
<1>1. ASSUME NEW in \in Signals, Leaves(in), NEW r \in instr.srcs
      PROVE  Operand(in, r) = arch[r]
  <2>1. r \in Register
    BY DEF Inv, OperandTypeOK, Instruction, NoInstr
  <2>2. CASE r = Zero
    BY <2>2 DEF Operand, Inv, ZeroKept
  <2>3. CASE r # Zero
    <3>1. r \in Used /\ arch[r] = Newest(r)
      BY <2>1, <2>3 DEF Used, Inv, NewestKept
    <3>2. /\ ~in.hold /\ r \notin ex.load
          /\ r \in wb.load => wb_ready(in)
      BY <1>1, <3>1, LeavesPastLoads
    <3>3. /\ regfile_alu_wdata_fw(in) = ex.value
          /\ r \in wb.load => regfile_wdata_wb(in) = wb.loaded
      BY <3>2, PortsExact
    <3>4. QED BY <2>3, <3>1, <3>2, <3>3 DEF Operand, Newest
  <2>4. QED BY <2>2, <2>3
<1>2. ASSUME instr.kind = "jalr", ~jr_stall, NEW r \in instr.srcs
      PROVE  regs[r] = arch[r]
  <2>1. r \in Register
    BY DEF Inv, OperandTypeOK, Instruction, NoInstr
  <2>2. CASE r = Zero
    BY <2>2 DEF Inv, ZeroKept
  <2>3. CASE r # Zero
    <3>1. r \in Used /\ arch[r] = Newest(r)
      BY <2>1, <2>3 DEF Used, Inv, NewestKept
    <3>2. r \notin ex.load /\ r \notin wb.load /\ r \notin ex.alu
      BY <1>2, <3>1 DEF jr_stall, Inv, LoadsTracked
    <3>3. QED BY <3>1, <3>2 DEF Newest
  <2>4. QED BY <2>2, <2>3
<1>3. QED BY <1>1, <1>2 DEF OperandsExact

LEMMA StepInv == Inv /\ [OperandNext]_operandVars => Inv'
<1> SUFFICES ASSUME Inv, [OperandNext]_operandVars PROVE Inv'
  OBVIOUS
<1>1. CASE OperandNext
  <2>1. PICK in \in Signals : \E out \in Outcomes(in), next \in Instrs \cup {NoInstr} :
          OperandStep(in, out, next)
    BY <1>1 DEF OperandNext
  <2>2. PICK out \in Outcomes(in), next \in Instrs \cup {NoInstr} : OperandStep(in, out, next)
    BY <2>1
  <2>3. Step(in, out, next)
    <3>1. out \in [value : Value, loaded : Value, taken : BOOLEAN]
      BY RegisterAssumption, ResultsAssumption DEF Outcomes
    <3>2. next \in WellDecoded \cup {NoInstr}
      BY InstrsAssumption DEF WellDecoded
    <3>3. QED BY <2>2, <3>1, <3>2 DEF Step
  <2>4. QED BY <2>3, TypeStep, LoadsStep, NewestStep DEF Inv
<1>2. CASE UNCHANGED operandVars
  BY <1>2 DEF operandVars, Inv, OperandTypeOK, Fetched, ZeroKept, NewestKept, Newest,
              LoadsTracked
<1>3. QED BY <1>1, <1>2

\* Values stay values and destinations registers: no port writes anything else.
THEOREM TypeCorrect == OperandSpec => []OperandTypeOK
<1>1. Inv => OperandTypeOK
  BY DEF Inv
<1>2. QED BY <1>1, InitInv, StepInv, PTL DEF OperandSpec

\* Every instruction leaves ID with the operands that the instructions before it
\* have left, and every jump reads an up-to-date register (OperandsExact).
THEOREM OperandsForwarded == OperandSpec => []OperandsExact
BY InitInv, StepInv, InvImpliesExact, PTL DEF OperandSpec

-----------------------------------------------------------------------------
(* A self-checking test: what its instructions decode to, and what they    *)
(* compute from operands that agree.                                       *)

LEMMA DecodedFields ==
  ASSUME NEW i \in TestInstruction
  PROVE  /\ Decoded(i) \in WellDecoded
         /\ Decoded(i).kind = "branch" <=> i.op \in {"beq", "bne"}
         /\ Decoded(i).kind = "jalr" <=> i.op = "jalr"
         /\ Decoded(i).kind # "jal"
         /\ Decoded(i).alu = IF Computes(i) THEN {i.rd} ELSE {}
         /\ Decoded(i).load = IF i.op = "load" THEN {i.rd} ELSE {}
<1>1. /\ i.rs1 \in Register /\ i.rs2 \in Register /\ i.rd \in Register
      /\ i.op \in {"addi", "andi", "lui", "auipc", "add", "div", "load", "store", "beq", "bne",
                   "jalr", "ecall", "ret"}
  BY WordsAssumption DEF TestInstruction
<1>2. CASE i.op \in {"addi", "andi", "lui", "auipc", "add", "div"}
  BY <1>1, <1>2 DEF Decoded, WellDecoded, Instruction, Kinds, Dest, Computes
<1>3. CASE i.op \in {"load", "store"}
  BY <1>1, <1>3 DEF Decoded, WellDecoded, Instruction, Kinds, Dest, Computes
<1>4. CASE i.op \in {"beq", "bne", "jalr"}
  BY <1>1, <1>4 DEF Decoded, WellDecoded, Instruction, Kinds, Dest, Computes
<1>5. CASE i.op \in {"ecall", "ret"}
  BY <1>1, <1>5 DEF Decoded, WellDecoded, Instruction, Kinds, Dest, Computes
<1>6. QED BY <1>1, <1>2, <1>3, <1>4, <1>5

\* An instruction looks at the registers the decoder names, and at no other.
LEMMA OnlySources ==
  ASSUME NEW i \in TestInstruction, NEW at, NEW x1, NEW y1, NEW x2, NEW y2,
         i.rs1 \in Decoded(i).srcs => x1 = x2,
         i.rs2 \in Decoded(i).srcs => y1 = y2
  PROVE  /\ Computes(i) => Result(i, at, x1, y1) = Result(i, at, x2, y2)
         /\ Taken(i, x1, y1) <=> Taken(i, x2, y2)
         /\ i.op \in {"load", "store", "jalr"} => x1 = x2
         /\ i.op = "store" => y1 = y2
<1>1. i.op \in {"addi", "andi", "add", "div", "load", "store", "beq", "bne", "jalr"} => x1 = x2
  BY DEF Decoded
<1>2. i.op \in {"add", "div", "store", "beq", "bne"} => y1 = y2
  BY DEF Decoded
<1>3. ASSUME Computes(i) PROVE Result(i, at, x1, y1) = Result(i, at, x2, y2)
  <2>1. CASE i.op \in {"addi", "andi", "jalr"}
    BY <1>1, <2>1 DEF Result
  <2>2. CASE i.op \in {"add", "div"}
    <3>1. x1 = x2 /\ y1 = y2
      BY <1>1, <1>2, <2>2
    <3>2. QED BY <3>1
  <2>3. CASE i.op \in {"lui", "auipc"}
    BY <2>3 DEF Result
  <2>4. QED BY <1>3, <2>1, <2>2, <2>3 DEF Computes, TestInstruction
<1>4. Taken(i, x1, y1) <=> Taken(i, x2, y2)
  BY <1>1, <1>2 DEF Taken
<1>5. QED BY <1>1, <1>2, <1>3, <1>4

LEMMA ResultIsWord ==
  ASSUME NEW i \in TestInstruction, NEW at \in Int, NEW x \in Int, NEW y \in Int, Computes(i)
  PROVE  Result(i, at, x, y) \in Int
<1>1. i.imm \in Int /\ (i.op = "andi" => i.imm > 0)
  BY DEF TestInstruction
<1>2. CASE i.op \in {"addi", "lui", "auipc", "add", "jalr"}
  BY <1>1, <1>2 DEF Result
<1>3. CASE i.op = "andi"
  <2>1. x \div i.imm \in Int
    BY <1>1, <1>3
  <2>2. (x \div i.imm) % 2 \in Int
    BY <2>1
  <2>3. QED BY <1>1, <1>3, <2>2 DEF Result
<1>4. CASE i.op = "div"
  <2>1. Divided(x, y) \in Int
    <3>1. ASSUME NEW u \in Nat, NEW v \in Nat, v > 0 PROVE u \div v \in Int
      BY <3>1
    <3>2. QED BY <3>1 DEF Divided
  <2>2. QED BY <1>4, <2>1 DEF Result
<1>5. QED BY <1>2, <1>3, <1>4 DEF Computes, TestInstruction

-----------------------------------------------------------------------------
(* The invariant of a test: what is in ID is the instruction at pc_id, and *)
(* IF is one ahead of it.                                                  *)

Stored == mem \in [DOMAIN DataWords -> Int]
Addresses == pc_if \in Int /\ pc_id \in Int /\ target_ex \in Int
FetchedInOrder ==
  test # NoTest /\ instr_valid_id =>
    In(test.code, 0, pc_id) /\ instr = Decoded(i_id) /\ pc_if = pc_id + 4

RunInv == Inv /\ test \in Tests \cup {NoTest} /\ Stored /\ Addresses /\ FetchedInOrder

LEMMA TestCode ==
  ASSUME test \in Tests \cup {NoTest}, NEW at \in Int, In(test.code, 0, at)
  PROVE  Code(at) \in TestInstruction
<1>1. at >= 0 /\ at < 4 * Len(test.code) /\ at % 4 = 0
  BY DEF In
<1>2. test.code \in Seq(TestInstruction)
  <2>1. CASE test \in Tests
    BY <2>1, TestsAssumption
  <2>2. CASE test = NoTest
    <3>1. test.code = <<>>
      BY <2>2 DEF NoTest
    <3>2. QED BY <3>1
  <2>3. QED BY <2>1, <2>2
<1>3. (at \div 4) + 1 \in 1 .. Len(test.code)
  BY <1>1, <1>2
<1>4. Code(at) = test.code[(at \div 4) + 1]
  BY DEF Code, At
<1>5. QED BY <1>2, <1>3, <1>4

\* What leaves ID is an instruction of the test, with the operands it should have.
LEMMA LeavingInstruction ==
  ASSUME RunInv, test # NoTest, NEW in \in Signals, Leaves(in)
  PROVE  /\ i_id \in TestInstruction /\ instr = Decoded(i_id)
         /\ In(test.code, 0, pc_id) /\ pc_if = pc_id + 4
         /\ i_id.rs1 \in instr.srcs => a(in) = arch[i_id.rs1]
         /\ i_id.rs2 \in instr.srcs => b(in) = arch[i_id.rs2]
         /\ instr.kind = "jalr" => regs[i_id.rs1] = arch[i_id.rs1]
<1>1. instr_valid_id /\ is_decoding /\ ~jr_stall
  BY DEF Leaves, is_decoding, id_ready
<1>2. In(test.code, 0, pc_id) /\ instr = Decoded(i_id) /\ pc_if = pc_id + 4
  BY <1>1 DEF RunInv, FetchedInOrder
<1>3. i_id \in TestInstruction
  BY <1>2, TestCode DEF RunInv, Addresses, i_id
<1>4. OperandsExact
  BY InvImpliesExact DEF RunInv
<1>5. \A r \in instr.srcs : Operand(in, r) = arch[r]
  BY <1>4 DEF OperandsExact
<1>6. i_id.rs1 \in instr.srcs => a(in) = arch[i_id.rs1]
  BY <1>5 DEF a
<1>7. i_id.rs2 \in instr.srcs => b(in) = arch[i_id.rs2]
  BY <1>5 DEF b
<1>8. ASSUME instr.kind = "jalr" PROVE regs[i_id.rs1] = arch[i_id.rs1]
  <2>1. \A r \in instr.srcs : regs[r] = arch[r]
    BY <1>1, <1>4, <1>8 DEF OperandsExact
  <2>2. i_id.op = "jalr"
    BY <1>2, <1>3, <1>8, DecodedFields
  <2>3. i_id.rs1 \in instr.srcs
    BY <1>2, <2>2 DEF Decoded
  <2>4. QED BY <2>1, <2>3
<1>9. QED BY <1>2, <1>3, <1>6, <1>7, <1>8

LEMMA OperandIsWord ==
  ASSUME Inv, NEW in \in Signals, NEW r \in Register
  PROVE  Operand(in, r) \in Int /\ regs[r] \in Int
<1>1. in.junk \in Int /\ ex.value \in Int /\ wb.loaded \in Int /\ regs[r] \in Int
  BY ResultsAssumption, WordsAssumption DEF Inv, OperandTypeOK, Signals
<1>2. QED BY <1>1 DEF Operand, regfile_alu_wdata_fw, regfile_wdata_wb

\* The outcome of an instruction of a test, and what IF offers, are such that
\* the invariant of the operands is kept.
LEMMA StepOfTest ==
  ASSUME RunInv, NEW in \in Signals, NEW next \in Offers, TestStep(in, next)
  PROVE  Step(in, Executed(in), next)
<1>1. test # NoTest
  BY DEF TestStep
<1>2. Executed(in) \in [value : Value, loaded : Value, taken : BOOLEAN]
  <2>1. CASE ~Leaves(in)
    BY <2>1, WordsAssumption DEF Executed
  <2>2. CASE Leaves(in)
    <3>1. i_id \in TestInstruction
      BY <1>1, <2>2, LeavingInstruction
    <3>2. a(in) \in Int /\ b(in) \in Int
      BY <3>1, OperandIsWord, WordsAssumption DEF a, b, RunInv, TestInstruction
    <3>3. Computes(i_id) => Result(i_id, pc_id, a(in), b(in)) \in Int
      BY <3>1, <3>2, ResultIsWord DEF RunInv, Addresses
    <3>4. address(in) \in DOMAIN mem => mem[address(in)] \in Int
      BY DEF RunInv, Stored
    <3>5. Taken(i_id, a(in), b(in)) \in BOOLEAN
      BY DEF Taken
    <3>6. QED BY <2>2, <3>3, <3>4, <3>5, WordsAssumption DEF Executed
  <2>3. QED BY <2>1, <2>2
<1>3. next \in WellDecoded \cup {NoInstr}
  <2>1. ASSUME next # NoInstr PROVE next \in WellDecoded
    <3>1. In(test.code, 0, pc_if) /\ next = Decoded(Code(pc_if))
      BY <2>1 DEF Offers
    <3>2. Code(pc_if) \in TestInstruction
      BY <3>1, TestCode DEF RunInv, Addresses
    <3>3. QED BY <3>1, <3>2, DecodedFields
  <2>2. QED BY <2>1
<1>4. QED BY <1>2, <1>3 DEF Step, TestStep

LEMMA InvStep ==
  ASSUME Inv, NEW in, NEW out, NEW next, Step(in, out, next)
  PROVE  Inv'
BY TypeStep, LoadsStep, NewestStep DEF Inv

LEMMA InitRunInv == RunInit => RunInv
<1> SUFFICES ASSUME RunInit PROVE RunInv
  OBVIOUS
<1>1. Inv
  BY InitInv DEF RunInit
<1>2. ~instr_valid_id
  BY DEF RunInit, OperandInit
<1>3. QED BY <1>1, <1>2, DataWordsAssumption
          DEF RunInit, RunInv, Stored, Addresses, FetchedInOrder

\* An instruction is fetched at pc_if; one that stays in ID keeps IF behind it.
LEMMA FetchStep ==
  ASSUME RunInv, NEW in \in Signals, NEW next \in Offers, TestStep(in, next)
  PROVE  Stored' /\ Addresses' /\ FetchedInOrder'
<1>1. test # NoTest /\ test' = test
  BY DEF TestStep
<1>2. ASSUME Leaves(in) PROVE a(in) \in Int /\ b(in) \in Int /\ i_id.imm \in Int
                              /\ regs[i_id.rs1] \in Int
  <2>1. i_id \in TestInstruction
    BY <1>1, <1>2, LeavingInstruction
  <2>2. QED BY <2>1, OperandIsWord, WordsAssumption DEF a, b, RunInv, TestInstruction
<1>3. Stored'
  BY <1>2 DEF RunInv, Stored, TestStep, MemoryStep, address
<1>4. Addresses'
  BY <1>2 DEF RunInv, Addresses, TestStep, PcStep
<1>5. FetchedInOrder'
  <2>1. CASE if_valid(in, next)
    <3>1. next # NoInstr /\ ~branch_taken_ex /\ ~(Leaves(in) /\ instr.kind = "jalr")
      BY <2>1 DEF if_valid, pc_set
    <3>2. In(test.code, 0, pc_if) /\ next = Decoded(Code(pc_if))
      BY <3>1 DEF Offers
    <3>3. pc_id' = pc_if /\ pc_if' = pc_if + 4 /\ instr' = next
      BY <2>1, <3>1 DEF TestStep, PcStep, OperandStep, IdStep
    <3>4. QED BY <1>1, <3>2, <3>3 DEF FetchedInOrder, i_id, Code
  <2>2. CASE ~if_valid(in, next) /\ instr_valid_id'
    <3>1. instr_valid_id /\ ~id_ready(in) /\ ~branch_taken_ex /\ instr' = instr
      BY <2>2 DEF TestStep, OperandStep, IdStep
    <3>2. pc_id' = pc_id /\ pc_if' = pc_if
      BY <2>2, <3>1 DEF TestStep, PcStep, Leaves
    <3>3. QED BY <1>1, <3>1, <3>2 DEF RunInv, FetchedInOrder, i_id, Code
  <2>3. CASE ~instr_valid_id'
    BY <2>3 DEF FetchedInOrder
  <2>4. QED BY <2>1, <2>2, <2>3
<1>6. QED BY <1>3, <1>4, <1>5

LEMMA StepRunInv == RunInv /\ [RunNext]_runVars => RunInv'
<1> SUFFICES ASSUME RunInv, [RunNext]_runVars PROVE RunInv'
  OBVIOUS
<1>1. CASE AnyInstructions
  <2>1. Inv'
    BY <1>1, StepInv DEF RunInv, AnyInstructions
  <2>2. test = NoTest /\ UNCHANGED <<test, pc_if, pc_id, target_ex, mem>>
    BY <1>1 DEF AnyInstructions
  <2>3. QED BY <2>1, <2>2 DEF RunInv, Stored, Addresses, FetchedInOrder
<1>2. ASSUME NEW in \in Signals, NEW next \in Offers, TestStep(in, next) PROVE RunInv'
  <2>1. Inv'
    BY <1>2, StepOfTest, InvStep DEF RunInv
  <2>2. test' = test
    BY <1>2 DEF TestStep
  <2>3. QED BY <1>2, <2>1, <2>2, FetchStep DEF RunInv
<1>3. CASE UNCHANGED runVars
  <2>1. Inv'
    BY <1>3, StepInv DEF RunInv, runVars
  <2>2. UNCHANGED <<test, pc_if, pc_id, target_ex, mem, instr_valid_id, instr>>
    BY <1>3 DEF runVars, operandVars
  <2>3. QED BY <2>1, <2>2 DEF RunInv, Stored, Addresses, FetchedInOrder, i_id, Code
<1>4. QED BY <1>1, <1>2, <1>3 DEF RunNext

\* In the tests, too, every instruction leaves ID with the operands it should have.
THEOREM TestsForwarded == RunSpec => []OperandsExact
<1>1. RunInv => OperandsExact
  BY InvImpliesExact DEF RunInv
<1>2. QED BY <1>1, InitRunInv, StepRunInv, PTL DEF RunSpec

-----------------------------------------------------------------------------
(* The refinement.  An instruction is executed when it leaves ID; all the  *)
(* other cycles change nothing that the test can see.                      *)

\* The machine computes with the same operators.
LEMMA SameMeaning ==
  /\ Machine!Registers = Registers
  /\ \A code, at : /\ Machine!In(code, 0, at) <=> In(code, 0, at)
                   /\ Machine!At(code, 0, at) = At(code, 0, at)
  /\ \A i, at, x, y : /\ Machine!Result(i, at, x, y) = Result(i, at, x, y)
                      /\ Machine!NextPc(i, at, x, y) = NextPc(i, at, x, y)
  /\ \A i : Machine!Computes(i) <=> Computes(i)
  /\ \A f, r, v : Machine!Written(f, r, v) = Written(f, r, v)
<1>1. \A x, y : Machine!Divided(x, y) = Divided(x, y)
  BY DEF Machine!Divided, Divided
<1>2. \A i, x, y : Machine!Taken(i, x, y) <=> Taken(i, x, y)
  BY DEF Machine!Taken, Taken
<1>3. \A i, at, x, y : Machine!Result(i, at, x, y) = Result(i, at, x, y)
  BY <1>1 DEF Machine!Result, Result
<1>4. \A i, at, x, y : Machine!NextPc(i, at, x, y) = NextPc(i, at, x, y)
  BY <1>2 DEF Machine!NextPc, NextPc
<1>5. QED BY <1>3, <1>4
  DEF Machine!Registers, Registers, Machine!In, In, Machine!At, At, Machine!Computes, Computes,
      Machine!Written, Written

\* A cycle in which nothing leaves ID.
LEMMA NothingLeaves ==
  ASSUME RunInv, NEW in \in Signals, NEW next \in Offers, TestStep(in, next), ~Leaves(in)
  PROVE  Hart' = Hart
<1>1. test # NoTest /\ test' = test
  BY DEF TestStep
<1>2. arch' = arch /\ mem' = mem /\ verdict' = verdict
  BY DEF TestStep, OperandStep, Retire, MemoryStep, Verdict
<1>3. ~branch_taken_ex'
  <2>1. ex' = IF ex_ready(in) THEN Bubble ELSE Stalled(in)
    BY DEF TestStep, OperandStep, ExStep
  <2>2. CASE ex_ready(in)
    BY <2>1, <2>2 DEF Bubble, branch_taken_ex
  <2>3. CASE ~ex_ready(in)
    <3>1. ex.kind # "branch"
      BY <2>3 DEF ex_ready
    <3>2. ex'.kind = ex.kind
      BY <2>1, <2>3 DEF Stalled, RunInv, Inv, OperandTypeOK
    <3>3. QED BY <3>1, <3>2 DEF branch_taken_ex
  <2>4. QED BY <2>2, <2>3
<1>4. CASE branch_taken_ex
  <2>1. ~instr_valid_id' /\ pc_if' = target_ex
    BY <1>4 DEF TestStep, OperandStep, IdStep, if_valid, pc_set, PcStep
  <2>2. QED BY <1>1, <1>2, <1>3, <1>4, <2>1 DEF Hart
<1>5. CASE ~branch_taken_ex /\ instr_valid_id
  <2>1. ~id_ready(in)
    BY <1>5 DEF Leaves, is_decoding
  <2>2. instr_valid_id' /\ pc_id' = pc_id
    BY <1>5, <2>1 DEF TestStep, OperandStep, IdStep, if_valid, PcStep
  <2>3. QED BY <1>1, <1>2, <1>3, <1>5, <2>2 DEF Hart
<1>6. CASE ~branch_taken_ex /\ ~instr_valid_id
  <2>1. CASE if_valid(in, next)
    <3>1. instr_valid_id' /\ pc_id' = pc_if
      BY <2>1 DEF TestStep, OperandStep, IdStep, PcStep
    <3>2. QED BY <1>1, <1>2, <1>3, <1>6, <3>1 DEF Hart
  <2>2. CASE ~if_valid(in, next)
    <3>1. ~instr_valid_id' /\ pc_if' = pc_if
      BY <1>6, <2>2 DEF TestStep, OperandStep, IdStep, PcStep
    <3>2. QED BY <1>1, <1>2, <1>3, <1>6, <3>1 DEF Hart
  <2>3. QED BY <2>1, <2>2
<1>7. QED BY <1>4, <1>5, <1>6

\* Where the test goes on behind the instruction that leaves ID.
LEMMA NextAddress ==
  ASSUME RunInv, NEW in \in Signals, NEW next \in Offers, TestStep(in, next), Leaves(in)
  PROVE  Hart'.pc = NextPc(i_id, pc_id, arch[i_id.rs1], arch[i_id.rs2])
<1> DEFINE x == arch[i_id.rs1]
<1> DEFINE y == arch[i_id.rs2]
<1>1. test # NoTest /\ test' = test
  BY DEF TestStep
<1>2. /\ i_id \in TestInstruction /\ instr = Decoded(i_id) /\ pc_if = pc_id + 4
      /\ i_id.rs1 \in instr.srcs => a(in) = x
      /\ i_id.rs2 \in instr.srcs => b(in) = y
      /\ instr.kind = "jalr" => regs[i_id.rs1] = x
  BY <1>1, LeavingInstruction
<1>3. /\ Taken(i_id, a(in), b(in)) <=> Taken(i_id, x, y)
      /\ instr.kind = "branch" <=> i_id.op \in {"beq", "bne"}
      /\ instr.kind = "jalr" <=> i_id.op = "jalr"
      /\ instr.kind # "jal"
  <2>1. /\ i_id.rs1 \in Decoded(i_id).srcs => a(in) = x
        /\ i_id.rs2 \in Decoded(i_id).srcs => b(in) = y
    BY <1>2
  <2> HIDE DEF x, y
  <2>2. Taken(i_id, a(in), b(in)) <=> Taken(i_id, x, y)
    BY <1>2, <2>1, OnlySources
  <2>3. QED BY <1>2, <2>2, DecodedFields
<1> HIDE DEF x, y
<1>4. instr_valid_id /\ ~branch_taken_ex /\ id_ready(in)
  BY DEF Leaves, is_decoding
<1>5. branch_taken_ex' <=> Taken(i_id, x, y)
  <2>1. ex'.kind = instr.kind /\ ex'.taken = Taken(i_id, a(in), b(in))
    BY DEF TestStep, OperandStep, ExStep, Executed
  <2>2. QED BY <1>3, <2>1 DEF branch_taken_ex, Taken
<1>6. Hart'.pc = IF branch_taken_ex' THEN target_ex'
                 ELSE IF instr_valid_id' THEN pc_id' ELSE pc_if'
  BY <1>1 DEF Hart
<1>7. i_id.op # "jal"
  BY <1>2 DEF TestInstruction
<1>8. CASE Taken(i_id, x, y)
  <2>1. target_ex' = pc_id + i_id.imm
    BY <1>3, <1>8 DEF TestStep, PcStep, Taken
  <2>2. NextPc(i_id, pc_id, x, y) = pc_id + i_id.imm
    BY <1>8 DEF NextPc, Taken
  <2>3. QED BY <1>5, <1>6, <1>8, <2>1, <2>2 DEF x, y
<1>9. CASE i_id.op = "jalr"
  <2>1. ~Taken(i_id, x, y)
    BY <1>9 DEF Taken
  <2>2. ~instr_valid_id' /\ pc_if' = x + i_id.imm
    BY <1>2, <1>3, <1>4, <1>9 DEF TestStep, OperandStep, IdStep, if_valid, pc_set, PcStep
  <2>3. NextPc(i_id, pc_id, x, y) = x + i_id.imm
    BY <1>9, <2>1 DEF NextPc
  <2>4. QED BY <1>5, <1>6, <2>1, <2>2, <2>3 DEF x, y
<1>10. CASE ~Taken(i_id, x, y) /\ i_id.op # "jalr"
  <2>1. IF instr_valid_id' THEN pc_id' = pc_if ELSE pc_if' = pc_if
    BY <1>3, <1>4, <1>10 DEF TestStep, OperandStep, IdStep, PcStep
  <2>2. NextPc(i_id, pc_id, x, y) = pc_id + 4
    BY <1>7, <1>10 DEF NextPc
  <2>3. QED BY <1>2, <1>5, <1>6, <1>10, <2>1, <2>2 DEF x, y
<1>11. QED BY <1>8, <1>9, <1>10

\* An instruction that leaves ID has been executed.
LEMMA OneLeaves ==
  ASSUME RunInv, NEW in \in Signals, NEW next \in Offers, TestStep(in, next), Leaves(in)
  PROVE  Machine!Runs(test, Hart) /\ Hart' = Machine!After(test, Hart)
<1> DEFINE x == arch[i_id.rs1]
<1> DEFINE y == arch[i_id.rs2]
<1>1. test # NoTest /\ test' = test /\ verdict = "none"
  BY DEF TestStep, Running
<1>2. /\ i_id \in TestInstruction /\ instr = Decoded(i_id)
      /\ In(test.code, 0, pc_id)
      /\ i_id.rs1 \in instr.srcs => a(in) = x
      /\ i_id.rs2 \in instr.srcs => b(in) = y
  BY <1>1, LeavingInstruction
<1>3. /\ Computes(i_id) => Result(i_id, pc_id, a(in), b(in)) = Result(i_id, pc_id, x, y)
      /\ i_id.op \in {"load", "store"} => a(in) = x
      /\ i_id.op = "store" => b(in) = y
  <2>1. /\ i_id.rs1 \in Decoded(i_id).srcs => a(in) = x
        /\ i_id.rs2 \in Decoded(i_id).srcs => b(in) = y
    BY <1>2
  <2> HIDE DEF x, y
  <2>2. QED BY <1>2, <2>1, OnlySources
<1>4. /\ instr.alu = IF Computes(i_id) THEN {i_id.rd} ELSE {}
      /\ instr.load = IF i_id.op = "load" THEN {i_id.rd} ELSE {}
  BY <1>2, DecodedFields
<1>5. Hart = [pc |-> pc_id, regs |-> arch, mem |-> mem, verdict |-> "none"]
  BY <1>1 DEF Hart, Leaves, is_decoding
<1> DEFINE word == IF x + i_id.imm \in DOMAIN mem THEN mem[x + i_id.imm] ELSE 0
<1>6. arch' = IF Computes(i_id) THEN Written(arch, i_id.rd, Result(i_id, pc_id, x, y))
              ELSE IF i_id.op = "load" THEN Written(arch, i_id.rd, word) ELSE arch
  <2>1. arch \in [Registers -> Int] /\ i_id.rd \in Registers
    BY <1>2, WordsAssumption DEF RunInv, Inv, OperandTypeOK, TestInstruction
  <2>2. arch' = [r \in Registers |->
                   IF r = 0 THEN arch[r]
                   ELSE IF r \in instr.load THEN Executed(in).loaded
                   ELSE IF r \in instr.alu THEN Executed(in).value ELSE arch[r]]
    BY WordsAssumption DEF TestStep, OperandStep, Retire
  <2>3. CASE Computes(i_id)
    <3>1. instr.load = {} /\ instr.alu = {i_id.rd}
      BY <1>4, <2>3 DEF Computes
    <3>2. Executed(in).value = Result(i_id, pc_id, x, y)
      BY <1>3, <2>3 DEF Executed
    <3> DEFINE v == Result(i_id, pc_id, x, y)
    <3> HIDE DEF v, x, y
    <3>3. arch' = [r \in Registers |-> IF r = 0 THEN arch[r] ELSE IF r = i_id.rd THEN v ELSE arch[r]]
      BY <2>2, <3>1, <3>2 DEF v
    <3>4. arch' = Written(arch, i_id.rd, v)
      BY <2>1, <3>3 DEF Written
    <3>5. QED BY <2>3, <3>4 DEF v
  <2>4. CASE i_id.op = "load"
    <3>1. instr.load = {i_id.rd} /\ instr.alu = {} /\ ~Computes(i_id)
      BY <1>4, <2>4 DEF Computes
    <3>2. Executed(in).loaded = word
      BY <1>3, <2>4, WordsAssumption DEF Executed, address
    <3> HIDE DEF word
    <3>3. arch' = [r \in Registers |->
                     IF r = 0 THEN arch[r] ELSE IF r = i_id.rd THEN word ELSE arch[r]]
      BY <2>2, <3>1, <3>2
    <3>4. arch' = Written(arch, i_id.rd, word)
      BY <2>1, <3>3 DEF Written
    <3>5. QED BY <2>4, <3>1, <3>4
  <2>5. CASE ~Computes(i_id) /\ i_id.op # "load"
    <3>1. instr.load = {} /\ instr.alu = {}
      BY <1>4, <2>5
    <3>2. QED BY <2>1, <2>2, <2>5, <3>1
  <2>6. QED BY <2>3, <2>4, <2>5
<1>7. mem' = IF i_id.op = "store" THEN [mem EXCEPT ![x + i_id.imm] = y] ELSE mem
  BY <1>3 DEF TestStep, MemoryStep, address
<1>8. verdict' = CASE i_id.op = "ret" -> "pass" [] i_id.op = "ecall" -> "fail" [] OTHER -> "none"
  BY <1>1 DEF TestStep, Verdict
<1>9. Hart' = [pc |-> NextPc(i_id, pc_id, x, y), regs |-> arch', mem |-> mem', verdict |-> verdict']
  <2>1. Hart'.pc = NextPc(i_id, pc_id, x, y)
    BY NextAddress
  <2>2. Hart' = [pc |-> Hart'.pc, regs |-> arch', mem |-> mem', verdict |-> verdict']
    BY <1>1 DEF Hart
  <2>3. QED BY <2>1, <2>2
<1>10. At(test.code, 0, pc_id) = i_id
  BY DEF i_id, Code
<1>11. Machine!Runs(test, Hart)
  BY <1>2, <1>5, SameMeaning DEF Machine!Runs
<1>12. Hart' = Machine!After(test, Hart)
  <2> HIDE DEF x, y, word
  <2>1. Machine!After(test, Hart) =
          [pc |-> NextPc(i_id, pc_id, x, y),
           regs |-> IF Computes(i_id) THEN Written(arch, i_id.rd, Result(i_id, pc_id, x, y))
                    ELSE IF i_id.op = "load" THEN Written(arch, i_id.rd, word) ELSE arch,
           mem |-> IF i_id.op = "store" THEN [mem EXCEPT ![x + i_id.imm] = y] ELSE mem,
           verdict |-> CASE i_id.op = "ret" -> "pass" [] i_id.op = "ecall" -> "fail"
                         [] OTHER -> "none"]
    BY <1>5, <1>10, SameMeaning DEF Machine!After, x, y, word
  <2>2. QED BY <1>6, <1>7, <1>8, <1>9, <2>1
<1>13. QED BY <1>11, <1>12

LEMMA StepMachine ==
  RunInv /\ [RunNext]_runVars => [Machine!MachineNext]_(Machine!machineVars)
<1> SUFFICES ASSUME RunInv, [RunNext]_runVars
             PROVE  [Machine!MachineNext]_(Machine!machineVars)
  OBVIOUS
<1>1. CASE AnyInstructions
  <2>1. test' = test /\ Hart' = Hart
    BY <1>1 DEF AnyInstructions, Hart
  <2>2. QED BY <2>1 DEF Machine!machineVars
<1>2. ASSUME NEW in \in Signals, NEW next \in Offers, TestStep(in, next)
      PROVE  [Machine!MachineNext]_(Machine!machineVars)
  <2>1. test' = test
    BY <1>2 DEF TestStep
  <2>2. CASE Leaves(in)
    BY <1>2, <2>1, <2>2, OneLeaves DEF Machine!MachineNext
  <2>3. CASE ~Leaves(in)
    BY <1>2, <2>1, <2>3, NothingLeaves DEF Machine!machineVars
  <2>4. QED BY <2>2, <2>3
<1>3. CASE UNCHANGED runVars
  <2>1. test' = test /\ Hart' = Hart
    BY <1>3 DEF runVars, operandVars, Hart, branch_taken_ex
  <2>2. QED BY <2>1 DEF Machine!machineVars
<1>4. QED BY <1>1, <1>2, <1>3 DEF RunNext

LEMMA InitMachine == RunInit => Machine!MachineInit
<1> SUFFICES ASSUME RunInit PROVE Hart = Machine!Start
  BY DEF Machine!MachineInit
<1>1. ~instr_valid_id /\ ~branch_taken_ex /\ pc_if = 0 /\ mem = DataWords /\ verdict = "none"
  BY DEF RunInit, OperandInit, branch_taken_ex, Bubble
<1>2. arch = [r \in Registers |-> 0]
  BY WordsAssumption DEF RunInit, OperandInit
<1>3. QED BY <1>1, <1>2, SameMeaning DEF Hart, Machine!Start

\* The pipeline with its stalls, forwarding paths, branches in EX and jumps in ID
\* executes every test as a machine that does one instruction at a time
\* (ImplementsMachine).
THEOREM TestsRunInOrder == RunSpec => ImplementsMachine
BY InitRunInv, StepRunInv, InitMachine, StepMachine, PTL
   DEF RunSpec, ImplementsMachine, Machine!MachineSpec

-----------------------------------------------------------------------------
(* The verdict of a test depends on its program.  A program loops as it    *)
(* likes: which states it reaches is what Deserved asks for.               *)

InductiveFor(t, reached) ==
  /\ Machine!Start \in reached
  /\ \A s \in reached :
       /\ Machine!Runs(t, s) => Machine!After(t, s) \in reached
       /\ s.verdict \in {"none", t.verdict}
Reached(t) == CHOOSE reached : InductiveFor(t, reached)
OnTrack == IF test = NoTest THEN verdict = "none" ELSE Hart \in Reached(test)

LEMMA ReachedStates ==
  ASSUME NEW t, Machine!Deserved(t)
  PROVE  InductiveFor(t, Reached(t))
<1>1. \E reached : InductiveFor(t, reached)
  BY DEF Machine!Deserved, InductiveFor
<1>2. QED BY <1>1 DEF Reached

\* If each test, executed one instruction at a time, ends with the verdict it
\* deserves, it ends with that verdict on the pipeline (VerdictExact).
THEOREM VerdictsDeserved ==
  ASSUME \A t \in Tests : Machine!Deserved(t)
  PROVE  RunSpec => []VerdictExact
<1>1. ASSUME RunInit PROVE OnTrack
  <2>1. CASE test = NoTest
    BY <1>1, <2>1 DEF RunInit, OnTrack
  <2>2. CASE test # NoTest
    <3>1. Hart = Machine!Start
      BY <1>1, InitMachine DEF Machine!MachineInit
    <3>2. InductiveFor(test, Reached(test))
      BY <1>1, <2>2, ReachedStates DEF RunInit
    <3>3. QED BY <2>2, <3>1, <3>2 DEF OnTrack, InductiveFor
  <2>3. QED BY <2>1, <2>2
<1>2. ASSUME RunInv, OnTrack, [RunNext]_runVars PROVE OnTrack'
  <2>1. test' = test /\ (test = NoTest => verdict' = verdict)
    BY <1>2 DEF RunNext, AnyInstructions, TestStep, runVars
  <2>2. CASE test = NoTest
    BY <1>2, <2>1, <2>2 DEF OnTrack
  <2>3. CASE test # NoTest
    <3>1. Hart' = Hart \/ (Machine!Runs(test, Hart) /\ Hart' = Machine!After(test, Hart))
      BY <1>2, StepMachine DEF Machine!MachineNext, Machine!machineVars
    <3>2. InductiveFor(test, Reached(test))
      BY <1>2, <2>3, ReachedStates DEF RunInv
    <3>3. Hart \in Reached(test)
      BY <1>2, <2>3 DEF OnTrack
    <3>4. Hart' \in Reached(test)
      BY <3>1, <3>2, <3>3 DEF InductiveFor
    <3>5. QED BY <2>1, <2>3, <3>4 DEF OnTrack
  <2>4. QED BY <2>2, <2>3
<1>3. ASSUME RunInv, OnTrack PROVE VerdictExact
  <2>1. CASE test = NoTest
    BY <1>3, <2>1 DEF OnTrack, VerdictExact, Running
  <2>2. CASE test # NoTest
    <3>1. InductiveFor(test, Reached(test)) /\ Hart \in Reached(test)
      BY <1>3, <2>2, ReachedStates DEF RunInv, OnTrack
    <3>2. Hart.verdict = verdict
      BY <2>2 DEF Hart
    <3>3. QED BY <3>1, <3>2 DEF InductiveFor, VerdictExact, Running
  <2>3. QED BY <2>1, <2>2
<1>4. QED BY <1>1, <1>2, <1>3, InitRunInv, StepRunInv, PTL DEF RunSpec
=============================================================================
