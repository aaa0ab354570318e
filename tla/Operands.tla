------------------------------ MODULE Operands ------------------------------
(***************************************************************************)
(* How the instructions of the pipeline get their operands: the forwarding *)
(* multiplexers of rtl/riscv_id_stage.sv, the stalls and the forwarding    *)
(* control of rtl/riscv_controller.sv, and the two write ports of          *)
(* rtl/riscv_register_file.sv, one for results of EX and one for loads in  *)
(* WB (rtl/riscv_ex_stage.sv).                                             *)
(*                                                                         *)
(* A step is a clock cycle, in the controller's state DECODE.  What an     *)
(* instruction computes is any value; a unit that is not done, and a       *)
(* memory that has not answered, show junk on their data ports, and the    *)
(* write ports store it.  Traps, misaligned accesses, the partial products *)
(* of high multiplications and the floating-point unit are left out.       *)
(***************************************************************************)
EXTENDS Naturals

CONSTANTS
  Register, Zero,   \* the registers, and register 0
  Value, Reset,     \* what they hold, also after a reset
  Instrs,           \* the instructions that may reach ID
  Results           \* what they may compute or load

Kinds == {"alu", "multi", "csr", "load", "store", "branch", "jal", "jalr"}
Dest == {{}} \cup {{r} : r \in Register}

\* alu and load: the register written by EX, and by WB.  A post-increment
\* access writes its base register in EX.  multi stands for what may take
\* several cycles in EX.
Instruction == [kind : Kinds, srcs : SUBSET Register, alu : Dest, load : Dest]

ASSUME RegisterAssumption == Zero \in Register /\ Reset \in Value
ASSUME InstrsAssumption ==
  Instrs \subseteq {i \in Instruction : i.load # {} => i.kind = "load"}
ASSUME ResultsAssumption == Results \subseteq Value

VARIABLES
  instr_valid_id, instr,   \* IF/ID; the instruction stays when it is done
  ex, waddr_ex,            \* ID/EX; waddr_ex keeps the last load's destination
  wb,                      \* the access the memory has not answered
  regs,
  arch                     \* history: the registers if instructions took no time

operandVars == <<instr_valid_id, instr, ex, waddr_ex, wb, regs, arch>>

Bubble == [kind |-> "none", alu |-> {}, load |-> {}, value |-> Reset,
           loaded |-> Reset, taken |-> FALSE]
NoInstr == [kind |-> "none", srcs |-> {}, alu |-> {}, load |-> {}]

-----------------------------------------------------------------------------
(* The signals of a cycle: hold, a unit in EX needs another one; gnt and   *)
(* rvalid, the memory; junk, a data port that shows no data.               *)

data_req_ex == ex.kind \in {"load", "store"}
wb_ready(in) == wb.busy => in.rvalid
data_req_o(in) == data_req_ex /\ wb_ready(in)

Signals ==
  {in \in [hold : BOOLEAN, gnt : BOOLEAN, rvalid : BOOLEAN, junk : Results] :
     /\ in.hold => ex.kind = "multi"
     /\ in.rvalid => wb.busy
     /\ in.gnt => data_req_o(in)}

lsu_ready_ex(in) == data_req_o(in) => in.gnt
ex_valid(in) == ~in.hold /\ lsu_ready_ex(in) /\ wb_ready(in)
ex_ready(in) == ex_valid(in) \/ ex.kind = "branch"
branch_taken_ex == ex.kind = "branch" /\ ex.taken
\* Mutant: what is in ID behind a taken branch goes on.
is_decodingTaken == instr_valid_id
is_decoding == instr_valid_id /\ ~branch_taken_ex

\* The write ports; both are active while their stage waits.
regfile_alu_wdata_fw(in) == IF in.hold THEN in.junk ELSE ex.value
regfile_wdata_wb(in) == IF in.rvalid THEN wb.loaded ELSE in.junk

-----------------------------------------------------------------------------
(* Stalls. *)

Used == instr.srcs \ {Zero}

\* Mutants: a load that waits in WB is forgotten; a load is never over.
load_stallExOnly(in) ==
  ex.load # {} /\ (waddr_ex \in Used \/ (is_decoding /\ waddr_ex \in instr.alu))
load_stallForever(in) == waddr_ex \in Used \/ (is_decoding /\ waddr_ex \in instr.alu)
load_stall(in) ==
  /\ ex.load # {} \/ (~wb_ready(in) /\ wb.load # {})
  /\ waddr_ex \in Used \/ (is_decoding /\ waddr_ex \in instr.alu)

\* The target of a jump is not forwarded.
jr_stall ==
  /\ instr.kind = "jalr"
  /\ Used \cap wb.load # {} \/ (ex.load # {} /\ waddr_ex \in Used) \/ Used \cap ex.alu # {}

id_ready(in) == ~load_stall(in) /\ ~jr_stall /\ ex_ready(in)
Leaves(in) == is_decoding /\ id_ready(in)

\* Operand forwarding: the result in EX first, then what arrives in WB.
Operand(in, r) ==
  IF r \in ex.alu \ {Zero} THEN regfile_alu_wdata_fw(in)
  ELSE IF r \in wb.load \ {Zero} THEN regfile_wdata_wb(in)
  ELSE regs[r]

-----------------------------------------------------------------------------
(* The clock edge. *)

WriteBack(in) ==
  regs' = [r \in Register |->
             IF r = Zero THEN regs[r]
             ELSE IF r \in ex.alu THEN regfile_alu_wdata_fw(in)
             ELSE IF r \in wb.load THEN regfile_wdata_wb(in)
             ELSE regs[r]]

WbStep(in) ==
  LET loaded == IF ex_valid(in) THEN [load |-> ex.load, loaded |-> ex.loaded]
                ELSE IF wb_ready(in) THEN [load |-> {}, loaded |-> Reset]
                ELSE [load |-> wb.load, loaded |-> wb.loaded] IN
  wb' = [busy |-> in.gnt \/ (wb.busy /\ ~in.rvalid),
         load |-> loaded.load, loaded |-> loaded.loaded]

\* A csr instruction that waits in EX has written its result, and the csr it
\* reads has changed.
Stalled(in) == IF ex.kind = "csr" THEN [ex EXCEPT !.alu = {}, !.value = in.junk] ELSE ex

\* out: the outcome of the instruction that leaves ID.
ExStep(in, out) ==
  /\ ex' = IF Leaves(in)
           THEN [kind |-> instr.kind, alu |-> instr.alu, load |-> instr.load,
                 value |-> out.value, loaded |-> out.loaded, taken |-> out.taken]
           ELSE IF ex_ready(in) THEN Bubble ELSE Stalled(in)
  /\ waddr_ex' = IF Leaves(in) /\ instr.load # {}
                 THEN CHOOSE r \in instr.load : TRUE ELSE waddr_ex

\* A taken branch drops what is in ID.
pc_set(in) == branch_taken_ex \/ (Leaves(in) /\ instr.kind \in {"jal", "jalr"})
if_valid(in, next) == next # NoInstr /\ id_ready(in) /\ ~pc_set(in)

\* next: what IF offers.
IdStep(in, next) ==
  /\ instr_valid_id' = (if_valid(in, next)
                        \/ (instr_valid_id /\ ~id_ready(in) /\ ~branch_taken_ex))
  /\ instr' = IF if_valid(in, next) THEN next ELSE instr

Retire(in, out) ==
  arch' = IF ~Leaves(in) THEN arch
          ELSE [r \in Register |->
                  IF r = Zero THEN arch[r]
                  ELSE IF r \in instr.load THEN out.loaded
                  ELSE IF r \in instr.alu THEN out.value
                  ELSE arch[r]]

OperandStep(in, out, next) ==
  WriteBack(in) /\ WbStep(in) /\ ExStep(in, out) /\ IdStep(in, next) /\ Retire(in, out)

OperandInit ==
  /\ instr_valid_id = FALSE /\ instr = NoInstr
  /\ ex = Bubble /\ waddr_ex = Zero
  /\ wb = [busy |-> FALSE, load |-> {}, loaded |-> Reset]
  /\ regs = [r \in Register |-> Reset] /\ arch = regs

Outcomes(in) ==
  IF Leaves(in)
  THEN [value : IF instr.alu = {} THEN {Reset} ELSE Results,
        loaded : IF instr.load = {} THEN {Reset} ELSE Results,
        taken : IF instr.kind = "branch" THEN BOOLEAN ELSE {FALSE}]
  ELSE [value : {Reset}, loaded : {Reset}, taken : {FALSE}]

OperandNext ==
  \E in \in Signals : \E out \in Outcomes(in), next \in Instrs \cup {NoInstr} :
    OperandStep(in, out, next)
OperandSpec == OperandInit /\ [][OperandNext]_operandVars

-----------------------------------------------------------------------------
\* Types.
OperandTypeOK ==
  /\ instr_valid_id \in BOOLEAN /\ instr \in Instruction \cup {NoInstr}
  /\ ex \in [kind : Kinds \cup {"none"}, alu : Dest, load : Dest, value : Value,
             loaded : Value, taken : BOOLEAN]
  /\ waddr_ex \in Register
  /\ wb \in [busy : BOOLEAN, load : Dest, loaded : Value]
  /\ regs \in [Register -> Value] /\ arch \in [Register -> Value]

\* Whenever an instruction leaves ID, each of its operands is what the instructions
\* before it have left in the register, wherever in the pipeline that is; and a
\* jump takes its target from a register that is up to date
\* (riscv_controller.sv: "stall because of load operation", "always stall if a
\* result is to be forwarded to the PC", "forwarding control unit").
OperandsExact ==
  /\ \A in \in Signals : Leaves(in) =>
       \A r \in instr.srcs : Operand(in, r) = arch[r]
  /\ is_decoding /\ instr.kind = "jalr" /\ ~jr_stall =>
       \A r \in instr.srcs : regs[r] = arch[r]
=============================================================================
