------------------------------ MODULE TestRun ------------------------------
(***************************************************************************)
(* The core of module Operands runs a self-checking test of module         *)
(* TestMacros, with every timing of its instruction and data memories; or  *)
(* it executes any instructions (test NoTest).                             *)
(*                                                                         *)
(* A load or store takes effect on the memory when it leaves ID: there is  *)
(* one at a time, in order (module LoadStoreTransfers).                    *)
(***************************************************************************)
EXTENDS Operands, TestMacros

CONSTANTS
  Tests,      \* the tests: their code and the verdict they deserve
  DataWords   \* the words they load and store, and what is there at first

\* The instructions of the tests.
TestInstruction ==
  {i \in [op : {"addi", "andi", "lui", "auipc", "add", "div", "load", "store", "beq", "bne",
                "jalr", "ecall", "ret"},
         rd : Registers, rs1 : Registers, rs2 : Registers, imm : Int] :
     i.op = "andi" => i.imm > 0}

ASSUME WordsAssumption == Register = Registers /\ Zero = 0 /\ Reset = 0 /\ Value = Int
ASSUME TestsAssumption == \A t \in Tests : t.code \in Seq(TestInstruction)
ASSUME DataWordsAssumption == DataWords \in [DOMAIN DataWords -> Int]

NoTest == [code |-> <<>>, verdict |-> "none"]

VARIABLES
  test,
  pc_if, pc_id,   \* the instruction IF offers, and the one in ID
  target_ex,      \* of the branch in EX
  mem,
  verdict         \* how the test ended

runVars == <<operandVars, test, pc_if, pc_id, target_ex, mem, verdict>>

-----------------------------------------------------------------------------
(* The decoder, as far as operands go. *)

Decoded(i) ==
  CASE i.op \in {"addi", "andi"} ->
         [kind |-> "alu", srcs |-> {i.rs1}, alu |-> {i.rd}, load |-> {}]
    [] i.op \in {"lui", "auipc"} ->
         [kind |-> "alu", srcs |-> {}, alu |-> {i.rd}, load |-> {}]
    [] i.op = "add" ->
         [kind |-> "alu", srcs |-> {i.rs1, i.rs2}, alu |-> {i.rd}, load |-> {}]
    [] i.op = "div" ->
         [kind |-> "multi", srcs |-> {i.rs1, i.rs2}, alu |-> {i.rd}, load |-> {}]
    [] i.op = "load" ->
         [kind |-> "load", srcs |-> {i.rs1}, alu |-> {}, load |-> {i.rd}]
    [] i.op = "store" ->
         [kind |-> "store", srcs |-> {i.rs1, i.rs2}, alu |-> {}, load |-> {}]
    [] i.op \in {"beq", "bne"} ->
         [kind |-> "branch", srcs |-> {i.rs1, i.rs2}, alu |-> {}, load |-> {}]
    [] i.op = "jalr" -> [kind |-> "jalr", srcs |-> {i.rs1}, alu |-> {i.rd}, load |-> {}]
    [] i.op \in {"ecall", "ret"} -> [kind |-> "alu", srcs |-> {}, alu |-> {}, load |-> {}]

Code(pc) == At(test.code, 0, pc)

-----------------------------------------------------------------------------
(* A cycle of a test. *)

i_id == Code(pc_id)
a(in) == Operand(in, i_id.rs1)
b(in) == Operand(in, i_id.rs2)
address(in) == a(in) + i_id.imm

Executed(in) ==
  IF ~Leaves(in) THEN [value |-> Reset, loaded |-> Reset, taken |-> FALSE]
  ELSE [value |-> IF Computes(i_id) THEN Result(i_id, pc_id, a(in), b(in)) ELSE Reset,
        loaded |-> IF i_id.op = "load" /\ address(in) \in DOMAIN mem
                   THEN mem[address(in)] ELSE Reset,
        taken |-> Taken(i_id, a(in), b(in))]

Running == verdict = "none"

\* The next instruction, or none while it is fetched.
Offers ==
  {NoInstr} \cup IF In(test.code, 0, pc_if) THEN {Decoded(Code(pc_if))} ELSE {}

\* The target of jalr is read from the register file.
PcStep(in, next) ==
  /\ pc_if' = IF branch_taken_ex THEN target_ex
              ELSE IF Leaves(in) /\ instr.kind = "jalr" THEN regs[i_id.rs1] + i_id.imm
              ELSE IF if_valid(in, next) THEN pc_if + 4 ELSE pc_if
  /\ pc_id' = IF if_valid(in, next) THEN pc_if ELSE pc_id
  /\ target_ex' = IF Leaves(in) /\ instr.kind = "branch" THEN pc_id + i_id.imm
                  ELSE target_ex

MemoryStep(in) ==
  mem' = IF Leaves(in) /\ i_id.op = "store" THEN [mem EXCEPT ![address(in)] = b(in)] ELSE mem

Verdict(in) ==
  verdict' = IF Leaves(in) /\ i_id.op = "ret" THEN "pass"
             ELSE IF Leaves(in) /\ i_id.op = "ecall" THEN "fail" ELSE verdict

TestStep(in, next) ==
  /\ test # NoTest /\ Running
  /\ OperandStep(in, Executed(in), next) /\ PcStep(in, next)
  /\ MemoryStep(in) /\ Verdict(in) /\ UNCHANGED test

AnyInstructions ==
  test = NoTest /\ OperandNext
    /\ UNCHANGED <<test, pc_if, pc_id, target_ex, mem, verdict>>

RunInit ==
  /\ OperandInit /\ test \in Tests \cup {NoTest}
  /\ pc_if = 0 /\ pc_id = 0 /\ target_ex = 0
  /\ mem = DataWords /\ verdict = "none"
RunNext ==
  \/ AnyInstructions
  \/ \E in \in Signals, next \in Offers : TestStep(in, next)
RunSpec == RunInit /\ [][RunNext]_runVars

\* The memories grant and answer, and a unit ends.
Prompt ==
  \E in \in Signals, next \in Offers :
    /\ ~in.hold /\ (data_req_o(in) => in.gnt) /\ (wb.busy => in.rvalid)
    /\ Offers # {NoInstr} => next # NoInstr
    /\ TestStep(in, next)
FairRunSpec == RunSpec /\ WF_runVars(Prompt)

-----------------------------------------------------------------------------
(* The test without the pipeline.  Behind a taken branch it goes on at the *)
(* target in EX, else at the instruction in ID, or at the next one of IF.  *)

Hart ==
  IF test = NoTest THEN [pc |-> 0, regs |-> [r \in Registers |-> 0], mem |-> DataWords,
                         verdict |-> "none"]
  ELSE [pc |-> IF branch_taken_ex THEN target_ex ELSE IF instr_valid_id THEN pc_id ELSE pc_if,
        regs |-> arch, mem |-> mem, verdict |-> verdict]
Machine == INSTANCE TestMachine WITH hart <- Hart

\* Stalls, forwarding, taken branches and jumps do not show: the registers, the
\* memory and the order of the instructions are those of a machine that executes
\* one at a time (riscv_controller.sv, riscv_id_stage.sv).
ImplementsMachine == Machine!MachineSpec

-----------------------------------------------------------------------------
\* A test passes if, and only if, the instruction it tests computes what the
\* test expects, however its operands reach it (aw_test_macros.h: bne testreg,
\* x29, fail; bne x0, TESTNUM, pass).
VerdictExact == ~Running => verdict = test.verdict

\* Every test ends: the stalls of an operand, a jump register and a unit never
\* wait for each other (riscv_controller.sv: load_stall_o, jr_stall_o).
TestsEnd == test # NoTest ~> ~Running
=============================================================================
