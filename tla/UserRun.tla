------------------------------- MODULE UserRun -------------------------------
(***************************************************************************)
(* What a debugger promises to a program it does not change: the user      *)
(* program of verilator-model/testbench.cpp runs from its first            *)
(* instruction on, one after another, as if it were never stopped.         *)
(***************************************************************************)
EXTENDS VerilatorProgram

CONSTANT TrapBase        \* where exceptions go

VARIABLES pc, regs, word \* word: what the program stores at 64

userVars == <<pc, regs, word>>

UserInit ==
  pc = STARTprogrammADDR /\ regs = [r \in Registers |-> 0] /\ word = 0

UserStep ==
  LET i == UserInstr(pc) IN
  \/ /\ Computes(i)
     /\ regs' = Written(regs, i.rd, Result(i, pc, regs[i.rs1], regs[i.rs2]))
     /\ pc' = NextPc(i, pc, regs[i.rs1], regs[i.rs2])
     /\ UNCHANGED word
  \/ /\ i.op = "store" /\ word' = regs[i.rs2] /\ pc' = pc + 4 /\ UNCHANGED regs
  \/ i.op \in {"ecall", "illegal"} /\ pc' = TrapBase /\ UNCHANGED <<regs, word>>

UserSpec == UserInit /\ [][UserStep]_userVars
=============================================================================
