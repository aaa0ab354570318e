---------------------------- MODULE TestMachine ----------------------------
(***************************************************************************)
(* A self-checking test as its author reads it: one instruction after      *)
(* another, each on the registers and the memory the ones before it left.  *)
(***************************************************************************)
EXTENDS Rv32

CONSTANT DataWords   \* the words a test loads and stores, and their contents at first

VARIABLES test, hart

machineVars == <<test, hart>>

Start == [pc |-> 0, regs |-> [r \in Registers |-> 0], mem |-> DataWords, verdict |-> "none"]

Runs(t, s) == s.verdict = "none" /\ In(t.code, 0, s.pc)

After(t, s) ==
  LET i == At(t.code, 0, s.pc)
      a == s.regs[i.rs1]
      b == s.regs[i.rs2]
      word == IF a + i.imm \in DOMAIN s.mem THEN s.mem[a + i.imm] ELSE 0 IN
  [pc |-> NextPc(i, s.pc, a, b),
   regs |-> IF Computes(i) THEN Written(s.regs, i.rd, Result(i, s.pc, a, b))
            ELSE IF i.op = "load" THEN Written(s.regs, i.rd, word) ELSE s.regs,
   mem |-> IF i.op = "store" THEN [s.mem EXCEPT ![a + i.imm] = b] ELSE s.mem,
   verdict |-> CASE i.op = "ret" -> "pass" [] i.op = "ecall" -> "fail" [] OTHER -> "none"]

MachineInit == hart = Start
MachineNext == Runs(test, hart) /\ hart' = After(test, hart) /\ UNCHANGED test
MachineSpec == MachineInit /\ [][MachineNext]_machineVars

\* Executed in this way, test t ends with the verdict it deserves, or does not end.
Deserved(t) ==
  \E reached :
    /\ Start \in reached
    /\ \A s \in reached :
         /\ Runs(t, s) => After(t, s) \in reached
         /\ s.verdict \in {"none", t.verdict}
=============================================================================
