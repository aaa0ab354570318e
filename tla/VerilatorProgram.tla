-------------------------- MODULE VerilatorProgram --------------------------
(***************************************************************************)
(* verilator-model/testbench.cpp: the instructions that loadProgram,       *)
(* loadDebugProgram and whereto write into the memory of the model.        *)
(***************************************************************************)
EXTENDS Rv32

CONSTANT RepeatFactor   \* 20 in the test bench
ASSUME RepeatAssumption == RepeatFactor \in Nat

STARTprogrammADDR == 128
BASEdebug == 40960 * 16            \* 0x0a0000, base of all debug addresses
BASEdebugPROGaddr == BASEdebug + 2048
FlagADDRESSbase == BASEdebug + 1024
wheretoADDRESS == BASEdebug + 768

FLAGresume == 2
FLAGgo == 1
FLAGloop == 0

\* Registers of the debug program, by their ABI names.
s0 == 8
a0 == 10

-----------------------------------------------------------------------------
(* The user program. *)

StoreWord == <<Li(15, 64), Li(14, 102), Store(14, 0, 15)>>
Repeated(code) == [k \in 1 .. Len(code) * RepeatFactor |-> code[((k - 1) % Len(code)) + 1]]
StoreWords == Repeated(StoreWord)
AllOnes == [rd \in 1 .. 31 |-> Li(rd, -1)]
ExitArguments == <<Li(11, 0), Li(12, 0), Li(13, 0), Li(17, 93)>>
StoreWordsAgain == Repeated(StoreWord)
Exit == <<Li(11, 0), Li(12, 0), Li(13, 0), Li(17, 93), I("ecall", 0, 0, 0, 0)>>

UserProgram == StoreWords \o AllOnes \o ExitArguments \o StoreWordsAgain \o Exit

\* It ends below the debug program.
ASSUME ProgramAssumption ==
  STARTprogrammADDR + 4 * Len(UserProgram) < wheretoADDRESS

-----------------------------------------------------------------------------
(* The debug program.  The core parks in it, and looks at the flag byte of *)
(* its hart; stores tell the debugger how far it is.                       *)

Csrr(rd, csr) == [op |-> "csrr", rd |-> rd, rs1 |-> 0, rs2 |-> 0, imm |-> 0, csr |-> csr]
Csrw(csr, rs1) == [op |-> "csrw", rd |-> 0, rs1 |-> rs1, rs2 |-> 0, imm |-> 0, csr |-> csr]
Dret == I("dret", 0, 0, 0, 0)
Ebreak == I("ebreak", 0, 0, 0, 0)

Vectors == <<Jal(0, 12), Jal(0, 96), Jal(0, 68)>>   \* entry, resume, exception
Saves == <<Nop, Csrw("dscratch0", s0), Csrw("dscratch1", a0)>>
Park ==
  <<Csrr(s0, "mhartid"), Lui(a0, 160), Store(s0, 256, a0),                \* halted
    Add(s0, s0, a0), Load(s0, 1024, s0), Andi(s0, s0, FLAGgo), Bne(s0, 0, 36),
    Csrr(s0, "mhartid"), Add(s0, s0, a0), Load(s0, 1024, s0),
    Andi(s0, s0, FLAGresume), Bne(s0, 0, -64), Jal(0, -48)>>
ExceptionEntry == <<Store(0, 268, a0), Ebreak>>
GoingEntry ==
  <<Csrr(s0, "dscratch0"), Store(0, 260, a0), Csrr(a0, "dscratch1"), Jal(0, -1376)>>
\* Mutant: the two scratch registers are swapped.
ResumeEntrySwapped ==
  <<Csrr(s0, "mhartid"), Lui(a0, 160), Store(s0, 264, a0),
    Csrr(s0, "dscratch1"), Csrr(a0, "dscratch0"), Dret>>
ResumeEntry ==
  <<Csrr(s0, "mhartid"), Lui(a0, 160), Store(s0, 264, a0),                \* resuming
    Csrr(s0, "dscratch0"), Csrr(a0, "dscratch1"), Dret>>

DebugProgram == Vectors \o Saves \o Park \o ExceptionEntry \o GoingEntry \o ResumeEntry

\* What whereto writes: on to the resume entry.
ToResume == Jal(0, 1284)

-----------------------------------------------------------------------------
\* Memory is zero where nothing is written.
UserInstr(pc) ==
  IF In(UserProgram, STARTprogrammADDR, pc)
  THEN At(UserProgram, STARTprogrammADDR, pc) ELSE Illegal
=============================================================================
