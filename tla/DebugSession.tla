---------------------------- MODULE DebugSession ----------------------------
(***************************************************************************)
(* verilator-model: main() of testbench.cpp halts the core in the middle   *)
(* of a program and lets it resume, by the debug program it has put in the *)
(* memory and a flag byte the two share.                                   *)
(*                                                                         *)
(* The core executes one instruction at a time; that its pipeline amounts  *)
(* to this, traps and debug entry included, is what module                 *)
(* ControllerProgram shows.  The clock is counted only while the request   *)
(* is up: the other times main() spins are as long as the core needs.      *)
(***************************************************************************)
EXTENDS VerilatorProgram

CONSTANTS
  DM_HaltAddress,  \* parameter of the core
  MHartId,         \* cluster_id_i and core_id_i of the core
  FlagHart,        \* the hart whose flag main() sets
  Flags,           \* what it may set it to
  ReqCycles,       \* cycles main() keeps debug_req_i up
  HoldsRequest     \* whether it also waits for debug mode, like a debug module

ASSUME AddressAssumption == DM_HaltAddress \in Nat /\ MHartId \in Nat /\ FlagHart \in Nat
ASSUME FlagsAssumption == Flags \subseteq {FLAGloop, FLAGgo, FLAGresume}
ASSUME RequestAssumption == ReqCycles \in Nat /\ HoldsRequest \in BOOLEAN

TrapBase == 0            \* mtvec after reset: the boot address without its low bits
AddressSpace == 1048576  \* the memory decodes 20 bits

VARIABLES
  pc, regs, mem,                   \* the core's, and the memory's data
  debug_mode, depc, dscratch,
  ctrl,                            \* state of the controller
  whereto_written,                 \* the one instruction written while it runs
  phase, debug_req_i, spun         \* main(), and how long the request is up

coreVars == <<pc, regs, mem, debug_mode, depc, dscratch, ctrl>>
hostVars == <<whereto_written, phase, debug_req_i>>
sessionVars == <<coreVars, hostVars, spun>>

FlagAt(hart) == FlagADDRESSbase + hart
DataAddress ==
  {64} \cup {BASEdebug + 256 + 4 * k : k \in 0 .. 3} \cup {FlagAt(MHartId), FlagAt(FlagHart)}

Fetched(a) ==
  IF In(DebugProgram, BASEdebugPROGaddr, a) THEN At(DebugProgram, BASEdebugPROGaddr, a)
  ELSE IF a = wheretoADDRESS /\ whereto_written THEN ToResume
  ELSE UserInstr(a)
instr == Fetched(pc % AddressSpace)

-----------------------------------------------------------------------------
(* The core, a step at a time. *)

a == regs[instr.rs1]
b == regs[instr.rs2]
Clocked == spun' = IF debug_req_i /\ spun < ReqCycles THEN spun + 1 ELSE spun
NextInstr == pc' = NextPc(instr, pc, a, b)

Compute ==
  /\ Computes(instr) /\ NextInstr
  /\ regs' = Written(regs, instr.rd, Result(instr, pc, a, b))
  /\ UNCHANGED <<mem, debug_mode, depc, dscratch, ctrl>>

Branch ==
  /\ instr.op \in {"bne", "beq"} /\ NextInstr
  /\ UNCHANGED <<regs, mem, debug_mode, depc, dscratch, ctrl>>

LoadOrStore ==
  /\ instr.op \in {"load", "store"} /\ NextInstr
  /\ regs' = IF instr.op = "load" THEN Written(regs, instr.rd, mem[a + instr.imm]) ELSE regs
  /\ mem' = IF instr.op = "store" THEN [mem EXCEPT ![a + instr.imm] = b] ELSE mem
  /\ UNCHANGED <<debug_mode, depc, dscratch, ctrl>>

CsrAccess ==
  /\ instr.op \in {"csrr", "csrw"} /\ NextInstr
  /\ regs' = IF instr.op = "csrw" THEN regs
             ELSE Written(regs, instr.rd,
                          IF instr.csr = "mhartid" THEN MHartId ELSE dscratch[instr.csr])
  /\ dscratch' = IF instr.op = "csrw" THEN [dscratch EXCEPT ![instr.csr] = a] ELSE dscratch
  /\ UNCHANGED <<mem, debug_mode, depc, ctrl>>

\* Exceptions go to the trap base in debug mode, too; there is no handler there.
Exception ==
  /\ instr.op \in {"ecall", "illegal"} \/ (instr.op = "ebreak" /\ ~debug_mode)
  /\ pc' = TrapBase
  /\ UNCHANGED <<regs, mem, debug_mode, depc, dscratch, ctrl>>

DebugReturn ==
  /\ instr.op = "dret"
  /\ pc' = depc /\ debug_mode' = FALSE
  /\ UNCHANGED <<regs, mem, depc, dscratch, ctrl>>

DebugAgain ==
  /\ instr.op = "ebreak" /\ debug_mode
  /\ pc' = DM_HaltAddress
  /\ UNCHANGED <<regs, mem, debug_mode, depc, dscratch, ctrl>>

HaltRequest == debug_req_i /\ ~debug_mode

Execute ==
  /\ ctrl = "DECODE" /\ ~HaltRequest
  /\ Compute \/ Branch \/ LoadOrStore \/ CsrAccess \/ Exception \/ DebugReturn \/ DebugAgain

\* The request is looked at in DECODE, and again when dpc is to be written.
SeeRequest ==
  /\ ctrl = "DECODE" /\ HaltRequest /\ ctrl' = "DBG_FLUSH"
  /\ UNCHANGED <<pc, regs, mem, debug_mode, depc, dscratch>>
FlushForDebug ==
  /\ ctrl = "DBG_FLUSH" /\ ctrl' = "DBG_TAKEN_ID"
  /\ UNCHANGED <<pc, regs, mem, debug_mode, depc, dscratch>>
EnterDebug ==
  /\ ctrl = "DBG_TAKEN_ID" /\ ctrl' = "DECODE"
  /\ pc' = DM_HaltAddress /\ debug_mode' = TRUE
  /\ depc' = IF HaltRequest THEN pc ELSE depc
  /\ UNCHANGED <<regs, mem, dscratch>>

Running == phase \in {"running", "requesting", "answered"}
CoreStep ==
  /\ Running
  /\ Execute \/ SeeRequest \/ FlushForDebug \/ EnterDebug
  /\ Clocked /\ UNCHANGED hostVars

\* A cycle in which the core waits for its memory.
Stall ==
  /\ debug_req_i /\ spun < ReqCycles
  /\ Clocked /\ UNCHANGED <<coreVars, hostVars>>

-----------------------------------------------------------------------------
(* main(), between two calls of clockSpin. *)

ReleaseReset ==
  /\ phase = "reset" /\ phase' = "waiting"
  /\ UNCHANGED <<coreVars, whereto_written, debug_req_i, spun>>

EnableFetch ==
  /\ phase = "waiting" /\ phase' = "running"
  /\ UNCHANGED <<coreVars, whereto_written, debug_req_i, spun>>

RaiseRequest ==
  /\ phase = "running" /\ phase' = "requesting"
  /\ debug_req_i' = TRUE /\ spun' = 0
  /\ UNCHANGED <<coreVars, whereto_written>>

DebugFLAG(flag) == mem' = [mem EXCEPT ![FlagAt(FlagHart)] = flag]
whereto == whereto_written' = TRUE

Answer(flag) ==
  /\ phase = "requesting" /\ spun = ReqCycles /\ (HoldsRequest => debug_mode)
  /\ phase' = "answered" /\ debug_req_i' = FALSE
  /\ DebugFLAG(flag) /\ whereto
  /\ UNCHANGED <<pc, regs, debug_mode, depc, dscratch, ctrl, spun>>

SessionInit ==
  /\ pc = STARTprogrammADDR /\ regs = [r \in Registers |-> 0]
  /\ mem = [d \in DataAddress |-> 0]
  /\ debug_mode = FALSE /\ depc = 0
  /\ dscratch = [dscratch0 |-> 0, dscratch1 |-> 0]
  /\ ctrl = "DECODE"
  /\ whereto_written = FALSE /\ phase = "reset" /\ debug_req_i = FALSE /\ spun = 0

Answers == \E flag \in Flags : Answer(flag)
SessionNext ==
  \/ CoreStep \/ Stall
  \/ ReleaseReset \/ EnableFetch \/ RaiseRequest \/ Answers

SessionSpec == SessionInit /\ [][SessionNext]_sessionVars

\* clockSpin clocks the core, and every instruction ends; main() goes on.
FairSpec ==
  /\ SessionSpec
  /\ WF_sessionVars(CoreStep)
  /\ WF_sessionVars(ReleaseReset) /\ WF_sessionVars(EnableFetch)
  /\ WF_sessionVars(RaiseRequest) /\ WF_sessionVars(Answers) /\ WF_sessionVars(Stall)

-----------------------------------------------------------------------------
\* In debug mode the user's s0 and a0 are in the scratch registers, once saved.
Offset == pc - BASEdebugPROGaddr
UserRegs ==
  [r \in Registers |->
     IF r = s0 /\ debug_mode /\ Offset \notin {0, 12, 16} THEN dscratch["dscratch0"]
     ELSE IF r = a0 /\ debug_mode /\ Offset \notin {0, 12, 16, 20}
     THEN dscratch["dscratch1"]
     ELSE regs[r]]

User == INSTANCE UserRun WITH
  pc <- IF debug_mode THEN depc ELSE pc, regs <- UserRegs, word <- mem[64]

\* A debug session changes nothing for the program: it goes on where it was
\* halted, with the registers and the memory it had, although the debug program
\* uses two of its registers (testbench.cpp, loadDebugProgram: csrw dscratch0, s0
\* to dret).
DebugTransparent == User!UserSpec

\* A hart that is halted resumes: "Using the debug unit to: - Resume"
\* (verilator-model/README.md:25), "Test resume" (testbench.cpp:709).  The core
\* of top.sv, halted by main() as it is, does not.
Resumes == debug_mode ~> ~debug_mode
=============================================================================
