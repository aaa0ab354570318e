-------------------------- MODULE ControllerProgram --------------------------
(***************************************************************************)
(* The controller and its pipeline run the program as module Architecture  *)
(* does.  History variables hold the state of that machine; they follow    *)
(* what the controller lets happen, and never restrict it.                 *)
(* The events are seen where they cannot be taken back: an instruction     *)
(* executes when it enters EX, or, for those the controller executes       *)
(* itself, in the state that carries it out; a trap happens in the state   *)
(* that jumps to its handler.  That the controller was at the right        *)
(* address and left the right registers is for the properties to say.      *)
(***************************************************************************)
EXTENDS Controller

VARIABLES
  pc, debugging, regs,   \* the state of the program, as in Architecture
  steps                  \* instructions since the last return from debug mode

programVars == <<ctrlVars, pc, debugging, regs, steps>>

Arch == INSTANCE Architecture

\* An access that will be refused is not executed when it enters EX.
Executes(in, out) ==
  \/ /\ out.decoding /\ id_valid(in, out)
     /\ ~(instr.kind = "blocked" /\ csr.priv = "U")
  \/ ctrl_fsm_cs = "DECODE" /\ out.ns = "DBG_FLUSH" /\ instr.kind \in {"wfi", "fencei"}
     /\ ~HaltRequest
  \/ ctrl_fsm_cs = "FLUSH_WB" /\ out.ns = "WAIT_SLEEP"
  \/ ctrl_fsm_cs = "FLUSH_WB" /\ out.pc_set # {} /\ instr.kind = "fencei"
     /\ ~is_fetch_failed /\ ~data_err_q /\ ~illegal_insn_q
  \/ ctrl_fsm_cs = "XRET_JUMP"
Traps(in, out) == ctrl_fsm_cs = "FLUSH_WB" /\ out.pc_set # {} /\ ~Executes(in, out)
Interrupted == ctrl_fsm_cs \in {"IRQ_TAKEN_ID", "IRQ_TAKEN_IF"}
EntersDebug == ctrl_fsm_cs \in {"DBG_TAKEN_ID", "DBG_TAKEN_IF"}

Effects(in, out) ==
  IF Executes(in, out)
  THEN pc' = Arch!Target(instr) /\ regs' = Arch!Effect(instr)
  ELSE IF Traps(in, out)
  THEN pc' = Vector["exception"] /\ regs' = Arch!MachineTrap(Arch!EnabledHere)
  ELSE IF Interrupted
  THEN /\ pc' = IF regs.priv = "U" /\ ~irq_sec_q THEN Vector["user"] ELSE Vector["irq"]
       /\ regs' = IF regs.priv = "U" /\ ~irq_sec_q THEN Arch!UserTrap
                  ELSE Arch!MachineTrap(Arch!EnabledHere)
  ELSE IF EntersDebug
  THEN /\ pc' = Vector["debug"]
       /\ regs' = IF debugging THEN regs ELSE [regs EXCEPT !.depc = pc]
  ELSE UNCHANGED <<pc, regs>>

Track(in, out) ==
  /\ Effects(in, out)
  /\ debugging' = out.debug_mode
  /\ steps' = IF debug_mode_q THEN 0
              ELSE IF Executes(in, out) \/ Traps(in, out)
              THEN IF steps < 2 THEN steps + 1 ELSE steps
              ELSE steps

ProgramInit == Init /\ Arch!ArchInit /\ steps = 0

ProgramNext ==
  \E in \in PipelineInputs :
    PipelineOK(in) /\ Cycle(in, Outputs(in)) /\ Track(in, Outputs(in))

ProgramSpec == ProgramInit /\ [][ProgramNext]_programVars

\* In a smooth cycle all that is under way in EX and WB ends, and nobody asks
\* for anything new.  Every unit works for finitely many cycles and holds its
\* result, and every access and fetch is granted and answered; that requests are
\* made is not assumed.
Smooth(in) ==
  /\ ~in.hold /\ in.hazard = "none" /\ in.rvalid = wb
  /\ IsAccess(ex) => in.gnt \/ data_err_o \/ refused(in)
NoNewRequest == (irq_i' => irq_i) /\ (debug_req_i' => debug_req_i)
SmoothCycle ==
  \E in \in PipelineInputs :
    /\ PipelineOK(in) /\ Smooth(in)
    /\ Cycle(in, Outputs(in)) /\ Track(in, Outputs(in)) /\ NoNewRequest
FetchedCycle == ProgramNext /\ offer' # NoOffer /\ NoNewRequest

FairSpec ==
  ProgramSpec /\ WF_programVars(SmoothCycle) /\ WF_programVars(FetchedCycle)

-----------------------------------------------------------------------------
\* Types; an instruction register never holds what was not an instruction.
TypeOK ==
  /\ csr \in Registers
  /\ exc_ctrl_cs \in {"IDLE", "IRQ_PENDING", "IRQ_DONE"}
  /\ irq_sec_q \in BOOLEAN /\ irq_i \in BOOLEAN /\ irq_sec_i \in BOOLEAN
  /\ program \in Programs
  /\ pc_if \in Pc /\ pc_id \in Pc /\ pc_ex \in Pc
  /\ offer \in Instr \cup {NoOffer, Refused} /\ instr \in Instr /\ ex \in Instr \cup {Bubble}
  /\ instr_valid_id \in BOOLEAN /\ is_fetch_failed \in BOOLEAN /\ wb \in BOOLEAN
  /\ data_err_state_q \in {"IDLE", "GIVE_ERROR"}
  /\ ctrl_fsm_cs \in States
  /\ jump_done_q \in BOOLEAN /\ data_err_q \in BOOLEAN /\ debug_mode_q \in BOOLEAN
  /\ illegal_insn_q \in BOOLEAN /\ debug_req_i \in BOOLEAN

\* Behind an access that the protection unit refuses.
Doomed == ex.kind = "blocked" /\ csr.priv = "U"

\* The instruction that the controller looks at in DECODE is the next one of the
\* program: it is not from the wrong path of a jump, a branch, a trap or a
\* return, none is left out and none comes twice (riscv_controller.sv,
\* is_decoding_o; riscv_if_stage.sv, clear_instr_valid_i).
InOrder ==
  ctrl_fsm_cs = "DECODE" /\ instr_valid_id /\ ~branch_taken_ex /\ ~Doomed => pc_id = pc

\* An interrupt the controller is about to take is still remembered by the
\* interrupt controller and still requested, so that the acknowledgement is for it
\* and nothing else clears it meanwhile (riscv_controller.sv, "irq_req_ctrl_i comes
\* from a FF in the interrupt controller"; exc_kill_o and exc_ack_o).
IrqStates == {"IRQ_FLUSH", "IRQ_TAKEN_ID", "IRQ_TAKEN_IF"}
IrqHandshake == ctrl_fsm_cs \in IrqStates => irq_req_ctrl /\ irq_i

\* No trap, return or register write is under way.
WritesCsr == Written(ex) # csr
Settled == ctrl_fsm_cs \in {"DECODE", "FIRST_FETCH", "SLEEP"} /\ ~WritesCsr

\* mepc, uepc and dpc are the addresses at which the program was interrupted,
\* whichever stage's pc was saved and whatever was in flight: "the core sets
\* MEPC to the current program counter", and "DPC contains the virtual address
\* of the next instruction to be executed" (doc/user_manual.doc).
TrapPrecise ==
  Settled => csr.mepc = regs.mepc /\ csr.uepc = regs.uepc /\ csr.depc = regs.depc

\* The interrupt enables, their stacked copies and the privilege are those of the
\* program, although a write in EX, a trap and a return may meet
\* (riscv_controller.sv, FLUSH_EX: "check done to prevent data harzard in the
\* CSR registers").
EnableExact ==
  Settled => /\ csr.mie = regs.mie /\ csr.mpie = regs.mpie /\ csr.uie = regs.uie
             /\ csr.upie = regs.upie /\ csr.mpp = regs.mpp /\ csr.priv = regs.priv

\* What the controller lets happen is a run of the abstract machine: it executes
\* what is at the program's address, raises an exception only where there is
\* reason for one, and takes an interrupt only between two instructions, outside
\* debug mode and while the program has it enabled, although it was latched
\* earlier (riscv_int_controller.sv; riscv_controller.sv, "check again
\* irq_enable_int because xIE could have changed").
ImplementsArchitecture == Arch!ArchSpec

\* Between two visits to debug mode a stepped program executes one instruction,
\* or takes one trap, whatever path of the FSM the instruction takes
\* (riscv_controller.sv, "prevent any more instructions from executing").
StepsOne == csr.step /\ ~debugging => steps <= 1

\* An interrupt that stays requested and enabled is taken, also from sleep, unless
\* the program disables it or the debugger stops the core.
InterruptServed ==
  irq_i /\ irq_enable(FALSE) /\ ~debug_mode_q
    ~> exc_ctrl_cs = "IRQ_DONE" \/ ~irq_enable(FALSE) \/ debug_mode_q

\* A halt request is served, whatever the core does or waits for.
HaltServed == debug_req_i ~> debug_mode_q
=============================================================================
