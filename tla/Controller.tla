----------------------------- MODULE Controller -----------------------------
(***************************************************************************)
(* rtl/riscv_controller.sv: boot, sleep, jumps and branches, exceptions,   *)
(* interrupts and debug mode.  Every state has an operator that gives the  *)
(* outputs of a cycle as a record; a step is a clock edge.                 *)
(***************************************************************************)
EXTENDS Pipeline

VARIABLES
  ctrl_fsm_cs, jump_done_q, data_err_q, debug_mode_q, illegal_insn_q,
  debug_req_i   \* external: a debugger's request to halt

ctrlVars == <<csr, irqVars, pipeVars, ctrl_fsm_cs, jump_done_q, data_err_q,
              debug_mode_q, illegal_insn_q, debug_req_i>>

States ==
  {"RESET", "BOOT_SET", "SLEEP", "WAIT_SLEEP", "FIRST_FETCH", "DECODE",
   "IRQ_TAKEN_ID", "IRQ_TAKEN_IF", "IRQ_FLUSH", "FLUSH_EX", "FLUSH_WB", "XRET_JUMP",
   "DBG_TAKEN_ID", "DBG_TAKEN_IF", "DBG_FLUSH", "DBG_WAIT_BRANCH"}

-----------------------------------------------------------------------------
(* What the decoder says of the instruction in ID. *)

\* Machine mode alone may return from it and write its registers.
illegal_insn ==
  \/ instr.kind = "illegal"
  \/ /\ csr.priv = "U"
     /\ instr.kind \in {"mret", "dret", "set_mie", "clear_mie", "set_uie", "drop_mpp",
                        "write_mepc", "dcsr_step", "dcsr_ebreak"}
\* Mutant: writing mstatus.mie does not flush the pipeline.
csr_statusNotMie == instr.kind \in {"set_uie", "drop_mpp", "dcsr_step", "dcsr_ebreak"}
csr_status ==
  instr.kind \in {"set_mie", "clear_mie", "set_uie", "drop_mpp", "dcsr_step", "dcsr_ebreak"}
\* Without user mode, uret does nothing.
xret_insn ==
  \/ instr.kind \in {"mret", "dret"} /\ ~illegal_insn
  \/ instr.kind = "uret" /\ PULP_SECURE
ebrk_force_debug_mode == csr.ebreakm /\ csr.priv = "M"

-----------------------------------------------------------------------------
(* The outputs, by state. *)

\* pc_set is empty or holds the target; save names the stage whose pc is saved.
Quiet ==
  [ns |-> ctrl_fsm_cs, halt_if |-> FALSE, halt_id |-> FALSE, decoding |-> FALSE,
   pc_set |-> {}, save |-> "none", debug |-> FALSE, irq |-> FALSE,
   restore |-> "none", data_err_ack |-> FALSE, irq_ack |-> FALSE, kill |-> FALSE,
   jump_done |-> jump_done_q, debug_mode |-> debug_mode_q, illegal |-> illegal_insn_q]
\* Mutant: whatever halts the pipeline kills a pending interrupt.
HaltedKills == [Quiet EXCEPT !.halt_if = TRUE, !.halt_id = TRUE, !.kill = irq_req_ctrl]
Halted == [Quiet EXCEPT !.halt_if = TRUE, !.halt_id = TRUE]

Single == csr.step /\ ~debug_mode_q
HaltRequest == debug_req_i /\ ~debug_mode_q
IrqRequest == irq_req_ctrl /\ irq_enable(irq_sec_q)

BootSet == [Quiet EXCEPT !.pc_set = {Vector["boot"]}, !.ns = "FIRST_FETCH"]
\* Mutants: asleep for interrupts, or for the debugger.
SleepDebugOnly ==
  [Halted EXCEPT !.ns = IF debug_req_i \/ debug_mode_q \/ csr.step THEN "FIRST_FETCH" ELSE "SLEEP"]
SleepIrqOnly ==
  [Halted EXCEPT !.ns = IF irq_i \/ debug_mode_q \/ csr.step THEN "FIRST_FETCH" ELSE "SLEEP"]
Sleep ==
  [Halted EXCEPT !.ns = IF irq_i \/ debug_req_i \/ debug_mode_q \/ csr.step
                        THEN "FIRST_FETCH" ELSE "SLEEP"]
FirstFetch(in) ==
  IF HaltRequest THEN [Halted EXCEPT !.ns = "DBG_TAKEN_IF"]
  ELSE IF IrqRequest THEN [Halted EXCEPT !.ns = "IRQ_TAKEN_IF"]
  ELSE [Quiet EXCEPT !.ns = IF id_ready(in) THEN "DECODE" ELSE "FIRST_FETCH"]

\* The access in EX is refused; the jump waits for machine mode.
DataError ==
  [Halted EXCEPT !.save = "ex", !.data_err_ack = TRUE, !.ns = "FLUSH_WB"]
FetchError == [Halted EXCEPT !.save = "if", !.ns = "FLUSH_WB"]

\* The decoding block: one alternative per kind of instruction.
Decoding == [Quiet EXCEPT !.decoding = TRUE, !.kill = irq_req_ctrl]
HaltDecoding == [Decoding EXCEPT !.halt_if = TRUE, !.halt_id = TRUE]
Exception == [HaltDecoding EXCEPT !.save = "id", !.ns = "FLUSH_EX"]

Jump(in) ==
  IF in.hazard = "jr" \/ jump_done_q THEN Decoding
  ELSE [Decoding EXCEPT !.pc_set = {instr.to}, !.jump_done = TRUE]
Ebreak ==
  IF debug_mode_q \/ ebrk_force_debug_mode THEN [HaltDecoding EXCEPT !.ns = "DBG_FLUSH"]
  ELSE Exception

DecodeInstr(in) ==
  CASE illegal_insn -> [Exception EXCEPT !.illegal = TRUE]
    [] ~illegal_insn /\ instr.kind = "jump" -> Jump(in)
    [] ~illegal_insn /\ instr.kind = "ebreak" -> Ebreak
    [] ~illegal_insn /\ instr.kind = "ecall" -> Exception
    [] instr.kind \in {"wfi", "fencei"} \/ xret_insn ->
         [HaltDecoding EXCEPT !.ns = "FLUSH_EX"]
    [] ~illegal_insn /\ csr_status ->
         [Decoding EXCEPT !.halt_if = TRUE,
                          !.ns = IF id_ready(in) THEN "FLUSH_EX" ELSE "DECODE"]
    [] OTHER -> Decoding

\* Single steps end in debug mode, some of them once the next address is known.
StepEnds ==
  CASE illegal_insn \/ instr.kind = "ecall" \/ (xret_insn /\ instr.kind # "dret") -> "FLUSH_EX"
    [] instr.kind = "ebreak" /\ ~ebrk_force_debug_mode -> "FLUSH_EX"
    [] IsBranch(instr) -> "DBG_WAIT_BRANCH"
    [] OTHER -> "DBG_FLUSH"
SingleStep(in, out) ==
  IF ~Single THEN out
  ELSE [out EXCEPT !.halt_if = TRUE, !.ns = IF id_ready(in) THEN StepEnds ELSE @]

Decode(in) ==
  IF branch_taken_ex THEN [Quiet EXCEPT !.pc_set = {ex.to}]
  ELSE IF data_err_o THEN DataError
  ELSE IF is_fetch_failed THEN FetchError
  ELSE IF ~instr_valid_id THEN Quiet
  ELSE IF IrqRequest /\ ~debug_req_i /\ ~debug_mode_q
    THEN [Halted EXCEPT !.decoding = TRUE, !.ns = "IRQ_FLUSH"]
  ELSE IF HaltRequest THEN [Halted EXCEPT !.decoding = TRUE, !.ns = "DBG_FLUSH"]
  ELSE SingleStep(in, DecodeInstr(in))

FlushEx(in) ==
  IF data_err_o THEN [DataError EXCEPT !.illegal = FALSE]
  ELSE [Halted EXCEPT !.ns = IF ex_valid(in) THEN "FLUSH_WB" ELSE "FLUSH_EX"]

IrqFlush ==
  IF data_err_o THEN DataError
  ELSE IF irq_i /\ irq_enable(irq_sec_q) THEN [Halted EXCEPT !.ns = "IRQ_TAKEN_ID"]
  ELSE [Halted EXCEPT !.kill = TRUE, !.ns = "DECODE"]

IrqTaken(stage) ==
  [Quiet EXCEPT
     !.pc_set = {IF csr.priv = "U" /\ ~irq_sec_q THEN Vector["user"] ELSE Vector["irq"]},
     !.save = stage, !.irq = TRUE, !.irq_ack = TRUE, !.ns = "DECODE"]

\* Exceptions jump now that their cause is saved.
ToHandler == [Halted EXCEPT !.pc_set = {Vector["exception"]}, !.ns = "DECODE"]
\* Mutant: a step over an exception runs into the handler.
SteppedOn(out) == out
Stepped(out) == [out EXCEPT !.ns = IF Single THEN "DBG_TAKEN_IF" ELSE @]

FlushWb ==
  IF data_err_q \/ is_fetch_failed THEN ToHandler
  ELSE IF illegal_insn_q THEN Stepped([ToHandler EXCEPT !.illegal = FALSE])
  ELSE CASE instr.kind \in {"ebreak", "ecall"} -> Stepped(ToHandler)
         [] xret_insn -> [Halted EXCEPT !.restore = instr.kind, !.ns = "XRET_JUMP"]
         [] instr.kind = "wfi" -> [Halted EXCEPT !.ns = "WAIT_SLEEP"]
         [] instr.kind = "fencei" ->
              [Halted EXCEPT !.pc_set = {PcAfter(pc_id)}, !.ns = "DECODE"]
         [] OTHER -> [Halted EXCEPT !.ns = "DECODE"]

XretJump ==
  [Stepped([Quiet EXCEPT !.ns = "DECODE"]) EXCEPT
     !.pc_set = CASE instr.kind = "mret" -> {csr.mepc}
                  [] instr.kind = "uret" -> {csr.uepc}
                  [] instr.kind = "dret" -> {csr.depc},
     !.debug_mode = @ /\ instr.kind # "dret"]

DbgWaitBranch ==
  [Quiet EXCEPT !.halt_if = TRUE, !.pc_set = IF branch_taken_ex THEN {ex.to} ELSE {},
                !.ns = "DBG_FLUSH"]

DbgFlush ==
  IF data_err_o THEN DataError
  ELSE [Halted EXCEPT !.ns = IF Single THEN "DBG_TAKEN_IF" ELSE "DBG_TAKEN_ID"]

DbgTaken ==
  [Quiet EXCEPT !.pc_set = {Vector["debug"]}, !.debug_mode = TRUE, !.ns = "DECODE"]
DbgTakenId ==
  IF HaltRequest \/ (instr.kind = "ebreak" /\ ebrk_force_debug_mode /\ ~debug_mode_q)
  THEN [DbgTaken EXCEPT !.save = "id", !.debug = TRUE]
  ELSE DbgTaken
DbgTakenIf == [DbgTaken EXCEPT !.save = "if", !.debug = TRUE]

Outputs(in) ==
  CASE ctrl_fsm_cs = "RESET" -> [Quiet EXCEPT !.ns = "BOOT_SET"]
    [] ctrl_fsm_cs = "BOOT_SET" -> BootSet
    [] ctrl_fsm_cs = "WAIT_SLEEP" -> [Halted EXCEPT !.ns = "SLEEP"]
    [] ctrl_fsm_cs = "SLEEP" -> Sleep
    [] ctrl_fsm_cs = "FIRST_FETCH" -> FirstFetch(in)
    [] ctrl_fsm_cs = "DECODE" -> Decode(in)
    [] ctrl_fsm_cs = "FLUSH_EX" -> FlushEx(in)
    [] ctrl_fsm_cs = "FLUSH_WB" -> FlushWb
    [] ctrl_fsm_cs = "XRET_JUMP" -> XretJump
    [] ctrl_fsm_cs = "IRQ_FLUSH" -> IrqFlush
    [] ctrl_fsm_cs = "IRQ_TAKEN_ID" -> IrqTaken("id")
    [] ctrl_fsm_cs = "IRQ_TAKEN_IF" -> IrqTaken("if")
    [] ctrl_fsm_cs = "DBG_WAIT_BRANCH" -> DbgWaitBranch
    [] ctrl_fsm_cs = "DBG_FLUSH" -> DbgFlush
    [] ctrl_fsm_cs = "DBG_TAKEN_ID" -> DbgTakenId
    [] ctrl_fsm_cs = "DBG_TAKEN_IF" -> DbgTakenIf

-----------------------------------------------------------------------------
ControlStep(in, out) ==
  /\ ctrl_fsm_cs' = out.ns
  /\ jump_done_q' = (out.jump_done /\ ~id_ready(in))
  /\ data_err_q' = data_err_o
  /\ debug_mode_q' = out.debug_mode
  /\ illegal_insn_q' = out.illegal

\* Mutant: an interrupt taken before the first fetch saves the pc of ID.
SavedPcId(stage) == IF stage = "ex" THEN pc_ex ELSE pc_id
SavedPc(stage) == CASE stage = "if" -> pc_if [] stage = "id" -> pc_id [] stage = "ex" -> pc_ex

CsrStep(out) ==
  csr' = IF out.save # "none"
         THEN Saved(Written(ex), SavedPc(out.save),
                    [debug |-> out.debug, irq |-> out.irq, sec |-> irq_sec_q])
         ELSE IF out.restore # "none" THEN Restored(Written(ex), out.restore)
         ELSE Written(ex)

\* External: the event unit keeps an interrupt up until it is acknowledged.
EventUnit(ack) ==
  /\ irq_i' \in IF irq_i THEN {~ack} ELSE IF program.irqs THEN BOOLEAN ELSE {FALSE}
  /\ irq_sec_i' \in IF irq_i /\ irq_i' THEN {irq_sec_i}
                    ELSE IF irq_i' /\ PULP_SECURE THEN BOOLEAN ELSE {FALSE}

\* External: the debug module keeps its request up until the core is in debug mode.
DebugModule ==
  debug_req_i' \in
    IF debug_mode_q' THEN {FALSE}
    ELSE IF debug_req_i THEN {TRUE}
    ELSE IF program.halts /\ (csr.step => program.halts_step) THEN BOOLEAN
    ELSE {FALSE}

Init ==
  /\ CsrInit /\ IrqInit /\ PipeInit
  /\ ctrl_fsm_cs = "RESET" /\ jump_done_q = FALSE /\ data_err_q = FALSE
  /\ debug_mode_q = FALSE /\ illegal_insn_q = FALSE /\ debug_req_i = FALSE

Cycle(in, out) ==
  /\ PipeStep(in, out) /\ ControlStep(in, out) /\ CsrStep(out)
  /\ IrqStep(out.irq_ack, out.kill)
  /\ EventUnit(out.irq_ack) /\ DebugModule

Next == \E in \in PipelineInputs : PipelineOK(in) /\ Cycle(in, Outputs(in))

Spec == Init /\ [][Next]_ctrlVars
=============================================================================
