----------------------------- MODULE FetchStage -----------------------------
(***************************************************************************)
(* rtl/riscv_if_stage.sv with its prefetch buffer (module PrefetchBuffer), *)
(* rtl/riscv_hwloop_controller.sv and rtl/riscv_hwloop_regs.sv: from the   *)
(* instruction memory to the IF/ID pipeline registers.                     *)
(*                                                                         *)
(* The ID stage and the controller are the surroundings.  What they do in  *)
(* a cycle with the instruction in ID is one of                            *)
(*   accept  it leaves and the next one may enter (id_ready, ~halt_if)     *)
(*   retire  it leaves and nothing may enter (id_ready, halt_if)           *)
(*   kill    it is dropped unexecuted (halt_id or branch_taken_ex)         *)
(*   hold    it stays (clear_instr_valid is low)                           *)
(***************************************************************************)
EXTENDS PrefetchBuffer, FiniteSets

CONSTANTS
  N_HWLP,    \* number of hardware loops (2)
  MaxCount,  \* bound on the loop counter, a 32-bit register in the core
  LoopSetup  \* address of an lp.setup instruction |-> what it writes

Loops == 0 .. N_HWLP - 1
Count == 0 .. MaxCount
Setups == [loop : Loops, end : Addr, count : Count]

ASSUME LoopsAssumption ==
  /\ N_HWLP \in Nat \ {0}
  /\ MaxCount \in Nat \ {0}
  /\ LoopSetup \in [DOMAIN LoopSetup -> Setups]
  /\ DOMAIN LoopSetup \subseteq Addr \ Compressed

VARIABLES
  offset_fsm_cs,                            \* WAIT once the first jump is made
  instr_valid_id, instr_id, pc_id,          \* IF/ID pipeline registers
  is_hwlp_id_q, hwlp_dec_cnt_id, is_fetch_failed,
  hwlp_dec_cnt_if,                          \* counters the last loop jump counts
  hwlp_start_q, hwlp_end_q, hwlp_counter_q  \* hardware loop registers

idVars == <<instr_valid_id, instr_id, pc_id, is_hwlp_id_q, hwlp_dec_cnt_id,
            is_fetch_failed>>
hwlpVars == <<hwlp_start_q, hwlp_end_q, hwlp_counter_q>>
stageVars == <<vars, offset_fsm_cs, idVars, hwlp_dec_cnt_if, hwlpVars>>

NoInstr == <<>>
Instrs == {NoInstr} \cup {<<half>> : half \in Half} \cup (Half \X Half)

AnyTarget == CHOOSE t \in Targets : TRUE

\* The controller jumps only in cycles it requests instructions, and halts the
\* IF stage while it does not (WAIT_SLEEP, SLEEP); the target matters with a jump.
StageInputs ==
  {in \in [req : BOOLEAN, pc_set : BOOLEAN, target : Targets,
           id : {"accept", "retire", "kill", "hold"},
           gnt : BOOLEAN, rvalid : BOOLEAN, err : BOOLEAN, rdata : Junk] :
     /\ in.pc_set => in.req
     /\ in.pc_set \/ in.target = AnyTarget
     /\ ~in.req => in.id # "accept"
     /\ ~(in.gnt /\ in.err)}

-----------------------------------------------------------------------------
(* riscv_hwloop_controller: the address being served is the end of a loop  *)
(* that has iterations left.  A decrement still in ID is accounted for.    *)

pc_if == IF valid_Q[0] THEN addr_Q[0] ELSE instr_addr_q
is_hwlp_id == is_hwlp_id_q /\ instr_valid_id

pc_is_end_addr(i) ==
  /\ pc_if = hwlp_end_q[i]
  /\ \/ hwlp_counter_q[i] >= 3
     \/ hwlp_counter_q[i] = 2 /\ ~(is_hwlp_id /\ hwlp_dec_cnt_id[i])

Ending == {i \in Loops : pc_is_end_addr(i)}
hwlp_jump == Ending # {}
InnerLoop == CHOOSE i \in Ending : \A j \in Ending : i <= j
hwlp_target == IF hwlp_jump THEN hwlp_start_q[InnerLoop] ELSE [w |-> 0, h |-> 0]
hwlp_dec_cnt == [i \in Loops |-> hwlp_jump /\ i = InnerLoop]

-----------------------------------------------------------------------------
(* The offset FSM and its handshakes with the prefetch buffer and ID. *)

branch_req(in) == in.pc_set \/ (offset_fsm_cs = "IDLE" /\ in.req)

FetchInput(in, ready) ==
  [req |-> in.req, branch |-> branch_req(in), addr |-> in.target,
   hwloop |-> hwlp_jump, hwloop_target |-> hwlp_target, ready |-> ready,
   gnt |-> in.gnt, rvalid |-> in.rvalid, err |-> in.err, rdata |-> in.rdata]

\* valid_o and rdata_o do not depend on the ready input
fetch_valid(in) == valid_o(FetchInput(in, FALSE))
if_valid(in) ==
  /\ offset_fsm_cs = "WAIT" /\ fetch_valid(in)
  /\ ~in.pc_set /\ ~hwlp_branch
  /\ in.id = "accept"
fetch_ready(in) == if_valid(in) /\ in.req

BufferInput(in) == FetchInput(in, fetch_ready(in))

\* riscv_compressed_decoder: a compressed instruction is its lower half alone
Decompressed(word) ==
  IF IsCompressed(word.lo) THEN <<word.lo>> ELSE <<word.lo, word.hi>>

OffsetFsm(in) ==
  offset_fsm_cs' = IF in.pc_set \/ in.req THEN "WAIT" ELSE offset_fsm_cs

LoadId(in) ==
  /\ if_valid(in)
  /\ instr_valid_id' = TRUE
  /\ instr_id' = Decompressed(rdata_o(BufferInput(in)))
  /\ pc_id' = pc_if
  /\ is_hwlp_id_q' = is_hwlp_o(BufferInput(in))
  /\ is_fetch_failed' = FALSE
  /\ hwlp_dec_cnt_id' =
       IF is_hwlp_o(BufferInput(in)) THEN hwlp_dec_cnt_if ELSE hwlp_dec_cnt_id

ClearId(in) ==
  /\ ~if_valid(in) /\ in.id # "hold"
  /\ instr_valid_id' = FALSE
  /\ is_fetch_failed' = fetch_failed_o(BufferInput(in))
  /\ UNCHANGED <<instr_id, pc_id, is_hwlp_id_q, hwlp_dec_cnt_id>>

HoldId(in) == ~if_valid(in) /\ in.id = "hold" /\ UNCHANGED idVars

LoopJumpReg ==
  hwlp_dec_cnt_if' = IF hwlp_jump THEN hwlp_dec_cnt ELSE hwlp_dec_cnt_if

-----------------------------------------------------------------------------
(* riscv_hwloop_regs: lp.setup in ID writes a loop, and its start is the   *)
(* pc of the IF stage; the target of a loop jump decrements as it leaves.  *)

Writes(in, i) ==
  /\ instr_valid_id /\ in.id # "kill"
  /\ pc_id \in DOMAIN LoopSetup /\ LoopSetup[pc_id].loop = i
Decrements(in, i) == is_hwlp_id /\ in.id # "hold" /\ hwlp_dec_cnt_id[i]

LoopRegs(in) ==
  /\ hwlp_start_q' = [i \in Loops |-> IF Writes(in, i) THEN pc_if ELSE hwlp_start_q[i]]
  /\ hwlp_end_q' =
       [i \in Loops |-> IF Writes(in, i) THEN LoopSetup[pc_id].end ELSE hwlp_end_q[i]]
  /\ hwlp_counter_q' =
       [i \in Loops |-> IF Writes(in, i) THEN LoopSetup[pc_id].count
                        ELSE IF Decrements(in, i)
                        THEN (hwlp_counter_q[i] - 1) % (MaxCount + 1)
                        ELSE hwlp_counter_q[i]]

-----------------------------------------------------------------------------
(* The controller makes its first request (BOOT_SET) together with the jump *)
(* to the boot address.  An instruction that sets up or ends a loop does   *)
(* not jump.                                                               *)

NoJump == DOMAIN LoopSetup \cup {LoopSetup[a].end : a \in DOMAIN LoopSetup}

ControllerOK(in) ==
  /\ offset_fsm_cs = "IDLE" => (in.req <=> in.pc_set)
  /\ in.pc_set /\ instr_valid_id /\ pc_id \in NoJump => in.id = "kill"

StageInit ==
  /\ Init
  /\ offset_fsm_cs = "IDLE"
  /\ instr_valid_id = FALSE /\ instr_id = NoInstr /\ pc_id = [w |-> 0, h |-> 0]
  /\ is_hwlp_id_q = FALSE /\ is_fetch_failed = FALSE
  /\ hwlp_dec_cnt_id = [i \in Loops |-> FALSE]
  /\ hwlp_dec_cnt_if = [i \in Loops |-> FALSE]
  /\ hwlp_start_q = [i \in Loops |-> [w |-> 0, h |-> 0]]
  /\ hwlp_end_q = [i \in Loops |-> [w |-> 0, h |-> 0]]
  /\ hwlp_counter_q = [i \in Loops |-> 0]

StageClock(in) ==
  /\ Clock(BufferInput(in))
  /\ OffsetFsm(in)
  /\ LoadId(in) \/ ClearId(in) \/ HoldId(in)
  /\ LoopJumpReg
  /\ LoopRegs(in)

StageNext ==
  \E in \in StageInputs :
    ControllerOK(in) /\ MemoryOK(BufferInput(in)) /\ StageClock(in)

StageSpec == StageInit /\ [][StageNext]_stageVars

-----------------------------------------------------------------------------
(* Liveness, while the controller is awake.  The memory grants and answers,*)
(* and ID takes what is offered; a jump is made by an instruction that     *)
(* reached ID (or by the boot), and empties ID.                            *)

LiveInputs == {in \in StageInputs : in.req /\ (in.pc_set => in.id = "kill")}

LiveStep(in) ==
  /\ in.pc_set => instr_valid_id \/ offset_fsm_cs = "IDLE"
  /\ ControllerOK(in) /\ MemoryOK(BufferInput(in)) /\ StageClock(in)

LiveNext == \E in \in LiveInputs : LiveStep(in)
Grants  == \E in \in {i \in LiveInputs : i.gnt} : LiveStep(in)
Answers == \E in \in {i \in LiveInputs : i.rvalid} : LiveStep(in)
Accepts == \E in \in {i \in LiveInputs : i.id = "accept"} : if_valid(in) /\ LiveStep(in)

LiveSpec ==
  /\ StageInit /\ [][LiveNext]_stageVars
  /\ WF_stageVars(Grants) /\ WF_stageVars(Answers) /\ WF_stageVars(Accepts)

\* An empty ID stage is eventually given an instruction: neither an aborted
\* request nor a loop jump leaves the fetch and loop FSMs waiting on each other.
InstrArrives == offset_fsm_cs = "WAIT" /\ ~instr_valid_id ~> instr_valid_id
=============================================================================
