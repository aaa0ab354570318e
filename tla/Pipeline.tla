------------------------------ MODULE Pipeline ------------------------------
(***************************************************************************)
(* The pipeline as the controller sees it: what the IF stage offers, the   *)
(* IF/ID registers (rtl/riscv_if_stage.sv), the instruction in EX          *)
(* (riscv_id_stage.sv, riscv_ex_stage.sv), a data access in WB and the     *)
(* data error of the protection unit (riscv_pmp.sv).                       *)
(*                                                                         *)
(* The IF stage delivers the instructions of successive addresses from the *)
(* last jump on, as module FetchStage shows, and the load/store unit one   *)
(* access at a time, as in module LoadStoreUnit; p.elw, hardware loops,    *)
(* misaligned accesses and the floating-point unit are left out.           *)
(***************************************************************************)
EXTENDS InterruptController

CONSTANTS
  Programs,   \* the programs the core may run, with what may happen to them
  Vector      \* addresses of the trap handlers

Kinds ==
  {"alu", "access", "blocked", "jump", "taken", "untaken",
   "set_mie", "clear_mie", "set_uie", "drop_mpp", "write_mepc",
   "dcsr_step", "dcsr_ebreak", "illegal", "ecall", "ebreak", "mret",
   "uret", "dret", "wfi", "fencei"}
\* alu stands for all that may take several cycles in EX; a blocked access is
\* one the protection unit refuses in user mode; taken and untaken branch; to
\* is the target of a jump or branch and what write_mepc writes.
Instr == [kind : Kinds, to : Pc]
Bubble == [kind |-> "none", to |-> 0]

\* The instructions that may be at each address, the addresses user mode may
\* not fetch from, and whether interrupts and halt requests occur.
Program ==
  [at : [Pc -> SUBSET Instr], guarded : SUBSET Pc, irqs : BOOLEAN,
   halts : BOOLEAN, halts_step : BOOLEAN]

ASSUME VectorAssumption == Vector \in [{"boot", "exception", "irq", "user", "debug"} -> Pc]
ASSUME ProgramsAssumption == Programs \subseteq Program

VARIABLES
  program,
  pc_if, offer,                  \* IF: the next address, and what is there
  instr_valid_id, instr, pc_id,  \* IF/ID; the instruction stays when it is done
  is_fetch_failed,
  ex, pc_ex,                     \* ID/EX
  wb,                            \* a granted access whose answer is missing
  data_err_state_q               \* error FSM of the protection unit

pipeVars == <<program, pc_if, offer, instr_valid_id, instr, pc_id,
              is_fetch_failed, ex, pc_ex, wb, data_err_state_q>>

NoOffer == [kind |-> "none", to |-> 0]
Refused == [kind |-> "refused", to |-> 0]

IsAccess(i) == i.kind \in {"access", "blocked"}
IsBranch(i) == i.kind \in {"taken", "untaken"}

-----------------------------------------------------------------------------
(* EX and WB.  hold: a unit works for another cycle; hazard: the           *)
(* instruction in ID needs a result that is not there yet.                 *)

\* A branch leaves EX at once, and so does the comparison a bubble holds.
Holds == IF ex.kind = "alu" THEN BOOLEAN ELSE {FALSE}
Answers == IF wb THEN BOOLEAN ELSE {FALSE}
Grants == IF IsAccess(ex) THEN BOOLEAN ELSE {FALSE}
Hazards ==
  {"none"}
  \cup (IF IsAccess(ex) \/ wb THEN {"load"} ELSE {})
  \cup (IF instr.kind = "jump" /\ (ex.kind # "none" \/ wb) THEN {"jr"} ELSE {})

PipelineInputs == [hold : Holds, rvalid : Answers, gnt : Grants, hazard : Hazards]

data_req_o(in) == IsAccess(ex) /\ (wb => in.rvalid)
refused(in) == data_req_o(in) /\ csr.priv = "U" /\ ex.kind = "blocked"
data_err_o == data_err_state_q = "GIVE_ERROR"

\* Only a request that is made and not refused is granted, and a load that has
\* just been answered is no hazard.
PipelineOK(in) ==
  /\ in.gnt => data_req_o(in) /\ ~refused(in)
  /\ in.hazard = "load" => IsAccess(ex) \/ ~in.rvalid

lsu_ready_ex(in) == data_req_o(in) => in.gnt \/ data_err_o
wb_ready(in) == wb => in.rvalid
ex_valid(in) == ~in.hold /\ lsu_ready_ex(in) /\ wb_ready(in)
ex_ready(in) == ex_valid(in) \/ IsBranch(ex)
branch_taken_ex == ex.kind = "taken"

id_ready(in) == in.hazard = "none" /\ ex_ready(in)

-----------------------------------------------------------------------------
(* One clock edge; out holds the controller's outputs (module Controller). *)

\* Mutants: a jump does not clear ID; anything is taken from IF.
clear_instr_validNoBranch(in, out) == id_ready(in) \/ out.halt_id
if_validAny(in, out) == out.pc_set = {} /\ ~out.halt_if /\ id_ready(in)

id_valid(in, out) == ~out.halt_id /\ id_ready(in)
clear_instr_valid(in, out) == id_ready(in) \/ out.halt_id \/ branch_taken_ex
if_valid(in, out) ==
  offer.kind \in Kinds /\ out.pc_set = {} /\ ~out.halt_if /\ id_ready(in)

\* deassert_we does not reach alu_en: the division that was last in ID is started
\* again, without effect, when nothing else comes.
Leftover == IF instr.kind = "alu" /\ ~branch_taken_ex THEN instr ELSE Bubble

ExStep(in, out) ==
  /\ ex' = IF id_valid(in, out) THEN (IF out.decoding THEN instr ELSE Leftover)
           ELSE IF ex_ready(in) THEN Bubble ELSE ex
  /\ pc_ex' = IF id_valid(in, out) /\ out.decoding /\ (IsBranch(instr) \/ IsAccess(instr))
              THEN pc_id ELSE pc_ex
  /\ wb' = (in.gnt \/ (wb /\ ~in.rvalid))

\* riscv_pmp: the error is given from the cycle after the request until it is
\* acknowledged.
ErrorStep(in, out) ==
  data_err_state_q' =
    IF data_err_o THEN (IF out.data_err_ack THEN "IDLE" ELSE "GIVE_ERROR")
    ELSE IF refused(in) THEN "GIVE_ERROR" ELSE "IDLE"

\* What a fetch from an address brings, now or later.
Fetched(pc) ==
  {NoOffer} \cup (IF csr.priv = "U" /\ pc \in program.guarded THEN {Refused}
                  ELSE program.at[pc])

\* A refused fetch waits for the next jump.
FetchStep(in, out) ==
  /\ pc_if' = IF out.pc_set # {} THEN CHOOSE pc \in out.pc_set : TRUE
              ELSE IF if_valid(in, out) THEN PcAfter(pc_if) ELSE pc_if
  /\ offer' \in IF out.pc_set # {} \/ if_valid(in, out) \/ offer = NoOffer
                THEN Fetched(pc_if') ELSE {offer}

IdStep(in, out) ==
  \/ /\ if_valid(in, out)
     /\ instr_valid_id' = TRUE /\ instr' = offer /\ pc_id' = pc_if
     /\ is_fetch_failed' = FALSE
  \/ /\ ~if_valid(in, out) /\ clear_instr_valid(in, out)
     /\ instr_valid_id' = FALSE
     /\ is_fetch_failed' = (offer = Refused /\ out.pc_set = {})
     /\ UNCHANGED <<instr, pc_id>>
  \/ /\ ~if_valid(in, out) /\ ~clear_instr_valid(in, out)
     /\ UNCHANGED <<instr_valid_id, instr, pc_id, is_fetch_failed>>

PipeInit ==
  /\ program \in Programs
  /\ pc_if = 0 /\ offer = NoOffer
  /\ instr_valid_id = FALSE /\ instr = [kind |-> "illegal", to |-> 0] /\ pc_id = 0
  /\ is_fetch_failed = FALSE
  /\ ex = Bubble /\ pc_ex = 0 /\ wb = FALSE /\ data_err_state_q = "IDLE"

PipeStep(in, out) ==
  /\ FetchStep(in, out) /\ IdStep(in, out) /\ ExStep(in, out) /\ ErrorStep(in, out)
  /\ UNCHANGED program
=============================================================================
