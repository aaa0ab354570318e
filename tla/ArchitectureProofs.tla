------------------------- MODULE ArchitectureProofs -------------------------
(***************************************************************************)
(* Theorems about ControllerProgram, for every program, number of          *)
(* addresses and handlers.  First, with and without user mode, the types   *)
(* and what becomes of an interrupt.  Then, in a core without user mode    *)
(* and whatever interrupts, halt requests, stalls and memory delays occur: *)
(* the controller and its pipeline run the program as module Architecture  *)
(* does, except in the meetings that Fits names.                           *)
(***************************************************************************)
EXTENDS ControllerProgram, TLAPS

\* What a cycle's outputs may be.
OutType ==
  [ns : States, halt_if : BOOLEAN, halt_id : BOOLEAN, decoding : BOOLEAN,
   pc_set : SUBSET Pc, save : {"none", "if", "id", "ex"}, debug : BOOLEAN,
   irq : BOOLEAN, restore : {"none", "mret", "uret", "dret"},
   data_err_ack : BOOLEAN, irq_ack : BOOLEAN, kill : BOOLEAN,
   jump_done : BOOLEAN, debug_mode : BOOLEAN, illegal : BOOLEAN]

\* A return is carried out for the instruction that asked for it.
XretInId == ctrl_fsm_cs = "XRET_JUMP" => instr.kind \in {"mret", "uret", "dret"}

LEMMA QuietType == TypeOK => Quiet \in OutType /\ Halted \in OutType
BY DEF TypeOK, Quiet, Halted, OutType, irq_req_ctrl

LEMMA InstrType == TypeOK => ex.to \in Pc /\ instr.to \in Pc
BY NPCAssumption DEF TypeOK, Instr, Bubble, Pc

LEMMA VectorType ==
  /\ Vector["boot"] \in Pc /\ Vector["exception"] \in Pc /\ Vector["irq"] \in Pc
  /\ Vector["user"] \in Pc /\ Vector["debug"] \in Pc
BY VectorAssumption

LEMMA AfterType == ASSUME NEW a \in Pc PROVE PcAfter(a) \in Pc
BY NPCAssumption DEF Pc, PcAfter

-----------------------------------------------------------------------------
(* The outputs of every state. *)

LEMMA DecodingType ==
  ASSUME TypeOK
  PROVE  Decoding \in OutType /\ HaltDecoding \in OutType /\ Exception \in OutType
<1>1. Decoding \in OutType
  BY QuietType DEF Decoding, OutType, irq_req_ctrl
<1>2. HaltDecoding \in OutType
  BY <1>1 DEF HaltDecoding, OutType
<1> QED BY <1>1, <1>2 DEF Exception, OutType, States

LEMMA DecodeInstrType ==
  ASSUME TypeOK, NEW in \in PipelineInputs
  PROVE  DecodeInstr(in) \in OutType
<1>1. [Exception EXCEPT !.illegal = TRUE] \in OutType
  BY DecodingType DEF OutType
<1>2. Jump(in) \in OutType
  <2>1. [Decoding EXCEPT !.pc_set = {instr.to}, !.jump_done = TRUE] \in OutType
    BY DecodingType, InstrType DEF OutType
  <2> QED BY <2>1, DecodingType DEF Jump
<1>3. Ebreak \in OutType
  BY DecodingType DEF Ebreak, OutType, States
<1>4. [HaltDecoding EXCEPT !.ns = "FLUSH_EX"] \in OutType
  BY DecodingType DEF OutType, States
<1>5. [Decoding EXCEPT !.halt_if = TRUE,
                       !.ns = IF id_ready(in) THEN "FLUSH_EX" ELSE "DECODE"] \in OutType
  BY DecodingType DEF OutType, States
<1> QED BY <1>1, <1>2, <1>3, <1>4, <1>5, DecodingType DEF DecodeInstr

LEMMA DecodeType ==
  ASSUME TypeOK, NEW in \in PipelineInputs
  PROVE  Decode(in) \in OutType
<1>1. [Quiet EXCEPT !.pc_set = {ex.to}] \in OutType
  BY QuietType, InstrType DEF OutType
<1>2. DataError \in OutType /\ FetchError \in OutType
  BY QuietType DEF DataError, FetchError, OutType, States
<1>3. [Halted EXCEPT !.decoding = TRUE, !.ns = "IRQ_FLUSH"] \in OutType
  BY QuietType DEF OutType, States
<1>4. [Halted EXCEPT !.decoding = TRUE, !.ns = "DBG_FLUSH"] \in OutType
  BY QuietType DEF OutType, States
<1>5. StepEnds \in States
  BY DEF StepEnds, States
<1>6. SingleStep(in, DecodeInstr(in)) \in OutType
  BY <1>5, DecodeInstrType DEF SingleStep, OutType
<1> QED BY <1>1, <1>2, <1>3, <1>4, <1>6, QuietType DEF Decode

LEMMA FlushWbType == TypeOK => FlushWb \in OutType
<1> SUFFICES ASSUME TypeOK PROVE FlushWb \in OutType
  OBVIOUS
<1>1. ToHandler \in OutType
  BY QuietType, VectorType DEF ToHandler, OutType, States
<1>2. [ToHandler EXCEPT !.illegal = FALSE] \in OutType
  BY <1>1 DEF OutType
<1>3. ASSUME NEW out \in OutType PROVE Stepped(out) \in OutType
  BY DEF Stepped, OutType, States
<1>4. ASSUME xret_insn
      PROVE  [Halted EXCEPT !.restore = instr.kind, !.ns = "XRET_JUMP"] \in OutType
  <2>1. instr.kind \in {"mret", "uret", "dret"}
    BY <1>4 DEF xret_insn
  <2> QED BY <2>1, QuietType DEF OutType, States
<1>5. [Halted EXCEPT !.ns = "WAIT_SLEEP"] \in OutType
  BY QuietType DEF OutType, States
<1>6. [Halted EXCEPT !.pc_set = {PcAfter(pc_id)}, !.ns = "DECODE"] \in OutType
  BY QuietType, AfterType DEF OutType, States, TypeOK
<1>7. [Halted EXCEPT !.ns = "DECODE"] \in OutType
  BY QuietType DEF OutType, States
<1> QED BY <1>1, <1>2, <1>3, <1>4, <1>5, <1>6, <1>7 DEF FlushWb

LEMMA XretJumpType ==
  ASSUME TypeOK, instr.kind \in {"mret", "uret", "dret"}
  PROVE  XretJump \in OutType
<1> DEFINE out == Stepped([Quiet EXCEPT !.ns = "DECODE"])
           target == CASE instr.kind = "mret" -> {csr.mepc}
                       [] instr.kind = "uret" -> {csr.uepc}
                       [] instr.kind = "dret" -> {csr.depc}
<1>1. [Quiet EXCEPT !.ns = "DECODE"] \in OutType
  BY QuietType DEF OutType, States
<1>2. out \in OutType
  BY <1>1 DEF Stepped, OutType, States
<1>3. target \in SUBSET Pc
  BY DEF TypeOK, Registers
<1>4. (out.debug_mode /\ instr.kind # "dret") \in BOOLEAN
  OBVIOUS
<1> HIDE DEF out, target
<1>5. [out EXCEPT !.pc_set = target,
                  !.debug_mode = out.debug_mode /\ instr.kind # "dret"] \in OutType
  BY <1>2, <1>3, <1>4 DEF OutType
<1> QED BY <1>5 DEF XretJump, out, target

LEMMA OutputsType ==
  ASSUME TypeOK, XretInId, NEW in \in PipelineInputs
  PROVE  Outputs(in) \in OutType
<1>1. CASE ctrl_fsm_cs = "RESET"
  BY <1>1, QuietType DEF Outputs, OutType, States
<1>2. CASE ctrl_fsm_cs = "BOOT_SET"
  BY <1>2, QuietType, VectorType DEF Outputs, BootSet, OutType, States
<1>3. CASE ctrl_fsm_cs = "WAIT_SLEEP"
  BY <1>3, QuietType DEF Outputs, OutType, States
<1>4. CASE ctrl_fsm_cs = "SLEEP"
  BY <1>4, QuietType DEF Outputs, Sleep, OutType, States
<1>5. CASE ctrl_fsm_cs = "FIRST_FETCH"
  BY <1>5, QuietType DEF Outputs, FirstFetch, OutType, States
<1>6. CASE ctrl_fsm_cs = "DECODE"
  BY <1>6, DecodeType DEF Outputs
<1>7. CASE ctrl_fsm_cs = "FLUSH_EX"
  <2>1. [DataError EXCEPT !.illegal = FALSE] \in OutType
    BY QuietType DEF DataError, OutType, States
  <2>2. /\ [Halted EXCEPT !.ns = "FLUSH_WB"] \in OutType
        /\ [Halted EXCEPT !.ns = "FLUSH_EX"] \in OutType
    BY QuietType DEF OutType, States
  <2>3. FlushEx(in) \in OutType
    BY <2>1, <2>2 DEF FlushEx
  <2>4. QED BY <1>7, <2>3 DEF Outputs
<1>8. CASE ctrl_fsm_cs = "FLUSH_WB"
  BY <1>8, FlushWbType DEF Outputs
<1>9. CASE ctrl_fsm_cs = "XRET_JUMP"
  BY <1>9, XretJumpType DEF Outputs, XretInId
<1>10. CASE ctrl_fsm_cs = "IRQ_FLUSH"
  BY <1>10, QuietType DEF Outputs, IrqFlush, DataError, OutType, States
<1>11. CASE ctrl_fsm_cs \in {"IRQ_TAKEN_ID", "IRQ_TAKEN_IF"}
  <2>1. ASSUME NEW stage \in {"id", "if"} PROVE IrqTaken(stage) \in OutType
    BY QuietType, VectorType DEF IrqTaken, OutType, States
  <2> QED BY <1>11, <2>1 DEF Outputs
<1>12. CASE ctrl_fsm_cs = "DBG_WAIT_BRANCH"
  BY <1>12, QuietType, InstrType DEF Outputs, DbgWaitBranch, OutType, States
<1>13. CASE ctrl_fsm_cs = "DBG_FLUSH"
  BY <1>13, QuietType DEF Outputs, DbgFlush, DataError, OutType, States
<1>14. CASE ctrl_fsm_cs \in {"DBG_TAKEN_ID", "DBG_TAKEN_IF"}
  <2>1. DbgTaken \in OutType
    BY QuietType, VectorType DEF DbgTaken, OutType, States
  <2>2. ASSUME NEW stage \in {"id", "if"}
        PROVE  [DbgTaken EXCEPT !.save = stage, !.debug = TRUE] \in OutType
    BY <2>1 DEF OutType
  <2>3. DbgTakenId \in OutType
    BY <2>1, <2>2 DEF DbgTakenId
  <2>4. DbgTakenIf \in OutType
    BY <2>2 DEF DbgTakenIf
  <2> QED BY <1>14, <2>3, <2>4 DEF Outputs
<1> QED
  BY <1>1, <1>2, <1>3, <1>4, <1>5, <1>6, <1>7, <1>8, <1>9, <1>10, <1>11, <1>12,
     <1>13, <1>14 DEF TypeOK, States

-----------------------------------------------------------------------------
(* The registers traps write. *)

LEMMA WrittenType == TypeOK => Written(ex) \in Registers
<1> SUFFICES ASSUME TypeOK PROVE Written(ex) \in Registers
  OBVIOUS
<1>1. csr \in Registers /\ ex.to \in Pc
  BY InstrType DEF TypeOK
<1> QED BY <1>1, SecureAssumption DEF Written, Registers, Privilege

LEMMA SavedType ==
  ASSUME TypeOK, NEW n \in Registers, NEW a \in Pc, NEW trap
  PROVE  Saved(n, a, trap) \in Registers
<1>1. csr \in Registers
  BY DEF TypeOK
<1>2. SavedByDebug(n, a) \in Registers /\ SavedByUser(n, a) \in Registers
  BY <1>1 DEF SavedByDebug, SavedByUser, Registers, Privilege
<1>3. ASSUME NEW enabled \in BOOLEAN PROVE SavedByMachine(n, a, enabled) \in Registers
  BY <1>1 DEF SavedByMachine, Registers, Privilege
<1>4. csr.mie \in BOOLEAN /\ csr.uie \in BOOLEAN /\ csr.priv \in {"M", "U"}
  BY <1>1 DEF Registers, Privilege
<1>5. [SavedByMachine(n, a, csr.uie) EXCEPT !.mepc = n.mepc, !.depc = a] \in Registers
  BY <1>3, <1>4 DEF Registers
<1> QED BY <1>2, <1>3, <1>4, <1>5 DEF Saved

LEMMA RestoredType ==
  ASSUME TypeOK, NEW n \in Registers, NEW by \in {"mret", "uret", "dret"}
  PROVE  Restored(n, by) \in Registers
<1>1. csr \in Registers
  BY DEF TypeOK
<1>2. RestoredByMret(n) \in Registers
  BY <1>1 DEF RestoredByMret, Registers, Privilege
<1>3. RestoredByUret(n) \in Registers
  BY <1>1 DEF RestoredByUret, Registers, Privilege
<1>4. RestoredByDret(n) \in Registers
  BY <1>1, <1>2 DEF RestoredByDret, Registers
<1> QED BY <1>2, <1>3, <1>4 DEF Restored

-----------------------------------------------------------------------------
(* Where the FSM may turn to. *)

Turn(out) ==
  /\ out.ns = "XRET_JUMP" => xret_insn /\ out.halt_if
  /\ out.ns \in IrqStates =>
       ~out.kill /\ ~out.irq_ack /\ (irq_req_ctrl \/ ctrl_fsm_cs \in IrqStates)
  /\ out.irq_ack => ctrl_fsm_cs \in IrqStates

LEMMA DecodeTurn ==
  ASSUME TypeOK, ctrl_fsm_cs = "DECODE", NEW in \in PipelineInputs
  PROVE  Turn(Decode(in))
<1> DEFINE Plain(out) ==
      out \in OutType /\ out.ns \in {"DECODE", "FLUSH_EX", "DBG_FLUSH", "DBG_WAIT_BRANCH", "FLUSH_WB"}
        /\ ~out.irq_ack
<1>1. Plain(Quiet) /\ Plain([Quiet EXCEPT !.pc_set = {ex.to}])
  <2>1. Quiet \in OutType /\ Quiet.ns = "DECODE" /\ ~Quiet.irq_ack
    BY QuietType DEF Quiet
  <2>2. {ex.to} \in SUBSET Pc
    BY InstrType
  <2> QED BY <2>1, <2>2 DEF OutType
<1>2. Halted \in OutType /\ ~Halted.kill /\ ~Halted.irq_ack
  BY QuietType DEF Halted, Quiet
<1>3. Plain(DataError) /\ Plain(FetchError) /\ Plain([Halted EXCEPT !.decoding = TRUE, !.ns = "DBG_FLUSH"])
  BY <1>2 DEF DataError, FetchError, OutType, States
<1>4. Plain(Decoding) /\ Plain(HaltDecoding) /\ Plain(Exception)
  BY DecodingType DEF Decoding, HaltDecoding, Exception, Quiet, OutType
<1>5. Plain(DecodeInstr(in))
  <2>1. Plain([Exception EXCEPT !.illegal = TRUE])
    BY <1>4 DEF OutType
  <2>2. Plain(Jump(in))
    <3>1. Plain([Decoding EXCEPT !.pc_set = {instr.to}, !.jump_done = TRUE])
      BY <1>4, InstrType DEF OutType
    <3> QED BY <3>1, <1>4 DEF Jump
  <2>3. Plain([HaltDecoding EXCEPT !.ns = "FLUSH_EX"]) /\ Plain([HaltDecoding EXCEPT !.ns = "DBG_FLUSH"])
    BY <1>4 DEF OutType, States
  <2>4. Plain(Ebreak)
    BY <1>4, <2>3 DEF Ebreak
  <2>5. Plain([Decoding EXCEPT !.halt_if = TRUE,
                               !.ns = IF id_ready(in) THEN "FLUSH_EX" ELSE "DECODE"])
    BY <1>4 DEF OutType, States
  <2> HIDE DEF Plain
  <2> QED BY <1>4, <2>1, <2>2, <2>3, <2>4, <2>5 DEF DecodeInstr
<1>6. Plain(SingleStep(in, DecodeInstr(in)))
  <2>1. StepEnds \in {"FLUSH_EX", "DBG_WAIT_BRANCH", "DBG_FLUSH"}
    BY DEF StepEnds
  <2>2. ASSUME NEW out, Plain(out), NEW b \in BOOLEAN
        PROVE  Plain([out EXCEPT !.halt_if = TRUE, !.ns = IF b THEN StepEnds ELSE @])
    BY <2>1, <2>2 DEF OutType, States
  <2>3. id_ready(in) \in BOOLEAN
    BY DEF id_ready
  <2> HIDE DEF Plain
  <2> QED BY <1>5, <2>2, <2>3 DEF SingleStep
<1>7. ASSUME NEW out, Plain(out) PROVE Turn(out)
  BY <1>7 DEF Turn, IrqStates
<1>8. ASSUME IrqRequest
      PROVE  Turn([Halted EXCEPT !.decoding = TRUE, !.ns = "IRQ_FLUSH"])
  BY <1>2, <1>8 DEF Turn, IrqRequest, OutType
<1> HIDE DEF Plain
<1> QED BY <1>1, <1>3, <1>6, <1>7, <1>8 DEF Decode

LEMMA FlushWbTurn == TypeOK => Turn(FlushWb)
<1> SUFFICES ASSUME TypeOK PROVE Turn(FlushWb)
  OBVIOUS
<1> DEFINE Plain(out) == out \in OutType /\ out.ns = "DECODE" /\ ~out.irq_ack
<1>1. Halted \in OutType /\ ~Halted.irq_ack /\ Halted.halt_if
  BY QuietType DEF Halted, Quiet
<1>2. Plain(ToHandler) /\ Plain([ToHandler EXCEPT !.illegal = FALSE])
  BY <1>1, VectorType DEF ToHandler, OutType, States
<1>3. ASSUME NEW out, Plain(out) PROVE Turn(out) /\ Turn(Stepped(out))
  BY <1>3 DEF Turn, Stepped, IrqStates, OutType
<1>4. Turn([Halted EXCEPT !.restore = instr.kind, !.ns = "XRET_JUMP"]) \/ ~xret_insn
  BY <1>1 DEF Turn, IrqStates, OutType
<1>5. Turn([Halted EXCEPT !.ns = "WAIT_SLEEP"])
  BY <1>1 DEF Turn, IrqStates, OutType
<1>6. Plain([Halted EXCEPT !.pc_set = {PcAfter(pc_id)}, !.ns = "DECODE"])
  BY <1>1, AfterType DEF OutType, States, TypeOK
<1>7. Plain([Halted EXCEPT !.ns = "DECODE"])
  BY <1>1 DEF OutType, States
<1> HIDE DEF Plain
<1> QED BY <1>2, <1>3, <1>4, <1>5, <1>6, <1>7 DEF FlushWb

LEMMA OutputsTurn ==
  ASSUME TypeOK, XretInId, NEW in \in PipelineInputs
  PROVE  Turn(Outputs(in))
<1>1. /\ Quiet \in OutType /\ ~Quiet.irq_ack /\ ~Quiet.kill
      /\ Halted \in OutType /\ ~Halted.irq_ack /\ ~Halted.kill
  BY QuietType DEF Halted, Quiet
<1>2. CASE ctrl_fsm_cs = "RESET"
  BY <1>1, <1>2 DEF Outputs, OutType, Turn, IrqStates
<1>3. CASE ctrl_fsm_cs = "BOOT_SET"
  BY <1>1, <1>3, VectorType DEF Outputs, BootSet, OutType, Turn, IrqStates
<1>4. CASE ctrl_fsm_cs = "WAIT_SLEEP"
  BY <1>1, <1>4 DEF Outputs, OutType, Turn, IrqStates
<1>5. CASE ctrl_fsm_cs = "SLEEP"
  BY <1>1, <1>5 DEF Outputs, Sleep, OutType, Turn, IrqStates
<1>6. CASE ctrl_fsm_cs = "FIRST_FETCH"
  BY <1>1, <1>6 DEF Outputs, FirstFetch, IrqRequest, OutType, Turn, IrqStates
<1>7. CASE ctrl_fsm_cs = "DECODE"
  BY <1>7, DecodeTurn DEF Outputs
<1>8. CASE ctrl_fsm_cs = "FLUSH_EX"
  BY <1>1, <1>8 DEF Outputs, FlushEx, DataError, OutType, Turn, IrqStates
<1>9. CASE ctrl_fsm_cs = "FLUSH_WB"
  BY <1>9, FlushWbTurn DEF Outputs
<1>10. CASE ctrl_fsm_cs = "XRET_JUMP"
  <2>1. XretJump.ns \in {"DECODE", "DBG_TAKEN_IF"} /\ ~XretJump.irq_ack
    BY DEF XretJump, Stepped, Quiet
  <2> QED BY <1>10, <2>1 DEF Outputs, Turn, IrqStates
<1>11. CASE ctrl_fsm_cs = "IRQ_FLUSH"
  BY <1>1, <1>11 DEF Outputs, IrqFlush, DataError, OutType, Turn, IrqStates
<1>12. CASE ctrl_fsm_cs \in {"IRQ_TAKEN_ID", "IRQ_TAKEN_IF"}
  <2>1. ASSUME NEW stage PROVE IrqTaken(stage).ns = "DECODE"
    BY DEF IrqTaken, Quiet
  <2> QED BY <1>12, <2>1 DEF Outputs, Turn, IrqStates
<1>13. CASE ctrl_fsm_cs = "DBG_WAIT_BRANCH"
  BY <1>1, <1>13, InstrType DEF Outputs, DbgWaitBranch, OutType, Turn, IrqStates
<1>14. CASE ctrl_fsm_cs = "DBG_FLUSH"
  BY <1>1, <1>14 DEF Outputs, DbgFlush, DataError, OutType, Turn, IrqStates
<1>15. CASE ctrl_fsm_cs \in {"DBG_TAKEN_ID", "DBG_TAKEN_IF"}
  <2>1. /\ DbgTakenId.ns = "DECODE" /\ ~DbgTakenId.irq_ack
        /\ DbgTakenIf.ns = "DECODE" /\ ~DbgTakenIf.irq_ack
    BY DEF DbgTakenId, DbgTakenIf, DbgTaken, Quiet
  <2> QED BY <1>15, <2>1 DEF Outputs, Turn, IrqStates
<1> QED
  BY <1>2, <1>3, <1>4, <1>5, <1>6, <1>7, <1>8, <1>9, <1>10, <1>11, <1>12,
     <1>13, <1>14, <1>15 DEF TypeOK, States

-----------------------------------------------------------------------------
(* A cycle. *)

Inv == TypeOK /\ XretInId /\ IrqHandshake /\ (irq_req_ctrl => irq_i)

LEMMA CsrType ==
  ASSUME TypeOK, NEW out \in OutType, CsrStep(out)
  PROVE  csr' \in Registers
<1>1. Written(ex) \in Registers
  BY WrittenType
<1>2. ASSUME out.save # "none" PROVE SavedPc(out.save) \in Pc
  BY <1>2 DEF SavedPc, OutType, TypeOK
<1>3. ASSUME out.restore # "none" PROVE out.restore \in {"mret", "uret", "dret"}
  BY <1>3 DEF OutType
<1> DEFINE trap == [debug |-> out.debug, irq |-> out.irq, sec |-> irq_sec_q]
<1>4. ASSUME out.save # "none" PROVE Saved(Written(ex), SavedPc(out.save), trap) \in Registers
  <2> HIDE DEF trap
  <2> QED BY <1>1, <1>2, <1>4, SavedType
<1>5. ASSUME out.restore # "none" PROVE Restored(Written(ex), out.restore) \in Registers
  BY <1>1, <1>3, <1>5, RestoredType
<1> QED BY <1>1, <1>4, <1>5 DEF CsrStep

LEMMA FetchType ==
  ASSUME TypeOK, NEW in \in PipelineInputs, NEW out \in OutType, FetchStep(in, out)
  PROVE  pc_if' \in Pc /\ offer' \in Instr \cup {NoOffer, Refused}
<1>1. pc_if' \in Pc
  <2>1. ASSUME out.pc_set # {} PROVE (CHOOSE a \in out.pc_set : TRUE) \in Pc
    BY <2>1 DEF OutType
  <2>2. PcAfter(pc_if) \in Pc
    BY AfterType DEF TypeOK
  <2> QED BY <2>1, <2>2 DEF FetchStep, TypeOK
<1>2. program \in Program
  BY ProgramsAssumption DEF TypeOK
<1>3. ASSUME NEW a \in Pc PROVE Fetched(a) \subseteq Instr \cup {NoOffer, Refused}
  BY <1>2 DEF Fetched, Program
<1> QED BY <1>1, <1>3 DEF FetchStep, TypeOK

LEMMA IdType ==
  ASSUME TypeOK, NEW in \in PipelineInputs, NEW out \in OutType, IdStep(in, out)
  PROVE  /\ instr_valid_id' \in BOOLEAN /\ is_fetch_failed' \in BOOLEAN
         /\ instr' \in Instr /\ pc_id' \in Pc
         /\ out.halt_if => instr' = instr
<1>1. ASSUME if_valid(in, out) PROVE offer \in Instr /\ ~out.halt_if
  BY <1>1 DEF if_valid, TypeOK, NoOffer, Refused, Kinds
<1> QED BY <1>1 DEF IdStep, TypeOK

LEMMA ExType ==
  ASSUME TypeOK, NEW in \in PipelineInputs, NEW out \in OutType, ExStep(in, out)
  PROVE  ex' \in Instr \cup {Bubble} /\ pc_ex' \in Pc /\ wb' \in BOOLEAN
<1>1. in.gnt \in BOOLEAN /\ in.rvalid \in BOOLEAN
  BY DEF PipelineInputs, Grants, Answers
<1>2. ex' \in Instr \cup {Bubble}
  BY DEF ExStep, Leftover, TypeOK
<1>3. pc_ex' \in Pc
  BY DEF ExStep, TypeOK
<1>4. wb' \in BOOLEAN
  BY <1>1 DEF ExStep, TypeOK
<1> QED BY <1>2, <1>3, <1>4

LEMMA ControlType ==
  ASSUME TypeOK, NEW in \in PipelineInputs, NEW out \in OutType, ControlStep(in, out)
  PROVE  /\ ctrl_fsm_cs' \in States /\ jump_done_q' \in BOOLEAN /\ data_err_q' \in BOOLEAN
         /\ debug_mode_q' \in BOOLEAN /\ illegal_insn_q' \in BOOLEAN
BY DEF ControlStep, OutType, data_err_o, id_ready

LEMMA InterruptType ==
  ASSUME TypeOK, NEW out \in OutType, IrqStep(out.irq_ack, out.kill), EventUnit(out.irq_ack)
  PROVE  /\ exc_ctrl_cs' \in {"IDLE", "IRQ_PENDING", "IRQ_DONE"}
         /\ irq_sec_q' \in BOOLEAN /\ irq_i' \in BOOLEAN /\ irq_sec_i' \in BOOLEAN
<1>1. out.irq_ack \in BOOLEAN /\ out.kill \in BOOLEAN
  BY DEF OutType
<1>2. irq_i' \in BOOLEAN /\ irq_sec_i' \in BOOLEAN
  BY <1>1 DEF EventUnit, TypeOK
<1>3. exc_ctrl_cs' \in {"IDLE", "IRQ_PENDING", "IRQ_DONE"} /\ irq_sec_q' \in BOOLEAN
  BY DEF IrqStep, IrqIdle, IrqPending, IrqDone, TypeOK
<1> QED BY <1>2, <1>3

LEMMA TypeStep ==
  ASSUME TypeOK, NEW in \in PipelineInputs, NEW out \in OutType, Cycle(in, out)
  PROVE  TypeOK'
<1>1. csr' \in Registers
  BY CsrType DEF Cycle
<1>2. pc_if' \in Pc /\ offer' \in Instr \cup {NoOffer, Refused}
  BY FetchType DEF Cycle, PipeStep
<1>3. /\ instr_valid_id' \in BOOLEAN /\ is_fetch_failed' \in BOOLEAN
      /\ instr' \in Instr /\ pc_id' \in Pc
  BY IdType DEF Cycle, PipeStep
<1>4. ex' \in Instr \cup {Bubble} /\ pc_ex' \in Pc /\ wb' \in BOOLEAN
  BY ExType DEF Cycle, PipeStep
<1>5. program' \in Programs /\ data_err_state_q' \in {"IDLE", "GIVE_ERROR"}
  BY DEF Cycle, PipeStep, ErrorStep, TypeOK
<1>6. /\ ctrl_fsm_cs' \in States /\ jump_done_q' \in BOOLEAN /\ data_err_q' \in BOOLEAN
      /\ debug_mode_q' \in BOOLEAN /\ illegal_insn_q' \in BOOLEAN
  BY ControlType DEF Cycle
<1>7. /\ exc_ctrl_cs' \in {"IDLE", "IRQ_PENDING", "IRQ_DONE"}
      /\ irq_sec_q' \in BOOLEAN /\ irq_i' \in BOOLEAN /\ irq_sec_i' \in BOOLEAN
  BY InterruptType DEF Cycle
<1>8. debug_req_i' \in BOOLEAN
  BY <1>6 DEF Cycle, DebugModule, TypeOK
<1> QED BY <1>1, <1>2, <1>3, <1>4, <1>5, <1>6, <1>7, <1>8 DEF TypeOK, NoOffer, Refused, Bubble

\* A request stays remembered and up until it is acknowledged, and nothing but
\* the states that take it acknowledges it.
LEMMA HandshakeStep ==
  ASSUME Inv, NEW in \in PipelineInputs, NEW out \in OutType, Turn(out), Cycle(in, out)
  PROVE  IrqHandshake' /\ (irq_req_ctrl => irq_i)'
<1>1. out.irq_ack \in BOOLEAN /\ out.kill \in BOOLEAN /\ irq_i \in BOOLEAN
  BY DEF OutType, Inv, TypeOK
<1>2. irq_i /\ ~out.irq_ack => irq_i'
  BY <1>1 DEF Cycle, EventUnit
<1>3. irq_req_ctrl' => irq_i'
  <2>1. irq_req_ctrl' => irq_i /\ ~out.irq_ack
    <3>1. CASE IrqIdle
      <4>1. out.irq_ack => irq_req_ctrl
        BY DEF Turn, Inv, IrqHandshake
      <4> QED BY <3>1, <4>1 DEF IrqIdle, irq_req_ctrl
    <3>2. CASE IrqPending(out.irq_ack, out.kill)
      BY <3>2 DEF IrqPending, irq_req_ctrl, Inv
    <3>3. CASE IrqDone
      BY <3>3 DEF IrqDone, irq_req_ctrl
    <3> QED BY <3>1, <3>2, <3>3 DEF Cycle, IrqStep
  <2> QED BY <2>1, <1>2
<1>4. ctrl_fsm_cs' \in IrqStates => irq_req_ctrl'
  <2> SUFFICES ASSUME out.ns \in IrqStates PROVE irq_req_ctrl'
    BY DEF Cycle, ControlStep
  <2>1. irq_req_ctrl /\ ~out.kill /\ ~out.irq_ack
    BY DEF Turn, Inv, IrqHandshake
  <2> QED BY <2>1 DEF Cycle, IrqStep, IrqIdle, IrqPending, IrqDone, irq_req_ctrl
<1> QED BY <1>3, <1>4 DEF IrqHandshake, IrqStates

LEMMA InitInv == ProgramInit => Inv
<1> SUFFICES ASSUME Init PROVE Inv
  BY DEF ProgramInit
<1>1. 0 \in Pc
  BY NPCAssumption DEF Pc
<1>2. csr \in Registers
  BY <1>1 DEF Init, CsrInit, Registers, Privilege
<1>3. instr \in Instr
  BY <1>1 DEF Init, PipeInit, Instr, Kinds
<1> QED
  BY <1>1, <1>2, <1>3
  DEF Init, IrqInit, PipeInit, Inv, TypeOK, States, XretInId, IrqHandshake, IrqStates,
      irq_req_ctrl

LEMMA NextInv == Inv /\ [ProgramNext]_programVars => Inv'
<1> SUFFICES ASSUME Inv, [ProgramNext]_programVars PROVE Inv'
  OBVIOUS
<1>1. CASE UNCHANGED programVars
  BY <1>1
  DEF programVars, ctrlVars, irqVars, pipeVars, Inv, TypeOK, XretInId, IrqHandshake,
      irq_req_ctrl
<1>2. CASE ProgramNext
  <2>1. PICK in \in PipelineInputs : Cycle(in, Outputs(in))
    BY <1>2 DEF ProgramNext
  <2> DEFINE out == Outputs(in)
  <2>2. out \in OutType /\ Turn(out)
    BY OutputsType, OutputsTurn DEF Inv
  <2>3. Cycle(in, out)
    BY <2>1
  <2> HIDE DEF out
  <2>4. TypeOK'
    BY <2>2, <2>3, TypeStep DEF Inv
  <2>5. IrqHandshake' /\ (irq_req_ctrl => irq_i)'
    BY <2>2, <2>3, HandshakeStep
  <2>6. XretInId'
    <3> SUFFICES ASSUME out.ns = "XRET_JUMP" PROVE instr'.kind \in {"mret", "uret", "dret"}
      BY <2>3 DEF Cycle, ControlStep, XretInId
    <3>1. xret_insn /\ out.halt_if
      BY <2>2 DEF Turn
    <3>2. instr' = instr
      BY <2>2, <2>3, <3>1, IdType DEF Cycle, PipeStep, Inv
    <3> QED BY <3>1, <3>2 DEF xret_insn
  <2> QED BY <2>4, <2>5, <2>6 DEF Inv
<1> QED BY <1>1, <1>2

\* The types hold for every program, whatever it meets: the controller never
\* leaves its states, and nothing but instructions reaches ID and EX.
THEOREM TypeCorrect == ProgramSpec => []TypeOK
<1>1. Inv => TypeOK
  BY DEF Inv
<1> QED BY <1>1, InitInv, NextInv, PTL DEF ProgramSpec

\* An interrupt the controller is about to take is still remembered and requested,
\* for every program, with and without user mode.
THEOREM InterruptHandshake == ProgramSpec => []IrqHandshake
<1>1. Inv => IrqHandshake
  BY DEF Inv
<1> QED BY <1>1, InitInv, NextInv, PTL DEF ProgramSpec

-----------------------------------------------------------------------------
(* The refinement. *)

StatusWrites == {"set_mie", "clear_mie", "set_uie", "drop_mpp", "dcsr_step", "dcsr_ebreak"}
Writers == StatusWrites \cup {"write_mepc"}
Returns == {"mret", "dret"}
Faults == {"illegal", "ecall", "ebreak"}

Decoded == ctrl_fsm_cs = "DECODE" /\ instr_valid_id /\ ~branch_taken_ex

\* Four meetings that the code does not get right: an instruction in ID behind a
\* write of mepc that waits for an access, a halt request while stepping, a wfi in
\* debug mode, and a step over dret outside of it.
Fits ==
  Decoded =>
    /\ ex.kind = "write_mepc" => ~wb
    /\ csr.step => ~HaltRequest
    /\ instr.kind = "wfi" => ~debug_mode_q
    /\ instr.kind = "dret" => ~Single

\* Only the debugger asks for single steps, and a stepped wfi or fence.i does not
\* wait for what is in EX and WB.
StepFits ==
  Decoded =>
    /\ instr.kind = "dcsr_step" => debug_mode_q
    /\ Single /\ instr.kind \in {"wfi", "fencei"} => ex.kind # "alu" /\ ~IsAccess(ex) /\ ~wb

-----------------------------------------------------------------------------
(* The invariant: what is in each state of the controller. *)

Flushing == ctrl_fsm_cs \in {"FLUSH_EX", "FLUSH_WB"}
Excepting == Flushing /\ instr.kind \in Faults
AtIf == pc_if = pc
AtId == pc_id = pc /\ instr \in program.at[pc]
Calm == ex.kind \notin Writers

\* There is one privilege, and nothing is refused.
Machine ==
  /\ csr.priv = "M" /\ csr.mpp = "M" /\ regs.priv = "M" /\ regs.mpp = "M"
  /\ ~(csr.step /\ csr.ebreakm)
  /\ offer \in {NoOffer} \cup program.at[pc_if]
  /\ ~is_fetch_failed /\ ~data_err_o /\ ~data_err_q
  /\ debugging = debug_mode_q

\* What may be in ID ...
InId ==
  /\ instr_valid_id => ctrl_fsm_cs = "DECODE"
  /\ instr_valid_id /\ jump_done_q => instr.kind = "jump"
  /\ illegal_insn_q <=> Flushing /\ instr.kind = "illegal"
  /\ Flushing => instr.kind \in StatusWrites \cup Faults \cup Returns \cup {"wfi", "fencei"}
  /\ ctrl_fsm_cs = "XRET_JUMP" => instr.kind \in Returns
  /\ Flushing /\ instr.kind = "wfi" => ~debug_mode_q
  /\ ctrl_fsm_cs = "DBG_TAKEN_ID" \/ (ctrl_fsm_cs = "DBG_FLUSH" /\ ~Single) =>
       IF debug_mode_q THEN instr.kind = "ebreak"
       ELSE debug_req_i \/ (instr.kind = "ebreak" /\ csr.ebreakm)

\* ... and in EX.
InEx ==
  /\ instr_valid_id => ex.kind \notin StatusWrites
  /\ branch_taken_ex => ctrl_fsm_cs \in {"DECODE", "DBG_WAIT_BRANCH"}
  /\ ctrl_fsm_cs \notin {"DECODE", "FLUSH_EX", "DBG_FLUSH", "DBG_TAKEN_IF"} => Calm
  /\ ctrl_fsm_cs = "FLUSH_EX" /\ instr.kind \notin StatusWrites => Calm
  /\ ctrl_fsm_cs = "DBG_FLUSH" /\ ~Single => Calm

Mode ==
  /\ ctrl_fsm_cs \in {"RESET", "BOOT_SET", "WAIT_SLEEP", "SLEEP", "FIRST_FETCH",
                      "DBG_WAIT_BRANCH", "DBG_TAKEN_IF"} \cup IrqStates => ~debug_mode_q
  /\ ctrl_fsm_cs \in IrqStates => csr.mie
  /\ ctrl_fsm_cs = "DBG_WAIT_BRANCH" => csr.step
  /\ ctrl_fsm_cs = "RESET" => offer = NoOffer

\* Where the program is.
Ahead == IF jump_done_q THEN instr.to ELSE PcAfter(pc_id)
Position ==
  /\ ctrl_fsm_cs \in {"RESET", "BOOT_SET"} => pc = Vector["boot"]
  /\ ctrl_fsm_cs \in {"WAIT_SLEEP", "SLEEP", "FIRST_FETCH", "IRQ_TAKEN_IF", "DBG_TAKEN_IF"}
       => AtIf
  /\ ctrl_fsm_cs \in {"IRQ_FLUSH", "IRQ_TAKEN_ID", "DBG_TAKEN_ID", "XRET_JUMP"} => AtId
  /\ branch_taken_ex => pc = ex.to
  /\ Decoded => AtId /\ pc_if = Ahead
  /\ ctrl_fsm_cs \in {"DECODE", "DBG_WAIT_BRANCH"} /\ ~branch_taken_ex /\ ~instr_valid_id => AtIf
  /\ Flushing =>
       IF instr.kind \in StatusWrites THEN AtIf
       ELSE AtId /\ (instr.kind = "wfi" => pc_if = PcAfter(pc))
  /\ ctrl_fsm_cs = "DBG_FLUSH" => IF Single THEN AtIf ELSE AtId

\* What the registers will be when the write in EX is over: a trap and a return
\* change them before the program gets there.
View ==
  IF Excepting THEN Arch!MachineTrap(regs.mie)
  ELSE IF ctrl_fsm_cs = "XRET_JUMP" THEN Arch!MachineReturn
  ELSE regs
Agree(c, r) ==
  /\ c.mie = r.mie /\ c.mpie = r.mpie /\ c.uie = r.uie /\ c.upie = r.upie
  /\ c.mepc = r.mepc /\ c.uepc = r.uepc /\ c.depc = r.depc
Registered == Agree(Written(ex), View)

RegsType ==
  [priv : Privilege, mie : BOOLEAN, mpie : BOOLEAN, mpp : Privilege,
   uie : BOOLEAN, upie : BOOLEAN, mepc : Pc, uepc : Pc, depc : Pc]

ProgramInv ==
  /\ Inv /\ pc \in Pc /\ regs \in RegsType
  /\ Machine /\ InId /\ InEx /\ Mode /\ Position /\ Registered

-----------------------------------------------------------------------------
(* The registers, for one privilege. *)

LEMMA WrittenFields ==
  ASSUME TypeOK, NEW i
  PROVE  /\ Written(i) \in Registers \/ i.kind \in Writers
         /\ i.kind \notin Writers => Written(i) = csr
         /\ i.kind \notin StatusWrites =>
              Written(i).mie = csr.mie /\ Written(i).step = csr.step
                /\ Written(i).ebreakm = csr.ebreakm
BY DEF Written, Writers, StatusWrites, TypeOK, Registers

\* A write that is over, or is made again, leaves the registers as they are.
LEMMA WriteSettles ==
  ASSUME TypeOK, csr' = Written(ex), ex' = ex \/ ex'.kind \notin Writers, NEW r
  PROVE  /\ Agree(Written(ex), r) => Agree(Written(ex)', r)
         /\ ex'.kind \notin Writers => Written(ex)' = csr'
<1>1. csr \in Registers /\ ex.to \in Pc
  BY InstrType DEF TypeOK
<1>2. CASE ex'.kind \notin Writers
  BY <1>2 DEF Written, Writers, StatusWrites
<1>3. CASE ex' = ex
  BY <1>1, <1>3, SecureAssumption DEF Written, Agree, Registers, Writers, StatusWrites
<1> QED BY <1>2, <1>3

\* A write that enters EX is the effect of its instruction.
LEMMA WriteEnters ==
  ASSUME ~PULP_SECURE, TypeOK, Machine, regs \in RegsType, csr' = Written(ex), ex' = instr,
         instr.kind \notin Returns, Agree(Written(ex), regs)
  PROVE  Agree(Written(ex)', Arch!Effect(instr))
<1>1. csr \in Registers /\ ex.to \in Pc /\ instr.to \in Pc /\ instr.kind \in Kinds
  BY InstrType DEF TypeOK, Instr
<1>2. Written(ex) \in Registers
  BY WrittenType
<1> DEFINE n == Written(ex)
<1>3. n \in Registers /\ csr' = n /\ Agree(n, regs)
  BY <1>2
<1> HIDE DEF n
<1>4. CASE instr.kind \in {"set_mie", "clear_mie", "set_uie", "drop_mpp"}
  <2>1. CASE instr.kind = "set_mie"
    BY <1>3, <2>1 DEF Written, Agree, Registers, RegsType, Arch!Effect
  <2>2. CASE instr.kind = "clear_mie"
    BY <1>3, <2>2 DEF Written, Agree, Registers, RegsType, Arch!Effect
  <2>3. CASE instr.kind = "set_uie"
    BY <1>3, <2>3 DEF Written, Agree, Registers, RegsType, Arch!Effect
  <2>4. CASE instr.kind = "drop_mpp"
    <3>1. Arch!Effect(instr) = [regs EXCEPT !.mpp = IF PULP_SECURE THEN "U" ELSE "M"]
      BY <2>4 DEF Arch!Effect
    <3>2. Written(ex)' = [csr' EXCEPT !.mpp = IF PULP_SECURE THEN "U" ELSE "M"]
      BY <2>4 DEF Written
    <3> QED BY <1>3, <3>1, <3>2 DEF Agree, Registers, RegsType
  <2> QED BY <1>4, <2>1, <2>2, <2>3, <2>4
<1>5. CASE instr.kind \in {"dcsr_step", "dcsr_ebreak"}
  <2>1. Arch!Effect(instr) = regs
    BY <1>5 DEF Arch!Effect
  <2> QED BY <1>1, <1>3, <1>5, <2>1 DEF Written, Agree, Registers
<1>6. CASE instr.kind = "write_mepc"
  BY <1>1, <1>3, <1>6 DEF Written, Agree, Registers, RegsType, Arch!Effect
<1>7. CASE instr.kind \notin Writers
  <2>1. Arch!Effect(instr) = regs
    BY <1>7 DEF Arch!Effect, Returns, Writers, StatusWrites
  <2>2. Written(ex)' = csr'
    BY <1>7 DEF Written, Writers, StatusWrites
  <2> QED BY <1>3, <2>1, <2>2
<1> QED BY <1>4, <1>5, <1>6, <1>7 DEF Writers, StatusWrites

\* The three ways in which a trap saves and a return restores.
LEMMA MachineSaves ==
  ASSUME TypeOK, regs \in RegsType, regs.priv = "M", Agree(Written(ex), regs), ex.kind \notin StatusWrites,
         csr' = SavedByMachine(Written(ex), pc, csr.mie), ex'.kind \notin Writers
  PROVE  Agree(Written(ex)', Arch!MachineTrap(regs.mie)) /\ Written(ex)' = csr'
<1>1. Written(ex) \in Registers /\ Written(ex).mie = csr.mie
  BY WrittenType, WrittenFields
<1>2. Written(ex)' = csr'
  BY DEF Written, Writers, StatusWrites
<1> DEFINE n == Written(ex)
<1>3. n \in Registers /\ n.mie = csr.mie /\ csr' = SavedByMachine(n, pc, csr.mie) /\ Agree(n, regs)
  BY <1>1
<1> HIDE DEF n
<1>4. Agree(csr', Arch!MachineTrap(regs.mie))
  BY <1>3 DEF SavedByMachine, Agree, Registers, RegsType, Arch!MachineTrap
<1> QED BY <1>2, <1>4

LEMMA DebugSaves ==
  ASSUME TypeOK, regs \in RegsType, Agree(Written(ex), regs),
         csr' = SavedByDebug(Written(ex), pc), ex' = ex \/ ex'.kind \notin Writers
  PROVE  /\ Agree(Written(ex)', [regs EXCEPT !.depc = pc])
         /\ ex'.kind \notin Writers => Written(ex)' = csr'
<1>1. Written(ex) \in Registers /\ csr \in Registers /\ ex.to \in Pc
  BY WrittenType, InstrType DEF TypeOK
<1>2. ex'.kind \notin Writers => Written(ex)' = csr'
  BY DEF Written, Writers, StatusWrites
<1> DEFINE n == Written(ex)
<1>3. n \in Registers /\ csr' = SavedByDebug(n, pc) /\ Agree(n, regs)
  BY <1>1
<1>4. Agree(csr', [regs EXCEPT !.depc = pc])
  <2> HIDE DEF n
  <2> QED BY <1>3 DEF SavedByDebug, Agree, Registers, RegsType
<1>5. ASSUME ex' = ex PROVE Agree(Written(ex)', csr')
  BY <1>1, <1>5, SecureAssumption
  DEF Written, SavedByDebug, Agree, Registers, Writers, StatusWrites
<1> QED BY <1>2, <1>4, <1>5 DEF Agree

LEMMA ReturnRestores ==
  ASSUME ~PULP_SECURE, TypeOK, regs \in RegsType, regs.mpp = "M", Agree(csr, regs),
         NEW by \in Returns, csr' = Restored(csr, by), ex'.kind \notin Writers
  PROVE  Agree(Written(ex)', Arch!MachineReturn) /\ Written(ex)' = csr'
<1>1. csr' = RestoredByMret(csr)
  BY DEF Restored, Returns, RestoredByDret
<1>2. Agree(csr', Arch!MachineReturn)
  BY <1>1 DEF RestoredByMret, Agree, Arch!MachineReturn, TypeOK, Registers, RegsType
<1>3. Written(ex)' = csr'
  BY DEF Written, Writers, StatusWrites
<1> QED BY <1>2, <1>3

-----------------------------------------------------------------------------
(* One cycle, whatever the state. *)

Running(in, out) ==
  /\ ~PULP_SECURE /\ ProgramInv /\ Fits
  /\ in \in PipelineInputs /\ PipelineOK(in)
  /\ out = Outputs(in) /\ Cycle(in, out) /\ Track(in, out)

Issues(in, out) == id_valid(in, out) /\ out.decoding

LEMMA RunningTypes ==
  ASSUME NEW in, NEW out, Running(in, out)
  PROVE  /\ TypeOK /\ out \in OutType /\ Turn(out) /\ Inv' /\ program' = program
         /\ pc \in Pc /\ regs \in RegsType
<1>1. Inv
  BY DEF Running, ProgramInv
<1>2. out \in OutType /\ Turn(out)
  BY <1>1, OutputsType, OutputsTurn DEF Running, Inv
<1>3. Inv'
  <2>1. ProgramNext
    BY DEF Running, ProgramNext
  <2> QED BY <1>1, <2>1, NextInv
<1>4. program' = program
  BY DEF Running, Cycle, PipeStep
<1> QED BY <1>1, <1>2, <1>3, <1>4 DEF Inv, Running, ProgramInv

LEMMA StageIf ==
  ASSUME NEW in, NEW out, Running(in, out)
  PROVE  /\ offer' \in {NoOffer} \cup program.at[pc_if']
         /\ \A t : out.pc_set = {t} => pc_if' = t /\ ~if_valid(in, out)
         /\ out.pc_set = {} /\ ~if_valid(in, out) => pc_if' = pc_if
         /\ if_valid(in, out) =>
              /\ pc_if' = PcAfter(pc_if) /\ instr_valid_id' /\ instr' = offer /\ pc_id' = pc_if
              /\ offer \in program.at[pc_if]
              /\ out.pc_set = {} /\ ~out.halt_if /\ id_ready(in)
         /\ ~if_valid(in, out) =>
              /\ instr' = instr /\ pc_id' = pc_id
              /\ instr_valid_id' <=>
                   instr_valid_id /\ ~id_ready(in) /\ ~out.halt_id /\ ~branch_taken_ex
<1>1. FetchStep(in, out) /\ IdStep(in, out) /\ csr.priv = "M" /\ offer \in {NoOffer} \cup program.at[pc_if]
      /\ program' = program /\ instr_valid_id \in BOOLEAN
  BY DEF Running, Cycle, PipeStep, ProgramInv, Machine, Inv, TypeOK
<1>2. ASSUME NEW a PROVE Fetched(a) = {NoOffer} \cup program.at[a]
  BY <1>1 DEF Fetched
<1>3. if_valid(in, out) => offer \in program.at[pc_if] /\ out.pc_set = {} /\ ~out.halt_if /\ id_ready(in)
  BY <1>1 DEF if_valid, NoOffer, Kinds
<1>4. ASSUME NEW t, out.pc_set = {t} PROVE pc_if' = t /\ ~if_valid(in, out)
  BY <1>1, <1>4 DEF FetchStep, if_valid
<1>5. out.pc_set = {} /\ ~if_valid(in, out) => pc_if' = pc_if
  BY <1>1 DEF FetchStep
<1>6. if_valid(in, out) => pc_if' = PcAfter(pc_if)
  BY <1>1, <1>3 DEF FetchStep
<1>7. offer' \in {NoOffer} \cup program.at[pc_if']
  <2>1. CASE out.pc_set # {} \/ if_valid(in, out) \/ offer = NoOffer
    BY <1>1, <1>2, <2>1 DEF FetchStep
  <2>2. CASE ~(out.pc_set # {} \/ if_valid(in, out) \/ offer = NoOffer)
    BY <1>1, <1>5, <2>2 DEF FetchStep
  <2> QED BY <2>1, <2>2
<1>8. if_valid(in, out) => instr_valid_id' /\ instr' = offer /\ pc_id' = pc_if
  BY <1>1 DEF IdStep
<1>9. ASSUME ~if_valid(in, out)
      PROVE  /\ instr' = instr /\ pc_id' = pc_id
             /\ instr_valid_id' <=>
                  instr_valid_id /\ ~id_ready(in) /\ ~out.halt_id /\ ~branch_taken_ex
  BY <1>1, <1>9 DEF IdStep, clear_instr_valid
<1> QED BY <1>3, <1>4, <1>5, <1>6, <1>7, <1>8, <1>9

LEMMA StageEx ==
  ASSUME NEW in, NEW out, Running(in, out)
  PROVE  /\ Issues(in, out) => ex' = instr /\ id_ready(in) /\ ~out.halt_id
         /\ ~Issues(in, out) => ex' = ex \/ ex'.kind \notin Writers \cup {"taken"}
         /\ ex_ready(in) /\ ~Issues(in, out) => ex'.kind \notin Writers \cup {"taken"}
         /\ branch_taken_ex => ex_ready(in)
         /\ ex.kind = "write_mepc" /\ ~wb => ex_ready(in)
         /\ id_ready(in) => ex_ready(in)
         /\ ex_valid(in) => ex_ready(in)
<1>1. ExStep(in, out)
  BY DEF Running, Cycle, PipeStep
<1>2. Leftover.kind \notin Writers \cup {"taken"} /\ Bubble.kind \notin Writers \cup {"taken"}
  BY DEF Leftover, Bubble, Writers, StatusWrites
<1>3. Issues(in, out) => ex' = instr /\ id_ready(in) /\ ~out.halt_id
  BY <1>1 DEF ExStep, Issues, id_valid
<1>4. ~Issues(in, out) => ex' \in {Leftover, Bubble, ex}
  BY <1>1 DEF ExStep, Issues
<1>5. id_ready(in) => ex_ready(in)
  BY DEF id_ready
<1>6. ex_ready(in) /\ ~Issues(in, out) => ex' \in {Leftover, Bubble}
  BY <1>1, <1>5 DEF ExStep, Issues, id_valid
<1>7. ASSUME ex.kind = "write_mepc", ~wb PROVE ex_ready(in)
  <2>1. ~in.hold /\ in \in PipelineInputs
    BY <1>7 DEF Running, PipelineInputs, Holds
  <2> QED BY <1>7, <2>1 DEF ex_ready, ex_valid, lsu_ready_ex, wb_ready, data_req_o, IsAccess
<1> QED BY <1>2, <1>3, <1>4, <1>5, <1>6, <1>7 DEF branch_taken_ex, ex_ready, IsBranch

\* The registers of the core.
LEMMA StageCsr ==
  ASSUME NEW in, NEW out, Running(in, out)
  PROVE  /\ out.save = "none" /\ out.restore = "none" => csr' = Written(ex)
         /\ out.save = "none" /\ out.restore # "none" => csr' = Restored(Written(ex), out.restore)
         /\ out.save # "none" /\ ~out.debug =>
              csr' = SavedByMachine(Written(ex), SavedPc(out.save), csr.mie)
         /\ out.save # "none" /\ out.debug => csr' = SavedByDebug(Written(ex), SavedPc(out.save))
BY DEF Running, Cycle, CsrStep, Saved, ProgramInv, Machine

\* The registers of the program.
LEMMA ArchTypes ==
  ASSUME regs \in RegsType, pc \in Pc, regs.mpp = "M", regs.priv = "M", TypeOK
  PROVE  /\ Arch!Target(instr) \in Pc /\ Arch!Effect(instr) \in RegsType
         /\ Arch!Effect(instr).priv = "M" \/ PULP_SECURE
         /\ Arch!Effect(instr).mpp = "M" \/ PULP_SECURE
         /\ \A b \in BOOLEAN : Arch!MachineTrap(b) \in RegsType
                                /\ Arch!MachineTrap(b).priv = "M" /\ Arch!MachineTrap(b).mpp = "M"
         /\ Arch!MachineReturn \in RegsType
         /\ Arch!EnabledHere = regs.mie
<1>1. instr.to \in Pc /\ Arch!After(pc) \in Pc /\ regs.mepc \in Pc /\ regs.uepc \in Pc /\ regs.depc \in Pc
  BY InstrType, AfterType DEF Arch!After, PcAfter, RegsType
<1>2. Arch!Target(instr) \in Pc
  BY <1>1 DEF Arch!Target
<1>3. Arch!MachineReturn \in RegsType /\ (~PULP_SECURE => Arch!MachineReturn.priv = "M" /\ Arch!MachineReturn.mpp = "M")
  BY DEF Arch!MachineReturn, RegsType, Privilege
<1>4. Arch!UserReturn \in RegsType
  BY DEF Arch!UserReturn, RegsType, Privilege
<1>5. Arch!DebugReturn \in RegsType /\ (~PULP_SECURE => Arch!DebugReturn = Arch!MachineReturn)
  BY <1>3 DEF Arch!DebugReturn
<1>6. Arch!Effect(instr) \in RegsType
  <2>1. CASE instr.kind \in {"mret", "uret", "dret"}
    BY <1>3, <1>4, <1>5, <2>1 DEF Arch!Effect
  <2>2. CASE instr.kind \notin {"mret", "uret", "dret"}
    BY <1>1, <2>2, SecureAssumption DEF Arch!Effect, RegsType, Privilege
  <2> QED BY <2>1, <2>2
<1>7. ASSUME ~PULP_SECURE PROVE Arch!Effect(instr).priv = "M" /\ Arch!Effect(instr).mpp = "M"
  <2>1. CASE instr.kind \in Returns
    BY <1>3, <1>5, <1>7, <2>1 DEF Arch!Effect, Returns
  <2>2. CASE instr.kind \notin Returns
    BY <1>7, <2>2 DEF Arch!Effect, Returns, RegsType
  <2> QED BY <2>1, <2>2
<1>8. ASSUME NEW b \in BOOLEAN
      PROVE  /\ Arch!MachineTrap(b) \in RegsType
             /\ Arch!MachineTrap(b).priv = "M" /\ Arch!MachineTrap(b).mpp = "M"
  BY DEF Arch!MachineTrap, RegsType, Privilege
<1> QED BY <1>2, <1>3, <1>6, <1>7, <1>8 DEF Arch!EnabledHere

LEMMA MachineStep ==
  ASSUME NEW in, NEW out, Running(in, out), out.restore \in Returns \cup {"none"}
  PROVE  Machine' /\ pc' \in Pc /\ regs' \in RegsType
<1>1. /\ Machine /\ pc \in Pc /\ regs \in RegsType /\ TypeOK /\ ~PULP_SECURE
  BY RunningTypes DEF Running, ProgramInv
<1>2. csr'.priv = "M" /\ csr'.mpp = "M" /\ ~(csr'.step /\ csr'.ebreakm)
  <2> DEFINE n == Written(ex)
             Good(s) == s.priv = "M" /\ s.mpp = "M" /\ ~(s.step /\ s.ebreakm)
  <2>1. csr \in Registers /\ n \in Registers
    BY <1>1, WrittenType DEF TypeOK
  <2>2. Good(n)
    BY <1>1, <2>1 DEF Written, Machine, Registers
  <2> HIDE DEF n
  <2>3. ASSUME NEW a PROVE Good(SavedByDebug(n, a))
    BY <2>1, <2>2 DEF SavedByDebug, Registers
  <2>4. ASSUME NEW a, NEW b PROVE Good(SavedByMachine(n, a, b))
    BY <1>1, <2>1, <2>2 DEF SavedByMachine, Registers, Machine
  <2>5. ASSUME NEW by \in Returns PROVE Good(Restored(n, by))
    BY <1>1, <2>1, <2>2 DEF Restored, RestoredByDret, RestoredByMret, Returns, Registers
  <2> QED BY <2>2, <2>3, <2>4, <2>5, StageCsr DEF n
<1>3. pc' \in Pc /\ regs' \in RegsType /\ regs'.priv = "M" /\ regs'.mpp = "M"
  <2>1. Effects(in, out) /\ regs.priv = "M" /\ regs.mpp = "M"
    BY <1>1 DEF Running, Track, Machine
  <2>2. regs.mie \in BOOLEAN /\ Arch!EnabledHere \in BOOLEAN
    BY <1>1, <2>1 DEF RegsType, Arch!EnabledHere
  <2>3. [regs EXCEPT !.depc = pc] \in RegsType
    BY <1>1 DEF RegsType
  <2>4. [regs EXCEPT !.depc = pc].priv = "M" /\ [regs EXCEPT !.depc = pc].mpp = "M"
    BY <1>1, <2>1 DEF RegsType
  <2> HIDE DEF Effects
  <2> QED BY <1>1, <2>1, <2>2, <2>3, <2>4, ArchTypes, VectorType DEF Effects
<1>4. /\ ~is_fetch_failed' /\ ~data_err_o' /\ ~data_err_q'
  <2>1. offer # Refused
    BY <1>1, ProgramsAssumption DEF Machine, TypeOK, NoOffer, Refused, Program, Instr, Kinds
  <2>2. ~is_fetch_failed'
    BY <1>1, <2>1 DEF Running, Cycle, PipeStep, IdStep, Machine
  <2>3. ~data_err_o'
    BY <1>1 DEF Running, Cycle, PipeStep, ErrorStep, Machine, data_err_o, refused
  <2>4. ~data_err_q'
    BY <1>1 DEF Running, Cycle, ControlStep, Machine
  <2> QED BY <2>2, <2>3, <2>4
<1>5. debugging' = debug_mode_q'
  BY DEF Running, Track, Cycle, ControlStep
<1> QED BY <1>2, <1>3, <1>4, <1>5, StageIf, RunningTypes DEF Machine

-----------------------------------------------------------------------------
(* Cycles in which nothing happens to the program. *)

\* What every cycle has to show, besides Machine.
Kept(out) ==
  /\ InId' /\ InEx' /\ Mode' /\ Position' /\ Registered'
  /\ [Arch!ArchNext]_(Arch!archVars)
  /\ out.restore \in Returns \cup {"none"}

Coasts(in, out) ==
  /\ ~Executes(in, out) /\ ~Traps(in, out) /\ ~Interrupted /\ ~EntersDebug
  /\ out.save = "none" /\ out.restore = "none"
  /\ out.debug_mode = debug_mode_q /\ out.illegal = illegal_insn_q

LEMMA Coasting ==
  ASSUME NEW in, NEW out, Running(in, out), Coasts(in, out)
  PROVE  /\ pc' = pc /\ regs' = regs /\ UNCHANGED Arch!archVars /\ ~Issues(in, out)
         /\ debug_mode_q' = debug_mode_q /\ illegal_insn_q' = illegal_insn_q
         /\ \A r : Agree(Written(ex), r) => Agree(Written(ex)', r)
         /\ ex.kind \notin StatusWrites =>
              csr'.mie = csr.mie /\ csr'.step = csr.step /\ csr'.ebreakm = csr.ebreakm
<1>1. pc' = pc /\ regs' = regs /\ debugging' = debugging
  BY DEF Running, Track, Effects, Coasts, ProgramInv, Machine
<1>2. program' = program
  BY RunningTypes
<1>3. UNCHANGED Arch!archVars
  BY <1>1, <1>2 DEF Arch!archVars
<1>4. ~Issues(in, out)
  BY DEF Coasts, Executes, Issues, Running, ProgramInv, Machine
<1>5. debug_mode_q' = debug_mode_q /\ illegal_insn_q' = illegal_insn_q
  BY DEF Coasts, Running, Cycle, ControlStep
<1>6. csr' = Written(ex) /\ TypeOK
  BY StageCsr, RunningTypes DEF Coasts
<1>7. ex' = ex \/ ex'.kind \notin Writers
  BY <1>4, StageEx
<1>8. ASSUME NEW r, Agree(Written(ex), r) PROVE Agree(Written(ex)', r)
  BY <1>6, <1>7, <1>8, WriteSettles
<1> QED BY <1>1, <1>3, <1>4, <1>5, <1>6, <1>8, WrittenFields

LEMMA QuietHalted ==
  /\ Quiet.ns = ctrl_fsm_cs /\ ~Quiet.halt_if /\ ~Quiet.halt_id
  /\ Halted.ns = ctrl_fsm_cs /\ Halted.halt_if /\ Halted.halt_id
  /\ \A o \in {Quiet, Halted} :
       /\ ~o.decoding /\ o.pc_set = {} /\ o.save = "none" /\ ~o.debug /\ o.restore = "none"
       /\ o.jump_done = jump_done_q /\ o.debug_mode = debug_mode_q /\ o.illegal = illegal_insn_q
BY DEF Quiet, Halted

LEMMA KeepsStart ==
  ASSUME NEW in, NEW out, Running(in, out), ctrl_fsm_cs \in {"RESET", "BOOT_SET"}
  PROVE  Kept(out)
<1>1. /\ out.ns = IF ctrl_fsm_cs = "RESET" THEN "BOOT_SET" ELSE "FIRST_FETCH"
      /\ out.pc_set = IF ctrl_fsm_cs = "RESET" THEN {} ELSE {Vector["boot"]}
      /\ ~out.decoding /\ Coasts(in, out)
  BY QuietHalted DEF Running, Outputs, BootSet, Quiet, Coasts, Executes, Traps, Interrupted, EntersDebug
<1>2. ctrl_fsm_cs' = out.ns
  BY DEF Running, Cycle, ControlStep
<1>3. ProgramInv /\ TypeOK
  BY RunningTypes DEF Running
<1>4. ex.kind \notin Writers /\ ex.kind # "taken" /\ ~instr_valid_id /\ ~debug_mode_q /\ ~illegal_insn_q
  BY <1>3 DEF ProgramInv, InId, InEx, Mode, Calm, branch_taken_ex, Flushing
<1>5. ex'.kind \notin Writers \cup {"taken"}
  BY <1>1, <1>4, StageEx, Coasting
<1>6. ~if_valid(in, out)
  BY <1>1, <1>3, StageIf DEF if_valid, ProgramInv, Mode, NoOffer, Kinds
<1>7. ~instr_valid_id'
  BY <1>4, <1>6, StageIf
<1>8. Position'
  BY <1>1, <1>2, <1>3, <1>4, <1>5, <1>7, StageIf, Coasting
  DEF ProgramInv, Position, AtIf, Flushing, Decoded, branch_taken_ex
<1>9. InId' /\ InEx' /\ Mode'
  BY <1>1, <1>2, <1>3, <1>4, <1>5, <1>7, Coasting
  DEF InId, InEx, Mode, Flushing, branch_taken_ex, Calm, IrqStates
<1>10. Registered'
  BY <1>1, <1>2, <1>3, Coasting DEF ProgramInv, Registered, View, Excepting, Flushing
<1> QED BY <1>1, <1>8, <1>9, <1>10, Coasting DEF Kept, Coasts

LEMMA KeepsAsleep ==
  ASSUME NEW in, NEW out, Running(in, out), ctrl_fsm_cs \in {"WAIT_SLEEP", "SLEEP"}
  PROVE  Kept(out)
<1>1. /\ out.ns \in {"SLEEP", "FIRST_FETCH"} /\ out.pc_set = {} /\ out.halt_if
      /\ Coasts(in, out)
  BY QuietHalted DEF Running, Outputs, Sleep, Halted, Quiet, Coasts, Executes, Traps, Interrupted,
    EntersDebug
<1>2. ctrl_fsm_cs' = out.ns
  BY DEF Running, Cycle, ControlStep
<1>3. ProgramInv /\ TypeOK
  BY RunningTypes DEF Running
<1>4. ex.kind \notin Writers /\ ex.kind # "taken" /\ ~instr_valid_id /\ ~debug_mode_q /\ ~illegal_insn_q
  BY <1>3 DEF ProgramInv, InId, InEx, Mode, Calm, branch_taken_ex, Flushing
<1>5. ex'.kind \notin Writers \cup {"taken"}
  BY <1>4, StageEx, Coasting, <1>1
<1>6. ~if_valid(in, out)
  BY <1>1, StageIf
<1>7. ~instr_valid_id' /\ pc_if' = pc_if
  BY <1>1, <1>4, <1>6, StageIf
<1>8. Position'
  BY <1>1, <1>2, <1>3, <1>5, <1>7, Coasting
  DEF ProgramInv, Position, AtIf, Flushing, Decoded, branch_taken_ex
<1>9. InId' /\ InEx' /\ Mode'
  BY <1>1, <1>2, <1>4, <1>5, <1>7, Coasting
  DEF InId, InEx, Mode, Flushing, branch_taken_ex, Calm, IrqStates
<1>10. Registered'
  BY <1>1, <1>2, <1>3, Coasting DEF ProgramInv, Registered, View, Excepting, Flushing
<1> QED BY <1>1, <1>8, <1>9, <1>10, Coasting DEF Kept, Coasts

LEMMA KeepsFirstFetch ==
  ASSUME NEW in, NEW out, Running(in, out), ctrl_fsm_cs = "FIRST_FETCH"
  PROVE  Kept(out)
<1>1. /\ out.ns \in {"DBG_TAKEN_IF", "IRQ_TAKEN_IF"} => out.halt_if
      /\ out.ns = "IRQ_TAKEN_IF" => IrqRequest
      /\ out.ns \in {"DBG_TAKEN_IF", "IRQ_TAKEN_IF", "DECODE", "FIRST_FETCH"}
      /\ out.ns = "DECODE" => id_ready(in)
      /\ out.ns = "FIRST_FETCH" => ~id_ready(in)
      /\ out.pc_set = {} /\ Coasts(in, out) /\ out.jump_done = jump_done_q
  BY QuietHalted DEF Running, Outputs, FirstFetch, Halted, Quiet, Coasts, Executes, Traps, Interrupted,
    EntersDebug
<1>2. ctrl_fsm_cs' = out.ns /\ (jump_done_q' <=> jump_done_q /\ ~id_ready(in))
  BY <1>1 DEF Running, Cycle, ControlStep
<1>3. ProgramInv /\ TypeOK
  BY RunningTypes DEF Running
<1>4. ex.kind \notin Writers /\ ex.kind # "taken" /\ ~instr_valid_id /\ ~debug_mode_q /\ ~illegal_insn_q
  BY <1>3 DEF ProgramInv, InId, InEx, Mode, Calm, branch_taken_ex, Flushing
<1>5. ex'.kind \notin Writers \cup {"taken"}
  BY <1>4, StageEx, Coasting, <1>1
<1>6. /\ if_valid(in, out) => out.ns = "DECODE"
      /\ instr_valid_id' <=> if_valid(in, out)
  BY <1>1, <1>4, StageIf
<1>7. csr.mie \/ out.ns # "IRQ_TAKEN_IF"
  BY <1>1, <1>3 DEF IrqRequest, irq_enable, m_irq_enable, u_irq_enable, ProgramInv, Machine
<1>8. Position'
  <2>1. ctrl_fsm_cs' \in {"FIRST_FETCH", "IRQ_TAKEN_IF", "DBG_TAKEN_IF"} => pc_if' = pc'
    BY <1>1, <1>2, <1>3, <1>6, StageIf, Coasting DEF ProgramInv, Position, AtIf
  <2>2. instr_valid_id' => /\ pc_id' = pc' /\ instr' \in program'.at[pc'] /\ pc_if' = PcAfter(pc_id')
                           /\ ~jump_done_q'
    BY <1>1, <1>2, <1>3, <1>6, StageIf, Coasting, RunningTypes DEF ProgramInv, Position, AtIf
  <2>3. ~instr_valid_id' => pc_if' = pc'
    BY <1>1, <1>3, <1>6, StageIf, Coasting DEF ProgramInv, Position, AtIf
  <2> QED BY <1>1, <1>2, <1>5, <2>1, <2>2, <2>3
    DEF Position, AtIf, AtId, Ahead, Flushing, Decoded, branch_taken_ex
<1>9. InId' /\ InEx' /\ Mode'
  BY <1>1, <1>2, <1>3, <1>4, <1>5, <1>6, <1>7, Coasting, StageIf
  DEF InId, InEx, Mode, Flushing, branch_taken_ex, Calm, IrqStates, Writers
<1>10. Registered'
  BY <1>1, <1>2, <1>3, Coasting DEF ProgramInv, Registered, View, Excepting, Flushing
<1> QED BY <1>1, <1>8, <1>9, <1>10, Coasting DEF Kept, Coasts

LEMMA KeepsIrqFlush ==
  ASSUME NEW in, NEW out, Running(in, out), ctrl_fsm_cs = "IRQ_FLUSH"
  PROVE  Kept(out)
<1>1. ProgramInv /\ TypeOK
  BY RunningTypes DEF Running
<1>2. ~data_err_o /\ irq_i /\ irq_enable(irq_sec_q) /\ csr.mie
  BY <1>1 DEF ProgramInv, Inv, IrqHandshake, IrqStates, Machine, Mode, irq_enable, m_irq_enable
<1>3. /\ out.ns = "IRQ_TAKEN_ID" /\ out.pc_set = {} /\ out.halt_if /\ out.halt_id
      /\ Coasts(in, out)
  BY <1>2, QuietHalted DEF Running, Outputs, IrqFlush, Halted, Quiet, Coasts, Executes, Traps,
    Interrupted, EntersDebug
<1>4. ctrl_fsm_cs' = out.ns
  BY DEF Running, Cycle, ControlStep
<1>5. ex.kind \notin Writers /\ ex.kind # "taken" /\ ~instr_valid_id /\ ~debug_mode_q /\ ~illegal_insn_q
  BY <1>1 DEF ProgramInv, InId, InEx, Mode, Calm, branch_taken_ex, Flushing, IrqStates
<1>6. ex'.kind \notin Writers \cup {"taken"}
  BY <1>3, <1>5, StageEx, Coasting
<1>7. ~instr_valid_id' /\ instr' = instr /\ pc_id' = pc_id
  BY <1>3, <1>5, StageIf
<1>8. Position'
  BY <1>1, <1>3, <1>4, <1>6, <1>7, Coasting, RunningTypes
  DEF ProgramInv, Position, AtId, Flushing, Decoded, branch_taken_ex
<1>9. InId' /\ InEx' /\ Mode'
  BY <1>2, <1>3, <1>4, <1>5, <1>6, <1>7, Coasting
  DEF InId, InEx, Mode, Flushing, branch_taken_ex, Calm, IrqStates, Writers
<1>10. Registered'
  BY <1>1, <1>3, <1>4, Coasting DEF ProgramInv, Registered, View, Excepting, Flushing
<1> QED BY <1>3, <1>8, <1>9, <1>10, Coasting DEF Kept, Coasts

LEMMA KeepsWaitBranch ==
  ASSUME NEW in, NEW out, Running(in, out), ctrl_fsm_cs = "DBG_WAIT_BRANCH"
  PROVE  Kept(out)
<1>1. ProgramInv /\ TypeOK
  BY RunningTypes DEF Running
<1>2. /\ out.ns = "DBG_FLUSH" /\ out.halt_if /\ out.pc_set = (IF branch_taken_ex THEN {ex.to} ELSE {})
      /\ Coasts(in, out)
  BY QuietHalted DEF Running, Outputs, DbgWaitBranch, Quiet, Coasts, Executes, Traps,
    Interrupted, EntersDebug
<1>3. ctrl_fsm_cs' = out.ns
  BY DEF Running, Cycle, ControlStep
<1>4. ex.kind \notin Writers /\ ~instr_valid_id /\ ~debug_mode_q /\ ~illegal_insn_q /\ csr.step
  BY <1>1 DEF ProgramInv, InId, InEx, Mode, Calm, Flushing
<1>5. ex'.kind \notin Writers \cup {"taken"}
  BY <1>4, StageEx, Coasting, <1>2 DEF branch_taken_ex
<1>6. ~instr_valid_id' /\ pc_if' = pc'
  BY <1>1, <1>2, <1>4, StageIf, Coasting DEF ProgramInv, Position, AtIf
<1>7. Single'
  BY <1>2, <1>4, Coasting DEF Single, Writers
<1>8. Position'
  BY <1>2, <1>3, <1>5, <1>6, <1>7
  DEF Position, AtIf, Flushing, Decoded, branch_taken_ex
<1>9. InId' /\ InEx' /\ Mode'
  BY <1>2, <1>3, <1>4, <1>5, <1>6, <1>7, Coasting
  DEF InId, InEx, Mode, Flushing, branch_taken_ex, Calm, IrqStates
<1>10. Registered'
  BY <1>1, <1>2, <1>3, Coasting DEF ProgramInv, Registered, View, Excepting, Flushing
<1> QED BY <1>2, <1>8, <1>9, <1>10, Coasting DEF Kept, Coasts

LEMMA KeepsDbgFlush ==
  ASSUME NEW in, NEW out, Running(in, out), ctrl_fsm_cs = "DBG_FLUSH"
  PROVE  Kept(out)
<1>1. ProgramInv /\ TypeOK /\ ~data_err_o
  BY RunningTypes DEF Running, ProgramInv, Machine
<1>2. /\ out.ns = (IF Single THEN "DBG_TAKEN_IF" ELSE "DBG_TAKEN_ID")
      /\ out.halt_if /\ out.pc_set = {} /\ Coasts(in, out)
  BY <1>1, QuietHalted DEF Running, Outputs, DbgFlush, Halted, Quiet, Coasts, Executes, Traps,
    Interrupted, EntersDebug
<1>3. ctrl_fsm_cs' = out.ns
  BY DEF Running, Cycle, ControlStep
<1>4. ex.kind # "taken" /\ ~instr_valid_id /\ ~illegal_insn_q
  BY <1>1 DEF ProgramInv, InId, InEx, branch_taken_ex, Flushing
<1>5. ex'.kind # "taken"
  BY <1>4, StageEx, Coasting, <1>2
<1>6. ~Single => Calm' /\ csr'.ebreakm = csr.ebreakm
  <2> SUFFICES ASSUME ~Single PROVE Calm' /\ csr'.ebreakm = csr.ebreakm
    OBVIOUS
  <2>1. ex.kind \notin Writers
    BY <1>1 DEF ProgramInv, InEx, Calm
  <2> QED BY <1>2, <2>1, Coasting, StageEx DEF Calm, Writers
<1>7. ~instr_valid_id' /\ pc_if' = pc_if /\ pc_id' = pc_id /\ instr' = instr
  BY <1>2, <1>4, StageIf
<1>8. Position'
  BY <1>1, <1>2, <1>3, <1>5, <1>7, Coasting, RunningTypes
  DEF ProgramInv, Position, AtIf, AtId, Flushing, Decoded, branch_taken_ex
<1>9. debug_req_i /\ ~debug_mode_q => debug_req_i'
  <2>1. debug_mode_q' = debug_mode_q
    BY <1>2, Coasting
  <2>2. DebugModule
    BY DEF Running, Cycle
  <2> QED BY <2>1, <2>2 DEF DebugModule
<1>10. InId'
  BY <1>1, <1>2, <1>3, <1>4, <1>6, <1>7, <1>9, Coasting DEF ProgramInv, InId, Flushing
<1>11. InEx' /\ Mode'
  BY <1>2, <1>3, <1>4, <1>5, <1>6, <1>7, Coasting
  DEF InEx, Mode, Single, branch_taken_ex, Calm, IrqStates
<1>12. Registered'
  BY <1>1, <1>2, <1>3, Coasting DEF ProgramInv, Registered, View, Excepting, Flushing
<1> QED BY <1>2, <1>8, <1>10, <1>11, <1>12, Coasting DEF Kept, Coasts

LEMMA KeepsFlushEx ==
  ASSUME NEW in, NEW out, Running(in, out), ctrl_fsm_cs = "FLUSH_EX"
  PROVE  Kept(out)
<1>1. ProgramInv /\ TypeOK /\ ~data_err_o
  BY RunningTypes DEF Running, ProgramInv, Machine
<1>2. /\ out.ns = (IF ex_valid(in) THEN "FLUSH_WB" ELSE "FLUSH_EX")
      /\ out.halt_if /\ out.pc_set = {} /\ Coasts(in, out)
  BY <1>1, QuietHalted DEF Running, Outputs, FlushEx, Halted, Quiet, Coasts, Executes, Traps,
    Interrupted, EntersDebug
<1>3. ctrl_fsm_cs' = out.ns
  BY DEF Running, Cycle, ControlStep
<1>4. ex.kind # "taken" /\ ~instr_valid_id
  BY <1>1 DEF ProgramInv, InId, InEx, branch_taken_ex
<1>5. ex'.kind # "taken" /\ (out.ns = "FLUSH_WB" => Calm')
  BY <1>2, <1>4, StageEx, Coasting DEF Calm
<1>6. ~instr_valid_id' /\ pc_if' = pc_if /\ pc_id' = pc_id /\ instr' = instr
  BY <1>2, <1>4, StageIf
<1>7. instr.kind \notin StatusWrites => Calm'
  BY <1>1, <1>2, StageEx, Coasting DEF ProgramInv, InEx, Calm
<1>8. Position'
  BY <1>1, <1>2, <1>3, <1>5, <1>6, Coasting, RunningTypes
  DEF ProgramInv, Position, AtIf, AtId, Flushing, Decoded, branch_taken_ex
<1>9. InId' /\ InEx' /\ Mode'
  BY <1>1, <1>2, <1>3, <1>4, <1>5, <1>6, <1>7, Coasting
  DEF ProgramInv, InId, InEx, Mode, Flushing, branch_taken_ex, IrqStates
<1>10. View' = View
  BY <1>2, <1>3, <1>6, Coasting DEF View, Excepting, Flushing, Arch!MachineTrap, Arch!MachineReturn
<1>11. Registered'
  BY <1>1, <1>2, <1>10, Coasting DEF ProgramInv, Registered
<1> QED BY <1>2, <1>8, <1>9, <1>11, Coasting DEF Kept, Coasts

-----------------------------------------------------------------------------
(* Cycles in which something happens to the program. *)

LEMMA KeepsXretJump ==
  ASSUME NEW in, NEW out, Running(in, out), ctrl_fsm_cs = "XRET_JUMP"
  PROVE  Kept(out)
<1>1. ProgramInv /\ TypeOK /\ ~PULP_SECURE /\ program' = program
  BY RunningTypes DEF Running
<1>2. /\ instr.kind \in Returns /\ ~instr_valid_id /\ ~illegal_insn_q
      /\ ex.kind \notin Writers /\ ex.kind # "taken"
      /\ pc_id = pc /\ instr \in program.at[pc]
  BY <1>1 DEF ProgramInv, InId, InEx, Position, AtId, Calm, branch_taken_ex, Flushing
<1>3. /\ out.ns = (IF Single THEN "DBG_TAKEN_IF" ELSE "DECODE") /\ ~out.decoding
      /\ out.save = "none" /\ out.restore = "none" /\ out.illegal = illegal_insn_q
      /\ out.debug_mode = (debug_mode_q /\ instr.kind # "dret")
      /\ instr.kind = "mret" => out.pc_set = {csr.mepc}
      /\ instr.kind = "dret" => out.pc_set = {csr.depc}
  <2> DEFINE o == Stepped([Quiet EXCEPT !.ns = "DECODE"])
  <2>1. /\ o.ns = (IF Single THEN "DBG_TAKEN_IF" ELSE "DECODE")
        /\ o.save = "none" /\ o.restore = "none" /\ o.illegal = illegal_insn_q
        /\ o.debug_mode = debug_mode_q /\ ~o.decoding
        /\ {"ns", "pc_set", "debug_mode", "save", "restore", "illegal", "decoding"} \subseteq DOMAIN o
    BY DEF Stepped, Quiet
  <2>2. out = [o EXCEPT !.pc_set = CASE instr.kind = "mret" -> {csr.mepc}
                                     [] instr.kind = "uret" -> {csr.uepc}
                                     [] instr.kind = "dret" -> {csr.depc},
                        !.debug_mode = o.debug_mode /\ instr.kind # "dret"]
    BY DEF Running, Outputs, XretJump
  <2> HIDE DEF o
  <2> QED BY <1>2, <2>1, <2>2 DEF Returns
<1>4. /\ ctrl_fsm_cs' = out.ns /\ illegal_insn_q' = illegal_insn_q
      /\ debug_mode_q' = out.debug_mode /\ debugging' = out.debug_mode /\ debugging = debug_mode_q
  BY <1>1, <1>3 DEF Running, Cycle, ControlStep, Track, ProgramInv, Machine
<1>5. Agree(csr, Arch!MachineReturn) /\ csr' = Written(ex)
  BY <1>1, <1>2, <1>3, StageCsr, WrittenFields
  DEF ProgramInv, Registered, View, Excepting, Flushing
<1>6. Arch!MachineReturn.mepc = regs.mepc /\ Arch!MachineReturn.depc = regs.depc
  BY <1>1 DEF Arch!MachineReturn, ProgramInv, RegsType
<1>7. pc' = Arch!Target(instr) /\ regs' = Arch!MachineReturn /\ out.pc_set = {pc'}
  <2>1. pc' = Arch!Target(instr) /\ regs' = Arch!Effect(instr)
    BY DEF Running, Track, Effects, Executes
  <2>2. CASE instr.kind = "mret"
    BY <1>3, <1>5, <1>6, <2>1, <2>2 DEF Arch!Target, Arch!Effect, Agree
  <2>3. CASE instr.kind = "dret"
    BY <1>1, <1>3, <1>5, <1>6, <2>1, <2>3 DEF Arch!Target, Arch!Effect, Arch!DebugReturn, Agree
  <2> QED BY <1>2, <2>2, <2>3 DEF Returns
<1>8. Arch!ArchNext
  <2>1. ~Arch!Excepts(instr)
    BY <1>1, <1>2 DEF Arch!Excepts, ProgramInv, Machine, Returns
  <2>2. Arch!Execute(instr)
    <3>1. regs' = Arch!Effect(instr)
      BY DEF Running, Track, Effects, Executes
    <3> QED BY <1>2, <1>3, <1>4, <1>7, <2>1, <3>1 DEF Arch!Execute
  <2> QED BY <1>1, <1>2, <2>2 DEF Arch!ArchNext
<1>9. ~Issues(in, out) /\ ex'.kind \notin Writers \cup {"taken"}
  BY <1>2, <1>3, StageEx DEF Issues
<1>10. Registered'
  <2>1. Agree(Written(ex)', Arch!MachineReturn)
    BY <1>1, <1>2, <1>5, <1>9, WriteSettles, WrittenFields
  <2> QED BY <1>3, <1>4, <1>7, <2>1 DEF Registered, View, Excepting, Flushing
<1>11. ~instr_valid_id' /\ pc_if' = pc'
  BY <1>2, <1>7, StageIf
<1>12. Position'
  BY <1>3, <1>4, <1>9, <1>11 DEF Position, AtIf, Flushing, Decoded, branch_taken_ex
<1>13. InId' /\ InEx' /\ Mode'
  BY <1>2, <1>3, <1>4, <1>9, <1>11
  DEF InId, InEx, Mode, Single, Flushing, branch_taken_ex, Calm, IrqStates
<1> QED BY <1>3, <1>8, <1>10, <1>12, <1>13 DEF Kept

LEMMA KeepsIrqTaken ==
  ASSUME NEW in, NEW out, Running(in, out), Interrupted
  PROVE  Kept(out)
<1>1. ProgramInv /\ TypeOK /\ ~PULP_SECURE /\ program' = program
  BY RunningTypes DEF Running
<1>2. /\ ~instr_valid_id /\ ~illegal_insn_q /\ ex.kind \notin Writers /\ ex.kind # "taken"
      /\ ~debug_mode_q /\ ~debugging /\ csr.mie /\ csr.priv = "M" /\ regs.priv = "M"
  BY <1>1 DEF ProgramInv, Machine, InId, InEx, Mode, Calm, branch_taken_ex, Flushing, Interrupted,
    IrqStates
<1> DEFINE stage == IF ctrl_fsm_cs = "IRQ_TAKEN_ID" THEN "id" ELSE "if"
<1>3. /\ out.ns = "DECODE" /\ out.pc_set = {Vector["irq"]} /\ ~out.decoding
      /\ out.save = stage /\ out.restore = "none" /\ ~out.debug
      /\ out.illegal = illegal_insn_q /\ out.debug_mode = debug_mode_q
  BY <1>2 DEF Running, Outputs, IrqTaken, Quiet, Interrupted
<1>4. SavedPc(out.save) = pc
  BY <1>1, <1>3 DEF SavedPc, ProgramInv, Position, AtIf, AtId, Interrupted
<1>5. /\ ctrl_fsm_cs' = out.ns /\ illegal_insn_q' = illegal_insn_q
      /\ debug_mode_q' = debug_mode_q /\ debugging' = debug_mode_q /\ debugging = debug_mode_q
  BY <1>1, <1>3 DEF Running, Cycle, ControlStep, Track, ProgramInv, Machine
<1>6. csr' = SavedByMachine(Written(ex), pc, csr.mie)
  BY <1>3, <1>4, StageCsr
<1>7. Agree(Written(ex), regs) /\ Written(ex) = csr
  BY <1>1, <1>2, WrittenFields
  DEF ProgramInv, Registered, View, Excepting, Flushing, Interrupted
<1>8. ~Issues(in, out) /\ ex'.kind \notin Writers \cup {"taken"}
  BY <1>2, <1>3, StageEx DEF Issues
<1>9. regs.mie /\ Arch!EnabledHere = regs.mie
  BY <1>2, <1>7 DEF Agree, Arch!EnabledHere
<1>10. pc' = Vector["irq"] /\ regs' = Arch!MachineTrap(regs.mie)
  BY <1>2, <1>3, <1>9 DEF Running, Track, Effects, Executes, Traps, Interrupted
<1>11. Arch!ArchNext
  BY <1>1, <1>2, <1>5, <1>9, <1>10 DEF Arch!ArchNext, Arch!Interrupt, Arch!Enabled
<1>12. Registered'
  <2>1. Agree(Written(ex)', regs')
    BY <1>1, <1>2, <1>6, <1>7, <1>8, <1>10, MachineSaves DEF ProgramInv, Writers
  <2> QED BY <1>3, <1>5, <2>1 DEF Registered, View, Excepting, Flushing
<1>13. ~instr_valid_id' /\ pc_if' = pc'
  BY <1>2, <1>3, <1>10, StageIf
<1>14. Position'
  BY <1>3, <1>5, <1>8, <1>13 DEF Position, AtIf, Flushing, Decoded, branch_taken_ex
<1>15. InId' /\ InEx' /\ Mode'
  BY <1>2, <1>3, <1>5, <1>8, <1>13
  DEF InId, InEx, Mode, Flushing, branch_taken_ex, Calm, IrqStates
<1> QED BY <1>3, <1>11, <1>12, <1>14, <1>15 DEF Kept

LEMMA KeepsDbgTaken ==
  ASSUME NEW in, NEW out, Running(in, out), EntersDebug
  PROVE  Kept(out)
<1>1. ProgramInv /\ TypeOK /\ ~PULP_SECURE /\ program' = program
  BY RunningTypes DEF Running
<1>2. /\ ~instr_valid_id /\ ~illegal_insn_q /\ ex.kind # "taken" /\ csr.priv = "M"
      /\ debugging = debug_mode_q
  BY <1>1 DEF ProgramInv, Machine, InId, InEx, branch_taken_ex, Flushing, EntersDebug
<1> DEFINE stage == IF ctrl_fsm_cs = "DBG_TAKEN_IF" THEN "if"
                    ELSE IF debug_mode_q THEN "none" ELSE "id"
<1>3. /\ out.ns = "DECODE" /\ out.pc_set = {Vector["debug"]} /\ ~out.decoding
      /\ out.save = stage /\ out.restore = "none" /\ (out.save # "none" => out.debug)
      /\ out.illegal = illegal_insn_q /\ out.debug_mode = TRUE
  <2>1. CASE ctrl_fsm_cs = "DBG_TAKEN_IF"
    BY <2>1 DEF Running, Outputs, DbgTakenIf, DbgTaken, Quiet
  <2>2. CASE ctrl_fsm_cs = "DBG_TAKEN_ID"
    <3>1. HaltRequest \/ (instr.kind = "ebreak" /\ ebrk_force_debug_mode /\ ~debug_mode_q)
            <=> ~debug_mode_q
      BY <1>1, <1>2, <2>2 DEF ProgramInv, InId, HaltRequest, ebrk_force_debug_mode
    <3> QED BY <2>2, <3>1 DEF Running, Outputs, DbgTakenId, DbgTaken, Quiet
  <2> QED BY <2>1, <2>2 DEF EntersDebug
<1>4. stage # "none" => SavedPc(out.save) = pc
  BY <1>1, <1>3 DEF SavedPc, ProgramInv, Position, AtIf, AtId, EntersDebug
<1>5. /\ ctrl_fsm_cs' = out.ns /\ illegal_insn_q' = illegal_insn_q
      /\ debug_mode_q' = TRUE /\ debugging' = TRUE
  BY <1>3 DEF Running, Cycle, ControlStep, Track
<1>6. Agree(Written(ex), regs)
  BY <1>1 DEF ProgramInv, Registered, View, Excepting, Flushing, EntersDebug
<1>7. ~Issues(in, out) /\ (ex' = ex \/ ex'.kind \notin Writers) /\ ex'.kind # "taken"
  BY <1>2, <1>3, StageEx DEF Issues
<1>8. pc' = Vector["debug"] /\ regs' = IF debug_mode_q THEN regs ELSE [regs EXCEPT !.depc = pc]
  BY <1>2, <1>3 DEF Running, Track, Effects, Executes, Traps, Interrupted, EntersDebug
<1>9. debug_mode_q <=> stage = "none"
  BY <1>1 DEF ProgramInv, Mode
<1>10. Arch!ArchNext
  <2>1. CASE ~debug_mode_q
    BY <1>1, <1>2, <1>5, <1>8, <2>1 DEF Arch!ArchNext, Arch!EnterDebug
  <2>2. CASE debug_mode_q
    <3>1. \E i \in program.at[pc] : i.kind = "ebreak"
      BY <1>1, <1>9, <2>2 DEF ProgramInv, InId, Position, AtId, EntersDebug
    <3> QED BY <1>1, <1>2, <1>5, <1>8, <2>2, <3>1 DEF Arch!ArchNext, Arch!RestartDebug
  <2> QED BY <2>1, <2>2
<1>11. Registered'
  <2>1. Agree(Written(ex)', regs')
    <3>1. CASE ~debug_mode_q
      <4>1. csr' = SavedByDebug(Written(ex), pc)
        BY <1>3, <1>4, <1>9, <3>1, StageCsr
      <4> QED BY <1>1, <1>6, <1>7, <1>8, <3>1, <4>1, DebugSaves DEF ProgramInv
    <3>2. CASE debug_mode_q
      <4>1. csr' = Written(ex)
        BY <1>3, <1>9, <3>2, StageCsr
      <4> QED BY <1>1, <1>6, <1>7, <1>8, <3>2, <4>1, WriteSettles
    <3> QED BY <3>1, <3>2
  <2> QED BY <1>3, <1>5, <2>1 DEF Registered, View, Excepting, Flushing
<1>12. ~instr_valid_id' /\ pc_if' = pc'
  BY <1>2, <1>3, <1>8, StageIf
<1>13. Position'
  BY <1>3, <1>5, <1>7, <1>12 DEF Position, AtIf, Flushing, Decoded, branch_taken_ex
<1>14. InId' /\ InEx' /\ Mode'
  BY <1>2, <1>3, <1>5, <1>7, <1>12
  DEF InId, InEx, Mode, Flushing, branch_taken_ex, Calm, IrqStates
<1> QED BY <1>3, <1>10, <1>11, <1>13, <1>14 DEF Kept

\* Each instruction that reaches FLUSH_WB leaves it in its own way.
LEMMA FlushWbOutputs ==
  ASSUME Machine, TypeOK, illegal_insn_q <=> instr.kind = "illegal",
         instr.kind \in StatusWrites \cup Faults \cup Returns \cup {"wfi", "fencei"}
  PROVE  /\ FlushWb.halt_if /\ FlushWb.halt_id /\ ~FlushWb.decoding /\ FlushWb.save = "none"
         /\ FlushWb.debug_mode = debug_mode_q /\ FlushWb.illegal = FALSE
         /\ FlushWb.restore = IF instr.kind \in Returns THEN instr.kind ELSE "none"
         /\ FlushWb.pc_set = IF instr.kind \in Faults THEN {Vector["exception"]}
                             ELSE IF instr.kind = "fencei" THEN {PcAfter(pc_id)} ELSE {}
         /\ FlushWb.ns = IF instr.kind \in Faults THEN IF Single THEN "DBG_TAKEN_IF" ELSE "DECODE"
                         ELSE IF instr.kind \in Returns THEN "XRET_JUMP"
                         ELSE IF instr.kind = "wfi" THEN "WAIT_SLEEP" ELSE "DECODE"
<1>1. /\ ~data_err_q /\ ~is_fetch_failed /\ illegal_insn_q \in BOOLEAN
      /\ xret_insn <=> instr.kind \in Returns
  BY DEF Machine, xret_insn, illegal_insn, Returns, TypeOK, StatusWrites, Faults
<1>2. CASE instr.kind = "illegal"
  BY <1>1, <1>2 DEF FlushWb, Stepped, ToHandler, Halted, Quiet, Faults, Returns
<1>3. CASE instr.kind \in {"ebreak", "ecall"}
  BY <1>1, <1>3 DEF FlushWb, Stepped, ToHandler, Halted, Quiet, Faults, Returns
<1>4. CASE instr.kind \in Returns
  BY <1>1, <1>4 DEF FlushWb, Halted, Quiet, Faults, Returns
<1>5. CASE instr.kind = "wfi"
  BY <1>1, <1>5 DEF FlushWb, Halted, Quiet, Faults, Returns
<1>6. CASE instr.kind = "fencei"
  BY <1>1, <1>6 DEF FlushWb, Halted, Quiet, Faults, Returns
<1>7. CASE instr.kind \in StatusWrites
  BY <1>1, <1>7 DEF FlushWb, Halted, Quiet, Faults, Returns, StatusWrites
<1> QED BY <1>2, <1>3, <1>4, <1>5, <1>6, <1>7 DEF Faults

LEMMA KeepsFlushWb ==
  ASSUME NEW in, NEW out, Running(in, out), ctrl_fsm_cs = "FLUSH_WB"
  PROVE  Kept(out)
<1>1. ProgramInv /\ TypeOK /\ ~PULP_SECURE /\ program' = program /\ Machine
  BY RunningTypes DEF Running, ProgramInv
<1>2. /\ instr.kind \in StatusWrites \cup Faults \cup Returns \cup {"wfi", "fencei"}
      /\ illegal_insn_q <=> instr.kind = "illegal"
      /\ ~instr_valid_id /\ ex.kind \notin Writers /\ ex.kind # "taken"
      /\ instr.kind = "wfi" => ~debug_mode_q
      /\ csr.priv = "M" /\ regs.priv = "M" /\ debugging = debug_mode_q
      /\ ~data_err_q /\ ~is_fetch_failed
  BY <1>1 DEF ProgramInv, Machine, InId, InEx, Calm, branch_taken_ex, Flushing
<1>3. out = FlushWb
  BY DEF Running, Outputs
<1>4. /\ ~out.decoding /\ out.save = "none" /\ out.illegal = FALSE
      /\ out.restore = IF instr.kind \in Returns THEN instr.kind ELSE "none"
      /\ out.pc_set = IF instr.kind \in Faults THEN {Vector["exception"]}
                      ELSE IF instr.kind = "fencei" THEN {PcAfter(pc_id)} ELSE {}
      /\ out.ns = IF instr.kind \in Faults THEN IF Single THEN "DBG_TAKEN_IF" ELSE "DECODE"
                  ELSE IF instr.kind \in Returns THEN "XRET_JUMP"
                  ELSE IF instr.kind = "wfi" THEN "WAIT_SLEEP" ELSE "DECODE"
      /\ out.halt_if /\ out.halt_id /\ out.debug_mode = debug_mode_q
  BY <1>1, <1>2, <1>3, FlushWbOutputs
<1>5. /\ ctrl_fsm_cs' = out.ns /\ illegal_insn_q' = FALSE
      /\ debug_mode_q' = debug_mode_q /\ debugging' = debugging
  BY <1>2, <1>4 DEF Running, Cycle, ControlStep, Track
<1>6. ~Issues(in, out) /\ ex'.kind \notin Writers \cup {"taken"}
  BY <1>2, <1>4, StageEx DEF Issues
<1>7. /\ ~if_valid(in, out) /\ ~instr_valid_id' /\ instr' = instr /\ pc_id' = pc_id
      /\ \A t : out.pc_set = {t} => pc_if' = t
      /\ out.pc_set = {} => pc_if' = pc_if
  BY <1>2, <1>4, StageIf
<1>8. Written(ex) = csr /\ Agree(csr, View)
  BY <1>1, <1>2, WrittenFields DEF ProgramInv, Registered
<1>9. InEx'
  BY <1>6, <1>7 DEF InEx, branch_taken_ex, Calm
<1>10. InId' /\ Mode'
  BY <1>2, <1>4, <1>5, <1>7 DEF InId, Mode, Single, Flushing, IrqStates, StatusWrites, Faults, Returns
<1>11. out.restore \in Returns \cup {"none"}
  BY <1>4
<1>12. CASE instr.kind \in Faults
  <2>1. ~Executes(in, out) /\ Traps(in, out)
    BY <1>2, <1>4, <1>12 DEF Executes, Traps, Faults
  <2>2. Arch!EnabledHere = regs.mie
    BY <1>2 DEF Arch!EnabledHere
  <2>3. pc' = Vector["exception"] /\ regs' = Arch!MachineTrap(regs.mie)
    BY <2>1, <2>2 DEF Running, Track, Effects
  <2>4. Arch!ArchNext
    <3>1. \E i \in program.at[pc] : Arch!Excepts(i)
      BY <1>1, <1>12 DEF ProgramInv, Position, AtId, Flushing, Faults, Returns, StatusWrites, Arch!Excepts
    <3> QED BY <1>1, <1>5, <2>2, <2>3, <3>1 DEF Arch!ArchNext, Arch!Exception
  <2>5. Registered'
    <3>1. View = Arch!MachineTrap(regs.mie)
      BY <1>12 DEF View, Excepting, Flushing
    <3>2. csr' = Written(ex)
      BY <1>4, <1>12, StageCsr DEF Faults, Returns
    <3>3. Agree(Written(ex)', regs')
      BY <1>1, <1>6, <1>8, <2>3, <3>1, <3>2, WriteSettles
    <3> QED BY <1>4, <1>5, <1>12, <3>3 DEF Registered, View, Excepting, Flushing
  <2>6. Position'
    BY <1>4, <1>5, <1>6, <1>7, <1>12, <2>3 DEF Position, AtIf, Flushing, Decoded, branch_taken_ex
  <2> QED BY <1>9, <1>10, <1>11, <2>4, <2>5, <2>6 DEF Kept
<1>13. CASE instr.kind \in Returns \cup StatusWrites
  <2>1. instr.kind \notin Faults \cup {"wfi", "fencei"} /\ (instr.kind \in Returns => instr.kind \notin StatusWrites)
    BY <1>13 DEF Faults, Returns, StatusWrites
  <2>2. out.pc_set = {} /\ out.ns = IF instr.kind \in Returns THEN "XRET_JUMP" ELSE "DECODE"
    BY <1>4, <2>1
  <2>3. pc' = pc /\ regs' = regs
    BY <1>4, <2>2 DEF Running, Track, Effects, Executes, Traps, Interrupted, EntersDebug
  <2>4. [Arch!ArchNext]_(Arch!archVars)
    BY <1>1, <1>5, <2>3 DEF Arch!archVars
  <2>5. Agree(csr, regs)
    BY <1>8, <2>1 DEF View, Excepting
  <2>6. Registered'
    <3>1. CASE instr.kind \in Returns
      <4>1. csr' = Restored(csr, instr.kind)
        <5>1. out.restore = instr.kind /\ out.restore # "none"
          BY <1>4, <3>1 DEF Returns
        <5> QED BY <1>4, <1>8, <5>1, StageCsr
      <4>2. Agree(Written(ex)', Arch!MachineReturn)
        BY <1>1, <1>6, <2>5, <3>1, <4>1, ReturnRestores DEF ProgramInv, Machine
      <4>3. View' = Arch!MachineReturn
        BY <1>5, <2>2, <2>3, <3>1 DEF View, Excepting, Flushing, Arch!MachineReturn
      <4> QED BY <4>2, <4>3 DEF Registered
    <3>2. CASE instr.kind \in StatusWrites
      <4>1. csr' = Written(ex) /\ ctrl_fsm_cs' = "DECODE"
        BY <1>4, <1>5, <2>1, <2>2, <3>2, StageCsr
      <4>2. Agree(Written(ex)', regs')
        BY <1>1, <1>6, <1>8, <2>3, <2>5, <4>1, WriteSettles
      <4> QED BY <4>1, <4>2 DEF Registered, View, Excepting, Flushing
    <3> QED BY <1>13, <3>1, <3>2
  <2>7. Position'
    <3>1. CASE instr.kind \in Returns
      BY <1>1, <1>5, <1>6, <1>7, <2>1, <2>2, <2>3, <3>1
      DEF ProgramInv, Position, AtId, Flushing, Decoded, branch_taken_ex
    <3>2. CASE instr.kind \in StatusWrites
      BY <1>1, <1>5, <1>6, <1>7, <2>1, <2>2, <2>3, <3>2
      DEF ProgramInv, Position, AtIf, Flushing, Decoded, branch_taken_ex
    <3> QED BY <1>13, <3>1, <3>2
  <2> QED BY <1>9, <1>10, <1>11, <2>4, <2>6, <2>7 DEF Kept
<1>14. CASE instr.kind \in {"wfi", "fencei"}
  <2>1. instr.kind \notin Faults \cup Returns \cup StatusWrites
    BY <1>14 DEF Faults, Returns, StatusWrites
  <2>2. Executes(in, out)
    BY <1>2, <1>4, <1>14, <2>1 DEF Executes
  <2>3. pc' = PcAfter(pc) /\ regs' = regs
    BY <1>14, <2>2
    DEF Running, Track, Effects, Arch!Target, Arch!Effect, Arch!After, PcAfter
  <2>4. pc_id = pc /\ instr \in program.at[pc] /\ (instr.kind = "wfi" => pc_if = PcAfter(pc))
    BY <1>1, <2>1 DEF ProgramInv, Position, AtId, Flushing
  <2>5. Arch!ArchNext
    <3>1. ~Arch!Excepts(instr) /\ instr.kind # "dret" /\ debugging' = (debugging /\ instr.kind # "dret")
      BY <1>1, <1>2, <1>5, <1>14 DEF Arch!Excepts, TypeOK
    <3>2. pc' = Arch!Target(instr) /\ regs' = Arch!Effect(instr)
      BY <2>2 DEF Running, Track, Effects
    <3>3. Arch!Execute(instr)
      BY <2>4, <3>1, <3>2 DEF Arch!Execute
    <3> QED BY <1>1, <2>4, <3>3 DEF Arch!ArchNext
  <2>6. csr' = Written(ex) /\ Agree(csr, regs)
    BY <1>4, <1>8, <2>1, StageCsr DEF View, Excepting
  <2>7. Registered'
    <3>1. Agree(Written(ex)', regs')
      BY <1>1, <1>6, <1>8, <2>3, <2>6, WriteSettles
    <3> QED BY <1>4, <1>5, <2>1, <3>1 DEF Registered, View, Excepting, Flushing
  <2>8. pc_if' = pc'
    BY <1>4, <1>7, <1>14, <2>1, <2>3, <2>4
  <2>9. Position'
    BY <1>4, <1>5, <1>6, <1>7, <1>14, <2>1, <2>8 DEF Position, AtIf, Flushing, Decoded, branch_taken_ex
  <2> QED BY <1>9, <1>10, <1>11, <2>5, <2>7, <2>9 DEF Kept
<1> QED BY <1>2, <1>12, <1>13, <1>14

-----------------------------------------------------------------------------
(* DECODE. *)

LEMMA KeepsEmptyDecode ==
  ASSUME NEW in, NEW out, Running(in, out), ctrl_fsm_cs = "DECODE", ~Decoded
  PROVE  Kept(out)
<1>1. ProgramInv /\ TypeOK /\ Machine /\ program' = program
  BY RunningTypes DEF Running, ProgramInv
<1>2. /\ ~data_err_o /\ ~is_fetch_failed /\ ~illegal_insn_q
      /\ branch_taken_ex \/ ~instr_valid_id
  BY <1>1 DEF ProgramInv, Machine, InId, Flushing, Decoded
<1>3. /\ out.ns = "DECODE" /\ ~out.halt_if /\ ~out.halt_id /\ Coasts(in, out)
      /\ out.pc_set = IF branch_taken_ex THEN {ex.to} ELSE {}
      /\ out.jump_done = jump_done_q
  BY <1>2, QuietHalted DEF Running, Outputs, Decode, Quiet, Coasts, Executes, Traps, Interrupted,
    EntersDebug
<1>4. ctrl_fsm_cs' = "DECODE" /\ (jump_done_q' <=> jump_done_q /\ ~id_ready(in))
  BY <1>3 DEF Running, Cycle, ControlStep
<1>5. ex'.kind # "taken" /\ (if_valid(in, out) => ex'.kind \notin Writers)
  BY <1>3, Coasting, StageEx, StageIf DEF branch_taken_ex
<1>6. /\ instr_valid_id' <=> if_valid(in, out)
      /\ if_valid(in, out) => ~branch_taken_ex /\ pc_if = pc /\ ~jump_done_q'
      /\ ~if_valid(in, out) => pc_if' = pc
  BY <1>1, <1>2, <1>3, <1>4, StageIf DEF ProgramInv, Position, AtIf
<1>7. Position'
  <2>1. instr_valid_id' => /\ pc_id' = pc' /\ instr' \in program'.at[pc'] /\ pc_if' = PcAfter(pc_id')
                           /\ ~jump_done_q'
    BY <1>1, <1>6, Coasting, StageIf, <1>3
  <2>2. ~instr_valid_id' => pc_if' = pc'
    BY <1>3, <1>6, Coasting
  <2> QED BY <1>4, <1>5, <2>1, <2>2 DEF Position, AtIf, AtId, Ahead, Flushing, Decoded, branch_taken_ex
<1>8. InId' /\ InEx' /\ Mode'
  BY <1>2, <1>3, <1>4, <1>5, <1>6, Coasting
  DEF InId, InEx, Mode, Flushing, branch_taken_ex, IrqStates, Writers
<1>9. Registered'
  BY <1>1, <1>3, <1>4, Coasting DEF ProgramInv, Registered, View, Excepting, Flushing
<1> QED BY <1>3, <1>7, <1>8, <1>9, Coasting DEF Kept, Coasts

\* What is known when there is an instruction to decode.
LEMMA DecodedFacts ==
  ASSUME NEW in, NEW out, Running(in, out), Decoded
  PROVE  /\ ProgramInv /\ TypeOK /\ Machine /\ ~PULP_SECURE /\ program' = program
         /\ ctrl_fsm_cs = "DECODE" /\ instr_valid_id /\ ~branch_taken_ex
         /\ ~data_err_o /\ ~is_fetch_failed /\ ~illegal_insn_q
         /\ csr.priv = "M" /\ regs.priv = "M" /\ debugging = debug_mode_q
         /\ pc_id = pc /\ instr \in program.at[pc] /\ pc_if = Ahead
         /\ jump_done_q => instr.kind = "jump"
         /\ ex.kind \notin StatusWrites /\ ex.kind # "taken"
         /\ ~Issues(in, out) => ex'.kind \notin Writers \cup {"taken"}
         /\ Agree(Written(ex), regs)
         /\ Written(ex).mie = csr.mie /\ Written(ex).step = csr.step
         /\ Written(ex).ebreakm = csr.ebreakm
<1>1. ProgramInv /\ TypeOK /\ ~PULP_SECURE /\ program' = program /\ Machine
  BY RunningTypes DEF Running, ProgramInv
<1>2. ctrl_fsm_cs = "DECODE" /\ instr_valid_id /\ ~branch_taken_ex
  BY DEF Decoded
<1>3. /\ ~data_err_o /\ ~is_fetch_failed /\ ~illegal_insn_q
      /\ csr.priv = "M" /\ regs.priv = "M" /\ debugging = debug_mode_q
      /\ jump_done_q => instr.kind = "jump"
      /\ ex.kind \notin StatusWrites /\ ex.kind # "taken"
  BY <1>1, <1>2 DEF ProgramInv, Machine, InId, InEx, Flushing, branch_taken_ex
<1>4. pc_id = pc /\ instr \in program.at[pc] /\ pc_if = Ahead
  BY <1>1 DEF ProgramInv, Position, AtId
<1>5. Agree(Written(ex), regs)
  BY <1>1, <1>2 DEF ProgramInv, Registered, View, Excepting, Flushing
<1>6. ASSUME ~Issues(in, out) PROVE ex'.kind \notin Writers \cup {"taken"}
  <2>1. ex.kind = "write_mepc" => ~wb
    BY DEF Running, Fits
  <2> QED BY <1>3, <1>6, <2>1, StageEx DEF Writers
<1> QED BY <1>1, <1>2, <1>3, <1>4, <1>5, <1>6, WrittenFields

\* The instruction waits in ID.
LEMMA KeepsHeld ==
  ASSUME NEW in, NEW out, Running(in, out), Decoded,
         out.ns = "DECODE", ~out.halt_id, ~id_ready(in), Coasts(in, out),
         \/ out.pc_set = {} /\ out.jump_done = jump_done_q
         \/ out.pc_set = {instr.to} /\ out.jump_done = TRUE /\ instr.kind = "jump"
  PROVE  Kept(out)
<1>1. ctrl_fsm_cs' = "DECODE" /\ jump_done_q' = out.jump_done
  <2>1. out.jump_done \in BOOLEAN
    BY DecodedFacts DEF TypeOK
  <2> QED BY <2>1 DEF Running, Cycle, ControlStep
<1>2. ~if_valid(in, out) /\ instr_valid_id' /\ instr' = instr /\ pc_id' = pc_id
  BY DecodedFacts, StageIf
<1>3. pc_if' = Ahead'
  BY <1>1, <1>2, DecodedFacts, StageIf DEF Ahead
<1>4. ex'.kind \notin Writers \cup {"taken"}
  BY Coasting, DecodedFacts
<1>5. Position'
  BY <1>1, <1>2, <1>3, <1>4, DecodedFacts, Coasting
  DEF Position, AtId, Flushing, Decoded, branch_taken_ex
<1>6. InId' /\ InEx' /\ Mode'
  BY <1>1, <1>2, <1>4, DecodedFacts, Coasting
  DEF InId, InEx, Mode, Flushing, branch_taken_ex, IrqStates, Writers
<1>7. Registered'
  BY <1>1, DecodedFacts, Coasting DEF Registered, View, Excepting, Flushing
<1> QED BY <1>5, <1>6, <1>7, Coasting DEF Kept, Coasts

\* The pipeline is flushed before the instruction has done anything.
LEMMA KeepsFlush ==
  ASSUME NEW in, NEW out, Running(in, out), Decoded,
         out.ns \in {"IRQ_FLUSH", "DBG_FLUSH", "FLUSH_EX"},
         out.halt_if, out.halt_id, out.pc_set = {}, Coasts(in, out),
         out.ns = "IRQ_FLUSH" => csr.mie /\ ~debug_mode_q,
         out.ns = "FLUSH_EX" => instr.kind \in Returns \cup {"wfi", "fencei"},
         out.ns = "DBG_FLUSH" =>
           /\ ~Single
           /\ IF debug_mode_q THEN instr.kind = "ebreak"
              ELSE debug_req_i \/ (instr.kind = "ebreak" /\ csr.ebreakm)
  PROVE  Kept(out)
<1>1. ctrl_fsm_cs' = out.ns
  BY DEF Running, Cycle, ControlStep
<1>2. ~if_valid(in, out) /\ ~instr_valid_id' /\ instr' = instr /\ pc_id' = pc_id /\ pc_if' = pc_if
  BY StageIf
<1>3. ex'.kind \notin Writers \cup {"taken"}
  BY Coasting, DecodedFacts
<1>4. csr' = Written(ex)
  BY StageCsr DEF Coasts
<1>5. /\ csr'.mie = csr.mie /\ csr'.step = csr.step /\ csr'.ebreakm = csr.ebreakm
      /\ debug_mode_q' = debug_mode_q /\ ~illegal_insn_q'
  BY <1>4, Coasting, DecodedFacts
<1>6. debug_req_i /\ ~debug_mode_q => debug_req_i'
  BY <1>5 DEF Running, Cycle, DebugModule
<1>7. instr.kind = "wfi" => ~debug_mode_q
  BY DEF Running, Fits
<1>8. instr.kind = "wfi" => pc_if = PcAfter(pc)
  BY DecodedFacts DEF Ahead
<1>9. out.ns = "FLUSH_EX" => instr.kind \notin StatusWrites \cup Faults
  BY DEF Returns, StatusWrites, Faults
<1>10. Single' <=> Single
  BY <1>5 DEF Single
<1>11. Position'
  BY <1>1, <1>2, <1>3, <1>8, <1>9, <1>10, DecodedFacts, Coasting
  DEF Position, AtId, Flushing, Decoded, branch_taken_ex
<1>12. InEx' /\ Mode'
  BY <1>1, <1>2, <1>3, <1>5 DEF InEx, Mode, branch_taken_ex, Calm, IrqStates
<1>13. InId'
  BY <1>1, <1>2, <1>5, <1>6, <1>7, <1>9, <1>10 DEF InId, Flushing, Faults
<1>14. Registered'
  BY <1>1, <1>2, <1>9, DecodedFacts, Coasting DEF Registered, View, Excepting, Flushing
<1> QED BY <1>11, <1>12, <1>13, <1>14, Coasting DEF Kept, Coasts

\* The instruction enters EX.
LEMMA KeepsExecuted ==
  ASSUME NEW in, NEW out, Running(in, out), Decoded, Issues(in, out),
         out.save = "none", out.restore = "none",
         out.debug_mode = debug_mode_q, out.illegal = illegal_insn_q,
         instr.kind \notin Returns \cup Faults \cup {"wfi", "fencei"},
         \/ out.pc_set = {} /\ (jump_done_q \/ instr.kind # "jump")
         \/ out.pc_set = {instr.to} /\ instr.kind = "jump",
         \/ out.ns = "DECODE" /\ instr.kind \notin StatusWrites
         \/ out.ns = "FLUSH_EX" /\ instr.kind \in StatusWrites /\ out.halt_if
         \/ out.ns = "DBG_FLUSH" /\ Single /\ out.halt_if /\ ~IsBranch(instr)
         \/ out.ns = "DBG_WAIT_BRANCH" /\ Single /\ out.halt_if /\ IsBranch(instr)
  PROVE  Kept(out)
<1>1. /\ ctrl_fsm_cs' = out.ns /\ debug_mode_q' = debug_mode_q /\ ~illegal_insn_q'
      /\ debugging' = debug_mode_q
  BY DecodedFacts DEF Running, Cycle, ControlStep, Track
<1>2. ex' = instr /\ id_ready(in) /\ ~out.halt_id
  BY StageEx
<1>3. csr' = Written(ex)
  BY StageCsr
<1>4. csr'.step = csr.step
  BY <1>3, DecodedFacts
<1>5. Executes(in, out)
  BY DecodedFacts DEF Executes, Issues
<1>6. pc' = Arch!Target(instr) /\ regs' = Arch!Effect(instr)
  BY <1>5 DEF Running, Track, Effects
<1>7. pc' = IF instr.kind \in {"jump", "taken"} THEN instr.to ELSE PcAfter(pc)
  BY <1>6, DecodedFacts DEF Arch!Target, Arch!After, PcAfter, Returns
<1>8. Arch!ArchNext
  <2>1. ~Arch!Excepts(instr) /\ instr.kind # "dret" /\ debugging' = (debugging /\ instr.kind # "dret")
    BY <1>1, DecodedFacts DEF Arch!Excepts, TypeOK, Returns, Faults
  <2>2. Arch!Execute(instr)
    BY <1>6, <2>1, DecodedFacts DEF Arch!Execute
  <2> QED BY <2>2, DecodedFacts DEF Arch!ArchNext
<1>9. Registered'
  <2>1. instr.kind \notin Returns
    OBVIOUS
  <2>2. Agree(Written(ex)', regs')
    BY <1>2, <1>3, <1>6, <2>1, DecodedFacts, WriteEnters DEF ProgramInv
  <2>3. out.ns = "FLUSH_EX" => instr.kind \notin Faults
    OBVIOUS
  <2>4. instr' = instr \/ ctrl_fsm_cs' # "FLUSH_EX"
    BY <1>1, StageIf
  <2> QED BY <1>1, <2>2, <2>3, <2>4 DEF Registered, View, Excepting, Flushing
<1>10. /\ instr_valid_id' <=> if_valid(in, out)
       /\ out.halt_if => ~if_valid(in, out)
       /\ ~if_valid(in, out) => instr' = instr
       /\ if_valid(in, out) => pc_id' = pc_if /\ pc_if' = PcAfter(pc_if) /\ instr' \in program.at[pc_if]
  BY <1>2, StageIf
<1>11. ~jump_done_q'
  BY <1>2 DEF Running, Cycle, ControlStep
<1>12. instr.kind # "taken" => pc' = IF if_valid(in, out) THEN pc_if ELSE pc_if'
  <2> SUFFICES ASSUME instr.kind # "taken" PROVE pc' = IF if_valid(in, out) THEN pc_if ELSE pc_if'
    OBVIOUS
  <2>1. CASE out.pc_set = {} /\ (jump_done_q \/ instr.kind # "jump")
    <3>1. pc' = pc_if
      BY <1>7, <2>1, DecodedFacts DEF Ahead
    <3> QED BY <2>1, <3>1, StageIf
  <2>2. CASE out.pc_set = {instr.to} /\ instr.kind = "jump"
    BY <1>7, <2>2, StageIf
  <2> QED BY <2>1, <2>2
<1>13. instr.kind = "taken" => branch_taken_ex' /\ pc' = ex'.to
  BY <1>2, <1>7 DEF branch_taken_ex
<1>14. Single => Single'
  BY <1>1, <1>4 DEF Single
<1>15. branch_taken_ex' => instr.kind = "taken"
  BY <1>2 DEF branch_taken_ex
<1>16. Position'
  <2>1. Decoded' => pc_id' = pc' /\ instr' \in program'.at[pc'] /\ pc_if' = Ahead'
    BY <1>10, <1>11, <1>12, <1>13, DecodedFacts DEF Decoded, Ahead
  <2>2. ~instr_valid_id' /\ ~branch_taken_ex' => pc_if' = pc'
    BY <1>10, <1>12, <1>13
  <2>3. ctrl_fsm_cs' = "FLUSH_EX" => instr' = instr /\ instr.kind \in StatusWrites /\ ~instr_valid_id' /\ ~branch_taken_ex'
    BY <1>1, <1>10, <1>15 DEF StatusWrites
  <2>4. ctrl_fsm_cs' = "DBG_FLUSH" => Single' /\ ~instr_valid_id' /\ ~branch_taken_ex'
    BY <1>1, <1>10, <1>14, <1>15 DEF IsBranch
  <2>5. ctrl_fsm_cs' \in {"DECODE", "FLUSH_EX", "DBG_FLUSH", "DBG_WAIT_BRANCH"}
    BY <1>1
  <2> QED BY <1>13, <1>15, <2>1, <2>2, <2>3, <2>4, <2>5
    DEF Position, AtIf, AtId, Flushing
<1>17. InId'
  BY <1>1, <1>2, <1>10, <1>11, <1>14 DEF InId, Flushing, StatusWrites
<1>18. InEx'
  BY <1>1, <1>2, <1>10, <1>14, <1>15
  DEF InEx, Calm, StatusWrites, Writers, IsBranch
<1>19. Mode'
  BY <1>1, <1>4 DEF Mode, Single, IrqStates
<1> QED BY <1>8, <1>9, <1>16, <1>17, <1>18, <1>19 DEF Kept

\* The instruction ends in an exception, whose registers are saved at once.
LEMMA KeepsException ==
  ASSUME NEW in, NEW out, Running(in, out), Decoded, instr.kind \in Faults,
         out.ns = "FLUSH_EX", out.halt_if, out.halt_id, out.pc_set = {},
         out.save = "id", ~out.debug, out.restore = "none",
         out.debug_mode = debug_mode_q, out.illegal = (instr.kind = "illegal")
  PROVE  Kept(out)
<1>1. /\ ctrl_fsm_cs' = "FLUSH_EX" /\ debug_mode_q' = debug_mode_q
      /\ illegal_insn_q' = (instr.kind = "illegal") /\ debugging' = debug_mode_q
  BY DEF Running, Cycle, ControlStep, Track
<1>2. ~if_valid(in, out) /\ ~instr_valid_id' /\ instr' = instr /\ pc_id' = pc_id
  BY StageIf
<1>3. ~Issues(in, out)
  BY DEF Issues, id_valid
<1>4. pc' = pc /\ regs' = regs
  <2>1. ~Executes(in, out) /\ ~Traps(in, out) /\ ~Interrupted /\ ~EntersDebug
    BY <1>3, DecodedFacts DEF Executes, Issues, Traps, Interrupted, EntersDebug
  <2> QED BY <2>1 DEF Running, Track, Effects
<1>5. [Arch!ArchNext]_(Arch!archVars)
  BY <1>1, <1>4, DecodedFacts DEF Arch!archVars
<1>6. ex'.kind \notin Writers \cup {"taken"}
  BY <1>3, DecodedFacts
<1>7. csr' = SavedByMachine(Written(ex), pc, csr.mie)
  BY StageCsr, DecodedFacts DEF SavedPc
<1>8. Registered'
  <2>1. Agree(Written(ex)', Arch!MachineTrap(regs.mie))
    BY <1>6, <1>7, DecodedFacts, MachineSaves DEF ProgramInv
  <2>2. View' = Arch!MachineTrap(regs.mie)
    BY <1>1, <1>2, <1>4 DEF View, Excepting, Flushing, Arch!MachineTrap
  <2> QED BY <2>1, <2>2 DEF Registered
<1>9. instr.kind \notin StatusWrites \cup Returns \cup {"wfi"}
  BY DEF Faults, StatusWrites, Returns
<1>10. Position'
  BY <1>1, <1>2, <1>4, <1>6, <1>9, DecodedFacts
  DEF Position, AtId, Flushing, Decoded, branch_taken_ex
<1>11. InId' /\ InEx' /\ Mode'
  BY <1>1, <1>2, <1>6, <1>9
  DEF InId, InEx, Mode, Flushing, branch_taken_ex, Calm, IrqStates
<1> QED BY <1>5, <1>8, <1>10, <1>11 DEF Kept

\* A stepped wfi or fence.i is over without having done anything.
LEMMA KeepsStepOver ==
  ASSUME NEW in, NEW out, Running(in, out), Decoded, instr.kind \in {"wfi", "fencei"},
         Single, ~HaltRequest, out.ns = "DBG_FLUSH", out.halt_if, out.halt_id, out.pc_set = {},
         out.save = "none", out.restore = "none",
         out.debug_mode = debug_mode_q, out.illegal = illegal_insn_q
  PROVE  Kept(out)
<1>1. /\ ctrl_fsm_cs' = "DBG_FLUSH" /\ debug_mode_q' = debug_mode_q
      /\ ~illegal_insn_q' /\ debugging' = debug_mode_q
  BY DecodedFacts DEF Running, Cycle, ControlStep, Track
<1>2. ~if_valid(in, out) /\ ~instr_valid_id' /\ pc_if' = pc_if
  BY StageIf
<1>3. ~Issues(in, out)
  BY DEF Issues, id_valid
<1>4. pc' = Arch!Target(instr) /\ regs' = Arch!Effect(instr)
  BY DecodedFacts DEF Running, Track, Effects, Executes
<1>5. pc' = PcAfter(pc) /\ regs' = regs
  BY <1>4 DEF Arch!Target, Arch!Effect, Arch!After, PcAfter
<1>6. Arch!ArchNext
  <2>1. ~Arch!Excepts(instr) /\ debugging' = (debugging /\ instr.kind # "dret")
    BY <1>1, DecodedFacts DEF Arch!Excepts, TypeOK
  <2>2. Arch!Execute(instr)
    BY <1>4, <2>1, DecodedFacts DEF Arch!Execute
  <2> QED BY <2>2, DecodedFacts DEF Arch!ArchNext
<1>7. ex'.kind \notin Writers \cup {"taken"}
  BY <1>3, DecodedFacts
<1>8. csr' = Written(ex)
  BY StageCsr
<1>9. Registered'
  <2>1. Agree(Written(ex)', regs')
    BY <1>5, <1>7, <1>8, DecodedFacts, WriteSettles
  <2> QED BY <1>1, <2>1 DEF Registered, View, Excepting, Flushing
<1>10. Single'
  BY <1>1, <1>8, DecodedFacts DEF Single
<1>11. pc_if' = pc'
  BY <1>2, <1>5, DecodedFacts DEF Ahead
<1>12. Position'
  BY <1>1, <1>2, <1>7, <1>10, <1>11 DEF Position, AtIf, Flushing, Decoded, branch_taken_ex
<1>13. InId' /\ InEx' /\ Mode'
  BY <1>1, <1>2, <1>7, <1>10
  DEF InId, InEx, Mode, Flushing, branch_taken_ex, Calm, IrqStates
<1> QED BY <1>6, <1>9, <1>12, <1>13 DEF Kept

-----------------------------------------------------------------------------
(* What DECODE decides. *)

LEMMA DecodesTo ==
  ASSUME Machine, ~PULP_SECURE, NEW in
  PROVE  /\ instr.kind = "illegal" => DecodeInstr(in) = [Exception EXCEPT !.illegal = TRUE]
         /\ instr.kind = "ecall" => DecodeInstr(in) = Exception
         /\ instr.kind = "ebreak" =>
              DecodeInstr(in) = IF debug_mode_q \/ csr.ebreakm
                                THEN [HaltDecoding EXCEPT !.ns = "DBG_FLUSH"] ELSE Exception
         /\ instr.kind \in Returns \cup {"wfi", "fencei"} =>
              DecodeInstr(in) = [HaltDecoding EXCEPT !.ns = "FLUSH_EX"]
         /\ instr.kind = "jump" => DecodeInstr(in) = Jump(in)
         /\ instr.kind \in StatusWrites =>
              DecodeInstr(in) = [Decoding EXCEPT !.halt_if = TRUE,
                                                 !.ns = IF id_ready(in) THEN "FLUSH_EX" ELSE "DECODE"]
         /\ instr.kind \notin Faults \cup Returns \cup StatusWrites \cup {"wfi", "fencei", "jump"} =>
              DecodeInstr(in) = Decoding
<1>1. /\ illegal_insn <=> instr.kind = "illegal"
      /\ csr_status <=> instr.kind \in StatusWrites
      /\ xret_insn <=> instr.kind \in Returns
      /\ ebrk_force_debug_mode <=> csr.ebreakm
  BY DEF Machine, illegal_insn, csr_status, xret_insn, ebrk_force_debug_mode, StatusWrites, Returns
<1>2. CASE instr.kind \in Faults
  BY <1>1, <1>2 DEF DecodeInstr, Ebreak, Faults, Returns, StatusWrites
<1>3. CASE instr.kind \in Returns \cup {"wfi", "fencei"}
  BY <1>1, <1>3 DEF DecodeInstr, Faults, Returns, StatusWrites
<1>4. CASE instr.kind = "jump"
  BY <1>1, <1>4 DEF DecodeInstr, Faults, Returns, StatusWrites
<1>5. CASE instr.kind \in StatusWrites
  BY <1>1, <1>5 DEF DecodeInstr, Faults, Returns, StatusWrites
<1>6. CASE instr.kind \notin Faults \cup Returns \cup StatusWrites \cup {"wfi", "fencei", "jump"}
  BY <1>1, <1>6 DEF DecodeInstr, Faults, Returns, StatusWrites
<1> QED BY <1>2, <1>3, <1>4, <1>5, <1>6

LEMMA DecodingFields ==
  /\ \A o \in {Decoding, HaltDecoding, Exception} :
       /\ o.decoding /\ o.pc_set = {} /\ ~o.debug /\ o.restore = "none"
       /\ o.jump_done = jump_done_q /\ o.debug_mode = debug_mode_q /\ o.illegal = illegal_insn_q
       /\ {"ns", "halt_if", "halt_id", "pc_set", "jump_done", "illegal"} \subseteq DOMAIN o
  /\ Decoding.save = "none" /\ ~Decoding.halt_if /\ ~Decoding.halt_id /\ Decoding.ns = ctrl_fsm_cs
  /\ HaltDecoding.save = "none" /\ HaltDecoding.halt_if /\ HaltDecoding.halt_id
  /\ Exception.save = "id" /\ Exception.halt_if /\ Exception.halt_id /\ Exception.ns = "FLUSH_EX"
BY DEF Decoding, HaltDecoding, Exception, Quiet

LEMMA SteppedFields ==
  ASSUME TypeOK, Machine, ~PULP_SECURE, NEW in \in PipelineInputs, NEW out,
         out = SingleStep(in, DecodeInstr(in))
  PROVE  LET d == DecodeInstr(in) IN
         /\ out.halt_id = d.halt_id /\ out.decoding = d.decoding /\ out.pc_set = d.pc_set
         /\ out.save = d.save /\ out.debug = d.debug /\ out.restore = d.restore
         /\ out.jump_done = d.jump_done /\ out.debug_mode = d.debug_mode /\ out.illegal = d.illegal
         /\ out.halt_if = (d.halt_if \/ Single)
         /\ out.ns = IF ~(Single /\ id_ready(in)) THEN d.ns
                     ELSE IF instr.kind \in {"illegal", "ecall", "mret"} THEN "FLUSH_EX"
                     ELSE IF instr.kind = "ebreak" /\ ~csr.ebreakm THEN "FLUSH_EX"
                     ELSE IF IsBranch(instr) THEN "DBG_WAIT_BRANCH" ELSE "DBG_FLUSH"
<1> DEFINE d == DecodeInstr(in)
<1>1. d \in OutType
  BY DecodeInstrType
<1>2. StepEnds = IF instr.kind \in {"illegal", "ecall", "mret"} THEN "FLUSH_EX"
                 ELSE IF instr.kind = "ebreak" /\ ~csr.ebreakm THEN "FLUSH_EX"
                 ELSE IF IsBranch(instr) THEN "DBG_WAIT_BRANCH" ELSE "DBG_FLUSH"
  <2>1. /\ illegal_insn <=> instr.kind = "illegal"
        /\ xret_insn <=> instr.kind \in Returns
        /\ ebrk_force_debug_mode <=> csr.ebreakm
    BY DEF Machine, illegal_insn, xret_insn, ebrk_force_debug_mode, Returns
  <2>2. IsBranch(instr) => instr.kind \notin {"illegal", "ecall", "mret", "ebreak"}
    BY DEF IsBranch
  <2>3. CASE instr.kind \in {"illegal", "ecall", "mret"}
    BY <2>1, <2>2, <2>3 DEF StepEnds, Returns
  <2>4. CASE instr.kind = "ebreak"
    BY <2>1, <2>2, <2>4 DEF StepEnds, Returns
  <2>5. CASE instr.kind \notin {"illegal", "ecall", "mret", "ebreak"}
    BY <2>1, <2>2, <2>5 DEF StepEnds, Returns
  <2> QED BY <2>3, <2>4, <2>5
<1> HIDE DEF d
<1>3. out = IF ~Single THEN d
            ELSE [d EXCEPT !.halt_if = TRUE, !.ns = IF id_ready(in) THEN StepEnds ELSE d.ns]
  BY DEF SingleStep, d
<1>4. CASE ~Single
  BY <1>1, <1>3, <1>4 DEF OutType, d
<1>5. CASE Single
  <2>1. out = [d EXCEPT !.halt_if = TRUE, !.ns = IF id_ready(in) THEN StepEnds ELSE d.ns]
    BY <1>3, <1>5
  <2>2. /\ out.halt_id = d.halt_id /\ out.decoding = d.decoding /\ out.pc_set = d.pc_set
        /\ out.save = d.save /\ out.debug = d.debug /\ out.restore = d.restore
        /\ out.jump_done = d.jump_done /\ out.debug_mode = d.debug_mode /\ out.illegal = d.illegal
        /\ out.halt_if = TRUE
        /\ out.ns = IF id_ready(in) THEN StepEnds ELSE d.ns
    BY <1>1, <2>1 DEF OutType
  <2> QED BY <1>2, <1>5, <2>2 DEF d
<1> QED BY <1>4, <1>5

LEMMA KeepsRequest ==
  ASSUME NEW in, NEW out, Running(in, out), Decoded,
         (IrqRequest /\ ~debug_mode_q) \/ HaltRequest
  PROVE  Kept(out)
<1>1. /\ out.ns = IF IrqRequest /\ ~debug_req_i /\ ~debug_mode_q THEN "IRQ_FLUSH" ELSE "DBG_FLUSH"
      /\ out.halt_if /\ out.halt_id /\ out.pc_set = {} /\ out.save = "none" /\ out.restore = "none"
      /\ out.debug_mode = debug_mode_q /\ out.illegal = illegal_insn_q
  <2>1. out = [Halted EXCEPT !.decoding = TRUE,
                             !.ns = IF IrqRequest /\ ~debug_req_i /\ ~debug_mode_q
                                    THEN "IRQ_FLUSH" ELSE "DBG_FLUSH"]
    <3>1. CASE IrqRequest /\ ~debug_req_i /\ ~debug_mode_q
      BY <3>1, DecodedFacts DEF Running, Outputs, Decode
    <3>2. CASE ~(IrqRequest /\ ~debug_req_i /\ ~debug_mode_q)
      <4>1. HaltRequest
        BY <3>2 DEF HaltRequest
      <4> QED BY <3>2, <4>1, DecodedFacts DEF Running, Outputs, Decode
    <3> QED BY <3>1, <3>2
  <2> QED BY <2>1 DEF Halted, Quiet
<1>2. IrqRequest => csr.mie
  BY DecodedFacts DEF IrqRequest, irq_enable, m_irq_enable, u_irq_enable
<1>3. out.ns = "DBG_FLUSH" => HaltRequest
  BY <1>1 DEF HaltRequest
<1>4. HaltRequest => ~Single /\ debug_req_i /\ ~debug_mode_q
  BY DEF HaltRequest, Running, Fits, Single
<1>5. Coasts(in, out)
  BY <1>1, <1>3, DecodedFacts DEF Coasts, Executes, Traps, Interrupted, EntersDebug, id_valid
<1> QED BY <1>1, <1>2, <1>3, <1>4, <1>5, KeepsFlush

LEMMA KeepsInstr ==
  ASSUME NEW in, NEW out, Running(in, out), Decoded, ~HaltRequest,
         out = SingleStep(in, DecodeInstr(in))
  PROVE  Kept(out)
<1>1. /\ TypeOK /\ Machine /\ ~PULP_SECURE /\ in \in PipelineInputs /\ out \in OutType
      /\ ctrl_fsm_cs = "DECODE" /\ illegal_insn_q = FALSE
  BY DecodedFacts, RunningTypes DEF Running, TypeOK
<1>2. ~Traps(in, out) /\ ~Interrupted /\ ~EntersDebug
  BY <1>1 DEF Traps, Interrupted, EntersDebug
<1>3. ~(csr.step /\ csr.ebreakm)
  BY <1>1 DEF Machine
<1>4. CASE instr.kind \in Faults
  <2>1. CASE instr.kind = "ebreak" /\ (debug_mode_q \/ csr.ebreakm)
    <3>1. ~Single
      BY <1>3, <2>1 DEF Single
    <3>2. /\ out.ns = "DBG_FLUSH" /\ out.halt_if /\ out.halt_id /\ out.pc_set = {}
          /\ out.save = "none" /\ out.restore = "none"
          /\ out.debug_mode = debug_mode_q /\ out.illegal = illegal_insn_q
      <4>1. out = [HaltDecoding EXCEPT !.ns = "DBG_FLUSH"]
        BY <1>1, <2>1, <3>1, DecodesTo DEF SingleStep
      <4> QED BY <4>1 DEF HaltDecoding, Decoding, Quiet
    <3>3. Coasts(in, out)
      BY <1>1, <1>2, <2>1, <3>2 DEF Coasts, Executes, id_valid
    <3> QED BY <2>1, <3>1, <3>2, <3>3, KeepsFlush
  <2>2. CASE ~(instr.kind = "ebreak" /\ (debug_mode_q \/ csr.ebreakm))
    <3> DEFINE d == DecodeInstr(in)
    <3>1. d = IF instr.kind = "illegal" THEN [Exception EXCEPT !.illegal = TRUE] ELSE Exception
      BY <1>1, <1>4, <2>2, DecodesTo DEF Faults
    <3>2. /\ d.ns = "FLUSH_EX" /\ d.halt_if /\ d.halt_id /\ d.pc_set = {} /\ d.save = "id"
          /\ ~d.debug /\ d.restore = "none" /\ d.debug_mode = debug_mode_q
          /\ d.illegal = (instr.kind = "illegal")
      <4> HIDE DEF d
      <4>1. CASE instr.kind = "illegal"
        BY <3>1, <4>1 DEF Exception, HaltDecoding, Decoding, Quiet
      <4>2. CASE instr.kind # "illegal"
        BY <1>1, <3>1, <4>2, DecodingFields
      <4> QED BY <4>1, <4>2
    <3>3. Single => instr.kind \in {"illegal", "ecall"} \/ (instr.kind = "ebreak" /\ ~csr.ebreakm)
      BY <1>4, <2>2 DEF Faults
    <3>4. /\ out.ns = "FLUSH_EX" /\ out.halt_if /\ out.halt_id /\ out.pc_set = {} /\ out.save = "id"
          /\ ~out.debug /\ out.restore = "none" /\ out.debug_mode = debug_mode_q
          /\ out.illegal = (instr.kind = "illegal")
      BY <1>1, <3>2, <3>3, SteppedFields
    <3> QED BY <1>4, <3>4, KeepsException
  <2> QED BY <2>1, <2>2
<1>5. CASE instr.kind \in Returns \cup {"wfi", "fencei"}
  <2> DEFINE d == DecodeInstr(in)
  <2>1. /\ d.ns = "FLUSH_EX" /\ d.halt_if /\ d.halt_id /\ d.pc_set = {} /\ d.save = "none"
        /\ d.restore = "none" /\ d.debug_mode = debug_mode_q /\ d.illegal = illegal_insn_q
    <3>1. d = [HaltDecoding EXCEPT !.ns = "FLUSH_EX"]
      BY <1>1, <1>5, DecodesTo
    <3> HIDE DEF d
    <3> QED BY <3>1 DEF HaltDecoding, Decoding, Quiet
  <2>2. /\ out.halt_if /\ out.halt_id /\ out.pc_set = {} /\ out.save = "none"
        /\ out.restore = "none" /\ out.debug_mode = debug_mode_q /\ out.illegal = illegal_insn_q
    BY <1>1, <2>1, SteppedFields
  <2>3. instr.kind = "dret" => ~Single
    BY DEF Running, Fits
  <2>4. \/ out.ns = "FLUSH_EX"
        \/ out.ns = "DBG_FLUSH" /\ Single /\ instr.kind \in {"wfi", "fencei"}
    <3>1. out.ns = IF ~(Single /\ id_ready(in)) THEN d.ns
                     ELSE IF instr.kind \in {"illegal", "ecall", "mret"} THEN "FLUSH_EX"
                     ELSE IF instr.kind = "ebreak" /\ ~csr.ebreakm THEN "FLUSH_EX"
                     ELSE IF IsBranch(instr) THEN "DBG_WAIT_BRANCH" ELSE "DBG_FLUSH"
      BY <1>1, SteppedFields
    <3> QED BY <1>5, <2>1, <2>3, <3>1 DEF Returns, IsBranch
  <2>5. CASE out.ns = "FLUSH_EX"
    <3>1. Coasts(in, out)
      BY <1>1, <1>2, <2>2, <2>5 DEF Coasts, Executes, id_valid
    <3> QED BY <1>5, <2>2, <2>5, <3>1, KeepsFlush
  <2>6. CASE out.ns = "DBG_FLUSH" /\ Single /\ instr.kind \in {"wfi", "fencei"}
    BY <2>2, <2>6, KeepsStepOver
  <2> QED BY <2>4, <2>5, <2>6
<1>6. CASE instr.kind \notin Faults \cup Returns \cup {"wfi", "fencei"}
  <2> DEFINE d == DecodeInstr(in)
             Jumps == instr.kind = "jump" /\ in.hazard # "jr" /\ ~jump_done_q
  <2>1. /\ ~d.halt_id /\ d.decoding /\ d.save = "none" /\ d.restore = "none"
        /\ d.debug_mode = debug_mode_q /\ d.illegal = illegal_insn_q
        /\ d.ns = IF instr.kind \in StatusWrites /\ id_ready(in) THEN "FLUSH_EX" ELSE "DECODE"
        /\ instr.kind \in StatusWrites => d.halt_if
        /\ d.pc_set = IF Jumps THEN {instr.to} ELSE {}
        /\ d.jump_done = IF Jumps THEN TRUE ELSE jump_done_q
    <3>1. CASE instr.kind = "jump"
      <4>1. d = IF Jumps THEN [Decoding EXCEPT !.pc_set = {instr.to}, !.jump_done = TRUE] ELSE Decoding
        BY <1>1, <3>1, DecodesTo DEF Jump
      <4> HIDE DEF d
      <4>2. CASE Jumps
        BY <1>1, <3>1, <4>1, <4>2 DEF Decoding, Quiet, StatusWrites
      <4>3. CASE ~Jumps
        BY <1>1, <3>1, <4>1, <4>3, DecodingFields DEF StatusWrites
      <4> QED BY <4>2, <4>3
    <3>2. CASE instr.kind \in StatusWrites
      <4>1. d = [Decoding EXCEPT !.halt_if = TRUE,
                                 !.ns = IF id_ready(in) THEN "FLUSH_EX" ELSE "DECODE"]
        BY <1>1, <3>2, DecodesTo
      <4> HIDE DEF d
      <4> QED BY <1>1, <3>2, <4>1 DEF Decoding, Quiet, StatusWrites
    <3>3. CASE instr.kind \notin StatusWrites \cup {"jump"}
      <4>1. d = Decoding
        BY <1>1, <1>6, <3>3, DecodesTo
      <4> HIDE DEF d
      <4> QED BY <1>1, <3>3, <4>1, DecodingFields
    <3> QED BY <3>1, <3>2, <3>3
  <2>2. /\ ~out.halt_id /\ out.decoding /\ out.save = "none" /\ out.restore = "none"
        /\ out.debug_mode = debug_mode_q /\ out.illegal = illegal_insn_q
        /\ out.pc_set = (IF Jumps THEN {instr.to} ELSE {})
        /\ out.jump_done = (IF Jumps THEN TRUE ELSE jump_done_q)
        /\ Single \/ instr.kind \in StatusWrites => out.halt_if
    BY <1>1, <2>1, SteppedFields
  <2>3. out.ns = IF ~id_ready(in) THEN "DECODE"
                 ELSE IF Single THEN IF IsBranch(instr) THEN "DBG_WAIT_BRANCH" ELSE "DBG_FLUSH"
                 ELSE IF instr.kind \in StatusWrites THEN "FLUSH_EX" ELSE "DECODE"
    <3>1. out.ns = IF ~(Single /\ id_ready(in)) THEN d.ns
                     ELSE IF instr.kind \in {"illegal", "ecall", "mret"} THEN "FLUSH_EX"
                     ELSE IF instr.kind = "ebreak" /\ ~csr.ebreakm THEN "FLUSH_EX"
                     ELSE IF IsBranch(instr) THEN "DBG_WAIT_BRANCH" ELSE "DBG_FLUSH"
      BY <1>1, SteppedFields
    <3>2. instr.kind \notin {"illegal", "ecall", "mret", "ebreak"}
      BY <1>6 DEF Faults, Returns
    <3> HIDE DEF d, Jumps
    <3> QED BY <2>1, <3>1, <3>2
  <2>4. CASE id_ready(in)
    <3>1. Issues(in, out)
      BY <2>2, <2>4 DEF Issues, id_valid
    <3>2. in.hazard # "jr"
      BY <2>4 DEF id_ready
    <3>3. \/ out.pc_set = {} /\ (jump_done_q \/ instr.kind # "jump")
          \/ out.pc_set = {instr.to} /\ instr.kind = "jump"
      BY <2>2, <3>2
    <3>4. \/ out.ns = "DECODE" /\ instr.kind \notin StatusWrites
          \/ out.ns = "FLUSH_EX" /\ instr.kind \in StatusWrites /\ out.halt_if
          \/ out.ns = "DBG_FLUSH" /\ Single /\ out.halt_if /\ ~IsBranch(instr)
          \/ out.ns = "DBG_WAIT_BRANCH" /\ Single /\ out.halt_if /\ IsBranch(instr)
      BY <2>2, <2>3, <2>4
    <3> QED BY <1>6, <2>2, <3>1, <3>3, <3>4, KeepsExecuted
  <2>5. CASE ~id_ready(in)
    <3>1. out.ns = "DECODE"
      BY <2>3, <2>5
    <3>2. Coasts(in, out)
      BY <1>1, <1>2, <2>2, <2>5, <3>1 DEF Coasts, Executes, id_valid
    <3>3. \/ out.pc_set = {} /\ out.jump_done = jump_done_q
          \/ out.pc_set = {instr.to} /\ out.jump_done = TRUE /\ instr.kind = "jump"
      BY <2>2
    <3> QED BY <2>2, <2>5, <3>1, <3>2, <3>3, KeepsHeld
  <2> QED BY <2>4, <2>5
<1> QED BY <1>4, <1>5, <1>6

LEMMA KeepsDecode ==
  ASSUME NEW in, NEW out, Running(in, out), ctrl_fsm_cs = "DECODE"
  PROVE  Kept(out)
<1>1. CASE ~Decoded
  BY <1>1, KeepsEmptyDecode
<1>2. CASE Decoded /\ ((IrqRequest /\ ~debug_mode_q) \/ HaltRequest)
  BY <1>2, KeepsRequest
<1>3. CASE Decoded /\ ~((IrqRequest /\ ~debug_mode_q) \/ HaltRequest)
  <2>1. out = SingleStep(in, DecodeInstr(in))
    BY <1>3, DecodedFacts DEF Running, Outputs, Decode
  <2> QED BY <1>3, <2>1, KeepsInstr
<1> QED BY <1>1, <1>2, <1>3

-----------------------------------------------------------------------------
(* The invariant is inductive. *)

LEMMA ProgramStarts == ASSUME ~PULP_SECURE, ProgramInit PROVE ProgramInv
<1>1. Inv
  BY InitInv
<1>2. pc \in Pc /\ regs \in RegsType
  BY NPCAssumption, VectorType DEF ProgramInit, Arch!ArchInit, RegsType, Privilege, Pc
<1>3. /\ ctrl_fsm_cs = "RESET" /\ ~debug_mode_q /\ ~illegal_insn_q
      /\ ~instr_valid_id /\ ex = Bubble /\ offer = NoOffer /\ pc = Vector["boot"]
      /\ ~is_fetch_failed /\ ~data_err_o /\ ~data_err_q /\ ~debugging
  BY DEF ProgramInit, Init, PipeInit, Arch!ArchInit, data_err_o
<1>4. csr.priv = "M" /\ csr.mpp = "M" /\ ~csr.step /\ regs.priv = "M" /\ regs.mpp = "M"
  BY DEF ProgramInit, Init, CsrInit, Arch!ArchInit
<1>5. debugging = debug_mode_q
  BY DEF ProgramInit, Init, Arch!ArchInit
<1>6. Machine
  BY <1>3, <1>4, <1>5 DEF Machine
<1>7. Agree(csr, regs) /\ Written(ex) = csr
  BY <1>3 DEF ProgramInit, Init, CsrInit, Arch!ArchInit, Agree, Written, Bubble
<1>8. Registered
  BY <1>3, <1>7 DEF Registered, View, Excepting, Flushing
<1>9. InId /\ InEx /\ Mode /\ Position
  BY <1>3
  DEF InId, InEx, Mode, Position, Flushing, Decoded, Calm, Bubble, Writers, StatusWrites,
    branch_taken_ex, IrqStates
<1> QED BY <1>1, <1>2, <1>6, <1>8, <1>9 DEF ProgramInv

LEMMA Keeps == ASSUME NEW in, NEW out, Running(in, out) PROVE Kept(out)
<1>1. ctrl_fsm_cs \in States
  BY RunningTypes DEF TypeOK
<1> QED
  BY <1>1, KeepsStart, KeepsAsleep, KeepsFirstFetch, KeepsDecode, KeepsFlushEx, KeepsFlushWb,
     KeepsXretJump, KeepsIrqFlush, KeepsIrqTaken, KeepsWaitBranch, KeepsDbgFlush, KeepsDbgTaken
  DEF States, Interrupted, EntersDebug

LEMMA ProgramSteps ==
  ASSUME ~PULP_SECURE, ProgramInv, Fits, [ProgramNext]_programVars
  PROVE  ProgramInv' /\ [Arch!ArchNext]_(Arch!archVars)
<1>1. CASE ProgramNext
  <2>1. PICK in \in PipelineInputs :
          PipelineOK(in) /\ Cycle(in, Outputs(in)) /\ Track(in, Outputs(in))
    BY <1>1 DEF ProgramNext
  <2> DEFINE out == Outputs(in)
  <2>2. Running(in, out)
    BY <2>1 DEF Running
  <2> HIDE DEF out
  <2>3. Kept(out)
    BY <2>2, Keeps
  <2>4. Inv'
    BY <2>2, RunningTypes
  <2>5. Machine' /\ pc' \in Pc /\ regs' \in RegsType
    BY <2>2, <2>3, MachineStep DEF Kept
  <2> QED BY <2>3, <2>4, <2>5 DEF Kept, ProgramInv, RegsType
<1>2. CASE UNCHANGED programVars
  <2>1. UNCHANGED ctrlVars /\ UNCHANGED <<pc, debugging, regs>>
    BY <1>2 DEF programVars
  <2>2. UNCHANGED Arch!archVars
    BY <2>1 DEF Arch!archVars, ctrlVars, pipeVars
  <2>3. ProgramInv'
    <3>1. Inv'
      BY <1>2, NextInv DEF ProgramInv
    <3>2. Machine' /\ InId' /\ InEx' /\ Mode'
      BY <2>1
      DEF ctrlVars, irqVars, pipeVars, ProgramInv, Machine, InId, InEx, Mode, Flushing, Calm, Single,
        branch_taken_ex, data_err_o, IrqStates
    <3>3. Position'
      BY <2>1
      DEF ctrlVars, pipeVars, ProgramInv, Position, Flushing, AtIf, AtId, Ahead, Decoded, Single,
        branch_taken_ex
    <3>4. Written(ex)' = Written(ex) /\ View' = View
      BY <2>1
      DEF ctrlVars, pipeVars, Written, View, Excepting, Flushing, Arch!MachineTrap, Arch!MachineReturn
    <3>5. Registered'
      BY <3>4 DEF ProgramInv, Registered
    <3> QED BY <2>1, <3>1, <3>2, <3>3, <3>5 DEF ProgramInv, RegsType
  <2> QED BY <2>2, <2>3
<1> QED BY <1>1, <1>2

LEMMA ProgramInvShows ==
  ASSUME ProgramInv
  PROVE  InOrder /\ TrapPrecise /\ EnableExact
<1>1. InOrder
  BY DEF ProgramInv, Position, Decoded, AtId, InOrder
<1>2. Settled => Agree(csr, regs)
  BY DEF ProgramInv, Registered, Settled, WritesCsr, View, Excepting, Flushing
<1> QED BY <1>1, <1>2 DEF Agree, TrapPrecise, EnableExact, ProgramInv, Machine

\* The same invariant, along a behavior.
LEMMA ProgramInvariant ==
  ASSUME ~PULP_SECURE
  PROVE  ProgramSpec /\ []Fits => []ProgramInv
<1>1. ProgramInit => ProgramInv
  BY ProgramStarts
<1>2. ProgramInv /\ Fits /\ [ProgramNext]_programVars => ProgramInv'
  BY ProgramSteps
<1> QED BY <1>1, <1>2, PTL DEF ProgramSpec

-----------------------------------------------------------------------------
\* Without user mode, and while no two requests meet that Fits excludes, the
\* instruction the controller decodes is the next one of the program: none comes
\* from a wrong path, none is left out and none comes twice, whatever is stalled,
\* flushed, interrupted or stepped (riscv_controller.sv, is_decoding_o, halt_if_o
\* and jump_done_q; riscv_if_stage.sv, clear_instr_valid_i).
THEOREM DecodesInOrder == ASSUME ~PULP_SECURE PROVE ProgramSpec /\ []Fits => []InOrder
<1>1. ProgramInv => InOrder
  BY ProgramInvShows
<1> QED BY <1>1, ProgramInvariant, PTL

\* Then mepc and dpc are the addresses at which the program was interrupted,
\* whichever stage's pc is saved (riscv_controller.sv, csr_save_if_o and
\* csr_save_id_o; riscv_cs_registers.sv, exception_pc).
THEOREM TrapsArePrecise == ASSUME ~PULP_SECURE PROVE ProgramSpec /\ []Fits => []TrapPrecise
<1>1. ProgramInv => TrapPrecise
  BY ProgramInvShows
<1> QED BY <1>1, ProgramInvariant, PTL

\* Then the interrupt enable and its stacked copy are those of the program, although
\* the write of an instruction in EX, a trap and a return may meet
\* (riscv_cs_registers.sv, mstatus_n; riscv_controller.sv, FLUSH_EX).
THEOREM EnablesAreExact == ASSUME ~PULP_SECURE PROVE ProgramSpec /\ []Fits => []EnableExact
<1>1. ProgramInv => EnableExact
  BY ProgramInvShows
<1> QED BY <1>1, ProgramInvariant, PTL

\* Then the core runs the program: every step is an instruction at the program's
\* address, an exception it gives reason for, an interrupt that is enabled, an
\* entry to debug mode, or nothing (riscv_controller.sv, as a whole).
THEOREM RunsTheProgram ==
  ASSUME ~PULP_SECURE
  PROVE  ProgramSpec /\ []Fits => ImplementsArchitecture
<1>1. ProgramInit => Arch!ArchInit
  BY DEF ProgramInit
<1>2. ProgramInv /\ Fits /\ [ProgramNext]_programVars => [Arch!ArchNext]_(Arch!archVars)
  BY ProgramSteps
<1> QED
  BY <1>1, <1>2, ProgramInvariant, PTL DEF ProgramSpec, ImplementsArchitecture, Arch!ArchSpec

-----------------------------------------------------------------------------
(* Single steps. *)

\* Where a stepped program has made its step.
Stopping == {"DBG_WAIT_BRANCH", "DBG_FLUSH", "DBG_TAKEN_IF"}
StepInv ==
  /\ steps \in 0 .. 2
  /\ ex.kind = "dcsr_step" => debug_mode_q
  /\ Single => steps = 0 \/ (steps = 1 /\ ctrl_fsm_cs \in Stopping)
  /\ Single /\ Flushing => instr.kind \in Faults \cup Returns

Counts(in, out) == Executes(in, out) \/ Traps(in, out)

LEMMA StepEdge ==
  ASSUME NEW in, NEW out, Running(in, out)
  PROVE  /\ csr'.step = Written(ex).step
         /\ ctrl_fsm_cs' = out.ns /\ debug_mode_q' = out.debug_mode
         /\ steps' = IF debug_mode_q THEN 0
                     ELSE IF Counts(in, out) THEN IF steps < 2 THEN steps + 1 ELSE steps
                     ELSE steps
<1>1. TypeOK /\ ~PULP_SECURE /\ Kept(out) /\ Written(ex) \in Registers
  BY Keeps, RunningTypes, WrittenType DEF Running
<1> DEFINE n == Written(ex)
<1>2. /\ \A a : SavedByDebug(n, a).step = n.step
      /\ \A a, b : SavedByMachine(n, a, b).step = n.step
      /\ \A by \in Returns : Restored(n, by).step = n.step
  <2> HIDE DEF n
  <2>1. n \in Registers
    BY <1>1 DEF n
  <2> QED BY <1>1, <2>1
    DEF SavedByDebug, SavedByMachine, Restored, RestoredByMret, RestoredByDret, Returns, Registers
<1>3. csr'.step = n.step
  <2>1. out.restore \in Returns \cup {"none"}
    BY <1>1 DEF Kept
  <2> HIDE DEF n
  <2> QED BY <1>2, <2>1, StageCsr DEF n
<1> QED BY <1>3 DEF Running, Cycle, ControlStep, Track, Counts

LEMMA DecodedParts ==
  ASSUME Machine, ~PULP_SECURE, ctrl_fsm_cs = "DECODE", NEW in, NEW d, d = DecodeInstr(in)
  PROVE  /\ d.debug_mode = debug_mode_q
         /\ instr.kind \in Faults \cup Returns => d.halt_id
         /\ instr.kind \notin Faults \cup Returns \cup {"wfi", "fencei"} /\ ~id_ready(in) =>
              d.ns = "DECODE"
<1>1. CASE instr.kind \in Faults
  <2>1. d \in {[Exception EXCEPT !.illegal = TRUE], Exception,
               [HaltDecoding EXCEPT !.ns = "DBG_FLUSH"]}
    BY <1>1, DecodesTo DEF Faults
  <2> QED BY <1>1, <2>1 DEF Exception, HaltDecoding, Decoding, Quiet
<1>2. CASE instr.kind \in Returns \cup {"wfi", "fencei"}
  <2>1. d = [HaltDecoding EXCEPT !.ns = "FLUSH_EX"]
    BY <1>2, DecodesTo
  <2> QED BY <1>2, <2>1 DEF HaltDecoding, Decoding, Quiet
<1>3. CASE instr.kind \in StatusWrites
  <2>1. d = [Decoding EXCEPT !.halt_if = TRUE,
                             !.ns = IF id_ready(in) THEN "FLUSH_EX" ELSE "DECODE"]
    BY <1>3, DecodesTo
  <2>2. instr.kind \notin Faults \cup Returns
    BY <1>3 DEF StatusWrites, Faults, Returns
  <2> QED BY <2>1, <2>2 DEF Decoding, Quiet
<1>4. CASE instr.kind \notin Faults \cup Returns \cup StatusWrites \cup {"wfi", "fencei"}
  <2>1. d \in {Decoding, [Decoding EXCEPT !.pc_set = {instr.to}, !.jump_done = TRUE]}
    BY <1>4, DecodesTo DEF Jump
  <2> QED BY <1>4, <2>1 DEF Decoding, Quiet
<1> QED BY <1>1, <1>2, <1>3, <1>4

LEMMA DecodeSteps ==
  ASSUME NEW in, NEW out, Running(in, out), StepFits, ctrl_fsm_cs = "DECODE"
  PROVE  /\ out.debug_mode = debug_mode_q /\ (out.decoding => Decoded)
         /\ Single /\ Executes(in, out) => out.ns \in Stopping
         /\ Single /\ out.ns \in {"FLUSH_EX", "FLUSH_WB"} =>
              instr' = instr /\ instr.kind \in Faults \cup Returns
<1>1. TypeOK /\ Machine /\ ~PULP_SECURE /\ in \in PipelineInputs
  BY RunningTypes DEF Running, ProgramInv
<1>2. CASE ~Decoded
  <2>1. ~data_err_o /\ ~is_fetch_failed /\ (branch_taken_ex \/ ~instr_valid_id)
    BY <1>1, <1>2 DEF Machine, Decoded
  <2>2. out.ns = "DECODE" /\ ~out.decoding /\ out.debug_mode = debug_mode_q
    BY <2>1 DEF Running, Outputs, Decode, Quiet
  <2> QED BY <2>2 DEF Executes
<1>3. CASE Decoded /\ ((IrqRequest /\ ~debug_mode_q) \/ HaltRequest)
  <2>1. /\ out.ns \in {"IRQ_FLUSH", "DBG_FLUSH"} /\ out.halt_id /\ out.debug_mode = debug_mode_q
        /\ out.ns = "DBG_FLUSH" => HaltRequest
    <3>1. CASE IrqRequest /\ ~debug_req_i /\ ~debug_mode_q
      BY <1>3, <3>1, DecodedFacts DEF Running, Outputs, Decode, Halted, Quiet
    <3>2. CASE ~(IrqRequest /\ ~debug_req_i /\ ~debug_mode_q)
      BY <1>3, <3>2, DecodedFacts DEF Running, Outputs, Decode, Halted, Quiet, HaltRequest
    <3> QED BY <3>1, <3>2
  <2> QED BY <1>3, <2>1 DEF Executes, id_valid
<1>4. CASE Decoded /\ ~((IrqRequest /\ ~debug_mode_q) \/ HaltRequest)
  <2> DEFINE d == DecodeInstr(in)
  <2>1. out = SingleStep(in, d)
    BY <1>4, DecodedFacts DEF Running, Outputs, Decode
  <2>2. d.debug_mode = debug_mode_q
    BY <1>1, DecodedParts
  <2>3. SUFFICES ASSUME Single
        PROVE  /\ Executes(in, out) => out.ns \in Stopping
               /\ out.ns \in {"FLUSH_EX", "FLUSH_WB"} =>
                    instr' = instr /\ instr.kind \in Faults \cup Returns
    BY <1>1, <1>4, <2>1, <2>2, SteppedFields
  <2>4. /\ out.halt_if
        /\ out.ns = IF ~id_ready(in) THEN d.ns
                    ELSE IF instr.kind \in {"illegal", "ecall", "mret"} THEN "FLUSH_EX"
                    ELSE IF instr.kind = "ebreak" /\ ~csr.ebreakm THEN "FLUSH_EX"
                    ELSE IF IsBranch(instr) THEN "DBG_WAIT_BRANCH" ELSE "DBG_FLUSH"
    BY <1>1, <2>1, <2>3, SteppedFields
  <2>5. instr' = instr
    BY <2>4, StageIf
  <2>6. instr.kind \in {"wfi", "fencei"} => id_ready(in)
    BY <1>1, <1>4, <2>3
    DEF StepFits, id_ready, ex_ready, ex_valid, lsu_ready_ex, wb_ready, data_req_o, PipelineInputs,
      Holds, Hazards
  <2>7. CASE instr.kind \in Faults \cup Returns
    <3>1. out.halt_id
      BY <1>1, <2>1, <2>7, DecodedParts, SteppedFields
    <3>2. ~Executes(in, out)
      BY <1>4, <2>7, <3>1, DecodedFacts DEF Executes, id_valid, Faults, Returns
    <3> QED BY <2>5, <2>7, <3>2
  <2>8. CASE instr.kind \in {"wfi", "fencei"}
    BY <2>4, <2>6, <2>8 DEF Stopping, IsBranch
  <2>9. CASE instr.kind \notin Faults \cup Returns \cup {"wfi", "fencei"}
    <3>1. CASE id_ready(in)
      BY <2>4, <2>9, <3>1 DEF Stopping, Faults, Returns
    <3>2. CASE ~id_ready(in)
      <4>1. d.ns = "DECODE"
        BY <1>1, <2>9, <3>2, DecodedParts
      <4>2. ~Executes(in, out)
        BY <1>4, <2>4, <2>9, <3>2, <4>1, DecodedFacts DEF Executes, id_valid
      <4> QED BY <2>4, <3>2, <4>1, <4>2
    <3> QED BY <3>1, <3>2
  <2> QED BY <2>7, <2>8, <2>9
<1> QED BY <1>2, <1>3, <1>4

\* The other states.
LEMMA OtherSteps ==
  ASSUME NEW in, NEW out, Running(in, out), ctrl_fsm_cs # "DECODE"
  PROVE  /\ ~out.decoding
         /\ out.debug_mode = debug_mode_q \/ EntersDebug \/ ctrl_fsm_cs = "XRET_JUMP"
         /\ EntersDebug => out.debug_mode
         /\ out.ns \in {"FLUSH_EX", "FLUSH_WB"} => ctrl_fsm_cs = "FLUSH_EX" /\ instr' = instr
         /\ ctrl_fsm_cs = "DBG_WAIT_BRANCH" => out.ns = "DBG_FLUSH"
         /\ Single /\ ctrl_fsm_cs \in {"DBG_FLUSH", "XRET_JUMP"} => out.ns = "DBG_TAKEN_IF"
         /\ Single /\ ctrl_fsm_cs = "FLUSH_WB" /\ instr.kind \in Faults => out.ns = "DBG_TAKEN_IF"
         /\ ctrl_fsm_cs = "FLUSH_WB" /\ instr.kind \in Returns => ~Counts(in, out)
<1>1. /\ TypeOK /\ ~data_err_o /\ ProgramInv /\ Machine
      /\ ctrl_fsm_cs = "FLUSH_WB" =>
           instr.kind \in StatusWrites \cup Faults \cup Returns \cup {"wfi", "fencei"}
      /\ illegal_insn_q <=> Flushing /\ instr.kind = "illegal"
  BY RunningTypes DEF Running, ProgramInv, Machine, InId, Flushing
<1>2. CASE ctrl_fsm_cs \in {"RESET", "BOOT_SET"}
  BY <1>2 DEF Running, Outputs, BootSet, Quiet, EntersDebug
<1>3. CASE ctrl_fsm_cs \in {"WAIT_SLEEP", "SLEEP", "FIRST_FETCH"}
  BY <1>3 DEF Running, Outputs, Sleep, FirstFetch, Halted, Quiet, EntersDebug
<1>4. CASE ctrl_fsm_cs = "FLUSH_EX"
  <2>1. out.halt_if /\ ~out.decoding /\ out.debug_mode = debug_mode_q
    BY <1>1, <1>4 DEF Running, Outputs, FlushEx, Halted, Quiet
  <2> QED BY <1>4, <2>1, StageIf DEF EntersDebug
<1>5. CASE ctrl_fsm_cs = "FLUSH_WB"
  <2>1. out = FlushWb
    BY <1>5 DEF Running, Outputs
  <2>2. illegal_insn_q <=> instr.kind = "illegal"
    BY <1>1, <1>5 DEF Flushing
  <2>3. /\ ~out.decoding /\ out.debug_mode = debug_mode_q
        /\ out.ns = IF instr.kind \in Faults THEN IF Single THEN "DBG_TAKEN_IF" ELSE "DECODE"
                    ELSE IF instr.kind \in Returns THEN "XRET_JUMP"
                    ELSE IF instr.kind = "wfi" THEN "WAIT_SLEEP" ELSE "DECODE"
        /\ instr.kind \in Returns => out.pc_set = {} /\ out.ns = "XRET_JUMP"
    BY <1>1, <1>5, <2>1, <2>2, FlushWbOutputs DEF Faults, Returns
  <2> QED BY <1>5, <2>3 DEF EntersDebug, Counts, Executes, Traps
<1>6. CASE ctrl_fsm_cs = "XRET_JUMP"
  BY <1>6 DEF Running, Outputs, XretJump, Stepped, Quiet, EntersDebug
<1>7. CASE ctrl_fsm_cs = "IRQ_FLUSH"
  BY <1>1, <1>7 DEF Running, Outputs, IrqFlush, Halted, Quiet, EntersDebug
<1>8. CASE ctrl_fsm_cs \in {"IRQ_TAKEN_ID", "IRQ_TAKEN_IF"}
  BY <1>8 DEF Running, Outputs, IrqTaken, Quiet, EntersDebug
<1>9. CASE ctrl_fsm_cs = "DBG_WAIT_BRANCH"
  BY <1>9 DEF Running, Outputs, DbgWaitBranch, Quiet, EntersDebug
<1>10. CASE ctrl_fsm_cs = "DBG_FLUSH"
  BY <1>1, <1>10 DEF Running, Outputs, DbgFlush, Halted, Quiet, EntersDebug
<1>11. CASE EntersDebug
  BY <1>11 DEF Running, Outputs, DbgTakenId, DbgTakenIf, DbgTaken, Quiet, EntersDebug
<1> QED
  BY <1>1, <1>2, <1>3, <1>4, <1>5, <1>6, <1>7, <1>8, <1>9, <1>10, <1>11
  DEF TypeOK, States, EntersDebug

LEMMA StepKeeps ==
  ASSUME NEW in, NEW out, Running(in, out), StepFits, StepInv
  PROVE  StepInv'
<1>1. TypeOK /\ ProgramInv /\ ctrl_fsm_cs' = out.ns /\ debug_mode_q' = out.debug_mode
  BY RunningTypes, StepEdge DEF Running
<1>2. steps' = IF debug_mode_q THEN 0
               ELSE IF Counts(in, out) THEN IF steps < 2 THEN steps + 1 ELSE steps ELSE steps
  BY StepEdge
<1>3. out.decoding => Decoded
  BY DecodeSteps, OtherSteps DEF Decoded
<1>4. ctrl_fsm_cs = "XRET_JUMP" => ex.kind # "dcsr_step"
  BY <1>1 DEF ProgramInv, InEx, Calm, Writers, StatusWrites
<1>5. ex'.kind = "dcsr_step" => debug_mode_q'
  <2>1. CASE Issues(in, out)
    BY <1>1, <1>3, <2>1, DecodeSteps, StageEx DEF StepFits, Issues, Decoded
  <2>2. CASE ~Issues(in, out)
    <3>1. ex'.kind = "dcsr_step" => ex' = ex
      BY <2>2, StageEx DEF Writers, StatusWrites
    <3>2. ex'.kind = "dcsr_step" => debug_mode_q /\ ctrl_fsm_cs # "XRET_JUMP"
      BY <1>4, <3>1 DEF StepInv
    <3> QED BY <1>1, <3>2, DecodeSteps, OtherSteps
  <2> QED BY <2>1, <2>2
<1>6. Single' => Single \/ debug_mode_q
  <2>1. ex.kind # "dcsr_step" => (Written(ex).step => csr.step)
    BY <1>1 DEF Written, TypeOK, Registers
  <2> QED BY <2>1, StepEdge DEF StepInv, Single
<1>7. CASE debug_mode_q
  <2>1. Single' => ctrl_fsm_cs = "XRET_JUMP"
    BY <1>1, <1>7, DecodeSteps, OtherSteps DEF Single
  <2>2. Single' => ~Flushing'
    BY <1>1, <2>1, OtherSteps DEF Flushing
  <2> QED BY <1>2, <1>5, <1>7, <2>2 DEF StepInv
<1>8. CASE ~debug_mode_q
  <2>1. steps' \in 0 .. 2
    BY <1>2, <1>8 DEF StepInv
  <2>2. SUFFICES ASSUME Single'
        PROVE  /\ steps' = 0 \/ (steps' = 1 /\ out.ns \in Stopping)
               /\ out.ns \in {"FLUSH_EX", "FLUSH_WB"} => instr'.kind \in Faults \cup Returns
    BY <1>1, <1>5, <2>1 DEF StepInv, Flushing
  <2>3. Single /\ ~debug_mode_q'
    BY <1>6, <1>8, <2>2 DEF Single
  <2>4. ~EntersDebug
    BY <1>1, <2>3, OtherSteps DEF EntersDebug
  <2>5. Executes(in, out) =>
          ctrl_fsm_cs = "XRET_JUMP" \/ out.decoding \/ ctrl_fsm_cs = "DECODE"
            \/ (ctrl_fsm_cs = "FLUSH_WB" /\ (out.ns = "WAIT_SLEEP" \/ instr.kind = "fencei"))
    BY DEF Executes
  <2>6. ctrl_fsm_cs = "FLUSH_WB" => instr.kind \in Faults \cup Returns
    BY <2>3 DEF StepInv, Flushing
  <2>7. CASE ctrl_fsm_cs = "DECODE"
    <3>1. ~Traps(in, out)
      BY <2>7 DEF Traps
    <3>2. steps = 0
      BY <2>3, <2>7 DEF StepInv, Stopping
    <3> QED BY <1>2, <1>8, <2>3, <2>7, <3>1, <3>2, DecodeSteps DEF Counts
  <2>8. CASE ctrl_fsm_cs \in {"FLUSH_WB", "XRET_JUMP"}
    <3>1. steps = 0
      BY <2>3, <2>8 DEF StepInv, Stopping
    <3>2. out.ns \notin {"FLUSH_EX", "FLUSH_WB"}
      BY <2>8, OtherSteps
    <3>3. Counts(in, out) => out.ns = "DBG_TAKEN_IF"
      BY <2>3, <2>6, <2>8, OtherSteps
    <3> QED BY <1>2, <1>8, <3>1, <3>2, <3>3 DEF Stopping
  <2>9. CASE ctrl_fsm_cs \notin {"DECODE", "FLUSH_WB", "XRET_JUMP"}
    <3>1. ~Counts(in, out)
      BY <2>5, <2>9, OtherSteps DEF Counts, Traps
    <3>2. steps' = steps
      BY <1>2, <1>8, <3>1
    <3>3. out.ns \in {"FLUSH_EX", "FLUSH_WB"} => instr'.kind \in Faults \cup Returns
      BY <2>3, <2>9, OtherSteps DEF StepInv, Flushing
    <3>4. steps # 0 => steps = 1 /\ ctrl_fsm_cs \in Stopping
      BY <2>3 DEF StepInv
    <3>5. ctrl_fsm_cs \in Stopping => out.ns \in Stopping
      BY <2>3, <2>4, <2>9, OtherSteps DEF Stopping, EntersDebug
    <3> QED BY <3>2, <3>3, <3>4, <3>5
  <2> QED BY <2>7, <2>8, <2>9
<1> QED BY <1>7, <1>8

\* A step of the debugger is one instruction or one trap, if only debug code asks
\* for steps and a stepped wfi or fence.i finds EX and WB empty
\* (riscv_controller.sv, "prevent any more instructions from executing").
THEOREM StepsAreSingle ==
  ASSUME ~PULP_SECURE
  PROVE  ProgramSpec /\ []Fits /\ []StepFits => []StepsOne
<1>1. ProgramInit => StepInv
  BY DEF ProgramInit, Init, CsrInit, PipeInit, Bubble, StepInv, Single
<1>2. ProgramInv /\ Fits /\ StepFits /\ StepInv /\ [ProgramNext]_programVars => StepInv'
  <2> SUFFICES ASSUME ProgramInv, Fits, StepFits, StepInv, [ProgramNext]_programVars
               PROVE  StepInv'
    OBVIOUS
  <2>1. CASE ProgramNext
    <3>1. PICK in \in PipelineInputs :
            PipelineOK(in) /\ Cycle(in, Outputs(in)) /\ Track(in, Outputs(in))
      BY <2>1 DEF ProgramNext
    <3>2. Running(in, Outputs(in))
      BY <3>1 DEF Running
    <3> QED BY <3>2, StepKeeps
  <2>2. CASE UNCHANGED programVars
    BY <2>2 DEF programVars, ctrlVars, pipeVars, StepInv, Single, Flushing
  <2> QED BY <2>1, <2>2
<1>3. ProgramInv /\ StepInv => StepsOne
  BY DEF ProgramInv, Machine, StepInv, Single, StepsOne
<1> QED BY <1>1, <1>2, <1>3, ProgramInvariant, PTL DEF ProgramSpec

-----------------------------------------------------------------------------
(* Programs for which no hypothesis is left. *)

PlainPrograms ==
  \A p \in Programs, a \in Pc : \A i \in p.at[a] : i.kind \notin {"write_mepc", "dcsr_step", "wfi"}
PlainInv == ProgramInv /\ ~csr.step /\ ex.kind \notin {"write_mepc", "dcsr_step"}

LEMMA PlainFits == ASSUME PlainPrograms, PlainInv PROVE Fits
<1>1. Decoded => instr.kind # "wfi"
  BY DEF PlainPrograms, PlainInv, ProgramInv, Position, AtId, Inv, TypeOK
<1> QED BY <1>1 DEF PlainInv, Fits, Single

LEMMA PlainKeeps ==
  ASSUME PlainPrograms, PlainInv, NEW in, NEW out, Running(in, out)
  PROVE  ~csr'.step /\ ex'.kind \notin {"write_mepc", "dcsr_step"}
<1>1. Written(ex).step => csr.step
  BY RunningTypes DEF PlainInv, Written, TypeOK, Registers
<1>2. ~csr'.step
  BY <1>1, StepEdge DEF PlainInv
<1>3. out.decoding => Decoded
  <2>1. StepFits
    BY DEF PlainPrograms, PlainInv, ProgramInv, Position, AtId, Inv, TypeOK, StepFits, Single
  <2> QED BY <2>1, DecodeSteps, OtherSteps DEF Decoded
<1>4. Decoded => instr.kind \notin {"write_mepc", "dcsr_step"}
  BY DEF PlainPrograms, PlainInv, ProgramInv, Position, AtId, Inv, TypeOK
<1>5. ex'.kind \notin {"write_mepc", "dcsr_step"}
  BY <1>3, <1>4, StageEx DEF Issues, PlainInv, Writers, StatusWrites
<1> QED BY <1>2, <1>5

\* A program that does not write mepc, sleep or step runs as the architecture says,
\* whatever interrupts, halt requests, stalls and memory delays occur
\* (riscv_controller.sv, as a whole).
THEOREM PlainProgramsRun ==
  ASSUME ~PULP_SECURE, PlainPrograms
  PROVE  ProgramSpec => ImplementsArchitecture /\ [](InOrder /\ TrapPrecise /\ EnableExact)
<1>1. ProgramInit => PlainInv
  <2> SUFFICES ASSUME ProgramInit PROVE PlainInv
    OBVIOUS
  <2>1. ~csr.step /\ ex.kind \notin {"write_mepc", "dcsr_step"}
    BY DEF ProgramInit, Init, CsrInit, PipeInit, Bubble
  <2> QED BY <2>1, ProgramStarts DEF PlainInv
<1>2. PlainInv /\ [ProgramNext]_programVars => PlainInv' /\ [Arch!ArchNext]_(Arch!archVars)
  <2> SUFFICES ASSUME PlainInv, [ProgramNext]_programVars
               PROVE  PlainInv' /\ [Arch!ArchNext]_(Arch!archVars)
    OBVIOUS
  <2>1. Fits /\ ProgramInv
    BY PlainFits DEF PlainInv
  <2>2. ProgramInv' /\ [Arch!ArchNext]_(Arch!archVars)
    BY <2>1, ProgramSteps
  <2>3. ~csr'.step /\ ex'.kind \notin {"write_mepc", "dcsr_step"}
    <3>1. CASE ProgramNext
      <4>1. PICK in \in PipelineInputs :
              PipelineOK(in) /\ Cycle(in, Outputs(in)) /\ Track(in, Outputs(in))
        BY <3>1 DEF ProgramNext
      <4>2. Running(in, Outputs(in))
        BY <2>1, <4>1 DEF Running
      <4> QED BY <4>2, PlainKeeps
    <3>2. CASE UNCHANGED programVars
      BY <3>2 DEF programVars, ctrlVars, pipeVars, PlainInv
    <3> QED BY <3>1, <3>2
  <2> QED BY <2>2, <2>3 DEF PlainInv
<1>3. PlainInv => InOrder /\ TrapPrecise /\ EnableExact
  BY ProgramInvShows DEF PlainInv
<1>4. ProgramInit => Arch!ArchInit
  BY DEF ProgramInit
<1> QED BY <1>1, <1>2, <1>3, <1>4, PTL DEF ProgramSpec, ImplementsArchitecture, Arch!ArchSpec
=============================================================================
