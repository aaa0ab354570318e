--------------------------- MODULE LoadStoreUnit ---------------------------
(***************************************************************************)
(* rtl/riscv_load_store_unit.sv with what surrounds it in the pipeline:    *)
(* the data access in the ID/EX registers (riscv_id_stage.sv), the ready   *)
(* and valid signals and the EX/WB register (riscv_ex_stage.sv), the data  *)
(* side of the protection unit (riscv_pmp.sv), and the controller's answer *)
(* to a data error (riscv_controller.sv).  No floating-point unit.         *)
(*                                                                         *)
(* A step is a clock cycle.  A byte is named, not valued: <<"mem", a>> is  *)
(* the byte memory holds at address a, <<"reg", i>> byte i of the register *)
(* a store writes, <<"fill", b>> eight copies of bit b.  The unit looks at *)
(* a byte only to extend its sign.                                         *)
(***************************************************************************)
EXTENDS Integers, Sequences

CONSTANTS
  NBYTES,     \* size of the address space (2^32 in the core); it wraps
  Negative,   \* addresses whose memory byte has its top bit set
  Refused,    \* words the protection unit may refuse
  Accesses,   \* the data accesses of the program
  Stallable   \* accesses another unit may hold in EX

Address == 0 .. NBYTES - 1
MemWords == 0 .. NBYTES \div 4 - 1
Lanes == 0 .. 3
AccessType ==
  [we : BOOLEAN, type : {"word", "half", "byte"}, sext : {"zero", "sign", "ones"},
   addr : Address]

ASSUME NBytesAssumption == NBYTES \in Nat \ {0} /\ NBYTES % 4 = 0
ASSUME AccessesAssumption == Accesses \subseteq AccessType /\ Stallable \subseteq Accesses
ASSUME NegativeAssumption == Negative \subseteq Address /\ Refused \subseteq MemWords

VARIABLES
  ex, data_misaligned_ex,   \* ID/EX: the access in EX; its second word is next
  CS,                       \* the unit's FSM
  data_type_q, rdata_offset_q, data_sign_ext_q, data_we_q,  \* of the last grant
  rdata_q,                  \* first word of a misaligned load, or the last result
  regfile_we_lsu,           \* EX/WB: a load is in WB
  data_err_state_q,         \* error FSM of the protection unit
  ctrl_fsm_cs,              \* DECODE, or FLUSH_WB in the cycle after a data error
  pending                   \* external: granted words the memory has to answer

lsuVars == <<ex, data_misaligned_ex, CS, data_type_q, rdata_offset_q,
             data_sign_ext_q, data_we_q, rdata_q, regfile_we_lsu,
             data_err_state_q, ctrl_fsm_cs, pending>>

NoAccess == [we |-> FALSE, type |-> "none", sext |-> "zero", addr |-> 0]
LoadByte == ({"mem"} \X Address) \cup ({"fill"} \X {0, 1})
MemoryWord(w) == [k \in Lanes |-> <<"mem", 4 * w + k>>]

\* id is what ID would send on; branch tells a taken or untaken branch in EX
Inputs ==
  [id : Accesses \cup {NoAccess}, branch : BOOLEAN, stall : BOOLEAN,
   gnt : BOOLEAN, rvalid : BOOLEAN, refuse : BOOLEAN]

-----------------------------------------------------------------------------
(* Address, byte enables and write lanes of the request in EX.  The second *)
(* request of an access across words goes to the address plus 4.           *)

data_req_ex == ex # NoAccess
\* A slip: the address of the second word does not wrap.
data_addrNoWrap == IF data_misaligned_ex THEN ex.addr + 4 ELSE ex.addr
data_addr == IF data_misaligned_ex THEN (ex.addr + 4) % NBYTES ELSE ex.addr
Offset == data_addr % 4

Crosses(type, offset) ==
  \/ type = "word" /\ offset # 0
  \/ type = "half" /\ offset = 3

data_misaligned_o == data_req_ex /\ ~data_misaligned_ex /\ Crosses(ex.type, Offset)

data_be ==
  CASE ex.type = "word" -> IF data_misaligned_ex THEN {k \in Lanes : k < Offset}
                           ELSE {k \in Lanes : k >= Offset}
    [] ex.type = "half" -> IF data_misaligned_ex THEN {0}
                           ELSE {Offset, Offset + 1} \cap Lanes
    [] ex.type = "byte" -> {Offset}
data_wdata == [k \in Lanes |-> <<"reg", (k - Offset) % 4>>]

-----------------------------------------------------------------------------
(* Alignment and sign extension of the word that arrives. *)

Size(type) == CASE type = "word" -> 4 [] type = "half" -> 2 [] type = "byte" -> 1

SignBit(byte) ==
  CASE byte[1] = "mem" -> IF byte[2] \in Negative THEN 1 ELSE 0
    [] byte[1] = "fill" -> byte[2]
Fill(sext, top) ==
  <<"fill", CASE sext = "zero" -> 0 [] sext = "ones" -> 1 [] sext = "sign" -> SignBit(top)>>

\* Byte i of the access: from the word arriving now, or from the first word
RdataByte(rdata, i) ==
  LET at == rdata_offset_q + i IN
  IF at >= 4 THEN rdata[at - 4]
  ELSE IF Crosses(data_type_q, rdata_offset_q) THEN rdata_q[at]
  ELSE rdata[at]

data_rdata_ext(rdata) ==
  LET size == Size(data_type_q) IN
  [i \in Lanes |-> IF i < size THEN RdataByte(rdata, i)
                   ELSE Fill(data_sign_ext_q, RdataByte(rdata, size - 1))]

data_rdata_ex_o(in) ==
  IF in.rvalid THEN data_rdata_ext(MemoryWord(Head(pending))) ELSE rdata_q

-----------------------------------------------------------------------------
(* Handshakes. *)

\* A slip: the next request does not wait for the last answer.
data_req_oEager(in) == data_req_ex /\ CS \in {"IDLE", "WAIT_RVALID"}
data_req_o(in) ==
  /\ data_req_ex
  /\ CS = "IDLE" \/ (CS = "WAIT_RVALID" /\ in.rvalid)

data_err_o == data_err_state_q = "GIVE_ERROR"

\* A slip: an error does not let the access leave EX.
lsu_ready_exNoError(in) ==
  (CS = "IDLE" \/ (CS = "WAIT_RVALID" /\ in.rvalid)) /\ data_req_ex => in.gnt
lsu_ready_ex(in) ==
  (CS = "IDLE" \/ (CS = "WAIT_RVALID" /\ in.rvalid)) /\ data_req_ex
    => in.gnt \/ data_err_o
lsu_ready_wb(in) == CS = "WAIT_RVALID" => in.rvalid

ex_valid(in) == data_req_ex /\ ~in.stall /\ lsu_ready_ex(in) /\ lsu_ready_wb(in)
ex_ready(in) == (~in.stall /\ lsu_ready_ex(in) /\ lsu_ready_wb(in)) \/ in.branch

halt_id == data_err_o \/ ctrl_fsm_cs = "FLUSH_WB"

-----------------------------------------------------------------------------
(* The unit's FSM, one action per state. *)

Granted(in) ==
  CS' = IF ex_valid(in) THEN "WAIT_RVALID" ELSE "WAIT_RVALID_EX_STALL"

Idle(in) ==
  /\ CS = "IDLE"
  /\ \/ in.gnt /\ Granted(in)
     \/ ~in.gnt /\ UNCHANGED CS

WaitRvalid(in) ==
  /\ CS = "WAIT_RVALID"
  /\ \/ ~in.rvalid /\ UNCHANGED CS
     \/ in.gnt /\ Granted(in)
     \/ in.rvalid /\ ~in.gnt /\ CS' = "IDLE"

\* A slip: the answer ends the access although it is still held in EX.
WaitRvalidExStallForgets(in) ==
  /\ CS = "WAIT_RVALID_EX_STALL"
  /\ CS' = IF in.rvalid THEN "IDLE"
           ELSE IF ex_valid(in) THEN "WAIT_RVALID" ELSE "WAIT_RVALID_EX_STALL"
WaitRvalidExStall(in) ==
  /\ CS = "WAIT_RVALID_EX_STALL"
  /\ CS' = CASE in.rvalid /\ ex_valid(in) -> "IDLE"
             [] in.rvalid /\ ~ex_valid(in) -> "IDLE_EX_STALL"
             [] ~in.rvalid /\ ex_valid(in) -> "WAIT_RVALID"
             [] ~in.rvalid /\ ~ex_valid(in) -> "WAIT_RVALID_EX_STALL"

IdleExStall(in) ==
  /\ CS = "IDLE_EX_STALL"
  /\ CS' = IF ex_valid(in) THEN "IDLE" ELSE "IDLE_EX_STALL"

GrantRegs(in) ==
  \/ /\ in.gnt
     /\ data_type_q' = ex.type /\ rdata_offset_q' = Offset
     /\ data_sign_ext_q' = ex.sext /\ data_we_q' = ex.we
  \/ ~in.gnt /\ UNCHANGED <<data_type_q, rdata_offset_q, data_sign_ext_q, data_we_q>>

\* A slip: the first word is kept only while its request is the one in EX.
RdataRegFirst(in) ==
  rdata_q' = IF ~in.rvalid \/ data_we_q THEN rdata_q
             ELSE IF data_misaligned_o THEN MemoryWord(Head(pending))
             ELSE data_rdata_ext(MemoryWord(Head(pending)))
RdataReg(in) ==
  rdata_q' = IF ~in.rvalid \/ data_we_q THEN rdata_q
             ELSE IF data_misaligned_ex \/ data_misaligned_o
             THEN MemoryWord(Head(pending))
             ELSE data_rdata_ext(MemoryWord(Head(pending)))

-----------------------------------------------------------------------------
(* The pipeline registers around the unit. *)

\* The first request of an access across words is done: stay, for the second.
NextWordOfAccess(in) ==
  /\ data_misaligned_o
  /\ data_misaligned_ex' = (ex_ready(in) \/ data_misaligned_ex)
  /\ UNCHANGED ex

NextAccess(in) ==
  /\ ~data_misaligned_o
  /\ \/ /\ ex_ready(in)
        /\ ex' = IF halt_id THEN NoAccess ELSE in.id
        /\ data_misaligned_ex' = FALSE
     \/ ~ex_ready(in) /\ UNCHANGED <<ex, data_misaligned_ex>>

regfile_we_ex == data_req_ex /\ ~ex.we

WbReg(in) ==
  regfile_we_lsu' = IF ex_valid(in) THEN regfile_we_ex /\ ~data_err_o
                    ELSE regfile_we_lsu /\ ~lsu_ready_wb(in)

\* A refused request is answered with an error in the next cycle, which the
\* controller acknowledges at once.
ErrorFsm(in) ==
  data_err_state_q' = IF data_err_o THEN "IDLE"
                      ELSE IF in.refuse THEN "GIVE_ERROR" ELSE "IDLE"
Controller == ctrl_fsm_cs' = IF data_err_o THEN "FLUSH_WB" ELSE "DECODE"

(* External: the memory. *)
MemStep(in) ==
  LET left == IF in.rvalid THEN Tail(pending) ELSE pending IN
  pending' = IF in.gnt THEN Append(left, data_addr \div 4) ELSE left

-----------------------------------------------------------------------------
(* What the surroundings guarantee: the memory answers what it was asked,  *)
(* later; a refused request is not granted, and is refused again in the    *)
(* cycle of its error; EX holds a branch or an access, and only some       *)
(* accesses, or none, wait there for another unit.                         *)
SurroundingsOK(in) ==
  /\ in.rvalid => pending # <<>>
  /\ in.gnt \/ in.refuse => data_req_o(in)
  /\ ~(in.gnt /\ in.refuse)
  /\ in.refuse => data_addr \div 4 \in Refused
  /\ data_err_o => in.refuse
  /\ in.branch => ~data_req_ex
  /\ in.stall => ex \in Stallable \cup {NoAccess}

Init ==
  /\ ex = NoAccess /\ data_misaligned_ex = FALSE
  /\ CS = "IDLE"
  /\ data_type_q = "word" /\ rdata_offset_q = 0 /\ data_sign_ext_q = "zero"
  /\ data_we_q = FALSE
  /\ rdata_q = [k \in Lanes |-> <<"fill", 0>>]
  /\ regfile_we_lsu = FALSE
  /\ data_err_state_q = "IDLE" /\ ctrl_fsm_cs = "DECODE"
  /\ pending = <<>>

Clock(in) ==
  /\ Idle(in) \/ WaitRvalid(in) \/ WaitRvalidExStall(in) \/ IdleExStall(in)
  /\ GrantRegs(in)
  /\ RdataReg(in)
  /\ NextWordOfAccess(in) \/ NextAccess(in)
  /\ WbReg(in)
  /\ ErrorFsm(in) /\ Controller
  /\ MemStep(in)

Next == \E in \in Inputs : SurroundingsOK(in) /\ Clock(in)

Spec == Init /\ [][Next]_lsuVars

-----------------------------------------------------------------------------
(* Type invariant. *)
TypeOK ==
  /\ ex \in Accesses \cup {NoAccess}
  /\ data_misaligned_ex \in BOOLEAN
  /\ CS \in {"IDLE", "WAIT_RVALID", "WAIT_RVALID_EX_STALL", "IDLE_EX_STALL"}
  /\ data_type_q \in {"word", "half", "byte"}
  /\ rdata_offset_q \in Lanes
  /\ data_sign_ext_q \in {"zero", "sign", "ones"}
  /\ data_we_q \in BOOLEAN
  /\ rdata_q \in [Lanes -> LoadByte]
  /\ regfile_we_lsu \in BOOLEAN
  /\ data_err_state_q \in {"IDLE", "GIVE_ERROR"}
  /\ ctrl_fsm_cs \in {"DECODE", "FLUSH_WB"}
  /\ pending \in Seq(MemWords)

\* "There should be no rvalid when the LSU is IDLE", and no grant before the
\* last request is answered (the assertions of riscv_load_store_unit.sv): the
\* memory owes a word exactly in the two states that wait for one.
AnswerExpected ==
  Len(pending) = IF CS \in {"WAIT_RVALID", "WAIT_RVALID_EX_STALL"} THEN 1 ELSE 0
=============================================================================
