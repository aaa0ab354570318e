--------------------------- MODULE PrefetchBuffer ---------------------------
(***************************************************************************)
(* rtl/riscv_prefetch_buffer.sv: requests instruction words ahead of the   *)
(* IF stage, follows branches and hardware-loop jumps while requests are   *)
(* in flight, and feeds the fetch queue (module FetchFifo).                *)
(*                                                                         *)
(* A step is a clock cycle.  An input record holds what the ports carry in *)
(* it, and the outputs are operators of the registers and that record.     *)
(* The memory is the list of granted requests it has not answered.  Its    *)
(* data port is not driven without rvalid: it then shows a word of Junk.   *)
(***************************************************************************)
EXTENDS FetchFifo, Sequences

CONSTANTS
  Targets,     \* the halfword addresses a branch or a loop may go to
  Junk,        \* words seen on the data port when it is not driven
  Protected    \* the words the protection unit may refuse

ASSUME TargetsAssumption == Targets \subseteq Addr
ASSUME JunkAssumption    == Junk \subseteq Rdata
ASSUME ProtectedAssumption == Protected \subseteq Word

VARIABLES
  CS,            \* instruction fetch FSM
  hwlp_CS,       \* hardware loop FSM
  instr_addr_q,  \* the address requested last
  pending        \* external: granted words the memory still has to return

fetchVars == <<CS, hwlp_CS, instr_addr_q, pending>>
vars == <<fifoVars, fetchVars>>

FetchStates == {"IDLE", "WAIT_GNT", "WAIT_RVALID", "WAIT_ABORTED", "WAIT_JUMP"}
HwlpStates == {"HWLP_NONE", "HWLP_IN", "HWLP_FETCHING", "HWLP_DONE",
               "HWLP_UNALIGNED_COMPRESSED"}

Inputs ==
  [req : BOOLEAN, branch : BOOLEAN, addr : Targets,
   hwloop : BOOLEAN, hwloop_target : Addr, ready : BOOLEAN,
   gnt : BOOLEAN, rvalid : BOOLEAN, err : BOOLEAN, rdata : Junk]

-----------------------------------------------------------------------------
(* The word arriving from memory, and the ports of the queue. *)

fetch_addr == [w |-> NextWord(instr_addr_q.w), h |-> 0]

instr_rdata(in) ==
  IF in.rvalid /\ pending # <<>> THEN MemWord(Head(pending)) ELSE in.rdata

fifo_valid(in) == CS = "WAIT_RVALID" /\ in.rvalid
fifo_hwlp == hwlp_CS = "HWLP_FETCHING"

Port(in) ==
  [valid |-> fifo_valid(in), addr |-> instr_addr_q, rdata |-> instr_rdata(in),
   replace2 |-> fifo_hwlp, is_hwlp |-> fifo_hwlp, ready |-> in.ready]

valid_o(in)   == out_valid(Port(in))
rdata_o(in)   == out_rdata(Port(in))
addr_o(in)    == out_addr(Port(in))
is_hwlp_o(in) == out_is_hwlp(Port(in))
valid_stored(in) == out_valid_stored(Port(in))

-----------------------------------------------------------------------------
(* Where the next request goes.  hwlp_masked asks for the loop target; a   *)
(* strong jump to it (hwlp_branch) is needed when the last instruction of  *)
(* the body turned out to be a compressed one in an upper half.            *)

hwlp_masked(in) ==
  \/ hwlp_CS = "HWLP_NONE" /\ in.hwloop /\ instr_addr_q.h = 0
  \/ hwlp_CS = "HWLP_IN"
hwlp_branch == hwlp_CS = "HWLP_UNALIGNED_COMPRESSED"
hwloop_speculative(in) ==
  /\ hwlp_CS = "HWLP_NONE"
  /\ in.hwloop
  /\ valid_o(in)
  /\ unaligned_is_compressed(Port(in))
  /\ instr_addr_q.h = 1

Redirected(in) == in.branch \/ hwlp_branch
RedirectAddr(in) == IF in.branch THEN in.addr ELSE instr_addr_q
\* A slip: jump before the last instruction of the body is stored.
LoopJumpEarly(in) == hwlp_masked(in)
LoopJump(in) == hwlp_masked(in) /\ valid_stored(in)

\* WAIT_RVALID: room for one more word, or the queue is about to be emptied
MayPrefetch(in) == in.req /\ (in_ready \/ Redirected(in) \/ hwlp_masked(in))

\* A slip: a new request is made while the last one is unanswered.
instr_req_oEager(in) ==
  \/ CS = "IDLE" /\ in.req /\ (in_ready \/ Redirected(in) \/ LoopJump(in))
  \/ CS = "WAIT_JUMP" /\ in.branch
  \/ CS = "WAIT_GNT"
  \/ CS = "WAIT_RVALID" /\ MayPrefetch(in)
  \/ CS = "WAIT_ABORTED" /\ in.rvalid
instr_req_o(in) ==
  \/ CS = "IDLE" /\ in.req /\ (in_ready \/ Redirected(in) \/ LoopJump(in))
  \/ CS = "WAIT_JUMP" /\ in.branch
  \/ CS = "WAIT_GNT"
  \/ CS = "WAIT_RVALID" /\ in.rvalid /\ MayPrefetch(in)
  \/ CS = "WAIT_ABORTED" /\ in.rvalid

instr_addr_o(in) ==
  CASE CS = "WAIT_JUMP" -> IF in.branch THEN in.addr ELSE fetch_addr
    [] CS # "WAIT_JUMP" /\ Redirected(in) -> RedirectAddr(in)
    [] CS = "WAIT_RVALID" /\ ~Redirected(in) ->
         IF hwlp_masked(in) THEN in.hwloop_target ELSE fetch_addr
    [] CS = "IDLE" /\ ~Redirected(in) ->
         IF LoopJump(in) THEN in.hwloop_target ELSE fetch_addr
    [] CS = "WAIT_GNT" /\ ~Redirected(in) ->
         IF LoopJump(in) THEN in.hwloop_target ELSE instr_addr_q
    [] CS = "WAIT_ABORTED" /\ ~Redirected(in) -> instr_addr_q

Aborts(in) ==
  /\ CS = "WAIT_RVALID" /\ ~in.rvalid /\ MayPrefetch(in)
  /\ Redirected(in) \/ (hwlp_masked(in) /\ valid_o(in))

addr_valid(in) ==
  \/ CS \in {"IDLE", "WAIT_JUMP", "WAIT_RVALID"} /\ instr_req_o(in)
  \/ CS = "WAIT_GNT" /\ (Redirected(in) \/ LoopJump(in))
  \/ Aborts(in)
  \/ CS = "WAIT_ABORTED" /\ Redirected(in)

fetch_is_hwlp(in) ==
  \/ CS = "IDLE" /\ instr_req_o(in) /\ LoopJump(in)
  \/ CS = "WAIT_GNT" /\ ~Redirected(in) /\ LoopJump(in)
  \/ CS = "WAIT_RVALID" /\ instr_req_o(in) /\ hwlp_masked(in)
  \/ Aborts(in) /\ ~Redirected(in)

\* WAIT_JUMP: a word the protection unit refused is what is needed next
\* A slip: the fault is raised while instructions before it are queued.
fetch_failed_oEarly(in) == CS = "WAIT_JUMP" /\ ~in.branch
fetch_failed_o(in) == CS = "WAIT_JUMP" /\ ~valid_o(in) /\ ~in.branch

busy_o(in) == CS # "IDLE" \/ instr_req_o(in)

-----------------------------------------------------------------------------
(* Instruction fetch FSM, one action per state. *)

Requested(in) ==
  CS' = IF in.err THEN "WAIT_JUMP"
        ELSE IF in.gnt THEN "WAIT_RVALID" ELSE "WAIT_GNT"

Idle(in) ==
  /\ CS = "IDLE"
  /\ \/ instr_req_o(in) /\ Requested(in)
     \/ ~instr_req_o(in) /\ UNCHANGED CS

\* leaves only with a branch, whose address is not checked in this cycle
WaitJump(in) ==
  /\ CS = "WAIT_JUMP"
  /\ \/ in.branch /\ CS' = IF in.gnt THEN "WAIT_RVALID" ELSE "WAIT_GNT"
     \/ ~in.branch /\ UNCHANGED CS

WaitGnt(in) == CS = "WAIT_GNT" /\ Requested(in)

\* A slip: the FSM does not return to IDLE when nothing more is requested.
WaitRvalidStuck(in) ==
  /\ CS = "WAIT_RVALID"
  /\ \/ instr_req_o(in) /\ Requested(in)
     \/ Aborts(in) /\ CS' = "WAIT_ABORTED"
     \/ ~instr_req_o(in) /\ ~Aborts(in) /\ UNCHANGED CS
WaitRvalid(in) ==
  /\ CS = "WAIT_RVALID"
  /\ \/ instr_req_o(in) /\ Requested(in)
     \/ in.rvalid /\ ~MayPrefetch(in) /\ CS' = "IDLE"
     \/ Aborts(in) /\ CS' = "WAIT_ABORTED"
     \/ ~in.rvalid /\ ~Aborts(in) /\ UNCHANGED CS

WaitAborted(in) ==
  /\ CS = "WAIT_ABORTED"
  /\ \/ in.rvalid /\ Requested(in)
     \/ ~in.rvalid /\ UNCHANGED CS

FetchAddr(in) ==
  instr_addr_q' =
    IF ~addr_valid(in) THEN instr_addr_q
    ELSE IF hwloop_speculative(in) /\ ~in.branch THEN in.hwloop_target
    ELSE instr_addr_o(in)

(* Hardware loop FSM, one action per state; a branch leaves every state. *)

HwlpFetch(in) ==
  hwlp_CS' = IF fetch_is_hwlp(in) THEN "HWLP_FETCHING" ELSE "HWLP_IN"

HwlpNone(in) ==
  /\ hwlp_CS = "HWLP_NONE"
  /\ \/ ~in.hwloop /\ UNCHANGED hwlp_CS
     \/ hwloop_speculative(in) /\ hwlp_CS' = "HWLP_UNALIGNED_COMPRESSED"
     \/ in.hwloop /\ ~hwloop_speculative(in) /\ HwlpFetch(in)

HwlpUnalignedCompressed ==
  hwlp_CS = "HWLP_UNALIGNED_COMPRESSED" /\ hwlp_CS' = "HWLP_FETCHING"

HwlpIn(in) == hwlp_CS = "HWLP_IN" /\ HwlpFetch(in)

HwlpFetching(in) ==
  /\ hwlp_CS = "HWLP_FETCHING"
  /\ hwlp_CS' = IF ~in.rvalid \/ CS = "WAIT_ABORTED" THEN "HWLP_FETCHING"
                ELSE IF valid_o(in) /\ is_hwlp_o(in) THEN "HWLP_NONE"
                ELSE "HWLP_DONE"

HwlpDone(in) ==
  /\ hwlp_CS = "HWLP_DONE"
  /\ hwlp_CS' = IF valid_o(in) /\ is_hwlp_o(in) THEN "HWLP_NONE" ELSE "HWLP_DONE"

HwlpStep(in) ==
  \/ in.branch /\ hwlp_CS' = "HWLP_NONE"
  \/ /\ ~in.branch
     /\ \/ HwlpNone(in) \/ HwlpUnalignedCompressed \/ HwlpIn(in)
        \/ HwlpFetching(in) \/ HwlpDone(in)

\* A slip: words behind the last instruction survive while its target is fetched.
fifo_clearNotFetching(in) ==
  \/ in.branch
  \/ hwlp_branch
  \/ in.ready /\ hwlp_CS = "HWLP_NONE" /\ in.hwloop
  \/ in.ready /\ hwlp_CS = "HWLP_IN"
fifo_clear(in) ==
  \/ in.branch
  \/ hwlp_branch
  \/ /\ in.ready
     /\ \/ hwlp_CS = "HWLP_NONE" /\ in.hwloop
        \/ hwlp_CS = "HWLP_IN"
        \/ hwlp_CS = "HWLP_FETCHING" /\ (~in.rvalid \/ CS = "WAIT_ABORTED")

(* External: a granted word joins the list, an answered one leaves it. *)

Unanswered(in) == IF in.rvalid THEN Tail(pending) ELSE pending

MemStep(in) ==
  pending' = IF in.gnt THEN Append(Unanswered(in), instr_addr_o(in).w)
             ELSE Unanswered(in)

-----------------------------------------------------------------------------
(* What the surroundings guarantee.  The memory answers only what it was   *)
(* asked, in a later cycle; the protection unit withholds the grant of a   *)
(* word it refuses; the IF stage takes only what is offered, never in the  *)
(* cycle of a jump, and the controller jumps only while it requests.       *)

MemoryOK(in) ==
  /\ in.rvalid => pending # <<>>
  /\ ~(in.gnt /\ in.err)
  /\ in.gnt \/ in.err => instr_req_o(in)
  /\ in.err => instr_addr_o(in).w \in Protected

ConsumerOK(in) ==
  /\ in.branch => in.req
  /\ in.ready => in.req /\ ~Redirected(in) /\ valid_o(in)

Init ==
  /\ FifoInit
  /\ CS = "IDLE"
  /\ hwlp_CS = "HWLP_NONE"
  /\ instr_addr_q = [w |-> 0, h |-> 0]
  /\ pending = <<>>

Clock(in) ==
  /\ Idle(in) \/ WaitJump(in) \/ WaitGnt(in) \/ WaitRvalid(in) \/ WaitAborted(in)
  /\ FetchAddr(in)
  /\ HwlpStep(in)
  /\ FifoStep(Port(in), fifo_clear(in))
  /\ MemStep(in)

Next == \E in \in Inputs : MemoryOK(in) /\ ConsumerOK(in) /\ Clock(in)

Spec == Init /\ [][Next]_vars

-----------------------------------------------------------------------------
(* Type invariant. *)
TypeOK ==
  /\ FifoTypeOK
  /\ CS \in FetchStates
  /\ hwlp_CS \in HwlpStates
  /\ instr_addr_q \in Addr
  /\ pending \in Seq(Word)

\* The memory owes exactly one word while the FSM waits for rvalid, and none
\* otherwise: no answer is ever missed, taken twice or taken for another.
OneOutstanding ==
  Len(pending) = IF CS \in {"WAIT_RVALID", "WAIT_ABORTED"} THEN 1 ELSE 0

\* The assertion left commented out at the end of riscv_fetch_fifo.sv: no word
\* arrives at a full queue unless it replaces slot 1.
NoOverflow ==
  CS = "WAIT_RVALID" /\ valid_Q[DEPTH - 1] => hwlp_CS = "HWLP_FETCHING"

\* Valid slots are contiguous from slot 0, also after a loop target replaced
\* slot 1 and dropped the rest; a loop target announced in slot 1 is there.
NoGap ==
  /\ \A i, j \in Slots : i <= j /\ valid_Q[j] => valid_Q[i]
  /\ is_hwlp_Q[1] => valid_Q[1]

\* Why the queue does not overflow: while a word is requested or on its way,
\* the last slot is free, unless that word is a loop target to replace slot 1.
RoomForRequest ==
  CS \in {"WAIT_GNT", "WAIT_RVALID", "WAIT_ABORTED"} /\ valid_Q[DEPTH - 1]
    => hwlp_CS = "HWLP_FETCHING"
=============================================================================
