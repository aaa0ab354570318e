----------------------- MODULE PrefetchBufferProofs -----------------------
(***************************************************************************)
(* For every queue depth of at least 3, every memory and every behaviour   *)
(* of the loop controller: the prefetch buffer keeps its types, at most    *)
(* one word is outstanding, and the fetch queue has no gap and never       *)
(* overflows.                                                              *)
(***************************************************************************)
EXTENDS PrefetchBuffer, TLAPS

Inv == TypeOK /\ OneOutstanding /\ NoGap /\ RoomForRequest

-----------------------------------------------------------------------------
(* Types of the words and addresses that are built from others. *)

LEMMA AddrTypes ==
  ASSUME NEW w \in Word
  PROVE  NextWord(w) \in Word /\ MemWord(w) \in Rdata
BY NWordsAssumption DEF NextWord, MemWord, Word, Rdata, Half, Addr

LEMMA ZeroTypes == [w |-> 0, h |-> 0] \in Addr /\ ZeroWord \in Rdata
BY NWordsAssumption DEF Word, Addr, ZeroWord, Rdata, Half

LEMMA SlotFacts == {0, 1} \subseteq Slots /\ DEPTH - 1 \in Slots /\ DEPTH - 2 \in Slots
BY DepthAssumption DEF Slots

LEMMA PortType ==
  ASSUME TypeOK, NEW in \in Inputs, in.rvalid => pending # <<>>
  PROVE  Port(in) \in FifoPorts
<1>1. instr_rdata(in) \in Rdata
  <2>1. CASE in.rvalid
    <3>1. Head(pending) \in Word
      BY <2>1 DEF TypeOK
    <3> QED BY <3>1, <2>1, AddrTypes DEF instr_rdata
  <2>2. CASE ~in.rvalid
    BY <2>2, JunkAssumption DEF instr_rdata, Inputs
  <2> QED BY <2>1, <2>2
<1>2. fifo_valid(in) \in BOOLEAN /\ fifo_hwlp \in BOOLEAN /\ in.ready \in BOOLEAN
  BY DEF fifo_valid, fifo_hwlp, Inputs
<1> QED BY <1>1, <1>2 DEF Port, FifoPorts, TypeOK

LEMMA OutputTypes ==
  ASSUME FifoTypeOK, NEW p \in FifoPorts
  PROVE  out_rdata(p) \in Rdata /\ rdata(p) \in Rdata
<1>1. rdata(p) \in Rdata
  BY SlotFacts DEF rdata, FifoTypeOK, FifoPorts
<1>2. rdata_unaligned(p) \in Rdata
  BY <1>1, SlotFacts DEF rdata_unaligned, FifoTypeOK, FifoPorts, Rdata
<1> QED BY <1>1, <1>2 DEF out_rdata

LEMMA ShiftedType ==
  ASSUME NEW S, NEW slots \in [Slots -> S], NEW last \in S
  PROVE  Shifted(slots, last) \in [Slots -> S]
<1>1. ASSUME NEW j \in Slots, j # DEPTH - 1
      PROVE  j + 1 \in Slots
  BY <1>1, DepthAssumption DEF Slots
<1> QED BY <1>1 DEF Shifted

LEMMA ValidIntType ==
  ASSUME FifoTypeOK, NEW p \in FifoPorts
  PROVE  valid_int(p) \in [Slots -> BOOLEAN]
BY DEF valid_int

-----------------------------------------------------------------------------
(* The queue by itself: a cycle without clear keeps its types. *)

LEMMA FifoTypes ==
  ASSUME FifoTypeOK, NEW p \in FifoPorts, NEW clear \in BOOLEAN, FifoStep(p, clear)
  PROVE  FifoTypeOK'
<1>1. CASE clear /\ FifoClear
  BY <1>1 DEF FifoClear, FifoTypeOK
<1>2. CASE ~clear /\ FifoAdvance(p)
  <2>1. addr_int(p) \in [{0, 1} -> Addr]
    BY DEF addr_int, FifoTypeOK, FifoPorts
  <2>2. rdata_int(p) \in [Slots -> Rdata]
    BY OutputTypes DEF rdata_int, FifoTypeOK, FifoPorts
  <2>3. valid_int(p) \in [Slots -> BOOLEAN]
    BY ValidIntType
  <2>4. is_hwlp_int(p) \in [{0, 1} -> BOOLEAN]
    BY DEF is_hwlp_int, FifoTypeOK, FifoPorts
  <2>5. next_head_addr(p) \in Addr
    BY <2>1, AddrTypes DEF next_head_addr, Addr
  <2>6. addr_n(p) \in [{0, 1} -> Addr]
    BY <2>1, <2>5 DEF addr_n
  <2>7. rdata_n(p) \in [Slots -> Rdata]
    BY <2>2, ZeroTypes, ShiftedType DEF rdata_n
  <2>8. valid_n(p) \in [Slots -> BOOLEAN]
    BY <2>3, ShiftedType DEF valid_n
  <2>9. is_hwlp_n(p) \in [{0, 1} -> BOOLEAN]
    BY <2>4 DEF is_hwlp_n
  <2> QED BY <1>2, <2>6, <2>7, <2>8, <2>9 DEF FifoAdvance, FifoTypeOK
<1> QED BY <1>1, <1>2 DEF FifoStep

(* No gap: the arriving word goes right behind the last valid slot, or to  *)
(* slot 1 behind slot 0, and slots only move towards slot 0.               *)

Contiguous(slots) == \A i, j \in Slots : i <= j /\ slots[j] => slots[i]

LEMMA WriteContiguous ==
  ASSUME FifoTypeOK, NoGap, NEW p \in FifoPorts
  PROVE  Contiguous(valid_int(p))
<1> SUFFICES ASSUME NEW i \in Slots, NEW j \in Slots, i <= j, valid_int(p)[j]
             PROVE  valid_int(p)[i]
  BY DEF Contiguous
<1>1. CASE Replaces(p)
  <2>1. valid_Q[0] /\ 1 \in WrittenSlots(p) /\ i \in {0, 1}
    BY <1>1 DEF Replaces, WrittenSlots, valid_int, Slots
  <2> QED BY <2>1 DEF valid_int
<1>2. CASE ~Replaces(p) /\ valid_Q[j]
  BY <1>2 DEF valid_int, NoGap
<1>3. CASE ~Replaces(p) /\ ~valid_Q[j]
  <2>1. p.valid /\ j \in FreeSlot
    BY <1>3 DEF valid_int, WrittenSlots
  <2>2. CASE i = j
    BY <2>2
  <2>3. CASE i # j
    <3>1. i \in 0 .. j - 1
      BY <2>3 DEF Slots
    <3> QED BY <2>1, <3>1, <1>3 DEF FreeSlot, valid_int
  <2> QED BY <2>2, <2>3
<1> QED BY <1>1, <1>2, <1>3

LEMMA ShiftContiguous ==
  ASSUME NEW slots \in [Slots -> BOOLEAN], Contiguous(slots)
  PROVE  Contiguous(Shifted(slots, FALSE))
<1> SUFFICES ASSUME NEW i \in Slots, NEW j \in Slots, i <= j, Shifted(slots, FALSE)[j]
             PROVE  Shifted(slots, FALSE)[i]
  BY DEF Contiguous
<1>1. j # DEPTH - 1 /\ i # DEPTH - 1 /\ i + 1 \in Slots /\ j + 1 \in Slots
  BY DepthAssumption DEF Shifted, Slots
<1>2. slots[j + 1] /\ i + 1 <= j + 1
  BY <1>1 DEF Shifted, Slots
<1>3. slots[i + 1]
  BY <1>1, <1>2 DEF Contiguous
<1> QED BY <1>1, <1>3 DEF Shifted

LEMMA FifoNoGap ==
  ASSUME FifoTypeOK, NoGap, NEW p \in FifoPorts, NEW clear \in BOOLEAN,
         FifoStep(p, clear)
  PROVE  NoGap'
<1>1. CASE clear /\ FifoClear
  BY <1>1, SlotFacts DEF FifoClear, NoGap
<1>2. CASE ~clear /\ FifoAdvance(p)
  <2>1. Contiguous(valid_int(p)) /\ valid_int(p) \in [Slots -> BOOLEAN]
    BY WriteContiguous, ValidIntType
  <2>2. Contiguous(valid_n(p))
    BY <2>1, ShiftContiguous DEF valid_n
  <2>3. is_hwlp_int(p)[1] => valid_int(p)[1]
    <3>1. CASE Replaces(p)
      BY <3>1, SlotFacts DEF valid_int, WrittenSlots
    <3>2. CASE ~Replaces(p)
      <4>1. is_hwlp_int(p)[1] => is_hwlp_Q[1]
        BY <3>2 DEF is_hwlp_int, Replaces
      <4> QED BY <3>2, <4>1, SlotFacts DEF valid_int, NoGap
    <3> QED BY <3>1, <3>2
  <2>4. is_hwlp_n(p)[1] => valid_n(p)[1]
    <3>1. CASE Pops(p)
      <4>1. is_hwlp_n(p)[1] <=> (1 = 0 /\ is_hwlp_int(p)[1])
        BY <3>1 DEF is_hwlp_n
      <4> QED BY <4>1
    <3>2. CASE ~Pops(p)
      BY <3>2, <2>3 DEF is_hwlp_n, valid_n
    <3> QED BY <3>1, <3>2
  <2> QED BY <1>2, <2>2, <2>4 DEF FifoAdvance, NoGap, Contiguous
<1> QED BY <1>1, <1>2 DEF FifoStep

\* The last slot can only become valid when a word arrives that replaces nothing
\* and the slot before it is taken.
LEMMA LastSlot ==
  ASSUME FifoTypeOK, NoGap, NEW p \in FifoPorts, NEW clear \in BOOLEAN,
         FifoStep(p, clear), valid_Q'[DEPTH - 1]
  PROVE  /\ ~clear
         /\ ~Replaces(p)
         /\ valid_Q[DEPTH - 1] \/ (p.valid /\ valid_Q[DEPTH - 2])
<1>1. ~clear /\ FifoAdvance(p)
  BY SlotFacts DEF FifoStep, FifoClear
<1>2. valid_int(p)[DEPTH - 1]
  BY <1>1, SlotFacts DEF FifoAdvance, valid_n, Shifted
<1>3. ~Replaces(p)
  BY <1>2, SlotFacts, DepthAssumption DEF valid_int
<1>4. CASE ~valid_Q[DEPTH - 1]
  <2>1. p.valid /\ DEPTH - 1 \in FreeSlot
    BY <1>2, <1>3, <1>4, SlotFacts DEF valid_int, WrittenSlots
  <2>2. DEPTH - 2 \in 0 .. (DEPTH - 1) - 1
    BY DepthAssumption
  <2> QED BY <1>1, <1>3, <2>1, <2>2 DEF FreeSlot
<1> QED BY <1>1, <1>3, <1>4

-----------------------------------------------------------------------------
(* Types. *)

LEMMA RequestAddrType ==
  ASSUME TypeOK, NEW in \in Inputs
  PROVE  instr_addr_o(in) \in Addr
<1>1. in.addr \in Addr /\ in.hwloop_target \in Addr /\ instr_addr_q \in Addr
  BY TargetsAssumption DEF Inputs, TypeOK
<1>2. fetch_addr \in Addr
  BY <1>1, AddrTypes DEF fetch_addr, Addr
<1> QED BY <1>1, <1>2 DEF instr_addr_o, RedirectAddr, TypeOK, FetchStates

LEMMA PendingType ==
  ASSUME TypeOK, NEW in \in Inputs, MemoryOK(in), MemStep(in)
  PROVE  pending' \in Seq(Word)
<1>1. Unanswered(in) \in Seq(Word)
  BY DEF Unanswered, MemoryOK, TypeOK
<1>2. instr_addr_o(in).w \in Word
  BY RequestAddrType DEF Addr
<1> QED BY <1>1, <1>2 DEF MemStep

LEMMA TypeStep ==
  ASSUME TypeOK, NEW in \in Inputs, MemoryOK(in), Clock(in)
  PROVE  TypeOK'
<1>1. FifoTypeOK'
  <2>1. Port(in) \in FifoPorts
    BY PortType DEF MemoryOK
  <2>2. fifo_clear(in) \in BOOLEAN
    BY DEF fifo_clear, Inputs
  <2> QED BY <2>1, <2>2, FifoTypes DEF Clock, TypeOK
<1>2. CS' \in FetchStates
  BY DEF Clock, Idle, WaitJump, WaitGnt, WaitRvalid, WaitAborted, Requested,
         TypeOK, FetchStates
<1>3. hwlp_CS' \in HwlpStates
  BY DEF Clock, HwlpStep, HwlpNone, HwlpUnalignedCompressed, HwlpIn, HwlpFetching,
         HwlpDone, HwlpFetch, TypeOK, HwlpStates
<1>4. instr_addr_q' \in Addr
  BY RequestAddrType, TargetsAssumption DEF Clock, FetchAddr, TypeOK, Inputs
<1>5. pending' \in Seq(Word)
  BY PendingType DEF Clock
<1> QED BY <1>1, <1>2, <1>3, <1>4, <1>5 DEF TypeOK

-----------------------------------------------------------------------------
(* One word outstanding. *)

LEMMA PendingLength ==
  ASSUME TypeOK, NEW in \in Inputs, MemoryOK(in), MemStep(in)
  PROVE  /\ in.rvalid => Len(pending) >= 1
         /\ Len(pending') = Len(pending) - (IF in.rvalid THEN 1 ELSE 0)
                                         + (IF in.gnt THEN 1 ELSE 0)
<1>1. in.rvalid => Len(pending) >= 1
  BY DEF MemoryOK, TypeOK
<1>2. /\ Unanswered(in) \in Seq(Word)
      /\ Len(Unanswered(in)) = Len(pending) - (IF in.rvalid THEN 1 ELSE 0)
  BY <1>1 DEF Unanswered, MemoryOK, TypeOK
<1>3. instr_addr_o(in).w \in Word
  BY RequestAddrType DEF Addr
<1>4. Len(pending') = Len(Unanswered(in)) + (IF in.gnt THEN 1 ELSE 0)
  <2>1. CASE in.gnt
    BY <1>2, <1>3, <2>1 DEF MemStep
  <2>2. CASE ~in.gnt
    BY <1>2, <2>2 DEF MemStep
  <2> QED BY <2>1, <2>2
<1> QED BY <1>1, <1>2, <1>4

LEMMA OneOutstandingStep ==
  ASSUME TypeOK, OneOutstanding, NEW in \in Inputs, MemoryOK(in), Clock(in)
  PROVE  OneOutstanding'
<1>1. /\ in.rvalid => Len(pending) >= 1
      /\ Len(pending') = Len(pending) - (IF in.rvalid THEN 1 ELSE 0)
                                      + (IF in.gnt THEN 1 ELSE 0)
  BY PendingLength DEF Clock
<1>2. ~(in.gnt /\ in.err) /\ (in.gnt \/ in.err => instr_req_o(in))
  BY DEF MemoryOK
<1>3. CASE Idle(in)
  BY <1>1, <1>2, <1>3 DEF Idle, Requested, OneOutstanding
<1>4. CASE WaitJump(in)
  <2>1. instr_req_o(in) => in.branch
    BY <1>4 DEF WaitJump, instr_req_o
  <2> QED BY <1>1, <1>2, <1>4, <2>1 DEF WaitJump, OneOutstanding
<1>5. CASE WaitGnt(in)
  BY <1>1, <1>2, <1>5 DEF WaitGnt, Requested, OneOutstanding
<1>6. CASE WaitRvalid(in)
  <2>1. instr_req_o(in) <=> in.rvalid /\ MayPrefetch(in)
    BY <1>6 DEF WaitRvalid, instr_req_o
  <2>2. Aborts(in) => ~in.rvalid
    BY DEF Aborts
  <2>3. Len(pending) = 1
    BY <1>6 DEF WaitRvalid, OneOutstanding
  <2>4. CASE instr_req_o(in) /\ Requested(in)
    BY <1>1, <1>2, <2>1, <2>3, <2>4 DEF Requested, OneOutstanding
  <2>5. CASE in.rvalid /\ ~MayPrefetch(in) /\ CS' = "IDLE"
    BY <1>1, <1>2, <2>1, <2>3, <2>5 DEF OneOutstanding
  <2>6. CASE Aborts(in) /\ CS' = "WAIT_ABORTED"
    BY <1>1, <1>2, <2>1, <2>2, <2>3, <2>6 DEF OneOutstanding
  <2>7. CASE ~in.rvalid /\ ~Aborts(in) /\ UNCHANGED CS
    BY <1>1, <1>2, <1>6, <2>1, <2>3, <2>7 DEF WaitRvalid, OneOutstanding
  <2> QED BY <1>6, <2>4, <2>5, <2>6, <2>7 DEF WaitRvalid
<1>7. CASE WaitAborted(in)
  <2>1. instr_req_o(in) <=> in.rvalid
    BY <1>7 DEF WaitAborted, instr_req_o
  <2> QED BY <1>1, <1>2, <1>7, <2>1 DEF WaitAborted, Requested, OneOutstanding
<1> QED BY <1>3, <1>4, <1>5, <1>6, <1>7 DEF Clock

-----------------------------------------------------------------------------
(* Room for the word that is requested.  If the last slot is taken after   *)
(* the cycle, nothing was cleared and nothing replaced in it, and the slot *)
(* before the last was already taken: the queue asked for nothing, so only *)
(* a loop jump can have requested, and its word replaces slot 1.           *)

LEMMA LoopJumpFetches ==
  ASSUME NEW in \in Inputs, HwlpStep(in), ~in.branch, hwlp_masked(in), fetch_is_hwlp(in)
  PROVE  hwlp_CS' = "HWLP_FETCHING"
<1>1. CASE hwlp_CS = "HWLP_NONE" /\ in.hwloop /\ instr_addr_q.h = 0
  <2>1. ~hwloop_speculative(in)
    BY <1>1 DEF hwloop_speculative
  <2>2. HwlpFetch(in)
    BY <1>1, <2>1 DEF HwlpStep, HwlpNone, HwlpUnalignedCompressed, HwlpIn,
                      HwlpFetching, HwlpDone
  <2> QED BY <2>2 DEF HwlpFetch
<1>2. CASE hwlp_CS = "HWLP_IN"
  BY <1>2 DEF HwlpStep, HwlpNone, HwlpUnalignedCompressed, HwlpIn, HwlpFetching,
              HwlpDone, HwlpFetch
<1> QED BY <1>1, <1>2 DEF hwlp_masked

LEMMA RoomForRequestStep ==
  ASSUME Inv, NEW in \in Inputs, MemoryOK(in), Clock(in)
  PROVE  RoomForRequest'
<1> SUFFICES ASSUME CS' \in {"WAIT_GNT", "WAIT_RVALID", "WAIT_ABORTED"},
                    valid_Q'[DEPTH - 1]
             PROVE  hwlp_CS' = "HWLP_FETCHING"
  BY DEF RoomForRequest
<1>1. /\ ~fifo_clear(in)
      /\ ~Replaces(Port(in))
      /\ valid_Q[DEPTH - 1] \/ (fifo_valid(in) /\ valid_Q[DEPTH - 2])
  <2>1. Port(in) \in FifoPorts /\ fifo_clear(in) \in BOOLEAN
    BY PortType DEF Inv, MemoryOK, fifo_clear, Inputs
  <2>2. Port(in).valid = fifo_valid(in)
    BY DEF Port
  <2> QED BY <2>1, <2>2, LastSlot DEF Inv, TypeOK, Clock
<1>2. ~in.branch /\ ~hwlp_branch
  BY <1>1 DEF fifo_clear
<1>3. valid_Q[DEPTH - 2] /\ valid_Q[0]
  BY <1>1, SlotFacts, DepthAssumption DEF Inv, NoGap, Slots
<1>4. ~in_ready /\ ~Redirected(in)
  BY <1>2, <1>3 DEF in_ready, Redirected
<1>5. fifo_valid(in) => hwlp_CS # "HWLP_FETCHING"
  BY <1>1, <1>3 DEF Replaces, Port, fifo_hwlp
<1>6. HwlpStep(in)
  BY DEF Clock
<1>7. in.rvalid => CS \in {"WAIT_RVALID", "WAIT_ABORTED"}
  BY PendingLength DEF Inv, OneOutstanding, Clock
<1>8. ASSUME hwlp_CS = "HWLP_FETCHING", ~in.rvalid \/ CS = "WAIT_ABORTED"
      PROVE  hwlp_CS' = "HWLP_FETCHING"
  BY <1>2, <1>6, <1>8 DEF HwlpStep, HwlpNone, HwlpUnalignedCompressed, HwlpIn,
                          HwlpFetching, HwlpDone
<1>9. CASE Idle(in)
  <2>1. instr_req_o(in) /\ LoopJump(in)
    BY <1>4, <1>9 DEF Idle, instr_req_o
  <2>2. hwlp_masked(in) /\ fetch_is_hwlp(in)
    BY <1>9, <2>1 DEF Idle, LoopJump, fetch_is_hwlp
  <2> QED BY <1>2, <1>6, <2>2, LoopJumpFetches
<1>10. CASE WaitJump(in)
  BY <1>2, <1>10 DEF WaitJump
<1>11. CASE WaitGnt(in)
  <2>1. ~in.rvalid /\ ~fifo_valid(in)
    BY <1>7, <1>11 DEF WaitGnt, fifo_valid
  <2>2. hwlp_CS = "HWLP_FETCHING"
    BY <1>1, <1>11, <2>1 DEF WaitGnt, Inv, RoomForRequest
  <2> QED BY <1>8, <2>1, <2>2
<1>12. CASE WaitRvalid(in)
  <2>1. CASE in.rvalid
    <3>1. instr_req_o(in)
      BY <1>12, <2>1 DEF WaitRvalid, Aborts
    <3>2. hwlp_masked(in)
      BY <1>4, <1>12, <3>1 DEF WaitRvalid, instr_req_o, MayPrefetch
    <3>3. fetch_is_hwlp(in)
      BY <1>12, <3>1, <3>2 DEF WaitRvalid, fetch_is_hwlp
    <3> QED BY <1>2, <1>6, <3>2, <3>3, LoopJumpFetches
  <2>2. CASE ~in.rvalid
    <3>1. hwlp_CS = "HWLP_FETCHING"
      BY <1>1, <1>12, <2>2 DEF WaitRvalid, fifo_valid, Inv, RoomForRequest
    <3> QED BY <1>8, <2>2, <3>1
  <2> QED BY <2>1, <2>2
<1>13. CASE WaitAborted(in)
  <2>1. hwlp_CS = "HWLP_FETCHING"
    BY <1>1, <1>13 DEF WaitAborted, fifo_valid, Inv, RoomForRequest
  <2> QED BY <1>8, <1>13, <2>1 DEF WaitAborted
<1> QED BY <1>9, <1>10, <1>11, <1>12, <1>13 DEF Clock

-----------------------------------------------------------------------------
(* The inductive invariant. *)

LEMMA InvInit == Init => Inv
<1> SUFFICES ASSUME Init PROVE Inv
  OBVIOUS
<1>1. TypeOK
  BY ZeroTypes, SlotFacts DEF Init, FifoInit, TypeOK, FifoTypeOK, FetchStates, HwlpStates
<1>2. OneOutstanding
  BY DEF Init, OneOutstanding
<1>3. NoGap
  BY SlotFacts DEF Init, FifoInit, NoGap
<1>4. RoomForRequest
  BY DEF Init, RoomForRequest
<1> QED BY <1>1, <1>2, <1>3, <1>4 DEF Inv

LEMMA InvNext == Inv /\ [Next]_vars => Inv'
<1> SUFFICES ASSUME Inv, [Next]_vars PROVE Inv'
  OBVIOUS
<1>1. CASE Next
  <2>1. PICK in \in Inputs : MemoryOK(in) /\ Clock(in)
    BY <1>1 DEF Next
  <2>2. TypeOK'
    BY <2>1, TypeStep DEF Inv
  <2>3. OneOutstanding'
    BY <2>1, OneOutstandingStep DEF Inv
  <2>4. NoGap'
    <3>1. Port(in) \in FifoPorts /\ fifo_clear(in) \in BOOLEAN
      BY <2>1, PortType DEF Inv, MemoryOK, fifo_clear, Inputs
    <3> QED BY <2>1, <3>1, FifoNoGap DEF Inv, TypeOK, Clock
  <2>5. RoomForRequest'
    BY <2>1, RoomForRequestStep
  <2> QED BY <2>2, <2>3, <2>4, <2>5 DEF Inv
<1>2. CASE UNCHANGED vars
  BY <1>2 DEF Inv, TypeOK, FifoTypeOK, OneOutstanding, NoGap, RoomForRequest, vars,
              fifoVars, fetchVars
<1> QED BY <1>1, <1>2

LEMMA SpecInv == Spec => []Inv
BY InvInit, InvNext, PTL DEF Spec

\* The registers of the queue and of both FSMs keep their types.
THEOREM TypeCorrect == Spec => []TypeOK
<1>1. Inv => TypeOK
  BY DEF Inv
<1> QED BY <1>1, SpecInv, PTL

\* However grants and answers are timed, the memory owes one word exactly while
\* the FSM waits for one.
THEOREM OneWordOutstanding == Spec => []OneOutstanding
<1>1. Inv => OneOutstanding
  BY DEF Inv
<1> QED BY <1>1, SpecInv, PTL

\* No sequence of loop jumps, branches and stalls leaves a hole in the queue.
THEOREM QueueHasNoGap == Spec => []NoGap
<1>1. Inv => NoGap
  BY DEF Inv
<1> QED BY <1>1, SpecInv, PTL

\* The assertion of riscv_fetch_fifo.sv:270 holds for every depth of at least 3:
\* no word that arrives finds the queue full.
THEOREM QueueNeverOverflows == Spec => []NoOverflow
<1>1. Inv => NoOverflow
  BY DEF Inv, RoomForRequest, NoOverflow
<1> QED BY <1>1, SpecInv, PTL
=============================================================================
