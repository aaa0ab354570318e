-------------------------- MODULE FetchStageProofs --------------------------
(***************************************************************************)
(* For every queue depth, program memory, memory timing and behaviour of   *)
(* the controller: the IF stage drives its prefetch buffer as module       *)
(* PrefetchBuffer assumes, so that what is proved of the buffer holds in   *)
(* the stage; and, as long as no hardware loop jumps back, the stage       *)
(* implements the instruction stream.                                      *)
(***************************************************************************)
EXTENDS FetchStageStream, PrefetchBufferProofs, WellFoundedInduction

-----------------------------------------------------------------------------
(* The stage around the buffer: its types, and what it drives.             *)

LoopTypes ==
  /\ hwlp_start_q \in [Loops -> Addr] /\ hwlp_end_q \in [Loops -> Addr]
  /\ hwlp_counter_q \in [Loops -> Count]

IdTypes ==
  /\ offset_fsm_cs \in {"IDLE", "WAIT"}
  /\ instr_valid_id \in BOOLEAN /\ is_hwlp_id_q \in BOOLEAN /\ is_fetch_failed \in BOOLEAN
  /\ pc_id \in Addr

StageInv == Inv /\ LoopTypes /\ IdTypes

LEMMA InnerLoopExists == hwlp_jump => InnerLoop \in Loops
<1> SUFFICES ASSUME hwlp_jump PROVE InnerLoop \in Loops
  OBVIOUS
<1>1. Ending \subseteq Nat /\ Ending # {} /\ Ending \subseteq Loops
  BY LoopsAssumption DEF hwlp_jump, Ending, Loops
<1> DEFINE Less == {ss \in Nat \X Nat : ss[1] < ss[2]}
<1>2. PICK i \in Ending : \A j \in Ending : ~ (<<j, i>> \in Less)
  <2>1. IsWellFoundedOn(Less, Nat)
    BY NatLessThanWellFounded DEF OpToRel
  <2> HIDE DEF Less
  <2> QED BY <1>1, <2>1, WFMin
<1>3. ASSUME NEW j \in Ending PROVE i <= j
  <2>1. i \in Nat /\ j \in Nat
    BY <1>1
  <2>2. j < i => <<j, i>> \in Less
    BY <2>1
  <2> QED BY <1>2, <2>1, <2>2
<1>4. InnerLoop \in Ending
  BY <1>2, <1>3 DEF InnerLoop
<1> QED BY <1>1, <1>4

LEMMA LoopTarget == ASSUME LoopTypes PROVE hwlp_target \in Addr
BY InnerLoopExists, ZeroTypes DEF hwlp_target, LoopTypes

LEMMA PcIfType == ASSUME TypeOK PROVE pc_if \in Addr
BY DEF pc_if, TypeOK, FifoTypeOK

LEMMA BufferInputType ==
  ASSUME LoopTypes, NEW in \in StageInputs
  PROVE  BufferInput(in) \in Inputs
<1>1. /\ in.req \in BOOLEAN /\ in.pc_set \in BOOLEAN /\ in.target \in Targets
      /\ in.gnt \in BOOLEAN /\ in.rvalid \in BOOLEAN /\ in.err \in BOOLEAN
      /\ in.rdata \in Junk
  BY DEF StageInputs
<1>2. branch_req(in) \in BOOLEAN /\ hwlp_jump \in BOOLEAN
  BY <1>1 DEF branch_req, hwlp_jump
<1>3. fetch_ready(in) \in BOOLEAN
  BY <1>1 DEF fetch_ready, if_valid
<1> QED BY <1>1, <1>2, <1>3, LoopTarget DEF BufferInput, FetchInput, Inputs

\* Whether a word is offered does not depend on whether it is taken.
LEMMA OfferedWord ==
  ASSUME NEW in, NEW r1, NEW r2
  PROVE  valid_o(FetchInput(in, r1)) = valid_o(FetchInput(in, r2))
BY DEF valid_o, FetchInput, Port, out_valid, valid, valid_unaligned, ServesUnaligned, out_addr,
       unaligned_is_compressed, rdata, fifo_valid, instr_rdata

LEMMA DrivesBuffer ==
  ASSUME NEW in \in StageInputs
  PROVE  ConsumerOK(BufferInput(in))
<1>1. BufferInput(in).branch = branch_req(in) /\ BufferInput(in).req = in.req
      /\ BufferInput(in).ready = fetch_ready(in)
  BY DEF BufferInput, FetchInput
<1>2. branch_req(in) => in.req
  BY DEF branch_req, StageInputs
<1>3. fetch_ready(in) => ~branch_req(in) /\ ~hwlp_branch /\ in.req /\ fetch_valid(in)
  BY DEF fetch_ready, if_valid, branch_req
<1>4. fetch_valid(in) => valid_o(BufferInput(in))
  BY OfferedWord DEF fetch_valid, BufferInput
<1> QED BY <1>1, <1>2, <1>3, <1>4 DEF ConsumerOK, Redirected

\* Every cycle of the stage is one of the buffer.
LEMMA BufferCycle ==
  ASSUME LoopTypes, NEW in \in StageInputs, MemoryOK(BufferInput(in)), StageClock(in)
  PROVE  Next
BY BufferInputType, DrivesBuffer DEF StageClock, Next

LEMMA LoopTypesStep ==
  ASSUME TypeOK, LoopTypes, NEW in \in StageInputs, StageClock(in)
  PROVE  LoopTypes'
<1>1. LoopRegs(in)
  BY DEF StageClock
<1>2. ASSUME NEW i \in Loops, Writes(in, i)
      PROVE  LoopSetup[pc_id].end \in Addr /\ LoopSetup[pc_id].count \in Count
  <2>1. LoopSetup[pc_id] \in Setups
    BY <1>2, LoopsAssumption DEF Writes
  <2> QED BY <2>1 DEF Setups
<1>3. ASSUME NEW i \in Loops
      PROVE  (hwlp_counter_q[i] - 1) % (MaxCount + 1) \in Count
  BY LoopsAssumption DEF Count, LoopTypes
<1>4. hwlp_start_q' \in [Loops -> Addr]
  BY <1>1, PcIfType DEF LoopRegs, LoopTypes
<1>5. hwlp_end_q' \in [Loops -> Addr]
  BY <1>1, <1>2 DEF LoopRegs, LoopTypes
<1>6. hwlp_counter_q' \in [Loops -> Count]
  BY <1>1, <1>2, <1>3 DEF LoopRegs, LoopTypes
<1> QED BY <1>4, <1>5, <1>6 DEF LoopTypes

LEMMA IdTypesStep ==
  ASSUME TypeOK, IdTypes, LoopTypes, NEW in \in StageInputs, StageClock(in)
  PROVE  IdTypes'
<1> DEFINE b == BufferInput(in)
<1>1. offset_fsm_cs' \in {"IDLE", "WAIT"}
  BY DEF StageClock, OffsetFsm, IdTypes
<1>2. CASE LoadId(in)
  <2>1. is_hwlp_o(b) \in BOOLEAN
    BY SlotFacts DEF is_hwlp_o, out_is_hwlp, Port, fifo_hwlp, TypeOK, FifoTypeOK
  <2> QED BY <1>1, <1>2, <2>1, PcIfType DEF LoadId, IdTypes
<1>3. CASE ClearId(in)
  <2>1. fetch_failed_o(b) \in BOOLEAN
    BY DEF fetch_failed_o
  <2> QED BY <1>1, <1>3, <2>1 DEF ClearId, IdTypes
<1>4. CASE HoldId(in)
  BY <1>1, <1>4 DEF HoldId, idVars, IdTypes
<1> QED BY <1>2, <1>3, <1>4 DEF StageClock

LEMMA StageInvInit == StageInit => StageInv
<1> SUFFICES ASSUME StageInit PROVE StageInv
  OBVIOUS
<1>1. Inv
  BY InvInit DEF StageInit
<1>2. LoopTypes
  BY ZeroTypes, LoopsAssumption DEF StageInit, LoopTypes, Count
<1>3. IdTypes
  BY ZeroTypes DEF StageInit, IdTypes
<1> QED BY <1>1, <1>2, <1>3 DEF StageInv

LEMMA StageInvNext == StageInv /\ [StageNext]_stageVars => StageInv' /\ [Next]_vars
<1> SUFFICES ASSUME StageInv, [StageNext]_stageVars
             PROVE  StageInv' /\ [Next]_vars
  OBVIOUS
<1>1. CASE StageNext
  <2>1. PICK in \in StageInputs :
          ControllerOK(in) /\ MemoryOK(BufferInput(in)) /\ StageClock(in)
    BY <1>1 DEF StageNext
  <2>2. Next
    BY <2>1, BufferCycle DEF StageInv
  <2>3. Inv'
    BY <2>2, InvNext DEF StageInv
  <2>4. LoopTypes' /\ IdTypes'
    BY <2>1, LoopTypesStep, IdTypesStep DEF StageInv, Inv
  <2> QED BY <2>2, <2>3, <2>4 DEF StageInv
<1>2. CASE UNCHANGED stageVars
  <2>1. UNCHANGED vars
    BY <1>2 DEF stageVars
  <2>2. Inv'
    BY <2>1, InvNext DEF StageInv
  <2>3. LoopTypes' /\ IdTypes'
    BY <1>2 DEF stageVars, idVars, hwlpVars, StageInv, LoopTypes, IdTypes
  <2> QED BY <2>1, <2>2, <2>3 DEF StageInv
<1> QED BY <1>1, <1>2

LEMMA StageStep == [StreamStageNext]_streamStageVars => [StageNext]_stageVars
BY DEF StreamStageNext, StageNext, streamStageVars

LEMMA StreamIsStage == StreamStageSpec => StageSpec
<1>1. StreamStageInit => StageInit
  BY DEF StreamStageInit
<1> QED BY <1>1, StageStep, PTL DEF StreamStageSpec, StageSpec

LEMMA StageSpecInv == StageSpec => []StageInv
<1>1. StageInv /\ [StageNext]_stageVars => StageInv'
  BY StageInvNext
<1> QED BY <1>1, StageInvInit, PTL DEF StageSpec

\* The prefetch buffer inside the stage meets what module PrefetchBuffer assumes
\* of its surroundings: the offset FSM, the loop controller and the IF/ID
\* registers take only what is offered and never in the cycle of a jump.
THEOREM StageImplementsBuffer == StageSpec => Spec
<1>1. StageInit => Init
  BY DEF StageInit
<1>2. StageInv /\ [StageNext]_stageVars => [Next]_vars
  BY StageInvNext
<1> QED BY <1>1, <1>2, StageSpecInv, PTL DEF StageSpec, Spec

\* So the invariants of the buffer hold in the stage, whatever loops run.
THEOREM StageKeepsBuffer ==
  StreamStageSpec => [](TypeOK /\ OneOutstanding /\ NoGap /\ NoOverflow)
<1>1. Inv => TypeOK /\ OneOutstanding /\ NoGap /\ NoOverflow
  BY DEF Inv, RoomForRequest, NoOverflow
<1> QED BY <1>1, StreamIsStage, StageImplementsBuffer, SpecInv, PTL

-----------------------------------------------------------------------------
(* From here on no loop jumps back.  The queue holds the words from the    *)
(* address at on, each behind the other, and the next word to arrive, that *)
(* of the frontier, belongs behind the last of them.                       *)

NoLoopJumps == \A a \in DOMAIN LoopSetup : LoopSetup[a].count <= 1

Queued(valids, datas, head, at) ==
  /\ valids[0] => head = at /\ datas[0] = MemWord(at.w)
  /\ \A j \in Slots \ {0} : valids[j] => datas[j] = MemWord(NextWord(datas[j - 1].lo.w))
Ends(valids, j) == valids[j] /\ (j # DEPTH - 1 => ~valids[j + 1])
Behind(valids, datas, frontier) ==
  \A j \in Slots : Ends(valids, j) => frontier = [w |-> NextWord(datas[j].lo.w), h |-> 0]

Frontier == IF CS = "IDLE" THEN fetch_addr ELSE instr_addr_q

NoLoopUnderWay ==
  /\ hwlp_CS = "HWLP_NONE" /\ is_hwlp_Q = [i \in {0, 1} |-> FALSE]
  /\ is_hwlp_id_q = FALSE /\ via = Stream!NoLoop
  /\ \A i \in Loops : hwlp_counter_q[i] <= 1

\* The queue and the requests follow the program.
Follows ==
  /\ next \in Addr
  /\ offset_fsm_cs = "IDLE" =>
       CS = "IDLE" /\ ~instr_valid_id /\ \A j \in Slots : ~valid_Q[j]
  /\ offset_fsm_cs = "WAIT" =>
       /\ Queued(valid_Q, rdata_Q, addr_Q[0], next)
       /\ Behind(valid_Q, rdata_Q, Frontier)
       /\ ~valid_Q[0] => instr_addr_q = next /\ CS # "IDLE"
  /\ instr_valid_id /\ pc_id \in DOMAIN LoopSetup => next = Stream!After(pc_id)
  /\ CS = "WAIT_RVALID" => Head(pending) = instr_addr_q.w
  /\ CS = "WAIT_JUMP" => instr_addr_q.w \in Protected

StreamInv == StageInv /\ NoLoopUnderWay /\ Follows

-----------------------------------------------------------------------------
(* The queue by itself, in a cycle without a clear or a loop target.       *)

\* A word arrives behind the others.
LEMMA ArrivesBehind ==
  ASSUME FifoTypeOK, NoGap, NEW p \in FifoPorts, ~p.replace2, NEW at \in Addr,
         NEW frontier \in Addr,
         Queued(valid_Q, rdata_Q, addr_Q[0], at), Behind(valid_Q, rdata_Q, frontier),
         ~valid_Q[0] => frontier = at,
         p.valid => p.addr = frontier /\ p.rdata = MemWord(p.addr.w) /\ ~valid_Q[DEPTH - 1]
  PROVE  /\ Queued(valid_int(p), rdata_int(p), addr_int(p)[0], at)
         /\ Behind(valid_int(p), rdata_int(p),
                   IF p.valid THEN [w |-> NextWord(frontier.w), h |-> 0] ELSE frontier)
         /\ valid_int(p)[0] <=> (valid_Q[0] \/ p.valid)
<1>1. ~Replaces(p) /\ WrittenSlots(p) = IF p.valid THEN FreeSlot ELSE {}
  BY DEF Replaces, WrittenSlots
<1>2. CASE ~p.valid
  <2>1. valid_int(p) = valid_Q /\ rdata_int(p) = rdata_Q /\ addr_int(p)[0] = addr_Q[0]
    BY <1>1, <1>2 DEF valid_int, rdata_int, addr_int, FifoTypeOK
  <2> QED BY <1>2, <2>1
<1>3. CASE p.valid
  <2>1. /\ \A j \in Slots : valid_int(p)[j] <=> valid_Q[j] \/ j \in FreeSlot
        /\ \A j \in Slots : rdata_int(p)[j] = IF j \in FreeSlot THEN MemWord(frontier.w) ELSE rdata_Q[j]
        /\ addr_int(p)[0] = IF 0 \in FreeSlot THEN frontier ELSE addr_Q[0]
    BY <1>1, <1>3 DEF valid_int, rdata_int, addr_int
  <2>2. ASSUME NEW j \in Slots, valid_Q[j]
        PROVE  /\ j \notin FreeSlot
               /\ j > 0 => valid_Q[j - 1] /\ j - 1 \in Slots
               /\ j # DEPTH - 1 /\ j + 1 \in Slots
               /\ ~valid_Q[j + 1] => j + 1 \in FreeSlot
    <3>1. j # DEPTH - 1
      BY <1>3, <2>2
    <3>2. j + 1 \in Slots /\ (j > 0 => j - 1 \in Slots)
      BY <3>1, DepthAssumption DEF Slots
    <3>3. \A k \in 0 .. j : k \in Slots /\ valid_Q[k]
      BY <2>2, DepthAssumption DEF NoGap, Slots
    <3>4. ~valid_Q[j + 1] => j + 1 \in FreeSlot
      BY <3>2, <3>3 DEF FreeSlot, Slots
    <3> QED BY <2>2, <3>1, <3>2, <3>3, <3>4 DEF FreeSlot, Slots
  <2>3. ASSUME NEW j \in FreeSlot
        PROVE  /\ j \in Slots /\ ~valid_Q[j]
               /\ j > 0 => j - 1 \in Slots /\ valid_Q[j - 1] /\ Ends(valid_Q, j - 1)
    BY <2>3, DepthAssumption DEF FreeSlot, Ends, Slots
  <2>4. 0 \in FreeSlot <=> ~valid_Q[0]
    BY SlotFacts DEF FreeSlot
  <2>5. valid_int(p)[0] <=> (valid_Q[0] \/ p.valid)
    BY <1>3, <2>1, <2>4, SlotFacts
  <2>6. Queued(valid_int(p), rdata_int(p), addr_int(p)[0], at)
    <3>1. addr_int(p)[0] = at /\ rdata_int(p)[0] = MemWord(at.w)
      BY <2>1, <2>4, SlotFacts DEF Queued
    <3>2. ASSUME NEW j \in Slots \ {0}, valid_int(p)[j]
          PROVE  rdata_int(p)[j] = MemWord(NextWord(rdata_int(p)[j - 1].lo.w))
      <4>1. j > 0
        BY DEF Slots
      <4>2. CASE j \in FreeSlot
        <5>1. rdata_int(p)[j - 1] = rdata_Q[j - 1]
          BY <2>1, <2>2, <2>3, <4>1, <4>2
        <5>2. frontier.w = NextWord(rdata_Q[j - 1].lo.w)
          BY <2>3, <4>1, <4>2 DEF Behind
        <5> QED BY <2>1, <4>2, <5>1, <5>2
      <4>3. CASE j \notin FreeSlot
        <5>1. valid_Q[j] /\ rdata_int(p)[j] = rdata_Q[j]
          BY <2>1, <3>2, <4>3
        <5>2. rdata_int(p)[j - 1] = rdata_Q[j - 1]
          BY <2>1, <2>2, <4>1, <5>1
        <5> QED BY <5>1, <5>2 DEF Queued
      <4> QED BY <4>2, <4>3
    <3> QED BY <3>1, <3>2 DEF Queued
  <2>7. ASSUME NEW j \in Slots, Ends(valid_int(p), j)
        PROVE  rdata_int(p)[j] = MemWord(frontier.w)
    <3>1. j \notin FreeSlot => valid_Q[j]
      BY <2>1, <2>7 DEF Ends
    <3>2. j \in FreeSlot
      BY <2>1, <2>2, <2>7, <3>1 DEF Ends
    <3> QED BY <2>1, <3>2
  <2>8. MemWord(frontier.w).lo.w = frontier.w
    BY DEF MemWord
  <2>9. Behind(valid_int(p), rdata_int(p), [w |-> NextWord(frontier.w), h |-> 0])
    BY <2>7, <2>8 DEF Behind
  <2> QED BY <1>3, <2>5, <2>6, <2>9
<1> QED BY <1>2, <1>3

\* A queue that follows the program, and what arrives at its port.
Feeds(p, at, frontier) ==
  /\ FifoTypeOK /\ NoGap /\ is_hwlp_Q = [i \in {0, 1} |-> FALSE]
  /\ p \in FifoPorts /\ ~p.replace2 /\ ~p.is_hwlp
  /\ at \in Addr /\ frontier \in Addr
  /\ Queued(valid_Q, rdata_Q, addr_Q[0], at) /\ Behind(valid_Q, rdata_Q, frontier)
  /\ ~valid_Q[0] => frontier = at
  /\ p.valid => p.addr = frontier /\ p.rdata = MemWord(p.addr.w) /\ ~valid_Q[DEPTH - 1]

LEMMA StreamAddr ==
  ASSUME NEW at \in Addr
  PROVE  /\ Stream!NextHalf(at) = IF at.h = 0 THEN [w |-> at.w, h |-> 1]
                                  ELSE [w |-> NextWord(at.w), h |-> 0]
         /\ Stream!NextHalf(at) \in Addr /\ Stream!After(at) \in Addr
         /\ at = [w |-> at.w, h |-> at.h]
<1>1. ASSUME NEW a \in Addr
      PROVE  /\ Stream!NextHalf(a) = IF a.h = 0 THEN [w |-> a.w, h |-> 1]
                                     ELSE [w |-> NextWord(a.w), h |-> 0]
             /\ a = [w |-> a.w, h |-> a.h] /\ a.w \in Word /\ a.h \in {0, 1}
             /\ NextWord(a.w) \in Word
  BY AddrTypes DEF Addr, Stream!NextHalf, NextWord
<1>2. ASSUME NEW a \in Addr PROVE Stream!NextHalf(a) \in Addr
  BY <1>1 DEF Addr
<1> QED BY <1>1, <1>2 DEF Stream!After

\* What is offered is the whole instruction at the address the program has
\* reached, and the queue's head address moves on to the one after it.
LEMMA OffersInstruction ==
  ASSUME NEW p, NEW at, NEW frontier, Feeds(p, at, frontier), out_valid(p)
  PROVE  /\ Decompressed(out_rdata(p)) = Stream!InstrAt(at)
         /\ out_addr(p) = at /\ addr_int(p)[0] = at
         /\ next_head_addr(p) = Stream!After(at)
         /\ ServesLowerHalf(p) <=> at.h = 0 /\ at \in Compressed
         /\ at.h = 1 /\ at \notin Compressed => valid_Q[1] \/ (valid_Q[0] /\ p.valid)
<1> USE DEF Feeds
<1>1. /\ ~is_hwlp_Q[1] /\ ~is_hwlp_int(p)[1] /\ ~Replaces(p)
      /\ WrittenSlots(p) = IF p.valid THEN FreeSlot ELSE {}
  BY DEF Replaces, WrittenSlots, is_hwlp_int
<1>2. valid_Q[0] \/ p.valid
  <2>1. valid_unaligned(p) \/ valid(p)
    BY DEF out_valid
  <2>2. valid_Q[1] => valid_Q[0]
    BY SlotFacts DEF NoGap, FifoTypeOK
  <2> QED BY <1>1, <2>1, <2>2 DEF valid, valid_unaligned
<1>3. rdata(p) = MemWord(at.w)
  BY <1>2 DEF rdata, Queued
<1>4. out_addr(p) = at
  BY <1>2 DEF out_addr, Queued
<1>5. addr_int(p)[0] = at
  BY <1>1, <1>2, SlotFacts DEF addr_int, FreeSlot, Queued
<1>6. rdata(p).lo = [w |-> at.w, h |-> 0] /\ rdata(p).hi = [w |-> at.w, h |-> 1]
  BY <1>3 DEF MemWord
<1>7. /\ at = [w |-> at.w, h |-> at.h] /\ at.h \in {0, 1} /\ at.w \in Word
      /\ Stream!NextHalf(at) = IF at.h = 0 THEN [w |-> at.w, h |-> 1]
                               ELSE [w |-> NextWord(at.w), h |-> 0]
      /\ Stream!NextHalf(at) \in Addr
  BY StreamAddr DEF Addr
<1>8. /\ at.h = 0 => (aligned_is_compressed(p) <=> at \in Compressed)
      /\ at.h = 1 => (unaligned_is_compressed(p) <=> at \in Compressed)
  BY <1>6, <1>7, ZeroAssumption DEF aligned_is_compressed, unaligned_is_compressed, IsCompressed
<1>9. ServesUnaligned(p) <=> at.h = 1
  BY <1>1, <1>4 DEF ServesUnaligned
<1>10. ServesLowerHalf(p) <=> at.h = 0 /\ at \in Compressed
  BY <1>1, <1>5, <1>8 DEF ServesLowerHalf
<1>11. at.h = 1 /\ at \notin Compressed =>
         /\ valid_Q[1] \/ (valid_Q[0] /\ p.valid)
         /\ rdata_unaligned(p).hi = [w |-> NextWord(at.w), h |-> 0]
  <2> SUFFICES ASSUME at.h = 1, at \notin Compressed
               PROVE  /\ valid_Q[1] \/ (valid_Q[0] /\ p.valid)
                      /\ rdata_unaligned(p).hi = [w |-> NextWord(at.w), h |-> 0]
    OBVIOUS
  <2>1. valid_Q[1] \/ (valid_Q[0] /\ p.valid)
    BY <1>8, <1>9 DEF out_valid, valid_unaligned
  <2>2. valid_Q[0] /\ rdata_Q[0].lo.w = at.w
    BY <2>1, SlotFacts DEF NoGap, Queued, MemWord
  <2>3. CASE valid_Q[1]
    <3>1. rdata_Q[1] = MemWord(NextWord(at.w))
      BY <2>2, <2>3, SlotFacts DEF Queued
    <3> QED BY <2>1, <2>3, <3>1 DEF rdata_unaligned, MemWord
  <2>4. CASE ~valid_Q[1]
    <3>1. Ends(valid_Q, 0)
      BY <2>2, <2>4 DEF Ends
    <3>2. p.rdata = MemWord(NextWord(at.w))
      BY <2>1, <2>2, <2>4, <3>1, SlotFacts DEF Behind
    <3> QED BY <2>1, <2>4, <3>2 DEF rdata_unaligned, MemWord
  <2> QED BY <2>3, <2>4
<1>12. Decompressed(out_rdata(p)) = Stream!InstrAt(at)
  <2>1. CASE at.h = 0
    <3>1. out_rdata(p) = rdata(p) /\ (IsCompressed(rdata(p).lo) <=> at \in Compressed)
      BY <1>8, <1>9, <2>1 DEF out_rdata, aligned_is_compressed
    <3> QED BY <1>6, <1>7, <2>1, <3>1 DEF Decompressed, Stream!InstrAt
  <2>2. CASE at.h = 1
    <3>1. out_rdata(p) = rdata_unaligned(p) /\ rdata_unaligned(p).lo = rdata(p).hi
          /\ (IsCompressed(rdata(p).hi) <=> at \in Compressed)
      BY <1>8, <1>9, <2>2 DEF out_rdata, unaligned_is_compressed, rdata_unaligned
    <3> QED BY <1>6, <1>7, <1>11, <2>2, <3>1 DEF Decompressed, Stream!InstrAt
  <2> QED BY <1>7, <2>1, <2>2
<1>13. next_head_addr(p) = Stream!After(at)
  <2>1. Stream!NextHalf([w |-> at.w, h |-> 1]) = [w |-> NextWord(at.w), h |-> 0]
        /\ Stream!NextHalf([w |-> NextWord(at.w), h |-> 0]) = [w |-> NextWord(at.w), h |-> 1]
    BY DEF Stream!NextHalf, NextWord
  <2>2. [at EXCEPT !.h = 1] = [w |-> at.w, h |-> 1]
    BY <1>7
  <2>3. Stream!After(at) =
          IF at.h = 0 /\ at \in Compressed THEN [w |-> at.w, h |-> 1]
          ELSE [w |-> NextWord(at.w), h |-> IF at.h = 1 /\ at \notin Compressed THEN 1 ELSE 0]
    BY <1>7, <2>1 DEF Stream!After
  <2> QED BY <1>1, <1>5, <1>8, <1>10, <2>2, <2>3 DEF next_head_addr
<1> QED BY <1>4, <1>5, <1>10, <1>11, <1>12, <1>13

\* The words behind a served one move up.
LEMMA MovesUp ==
  ASSUME NEW valids \in [Slots -> BOOLEAN], NEW datas, NEW head, NEW at, NEW after, NEW frontier,
         after.w = NextWord(at.w), valids[0],
         Queued(valids, datas, head, at), Behind(valids, datas, frontier)
  PROVE  /\ Queued(Shifted(valids, FALSE), Shifted(datas, ZeroWord), after, after)
         /\ Behind(Shifted(valids, FALSE), Shifted(datas, ZeroWord), frontier)
         /\ Shifted(valids, FALSE)[0] = valids[1]
<1> DEFINE v == Shifted(valids, FALSE)
           d == Shifted(datas, ZeroWord)
<1>1. ASSUME NEW j \in Slots
      PROVE  /\ v[j] => j # DEPTH - 1
             /\ j # DEPTH - 1 => /\ v[j] = valids[j + 1] /\ d[j] = datas[j + 1]
                                 /\ j + 1 \in Slots \ {0}
  <2>1. v[j] = IF j = DEPTH - 1 THEN FALSE ELSE valids[j + 1]
    BY DEF Shifted
  <2>2. d[j] = IF j = DEPTH - 1 THEN ZeroWord ELSE datas[j + 1]
    BY DEF Shifted
  <2>3. j # DEPTH - 1 => j + 1 \in Slots \ {0}
    BY DepthAssumption DEF Slots
  <2> QED BY <2>1, <2>2, <2>3
<1>2. datas[0].lo.w = at.w
  BY DEF Queued, MemWord
<1>3. v[0] = valids[1] /\ d[0] = datas[1] /\ 1 \in Slots /\ DEPTH - 1 # 0 /\ 0 \in Slots
  <2>1. DEPTH - 1 # 0 /\ 0 \in Slots /\ 1 \in Slots
    BY DepthAssumption, SlotFacts
  <2>2. v[0] = valids[0 + 1]
    BY <2>1 DEF Shifted
  <2>3. d[0] = datas[0 + 1]
    BY <2>1 DEF Shifted
  <2>4. 0 + 1 = 1
    OBVIOUS
  <2> HIDE DEF v, d
  <2> QED BY <2>1, <2>2, <2>3, <2>4, Zenon
<1>4. v[0] => d[0] = MemWord(after.w)
  <2>1. valids[1] => datas[1] = MemWord(NextWord(datas[1 - 1].lo.w))
    BY <1>3 DEF Queued
  <2>2. 1 - 1 = 0
    OBVIOUS
  <2> HIDE DEF v, d
  <2> QED BY <1>2, <1>3, <2>1, <2>2
<1>5. ASSUME NEW j \in Slots \ {0}, v[j]
      PROVE  d[j] = MemWord(NextWord(d[j - 1].lo.w))
  <2>1. j # DEPTH - 1 /\ valids[j + 1] /\ d[j] = datas[j + 1] /\ j + 1 \in Slots \ {0}
    BY <1>1, <1>5
  <2>2. j - 1 \in Slots /\ j - 1 # DEPTH - 1 /\ (j - 1) + 1 = j /\ (j + 1) - 1 = j
    BY <2>1, DepthAssumption DEF Slots
  <2>3. d[j - 1] = datas[j]
    BY <1>1, <2>2
  <2>4. datas[j + 1] = MemWord(NextWord(datas[(j + 1) - 1].lo.w))
    BY <2>1 DEF Queued
  <2> QED BY <2>1, <2>2, <2>3, <2>4
<1>6. ASSUME NEW j \in Slots, Ends(v, j)
      PROVE  frontier = [w |-> NextWord(d[j].lo.w), h |-> 0]
  <2>1. j # DEPTH - 1 /\ valids[j + 1] /\ d[j] = datas[j + 1] /\ j + 1 \in Slots
    BY <1>1, <1>6 DEF Ends
  <2>2. j + 1 # DEPTH - 1 => ~valids[(j + 1) + 1]
    BY <1>1, <1>6, <2>1 DEF Ends
  <2>3. Ends(valids, j + 1)
    BY <2>1, <2>2 DEF Ends
  <2> QED BY <2>1, <2>3 DEF Behind
<1> HIDE DEF v, d
<1>7. Queued(v, d, after, after)
  BY <1>4, <1>5 DEF Queued
<1>8. Behind(v, d, frontier)
  BY <1>6 DEF Behind
<1> QED BY <1>3, <1>7, <1>8 DEF v, d

\* One clock of the queue.
LEMMA QueueAdvances ==
  ASSUME NEW p, NEW at, NEW frontier, Feeds(p, at, frontier), FifoAdvance(p)
  PROVE  LET after  == IF Pops(p) THEN Stream!After(at) ELSE at
             beyond == IF p.valid THEN [w |-> NextWord(frontier.w), h |-> 0] ELSE frontier
         IN  /\ Queued(valid_Q', rdata_Q', addr_Q'[0], after)
             /\ Behind(valid_Q', rdata_Q', beyond)
             /\ ~valid_Q'[0] => beyond = after
             /\ ~Pops(p) /\ (valid_Q[0] \/ p.valid) => valid_Q'[0]
             /\ valid_Q[1] => valid_Q'[0]
             /\ is_hwlp_Q' = [i \in {0, 1} |-> FALSE]
<1> DEFINE beyond == IF p.valid THEN [w |-> NextWord(frontier.w), h |-> 0] ELSE frontier
<1>1. /\ Queued(valid_int(p), rdata_int(p), addr_int(p)[0], at)
      /\ Behind(valid_int(p), rdata_int(p), beyond)
      /\ valid_int(p)[0] <=> (valid_Q[0] \/ p.valid)
  BY ArrivesBehind DEF Feeds
<1>2. /\ is_hwlp_int(p) = [i \in {0, 1} |-> FALSE]
      /\ is_hwlp_Q' = [i \in {0, 1} |-> FALSE]
  BY DEF Feeds, FifoAdvance, is_hwlp_n, is_hwlp_int
<1>3. /\ valid_int(p) \in [Slots -> BOOLEAN] /\ rdata_int(p) \in [Slots -> Rdata]
      /\ addr_int(p) \in [{0, 1} -> Addr]
  <2>1. valid_int(p) \in [Slots -> BOOLEAN]
    BY ValidIntType DEF Feeds
  <2>2. rdata_int(p) \in [Slots -> Rdata]
    BY OutputTypes DEF Feeds, rdata_int, FifoTypeOK, FifoPorts
  <2>3. addr_int(p) \in [{0, 1} -> Addr]
    BY DEF Feeds, addr_int, FifoTypeOK, FifoPorts
  <2> QED BY <2>1, <2>2, <2>3
<1>4. valid_Q[1] => valid_Q[0] /\ valid_int(p)[1]
  BY SlotFacts DEF Feeds, NoGap, FifoTypeOK, valid_int, Replaces
<1>5. CASE ~Pops(p)
  <2>1. /\ valid_Q' = valid_int(p) /\ rdata_Q' = rdata_int(p) /\ addr_Q' = addr_int(p)
    BY <1>5 DEF FifoAdvance, valid_n, rdata_n, addr_n
  <2>2. ~valid_int(p)[0] => beyond = at
    BY <1>1 DEF Feeds
  <2> QED BY <1>1, <1>2, <1>4, <1>5, <2>1, <2>2
<1>6. CASE Pops(p)
  <2>1. /\ addr_int(p)[0] = at /\ next_head_addr(p) = Stream!After(at)
        /\ ServesLowerHalf(p) <=> at.h = 0 /\ at \in Compressed
        /\ at.h = 1 /\ at \notin Compressed => valid_Q[1] \/ (valid_Q[0] /\ p.valid)
    BY <1>6, OffersInstruction DEF Pops
  <2>2. addr_Q'[0] = Stream!After(at)
    BY <1>3, <1>6, <2>1 DEF FifoAdvance, addr_n
  <2>3. valid_int(p)[0]
    <3>1. valid_unaligned(p) \/ valid(p)
      BY <1>6 DEF Pops, out_valid
    <3>2. ~is_hwlp_Q[1]
      BY DEF Feeds
    <3> QED BY <1>1, <1>4, <3>1, <3>2 DEF valid, valid_unaligned
  <2>4. /\ at \in Addr /\ Stream!After(at) \in Addr
        /\ Stream!NextHalf(at) = IF at.h = 0 THEN [w |-> at.w, h |-> 1]
                                 ELSE [w |-> NextWord(at.w), h |-> 0]
        /\ at.h \in {0, 1}
    BY StreamAddr DEF Feeds, Addr
  <2>5. CASE ServesLowerHalf(p)
    <3>1. valid_Q' = valid_int(p) /\ rdata_Q' = rdata_int(p)
      BY <2>5 DEF FifoAdvance, valid_n, rdata_n
    <3>2. Stream!After(at) = [w |-> at.w, h |-> 1]
      BY <2>1, <2>4, <2>5 DEF Stream!After
    <3>3. Queued(valid_Q', rdata_Q', addr_Q'[0], Stream!After(at))
      BY <1>1, <2>2, <2>3, <3>1, <3>2 DEF Queued
    <3> QED BY <1>1, <1>2, <1>6, <2>3, <3>1, <3>3
  <2>6. CASE ~ServesLowerHalf(p)
    <3>1. /\ valid_Q' = Shifted(valid_int(p), FALSE)
          /\ rdata_Q' = Shifted(rdata_int(p), ZeroWord)
      BY <1>6, <2>6 DEF FifoAdvance, valid_n, rdata_n
    <3>2. Stream!After(at) = [w |-> NextWord(at.w),
                              h |-> IF at.h = 1 /\ at \notin Compressed THEN 1 ELSE 0]
      <4>1. Stream!NextHalf([w |-> at.w, h |-> 1]) = [w |-> NextWord(at.w), h |-> 0]
            /\ Stream!NextHalf([w |-> NextWord(at.w), h |-> 0]) = [w |-> NextWord(at.w), h |-> 1]
        BY DEF Stream!NextHalf, NextWord
      <4> QED BY <2>1, <2>4, <2>6, <4>1 DEF Stream!After
    <3>3. Stream!After(at).w = NextWord(at.w)
      BY <3>2
    <3>4. /\ Queued(valid_Q', rdata_Q', Stream!After(at), Stream!After(at))
          /\ Behind(valid_Q', rdata_Q', beyond)
          /\ valid_Q'[0] = valid_int(p)[1]
          /\ ~valid_Q'[0] => beyond = [w |-> Stream!After(at).w, h |-> 0]
      <4> DEFINE v == valid_int(p)  d == rdata_int(p)
                 head == addr_int(p)[0]  after == Stream!After(at)
      <4>1. /\ v \in [Slots -> BOOLEAN] /\ v[0] /\ after.w = NextWord(at.w)
            /\ Queued(v, d, head, at) /\ Behind(v, d, beyond)
        BY <1>1, <1>3, <2>3, <2>4, <3>3
      <4>2. valid_Q' = Shifted(v, FALSE) /\ rdata_Q' = Shifted(d, ZeroWord)
        BY <3>1
      <4> HIDE DEF beyond, v, d, head, after
      <4>3. /\ Queued(Shifted(v, FALSE), Shifted(d, ZeroWord), after, after)
            /\ Behind(Shifted(v, FALSE), Shifted(d, ZeroWord), beyond)
            /\ Shifted(v, FALSE)[0] = v[1]
        BY <4>1, MovesUp, Zenon
      <4>4. ASSUME ~v[1] PROVE beyond = [w |-> after.w, h |-> 0]
        <5>1. Ends(v, 0)
          BY <4>1, <4>4 DEF Ends
        <5>2. d[0].lo.w = at.w
          BY <4>1 DEF Queued, MemWord
        <5> QED BY <4>1, <5>1, <5>2, SlotFacts DEF Behind
      <4> QED BY <4>2, <4>3, <4>4 DEF v, after
    <3>5. ~valid_Q'[0] => beyond = Stream!After(at)
      <4>1. at.h = 1 /\ at \notin Compressed => valid_int(p)[1]
        <5> SUFFICES ASSUME at.h = 1, at \notin Compressed, ~valid_Q[1]
                     PROVE  valid_int(p)[1]
          BY <1>4
        <5>1. valid_Q[0] /\ p.valid
          BY <2>1
        <5>2. 1 \in FreeSlot
          BY <5>1, SlotFacts DEF FreeSlot
        <5> QED BY <5>1, <5>2, SlotFacts DEF valid_int, WrittenSlots, Replaces, Feeds
      <4> HIDE DEF beyond
      <4>2. SUFFICES ASSUME ~valid_Q'[0] PROVE beyond = Stream!After(at)
        OBVIOUS
      <4>3. ~(at.h = 1 /\ at \notin Compressed)
        BY <3>4, <4>1, <4>2
      <4> QED BY <3>2, <3>4, <4>2, <4>3
    <3>6. valid_Q[1] => valid_Q'[0]
      BY <1>4, <3>4
    <3> QED BY <1>2, <1>6, <2>2, <3>4, <3>5, <3>6
  <2> QED BY <2>5, <2>6
<1> QED BY <1>5, <1>6

-----------------------------------------------------------------------------
(* The loop logic is quiet, and the requests follow on each other.         *)

LEMMA QuietLoops ==
  ASSUME StageInv, NoLoopUnderWay, NEW in \in StageInputs
  PROVE  LET b == BufferInput(in) IN
         /\ ~hwlp_jump /\ ~b.hwloop /\ ~hwlp_masked(b) /\ ~hwlp_branch
         /\ ~hwloop_speculative(b) /\ ~LoopJump(b) /\ ~fetch_is_hwlp(b) /\ ~fifo_hwlp
         /\ Redirected(b) <=> b.branch
         /\ fifo_clear(b) <=> b.branch
         /\ ~is_hwlp_id /\ is_hwlp_o(b) = FALSE
<1> DEFINE b == BufferInput(in)
<1>1. ~hwlp_jump
  BY DEF hwlp_jump, Ending, pc_is_end_addr, NoLoopUnderWay, StageInv, LoopTypes, Count
<1>2. b.hwloop = FALSE
  BY <1>1 DEF BufferInput, FetchInput, hwlp_jump
<1> HIDE DEF b
<1>3. /\ ~hwlp_masked(b) /\ ~hwlp_branch /\ ~hwloop_speculative(b) /\ ~LoopJump(b)
      /\ ~fifo_hwlp
      /\ Redirected(b) <=> b.branch
      /\ fifo_clear(b) <=> b.branch
  BY <1>2 DEF NoLoopUnderWay, hwlp_masked, hwlp_branch, hwloop_speculative, LoopJump, fifo_hwlp,
     Redirected, fifo_clear
<1>4. ~fetch_is_hwlp(b)
  BY <1>3 DEF fetch_is_hwlp, Aborts
<1>5. ~is_hwlp_id /\ is_hwlp_o(b) = FALSE
  BY <1>3 DEF NoLoopUnderWay, is_hwlp_id, is_hwlp_o, out_is_hwlp, Port, fifo_hwlp
<1> QED BY <1>1, <1>2, <1>3, <1>4, <1>5 DEF b

\* The address of a request made now is the address register of the next cycle,
\* and a jump is requested, or noted, in the cycle it is made.
LEMMA RequestedAddr ==
  ASSUME NEW in \in Inputs, ~hwlp_masked(in), ~hwlp_branch, ~hwloop_speculative(in),
         ConsumerOK(in), Clock(in)
  PROVE  /\ instr_req_o(in) => instr_addr_q' = instr_addr_o(in)
         /\ in.branch => /\ instr_addr_q' = in.addr /\ CS' # "IDLE"
                         /\ CS' # "WAIT_JUMP" \/ in.err
<1>1. ~LoopJump(in) /\ (Redirected(in) <=> in.branch)
  BY DEF LoopJump, Redirected
<1>2. instr_req_o(in) /\ ~addr_valid(in) => instr_addr_o(in) = instr_addr_q
  BY <1>1 DEF instr_req_o, addr_valid, instr_addr_o
<1>3. instr_req_o(in) => instr_addr_q' = instr_addr_o(in)
  BY <1>2 DEF Clock, FetchAddr
<1>4. ASSUME in.branch
      PROVE  instr_addr_q' = in.addr /\ CS' # "IDLE" /\ (CS' # "WAIT_JUMP" \/ in.err)
  <2>1. MayPrefetch(in) /\ in.req
    BY <1>1, <1>4 DEF MayPrefetch, ConsumerOK
  <2>2. CS \in FetchStates
    BY DEF Clock, Idle, WaitJump, WaitGnt, WaitRvalid, WaitAborted, FetchStates
  <2>3. addr_valid(in) /\ instr_addr_o(in) = in.addr
    BY <1>1, <1>4, <2>1, <2>2 DEF addr_valid, instr_addr_o, instr_req_o, Aborts, RedirectAddr,
       FetchStates
  <2>4. instr_addr_q' = in.addr
    BY <2>3 DEF Clock, FetchAddr
  <2>5. CS' # "IDLE" /\ (CS' # "WAIT_JUMP" \/ in.err)
    BY <1>1, <1>4, <2>1 DEF Clock, Idle, WaitJump, WaitGnt, WaitRvalid, WaitAborted, Requested,
       instr_req_o, Aborts
  <2> QED BY <2>4, <2>5
<1> QED BY <1>3, <1>4

\* Without a jump, the word requested next is the one behind the last requested.
LEMMA RequestsFollow ==
  ASSUME NEW in \in Inputs, ~hwlp_masked(in), ~hwlp_branch, ~hwloop_speculative(in),
         ~in.branch, Clock(in)
  PROVE  /\ Frontier' = IF fifo_valid(in) THEN [w |-> NextWord(Frontier.w), h |-> 0]
                        ELSE Frontier
         /\ CS' = "IDLE" => \/ CS = "IDLE" /\ ~(in.req /\ in_ready)
                            \/ fifo_valid(in) /\ ~(in.req /\ in_ready)
         /\ CS' = "WAIT_JUMP" /\ ~in.err => CS = "WAIT_JUMP" /\ instr_addr_q' = instr_addr_q
<1>1. ~LoopJump(in) /\ ~Redirected(in) /\ ~Aborts(in)
      /\ (MayPrefetch(in) <=> in.req /\ in_ready)
  BY DEF LoopJump, Redirected, Aborts, MayPrefetch
<1>2. /\ instr_req_o(in) <=> \/ CS = "IDLE" /\ in.req /\ in_ready
                             \/ CS = "WAIT_GNT"
                             \/ CS = "WAIT_RVALID" /\ in.rvalid /\ in.req /\ in_ready
                             \/ CS = "WAIT_ABORTED" /\ in.rvalid
      /\ addr_valid(in) <=> CS \in {"IDLE", "WAIT_RVALID"} /\ instr_req_o(in)
  BY <1>1 DEF instr_req_o, addr_valid
<1>3. /\ CS \in {"IDLE", "WAIT_RVALID"} => instr_addr_o(in) = fetch_addr
      /\ instr_addr_q' = IF addr_valid(in) THEN instr_addr_o(in) ELSE instr_addr_q
  <2>1. CS = "IDLE" => instr_addr_o(in) = fetch_addr
    BY <1>1 DEF instr_addr_o
  <2>2. CS = "WAIT_RVALID" => instr_addr_o(in) = fetch_addr
    BY <1>1 DEF instr_addr_o
  <2> QED BY <2>1, <2>2 DEF Clock, FetchAddr
<1>4. fetch_addr' = [w |-> NextWord(instr_addr_q'.w), h |-> 0]
  BY DEF fetch_addr, NextWord
<1>5. CASE CS = "IDLE"
  BY <1>1, <1>2, <1>3, <1>4, <1>5 DEF Clock, Idle, WaitJump, WaitGnt, WaitRvalid, WaitAborted,
     Requested, Frontier, fifo_valid, fetch_addr
<1>6. CASE CS = "WAIT_RVALID"
  BY <1>1, <1>2, <1>3, <1>4, <1>6 DEF Clock, Idle, WaitJump, WaitGnt, WaitRvalid, WaitAborted,
     Requested, Frontier, fifo_valid, fetch_addr
<1>7. CASE CS = "WAIT_JUMP"
  BY <1>2, <1>3, <1>7 DEF Clock, Idle, WaitJump, WaitGnt, WaitRvalid, WaitAborted,
     Frontier, fifo_valid
<1>8. CASE CS \in {"WAIT_GNT", "WAIT_ABORTED"}
  BY <1>2, <1>3, <1>8 DEF Clock, Idle, WaitJump, WaitGnt, WaitRvalid, WaitAborted,
     Requested, Frontier, fifo_valid
<1>9. CS \in FetchStates
  BY DEF Clock, Idle, WaitJump, WaitGnt, WaitRvalid, WaitAborted, FetchStates
<1> QED BY <1>5, <1>6, <1>7, <1>8, <1>9 DEF FetchStates

\* The word on its way is the one requested last, and a refused word is protected.
LEMMA AwaitedWord ==
  ASSUME TypeOK, OneOutstanding, NEW in \in Inputs, ~hwlp_masked(in), ~hwlp_branch,
         ~hwloop_speculative(in), ConsumerOK(in), MemoryOK(in), Clock(in),
         CS = "WAIT_RVALID" => Head(pending) = instr_addr_q.w,
         CS = "WAIT_JUMP" => instr_addr_q.w \in Protected
  PROVE  /\ CS' = "WAIT_RVALID" => Head(pending') = instr_addr_q'.w
         /\ CS' = "WAIT_JUMP" => instr_addr_q'.w \in Protected
<1>1. CASE CS' = "WAIT_RVALID"
  <2>1. CASE in.gnt
    <3>1. instr_req_o(in) /\ instr_addr_q' = instr_addr_o(in)
      BY <2>1, RequestedAddr DEF MemoryOK
    <3>2. Unanswered(in) = <<>>
      <4>1. CS \in {"WAIT_RVALID", "WAIT_ABORTED"} => in.rvalid
        BY <3>1 DEF instr_req_o
      <4>2. CASE in.rvalid
        <5>1. pending # <<>> /\ pending \in Seq(Word)
          BY <4>2 DEF MemoryOK, TypeOK
        <5>2. Len(pending) = 1
          BY <5>1 DEF OneOutstanding
        <5>3. Tail(pending) \in Seq(Word) /\ Len(Tail(pending)) = 0
          BY <5>1, <5>2
        <5>4. \A words \in Seq(Word) : Len(words) = 0 => words = <<>>
          OBVIOUS
        <5>5. Tail(pending) = <<>>
          BY <5>3, <5>4
        <5> QED BY <4>2, <5>5 DEF Unanswered
      <4>3. CASE ~in.rvalid
        <5>1. Len(pending) = 0 /\ pending \in Seq(Word)
          BY <4>1, <4>3 DEF OneOutstanding, TypeOK
        <5>2. pending = <<>>
          BY <5>1
        <5> QED BY <4>3, <5>2 DEF Unanswered
      <4> QED BY <4>2, <4>3
    <3>3. pending' = Append(<<>>, instr_addr_q'.w)
      BY <2>1, <3>1, <3>2 DEF Clock, MemStep
    <3> QED BY <1>1, <3>3
  <2>2. CASE ~in.gnt
    <3>1. CS = "WAIT_RVALID" /\ ~in.rvalid /\ ~Aborts(in)
      BY <1>1, <2>2 DEF Clock, Idle, WaitJump, WaitGnt, WaitRvalid, WaitAborted, Requested,
         instr_req_o
    <3>2. ~addr_valid(in)
      BY <3>1 DEF addr_valid, instr_req_o
    <3>3. instr_addr_q' = instr_addr_q /\ pending' = pending
      BY <2>2, <3>1, <3>2 DEF Clock, FetchAddr, MemStep, Unanswered
    <3> QED BY <1>1, <3>1, <3>3
  <2> QED BY <1>1, <2>1, <2>2
<1>2. CASE CS' = "WAIT_JUMP"
  <2>1. CASE in.err
    <3>1. instr_req_o(in) /\ instr_addr_o(in).w \in Protected
      BY <2>1 DEF MemoryOK
    <3>2. instr_addr_q' = instr_addr_o(in)
      BY <3>1, RequestedAddr
    <3> QED BY <1>2, <3>1, <3>2
  <2>2. CASE ~in.err
    <3>1. ~in.branch
      BY <1>2, <2>2, RequestedAddr
    <3>2. CS = "WAIT_JUMP" /\ instr_addr_q' = instr_addr_q
      BY <1>2, <2>2, <3>1, RequestsFollow
    <3> QED BY <1>2, <3>2
  <2> QED BY <2>1, <2>2
<1> QED BY <1>1, <1>2

-----------------------------------------------------------------------------
(* The stage follows the stream.                                           *)

StageCycle(in) ==
  /\ StreamInv
  /\ in \in StageInputs
  /\ ControllerOK(in) /\ MemoryOK(BufferInput(in)) /\ StageClock(in) /\ History(in)

LEMMA NothingJumps ==
  ASSUME StageInv, NoLoopUnderWay
  PROVE  /\ Stream!Jumping(next, Stream!Counted) = {}
         /\ left = hwlp_counter_q /\ Stream!Counted = hwlp_counter_q
<1>1. hwlp_counter_q \in [Loops -> Count] /\ ~is_hwlp_id
  BY DEF StageInv, LoopTypes, NoLoopUnderWay, is_hwlp_id
<1>2. left = hwlp_counter_q
  BY <1>1 DEF left
<1>3. Stream!Counted = hwlp_counter_q
  BY <1>1, <1>2, LoopsAssumption DEF Stream!Counted, Stream!Loops, Stream!NoLoop, Loops, NoLoopUnderWay
<1>4. Stream!Jumping(next, hwlp_counter_q) = {}
  BY <1>1 DEF Stream!Jumping, Stream!Loops, Loops, NoLoopUnderWay, Count
<1> QED BY <1>2, <1>3, <1>4

\* An instruction enters ID exactly when the queue serves one.
LEMMA EntersWhenServed ==
  ASSUME NEW in, StageCycle(in)
  PROVE  LET b == BufferInput(in) IN
         /\ b.ready <=> if_valid(in)
         /\ if_valid(in) => out_valid(Port(b)) /\ offset_fsm_cs = "WAIT" /\ ~b.branch
         /\ Port(b).ready = b.ready /\ Port(b).valid = fifo_valid(b)
         /\ b.branch <=> in.pc_set
         /\ in.pc_set => b.addr = in.target /\ in.target \in Addr
         /\ b \in Inputs /\ ConsumerOK(b) /\ Clock(b)
         /\ Pops(Port(b)) <=> if_valid(in)
<1> DEFINE b == BufferInput(in)
<1>1. in \in StageInputs /\ ControllerOK(in) /\ StreamInv /\ Clock(b)
  BY DEF StageCycle, StageClock
<1>2. b.ready = fetch_ready(in) /\ b.branch = branch_req(in) /\ b.addr = in.target
      /\ Port(b).ready = b.ready /\ Port(b).valid = fifo_valid(b)
  BY DEF BufferInput, FetchInput, Port
<1>3. fetch_ready(in) <=> if_valid(in)
  BY <1>1 DEF fetch_ready, if_valid, StageInputs
<1>4. branch_req(in) <=> in.pc_set
  BY <1>1 DEF branch_req, ControllerOK
<1>5. if_valid(in) => out_valid(Port(b)) /\ offset_fsm_cs = "WAIT" /\ ~in.pc_set
  BY OfferedWord DEF if_valid, fetch_valid, valid_o, BufferInput
<1>6. in.target \in Addr
  BY <1>1, TargetsAssumption DEF StageInputs
<1>7. b \in Inputs /\ ConsumerOK(b)
  BY <1>1, BufferInputType, DrivesBuffer DEF StreamInv, StageInv
<1>8. Pops(Port(b)) <=> if_valid(in)
  BY <1>2, <1>3, <1>5 DEF Pops
<1> HIDE DEF b
<1>9. /\ b.ready <=> if_valid(in)
      /\ if_valid(in) => out_valid(Port(b)) /\ offset_fsm_cs = "WAIT" /\ ~b.branch
      /\ b.branch <=> in.pc_set
  BY <1>2, <1>3, <1>4, <1>5
<1> QED BY <1>1, <1>2, <1>6, <1>7, <1>8, <1>9 DEF b

LEMMA FeedsPort ==
  ASSUME NEW in, StageCycle(in), offset_fsm_cs = "WAIT"
  PROVE  Feeds(Port(BufferInput(in)), next, Frontier)
<1> DEFINE b == BufferInput(in)  p == Port(b)
<1>1. StageInv /\ NoLoopUnderWay /\ Follows /\ in \in StageInputs /\ MemoryOK(b)
  BY DEF StageCycle, StreamInv
<1>2. b \in Inputs /\ TypeOK /\ NoGap /\ RoomForRequest
  BY <1>1, BufferInputType DEF StageInv, Inv
<1>3. p \in FifoPorts
  BY <1>1, <1>2, PortType DEF MemoryOK
<1>4. ~fifo_hwlp
  BY <1>1, QuietLoops
<1>5. /\ p.valid = fifo_valid(b) /\ p.addr = instr_addr_q /\ p.rdata = instr_rdata(b)
      /\ p.replace2 = fifo_hwlp /\ p.is_hwlp = fifo_hwlp
  BY DEF Port
<1> HIDE DEF p
<1>6. Frontier \in Addr
  BY <1>2, AddrTypes DEF Frontier, fetch_addr, TypeOK, Addr
<1>7. p.valid => p.addr = Frontier /\ p.rdata = MemWord(p.addr.w) /\ ~valid_Q[DEPTH - 1]
  <2> SUFFICES ASSUME p.valid
               PROVE  p.addr = Frontier /\ p.rdata = MemWord(p.addr.w) /\ ~valid_Q[DEPTH - 1]
    OBVIOUS
  <2>1. CS = "WAIT_RVALID" /\ b.rvalid
    BY <1>5 DEF fifo_valid
  <2>2. instr_rdata(b) = MemWord(instr_addr_q.w)
    BY <1>1, <2>1 DEF instr_rdata, MemoryOK, Follows
  <2>3. ~valid_Q[DEPTH - 1]
    BY <1>1, <1>2, <2>1 DEF RoomForRequest, NoLoopUnderWay
  <2> QED BY <1>5, <2>1, <2>2, <2>3 DEF Frontier
<1>8. ~valid_Q[0] => Frontier = next
  BY <1>1 DEF Follows, Frontier
<1>9. Feeds(p, next, Frontier)
  BY <1>1, <1>2, <1>3, <1>4, <1>5, <1>6, <1>7, <1>8 DEF Feeds, Follows, NoLoopUnderWay, TypeOK
<1> QED BY <1>9 DEF p

LEMMA PcIfIsNext ==
  ASSUME Follows, offset_fsm_cs = "WAIT"
  PROVE  pc_if = next
BY DEF Follows, Queued, pc_if

\* What enters ID is the instruction the stream delivers.
LEMMA Delivers ==
  ASSUME NEW in, StageCycle(in), if_valid(in)
  PROVE  /\ instr_valid_id' = TRUE /\ pc_id' = next /\ instr_id' = Stream!InstrAt(next)
         /\ next' = Stream!After(next) /\ via' = Stream!NoLoop /\ is_hwlp_id_q' = FALSE
<1> DEFINE b == BufferInput(in)
<1>1. LoadId(in)
  BY DEF StageCycle, StageClock, ClearId, HoldId
<1>2. out_valid(Port(b)) /\ offset_fsm_cs = "WAIT" /\ ~in.pc_set
  BY EntersWhenServed DEF if_valid
<1>3. Decompressed(rdata_o(b)) = Stream!InstrAt(next)
  BY <1>2, FeedsPort, OffersInstruction DEF rdata_o
<1>4. pc_if = next
  BY <1>2, PcIfIsNext DEF StageCycle, StreamInv
<1>5. Stream!Jumping(next, Stream!Counted) = {}
  BY NothingJumps DEF StageCycle, StreamInv
<1>6. next' = Stream!After(next) /\ via' = Stream!NoLoop
  BY <1>2, <1>5 DEF StageCycle, History
<1>7. is_hwlp_o(b) = FALSE
  BY QuietLoops DEF StageCycle, StreamInv
<1> QED BY <1>1, <1>3, <1>4, <1>6, <1>7 DEF LoadId

LEMMA NoLoopUnderWayStep ==
  ASSUME NoLoopJumps, NEW in, StageCycle(in)
  PROVE  NoLoopUnderWay'
<1> DEFINE b == BufferInput(in)
<1>1. StageInv /\ NoLoopUnderWay /\ in \in StageInputs /\ StageClock(in)
  BY DEF StageCycle, StreamInv
<1>2. /\ ~b.hwloop /\ ~hwloop_speculative(b) /\ ~is_hwlp_id
      /\ fifo_clear(b) <=> b.branch
  BY <1>1, QuietLoops
<1>3. hwlp_CS' = "HWLP_NONE"
  BY <1>1, <1>2 DEF StageClock, Clock, HwlpStep, HwlpNone, HwlpUnalignedCompressed, HwlpIn,
     HwlpFetching, HwlpDone, NoLoopUnderWay
<1>4. is_hwlp_Q' = [i \in {0, 1} |-> FALSE]
  <2>1. CASE b.branch
    BY <1>1, <1>2, <2>1 DEF StageClock, Clock, FifoStep, FifoClear
  <2>2. CASE ~b.branch
    <3>1. FifoAdvance(Port(b))
      BY <1>1, <1>2, <2>2 DEF StageClock, Clock, FifoStep
    <3>2. /\ ~fifo_hwlp /\ Port(b).replace2 = fifo_hwlp
      BY <1>1, QuietLoops DEF Port
    <3>3. is_hwlp_int(Port(b)) = [i \in {0, 1} |-> FALSE]
      BY <1>1, <3>2 DEF is_hwlp_int, NoLoopUnderWay
    <3> QED BY <3>1, <3>3 DEF FifoAdvance, is_hwlp_n
  <2> QED BY <2>1, <2>2
<1>5. is_hwlp_id_q' = FALSE /\ via' = Stream!NoLoop
  <2>1. CASE if_valid(in)
    BY <2>1, Delivers
  <2>2. CASE ~if_valid(in)
    BY <1>1, <2>2 DEF StageClock, LoadId, ClearId, HoldId, idVars, NoLoopUnderWay, StageCycle, History
  <2> QED BY <2>1, <2>2
<1>6. ASSUME NEW i \in Loops PROVE hwlp_counter_q'[i] <= 1
  <2>1. hwlp_counter_q'[i] = IF Writes(in, i) THEN LoopSetup[pc_id].count ELSE hwlp_counter_q[i]
    BY <1>1, <1>2 DEF StageClock, LoopRegs, Decrements
  <2> QED BY <1>1, <2>1 DEF NoLoopJumps, Writes, NoLoopUnderWay
<1> QED BY <1>3, <1>4, <1>5, <1>6 DEF NoLoopUnderWay

\* The queue after a cycle in which nothing jumps.
LEMMA QueueFollows ==
  ASSUME NEW in, StageCycle(in), ~in.pc_set, offset_fsm_cs = "WAIT"
  PROVE  /\ Queued(valid_Q', rdata_Q', addr_Q'[0], next')
         /\ Behind(valid_Q', rdata_Q', Frontier')
         /\ ~valid_Q'[0] => instr_addr_q' = next' /\ CS' # "IDLE"
<1> DEFINE b == BufferInput(in)  p == Port(b)
<1>1. StageInv /\ NoLoopUnderWay /\ Follows /\ in \in StageInputs
  BY DEF StageCycle, StreamInv
<1>2. /\ ~hwlp_masked(b) /\ ~hwlp_branch /\ ~hwloop_speculative(b)
      /\ fifo_clear(b) <=> b.branch
  BY <1>1, QuietLoops
<1>3. /\ b.ready <=> if_valid(in)
      /\ ~b.branch /\ b \in Inputs /\ ConsumerOK(b) /\ Clock(b)
      /\ Pops(p) <=> if_valid(in)
      /\ p.valid = fifo_valid(b)
  BY EntersWhenServed
<1>4. Feeds(p, next, Frontier)
  BY FeedsPort
<1>5. FifoAdvance(p)
  BY <1>2, <1>3 DEF Clock, FifoStep
<1>6. next' = IF Pops(p) THEN Stream!After(next) ELSE next
  <2>1. CASE if_valid(in)
    BY <1>3, <2>1, Delivers
  <2>2. CASE ~if_valid(in)
    BY <1>3, <2>2 DEF StageCycle, History
  <2> QED BY <2>1, <2>2
<1>7. Frontier' = IF p.valid THEN [w |-> NextWord(Frontier.w), h |-> 0] ELSE Frontier
  BY <1>2, <1>3, RequestsFollow
<1> HIDE DEF p
<1>8. /\ Queued(valid_Q', rdata_Q', addr_Q'[0], next') /\ Behind(valid_Q', rdata_Q', Frontier')
      /\ ~valid_Q'[0] => Frontier' = next'
      /\ ~Pops(p) /\ (valid_Q[0] \/ p.valid) => valid_Q'[0]
      /\ valid_Q[1] => valid_Q'[0]
  BY <1>4, <1>5, <1>6, <1>7, QueueAdvances
<1>9. CS' = "IDLE" => valid_Q'[0]
  <2> SUFFICES ASSUME CS' = "IDLE" PROVE valid_Q'[0]
    OBVIOUS
  <2>1. ~(b.req /\ in_ready) /\ (CS = "IDLE" \/ fifo_valid(b))
    BY <1>2, <1>3, RequestsFollow
  <2>2. valid_Q[0] \/ p.valid
    BY <1>1, <1>3, <2>1 DEF Follows
  <2>3. ~b.req => ~Pops(p)
    BY <1>3 DEF ConsumerOK
  <2>4. ~in_ready => valid_Q[1]
    <3>1. 1 <= DEPTH - 2 /\ 1 \in Slots /\ DEPTH - 2 \in Slots
      BY DepthAssumption, SlotFacts
    <3> QED BY <1>1, <3>1 DEF in_ready, StageInv, Inv, NoGap
  <2> QED BY <1>8, <2>1, <2>2, <2>3, <2>4
<1>10. CS' # "IDLE" => Frontier' = instr_addr_q'
  BY DEF Frontier
<1> QED BY <1>8, <1>9, <1>10

LEMMA FollowsStep ==
  ASSUME NEW in, StageCycle(in)
  PROVE  Follows'
<1> DEFINE b == BufferInput(in)
<1>1. StageInv /\ NoLoopUnderWay /\ Follows /\ in \in StageInputs /\ ControllerOK(in)
      /\ MemoryOK(b) /\ StageClock(in) /\ History(in)
  BY DEF StageCycle, StreamInv
<1>2. /\ ~hwlp_masked(b) /\ ~hwlp_branch /\ ~hwloop_speculative(b)
      /\ fifo_clear(b) <=> b.branch
  BY <1>1, QuietLoops
<1>3. /\ b.branch <=> in.pc_set
      /\ in.pc_set => b.addr = in.target /\ in.target \in Addr
      /\ b \in Inputs /\ ConsumerOK(b) /\ Clock(b)
  BY EntersWhenServed
<1>4. TypeOK /\ OneOutstanding
  BY <1>1 DEF StageInv, Inv
<1>5. /\ CS' = "WAIT_RVALID" => Head(pending') = instr_addr_q'.w
      /\ CS' = "WAIT_JUMP" => instr_addr_q'.w \in Protected
  BY <1>1, <1>2, <1>3, <1>4, AwaitedWord DEF Follows
<1>6. /\ in.pc_set => next' = in.target
      /\ if_valid(in) => next' = Stream!After(next)
      /\ ~in.pc_set /\ ~if_valid(in) => next' = next
  <2>1. if_valid(in) => ~in.pc_set
    BY DEF if_valid
  <2>2. if_valid(in) => next' = Stream!After(next)
    BY Delivers
  <2> QED BY <1>1, <2>1, <2>2 DEF History
<1>7. next' \in Addr
  BY <1>1, <1>3, <1>6, StreamAddr DEF Follows
<1>8. instr_valid_id' /\ pc_id' \in DOMAIN LoopSetup => next' = Stream!After(pc_id')
  <2>1. CASE if_valid(in)
    BY <2>1, Delivers
  <2>2. CASE ~if_valid(in)
    <3>1. CASE in.id # "hold"
      BY <1>1, <2>2, <3>1 DEF StageClock, LoadId, ClearId, HoldId
    <3>2. CASE in.id = "hold"
      <4>1. instr_valid_id' = instr_valid_id /\ pc_id' = pc_id
        BY <1>1, <2>2, <3>2 DEF StageClock, LoadId, ClearId, HoldId, idVars
      <4>2. instr_valid_id /\ pc_id \in DOMAIN LoopSetup => ~in.pc_set
        BY <1>1, <3>2 DEF ControllerOK, NoJump
      <4> QED BY <1>1, <1>6, <2>2, <4>1, <4>2 DEF Follows
    <3> QED BY <3>1, <3>2
  <2> QED BY <2>1, <2>2
<1>9. CASE in.pc_set
  <2>1. offset_fsm_cs' = "WAIT"
    BY <1>1, <1>9 DEF StageClock, OffsetFsm
  <2>2. instr_addr_q' = next' /\ CS' # "IDLE"
    BY <1>2, <1>3, <1>6, <1>9, RequestedAddr
  <2>3. \A j \in Slots : ~valid_Q'[j]
    BY <1>2, <1>3, <1>9 DEF Clock, FifoStep, FifoClear
  <2>4. Queued(valid_Q', rdata_Q', addr_Q'[0], next') /\ Behind(valid_Q', rdata_Q', Frontier')
    BY <2>3, SlotFacts DEF Queued, Behind, Ends
  <2> QED BY <1>5, <1>7, <1>8, <2>1, <2>2, <2>4 DEF Follows
<1>10. CASE ~in.pc_set /\ offset_fsm_cs = "WAIT"
  <2>1. offset_fsm_cs' = "WAIT"
    BY <1>1, <1>10 DEF StageClock, OffsetFsm
  <2> QED BY <1>5, <1>7, <1>8, <1>10, <2>1, QueueFollows DEF Follows
<1>11. CASE ~in.pc_set /\ offset_fsm_cs = "IDLE"
  <2>1. ~in.req /\ offset_fsm_cs' = "IDLE"
    BY <1>1, <1>11 DEF StageClock, OffsetFsm, ControllerOK
  <2>2. CS = "IDLE" /\ ~instr_valid_id /\ \A j \in Slots : ~valid_Q[j]
    BY <1>1, <1>11 DEF Follows
  <2>3. CS' = "IDLE"
    <3>1. b.req = in.req
      BY DEF BufferInput, FetchInput
    <3> QED BY <1>3, <2>1, <2>2, <3>1 DEF Clock, Idle, WaitJump, WaitGnt, WaitRvalid, WaitAborted,
            instr_req_o
  <2>4. ~if_valid(in)
    BY <1>11 DEF if_valid
  <2>5. ~instr_valid_id'
    BY <1>1, <2>2, <2>4 DEF StageClock, LoadId, ClearId, HoldId, idVars
  <2>6. \A j \in Slots : ~valid_Q'[j]
    <3>1. FifoAdvance(Port(b))
      BY <1>2, <1>3, <1>11 DEF Clock, FifoStep
    <3>2. ~Pops(Port(b)) /\ ~Port(b).valid
      BY <2>2, <2>4, EntersWhenServed DEF fifo_valid
    <3> QED BY <2>2, <3>1, <3>2 DEF FifoAdvance, valid_n, valid_int, WrittenSlots, Replaces
  <2> QED BY <1>5, <1>7, <1>8, <2>1, <2>3, <2>5, <2>6 DEF Follows
<1> QED BY <1>1, <1>9, <1>10, <1>11 DEF StageInv, IdTypes

LEMMA StreamInvInit == StreamStageInit => StreamInv /\ Stream!StreamInit
<1> SUFFICES ASSUME StreamStageInit PROVE StreamInv /\ Stream!StreamInit
  OBVIOUS
<1>1. StageInv
  BY StageInvInit DEF StreamStageInit
<1>2. NoLoopUnderWay
  BY DEF StreamStageInit, StageInit, Init, FifoInit, NoLoopUnderWay
<1>3. Follows
  BY ZeroTypes DEF StreamStageInit, StageInit, Init, FifoInit, Follows
<1>4. left = [i \in Loops |-> 0]
  BY DEF StreamStageInit, StageInit, left, is_hwlp_id
<1>5. Stream!StreamInit
  BY <1>4, NWordsAssumption DEF StreamStageInit, StageInit, Stream!StreamInit, Stream!Loops, Loops,
     NoInstr
<1> QED BY <1>1, <1>2, <1>3, <1>5 DEF StreamInv

LEMMA StreamInvStep ==
  ASSUME NoLoopJumps, NEW in, StageCycle(in)
  PROVE  StreamInv'
<1>1. StageInv /\ [StageNext]_stageVars
  BY DEF StageCycle, StreamInv, StageNext
<1>2. StageInv'
  BY <1>1, StageInvNext
<1> QED BY <1>2, NoLoopUnderWayStep, FollowsStep DEF StreamInv

\* A loop set-up in ID writes its loop, whose first instruction is the next one.
LEMMA SetsLoops ==
  ASSUME NoLoopJumps, NEW in, StageCycle(in)
  PROVE  Stream!Execute(in.id # "kill", left)
<1>1. StageInv /\ NoLoopUnderWay /\ Follows /\ in \in StageInputs /\ LoopRegs(in)
  BY DEF StageCycle, StreamInv, StageClock
<1>2. StageInv' /\ NoLoopUnderWay'
  BY StreamInvStep DEF StreamInv
<1>3. left = hwlp_counter_q /\ ~is_hwlp_id
  BY <1>1, NothingJumps, QuietLoops
<1>4. left' = hwlp_counter_q'
  <2>1. ~is_hwlp_id' /\ hwlp_counter_q' \in [Loops -> Count]
    BY <1>2 DEF is_hwlp_id, NoLoopUnderWay, StageInv, LoopTypes
  <2> QED BY <2>1 DEF left
<1>5. ASSUME NEW i \in Loops PROVE Stream!Sets(i, in.id # "kill") <=> Writes(in, i)
  BY DEF Stream!Sets, Writes
<1>6. ASSUME NEW i \in Loops, Writes(in, i) PROVE pc_if = Stream!After(pc_id)
  <2>1. instr_valid_id /\ pc_id \in DOMAIN LoopSetup
    BY <1>6 DEF Writes
  <2>2. offset_fsm_cs = "WAIT"
    BY <1>1, <2>1 DEF Follows, StageInv, IdTypes
  <2> QED BY <1>1, <2>1, <2>2, PcIfIsNext DEF Follows
<1>7. hwlp_start_q' = [i \in Loops |-> IF Stream!Sets(i, in.id # "kill") THEN Stream!After(pc_id)
                                       ELSE hwlp_start_q[i]]
  BY <1>1, <1>5, <1>6 DEF LoopRegs
<1>8. hwlp_end_q' = [i \in Loops |-> IF Stream!Sets(i, in.id # "kill") THEN LoopSetup[pc_id].end
                                     ELSE hwlp_end_q[i]]
  BY <1>1, <1>5 DEF LoopRegs
<1>9. hwlp_counter_q' = [i \in Loops |-> IF Stream!Sets(i, in.id # "kill")
                                         THEN LoopSetup[pc_id].count ELSE hwlp_counter_q[i]]
  BY <1>1, <1>3, <1>5 DEF LoopRegs, Decrements
<1>10. Stream!Loops = Loops
  BY DEF Stream!Loops, Loops
<1> QED BY <1>3, <1>4, <1>7, <1>8, <1>9, <1>10 DEF Stream!Execute

LEMMA CycleIsStreamStep ==
  ASSUME NoLoopJumps, NEW in, StageCycle(in)
  PROVE  Stream!StreamNext
<1>1. StageInv /\ NoLoopUnderWay /\ Follows /\ in \in StageInputs /\ StageClock(in) /\ History(in)
  BY DEF StageCycle, StreamInv
<1>2. Stream!Execute(in.id # "kill", left)
  BY SetsLoops
<1>3. Stream!Counted = left /\ Stream!Jumping(next, Stream!Counted) = {}
  BY <1>1, NothingJumps
<1>4. CASE if_valid(in)
  <2>1. Stream!Execute(TRUE, Stream!Counted)
    <3>1. (in.id # "kill") = TRUE
      BY <1>4 DEF if_valid
    <3> QED BY <1>2, <1>3, <3>1
  <2>2. Stream!Deliver
    BY <1>3, <1>4, <2>1, Delivers DEF Stream!Deliver
  <2> QED BY <2>2 DEF Stream!StreamNext
<1>5. CASE ~if_valid(in)
  <2>1. instr_valid_id' \in {FALSE, instr_valid_id} /\ UNCHANGED <<pc_id, instr_id>>
    BY <1>1, <1>5 DEF StageClock, LoadId, ClearId, HoldId, idVars
  <2>2. \E executes \in BOOLEAN : Stream!Execute(executes, left)
    <3>1. (in.id # "kill") \in BOOLEAN
      OBVIOUS
    <3> QED BY <1>2, <3>1
  <2>3. CASE in.pc_set
    <3>1. next' \in [w : 0 .. NWORDS - 1, h : {0, 1}] /\ via' = Stream!NoLoop
      <4>1. next' = in.target /\ in.target \in Addr /\ via' = Stream!NoLoop
        BY <1>1, <1>5, <2>3, EntersWhenServed DEF History
      <4> QED BY <4>1 DEF Addr, Word
    <3>2. Stream!Redirect
      BY <2>1, <2>2, <3>1 DEF Stream!Redirect
    <3> QED BY <3>2 DEF Stream!StreamNext
  <2>4. CASE ~in.pc_set
    <3>1. UNCHANGED <<next, via>>
      BY <1>1, <1>5, <2>4 DEF History
    <3>2. Stream!Wait
      BY <2>1, <2>2, <3>1 DEF Stream!Wait
    <3> QED BY <3>2 DEF Stream!StreamNext
  <2> QED BY <2>3, <2>4
<1> QED BY <1>4, <1>5

LEMMA StreamInvNext ==
  ASSUME NoLoopJumps
  PROVE  StreamInv /\ [StreamStageNext]_streamStageVars
           => StreamInv' /\ [Stream!StreamNext]_(Stream!streamVars)
<1> SUFFICES ASSUME StreamInv, [StreamStageNext]_streamStageVars
             PROVE  StreamInv' /\ [Stream!StreamNext]_(Stream!streamVars)
  OBVIOUS
<1>1. CASE StreamStageNext
  <2>1. PICK in : StageCycle(in)
    BY <1>1 DEF StreamStageNext, StageCycle
  <2> QED BY <2>1, StreamInvStep, CycleIsStreamStep
<1>2. CASE UNCHANGED streamStageVars
  <2>1. UNCHANGED stageVars /\ UNCHANGED <<next, via>>
    BY <1>2 DEF streamStageVars
  <2>2. StageInv'
    BY <2>1, StageInvNext DEF StreamInv
  <2>3. UNCHANGED <<CS, hwlp_CS, instr_addr_q, pending, addr_Q, rdata_Q, valid_Q, is_hwlp_Q>>
    BY <2>1 DEF stageVars, vars, fetchVars, fifoVars
  <2>4. UNCHANGED <<offset_fsm_cs, instr_valid_id, instr_id, pc_id, is_hwlp_id_q,
                    hwlp_dec_cnt_id, hwlp_start_q, hwlp_end_q, hwlp_counter_q>>
    BY <2>1 DEF stageVars, idVars, hwlpVars
  <2>5. NoLoopUnderWay'
    BY <2>1, <2>3, <2>4 DEF StreamInv, NoLoopUnderWay
  <2>6. Follows'
    <3>1. Frontier' = Frontier
      BY <2>3 DEF Frontier, fetch_addr
    <3> QED BY <2>1, <2>3, <2>4, <3>1 DEF StreamInv, Follows
  <2>7. UNCHANGED Stream!streamVars
    BY <2>1, <2>4 DEF Stream!streamVars, Stream!progVars, left, is_hwlp_id
  <2> QED BY <2>2, <2>5, <2>6, <2>7 DEF StreamInv
<1> QED BY <1>1, <1>2

\* While no loop jumps back, the stage implements the instruction stream: what
\* enters ID is the whole instruction at the address the program has reached,
\* whatever was prefetched, aborted, refused or dropped on the way.
THEOREM StageImplementsStream ==
  ASSUME NoLoopJumps
  PROVE  StreamStageSpec => ImplementsStream
<1>1. StreamInv /\ [StreamStageNext]_streamStageVars
        => StreamInv' /\ [Stream!StreamNext]_(Stream!streamVars)
  BY StreamInvNext
<1>2. StreamStageInit => StreamInv /\ Stream!StreamInit
  BY StreamInvInit
<1> QED BY <1>1, <1>2, PTL DEF StreamStageSpec, ImplementsStream, Stream!StreamSpec

LEMMA StreamSpecInv ==
  ASSUME NoLoopJumps
  PROVE  StreamStageSpec => []StreamInv
<1>1. StreamInv /\ [StreamStageNext]_streamStageVars => StreamInv'
  BY StreamInvNext
<1>2. StreamStageInit => StreamInv
  BY StreamInvInit
<1> QED BY <1>1, <1>2, PTL DEF StreamStageSpec

\* And the pc of the IF stage is that address in every cycle.
THEOREM StagePcIfExact ==
  ASSUME NoLoopJumps
  PROVE  StreamStageSpec => []PcIfExact
<1>1. StreamInv => PcIfExact
  BY PcIfIsNext DEF StreamInv, PcIfExact
<1> QED BY <1>1, StreamSpecInv, PTL

\* A fetch fault is raised only for an instruction that needs a protected word.
THEOREM StageFaultPrecise ==
  ASSUME NoLoopJumps
  PROVE  StreamStageSpec => FaultPrecise
<1> DEFINE Precise == ~is_fetch_failed /\ is_fetch_failed' =>
             \E half \in {next, Stream!NextHalf(next)} :
               half.w \in Protected /\ (next \in Compressed => half = next)
<1>1. ASSUME NEW in, StageCycle(in), ~is_fetch_failed, is_fetch_failed'
      PROVE  \E half \in {next, Stream!NextHalf(next)} :
               half.w \in Protected /\ (next \in Compressed => half = next)
  <2> DEFINE b == BufferInput(in)  p == Port(b)
  <2>1. StageInv /\ Follows /\ MemoryOK(b)
    BY <1>1 DEF StageCycle, StreamInv
  <2>2. fetch_failed_o(b)
    BY <1>1 DEF StageCycle, StageClock, LoadId, ClearId, HoldId, idVars
  <2>3. CS = "WAIT_JUMP" /\ ~out_valid(p) /\ instr_addr_q.w \in Protected
    BY <2>1, <2>2 DEF fetch_failed_o, valid_o, Follows
  <2>4. offset_fsm_cs = "WAIT"
    BY <2>1, <2>3 DEF Follows, StageInv, IdTypes
  <2>5. Feeds(p, next, Frontier) /\ Frontier = instr_addr_q
    BY <1>1, <2>3, <2>4, FeedsPort DEF Frontier
  <2>6. CASE ~valid_Q[0]
    BY <2>1, <2>3, <2>4, <2>6 DEF Follows
  <2>7. CASE valid_Q[0]
    <3>1. next = addr_Q[0] /\ rdata_Q[0] = MemWord(next.w)
      BY <2>5, <2>7 DEF Feeds, Queued
    <3> HIDE DEF p
    <3>2. ServesUnaligned(p) /\ ~unaligned_is_compressed(p) /\ ~valid_unaligned(p)
      BY <2>3, <2>7 DEF out_valid, valid
    <3>3. next.h = 1
      BY <2>7, <3>1, <3>2 DEF ServesUnaligned, out_addr
    <3>4. next = [w |-> next.w, h |-> 1]
          /\ Stream!NextHalf(next) = [w |-> NextWord(next.w), h |-> 0]
      BY <2>5, <3>3, StreamAddr DEF Feeds
    <3>5. next \notin Compressed
      BY <2>7, <3>1, <3>2, <3>4 DEF unaligned_is_compressed, rdata, IsCompressed, MemWord
    <3>6. Ends(valid_Q, 0)
      BY <2>7, <3>2 DEF Ends, valid_unaligned
    <3>7. instr_addr_q = [w |-> NextWord(next.w), h |-> 0]
      BY <2>5, <3>1, <3>6, SlotFacts DEF Feeds, Behind, MemWord
    <3> QED BY <2>3, <3>4, <3>5, <3>7
  <2> QED BY <2>6, <2>7
<1>2. StreamInv /\ [StreamStageNext]_streamStageVars => [Precise]_streamStageVars
  <2> SUFFICES ASSUME StreamInv, StreamStageNext PROVE Precise
    OBVIOUS
  <2>1. PICK in : StageCycle(in)
    BY DEF StreamStageNext, StageCycle
  <2> QED BY <1>1, <2>1
<1> QED BY <1>2, StreamSpecInv, PTL DEF StreamStageSpec, FaultPrecise
=============================================================================
