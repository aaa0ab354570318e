----------------------------- MODULE FetchFifo -----------------------------
(***************************************************************************)
(* rtl/riscv_fetch_fifo.sv: the queue of fetched words between the         *)
(* instruction memory and the IF stage.  Slot 0 is served.  The queue also *)
(* re-aligns: an instruction may start in the upper half of a word and     *)
(* span two slots, and a hardware-loop target may overwrite slot 1.        *)
(*                                                                         *)
(* A halfword address is a record [w, h]: the word and bit 1 of the byte   *)
(* address.  Memory contents are abstracted to the identity of a halfword: *)
(* the content of a halfword IS its address, and all the core looks at is  *)
(* whether its two low bits differ from 2'b11 (Compressed).  Zero is the   *)
(* halfword 16'b0 of a flip-flop that was reset or shifted in.             *)
(***************************************************************************)
EXTENDS Integers

CONSTANTS
  DEPTH,       \* localparam DEPTH = 4; "must be 3 or greater"
  NWORDS,      \* words of the address space (2^30 in the core); it wraps
  Compressed,  \* halfwords whose bits [1:0] are not 2'b11
  Zero         \* the all-zero halfword of an empty flip-flop

Word  == 0 .. NWORDS - 1
Addr  == [w : Word, h : {0, 1}]
Half  == Addr \cup {Zero}
Rdata == [lo : Half, hi : Half]
Slots == 0 .. DEPTH - 1

ASSUME DepthAssumption      == DEPTH \in Nat /\ DEPTH >= 3
ASSUME NWordsAssumption     == NWORDS \in Nat \ {0}
ASSUME CompressedAssumption == Compressed \subseteq Addr
ASSUME ZeroAssumption       == Zero \notin Addr

VARIABLES
  addr_Q,                     \* of slots 0 and 1: the others are never read
  rdata_Q, valid_Q,           \* one register per slot
  is_hwlp_Q                   \* bits 0 and 1: slot holds a loop target

fifoVars == <<addr_Q, rdata_Q, valid_Q, is_hwlp_Q>>

\* A slip: the fetch address is advanced without the wrap of its 32 bits.
NextWordNoWrap(w) == w + 1
NextWord(w) == (w + 1) % NWORDS
IsCompressed(half) == half = Zero \/ half \in Compressed
MemWord(w) == [lo |-> [w |-> w, h |-> 0], hi |-> [w |-> w, h |-> 1]]
ZeroWord == [lo |-> Zero, hi |-> Zero]

(***************************************************************************)
(* The input ports of one clock cycle.                                     *)
(***************************************************************************)
FifoPorts ==
  [valid : BOOLEAN, addr : Addr, rdata : Rdata, replace2 : BOOLEAN,
   is_hwlp : BOOLEAN, ready : BOOLEAN]

-----------------------------------------------------------------------------
(* Output port: combinational in the slots and the word arriving now. *)

rdata(p) == IF valid_Q[0] THEN rdata_Q[0] ELSE p.rdata
valid(p) == valid_Q[0] \/ p.valid \/ is_hwlp_Q[1]

rdata_unaligned(p) ==
  [lo |-> rdata(p).hi,
   hi |-> IF valid_Q[1] THEN rdata_Q[1].lo ELSE p.rdata.lo]
\* A slip: an arriving word completes a spanning instruction with no first half.
valid_unalignedAnyHead(p) == valid_Q[1] \/ p.valid
valid_unaligned(p) == valid_Q[1] \/ (valid_Q[0] /\ p.valid)

aligned_is_compressed(p)   == IsCompressed(rdata(p).lo)
unaligned_is_compressed(p) == IsCompressed(rdata(p).hi)

out_addr(p)    == IF valid_Q[0] THEN addr_Q[0] ELSE p.addr
out_is_hwlp(p) == IF valid_Q[0] THEN is_hwlp_Q[0] ELSE p.is_hwlp

\* The aligner is bypassed when the next entry is a loop target: slot 0 was
\* pre-aligned when the target replaced slot 1.
ServesUnaligned(p) == out_addr(p).h = 1 /\ ~is_hwlp_Q[1]

out_rdata(p) == IF ServesUnaligned(p) THEN rdata_unaligned(p) ELSE rdata(p)
out_valid(p) ==
  IF ServesUnaligned(p) /\ ~unaligned_is_compressed(p)
  THEN valid_unaligned(p)
  ELSE valid(p)

\* out_valid_stored_o looks at the flip-flops only, whether they are valid
\* or not.
out_valid_stored(p) ==
  IF ServesUnaligned(p)
  THEN IsCompressed(rdata_Q[0].hi) \/ valid_Q[1]
  ELSE valid_Q[0]

\* A slip: ready while there is one free slot, with one word perhaps on its way.
in_readyLate == ~valid_Q[DEPTH - 1]
in_ready == ~valid_Q[DEPTH - 2]

-----------------------------------------------------------------------------
(* Input port: the word arriving now goes to the first free slot, or, as a *)
(* hardware-loop target, to slot 1, dropping what was queued behind slot 0.*)

FreeSlot == {j \in Slots : ~valid_Q[j] /\ \A k \in 0 .. j - 1 : valid_Q[k]}
Replaces(p) == p.valid /\ p.replace2 /\ valid_Q[0]
WrittenSlots(p) ==
  (IF p.valid THEN FreeSlot ELSE {}) \cup (IF Replaces(p) THEN {1} ELSE {})

addr_int(p) == [j \in {0, 1} |-> IF j \in WrittenSlots(p) THEN p.addr ELSE addr_Q[j]]
rdata_int(p) ==
  [j \in Slots |-> IF j = 0 /\ Replaces(p) THEN out_rdata(p)
                   ELSE IF j \in WrittenSlots(p) THEN p.rdata
                   ELSE rdata_Q[j]]
valid_int(p) ==
  [j \in Slots |-> /\ valid_Q[j] \/ j \in WrittenSlots(p)
                   /\ Replaces(p) => j <= 1]
is_hwlp_int(p) ==
  [i \in {0, 1} |-> IF p.valid /\ p.replace2 /\ (i = 1 <=> valid_Q[0])
                    THEN p.is_hwlp ELSE is_hwlp_Q[i]]

-----------------------------------------------------------------------------
(* Serving: the head address moves to the next instruction, and the slots  *)
(* shift unless the other half of the head word is still to be served.     *)

Pops(p) == p.ready /\ out_valid(p)

ServesLowerHalf(p) ==
  ~is_hwlp_int(p)[1] /\ addr_int(p)[0].h = 0 /\ aligned_is_compressed(p)

next_head_addr(p) ==
  LET head == addr_int(p)[0] IN
  IF is_hwlp_int(p)[1] THEN addr_int(p)[1]
  ELSE IF ServesLowerHalf(p) THEN [head EXCEPT !.h = 1]
  ELSE [w |-> NextWord(head.w),
        h |-> IF head.h = 1 /\ ~unaligned_is_compressed(p) THEN 1 ELSE 0]

Shifted(slots, last) ==
  [j \in Slots |-> IF j = DEPTH - 1 THEN last ELSE slots[j + 1]]

addr_n(p) ==
  IF Pops(p) THEN [addr_int(p) EXCEPT ![0] = next_head_addr(p)] ELSE addr_int(p)
rdata_n(p) ==
  IF Pops(p) /\ ~ServesLowerHalf(p) THEN Shifted(rdata_int(p), ZeroWord) ELSE rdata_int(p)
valid_n(p) ==
  IF Pops(p) /\ ~ServesLowerHalf(p) THEN Shifted(valid_int(p), FALSE) ELSE valid_int(p)
is_hwlp_n(p) ==
  IF Pops(p) THEN [i \in {0, 1} |-> i = 0 /\ is_hwlp_int(p)[1]] ELSE is_hwlp_int(p)

-----------------------------------------------------------------------------
(* The registers: a clear invalidates every slot and leaves the data. *)

FifoInit ==
  /\ addr_Q    = [j \in {0, 1} |-> [w |-> 0, h |-> 0]]
  /\ rdata_Q   = [j \in Slots |-> ZeroWord]
  /\ valid_Q   = [j \in Slots |-> FALSE]
  /\ is_hwlp_Q = [i \in {0, 1} |-> FALSE]

\* A slip: a clear forgets the loop-target flags.
FifoClearFlagsKept ==
  /\ valid_Q' = [j \in Slots |-> FALSE]
  /\ UNCHANGED <<addr_Q, rdata_Q, is_hwlp_Q>>
FifoClear ==
  /\ valid_Q'   = [j \in Slots |-> FALSE]
  /\ is_hwlp_Q' = [i \in {0, 1} |-> FALSE]
  /\ UNCHANGED <<addr_Q, rdata_Q>>

FifoAdvance(p) ==
  /\ addr_Q'    = addr_n(p)
  /\ rdata_Q'   = rdata_n(p)
  /\ valid_Q'   = valid_n(p)
  /\ is_hwlp_Q' = is_hwlp_n(p)

FifoStep(p, clear) ==
  \/ clear /\ FifoClear
  \/ ~clear /\ FifoAdvance(p)

FifoTypeOK ==
  /\ addr_Q    \in [{0, 1} -> Addr]
  /\ rdata_Q   \in [Slots -> Rdata]
  /\ valid_Q   \in [Slots -> BOOLEAN]
  /\ is_hwlp_Q \in [{0, 1} -> BOOLEAN]
=============================================================================
