---------------------------- MODULE InstrStream ----------------------------
(***************************************************************************)
(* What the IF stage promises to the ID stage, whatever the memory and the *)
(* pipeline do: the instructions that enter ID are those at successive     *)
(* program addresses, whole, from the last jump on.  At the end of a       *)
(* hardware loop with iterations left, the next one is the loop's first,   *)
(* and entering it that way counts one iteration.                          *)
(***************************************************************************)
EXTENDS Integers

CONSTANTS
  NWORDS, Compressed,  \* the program memory, as in FetchFifo
  N_HWLP,              \* number of hardware loops
  MaxCount,            \* bound on the loop counters
  LoopSetup            \* the program's loop set-up instructions

Loops == 0 .. N_HWLP - 1
NoLoop == N_HWLP

VARIABLES
  next,              \* address of the next instruction to enter ID
  via,               \* the loop whose jump led to next, or NoLoop
  start, end, left,  \* the loops, and the iterations each has left
  id_valid, id_pc, id_instr   \* the instruction in ID

progVars == <<next, via, start, end, left>>
streamVars == <<progVars, id_valid, id_pc, id_instr>>

NextHalf(a) == IF a.h = 0 THEN [a EXCEPT !.h = 1] ELSE [w |-> (a.w + 1) % NWORDS, h |-> 0]
InstrAt(a) == IF a \in Compressed THEN <<a>> ELSE <<a, NextHalf(a)>>
After(a) == IF a \in Compressed THEN NextHalf(a) ELSE NextHalf(NextHalf(a))

\* Loops that jump back from their end, given the iterations left.
Jumping(a, count) == {i \in Loops : end[i] = a /\ count[i] >= 2}
Innermost(S) == CHOOSE i \in S : \A j \in S : i <= j

Counted == [i \in Loops |-> IF i = via THEN left[i] - 1 ELSE left[i]]

(* In each cycle it executes in ID, a loop set-up writes its loop, which   *)
(* starts right after it; count is what the other loops have left.         *)
Sets(i, executes) ==
  /\ id_valid /\ executes
  /\ id_pc \in DOMAIN LoopSetup /\ LoopSetup[id_pc].loop = i
Execute(executes, count) ==
  /\ start' = [i \in Loops |-> IF Sets(i, executes) THEN After(id_pc) ELSE start[i]]
  /\ end'   = [i \in Loops |-> IF Sets(i, executes) THEN LoopSetup[id_pc].end ELSE end[i]]
  /\ left'  = [i \in Loops |-> IF Sets(i, executes) THEN LoopSetup[id_pc].count ELSE count[i]]

StreamInit ==
  /\ next \in [w : 0 .. NWORDS - 1, h : {0, 1}]
  /\ via = NoLoop
  /\ start = [i \in Loops |-> [w |-> 0, h |-> 0]]
  /\ end = [i \in Loops |-> [w |-> 0, h |-> 0]]
  /\ left = [i \in Loops |-> 0]
  /\ id_valid = FALSE /\ id_pc = [w |-> 0, h |-> 0] /\ id_instr = <<>>

Deliver ==
  LET jumping == Jumping(next, Counted) IN
  /\ id_valid' = TRUE /\ id_pc' = next /\ id_instr' = InstrAt(next)
  /\ next' = IF jumping = {} THEN After(next) ELSE start[Innermost(jumping)]
  /\ via' = IF jumping = {} THEN NoLoop ELSE Innermost(jumping)
  /\ Execute(TRUE, Counted)

\* Nothing enters; what is in ID stays, leaves or is dropped.
Wait ==
  /\ id_valid' \in {FALSE, id_valid}
  /\ \E executes \in BOOLEAN : Execute(executes, left)
  /\ UNCHANGED <<next, via, id_pc, id_instr>>

Redirect ==
  /\ next' \in [w : 0 .. NWORDS - 1, h : {0, 1}] /\ via' = NoLoop
  /\ id_valid' \in {FALSE, id_valid}
  /\ \E executes \in BOOLEAN : Execute(executes, left)
  /\ UNCHANGED <<id_pc, id_instr>>

StreamNext == Deliver \/ Wait \/ Redirect

StreamSpec == StreamInit /\ [][StreamNext]_streamVars
=============================================================================
