-------------------------- MODULE FetchStageStream --------------------------
(***************************************************************************)
(* The IF stage implements InstrStream.  Two history variables remember    *)
(* the address the program reaches next, and through which loop; they only *)
(* follow what the stage does, and never restrict it.                      *)
(***************************************************************************)
EXTENDS FetchStage

VARIABLES next, via
streamStageVars == <<stageVars, next, via>>

left == [i \in Loops |-> IF is_hwlp_id /\ hwlp_dec_cnt_id[i]
                         THEN hwlp_counter_q[i] - 1 ELSE hwlp_counter_q[i]]

Stream == INSTANCE InstrStream WITH
  start <- hwlp_start_q, end <- hwlp_end_q,
  id_valid <- instr_valid_id, id_pc <- pc_id, id_instr <- instr_id

History(in) ==
  \/ in.pc_set /\ next' = in.target /\ via' = Stream!NoLoop
  \/ ~if_valid(in) /\ ~in.pc_set /\ UNCHANGED <<next, via>>
  \/ LET jumping == Stream!Jumping(next, Stream!Counted) IN
     /\ if_valid(in)
     /\ next' = IF jumping = {} THEN Stream!After(next)
                ELSE hwlp_start_q[Stream!Innermost(jumping)]
     /\ via' = IF jumping = {} THEN Stream!NoLoop ELSE Stream!Innermost(jumping)

StreamStageInit == StageInit /\ next = [w |-> 0, h |-> 0] /\ via = Stream!NoLoop

StreamStageNext ==
  \E in \in StageInputs :
    /\ ControllerOK(in) /\ MemoryOK(BufferInput(in))
    /\ StageClock(in) /\ History(in)

StreamStageSpec == StreamStageInit /\ [][StreamStageNext]_streamStageVars

\* The stage implements the abstract stream: every instruction that enters ID is
\* the whole instruction at the address the program has reached, loops included.
ImplementsStream == Stream!StreamSpec

\* The pc of the IF stage, which the controller saves as the return address of
\* an interrupt taken between two instructions and lp.setup takes as the loop's
\* start, is that address, also when nothing has been fetched yet.
PcIfExact == offset_fsm_cs = "WAIT" => pc_if = next

\* A fetch fault is raised only when the instruction the program reaches next
\* needs a protected word, however many words were prefetched behind it:
\* riscv_controller.sv, "the current instruction has been blocked by the PMP".
FaultPrecise ==
  [][~is_fetch_failed /\ is_fetch_failed' =>
       \E half \in {next, Stream!NextHalf(next)} :
         half.w \in Protected /\ (next \in Compressed => half = next)]_streamStageVars

\* out_valid_stored_o is "the same as out_valid_o, except that if something is
\* incoming now it is not included" (riscv_fetch_fifo.sv): where the prefetcher
\* relies on it to leave a loop body, the last instruction is stored.
LoopEndStored ==
  hwlp_CS = "HWLP_IN" /\ CS \in {"IDLE", "WAIT_GNT"} =>
    LET quiet == Port([FetchInput([req |-> TRUE, pc_set |-> FALSE, target |-> AnyTarget,
                                   gnt |-> FALSE, rvalid |-> FALSE, err |-> FALSE,
                                   rdata |-> ZeroWord], FALSE) EXCEPT !.ready = FALSE]) IN
    out_valid_stored(quiet) => out_valid(quiet)

=============================================================================
