------------------------- MODULE LoadStoreTransfers -------------------------
(***************************************************************************)
(* What the program sees of its data accesses.  History variables follow   *)
(* an access from EX to the register file and never restrict the unit:     *)
(* the bytes the memory transferred for it, whether it was refused, and,   *)
(* for one cycle each, the access that left EX and the load that was       *)
(* written back.                                                           *)
(***************************************************************************)
EXTENDS LoadStoreUnit

VARIABLES
  parts,     \* one set of <<address, byte of the register>> per grant, in order
  refused,   \* parts transferred when the access was refused, or NotRefused
  left,      \* the access that has just left EX, with its parts
  wb,        \* the load in WB that has left EX for good
  loaded     \* the load just written back, with the value written

transferVars == <<lsuVars, parts, refused, left, wb, loaded>>

NotRefused == -1
Nothing == [access |-> NoAccess, parts |-> <<>>, refused |-> NotRefused]

Lane(k) == <<data_addr - Offset + k, data_wdata[k][2]>>
NowParts(in) == IF in.gnt THEN Append(parts, {Lane(k) : k \in data_be}) ELSE parts
NowRefused == IF data_err_o /\ refused = NotRefused THEN Len(parts) ELSE refused

Leaves(in) == data_req_ex /\ ~data_misaligned_o /\ ex_ready(in)

Track(in) ==
  /\ parts' = IF Leaves(in) THEN <<>> ELSE NowParts(in)
  /\ refused' = IF Leaves(in) THEN NotRefused ELSE NowRefused
  /\ left' = IF Leaves(in)
             THEN [access |-> ex, parts |-> NowParts(in), refused |-> NowRefused]
             ELSE Nothing
  /\ wb' = IF Leaves(in) /\ ~ex.we /\ NowRefused = NotRefused THEN ex
           ELSE IF lsu_ready_wb(in) THEN NoAccess ELSE wb
  /\ loaded' = IF wb # NoAccess /\ lsu_ready_wb(in)
               THEN [access |-> wb, written |-> regfile_we_lsu,
                     value |-> data_rdata_ex_o(in)]
               ELSE [access |-> NoAccess]

TransferInit ==
  /\ Init /\ parts = <<>> /\ refused = NotRefused /\ left = Nothing
  /\ wb = NoAccess /\ loaded = [access |-> NoAccess]

TransferNext == \E in \in Inputs : SurroundingsOK(in) /\ Clock(in) /\ Track(in)

TransferSpec == TransferInit /\ [][TransferNext]_transferVars

-----------------------------------------------------------------------------
(* What an access means, whatever its alignment. *)
ByteAddress(a, i) == (a.addr + i) % NBYTES
BytesOf(a) == {<<ByteAddress(a, i), i>> : i \in 0 .. Size(a.type) - 1}
LoadValue(a) ==
  LET byte(i) == <<"mem", ByteAddress(a, i)>>
      size == Size(a.type)
  IN [i \in Lanes |-> IF i < size THEN byte(i) ELSE Fill(a.sext, byte(size - 1))]

\* "Used to eliminate multiple access during processor stalls, and to align
\* bytes and halfwords": an access that leaves EX had each of its bytes
\* transferred exactly once, to or from the right place in the register.
TransferredOnce ==
  left.access # NoAccess /\ left.refused = NotRefused =>
    /\ UNION {left.parts[n] : n \in DOMAIN left.parts} = BytesOf(left.access)
    /\ \A m, n \in DOMAIN left.parts : m # n => left.parts[m] \cap left.parts[n] = {}

\* A load writes its register with the bytes it addressed, although first and
\* second words, the next access and a stall overlap with its answer.
LoadsExact ==
  loaded.access # NoAccess =>
    loaded.written /\ loaded.value = LoadValue(loaded.access)

\* "The current LW or SW have been blocked by the PMP" (riscv_controller.sv):
\* after the refusal of one of its words an access transfers nothing more.
RefusalFinal ==
  left.refused # NotRefused => Len(left.parts) = left.refused
=============================================================================
