--------------------------- MODULE TestAccessPort ---------------------------
(***************************************************************************)
(* The JTAG pins, and a stand-in for the debug transport module behind     *)
(* them (dmi_jtag of the riscv-dbg submodule): two bits that tell one      *)
(* sequence of pin values from another.                                    *)
(***************************************************************************)
EXTENDS Naturals

Pins == [tck: 0 .. 1, tms: 0 .. 1, tdi: 0 .. 1, trstn: 0 .. 1]
AllLow == [tck |-> 0, tms |-> 0, tdi |-> 0, trstn |-> 0]
AllHigh == [tck |-> 1, tms |-> 1, tdi |-> 1, trstn |-> 1]

\* '0' to '7': the bits of the digit.  TRSTn is never driven low again.
rbs_set_pins(tck, tms, tdi) == [tck |-> tck, tms |-> tms, tdi |-> tdi, trstn |-> 1]
PinCommands == {"0", "1", "2", "3", "4", "5", "6", "7"}
IsPins(c) == c \in PinCommands
PinsOf(c) ==
  CASE c = "0" -> rbs_set_pins(0, 0, 0) [] c = "1" -> rbs_set_pins(0, 0, 1)
    [] c = "2" -> rbs_set_pins(0, 1, 0) [] c = "3" -> rbs_set_pins(0, 1, 1)
    [] c = "4" -> rbs_set_pins(1, 0, 0) [] c = "5" -> rbs_set_pins(1, 0, 1)
    [] c = "6" -> rbs_set_pins(1, 1, 0) [] c = "7" -> rbs_set_pins(1, 1, 1)

\* The shift register takes tdi at the rising edge of tck unless tms is high,
\* when it is loaded; tdo follows at the falling edge.
Taps == [first: 0 .. 1, last: 0 .. 1, tdo: 0 .. 1]
TapInit == [first |-> 0, last |-> 0, tdo |-> 0]
TapStep(tap, old, new) ==
  IF new.trstn = 0 THEN TapInit
  ELSE IF old.tck = 0 /\ new.tck = 1
  THEN [tap EXCEPT !.first = IF new.tms = 1 THEN 0 ELSE new.tdi,
                   !.last = IF new.tms = 1 THEN 1 ELSE tap.first]
  ELSE IF old.tck = 1 /\ new.tck = 0 THEN [tap EXCEPT !.tdo = tap.last]
  ELSE tap
=============================================================================
