--------------------------- MODULE RemoteBitbang ----------------------------
(***************************************************************************)
(* tb/dm: the JTAG server (remote_bitbang.c, sim_jtag.c) inside the        *)
(* simulator, the module SimJTAG that calls it every few clock cycles, and *)
(* the client at the other end of a TCP connection.                        *)
(*                                                                         *)
(* A call is made of several steps, between which the client acts; the     *)
(* clock stands still until it returns.                                    *)
(***************************************************************************)
EXTENDS TestAccessPort, Sequences

CONSTANTS
  Commands,      \* the characters the client uses
  MaxSent,       \* bound: how many of them it sends
  ReplyBuffer,   \* replies the connection holds
  TICK_DELAY     \* parameter of SimJTAG

ASSUME CommandsAssumption == Commands \subseteq PinCommands \cup {"R", "Q", "r", "B"}
ASSUME JtagBoundsAssumption ==
  MaxSent \in Nat /\ ReplyBuffer \in Nat /\ TICK_DELAY \in Nat

VARIABLES
  client, sent, recv, replies,             \* the client, and the connection
  rst_ni, r_reset, init_done_sticky,       \* SimJTAG
  tickCounterReg, wires,
  call,                                    \* where jtag_tick is; "none" outside it
  init, client_fd, pins, tdo, quit,        \* the server's data
  command,                                 \* the local of rbs_execute_command
  tap,                                     \* behind the pins
  outcome                                  \* of the simulation

clientVars == <<client, sent, recv>>
simJtagVars == <<r_reset, init_done_sticky, tickCounterReg>>
serverVars == <<init, client_fd, pins, tdo, quit, command>>
jtagVars == <<clientVars, replies, rst_ni, simJtagVars, wires, call, serverVars, tap, outcome>>

NoCommand == "none"
Running == outcome = "running"

-----------------------------------------------------------------------------
(* The client and the connection; the server's socket accepts from the      *)
(* start.  A client that goes with replies unread resets the connection.    *)

Connect ==
  /\ client = "away" /\ client' = "connected"
  /\ UNCHANGED <<sent, recv, replies>>
Send(c) ==
  /\ client = "connected" /\ sent < MaxSent
  /\ sent' = sent + 1 /\ recv' = Append(recv, c)
  /\ UNCHANGED <<client, replies>>
Take ==
  /\ client = "connected" /\ replies # <<>> /\ replies' = Tail(replies)
  /\ UNCHANGED clientVars
Close ==
  /\ client = "connected"
  /\ client' = IF replies = <<>> THEN "closed" ELSE "reset"
  /\ UNCHANGED <<sent, recv, replies>>

Client ==
  /\ Running
  /\ Connect \/ Take \/ Close \/ \E c \in Commands : Send(c)
  /\ UNCHANGED <<rst_ni, simJtagVars, wires, call, serverVars, tap, outcome>>

-----------------------------------------------------------------------------
(* jtag_tick, while call is not "none". *)

Abort == outcome' = "aborted" /\ call' = "none"

\* The first call opens the server, which may fail: the port may be in use.
rbs_init ==
  /\ call = "jtag_tick" /\ ~init
  /\ \/ /\ init' = TRUE /\ client_fd' = FALSE /\ pins' = AllHigh /\ quit' = FALSE
        /\ UNCHANGED <<call, outcome, tdo, command>>
     \/ Abort /\ UNCHANGED serverVars
  /\ UNCHANGED <<clientVars, replies, wires, tap>>

rbs_tick ==
  /\ call = "jtag_tick" /\ init
  /\ call' = IF client_fd THEN "read" ELSE "accept"
  /\ tdo' = IF client_fd THEN tap.tdo ELSE tdo
  /\ UNCHANGED <<clientVars, replies, wires, tap, outcome, init, client_fd, pins, quit, command>>

\* Mutant: the client that is accepted is forgotten.
rbs_acceptForgotten ==
  /\ call = "accept" /\ client # "away"
  /\ call' = "return"
  /\ UNCHANGED <<clientVars, replies, wires, tap, outcome, init, client_fd, pins, tdo, quit, command>>
\* The loop is left only with a client.
rbs_accept ==
  /\ call = "accept" /\ client # "away"
  /\ client_fd' = TRUE /\ call' = "return"
  /\ UNCHANGED <<clientVars, replies, wires, tap, outcome, init, pins, tdo, quit, command>>

\* The loop around read() is left with a character, at the end of the stream,
\* or, once the connection is reset, with an error.
\* Mutant: with a character it is left only when there is nothing more to read.
rbs_execute_commands ==
  /\ call = "read" /\ recv # <<>>
  /\ recv' = Tail(recv) /\ command' = Head(recv)
  /\ pins' = IF IsPins(command') THEN PinsOf(command') ELSE pins
  /\ quit' = (quit \/ command' = "Q")
  /\ client_fd' = (client_fd /\ ~quit')
  /\ call' = IF command' = "R" THEN "write" ELSE IF recv' = <<>> THEN "return" ELSE "read"
  /\ UNCHANGED <<client, sent, replies, wires, tap, outcome, init, tdo>>
rbs_execute_command ==
  /\ call = "read" /\ recv # <<>>
  /\ recv' = Tail(recv) /\ command' = Head(recv)
  /\ pins' = IF IsPins(command') THEN PinsOf(command') ELSE pins
  /\ quit' = (quit \/ command' = "Q")
  /\ client_fd' = (client_fd /\ ~quit')
  /\ call' = IF command' = "R" THEN "write" ELSE "return"
  /\ UNCHANGED <<client, sent, replies, wires, tap, outcome, init, tdo>>

\* Mutant: the loop goes on, as in the line that is commented out.
read_eofAgain ==
  /\ call = "read" /\ recv = <<>> /\ client = "closed"
  /\ UNCHANGED <<clientVars, replies, wires, tap, outcome, serverVars, call>>
read_eof ==
  /\ call = "read" /\ recv = <<>> /\ client = "closed"
  /\ call' = "return"
  /\ UNCHANGED <<clientVars, replies, wires, tap, outcome, serverVars>>
read_error ==
  /\ call = "read" /\ client = "reset"
  /\ Abort /\ UNCHANGED <<clientVars, replies, wires, tap, serverVars>>

\* write() to a client that is gone resets the connection, and the next one ends
\* the process; when there is no room it returns -1 as well.
write ==
  /\ call = "write"
  /\ \/ /\ client = "connected" /\ Len(replies) < ReplyBuffer
        /\ replies' = Append(replies, tdo) /\ command' = NoCommand /\ call' = "return"
        /\ UNCHANGED <<client, outcome>>
     \/ /\ client = "closed" /\ client' = "reset"
        /\ command' = NoCommand /\ call' = "return"
        /\ UNCHANGED <<replies, outcome>>
     \/ /\ client = "reset" \/ (client = "connected" /\ Len(replies) >= ReplyBuffer)
        /\ Abort /\ UNCHANGED <<client, replies, command>>
  /\ UNCHANGED <<sent, recv, wires, tap, init, client_fd, pins, tdo, quit>>

\* The pins are copied out; an exit code other than 0 finishes the simulation.
jtag_tick ==
  /\ call = "return" /\ call' = "none"
  /\ wires' = pins /\ tap' = TapStep(tap, wires, pins)
  /\ command' = NoCommand
  /\ outcome' = IF quit THEN "quit" ELSE outcome
  /\ UNCHANGED <<clientVars, replies, init, client_fd, pins, tdo, quit>>

Server ==
  /\ Running
  /\ \/ rbs_init \/ rbs_tick \/ rbs_accept
     \/ read_eof \/ read_error \/ rbs_execute_command \/ write
     \/ jtag_tick
  /\ UNCHANGED <<rst_ni, simJtagVars>>

-----------------------------------------------------------------------------
(* SimJTAG at a rising edge of the clock.  It has an init_done of its own,   *)
(* which the test bench ties to the reset.                                   *)

SimJTAG ==
  /\ r_reset' = ~rst_ni
  /\ IF ~rst_ni \/ r_reset
     THEN /\ tickCounterReg' = TICK_DELAY /\ init_done_sticky' = FALSE
          /\ UNCHANGED call
     ELSE /\ init_done_sticky' = (rst_ni \/ init_done_sticky)
          /\ IF ~init_done_sticky THEN UNCHANGED <<tickCounterReg, call>>
             ELSE /\ tickCounterReg' = IF tickCounterReg = 0 THEN TICK_DELAY
                                       ELSE tickCounterReg - 1
                  /\ call' = IF tickCounterReg = 0 THEN "jtag_tick" ELSE call
  /\ UNCHANGED <<clientVars, replies, wires, serverVars, tap>>

JtagInit ==
  /\ client = "away" /\ sent = 0 /\ recv = <<>> /\ replies = <<>>
  /\ rst_ni = FALSE /\ r_reset = FALSE /\ init_done_sticky = FALSE
  /\ tickCounterReg = 0 /\ wires = AllLow
  /\ call = "none"
  /\ init = FALSE /\ client_fd = FALSE /\ pins = AllLow /\ tdo = 0 /\ quit = FALSE
  /\ command = NoCommand
  /\ tap = TapInit /\ outcome = "running"

-----------------------------------------------------------------------------
\* A character is obeyed when the pins change, or the answer is sent.
Inputs == IF command = NoCommand THEN recv ELSE <<command>> \o recv
Link == INSTANCE JtagLink WITH inputs <- Inputs
=============================================================================
