------------------------------ MODULE JtagLink ------------------------------
(***************************************************************************)
(* What the JTAG server of the debug test bench promises a client such as  *)
(* OpenOCD: the characters it sends are obeyed one at a time and in order, *)
(* the pins of the debug transport module take every value asked for, and  *)
(* a read is answered with the TDO that all earlier values have led to.    *)
(* Sockets, calls and clock cycles are not seen.                           *)
(***************************************************************************)
EXTENDS TestAccessPort, Sequences

CONSTANTS
  Commands,     \* the characters a client sends
  MaxSent       \* bound: the number of them

VARIABLES
  client,       \* "away", "connected", "closed", or "reset": it takes no more
  sent,         \* number of characters it has sent
  inputs,       \* those not obeyed yet
  replies,      \* those sent back and not taken yet
  wires,        \* the pins
  tap,          \* what is behind them
  outcome       \* how the simulation ended

linkVars == <<client, sent, inputs, replies, wires, tap, outcome>>
Running == outcome = "running"

Connect ==
  /\ client = "away" /\ client' = "connected"
  /\ UNCHANGED <<sent, inputs, replies>>

Send(c) ==
  /\ client = "connected" /\ sent < MaxSent
  /\ sent' = sent + 1 /\ inputs' = Append(inputs, c)
  /\ UNCHANGED <<client, replies>>

Take ==
  /\ client = "connected" /\ replies # <<>>
  /\ replies' = Tail(replies)
  /\ UNCHANGED <<client, sent, inputs>>

\* A client that goes with replies unread resets the connection.
Close ==
  /\ client = "connected"
  /\ client' = IF replies = <<>> THEN "closed" ELSE "reset"
  /\ UNCHANGED <<sent, inputs, replies>>

ClientStep == Connect \/ Take \/ Close \/ \E c \in Commands : Send(c)
ClientNext == Running /\ ClientStep /\ UNCHANGED <<wires, tap, outcome>>

Drive(pins) == wires' = pins /\ tap' = TapStep(tap, wires, pins)

\* At its first call the server drives every pin high.
Attach ==
  /\ wires = AllLow /\ Drive(AllHigh)
  /\ UNCHANGED <<client, sent, inputs, replies, outcome>>

Obey ==
  /\ inputs # <<>> /\ inputs' = Tail(inputs)
  /\ \/ /\ IsPins(Head(inputs)) /\ Drive(PinsOf(Head(inputs)))
        /\ UNCHANGED <<client, replies, outcome>>
     \/ /\ Head(inputs) = "R"
        /\ IF client \in {"closed", "reset"}
           THEN client' = "reset" /\ UNCHANGED replies
           ELSE replies' = Append(replies, tap.tdo) /\ UNCHANGED client
        /\ UNCHANGED <<wires, tap, outcome>>
     \/ /\ Head(inputs) = "Q" /\ outcome' = "quit"
        /\ UNCHANGED <<client, replies, wires, tap>>
     \/ /\ ~IsPins(Head(inputs)) /\ Head(inputs) \notin {"R", "Q"}
        /\ UNCHANGED <<client, replies, wires, tap, outcome>>
  /\ UNCHANGED sent

\* The simulation ends for reasons of its own, also while it obeys.
End ==
  /\ outcome' \in {"passed", "failed", "aborted"}
  /\ UNCHANGED <<client, sent, inputs, replies, wires, tap>>

LinkInit ==
  /\ client = "away" /\ sent = 0 /\ inputs = <<>> /\ replies = <<>>
  /\ wires = AllLow /\ tap = TapInit /\ outcome = "running"
LinkNext == ClientNext \/ (Running /\ (Attach \/ Obey \/ End))
LinkSpec == LinkInit /\ [][LinkNext]_linkVars
=============================================================================
