-------------------------- MODULE DebugBenchProofs --------------------------
(***************************************************************************)
(* The debug test bench obeys its client as JtagLink says, for all         *)
(* commands, bounds, buffers and tick delays.                              *)
(***************************************************************************)
EXTENDS DebugBench, SequenceTheorems, TLAPS

Calls == {"none", "jtag_tick", "accept", "read", "write", "return"}

\* Where a call is decides what its data may be.  Before the first call nothing
\* is driven; with a client, the pins are those of the last command obeyed.
Attached == wires.trstn = 1 /\ pins = wires
ServerInv ==
  /\ recv \in Seq(Commands)
  /\ replies \in Seq(0 .. 1)
  /\ call \in Calls
  /\ command \in Commands \cup {NoCommand}
  /\ tap \in Taps /\ wires \in Pins /\ tdo \in 0 .. 1
  /\ init \in BOOLEAN /\ client_fd \in BOOLEAN /\ quit \in BOOLEAN
  /\ Running =>
       /\ command # NoCommand => call \in {"write", "return"}
       /\ call \in {"read", "write"} => client_fd /\ tdo = tap.tdo
       /\ call = "write" => command = "R"
       /\ call = "accept" => ~client_fd /\ init
       /\ quit <=> (call = "return" /\ command = "Q")
       /\ call = "return" => client_fd \/ quit
       /\ ~init => ~client_fd /\ call \in {"none", "jtag_tick"}
       /\ ~client_fd /\ ~quit => wires = AllLow /\ (init => pins = AllHigh)
       /\ client_fd /\ call # "return" => Attached
       /\ call = "return" /\ command = NoCommand =>
            client_fd /\ (Attached \/ (wires = AllLow /\ pins = AllHigh))
       /\ call = "return" /\ command # NoCommand =>
            /\ command # "R" /\ wires.trstn = 1
            /\ pins = IF IsPins(command) THEN PinsOf(command) ELSE wires

-----------------------------------------------------------------------------
(* A command in hand goes before those not read. *)

LEMMA InHand ==
  ASSUME NEW S, NEW c \in S, NEW s \in Seq(S)
  PROVE  <<c>> \o s # <<>> /\ Head(<<c>> \o s) = c /\ Tail(<<c>> \o s) = s
<1>1. <<c>> \o s \in Seq(S) /\ Len(<<c>> \o s) = Len(s) + 1 /\ (<<c>> \o s)[1] = c
  BY ConcatProperties
<1>2. \A i \in 1 .. Len(s) : (<<c>> \o s)[i + 1] = s[i]
  BY ConcatProperties
<1>3. Tail(<<c>> \o s) \in Seq(S) /\ Len(Tail(<<c>> \o s)) = Len(s)
      /\ \A i \in 1 .. Len(s) : Tail(<<c>> \o s)[i] = (<<c>> \o s)[i + 1]
  BY <1>1, HeadTailProperties
<1>4. Tail(<<c>> \o s) = s
  BY <1>2, <1>3, SeqEqual
<1> QED BY <1>1, <1>4

LEMMA Reading ==
  ASSUME NEW S, NEW s \in Seq(S), s # <<>>
  PROVE  <<Head(s)>> \o Tail(s) = s
<1>1. Head(s) \in S /\ Tail(s) \in Seq(S) /\ Len(Tail(s)) = Len(s) - 1
      /\ \A i \in 1 .. Len(Tail(s)) : Tail(s)[i] = s[i + 1]
  BY HeadTailProperties
<1>2. <<Head(s)>> \o Tail(s) \in Seq(S) /\ Len(<<Head(s)>> \o Tail(s)) = Len(s)
  BY <1>1, ConcatProperties
<1>3. \A i \in 1 .. Len(s) : (<<Head(s)>> \o Tail(s))[i] = s[i]
  BY <1>1, ConcatProperties
<1> QED BY <1>2, <1>3, SeqEqual

LEMMA Sending ==
  ASSUME NEW S, NEW c \in S, NEW s \in Seq(S), NEW d \in S
  PROVE  <<c>> \o Append(s, d) = Append(<<c>> \o s, d)
BY AppendIsConcat, ConcatAssociative, ConcatProperties

-----------------------------------------------------------------------------
(* The pins and what is behind them. *)

LEMMA NotACommand == NoCommand \notin Commands
BY CommandsAssumption DEF NoCommand, PinCommands

LEMMA PinsDriven ==
  /\ AllLow \in Pins /\ AllHigh \in Pins /\ AllHigh.trstn = 1 /\ TapInit \in Taps
  /\ \A c \in PinCommands : PinsOf(c) \in Pins /\ PinsOf(c).trstn = 1
BY DEF AllLow, AllHigh, Pins, TapInit, Taps, PinCommands, PinsOf, rbs_set_pins

LEMMA TapStepTyped ==
  ASSUME NEW t \in Taps, NEW old \in Pins, NEW new \in Pins
  PROVE  TapStep(t, old, new) \in Taps
BY DEF Taps, Pins, TapStep, TapInit

\* Pins that keep their values do not clock it.
LEMMA TapStepSame ==
  ASSUME NEW t, NEW w \in Pins, w.trstn = 1
  PROVE  TapStep(t, w, w) = t
BY DEF Pins, TapStep

-----------------------------------------------------------------------------
(* The invariant, one step at a time. *)

LEMMA InvInit ==
  ASSUME BenchInit
  PROVE  ServerInv
<1>1. /\ call = "none" /\ command = NoCommand /\ tdo = 0
      /\ ~init /\ ~client_fd /\ ~quit /\ wires = AllLow /\ tap = TapInit
      /\ recv = <<>> /\ replies = <<>>
      /\ init \in BOOLEAN /\ client_fd \in BOOLEAN /\ quit \in BOOLEAN
  BY DEF BenchInit, JtagInit
<1>2. tap \in Taps /\ wires \in Pins
  BY <1>1, PinsDriven
<1> QED BY <1>1, <1>2 DEF ServerInv, Calls, NoCommand

LEMMA InvClient ==
  ASSUME ServerInv, Client
  PROVE  ServerInv'
<1> USE DEF Client, ServerInv, Running, simJtagVars, serverVars, clientVars, Attached
<1>1. CASE Connect
  BY <1>1 DEF Connect
<1>2. CASE \E c \in Commands : Send(c)
  <2>1. recv' \in Seq(Commands)
    BY <1>2, AppendProperties DEF Send
  <2> QED BY <1>2, <2>1 DEF Send
<1>3. CASE Take
  <2>1. replies' \in Seq(0 .. 1)
    BY <1>3, HeadTailProperties DEF Take
  <2> QED BY <1>3, <2>1 DEF Take
<1>4. CASE Close
  BY <1>4 DEF Close
<1> QED BY <1>1, <1>2, <1>3, <1>4

LEMMA InvServer ==
  ASSUME ServerInv, Server
  PROVE  ServerInv'
<1> USE DEF ServerInv, Running, Calls, Attached, clientVars, serverVars
<1>0. Running
  BY DEF Server
<1>1. CASE rbs_init
  BY <1>0, <1>1, PinsDriven DEF rbs_init, Abort
<1>2. CASE rbs_tick
  BY <1>0, <1>2, NotACommand DEF rbs_tick, Taps
<1>3. CASE rbs_accept
  BY <1>0, <1>3, NotACommand DEF rbs_accept, NoCommand
<1>4. CASE read_eof
  BY <1>0, <1>4 DEF read_eof, NoCommand
<1>5. CASE read_error
  BY <1>0, <1>5 DEF read_error, Abort
<1>6. CASE rbs_execute_command
  <2>1. Head(recv) \in Commands /\ recv' \in Seq(Commands)
    BY <1>0, <1>6, HeadTailProperties DEF rbs_execute_command
  <2> QED BY <1>0, <1>6, <2>1, NotACommand DEF rbs_execute_command, IsPins, PinCommands
<1>7. CASE write
  <2>1. replies' \in Seq(0 .. 1)
    BY <1>0, <1>7, AppendProperties DEF write
  <2> QED BY <1>0, <1>7, <2>1, NotACommand DEF write, Abort, IsPins, PinCommands, NoCommand
<1>8. CASE jtag_tick
  <2>1. pins \in Pins /\ pins.trstn = 1
    BY <1>0, <1>8, PinsDriven DEF jtag_tick, IsPins
  <2>2. tap' \in Taps /\ wires' \in Pins
    BY <1>0, <1>8, <2>1, TapStepTyped DEF jtag_tick
  <2> QED BY <1>0, <1>8, <2>1, <2>2, NotACommand DEF jtag_tick, NoCommand
<1> QED BY <1>1, <1>2, <1>3, <1>4, <1>5, <1>6, <1>7, <1>8 DEF Server

LEMMA InvPosedge ==
  ASSUME ServerInv, Posedge
  PROVE  ServerInv'
BY NotACommand DEF Posedge, SimJTAG, ServerInv, Running, Calls, Attached, clientVars,
  serverVars

LEMMA InvStep ==
  ASSUME ServerInv, [BenchNext]_benchVars
  PROVE  ServerInv'
<1>1. CASE Debugger
  BY <1>1, InvClient DEF Debugger
<1>2. CASE ServerStep
  BY <1>2, InvServer DEF ServerStep
<1>3. CASE Posedge
  BY <1>3, InvPosedge
<1>4. CASE Program \/ SystemBus \/ UNCHANGED benchVars
  BY <1>4 DEF Program, SystemBus, benchVars, jtagVars, clientVars, serverVars, ServerInv,
    Running, Attached
<1>5. CASE ReleaseReset
  BY <1>5 DEF ReleaseReset, clientVars, serverVars, ServerInv, Running, Attached
<1> QED BY <1>1, <1>2, <1>3, <1>4, <1>5 DEF BenchNext

\* What the data of the server is at each point of a call, for every size.
THEOREM ServerCorrect == BenchSpec => []ServerInv
<1>1. BenchInit => ServerInv
  BY InvInit
<1>2. ServerInv /\ [BenchNext]_benchVars => ServerInv'
  BY InvStep
<1> QED BY <1>1, <1>2, PTL DEF BenchSpec

-----------------------------------------------------------------------------
(* Every step of the bench is one of the link, or none. *)

\* The link has the same pins.
LEMMA LinkPins ==
  /\ Link!AllLow = AllLow /\ Link!AllHigh = AllHigh /\ Link!TapInit = TapInit
  /\ \A c : (Link!IsPins(c) <=> IsPins(c)) /\ Link!PinsOf(c) = PinsOf(c)
  /\ \A t, old, new : Link!TapStep(t, old, new) = TapStep(t, old, new)
<1>1. /\ Link!AllLow = AllLow /\ Link!AllHigh = AllHigh /\ Link!TapInit = TapInit
  BY DEF AllLow, Link!AllLow, AllHigh, Link!AllHigh, TapInit, Link!TapInit
<1>2. ASSUME NEW c
      PROVE  (Link!IsPins(c) <=> IsPins(c)) /\ Link!PinsOf(c) = PinsOf(c)
  BY DEF IsPins, Link!IsPins, PinCommands, Link!PinCommands, PinsOf, Link!PinsOf,
    rbs_set_pins, Link!rbs_set_pins
<1>3. ASSUME NEW t, NEW old, NEW new
      PROVE  Link!TapStep(t, old, new) = TapStep(t, old, new)
  BY <1>1 DEF TapStep, Link!TapStep
<1> QED BY <1>1, <1>2, <1>3

LEMMA LinkInit ==
  ASSUME BenchInit
  PROVE  Link!LinkInit
BY LinkPins DEF BenchInit, JtagInit, Link!LinkInit, Inputs

LEMMA LinkClient ==
  ASSUME ServerInv, Client
  PROVE  Link!ClientNext
<1>1. Link!Running /\ UNCHANGED <<wires, tap, outcome>> /\ command' = command
  BY DEF Client, Running, Link!Running, serverVars
<1>2. CASE Connect
  BY <1>1, <1>2 DEF Connect, Inputs, Link!ClientNext, Link!ClientStep, Link!Connect
<1>3. CASE Take
  BY <1>1, <1>3 DEF Take, clientVars, Inputs, Link!ClientNext, Link!ClientStep, Link!Take
<1>4. CASE Close
  BY <1>1, <1>4 DEF Close, Inputs, Link!ClientNext, Link!ClientStep, Link!Close
<1>5. ASSUME NEW c \in Commands, Send(c)
      PROVE  Link!ClientNext
  <2>1. recv \in Seq(Commands) /\ recv' = Append(recv, c)
    BY <1>5 DEF ServerInv, Send
  <2>2. CASE command = NoCommand
    BY <1>1, <1>5, <2>1, <2>2 DEF Send, Inputs, Link!ClientNext, Link!ClientStep, Link!Send
  <2>3. CASE command # NoCommand
    <3>1. command \in Commands
      BY <2>3 DEF ServerInv
    <3>2. <<command>> \o Append(recv, c) = Append(<<command>> \o recv, c)
      BY <2>1, <3>1, Sending
    <3> QED
      BY <1>1, <1>5, <2>1, <2>3, <3>2
         DEF Send, Inputs, Link!ClientNext, Link!ClientStep, Link!Send
  <2> QED BY <2>2, <2>3
<1> QED BY <1>2, <1>3, <1>4, <1>5 DEF Client

\* A command in hand is the first of the inputs, and obeying it takes it away.
LEMMA InHandFirst ==
  ASSUME ServerInv, command # NoCommand, command' = NoCommand, recv' = recv
  PROVE  /\ Inputs # <<>> /\ Head(Inputs) = command /\ Inputs' = Tail(Inputs)
BY InHand DEF ServerInv, Inputs

LEMMA LinkTick ==
  ASSUME ServerInv, Running, jtag_tick
  PROVE  [Link!LinkNext]_(Link!linkVars)
<1>1. /\ wires' = pins /\ tap' = TapStep(tap, wires, pins)
      /\ outcome' = IF quit THEN "quit" ELSE outcome
      /\ UNCHANGED <<client, sent, recv, replies>> /\ command' = NoCommand
      /\ call = "return" /\ Link!Running
  BY DEF jtag_tick, clientVars, Running, Link!Running
<1>2. CASE command = NoCommand
  <2>1. ~quit /\ Inputs' = Inputs /\ outcome' = outcome
    BY <1>1, <1>2 DEF ServerInv, Inputs, NoCommand
  <2>2. CASE Attached
    BY <1>1, <2>1, <2>2, TapStepSame DEF ServerInv, Attached, Link!linkVars
  <2>3. CASE wires = AllLow /\ pins = AllHigh
    BY <1>1, <2>1, <2>3, LinkPins DEF Link!LinkNext, Link!Attach, Link!Drive
  <2> QED BY <1>1, <1>2, <2>2, <2>3 DEF ServerInv
<1>3. CASE command # NoCommand
  <2>1. Inputs # <<>> /\ Head(Inputs) = command /\ Inputs' = Tail(Inputs)
    BY <1>1, <1>3, InHandFirst
  <2>2. command # "R" /\ wires.trstn = 1 /\ (quit <=> command = "Q")
        /\ pins = IF IsPins(command) THEN PinsOf(command) ELSE wires
    BY <1>1, <1>3 DEF ServerInv
  <2>3. CASE IsPins(command)
    <3>1. outcome' = outcome
      BY <1>1, <2>2, <2>3 DEF IsPins, PinCommands
    <3> QED BY <1>1, <2>1, <2>2, <2>3, <3>1, LinkPins DEF Link!LinkNext, Link!Obey, Link!Drive
  <2>4. CASE ~IsPins(command)
    <3>1. wires' = wires /\ tap' = tap
      BY <1>1, <2>2, <2>4, TapStepSame DEF ServerInv
    <3> QED BY <1>1, <2>1, <2>2, <2>4, <3>1, LinkPins DEF Link!LinkNext, Link!Obey
  <2> QED BY <2>3, <2>4
<1> QED BY <1>2, <1>3

LEMMA LinkWrite ==
  ASSUME ServerInv, Running, write
  PROVE  [Link!LinkNext]_(Link!linkVars)
<1>1. command = "R" /\ command # NoCommand /\ tdo = tap.tdo /\ Link!Running
  BY DEF ServerInv, write, NoCommand, Running, Link!Running
<1>2. UNCHANGED <<sent, recv, wires, tap>>
  BY DEF write
<1>3. CASE outcome' = "aborted" /\ UNCHANGED <<client, replies, command>>
  BY <1>1, <1>2, <1>3 DEF Inputs, Link!LinkNext, Link!End
<1>4. CASE /\ command' = NoCommand /\ outcome' = outcome
           /\ \/ client = "connected" /\ replies' = Append(replies, tdo) /\ client' = client
              \/ client = "closed" /\ client' = "reset" /\ replies' = replies
  <2>1. Inputs # <<>> /\ Head(Inputs) = "R" /\ Inputs' = Tail(Inputs)
    BY <1>1, <1>2, <1>4, InHandFirst
  <2> QED BY <1>1, <1>2, <1>4, <2>1, LinkPins DEF Link!LinkNext, Link!Obey
<1> QED BY <1>3, <1>4 DEF write, Abort

LEMMA LinkServer ==
  ASSUME ServerInv, Server
  PROVE  [Link!LinkNext]_(Link!linkVars)
<1>1. Running /\ Link!Running
  BY DEF Server, Running, Link!Running
<1>2. CASE jtag_tick
  BY <1>1, <1>2, LinkTick
<1>3. CASE write
  BY <1>1, <1>3, LinkWrite
<1>4. CASE rbs_execute_command
  <2>1. /\ command = NoCommand /\ recv \in Seq(Commands) /\ recv # <<>>
        /\ recv' = Tail(recv) /\ command' = Head(recv)
    BY <1>1, <1>4 DEF rbs_execute_command, ServerInv
  <2>2. command' # NoCommand
    BY <2>1, HeadTailProperties, NotACommand
  <2>3. <<command'>> \o recv' = recv
    BY <2>1, Reading
  <2>4. Inputs' = Inputs
    BY <2>1, <2>2, <2>3 DEF Inputs
  <2> QED BY <1>4, <2>4 DEF rbs_execute_command, Link!linkVars
<1>5. CASE rbs_init
  BY <1>1, <1>5
     DEF rbs_init, Abort, clientVars, serverVars, Inputs, Link!linkVars, Link!LinkNext, Link!End
<1>6. CASE rbs_tick \/ rbs_accept \/ read_eof
  BY <1>6 DEF rbs_tick, rbs_accept, read_eof, clientVars, serverVars, Inputs, Link!linkVars
<1>7. CASE read_error
  BY <1>1, <1>7
     DEF read_error, Abort, clientVars, serverVars, Inputs, Link!LinkNext, Link!End
<1> QED BY <1>2, <1>3, <1>4, <1>5, <1>6, <1>7 DEF Server

\* At an edge of the clock only a result can end the simulation.
LEMMA LinkPosedge ==
  ASSUME Posedge
  PROVE  [Link!LinkNext]_(Link!linkVars)
<1>1. UNCHANGED <<clientVars, replies, wires, serverVars, tap>> /\ Link!Running
  BY DEF Posedge, SimJTAG, Running, Link!Running
<1>2. outcome' = outcome \/ outcome' \in {"passed", "failed"}
  BY DEF Posedge, tb_top, busVars
<1> QED
  BY <1>1, <1>2 DEF clientVars, serverVars, Inputs, Link!linkVars, Link!LinkNext, Link!End

LEMMA LinkStep ==
  ASSUME ServerInv, [BenchNext]_benchVars
  PROVE  [Link!LinkNext]_(Link!linkVars)
<1>1. CASE Debugger
  BY <1>1, LinkClient DEF Debugger, Link!LinkNext
<1>2. CASE ServerStep
  BY <1>2, LinkServer DEF ServerStep
<1>3. CASE Posedge
  BY <1>3, LinkPosedge
<1>4. CASE Program \/ SystemBus \/ UNCHANGED benchVars
  BY <1>4 DEF Program, SystemBus, benchVars, jtagVars, clientVars, serverVars, Inputs,
    Link!linkVars
<1>5. CASE ReleaseReset
  BY <1>5 DEF ReleaseReset, clientVars, serverVars, Inputs, Link!linkVars
<1> QED BY <1>1, <1>2, <1>3, <1>4, <1>5 DEF BenchNext

\* Whatever the client sends and whenever it goes, the pins take the values it has
\* asked for, in order, and every answer is the TDO they have led to
\* (remote_bitbang.c, sim_jtag.c).
THEOREM JtagObeyed == BenchSpec => JtagInOrder
<1>1. BenchInit => Link!LinkInit
  BY LinkInit
<1>2. ServerInv /\ [BenchNext]_benchVars => [Link!LinkNext]_(Link!linkVars)
  BY LinkStep
<1> QED BY <1>1, <1>2, ServerCorrect, PTL DEF BenchSpec, JtagInOrder, Link!LinkSpec
-----------------------------------------------------------------------------
(* The report.  What the program has printed, with what it still has to     *)
(* store, is what it has asked for; after that only its status is left.     *)

ToPrint == [addr : {"STDOUT_BASE"}, data : 0 .. 255]
Data(p) == [i \in DOMAIN p |-> p[i].data]
ExitStore(s) == Store("CNTRL_BASE", IF s = 0 THEN PassValue ELSE s)

ReportInv ==
  /\ text \in Seq(0 .. 255) /\ stdout \in [{"CORE", "SB"} -> Seq(0 .. 255)]
  /\ sb \in SbStores \cup {NoStore}
  /\ status = NoStatus => pending \in Seq(ToPrint) /\ stdout["CORE"] \o Data(pending) = text
  /\ status # NoStatus =>
       /\ status \in ExitStatuses /\ stdout["CORE"] = text
       /\ pending = <<>> \/ pending = <<ExitStore(status)>>
  /\ outcome \in {"passed", "failed"} =>
       status # NoStatus /\ (outcome = "passed" <=> status = 0)

LEMMA FunctionIsSeq ==
  ASSUME NEW S, NEW n \in Nat, NEW f \in [1 .. n -> S]
  PROVE  f \in Seq(S) /\ Len(f) = n
OBVIOUS

LEMMA StoresOfText ==
  ASSUME NEW s \in Seq(0 .. 255)
  PROVE  Chars(s) \in Seq(ToPrint) /\ Data(Chars(s)) = s
<1>1. Len(s) \in Nat /\ s \in [1 .. Len(s) -> 0 .. 255] /\ DOMAIN s = 1 .. Len(s)
  BY LenProperties
<1>2. \A i \in 1 .. Len(s) : Store("STDOUT_BASE", s[i]) \in ToPrint
  BY <1>1 DEF Store, ToPrint
<1>3. Chars(s) = [i \in 1 .. Len(s) |-> Store("STDOUT_BASE", s[i])]
  BY <1>1 DEF Chars
<1>4. Chars(s) \in Seq(ToPrint)
  BY <1>1, <1>2, <1>3
<1>5. DOMAIN Chars(s) = 1 .. Len(s) /\ \A i \in 1 .. Len(s) : Chars(s)[i].data = s[i]
  BY <1>3 DEF Store
<1>6. Data(Chars(s)) = s
  BY <1>1, <1>5 DEF Data
<1> QED BY <1>4, <1>6

LEMMA StoredCharacter ==
  ASSUME NEW p \in Seq(ToPrint), p # <<>>
  PROVE  /\ Head(p) \in ToPrint /\ Tail(p) \in Seq(ToPrint)
         /\ Data(p) \in Seq(0 .. 255) /\ Data(p) # <<>>
         /\ Head(Data(p)) = Head(p).data /\ Tail(Data(p)) = Data(Tail(p))
<1>1. /\ Len(p) \in Nat /\ Len(p) >= 1 /\ DOMAIN p = 1 .. Len(p)
      /\ \A i \in 1 .. Len(p) : p[i] \in ToPrint
  BY LenProperties, EmptySeq
<1>2. /\ Head(p) = p[1] /\ Head(p) \in ToPrint /\ Tail(p) \in Seq(ToPrint)
      /\ Len(Tail(p)) = Len(p) - 1
      /\ \A i \in 1 .. Len(Tail(p)) : Tail(p)[i] = p[i + 1]
  BY <1>1, HeadTailProperties
<1>3. /\ Data(p) = [i \in 1 .. Len(p) |-> p[i].data]
      /\ \A i \in 1 .. Len(p) : p[i].data \in 0 .. 255
  BY <1>1 DEF Data, ToPrint
<1>4. Data(p) \in Seq(0 .. 255) /\ Len(Data(p)) = Len(p)
  BY <1>1, <1>3
<1>5. Data(p) # <<>> /\ Head(Data(p)) = Head(p).data
  BY <1>1, <1>2, <1>3, <1>4
<1>6. /\ Tail(Data(p)) \in Seq(0 .. 255) /\ Len(Tail(Data(p))) = Len(p) - 1
      /\ \A i \in 1 .. Len(p) - 1 : Tail(Data(p))[i] = p[i + 1].data
  BY <1>1, <1>3, <1>4, <1>5, HeadTailProperties
<1>7. /\ Data(Tail(p)) = [i \in 1 .. Len(p) - 1 |-> Tail(p)[i].data]
      /\ \A i \in 1 .. Len(p) - 1 : Data(Tail(p))[i] = p[i + 1].data
  <2>1. DOMAIN Tail(p) = 1 .. Len(p) - 1
    BY <1>2, LenProperties
  <2> QED BY <1>2, <2>1 DEF Data
<1>8. Data(Tail(p)) \in Seq(0 .. 255) /\ Len(Data(Tail(p))) = Len(p) - 1
  <2>1. Tail(p) \in [1 .. Len(p) - 1 -> ToPrint]
    BY <1>2, LenProperties
  <2>2. Data(Tail(p)) \in [1 .. Len(p) - 1 -> 0 .. 255]
    BY <1>7, <2>1 DEF ToPrint
  <2>3. Len(p) - 1 \in Nat
    BY <1>1
  <2>4. \A n \in Nat : \A f \in [1 .. n -> 0 .. 255] : f \in Seq(0 .. 255) /\ Len(f) = n
    BY FunctionIsSeq
  <2> QED BY <2>2, <2>3, <2>4, Zenon
<1>9. Tail(Data(p)) = Data(Tail(p))
  BY <1>6, <1>7, <1>8, SeqEqual
<1> QED BY <1>2, <1>4, <1>5, <1>9

LEMMA MoveHead ==
  ASSUME NEW S, NEW s \in Seq(S), NEW t \in Seq(S), t # <<>>
  PROVE  Append(s, Head(t)) \in Seq(S) /\ Append(s, Head(t)) \o Tail(t) = s \o t
<1>1. Head(t) \in S /\ Tail(t) \in Seq(S)
  BY HeadTailProperties
<1>2. Append(s, Head(t)) = s \o <<Head(t)>> /\ Append(s, Head(t)) \in Seq(S)
  BY <1>1, AppendIsConcat, AppendProperties
<1>3. <<Head(t)>> \in Seq(S)
  BY <1>1
<1>4. (s \o <<Head(t)>>) \o Tail(t) = s \o (<<Head(t)>> \o Tail(t))
  BY <1>1, <1>3, ConcatAssociative
<1> QED BY <1>2, <1>4, Reading

LEMMA ReportCall ==
  ASSUME ReportInv, Program
  PROVE  ReportInv'
<1>1. /\ pending = <<>> /\ status = NoStatus /\ outcome = "running"
      /\ UNCHANGED <<outcome, sb, stdout>>
  BY DEF Program, Call, _write, unimplemented_syscall, _exit, Idle, Running, jtagVars
<1>2. stdout["CORE"] \in Seq(0 .. 255) /\ stdout["CORE"] = text
  <2>1. stdout["CORE"] \in Seq(0 .. 255)
    BY DEF ReportInv
  <2>2. Data(<<>>) = <<>>
    BY DEF Data
  <2> QED BY <1>1, <2>1, <2>2, ConcatEmptySeq DEF ReportInv
<1>3. ASSUME NEW s \in Seq(0 .. 255), text' = text \o s, pending' = Chars(s), status' = status
      PROVE  ReportInv'
  <2>1. pending' \in Seq(ToPrint) /\ Data(pending') = s
    BY <1>3, StoresOfText
  <2>2. text' \in Seq(0 .. 255)
    BY <1>2, <1>3, ConcatProperties
  <2> QED BY <1>1, <1>2, <1>3, <2>1, <2>2 DEF ReportInv
<1>4. CASE \E s \in Texts : _write(s)
  BY <1>3, <1>4, TextsAssumption DEF _write
<1>5. CASE unimplemented_syscall
  BY <1>3, <1>5, TextsAssumption DEF unimplemented_syscall
<1>6. ASSUME NEW s \in ExitStatuses, _exit(s)
      PROVE  ReportInv'
  <2>1. s # NoStatus
    BY StatusAssumption DEF NoStatus
  <2> QED BY <1>1, <1>2, <1>6, <2>1 DEF ReportInv, _exit, ExitStore
<1> QED BY <1>4, <1>5, <1>6 DEF Program, Call

\* An edge stores a character of the system bus, or one of the program, or the
\* program's status.
LEMMA ReportEdge ==
  ASSUME ReportInv, Running, mm_ram, tb_top, UNCHANGED programVars
  PROVE  ReportInv'
<1>1. UNCHANGED <<text, status>> /\ outcome = "running"
  BY DEF programVars, Running
<1>2. stdout \in [{"CORE", "SB"} -> Seq(0 .. 255)] /\ stdout["CORE"] \in Seq(0 .. 255)
  BY DEF ReportInv
<1>3. CASE sb # NoStore
  <2>1. /\ Shown("SB", sb) /\ sb' = NoStore /\ pending' = pending /\ outcome' = outcome
    BY <1>3 DEF mm_ram, tb_top, Granted
  <2>2. sb.data \in 0 .. 255
    BY <1>3 DEF ReportInv, SbStores, Store
  <2>3. Append(stdout["SB"], sb.data) \in Seq(0 .. 255)
    BY <1>2, <2>2, AppendProperties
  <2>4. stdout' \in [{"CORE", "SB"} -> Seq(0 .. 255)] /\ stdout'["CORE"] = stdout["CORE"]
    BY <1>2, <2>1, <2>3 DEF Shown
  <2> QED BY <1>1, <2>1, <2>4 DEF ReportInv
<1>4. CASE sb = NoStore /\ pending = <<>>
  BY <1>1, <1>4 DEF ReportInv, mm_ram, tb_top, Granted, data_req
<1>5. CASE sb = NoStore /\ pending # <<>> /\ status = NoStatus
  <2>1. /\ Head(pending) \in ToPrint /\ Tail(pending) \in Seq(ToPrint)
        /\ Data(pending) \in Seq(0 .. 255) /\ Data(pending) # <<>>
        /\ Head(Data(pending)) = Head(pending).data
        /\ Tail(Data(pending)) = Data(Tail(pending))
    BY <1>5, StoredCharacter DEF ReportInv
  <2>2. /\ Shown("CORE", Head(pending)) /\ pending' = Tail(pending) /\ sb' = sb
        /\ outcome' = outcome
    BY <1>5, <2>1 DEF mm_ram, tb_top, Granted, data_req, ToPrint
  <2>3. Append(stdout["CORE"], Head(pending).data) \in Seq(0 .. 255)
    BY <1>2, <2>1, AppendProperties DEF ToPrint
  <2>4. /\ stdout' \in [{"CORE", "SB"} -> Seq(0 .. 255)]
        /\ stdout'["CORE"] = Append(stdout["CORE"], Head(pending).data)
    BY <1>2, <2>1, <2>2, <2>3 DEF Shown, ToPrint
  <2>5. stdout'["CORE"] \o Data(pending') = stdout["CORE"] \o Data(pending)
    <3>1. \A s, t \in Seq(0 .. 255) :
            t # <<>> => Append(s, Head(t)) \o Tail(t) = s \o t
      BY MoveHead
    <3>2. Append(stdout["CORE"], Head(Data(pending))) \o Tail(Data(pending))
            = stdout["CORE"] \o Data(pending)
      BY <1>2, <2>1, <3>1
    <3>3. Data(pending') = Tail(Data(pending))
      BY <2>1, <2>2
    <3> QED BY <2>1, <2>4, <3>2, <3>3
  <2> QED BY <1>1, <1>5, <2>1, <2>2, <2>4, <2>5 DEF ReportInv
<1>6. CASE sb = NoStore /\ pending # <<>> /\ status # NoStatus
  <2>1. /\ status \in ExitStatuses /\ pending = <<ExitStore(status)>>
        /\ Head(pending) = ExitStore(status) /\ Tail(pending) = <<>>
    <3>1. status \in ExitStatuses /\ pending = <<ExitStore(status)>>
      BY <1>6 DEF ReportInv
    <3>2. \A x : Head(<<x>>) = x /\ Tail(<<x>>) = <<>>
      OBVIOUS
    <3> QED BY <3>1, <3>2
  <2>2. /\ Shown("CORE", ExitStore(status)) /\ pending' = <<>> /\ sb' = sb
    BY <1>6, <2>1 DEF mm_ram, Granted, data_req
  <2>3. stdout' = stdout
    BY <2>2 DEF Shown, ExitStore, Store
  <2>4. outcome' = IF status = 0 THEN "passed" ELSE "failed"
    BY <1>6, <2>1, StatusAssumption DEF tb_top, Granted, data_req, ExitStore, Store
  <2> QED BY <1>1, <1>6, <2>1, <2>2, <2>3, <2>4 DEF ReportInv
<1> QED BY <1>3, <1>4, <1>5, <1>6

LEMMA ReportStep ==
  ASSUME ReportInv, [BenchNext]_benchVars
  PROVE  ReportInv'
<1>1. CASE Program
  BY <1>1, ReportCall
<1>2. CASE SystemBus
  BY <1>2 DEF SystemBus, ReportInv, programVars, jtagVars
<1>3. CASE Posedge
  <2>1. CASE rst_ni
    BY <1>3, <2>1, ReportEdge DEF Posedge
  <2>2. CASE ~rst_ni
    BY <1>3, <2>2 DEF Posedge, ReportInv, programVars, busVars
  <2> QED BY <2>1, <2>2
<1>4. CASE Debugger \/ ServerStep
  <2>1. outcome' = outcome \/ outcome' \in {"aborted", "quit"}
    <3>1. CASE Debugger
      BY <3>1 DEF Debugger, Client
    <3>2. CASE ServerStep
      BY <3>2 DEF ServerStep, Server, rbs_init, rbs_tick, rbs_accept, read_eof, read_error,
        rbs_execute_command, write, jtag_tick, Abort
    <3> QED BY <1>4, <3>1, <3>2
  <2>2. UNCHANGED <<text, status, pending, sb, stdout>> /\ outcome \notin {"passed", "failed"}
    BY <1>4 DEF Debugger, ServerStep, Client, Server, Running, programVars, busVars
  <2> QED BY <2>1, <2>2 DEF ReportInv
<1>5. CASE ReleaseReset \/ UNCHANGED benchVars
  <2>1. UNCHANGED <<text, status, pending, sb, stdout, outcome>>
    BY <1>5 DEF ReleaseReset, benchVars, jtagVars, programVars, busVars
  <2> QED BY <2>1 DEF ReportInv
<1> QED BY <1>1, <1>2, <1>3, <1>4, <1>5 DEF BenchNext

LEMMA PrintedSoFar ==
  ASSUME ReportInv
  PROVE  ReportExact
<1>1. stdout["CORE"] \in Seq(0 .. 255) /\ text \in Seq(0 .. 255)
  BY DEF ReportInv
<1>2. CASE status = NoStatus
  <2>1. PICK rest \in Seq(0 .. 255) : stdout["CORE"] \o rest = text
    <3>1. Data(pending) \in Seq(0 .. 255)
      <4>1. CASE pending = <<>>
        BY <4>1 DEF Data
      <4>2. CASE pending # <<>>
        BY <1>2, <4>2, StoredCharacter DEF ReportInv
      <4> QED BY <4>1, <4>2
    <3> QED BY <1>2, <3>1 DEF ReportInv
  <2>2. Len(stdout["CORE"]) \in Nat /\ Len(rest) \in Nat
        /\ Len(text) = Len(stdout["CORE"]) + Len(rest)
    BY <1>1, <2>1, ConcatProperties, LenProperties
  <2>3. SubSeq(text, 1, Len(stdout["CORE"])) = SubSeq(stdout["CORE"], 1, Len(stdout["CORE"]))
    <3>1. CASE Len(stdout["CORE"]) = 0
      BY <3>1, SubSeqEmpty
    <3>2. CASE Len(stdout["CORE"]) # 0
      <4>1. 1 \in 1 .. Len(stdout["CORE"]) /\ Len(stdout["CORE"]) \in 1 .. Len(stdout["CORE"])
        BY <2>2, <3>2
      <4> QED BY <1>1, <2>1, <4>1, SubSeqOfConcat1
    <3> QED BY <3>1, <3>2
  <2> QED BY <1>2, <2>2, <2>3 DEF ReportInv, ReportExact, Printed, IsPrefix
<1>3. CASE status # NoStatus
  BY <1>1, <1>3, LenProperties DEF ReportInv, ReportExact, Printed, IsPrefix
<1> QED BY <1>2, <1>3

\* mm_ram.sv and tb_top.sv of tb/dm, prog/syscalls.c: the program's characters
\* come out once and in order, all of them before the verdict, and the verdict is
\* its status, whatever the debugger and the system bus do meanwhile.
THEOREM VerdictOfProgram == BenchSpec => []ReportExact
<1>1. BenchInit => ReportInv
  <2> SUFFICES ASSUME BenchInit PROVE ReportInv
    OBVIOUS
  <2>1. stdout = [m \in {"CORE", "SB"} |-> <<>>] /\ text = <<>> /\ pending = <<>>
        /\ status = NoStatus /\ sb = NoStore /\ outcome = "running"
    BY DEF BenchInit, JtagInit
  <2>2. <<>> \in Seq(0 .. 255) /\ <<>> \in Seq(ToPrint) /\ Data(<<>>) = <<>>
    BY DEF Data
  <2>3. stdout["CORE"] \o Data(pending) = text
    BY <2>1, <2>2, ConcatEmptySeq
  <2> QED BY <2>1, <2>2, <2>3 DEF ReportInv
<1>2. ReportInv /\ [BenchNext]_benchVars => ReportInv'
  BY ReportStep
<1>3. ReportInv => ReportExact
  BY PrintedSoFar
<1> QED BY <1>1, <1>2, <1>3, PTL DEF BenchSpec
=============================================================================
