---------------------------- MODULE DebugBench ------------------------------
(***************************************************************************)
(* tb/dm: a program on the core and a debugger on the JTAG pins share one  *)
(* simulation.  The program (prog/test.c over prog/syscalls.c) prints and  *)
(* exits by stores; mm_ram serves them and those of the debug module's     *)
(* system bus, which it prefers; tb_top ends the simulation when a result  *)
(* is stored, and SimJTAG when the client says so.                         *)
(*                                                                         *)
(* Of the program the stores count, and what it has asked for; the debug   *)
(* module (a submodule) is a master that may store at any time, whatever   *)
(* has come over JTAG.                                                     *)
(***************************************************************************)
EXTENDS RemoteBitbang, SequencesExt

CONSTANTS
  Texts,          \* what one _write may print
  StopText,       \* "Unimplemented system call called!", and the ebreak handler's line
  MaxWrites,      \* bound: number of _write calls
  ExitStatuses,   \* what main may return
  MaxSb           \* bound: number of system bus stores

PassValue == 61453   \* 32'hF00D
\* The one status that reports success although it is not 0.
ASSUME StatusAssumption == ExitStatuses \subseteq Nat \ {PassValue}
ASSUME TextsAssumption == Texts \cup {StopText} \subseteq Seq(0 .. 255)
ASSUME BenchBoundsAssumption == MaxWrites \in Nat /\ MaxSb \in Nat

VARIABLES
  text,         \* the characters the program has asked _write to print
  writes,       \* calls of _write so far
  status,       \* of exit(), NoStatus before
  stopped,      \* it has called what syscalls.c does not have
  pending,      \* stores of the call it is in, the first of them at the data port
  sb, sb_count, \* store of the system bus, and how many there were
  stdout        \* characters printed, by the master that stored them

programVars == <<text, writes, status, stopped>>
busVars == <<pending, sb, sb_count, stdout>>
benchVars == <<jtagVars, programVars, busVars>>

NoStatus == -1
Store(a, v) == [addr |-> a, data |-> v]
NoStore == Store("none", 0)
SbStores == {Store("STDOUT_BASE", 115), Store("CNTRL_BASE", 1)}

Chars(s) == [i \in DOMAIN s |-> Store("STDOUT_BASE", s[i])]

-----------------------------------------------------------------------------
(* The program, one system call at a time. *)

Idle == rst_ni /\ pending = <<>> /\ status = NoStatus /\ ~stopped

_write(s) ==
  /\ Idle /\ writes < MaxWrites
  /\ writes' = writes + 1 /\ text' = text \o s /\ pending' = Chars(s)
  /\ UNCHANGED <<status, stopped>>

\* Not a system call of syscalls.c: it says so, and no result is ever stored.
unimplemented_syscall ==
  /\ Idle
  /\ stopped' = TRUE /\ text' = text \o StopText /\ pending' = Chars(StopText)
  /\ UNCHANGED <<writes, status>>

_exit(s) ==
  /\ Idle
  /\ status' = s
  /\ pending' = <<Store("CNTRL_BASE", IF s = 0 THEN PassValue ELSE s)>>
  /\ UNCHANGED <<text, writes, stopped>>

Call ==
  \/ \E s \in Texts : _write(s)
  \/ unimplemented_syscall
  \/ \E s \in ExitStatuses : _exit(s)

\* Any number of other instructions are between two calls.
Program ==
  /\ Running /\ Call
  /\ UNCHANGED <<jtagVars, sb, sb_count, stdout>>

SystemBus ==
  /\ Running /\ rst_ni
  /\ sb = NoStore /\ sb_count < MaxSb /\ sb_count' = sb_count + 1
  /\ \E s \in SbStores : sb' = s
  /\ UNCHANGED <<jtagVars, programVars, pending, stdout>>

-----------------------------------------------------------------------------
(* A rising edge of the clock. *)

Shown(master, s) ==
  stdout' = IF s.addr = "STDOUT_BASE"
            THEN [stdout EXCEPT ![master] = Append(@, s.data)] ELSE stdout
data_req == pending # <<>>
Granted == sb = NoStore /\ data_req

\* Mutant: the data port is granted although the system bus has the memory.
mm_ramBoth ==
  /\ IF sb # NoStore THEN Shown("SB", sb) /\ sb' = NoStore
     ELSE IF data_req THEN Shown("CORE", Head(pending)) /\ UNCHANGED sb
     ELSE UNCHANGED <<sb, stdout>>
  /\ pending' = IF data_req THEN Tail(pending) ELSE pending
  /\ UNCHANGED sb_count
mm_ram ==
  /\ IF sb # NoStore THEN Shown("SB", sb) /\ sb' = NoStore
     ELSE IF data_req THEN Shown("CORE", Head(pending)) /\ UNCHANGED sb
     ELSE UNCHANGED <<sb, stdout>>
  /\ pending' = IF Granted THEN Tail(pending) ELSE pending
  /\ UNCHANGED sb_count

\* tests_passed_o and tests_failed_o, for stores of the core alone.
tb_top ==
  outcome' = IF ~(Granted /\ Head(pending).addr = "CNTRL_BASE") THEN outcome
             ELSE IF Head(pending).data = PassValue THEN "passed" ELSE "failed"

Posedge ==
  /\ Running /\ call = "none"
  /\ SimJTAG /\ UNCHANGED rst_ni
  /\ IF rst_ni THEN mm_ram /\ tb_top ELSE UNCHANGED <<busVars, outcome>>
  /\ UNCHANGED programVars

\* A few cycles after the start.
ReleaseReset ==
  /\ Running /\ call = "none" /\ ~rst_ni /\ r_reset /\ rst_ni' = TRUE
  /\ UNCHANGED <<clientVars, replies, simJtagVars, wires, call, serverVars, tap, outcome>>
  /\ UNCHANGED <<programVars, busVars>>

BenchInit ==
  /\ JtagInit
  /\ text = <<>> /\ writes = 0 /\ status = NoStatus /\ stopped = FALSE
  /\ pending = <<>>
  /\ sb = NoStore /\ sb_count = 0 /\ stdout = [m \in {"CORE", "SB"} |-> <<>>]

Debugger == Client /\ UNCHANGED <<programVars, busVars>>
ServerStep == Server /\ UNCHANGED <<programVars, busVars>>

BenchNext ==
  \/ Debugger \/ ServerStep
  \/ Program \/ SystemBus
  \/ Posedge \/ ReleaseReset
BenchSpec == BenchInit /\ [][BenchNext]_benchVars

\* The simulator goes on while its C code returns.  Nothing else need happen: the
\* client may stay silent, and the program may be halted, or wait in the boot ROM
\* for a debugger that starts it (JTAG_BOOT).
FairBenchSpec ==
  /\ BenchSpec
  /\ WF_benchVars(ServerStep) /\ WF_benchVars(Posedge) /\ WF_benchVars(ReleaseReset)

-----------------------------------------------------------------------------
(* Properties. *)

\* The debug transport module sees every value of the pins that the client has
\* sent, in order and each for a while, and a read is answered with the TDO that
\* they have led to (remote_bitbang.h: "we only execute 1 because we need time
\* for the simulation to run"), whatever happens to the connection meanwhile.
JtagInOrder == Link!LinkSpec

\* Every character of the client is obeyed, unless the simulation ends
\* (rbs_accept, rbs_execute_command and the counter of SimJTAG).
CommandsServed ==
  \A n \in 1 .. MaxSent : (sent >= n) ~> (sent - Len(Inputs) >= n \/ ~Running)

\* A client that goes, with commands and answers in the connection or in the
\* middle of a call, does not hold up what the program has done: all it stores is
\* served, and once it has exited the simulation ends (rbs_execute_command returns
\* at the end of the stream; mm_ram.sv, tb_top.sv).
Gone == client \in {"closed", "reset"}
ReportArrives ==
  /\ (Gone /\ data_req) ~> (~data_req \/ ~Running)
  /\ (Gone /\ status # NoStatus) ~> ~Running

\* The characters of the program come out once each and in order, whatever the
\* system bus stores between them, all of them before the result; and the result
\* is the one it exited with (mm_ram.sv, tb_top.sv, prog/syscalls.c).
Printed == stdout["CORE"]
ReportExact ==
  /\ IsPrefix(Printed, text)
  /\ outcome \in {"passed", "failed"} =>
       Printed = text /\ status # NoStatus /\ (outcome = "passed" <=> status = 0)
=============================================================================
