# RI5CY in TLA+

TLA+ modules of the RI5CY core (`src/rtl`) and of the programs that drive it
(`src/verilator-model`, `src/tb`), checked with TLC on small instances
and, where it pays, proved with TLAPS for every value of the constants. A step of
a module is a clock cycle unless it says otherwise, and definitions keep the
names of the signals, states, functions and macros they model.

## 1. The system

RI5CY is an in-order core with four stages for RV32IM[F]C with extensions
(hardware loops, post-increment accesses, bit manipulation). `riscv_core.sv`
connects the parts:

| Part | State | Operations | Talks to |
|---|---|---|---|
| `riscv_fetch_fifo` | address, word, valid and loop flags of 4 slots | push, pop, clear, replace slot 1 by a loop target | prefetch buffer |
| `riscv_prefetch_buffer` | fetch FSM (IDLE, WAIT_JUMP, WAIT_GNT, WAIT_RVALID, WAIT_ABORTED), loop FSM, address | request a word, take an answer, jump, abort, jump to a loop | instruction memory (req/gnt/rvalid), protection unit, IF stage |
| `riscv_if_stage` | offset FSM, IF/ID registers | jump, hand an instruction to ID, hold, drop | ID stage, controller |
| `riscv_hwloop_controller`, `riscv_hwloop_regs` | start, end and counter of 2 loops | detect the end, count down, set up | IF and ID stage |
| `riscv_id_stage`, `riscv_decoder`, `riscv_register_file` | ID/EX registers, register file | decode, read, forward, issue, replay a misaligned access | EX, controller |
| `riscv_controller` | FSM of 17 states, debug mode, jump done, illegal, data error | boot, jump, trap, return, sleep, debug; stalls and forwarding | all |
| `riscv_int_controller` | IDLE, IRQ_PENDING, IRQ_DONE | latch, acknowledge, kill | controller, event unit |
| `riscv_cs_registers` | status, return addresses, causes, debug, PMP and performance registers | write, save, restore | EX, controller |
| `riscv_ex_stage`, `riscv_alu`, `riscv_alu_div`, `riscv_mult`, `riscv_apu_disp` | EX/WB registers, divider, high multiplier, APU queue | compute, stall, write back | ID, WB |
| `riscv_load_store_unit` | FSM (IDLE, WAIT_RVALID, WAIT_RVALID_EX_STALL, IDLE_EX_STALL), first word, type and offset | request, align, extend | data memory, protection unit, EX, WB |
| `riscv_pmp` | data error FSM; regions are in the CSRs | let pass or refuse | both memory ports, controller |
| `riscv_core` | busy flag, clock gate | stop the clock while the core sleeps | event unit |
| `riscv_prefetch_L0_buffer`, `riscv_L0_buffer` | a line of 128 bits | the prefetch buffer for wide memories | IF stage |

`riscv_tracer` only logs. `riscv_alu_basic` and `register_file_test_wrap` are not
used by the core.

Around the core are the programs that show it works:

| Part | State | Operations | Talks to |
|---|---|---|---|
| `verilator-model/testbench.cpp` | the memory it has written, `debug_req_i` | write a user and a debug program, clock the core, halt it, set a flag, say where to go | core, `ram.sv` |
| `tb/core/riscv_compliance_tests` | registers and test data of a test | macros that write self-checking tests; pass, fail | core |
| `tb/dm/remote_bitbang`, `SimJTAG.sv` | socket, pins, TDO, tick counter | accept, read a command, move pins, answer, quit | OpenOCD over TCP, JTAG pins of the debug module |
| `tb/dm/mm_ram.sv`, `tb_top.sv`, `prog/` | memory, the character to print, verdict | serve core and system bus, print, pass, fail | core, debug module |
| `tb/core` (bench, firmware, C run time), `tb/tb_riscv`, `tb/serDiv`, `tb/tb_MPU` | memories, random stalls, interrupts | drive the core or a unit | core |

Nothing here runs in software threads, but everything runs at once: the stages
are connected by valid to the right and ready to the left, the two memories
grant and answer when they like, and interrupts and halt requests come in any
cycle. What is hard is the meeting of these: a jump with a word on its way, a loop
end with an empty queue, a stall with an answer, a refusal with an interrupt, a
CSR write with a trap, a halt request with a step. In the benches it is a client that
sends ahead, waits or leaves while the server obeys one command per tick, a debugger
and a program that store in the same cycle, and a host that writes a flag while the
core polls it. `PROJECT.json` lists them line
by line under `hazards`.

What makes the parts correct:

* fetch: ID receives the instructions at the program's addresses, whole, once and
  in order, loops included; the memory protocol holds; the queue never overflows;
  a refused word faults only when the program needs it; fetching never gets stuck;
* load/store: every byte of an access is transferred once, loads return the bytes
  addressed, whatever stalls; a refused access transfers nothing more;
* multi-cycle arithmetic: results are those of the instruction set and are stable
  while EX is held; the units end;
* control: the core behaves as a machine without a pipeline; return addresses and
  enables are exact; requests are served;
* stalls and forwarding: an operand has its newest value, and stalls end;
* tests: a test passes if, and only if, the core computes what it expects;
* debug programs: a halt leaves no trace in the program, and it resumes (this it does not, section 6);
* the debug bench: the pins obey the debugger's commands in order, all of them, and
  the verdict is the program's.

## 2. Modules

### Fetch

`FetchFifo` is `riscv_fetch_fifo.sv`: every register, one operator per output, and
`FifoStep` for the edge. `PrefetchBuffer` extends it with the two FSMs (`Idle`,
`WaitJump`, `WaitGnt`, `WaitRvalid`, `WaitAborted` are the fetch states, `HwlpStep`
the loop FSM) and has the instruction memory, the protection unit and any consumer
around it. `FetchStage` replaces that consumer by the IF stage, the
loop controller and the loop registers; ID and the controller are its inputs.
Words are not valued: a halfword is its address, so that a wrong word is a wrong
address, and `Compressed` says which instructions have 16 bits.

`InstrStream` is what the IF stage promises: a program counter, the loops, and one
instruction after another. `FetchStageStream` adds the history variables `next` and
`via` and the refinement mapping.

### Load and store

`LoadStoreUnit` is the unit with what carries an access around it: ID/EX (with the
replay of a misaligned access), ready and valid of EX and WB, the data error FSM, and
the two controller states that answer a refusal. Bytes are named, not valued.
`LoadStoreTransfers` adds history: what was transferred for an access, and what a
load wrote.

### Multi-cycle arithmetic

`HighMultiplier` (the FSM and the 34-bit sum of `riscv_mult.sv`), `SerialDivider`
(`riscv_alu_div.sv` and the preparation of its operands in `riscv_alu.sv`) and
`MultiCycle`, which puts both into EX with the operand register that carries the
partial sum of a product, stalls from WB, and optionally the results of a
floating-point unit on the same write port.

### Control

| Module | Code | |
|---|---|---|
| `TrapRegisters` | `riscv_cs_registers.sv` | `csr`: mstatus, privilege, mepc, uepc, dpc, dcsr; `Written`, `Saved`, `Restored` in the priority of the code |
| `InterruptController` | `riscv_int_controller.sv` | one action per state |
| `Pipeline` | IF/ID, ID/EX, EX/WB, `riscv_pmp.sv` | what the controller sees: what IF offers, the instruction in ID, EX, an access in WB, data errors, stalls |
| `Controller` | `riscv_controller.sv` | an operator per FSM state that gives the outputs of the cycle as a record, `Next` the edge of all of it |
| `Architecture` | - | the program without a pipeline: an instruction, an exception, an interrupt or an entry to debug mode at a time |
| `ControllerProgram` | - | history (`pc`, `regs`, `debugging`, `steps`) that follows what the controller lets happen, and the properties |

An instruction is its kind and a target; a pc counts instructions. A program says
which instructions *may* be at each address; every fetch chooses one. `hold` (a unit
works for another cycle), `hazard` (a stall), `gnt` and `rvalid` are free in each
cycle within what the code allows. `Pipeline` takes from the other modules what they
show: IF delivers successive addresses after a jump (`ImplementsStream`), and the
load/store unit has one granted access whose answer is missing (`AnswerExpected`).

### Operands and tests

`Operands` has the register file, the operand multiplexers of ID, the stalls and the
forwarding control of the controller, and what of ID/EX and EX/WB decides about
writes. The values are free: what a unit or a load delivers is chosen when the
instruction leaves ID, and while a unit is not done or a load not answered its port
shows *junk*, which the write ports do store, as in the code. `arch` is history: the
register file of a machine in which every instruction is over at once.

`Rv32` gives the few instructions the benches use a meaning (`Result`, `NextPc`,
`Taken`). `TestMacros` is `aw_test_macros.h` with the register assertion of
`compliance_io.h` and the ends of `riscv_test.h`: an operator per macro, which is the
sequence of instructions the macro stands for. `TestRun` puts such a test into the
pipeline of `Operands`, with an IF stage that offers an instruction when it likes.
`TestMachine` is the test without a pipeline, one instruction after another. The refinement
(`Hart`) takes its pc from EX behind a taken branch, else from ID, else from IF, and its
registers from `arch`: an instruction counts as executed when it leaves ID.

### The Verilator model

`VerilatorProgram` holds the programs `testbench.cpp` stores: `UserProgram`
(loadProgram), `DebugProgram` (loadDebugProgram) and the word of `whereto`.
`DebugSession` is `main()`, a step between two calls of `clockSpin`, and the core at one
instruction a step, with the two states of the controller that look at the request
again. The clock is counted (`spun`) only while the request is up, and `Stall` is
a clock without an instruction. `UserRun` is the user program alone; the refinement maps the
registers the debug program borrows to the scratch registers that keep them.

### The debug bench

`RemoteBitbang` is `remote_bitbang.c`, `sim_jtag.c` and `SimJTAG.sv`. `call` says where
the C code is: `rbs_tick`, `accept`, `read`, `write`, `return`; between two of them the
client may connect, send, take an answer or leave, and no clock passes. `TestAccessPort` has
the pins and two bits behind them that remember their order. `JtagLink` is the promise:
commands obeyed one at a time, in order. `DebugBench` adds the program (a system call at
a time, a store per character), the system bus of the debug module, `mm_ram`,
`tb_top` and reset.

### Histories

The history says *when* something happens (an instruction enters EX, a trap jumps to
its handler), never what the core's registers should be: `Architecture` computes
`pc` and `regs` on its own, and the properties compare.

## 3. Runs

| Run | Constants | What it shows |
|---|---|---|
| `fetch_nested` | 8 words, queue of 3, a branch to an upper half, two nested loops that end at one unaligned instruction, 2 iterations, a protected word behind them | `ImplementsStream`, `FaultPrecise`, `PcIfExact`, and the protocol and queue invariants of the buffer |
| `fetch_live` | 3 words, one loop | `InstrArrives` |
| `load_store` | 3 words of 4 bytes, one protected; every size and alignment, one access across the end of the address space | `AnswerExpected`, `TransferredOnce`, `LoadsExact`, `RefusalFinal` |
| `arithmetic` | words of 4 bits: all 7 x 256 operations, then one of 4 that reuse every register | `ProductExact`, `QuotientExact`, `UnitsEnd` |
| `traps` | 3 program addresses, handlers, debug code; programs `Trapping`, `Halting`, `Stepping` | order, the interrupt handshake, precise traps, exact enables, single steps, `ImplementsArchitecture` |
| `traps_user` | a core with user mode; programs `User`, `Blocking`, `Guarding` | precise traps, exact enables and `ImplementsArchitecture` with two privileges, refused accesses and fetches |
| `traps_live` | a program that may sleep, with interrupts and halt requests | `InterruptServed`, `HaltServed` |
| `operands` | 126 tests, the wrong result expected in some, up to 2 nops between dependent instructions; 13 arbitrary instructions over 3 registers | `OperandsExact`, `ImplementsMachine`, `VerdictExact`, `TestsEnd` |
| `debug_session` | the programs of `testbench.cpp`, a core whose parameters fit them, and a request that waits for debug mode | `DebugTransparent` |
| `debug_bench` | 3 commands of 4, an answer in the connection, 1 system bus store, 1 print, both exit statuses | `JtagInOrder`, `CommandsServed`, `ReportArrives`, `ReportExact` |
| `trap_mepc` | | a disagreement: `TrapPrecise` fails (section 6) |
| `debug_resume` | the session of `main()` on the core of `top.sv`, nothing changed | a disagreement: `Resumes` fails (section 6) |

Why the bounds are enough. *Queue*: the code asks for 3 slots at least and has 4;
3 make the queue full sooner, and the proofs hold for every depth. *Words*: the
program has aligned, unaligned and compressed instructions, the latter in both halves, and
the address space wraps in them. Branches to other places multiply the counters a loop that was
left may keep; where no loop jumps back, the theorems (section 4) leave program, targets
and protected words open, so that the run is about what they do not cover. *Counters*: the code only tells apart
counters of 3 and more, 2 with or without a decrement in flight, and less.
*Bytes*: three words are a first, a second and a next one. *Bits*: the multiplier
splits words in halves of any even size and the proof covers them all; the divider
has no step that depends on the width but its counter. The runs start an operation in
every state its predecessor leaves. *Programs*: loops over 3 addresses put every pair
of instruction kinds next to each other in the pipeline, which holds three
instructions at most; handlers have the length the paths through the FSM need.
*steps* saturates at 2, since the property asks for at most 1. *Operands*: ID, EX and WB
hold three instructions, so that two nops separate any two; the proof has no bound at
all. A wrong test differs by one from the right one. *Debug session*: no bound but the one
request `main()` makes; it meets every instruction of the program. *Debug bench*: both
edges of TCK, a read and an end, in every order of three, with the client gone before,
between and after them; one answer fills the connection, so that the next one finds it
full. Order is proved for any number of them.

Every property has a mutant of the code it fails on, in the module it belongs to,
marked "Mutant".

### Fairness

Safety runs have none. `fetch_live` has weak fairness of *grants*, *answers* and
*accepts*: a memory that grants a request it keeps seeing and answers what it
granted, and an ID stage that takes what is offered. Jumps, refusals and loop jumps
are not fair; jumps are made by instructions that reached ID. `arithmetic` has weak
fairness of the clock and nothing else: WB may hold EX for ever, since `UnitsEnd` is
about a unit and not about leaving EX. `traps_live` has weak fairness of two kinds of cycles:
*smooth* ones, in which a unit is done, a stall is over, an access granted and an
answer given (what the divider, the load/store unit and the memories do, see above),
and cycles in which a fetch succeeds. Both require that nobody makes a new request in
that cycle, so fairness never forces a request to come, and a request may never come.

`operands` is fair to *prompt* cycles, in which units end, the memory grants and answers
and IF offers its next instruction. `debug_resume` is fair to the core and to `main()`:
`clockSpin` is a loop that ends. `debug_bench` is fair to the clock and to the C code while
the client lets it return; not to the client, which may stay silent, nor to the debug
module, nor to the program: SimJTAG ticks with `JTAG_BOOT` only (`tb_test_env.sv:103`),
where the boot ROM is an endless loop (`mm_ram.sv:425-428`) until a debugger starts the
program, and it may leave it halted. So a silent client holds up everything, as it does
in the code, and `CommandsServed` speaks of commands that were sent. `ReportArrives`
speaks of what the program has stored when the client is gone: without fairness to the
program nothing says that it exits. The system bus has priority over the program's
stores (`ReportExact`), and holds them up for as long as it stores: `MaxSb` stands for the
finite number of its stores that a client leaves behind.

### Environment

The memories answer in order what they granted, in a later cycle. The protection
unit refuses without granting. The interrupt line stays up until it is
acknowledged, as `tb/tb_riscv/riscv_random_interrupt_generator.sv:160` does ("Keep
the request high until the acknowledge is received"), and keeps its secure bit. The
debug module keeps `debug_req_i` up until the core is in debug mode.

## 4. Proofs

`PrefetchBufferProofs`, for every queue of at least 3 slots, every address space,
program and consumer. The invariant is

    Inv == TypeOK /\ OneOutstanding /\ NoGap /\ RoomForRequest

`NoOverflow` is not inductive: a word may arrive at a full queue if one was requested
while the last slot was taken, so the invariant must speak of the request as well,
and say that only a loop target, which replaces slot 1, may be under way then
(`RoomForRequest`). That in turn needs valid slots to be contiguous (`NoGap`), since
`in_ready_o` looks at the slot before the last only. `FifoTypes`, `FifoNoGap` and `LastSlot` are
lemmas about one edge of the queue; `OneOutstandingStep` and `RoomForRequestStep` go
through the fetch states. Theorems: `TypeCorrect`, `OneWordOutstanding`,
`QueueHasNoGap`, `QueueNeverOverflows`.

`FetchStageProofs` puts the IF stage around that buffer. `StageImplementsBuffer` shows
that the stage is a consumer of the kind the buffer allows (its ports have the types
`PrefetchBuffer` chooses them from), so that everything above holds in the whole stage,
loops included (`StageKeepsBuffer`). Then, for every program whose loops do not jump back
(`NoLoopJumps`: no counter above 1), the stage implements `InstrStream`
(`StageImplementsStream`), and `PcIfExact` and `FaultPrecise` hold. `StreamInv` says what the
history property does not: the queue holds the words from `next` on, each behind the
other (`Queued`), and what is requested or on its way belongs behind the last of them
(`Behind`, with the `Frontier` of the fetch FSM). The lemmas take one edge of the queue
(`ArrivesBehind` and those after it), one fetch state, and one cycle in turn; what the head
of such a queue shows is the instruction at `next`, also where it straddles two words.
Loops that do jump back stay with TLC (`fetch_nested`), since `FetchLoopEnd.cfg` shows that
the refinement does not hold for all of them.

`LoadStoreProofs`, for every address space and set of accesses. The invariant is
`TypeOK /\ AnswerExpected`; `AnswerStep` goes through the four states of the FSM.
Theorems: `TypeCorrect`, `ProtocolHeld`. Three theorems are about what an access does:

* `EachByteOnce` (`TransferredOnce`, no hypothesis). `PartsInv` says how far an access has
  come in each state: nothing, its first word (`Near`), or both (`Far`). `ByteOfWord` is the
  arithmetic of an access that crosses a word or the end of the address space.
* `LoadsExactIfNotHeld` (`LoadsExact`). `ExLoads` and `WbLoads` say which answer is owed and
  which word is kept in `rdata_q`. Hypothesis `StalledLoads`: what another unit holds in EX is
  not a load across two words. Without it the property fails: the unit waits in
  IDLE_EX_STALL with the second word in `rdata_q`, unaligned, and has lost the first. In the
  core an access across words is held by the write port of a floating-point unit only.
* `RefusalFinalIfLast` (`RefusalFinal`): the refused word is the last one the access asks
  for, and it is not held (`RefusedLast`). Both halves are needed: a refused first word
  is the disagreement of section 6.

The constants of `load_store` satisfy both hypotheses.

`MultiCycleProofs`, for every even half-word size and every operand, stall and
predecessor, in a core without floating-point unit (`FPU = FALSE` is a hypothesis of
the theorem; with it the property fails, section 6). The invariant `PartialSum` says what the
operand register and the carry stand for as an *integer without wrap-around* in each
step: the sum of the middle products after STEP1, its upper part after STEP2. `NoWrap`
and `SumBounds` show that the 34 bits hold it, `CarryIsSign` that one
flip-flop is enough for its sign, `WholeProduct` that the parts add up. Theorem:
`HighProductsExact`.

For divisions of every width the divider is built for (2 to 32 bits), with or without
floating-point unit, the invariant is `PartialQuotient`. With `weight` the value of the shifted
divisor and `q` what the quotient register has so far, both of the operands' magnitudes,

    dividend = left + 2 * weight * q,    left < 2 * weight

and each cycle halves the weight and brings one bit of q (`DivideStep`). `Shifted`
shows that the leading zeros align the divisor with the dividend, so that this holds at
first (`LoadStep`), `Compared` that the comparison, which turns around for a negative
divisor, is that of the magnitudes. A divisor of 0 yields ones in every cycle (`DivideByZeroStep`,
`ByZeroResult`). At the end the weight is the divisor, so that `left` and `q` are
remainder and quotient, and the last negation gives them their signs (`QuotientResult`,
`RemainderResult`). No induction over the bits is needed: powers of two are a table of
numerals (`Powers`), and the count of leading zeros is a least member (`LeastMember`).
Theorems: `DivisionsExact`, and `ArithmeticTypes` for the types of both units.

`ArchitectureProofs`, first part, for every program and set of handlers, with and without user
mode, whatever interrupts, halt requests and stalls occur. The invariant is

    Inv == TypeOK /\ XretInId /\ IrqHandshake /\ (irq_req_ctrl => irq_i)

`TypeOK` alone is not inductive: XRET_JUMP chooses its target by the instruction in ID,
so that one must be a return (`XretInId`), and it is, since FLUSH_WB halts IF on the way.
The proof has two passes over the FSM: `OutputsType` says what the outputs of a
cycle may be, `OutputsTurn` where they lead: a state that takes an interrupt follows
only from one that has it or with the request pending, and kills nothing. `TypeStep`
and `HandshakeStep` then need the edge only. Theorems: `TypeCorrect`,
`InterruptHandshake`.

Its second part is about a core without user mode (`PULP_SECURE = FALSE`, the
default; with user mode the divergences of section 6 stand in the way). The controller and
its pipeline implement `Architecture`, for every program, number of addresses and set of
handlers, whatever is stalled, interrupted or halted. The invariant is

    ProgramInv == Inv /\ Machine /\ InId /\ InEx /\ Mode /\ Position /\ Registered

* `Position`: in which register the program's address is in each state of the FSM. It is
  `pc_id` while an instruction is decoded, flushed for or returned from, `pc_if` when there is
  none, and the target in EX behind a taken branch; a jump that has been made and waits in ID
  (`jump_done_q`) has IF at its target (`Ahead`).
* `Registered`: the registers, with the write in EX added, are those the program will have
  (`View`): from the cycle that saves to the one that jumps to the handler they are a trap
  ahead, and between restoring and XRET_JUMP a return ahead.
* `InId` and `InEx`: which instruction a state of the FSM may find in ID, and in which states no
  write is left in EX (`Calm`). `InOrder`, `TrapPrecise` and `EnableExact` are consequences; none
  of them is inductive, since what a trap saves depends on what is still in EX.

A cycle keeps it if it satisfies `Kept`: `Coasting` is about cycles in which nothing happens to
the program, the lemmas `Keeps...` take one state of the FSM each, and those of DECODE one way an
instruction may go (held, flushed for, executed, an exception, a step over it). `StageIf`,
`StageEx` and `StageCsr` are what a cycle does to a stage. Hypotheses of `DecodesInOrder`,
`TrapsArePrecise`, `EnablesAreExact` and `RunsTheProgram`: `[]Fits`, which excludes four
meetings in DECODE, each with its bullet in section 6: an instruction behind a write of mepc
while an access is still in WB, a halt request while stepping, a `wfi` in debug mode, and a
step over a `dret` outside of it. `StepsAreSingle` (`StepsOne`) also needs `StepFits`: only debug
code sets `dcsr.step`, and a stepped `wfi` or `fence.i` finds EX and WB empty. TLC finds
`Fits`, `StepFits` and every part of `ProgramInv` to be invariants of the run `traps`. For programs
that do not write mepc, sleep or ask for steps (`PlainPrograms`) the hypotheses are proved
as well: `PlainProgramsRun` has none but the absence of user mode.

`OperandsProofs`, for every set of registers and instructions, every outcome and every
timing. The invariant says where the newest value of a register is,

    Newest(r) == EX if its load or its result goes to r, else WB, else the register file

and that `arch` agrees with it (`NewestKept`). It is inductive with `LoadsTracked`: a load in WB
never has the destination of a result in EX (both ports would write it), and
`waddr_ex`, which keeps the destination of the *last* load and by which the stall
compares, names the youngest load under way. `PortsExact` says when the write ports show
data, `LeavesPastLoads` past which loads an instruction may leave ID, `NewestMoves` how the
newest value travels at an edge. Theorems: `TypeCorrect`, `OperandsForwarded`.

For the tests, the same invariant with `FetchedInOrder` (what is in ID is the instruction at
`pc_id`, and IF is one ahead) gives the refinement: `OneLeaves` shows that an instruction that
leaves ID changes registers, memory, verdict and pc as `TestMachine` says, `NextAddress` that
the pc is right behind taken branches and jumps, `NothingLeaves` that every other cycle,
with a stall or a branch that drops what is in ID, changes nothing. Theorems: `TestsForwarded`,
`TestsRunInOrder` (`ImplementsMachine`), for every program of the tests' instructions and every
contents of memory. `VerdictsDeserved` (`VerdictExact`) says what is left to the test: if it
deserves its verdict on the machine without a pipeline, it ends with that verdict or not at
all. Its hypothesis `Deserved` asks for a set of states that the test does not leave and in which
every end is the right one; the states the test reaches are such a set if there is one, so
that loops need no induction. The run shows that the 126 tests do end with their verdicts.

`DebugBenchProofs`, for every set of commands, number of them, delay between ticks,
client and program. `ServerInv` types the server and ties `call` to the command in
hand: while a command waits for its answer, nothing else is in hand. From it
`LinkStep` maps every step of the whole bench to a step of `JtagLink` or a stutter: reading a
command that moves no pin changes nothing the link sees, the pins move when the call
returns, an answer is the TDO of the last pins. Theorems: `ServerCorrect`,
`JtagObeyed`, which is the refinement `BenchSpec => Link!LinkSpec`. `VerdictOfProgram`
(`ReportExact`) needs `ReportInv`: what the core has printed, followed by what it still has to
store, is the text it was asked to print; after that only its status is left, and the
outcome is that of the status. The system bus prints on a line of its own.

`DebugSessionProofs`, for every length of the user program (`RepeatFactor`), hart, set of flags
and duration of the request: the session implements `UserRun`. The invariant is

    SessionInv == Types /\ Entering /\ FlagSet /\ InDebugProgram /\ InUserProgram

`InDebugProgram` says at which places debug mode is in its program and what it has in s0 and
a0 there: behind `lui` the base of the debug addresses, behind the loads a flag, at `dret`
what the scratch registers keep. A flag that is set (`FlagSet`) was set together with the word
at the whereto address, so that GOING does not run into zeros. `InUserProgram` keeps the
program inside its code and its stores at 64 (`Prepared`: each follows the instructions that
make its address and data). The lemmas from `Jumps` to `WritesCsr` say what each kind of
instruction does, `DebugExecute` goes through the 29 places of debug mode, `UserExecute` through
the instructions of the program. Theorem: `SessionTransparent`. Its hypotheses (`Fits`) are two
of the differences between `debug_session` and the real session: the halt address is that of the
debug program, and the request stays up until the core is in debug mode (`HoldsRequest`), a wait
`main()` does not have. Without the first, debug mode
does not find its program; without the second, dpc may not be written (section 6). Which hart
the flag is for does not matter here, only for `Resumes` (`debug_resume`). That the program ends below the
debug program is an assumption of `VerilatorProgram` (`ProgramAssumption`).

Assumptions are the named ASSUMEs of the modules, which TLC evaluates in the runs,
and nothing else.

Only model-checked: `InOrder` to `ImplementsArchitecture` with user mode (`traps_user`);
`ImplementsStream`, `PcIfExact` and `FaultPrecise` on loops that jump back;
that the tests of the run deserve their verdicts, which takes their
execution; and all liveness. Liveness and ENABLED are beyond the prover.

## 5. What is not modelled

* The APU dispatcher and the third operand of ID: section 7.
* Decoders, ALU, one-cycle products, region matching of the protection unit: no
  state. Their outputs are inputs of the models.
* `p.elw` and ELW_EXE: an access that waits for an event and is replayed.
* Exception causes, trap values, performance counters, PMP registers, interrupt
  numbers: data that no property tells apart.
* Hardware loops in `Pipeline`: they are in `FetchStage`, which has the jumps and
  stalls of the pipeline as inputs. Setting up one loop register at a time
  (`lp.starti`, `lp.endi`, `lp.count`, `lp.counti`) is not told apart from `lp.setup`.
* In `Operands` the cycle behind a jump is always a bubble. In the core a jump that waits in ID
  for EX has set the fetch address already (`jump_done`), so that its target may follow at once,
  as it does in `Pipeline`. A jump has no load and its link is in EX then, so that no property
  of `Operands` depends on it.
* Misaligned accesses and post-increments in `Pipeline`: the first are in
  `LoadStoreUnit`.
* The clock gate: the modules' clock is the gated one. It is started by the same
  signals that wake the FSM.
* The L0 buffer, the latch version of the register file, the tracer.
* Macros of `aw_test_macros.h` for floating point (lines 388-655): the core of these
  tests has no such unit. Trap handlers of `riscv_test.h`: `Controller` has the traps.
* `RVTEST_IO_WRITE_STR` and its likes: text, printed by an instruction (0x0005200B) this
  core takes for a `p.lw`.
* The debug module of `src/tb/dm` is a git submodule and absent: its test access
  port and system bus are modelled from their use, what `ndmreset` does is not.
* `src/tb/core`: a loop that clocks, a memory with a timer and C run-time code of
  programs that run on the core (`custom/syscalls.c`, `csmith/syscalls.c`, `firmware`).
  Only `_write` and `_exit` of `tb/dm/prog/syscalls.c` decide a verdict and are modelled.
* `tb/dm/tb_top_verilator.cpp`: "not supported yet", and without its `riscv_wrapper`.
* Random benches (`tb_riscv`, `serDiv`, `tb_MPU`) and the scripts of `ci`: the models choose
  freely what the benches choose at random.

## 6. Where code and description disagree

Shown by a run, with the lines quoted in `PROJECT.json`:

* `trap_mepc`: a `csrw mepc` held in EX writes again after an interrupt saved mepc.
* `debug_resume`: the session of `testbench.cpp` never resumes, although
  `verilator-model/README.md:25-26` lists "Resume" and line 709 says "Test resume". The halt
  address is 0x1A110800, the parameter's default, and the memory decodes its low 20 bits to
  0x10800, while the debug program is at 0x0A0800 (line 504: "real addr is 0x1a11_0800"). The
  hart number alone would do as well: `top.sv` makes the core hart 0 and `main` sets the flag of
  hart 0x3E0. `debug_session` checks the rest of the session with these two put right, and with
  a request that lasts: it is up for two clocks only, so that `debug_req_i` may be low again in
  DBG_TAKEN_ID, which then does not save dpc (`riscv_controller.sv:870-886`), and
  `DebugTransparent` fails with `HoldsRequest = FALSE`. The flag is FLAGgo under a comment that
  says "resume=2"; that does no harm, since what `whereto` writes leads to the resume entry.

Shown by TLC with the configuration named, which is kept beside the modules, or with
a run of section 3 and the constants given here:

* `FetchLoopEnd.cfg` (`MCFetchStage`, `LoopEndStored` fails): `out_valid_stored_o` of an
  unaligned head looks at a word that is not there (`riscv_fetch_fifo.sv:118-120`), and line
  48 says "same as out_valid_o, except that if something is incoming now it is not
  included". After a branch to the end of a loop body its last instruction is left out.
* `load_store` with `Accesses <- FromRefused` and `Stallable <- None` (`MCLoadStore`, `RefusalFinal`
  fails): a misaligned access whose first word is refused still transfers its second
  (`riscv_id_stage.sv:1462-1480` does not look at the error), though `riscv_controller.sv:391`
  calls it "blocked by the PMP".
* `traps` with `Programs <- MCProgramsStepHalt` (`MCController`, `TrapPrecise` fails): a halt request
  while stepping saves the address behind the dropped instruction in dpc
  (`riscv_controller.sv:934-936`).
* `traps` with `Programs <- MCProgramsStepSleep` (`StepsOne` fails): a stepped `wfi` or `fence.i` while
  EX is busy is no step. `riscv_controller.sv:547` says "prevent any more instructions from
  executing", but DBG_FLUSH is chosen only if `id_ready_i` (558); otherwise FLUSH_EX stays, the
  instruction is carried out in FLUSH_WB and the next one executes as well. EX is
  busy with a division that an interrupt made start again (`deassert_we` does not
  reach `alu_en`), or with an access of the debug code before its `dret`.
* `Operands.cfg` with `Tests <- MCTestsX5` (`MCTestRun`, `VerdictExact`): `RVTEST_IO_ASSERT_GPR_EQ` loads the expected
  value to t0, which is x5 (`compliance_io.h:75-77`), so that an assertion about x5 cannot
  fail. `I-ADD-01.S:84` asserts 0 of an x5 that is 1 (lines 58 and 65), and passes.

Found while modelling and kept out of the passing runs by their programs; each is
repeated by the change given here:

* A refused word behind the end of a loop body that still iterates raises a fault:
  WAIT_JUMP does not look at loop jumps (`riscv_prefetch_buffer.sv:266-284`).
  `fetch_nested` with `NWORDS = 4`, `DEPTH = 4`, `N_HWLP = 1`, `Compressed = {}`,
  `Protected = {3}`, one target and a set-up at word 0 with `end` at word 2 and count 2,
  and `FaultPrecise` as property.
* With a floating-point unit, a late result on the ALU's write port replaces the
  partial sum of a high product (`riscv_id_stage.sv:1482`, `riscv_ex_stage.sv:205-212`).
  `arithmetic` with `FPU = TRUE`, `HALF = 2`, `WIDTH = 2`, `ApuResults = {3}`,
  `MaxOps = 1` and `ProductExact`.
* `wfi` in debug code with an interrupt pending: SLEEP leaves at once, and
  FIRST_FETCH (343-365) takes the interrupt without looking at `debug_mode_q`, although
  DECODE says "don't serve in debug mode" (436). Add `wfi` to the debug code of `Halting`.
* The same second write as in `trap_mepc` happens with an `ecall` behind the `csrw`.
* A refused fetch right behind a refused access: DECODE takes the fetch
  (`is_fetch_failed`, 406) before the refusal of the access is known, and mepc is the
  address of the fetch. Add `blocked` to address 1 of `Guarding`. An `ecall` or illegal
  instruction right behind a refused access is saved twice in the same way (the
  second save has machine mode in mpp).
* A refused fetch right behind an illegal or flushing instruction: FLUSH_WB looks at
  `is_fetch_failed` first (740) and jumps to the handler for it, without having saved its
  address; with an illegal instruction, `illegal_insn_q` stays set and is taken for
  the next instruction that flushes. Add `illegal` or `wfi` to address 1 of `Guarding`.
* An interrupt in user mode while the next fetch is refused and EX is stalled:
  `is_fetch_failed` survives into the handler and a fault is saved over the
  interrupt's mepc. Set `irqs` in `Guarding`.
* In user mode an entry to debug mode is saved like an exception: it changes the
  privilege and mie, mpie and mpp of mstatus, and does not record `dcsr.prv`
  (`riscv_cs_registers.sv:593-604`, marked "TODO: correctly handled?"). Set `halts` and
  clear `irqs` in `User`; `EnableExact` fails.
* A stepped `dret` outside debug mode is dropped, and dpc is the address behind it: the
  single-step block says "we don't handle dret here because its should be illegal anyway in
  this context" (`riscv_controller.sv:550`), but the decoder refuses it in user mode only
  (`riscv_decoder.sv:2299-2302`). Put `dret` at address 0 of `Stepping`; `TrapPrecise` fails.
* Without user mode, `dret` restores mie from mpie (833-838). `Architecture` follows the code.
* `dcsr.ebreakm` with `dcsr.step` is marked TODO in the code (557) and left out of the
  programs.

In the benches:

* A client that is connected and silent stops the clock: `read` is repeated until something
  comes (`remote_bitbang.c:131-153`), although line 136 says "We'll try again the next
  call". A connection that has ended stays open in `client_fd`, so that no second client is
  accepted. An answer that finds no room ends the process (246-258). TRSTn is high from
  the first call on, and `rbs_reset` does nothing ("This is wrong").
* The exit status 0xF00D passes (`mm_ram.sv:264`), hence `StatusAssumption`.
* The assertion `out_of_bounds_write` (`mm_ram.sv:391-399`) does not list CNTRL_BASE, so that the
  store by which `_exit` reports its result is called an "out of bounds write", although
  `mm_ram.sv` and `tb_top.sv` are made to take it. `ReportExact` is about what they do
  with it. Verilator does not see the assertion.
* After an unimplemented system call the handler of `ebreak` in `prog/start.S` stores its
  result where `mm_ram.sv` of `tb/dm` has nothing: no verdict comes (`stopped`).
* `SWSIG` writes x28, which is TESTNUM, though `TEST_PASSFAIL` (661) takes it for the number
  of the test; it is never 0 there, so that the verdict is right (`VerdictExact`).
* `src/tb/core/README.md:9` gives 12345679 as the value of a passed test, `mm_ram.sv` there
  compares with 123456789; and `tb_top_verilator.sv` leaves `exit_valid` open, so that `_exit`
  of `custom/syscalls.c` does not end a simulation. `_sbrk` in that file adds its
  argument twice and never fails.

## 7. Plan

Order of the whole development: what decides whether the core runs a program first.

1. Fetch, load/store, multi-cycle arithmetic, control: done.
2. Operands, tests, the debug program and the debug bench: done.
3. The secure core: runs of their own for refused fetches with interrupts, and user
   mode with debug.
4. The APU dispatcher (`riscv_apu_disp.sv`) beside `Operands`, with the write port it shares,
   for cores with a floating-point unit.
5. p.elw in `Controller`; the L0 buffer as a second implementation of `InstrStream`;
   region matching of the protection unit against a reference.
6. Proofs: fetch without loops, transfers, products and divisions, tests, the report, the
   debug session, the core without user mode: done. Next fetch with loops that jump back, for the bodies section 6
   leaves, and the core with user mode.
