---------------------------- MODULE MCController ----------------------------
(***************************************************************************)
(* Programs of a few addresses.  A program at 0 .. 2 loops; the exception  *)
(* handler is at 3, that of interrupts at 5 and the debug code at 8.       *)
(***************************************************************************)
EXTENDS ControllerProgram

I(kind) == [kind |-> kind, to |-> 0]
To(kind, target) == [kind |-> kind, to |-> target]
All(kinds) == {I(k) : k \in kinds}

MCVector == [boot |-> 0, exception |-> 3, irq |-> 5, user |-> 5, debug |-> 8]

Code(first, second, last, dbg) ==
  [a \in 0 .. 10 |->
    CASE a = 0 -> first
      [] a = 1 -> second
      [] a = 2 -> last
      [] a = 3 -> {I("alu"), To("write_mepc", 2)}
      [] a = 4 -> {I("mret")}
      [] a = 5 -> {To("jump", 7)}
      [] a = 6 -> {I("illegal")}
      [] a = 7 -> {I("mret")}
      [] a = 8 -> dbg
      [] a = 9 -> {I("alu")}
      [] a = 10 -> {I("dret")}]

\* Interrupts and exceptions, among all that can be in the pipeline.
Anything ==
  All({"alu", "access", "untaken", "set_mie", "clear_mie", "illegal", "ecall",
       "ebreak", "wfi", "fencei"}) \cup {To("taken", 2), To("jump", 2)}
Trapping ==
  [at |-> Code(Anything, Anything, {To("jump", 0), I("ecall")}, {I("alu")}),
   guarded |-> {}, irqs |-> TRUE, halts |-> FALSE, halts_step |-> FALSE]
\* Halt requests, ebreak into debug mode, and interrupts.
Halting ==
  [at |-> Code(All({"alu", "access", "set_mie", "ebreak", "wfi", "fencei"}),
               All({"access", "ebreak"}),
               {To("taken", 0), To("jump", 0)}, {To("jump", 10), I("dcsr_ebreak")}),
   guarded |-> {}, irqs |-> TRUE, halts |-> TRUE, halts_step |-> FALSE]
\* Single steps over everything but ebreak into debug mode.
Steps ==
  All({"alu", "access", "untaken", "ecall", "ebreak", "illegal", "wfi", "fencei"})
    \cup {To("jump", 2)}
Stepping ==
  [at |-> Code(Steps, All({"alu", "access", "set_mie"}), {To("taken", 0)}, {I("dcsr_step")}),
   guarded |-> {}, irqs |-> TRUE, halts |-> TRUE, halts_step |-> FALSE]

\* Traps under fairness, in a smaller program.
MCVectorSmall == [boot |-> 0, exception |-> 2, irq |-> 2, user |-> 2, debug |-> 4]
Waiting ==
  [at |-> [a \in 0 .. 5 |->
     CASE a = 0 -> All({"alu", "access", "set_mie", "ecall", "wfi"})
       [] a = 1 -> {To("taken", 0)}
       [] a \in {2, 4} -> {I("alu")}
       [] a = 3 -> {I("mret")}
       [] a = 5 -> {I("dret")}],
   guarded |-> {}, irqs |-> TRUE, halts |-> TRUE, halts_step |-> FALSE]
MCProgramsSmall == {Waiting}

\* A core with user mode: 7 is the user's interrupt handler.
MCVectorUser == [boot |-> 0, exception |-> 2, irq |-> 4, user |-> 6, debug |-> 8]
User ==
  [at |-> [a \in 0 .. 9 |->
     CASE a = 0 -> All({"alu", "access", "set_mie", "set_uie", "ecall", "mret", "wfi"})
       [] a = 1 -> {To("taken", 0)}
       [] a = 2 -> {I("drop_mpp"), I("alu"), I("set_uie")}
       [] a \in {3, 5} -> {I("mret")}
       [] a = 4 -> {I("alu"), I("access")}
       [] a = 6 -> {I("alu")}
       [] a = 7 -> {I("uret")}
       [] a = 8 -> {I("alu")}
       [] a = 9 -> {I("dret")}],
   guarded |-> {}, irqs |-> TRUE, halts |-> FALSE, halts_step |-> FALSE]
\* In user mode, accesses are refused ...
Blocking ==
  [User EXCEPT !.at[0] = All({"alu", "access", "blocked", "ecall"}),
               !.at[1] = {To("taken", 0), To("jump", 7), I("alu")},
               !.at[2] = {I("drop_mpp")}]
\* ... and fetches.
Guarding == [Blocking EXCEPT !.guarded = {2, 3}, !.irqs = FALSE]
MCProgramsUser == {User, Blocking, Guarding}

MCPrograms == {Trapping, Halting, Stepping}

\* A halt request while stepping.
MCProgramsStepHalt == {[Stepping EXCEPT !.halts_step = TRUE]}

\* A step over wfi or fence.i while a division is still in EX.
MCProgramsStepSleep == {[Stepping EXCEPT !.at[5] = {I("fencei"), I("wfi")}]}

\* mepc is written where an interrupt may be taken.
MCProgramsMepc ==
  {[Trapping EXCEPT !.at[0] = All({"set_mie", "access"}),
                    !.at[1] = {I("access"), To("write_mepc", 0)},
                    !.at[2] = {I("alu")}]}
=============================================================================
