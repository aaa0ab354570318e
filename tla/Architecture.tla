---------------------------- MODULE Architecture ----------------------------
(***************************************************************************)
(* The core as a program sees it, without a pipeline: one instruction      *)
(* after another, and between two of them an interrupt, if it is enabled,  *)
(* or the entry to debug mode.                                             *)
(***************************************************************************)
EXTENDS Integers

CONSTANTS
  PULP_SECURE, NPC, Vector   \* as in the core

VARIABLES
  program,     \* the instructions that may be at each address
  pc,          \* address of the next instruction
  debugging,   \* debug mode
  regs         \* mstatus, the return addresses and the privilege

archVars == <<program, pc, debugging, regs>>

After(a) == (a + 1) % NPC

Enabled(sec) == IF regs.priv = "M" THEN regs.mie ELSE regs.uie \/ sec

MachineTrap(enabled) ==
  [regs EXCEPT !.priv = "M", !.mpp = regs.priv, !.mpie = enabled, !.mie = FALSE, !.mepc = pc]
UserTrap == [regs EXCEPT !.upie = regs.uie, !.uie = FALSE, !.uepc = pc]
EnabledHere == IF regs.priv = "M" THEN regs.mie ELSE regs.uie

\* Returning to user mode restores its interrupt enable from mpie, too.
MachineReturn ==
  IF regs.mpp = "M"
  THEN [regs EXCEPT !.mie = regs.mpie, !.mpie = TRUE, !.mpp = IF PULP_SECURE THEN "U" ELSE "M"]
  ELSE [regs EXCEPT !.priv = "U", !.uie = regs.mpie, !.mpie = TRUE]
UserReturn == [regs EXCEPT !.priv = "U", !.uie = regs.upie, !.upie = TRUE]
\* As in the code, dret restores the interrupt enable in a core without user mode.
DebugReturn == IF PULP_SECURE THEN regs ELSE MachineReturn

\* Instructions that end in an exception at this privilege.
Privileged ==
  {"mret", "dret", "set_mie", "clear_mie", "set_uie", "drop_mpp", "write_mepc",
   "dcsr_step", "dcsr_ebreak", "blocked"}
Excepts(i) ==
  i.kind \in {"illegal", "ecall", "ebreak"} \/ (regs.priv = "U" /\ i.kind \in Privileged)

Target(i) ==
  CASE i.kind \in {"jump", "taken"} -> i.to
    [] i.kind = "mret" -> regs.mepc
    [] i.kind = "uret" /\ PULP_SECURE -> regs.uepc
    [] i.kind = "dret" -> regs.depc
    [] OTHER -> After(pc)

Effect(i) ==
  CASE i.kind = "set_mie" -> [regs EXCEPT !.mie = TRUE]
    [] i.kind = "clear_mie" -> [regs EXCEPT !.mie = FALSE]
    [] i.kind = "set_uie" -> [regs EXCEPT !.uie = PULP_SECURE]
    [] i.kind = "drop_mpp" -> [regs EXCEPT !.mpp = IF PULP_SECURE THEN "U" ELSE "M"]
    [] i.kind = "write_mepc" -> [regs EXCEPT !.mepc = i.to]
    [] i.kind = "mret" -> MachineReturn
    [] i.kind = "uret" /\ PULP_SECURE -> UserReturn
    [] i.kind = "dret" -> DebugReturn
    [] OTHER -> regs

Execute(i) ==
  /\ i \in program.at[pc] /\ ~Excepts(i)
  /\ pc' = Target(i) /\ regs' = Effect(i)
  /\ debugging' = (debugging /\ i.kind # "dret")

\* The instruction at pc, or fetching it, is not allowed or asks for a trap.
Exception ==
  /\ \/ \E i \in program.at[pc] : Excepts(i)
     \/ regs.priv = "U" /\ pc \in program.guarded
  /\ pc' = Vector["exception"] /\ regs' = MachineTrap(EnabledHere)
  /\ UNCHANGED debugging

\* A secure interrupt goes to machine mode.
Interrupt(sec) ==
  /\ ~debugging /\ Enabled(sec)
  /\ pc' = IF regs.priv = "U" /\ ~sec THEN Vector["user"] ELSE Vector["irq"]
  /\ regs' = IF regs.priv = "U" /\ ~sec THEN UserTrap ELSE MachineTrap(EnabledHere)
  /\ UNCHANGED debugging

EnterDebug ==
  /\ ~debugging
  /\ pc' = Vector["debug"] /\ debugging' = TRUE /\ regs' = [regs EXCEPT !.depc = pc]

\* An ebreak in debug mode starts its handler again.
RestartDebug ==
  /\ debugging /\ \E i \in program.at[pc] : i.kind = "ebreak"
  /\ pc' = Vector["debug"] /\ UNCHANGED <<debugging, regs>>

ArchInit ==
  /\ pc = Vector["boot"] /\ debugging = FALSE
  /\ regs = [priv |-> "M", mie |-> FALSE, mpie |-> FALSE, mpp |-> "M", uie |-> FALSE,
             upie |-> FALSE, mepc |-> 0, uepc |-> 0, depc |-> 0]

ArchNext ==
  /\ \/ \E i \in program.at[pc] : Execute(i)
     \/ Exception
     \/ \E sec \in BOOLEAN : Interrupt(sec)
     \/ EnterDebug \/ RestartDebug
  /\ UNCHANGED program

ArchSpec == ArchInit /\ [][ArchNext]_archVars
=============================================================================
