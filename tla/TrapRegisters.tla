--------------------------- MODULE TrapRegisters ---------------------------
(***************************************************************************)
(* The registers of rtl/riscv_cs_registers.sv that traps save and restore: *)
(* privilege, interrupt enables, return addresses and the debug registers. *)
(* The causes (mcause, ucause, dcsr.cause) are written with the addresses  *)
(* and left out; so are all registers no trap uses.                        *)
(***************************************************************************)
EXTENDS Integers

CONSTANTS
  PULP_SECURE,   \* user mode and memory protection (off in a default core)
  NPC            \* number of instruction addresses; pcs count instructions

ASSUME SecureAssumption == PULP_SECURE \in BOOLEAN
ASSUME NPCAssumption == NPC \in Nat \ {0}

Pc == 0 .. NPC - 1
PcAfter(pc) == (pc + 1) % NPC
Privilege == {"M", "U"}

\* mstatus, mepc, uepc, dpc and dcsr
Registers ==
  [priv : Privilege, mie : BOOLEAN, mpie : BOOLEAN, mpp : Privilege,
   uie : BOOLEAN, upie : BOOLEAN, mepc : Pc, uepc : Pc,
   depc : Pc, prv : Privilege, step : BOOLEAN, ebreakm : BOOLEAN]

VARIABLE csr

CsrInit ==
  csr = [priv |-> "M", mie |-> FALSE, mpie |-> FALSE, mpp |-> "M",
         uie |-> FALSE, upie |-> FALSE, mepc |-> 0, uepc |-> 0,
         depc |-> 0, prv |-> "M", step |-> FALSE, ebreakm |-> FALSE]

-----------------------------------------------------------------------------
\* The write of the instruction in EX; other instructions write nothing here.
Written(instr) ==
  CASE instr.kind = "set_mie" -> [csr EXCEPT !.mie = TRUE]
    [] instr.kind = "clear_mie" -> [csr EXCEPT !.mie = FALSE]
    [] instr.kind = "set_uie" -> [csr EXCEPT !.uie = PULP_SECURE]
    [] instr.kind = "drop_mpp" -> [csr EXCEPT !.mpp = IF PULP_SECURE THEN "U" ELSE "M"]
    [] instr.kind = "write_mepc" -> [csr EXCEPT !.mepc = instr.to]
    [] instr.kind = "dcsr_step" ->
         [csr EXCEPT !.prv = csr.priv, !.step = TRUE, !.ebreakm = FALSE]
    [] instr.kind = "dcsr_ebreak" ->
         [csr EXCEPT !.prv = csr.priv, !.step = FALSE, !.ebreakm = TRUE]
    [] OTHER -> csr

\* A trap overrides a write n of the same cycle, and saves what was before it.
SavedByDebug(n, pc) == [n EXCEPT !.prv = "M", !.depc = pc]
SavedByMachine(n, pc, enabled) ==
  [n EXCEPT !.priv = "M", !.mpie = enabled, !.mie = FALSE, !.mpp = csr.priv, !.mepc = pc]
SavedByUser(n, pc) == [n EXCEPT !.upie = csr.uie, !.uie = FALSE, !.uepc = pc]

\* Mutant: a secure interrupt is saved like the user's own.
SavedByUserIrq(n, pc, trap) ==
  CASE csr.priv = "M" /\ trap.debug -> SavedByDebug(n, pc)
    [] csr.priv = "M" /\ ~trap.debug -> SavedByMachine(n, pc, csr.mie)
    [] csr.priv = "U" -> IF trap.irq THEN SavedByUser(n, pc) ELSE SavedByMachine(n, pc, csr.uie)

\* In user mode an entry to debug mode is saved like an exception, except that
\* the address goes to dpc.
Saved(n, pc, trap) ==
  CASE csr.priv = "M" /\ trap.debug -> SavedByDebug(n, pc)
    [] csr.priv = "M" /\ ~trap.debug -> SavedByMachine(n, pc, csr.mie)
    [] csr.priv = "U" /\ trap.debug ->
         [SavedByMachine(n, pc, csr.uie) EXCEPT !.mepc = n.mepc, !.depc = pc]
    [] csr.priv = "U" /\ ~trap.debug ->
         IF trap.irq /\ ~trap.sec THEN SavedByUser(n, pc)
         ELSE SavedByMachine(n, pc, csr.uie)

\* Mutant: returning to user mode does not restore its interrupt enable.
RestoredByMretMie(n) ==
  IF csr.mpp = "U" THEN [n EXCEPT !.mie = csr.mpie, !.priv = "U", !.mpie = TRUE]
  ELSE [n EXCEPT !.mie = csr.mpie, !.mpie = TRUE, !.mpp = IF PULP_SECURE THEN "U" ELSE "M"]
RestoredByMret(n) ==
  IF ~PULP_SECURE THEN [n EXCEPT !.mie = csr.mpie, !.mpie = TRUE]
  ELSE IF csr.mpp = "U" THEN [n EXCEPT !.uie = csr.mpie, !.priv = "U", !.mpie = TRUE]
  ELSE [n EXCEPT !.mie = csr.mpie, !.mpie = TRUE, !.mpp = "U"]
RestoredByUret(n) == [n EXCEPT !.uie = csr.upie, !.priv = "U", !.upie = TRUE]
\* Without user mode, dret restores the interrupt enable like mret.
RestoredByDret(n) ==
  IF PULP_SECURE THEN [n EXCEPT !.priv = csr.prv] ELSE RestoredByMret(n)

Restored(n, by) ==
  CASE by = "mret" -> RestoredByMret(n)
    [] by = "uret" -> RestoredByUret(n)
    [] by = "dret" -> RestoredByDret(n)

m_irq_enable == csr.mie /\ csr.priv = "M"
u_irq_enable == csr.uie /\ csr.priv = "U"
\* Mutant: secure interrupts are always enabled.
irq_enableSecure(sec) == m_irq_enable \/ u_irq_enable \/ sec

\* An interrupt the event unit marks as secure is enabled in user mode.
irq_enable(sec) == m_irq_enable \/ u_irq_enable \/ (sec /\ csr.priv = "U")
=============================================================================
