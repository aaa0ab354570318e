------------------------ MODULE InterruptController ------------------------
(***************************************************************************)
(* rtl/riscv_int_controller.sv: remembers an enabled interrupt until the   *)
(* controller acknowledges it or kills the request.                        *)
(***************************************************************************)
EXTENDS TrapRegisters

VARIABLES
  exc_ctrl_cs,      \* FSM of the interrupt controller
  irq_sec_q,        \* whether the remembered interrupt is secure
  irq_i, irq_sec_i  \* external: the interrupt line and its secure bit

irqVars == <<exc_ctrl_cs, irq_sec_q, irq_i, irq_sec_i>>

irq_req_ctrl == exc_ctrl_cs = "IRQ_PENDING"

IrqIdle ==
  /\ exc_ctrl_cs = "IDLE"
  /\ \/ /\ irq_i /\ irq_enable(irq_sec_i)
        /\ exc_ctrl_cs' = "IRQ_PENDING" /\ irq_sec_q' = irq_sec_i
     \/ ~(irq_i /\ irq_enable(irq_sec_i)) /\ UNCHANGED <<exc_ctrl_cs, irq_sec_q>>

IrqPending(ack, kill) ==
  /\ exc_ctrl_cs = "IRQ_PENDING"
  /\ exc_ctrl_cs' = IF ack THEN "IRQ_DONE" ELSE IF kill THEN "IDLE" ELSE "IRQ_PENDING"
  /\ UNCHANGED irq_sec_q

IrqDone == exc_ctrl_cs = "IRQ_DONE" /\ exc_ctrl_cs' = "IDLE" /\ irq_sec_q' = FALSE

IrqInit ==
  exc_ctrl_cs = "IDLE" /\ irq_sec_q = FALSE /\ irq_i = FALSE /\ irq_sec_i = FALSE

IrqStep(ack, kill) == IrqIdle \/ IrqPending(ack, kill) \/ IrqDone
=============================================================================
