---------------------------- MODULE MCInterrupts ----------------------------
(* A timer, a keyboard and a disk beside the clock. *)
EXTENDS Interrupts

MCDevices == {TIMER_IRQ, KEYBOARD_IRQ, 14}
=============================================================================
