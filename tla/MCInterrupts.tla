---------------------------- MODULE MCInterrupts ----------------------------
(* Timer, keyboard, and two lines without a driver: one on each PIC, the     *)
(* first line of the slave among them.                                       *)
EXTENDS Interrupts

MCLines == {7, 8}
MCNaps  == {1500}
=============================================================================
