-------------------------- MODULE MCSlotMachine --------------------------
(* Instances of SlotMachine for TLC.                                       *)
EXTENDS SlotMachine

\* One click of the plus button, and a bet that a ten-bit int cannot pay
\* fifteen times.
MCBets == {10, 50}
=============================================================================
