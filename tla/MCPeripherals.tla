---------------------------- MODULE MCPeripherals ----------------------------
(* Instances of Peripherals for TLC. *)
EXTENDS Peripherals
=============================================================================
