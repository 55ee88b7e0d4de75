--------------------------- MODULE MCRoceReceiver ---------------------------
(* Instances of RoceReceiver for TLC. *)
EXTENDS RoceReceiver
=============================================================================
