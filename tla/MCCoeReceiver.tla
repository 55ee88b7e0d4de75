--------------------------- MODULE MCCoeReceiver ---------------------------
(* Instances of CoeReceiver for TLC. *)
EXTENDS CoeReceiver
=============================================================================
