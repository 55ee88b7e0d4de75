------------------------- MODULE MCRoceTransmitter -------------------------
(* Instances of RoceTransmitter for TLC. *)
EXTENDS RoceTransmitter
=============================================================================
