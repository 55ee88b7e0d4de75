--------------------------- MODULE MCLinuxReceiver ---------------------------
(* Instances of LinuxReceiver for TLC. *)
EXTENDS LinuxReceiver
=============================================================================
