---- MODULE MCReconnect ----
(* Two controllers, for two data channels of one device. *)
EXTENDS Reconnect
====
