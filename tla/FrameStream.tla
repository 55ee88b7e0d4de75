----------------------------- MODULE FrameStream -----------------------------
(***************************************************************************)
(* What a network receiver promises the operator that consumes its frames: *)
(* a bounded, lossy, ordered stream.                                       *)
(*                                                                         *)
(*   - frames are offered to the consumer in the order they arrived and    *)
(*     each one at most once;                                              *)
(*   - when there is no room for a new frame, the OLDEST waiting frame is  *)
(*     dropped and counted, never the new one;                             *)
(*   - until the consumer asks for its first frame only the newest frame   *)
(*     is kept, and the frames it replaces are not counted as dropped;     *)
(*   - a waiting frame does not wait for ever.                             *)
(*                                                                         *)
(* RoceReceiver and LinuxReceiver implement this specification.            *)
(***************************************************************************)
EXTENDS Naturals, Sequences

CONSTANT Capacity  \* how many frames can wait for the consumer, at least one

VARIABLES
    arrived,   \* identity (arrival order) of the newest frame
    waiting,   \* frames waiting for the consumer, oldest first
    delivered, \* identity of the last frame handed to the consumer
    dropped,   \* frames dropped because nothing was free
    asked,     \* the consumer has asked for a frame
    open       \* the stream has not been closed

vars == <<arrived, waiting, delivered, dropped, asked, open>>

TypeOK ==
    /\ arrived \in Nat
    /\ waiting \in Seq(Nat)
    /\ Len(waiting) <= Capacity
    /\ delivered \in Nat
    /\ dropped \in Nat
    /\ asked \in BOOLEAN
    /\ open \in BOOLEAN

Init ==
    /\ arrived = 0
    /\ waiting = <<>>
    /\ delivered = 0
    /\ dropped = 0
    /\ asked \in BOOLEAN
    /\ open = TRUE

(* A frame arrives; frames that the network lost are skipped over. *)
Arrive ==
    /\ arrived' \in Nat
    /\ arrived' > arrived
    /\ \/ /\ ~asked
          /\ waiting # <<>>
          /\ waiting' = Append(Tail(waiting), arrived')
          /\ UNCHANGED dropped
       \/ /\ asked \/ waiting = <<>>
          /\ Len(waiting) < Capacity
          /\ waiting' = Append(waiting, arrived')
          /\ UNCHANGED dropped
       \/ /\ asked
          /\ Len(waiting) = Capacity
          /\ waiting' = Append(Tail(waiting), arrived')
          /\ dropped' = dropped + 1
    /\ UNCHANGED <<delivered, asked, open>>

(* The consumer asks and takes the oldest waiting frame. *)
Deliver ==
    /\ open
    /\ waiting # <<>>
    /\ delivered' = Head(waiting)
    /\ waiting' = Tail(waiting)
    /\ asked' = TRUE
    /\ UNCHANGED <<arrived, dropped, open>>

(* The consumer asks and there is nothing for it. *)
Ask ==
    /\ waiting = <<>>
    /\ asked' = TRUE
    /\ UNCHANGED <<arrived, waiting, delivered, dropped, open>>

(* Closing may discard the frames that still wait. *)
Close ==
    /\ open' = FALSE
    /\ waiting' \in {waiting, <<>>}
    /\ UNCHANGED <<arrived, delivered, dropped, asked>>

Next == Arrive \/ Deliver \/ Ask \/ Close

Spec == Init /\ [][Next]_vars /\ WF_vars(Deliver)
=============================================================================
