----------------------------- MODULE CoeReceiver -----------------------------
(***************************************************************************)
(* LinuxCoeReceiver: a receiver thread assembles frames from 1722B packets *)
(* in one of three host buffers; the application takes the last complete   *)
(* one by exchanging pointers and copies it to the GPU.                    *)
(*                                                                         *)
(*   receiving   the buffer the receiver thread is filling                 *)
(*   available   std::atomic pointer to the last completed frame           *)
(*   busy        the buffer the application is using                       *)
(*                                                                         *)
(* The exchange of available is atomic; ready is protected by ready_mutex_ *)
(* and is set after, not together with, the exchange.                      *)
(* A frame is a sequence of Slots packets, the last one flagged FRAME_END; *)
(* the network loses packets and carries packets of other channels.        *)
(***************************************************************************)
EXTENDS Integers, Sequences

CONSTANTS
    Buffers,     \* the three descriptors d0, d1, d2
    NULL,        \* the null pointer
    Slots,       \* packets per frame
    MaxFrames,   \* bound: frames the device sends
    RecvErrors   \* TRUE: recv() may fail while the operator is running

ASSUME CoeAssumption ==
    /\ NULL \notin Buffers
    /\ \E a, b, c \in Buffers : a # b /\ b # c /\ a # c /\ Buffers = {a, b, c}
    /\ Slots \in Nat \ {0}
    /\ MaxFrames \in Nat
    /\ RecvErrors \in BOOLEAN

VARIABLES
    next,        \* the packet the device sends next: [frame, slot]
    traffic,     \* a packet of another channel is in the socket
    socket,      \* the data socket is open
    \* the receiver thread
    recvPc,
    receiving,
    mem,         \* buffer -> slot -> frame whose bytes are there
    meta,        \* buffer -> metadata: received_frame_number (count), the
                 \* device's frame number, and the one of the frame before it
    frame_count,
    ended,       \* history: the device's number of the last complete frame
    \* shared
    available,
    busy,
    ready,
    exit,
    \* the application
    appPc,
    got,         \* result of the exchange, before it is stored in busy_
    stream,      \* host-to-device copies in flight, oldest first
    recorded,    \* how many of them event_ captures
    awaited,     \* how many of them cuEventSynchronize still waits for
    out,         \* received_frame_number of the last frame delivered
    delivered    \* history: the set of frames delivered

deviceVars == <<next, traffic>>
recvVars   == <<recvPc, receiving, mem, meta, frame_count, ended>>
appVars    == <<appPc, got, out, delivered>>
cudaVars   == <<stream, recorded, awaited>>
vars == <<deviceVars, socket, recvVars, available, busy, ready, exit, appVars, cudaVars>>

Missing == 0   \* bytes set by memset(0xFF)
Junk == -1     \* bytes of the allocation nobody has written

RecvPcs == {"startup", "recv", "blocked", "signal", "sync", "memset", "exit", "exit2", "done"}
AppPcs == {"idle", "wait", "exchange", "assign", "copy", "record", "close", "join", "stopped"}

Metadata == [count : Nat, frame : Nat, after : Nat]

TypeOK ==
    /\ next \in [frame : Nat, slot : 1..Slots] /\ traffic \in BOOLEAN
    /\ socket \in BOOLEAN
    /\ recvPc \in RecvPcs
    /\ receiving \in Buffers
    /\ mem \in [Buffers -> [1..Slots -> Int]]
    /\ meta \in [Buffers -> Metadata]
    /\ frame_count \in Nat /\ ended \in Nat
    /\ available \in Buffers \cup {NULL} /\ busy \in Buffers \cup {NULL}
    /\ ready \in BOOLEAN /\ exit \in BOOLEAN
    /\ appPc \in AppPcs
    /\ got \in Buffers \cup {NULL}
    /\ stream \in Seq(Buffers) /\ recorded \in 0..Len(stream) /\ awaited \in 0..recorded
    /\ out \in Nat /\ delivered \in SUBSET Nat

Init ==
    /\ next = [frame |-> 1, slot |-> 1] /\ traffic = FALSE
    /\ socket = TRUE
    /\ recvPc = "startup"
    /\ receiving \in Buffers
    /\ mem = [b \in Buffers |-> [s \in 1..Slots |-> Junk]]
    /\ meta = [b \in Buffers |-> [count |-> 0, frame |-> 0, after |-> 0]]
    /\ frame_count = 0 /\ ended = 0
    /\ available = NULL /\ busy = NULL
    /\ ready = FALSE /\ exit = FALSE
    /\ appPc = "idle" /\ got = NULL
    /\ stream = <<>> /\ recorded = 0 /\ awaited = 0
    /\ out = 0 /\ delivered = {}

-----------------------------------------------------------------------------
(* The network (external). *)

After(p) == IF p.slot < Slots THEN [p EXCEPT !.slot = @ + 1]
                              ELSE [frame |-> p.frame + 1, slot |-> 1]

\* A packet of the stream does not reach the socket.
LosePacket ==
    /\ next.frame <= MaxFrames
    /\ next' = After(next)
    /\ UNCHANGED <<traffic, socket, recvVars, available, busy, ready, exit, appVars, cudaVars>>

ForeignPacket ==
    /\ ~traffic
    /\ traffic' = TRUE
    /\ UNCHANGED <<next, socket, recvVars, available, busy, ready, exit, appVars, cudaVars>>

-----------------------------------------------------------------------------
(* The receiver thread: LinuxCoeReceiver::run and signal. *)

\* Mutant: available_ is not set up.
RecvStartup_NoAvailable ==
    /\ recvPc = "startup"
    /\ \E b \in Buffers : b # receiving /\ busy' = b
    /\ recvPc' = "recv"
    /\ UNCHANGED <<deviceVars, socket, receiving, mem, meta, frame_count, ended, available, ready, exit,
                   appVars, cudaVars>>

RecvStartup ==
    /\ recvPc = "startup"
    /\ \E b, a \in Buffers :
          /\ b # receiving /\ a # receiving /\ a # b
          /\ busy' = b
          /\ available' = a
    /\ recvPc' = "recv"
    /\ UNCHANGED <<deviceVars, socket, receiving, mem, meta, frame_count, ended, ready, exit,
                   appVars, cudaVars>>

(* recv() on the socket; on a closed one it fails (EBADF). *)
RecvCall ==
    /\ recvPc = "recv"
    /\ recvPc' = IF socket THEN "blocked" ELSE "exit"
    /\ UNCHANGED <<deviceVars, socket, receiving, mem, meta, frame_count, ended, available, busy,
                   ready, exit, appVars, cudaVars>>

(* A packet of another channel, or not of our stack, is skipped. *)
RecvForeign ==
    /\ recvPc = "blocked" /\ traffic
    /\ traffic' = FALSE
    /\ recvPc' = "recv"
    /\ UNCHANGED <<next, socket, receiving, mem, meta, frame_count, ended, available, busy, ready,
                   exit, appVars, cudaVars>>

(* recv() timed out: this is where exit_ is looked at. *)
RecvTimeout ==
    /\ recvPc = "blocked" /\ ~traffic
    /\ recvPc' = IF exit THEN "exit" ELSE "recv"
    /\ UNCHANGED <<deviceVars, socket, receiving, mem, meta, frame_count, ended, available, busy,
                   ready, exit, appVars, cudaVars>>

(* recv() failed: the interface went down. *)
RecvError ==
    /\ recvPc = "blocked" /\ RecvErrors
    /\ recvPc' = "exit"
    /\ UNCHANGED <<deviceVars, socket, receiving, mem, meta, frame_count, ended, available, busy,
                   ready, exit, appVars, cudaVars>>

(* memcpy of the payload into the buffer being filled. *)
Store == mem' = [mem EXCEPT ![receiving][next.slot] = next.frame]

RecvPacket ==
    /\ recvPc = "blocked"
    /\ next.frame <= MaxFrames /\ next.slot < Slots
    /\ Store
    /\ next' = After(next)
    /\ recvPc' = "recv"
    /\ UNCHANGED <<traffic, socket, receiving, meta, frame_count, ended, available, busy,
                   ready, exit, appVars, cudaVars>>

(* FRAME_END: fill in the metadata, then                                   *)
(* receiving = available_.exchange(receiving).                             *)
RecvFrameEnd ==
    /\ recvPc = "blocked"
    /\ next.frame <= MaxFrames /\ next.slot = Slots
    /\ Store
    /\ next' = After(next)
    /\ frame_count' = frame_count + 1
    /\ meta' = [meta EXCEPT ![receiving] =
                  [count |-> frame_count', frame |-> next.frame, after |-> ended]]
    /\ ended' = next.frame
    /\ available' = receiving
    /\ receiving' = available
    /\ recvPc' = "signal"
    /\ UNCHANGED <<traffic, socket, busy, ready, exit, appVars, cudaVars>>

(* signal(): takes ready_mutex_ and keeps it while it waits for the copies *)
(* that event_ captures now.                                               *)
Signal ==
    /\ recvPc = "signal"
    /\ ready' = TRUE
    /\ awaited' = recorded
    /\ recvPc' = "sync"
    /\ UNCHANGED <<deviceVars, socket, receiving, mem, meta, frame_count, ended, available, busy,
                   exit, appVars, stream, recorded>>

\* Mutant: signal() does not wait for the copies.
SignalSync_NoWait ==
    /\ recvPc = "sync"
    /\ recvPc' = "memset"
    /\ UNCHANGED <<deviceVars, socket, receiving, mem, meta, frame_count, ended, available, busy,
                   ready, exit, appVars, cudaVars>>

(* cuEventSynchronize returns; the mutex is released. *)
SignalSync ==
    /\ recvPc = "sync"
    /\ awaited = 0
    /\ recvPc' = "memset"
    /\ UNCHANGED <<deviceVars, socket, receiving, mem, meta, frame_count, ended, available, busy,
                   ready, exit, appVars, cudaVars>>

\* Mutant: the buffer is not cleared.
RecvMemset_Skipped ==
    /\ recvPc = "memset"
    /\ recvPc' = "recv"
    /\ UNCHANGED <<deviceVars, socket, receiving, mem, meta, frame_count, ended, available, busy,
                   ready, exit, appVars, cudaVars>>

(* Make it easy to identify missing packets. *)
RecvMemset ==
    /\ recvPc = "memset"
    /\ mem' = [mem EXCEPT ![receiving] = [s \in 1..Slots |-> Missing]]
    /\ recvPc' = "recv"
    /\ UNCHANGED <<deviceVars, socket, receiving, meta, frame_count, ended, available, busy, ready,
                   exit, appVars, cudaVars>>

(* run() returns: busy_, then available_, then the memory. *)
RecvExit ==
    /\ recvPc = "exit"
    /\ busy' = NULL
    /\ recvPc' = "exit2"
    /\ UNCHANGED <<deviceVars, socket, receiving, mem, meta, frame_count, ended, available, ready,
                   exit, appVars, cudaVars>>

RecvFree ==
    /\ recvPc = "exit2"
    /\ available' = NULL
    /\ recvPc' = "done"
    /\ UNCHANGED <<deviceVars, socket, receiving, mem, meta, frame_count, ended, busy, ready, exit,
                   appVars, cudaVars>>

Receiver ==
    \/ RecvStartup \/ RecvCall \/ RecvForeign \/ RecvTimeout \/ RecvError \/ RecvPacket \/ RecvFrameEnd
    \/ Signal \/ SignalSync \/ RecvMemset \/ RecvExit \/ RecvFree

-----------------------------------------------------------------------------
(* The application: get_next_frame and the operator's stop. *)

MutexFree == recvPc # "sync"

AppCall ==
    /\ appPc = "idle"
    /\ appPc' = "wait"
    /\ UNCHANGED <<deviceVars, socket, recvVars, available, busy, ready, exit, got, out,
                   delivered, cudaVars>>

(* wait(): returns ready_ and clears it; FALSE means the timeout elapsed. *)
AppWaitReady ==
    /\ appPc = "wait" /\ MutexFree
    /\ ready
    /\ ready' = FALSE
    /\ appPc' = "exchange"
    /\ UNCHANGED <<deviceVars, socket, recvVars, available, busy, exit, got, out, delivered,
                   cudaVars>>

AppWaitTimeout ==
    /\ appPc = "wait" /\ MutexFree
    /\ ~ready
    /\ appPc' = "idle"
    /\ UNCHANGED <<deviceVars, socket, recvVars, available, busy, ready, exit, got, out,
                   delivered, cudaVars>>

\* Mutant: available_ is read instead of exchanged.
AppExchange_Load ==
    /\ appPc = "exchange"
    /\ got' = available
    /\ appPc' = "assign"
    /\ UNCHANGED <<deviceVars, socket, recvVars, available, busy, ready, exit, out, delivered,
                   cudaVars>>

(* busy_ = available_.exchange(busy_): the exchange ... *)
AppExchange ==
    /\ appPc = "exchange"
    /\ got' = available
    /\ available' = busy
    /\ appPc' = "assign"
    /\ UNCHANGED <<deviceVars, socket, recvVars, busy, ready, exit, out, delivered, cudaVars>>

(* ... and the assignment; then the test for null. *)
AppAssign ==
    /\ appPc = "assign"
    /\ busy' = got
    /\ got' = NULL
    /\ appPc' = IF busy' = NULL THEN "idle" ELSE "copy"
    /\ UNCHANGED <<deviceVars, socket, recvVars, available, ready, exit, out, delivered, cudaVars>>

(* cuMemcpyHtoDAsync from busy_ ... *)
AppCopy ==
    /\ appPc = "copy" /\ busy # NULL
    /\ stream' = Append(stream, busy)
    /\ appPc' = "record"
    /\ UNCHANGED <<deviceVars, socket, recvVars, available, busy, ready, exit, got, out,
                   delivered, recorded, awaited>>

\* Mutant: ready_ is cleared again at the end of get_next_frame.
AppRecord_ClearsReady ==
    /\ appPc = "record" /\ busy # NULL
    /\ recorded' = Len(stream)
    /\ out' = meta[busy].count
    /\ delivered' = delivered \cup {meta[busy].count}
    /\ ready' = FALSE
    /\ appPc' = "idle"
    /\ UNCHANGED <<deviceVars, socket, recvVars, available, busy, exit, got, stream, awaited>>

(* ... cuEventRecord, and the metadata. *)
AppRecord ==
    /\ appPc = "record" /\ busy # NULL
    /\ recorded' = Len(stream)
    /\ out' = meta[busy].count
    /\ delivered' = delivered \cup {meta[busy].count}
    /\ appPc' = "idle"
    /\ UNCHANGED <<deviceVars, socket, recvVars, available, busy, ready, exit, got, stream,
                   awaited>>

\* Mutant: the socket stays open.
AppStop_KeepsSocket ==
    /\ appPc = "idle"
    /\ appPc' = "close"
    /\ UNCHANGED <<deviceVars, socket, recvVars, available, busy, ready, exit, got, out,
                   delivered, cudaVars>>

(* The operator's stop: close the socket, close() the receiver, join. *)
AppStop ==
    /\ appPc = "idle"
    /\ socket' = FALSE
    /\ appPc' = "close"
    /\ UNCHANGED <<deviceVars, recvVars, available, busy, ready, exit, got, out, delivered,
                   cudaVars>>

AppClose ==
    /\ appPc = "close"
    /\ exit' = TRUE
    /\ appPc' = "join"
    /\ UNCHANGED <<deviceVars, socket, recvVars, available, busy, ready, got, out, delivered,
                   cudaVars>>

AppJoin ==
    /\ appPc = "join" /\ recvPc = "done"
    /\ appPc' = "stopped"
    /\ UNCHANGED <<deviceVars, socket, recvVars, available, busy, ready, exit, got, out,
                   delivered, cudaVars>>

(* The oldest copy in flight completes (external: the CUDA stream). *)
CopyDone ==
    /\ stream # <<>>
    /\ stream' = Tail(stream)
    /\ recorded' = IF recorded > 0 THEN recorded - 1 ELSE 0
    /\ awaited' = IF awaited > 0 THEN awaited - 1 ELSE 0
    /\ UNCHANGED <<deviceVars, socket, recvVars, available, busy, ready, exit, appVars>>

GetNextFrame ==
    AppCall \/ AppWaitReady \/ AppWaitTimeout \/ AppExchange \/ AppAssign
    \/ AppCopy \/ AppRecord

Next ==
    \/ LosePacket \/ ForeignPacket
    \/ Receiver
    \/ GetNextFrame
    \/ AppStop \/ AppClose \/ AppJoin
    \/ CopyDone

(* Both threads are scheduled and copies complete; recv() returns a packet *)
(* that is there. Nothing makes the device send or the application stop.   *)
Fairness ==
    /\ WF_vars(Receiver) /\ WF_vars(GetNextFrame) /\ WF_vars(AppClose \/ AppJoin)
    /\ WF_vars(CopyDone)

SafetySpec == Init /\ [][Next]_vars
Spec == SafetySpec /\ Fairness

-----------------------------------------------------------------------------
(* Properties. *)

Running == recvPc \notin {"startup", "exit", "exit2", "done"}

\* The buffer the application holds: busy_, or the result of its exchange
\* before the assignment (busy_ then still names the one it gave back).
Held == IF appPc = "assign" THEN got ELSE busy

\* The three pointers never alias, in particular between the two halves of
\* busy_ = available_.exchange(busy_) and across two exchanges in a row of
\* the same side: the receiver thread and the application never share a
\* buffer and none is lost.
BuffersDisjoint ==
    Running => /\ receiving # available /\ receiving # Held /\ available # Held
               /\ {receiving, available, Held} = Buffers

\* The receiver never writes to a buffer from which a copy to the GPU is
\* still in flight: event_ always covers the buffer that comes back through
\* available_.
NoOverwriteInFlight ==
    recvPc \in {"recv", "blocked", "memset"} =>
        \A i \in 1..Len(stream) : stream[i] # receiving

\* The newest complete frame is never lost: it has been delivered, or ready_
\* or a thread in mid-step will still lead the application to it.
NewestReachable ==
    Running /\ frame_count > 0 =>
        \/ frame_count \in delivered
        \/ /\ meta[available].count = frame_count
           /\ ready \/ recvPc = "signal" \/ appPc = "exchange"
        \/ appPc \in {"assign", "copy", "record"} /\ meta[Held].count = frame_count

\* The exchange of the three buffers is correct: they are not shared, not
\* overwritten while they are copied, and the newest frame is not lost.
ExchangeCorrect == TypeOK /\ BuffersDisjoint /\ NoOverwriteInFlight /\ NewestReachable

\* A frame with missing packets shows 0xFF there (or memory nobody has written
\* yet), never bytes of a frame that was complete before it: whichever of the
\* three buffers comes back is cleared before the first packet goes in.
NoStaleBytes ==
    appPc = "copy" /\ busy # NULL =>
        \A s \in 1..Slots :
            mem[busy][s] \in {Missing, Junk} \cup ((meta[busy].after + 1)..meta[busy].frame)

\* While frames keep being asked for, the newest complete frame is delivered.
NewestDelivered ==
    \A n \in 1..MaxFrames :
        (frame_count = n) ~> (frame_count > n \/ n \in delivered \/ ~socket \/ ~Running)

\* stop() returns even if packets of other channels never cease: closing
\* the socket makes recv() fail where the timeout that tests exit_ may
\* never happen.
StopTerminates == (appPc = "close") ~> (appPc = "stopped")
=============================================================================
