---------------------------- MODULE LinuxReceiver ----------------------------
(***************************************************************************)
(* The software RoCE data plane: the emulator's RoCEv2Transmitter sends a  *)
(* frame as RDMA WRITE packets followed by one WRITE WITH IMMEDIATE that   *)
(* carries the frame's metadata; the network and the socket lose packets;  *)
(* LinuxReceiver::run assembles frames in host buffers, and the operator   *)
(* takes them with get_next_frame, which copies them to the GPU.           *)
(*                                                                         *)
(* LinuxReceiverOp is modelled with use_frame_ready_condition disabled, so *)
(* compute() is called again and again and blocks in get_next_frame (the   *)
(* condition's protocol is in RoceReceiver). A frame has Packets content   *)
(* packets; a byte is abstracted to the frame its packet belongs to.       *)
(* Sections under ready_mutex_ are single actions, except that signal()    *)
(* waits for a GPU copy while it holds the mutex.                          *)
(***************************************************************************)
EXTENDS Integers, Sequences, FiniteSets

CONSTANTS
    QueueSize,    \* queue_size_: frames that can wait for the consumer
    Packets,      \* content packets per frame
    PsnMod,       \* 2^24: width of the packet sequence number
    SocketSize,   \* packets the socket's receive buffer holds
    MaxFrames,    \* bound: frames the emulator sends
    MaxBurst,     \* bound: packets lost in a row, less than PsnMod
    RecvErrors    \* TRUE: recv() may fail while the operator is running

\* start_receiver rejects a queue of size zero.
ASSUME LinuxAssumption ==
    /\ QueueSize \in Nat \ {0}
    /\ Packets \in Nat \ {0}
    /\ SocketSize \in Nat \ {0}
    /\ MaxFrames \in Nat
    /\ PsnMod \in Nat /\ MaxBurst \in Nat /\ MaxBurst < PsnMod
    /\ RecvErrors \in BOOLEAN

VARIABLES
    \* RoCEv2Transmitter and the network
    psn,             \* psn_
    sending,         \* frame being sent and its next packet; Packets + 1 is the metadata
    lost,            \* history: packets lost so far
    burst,           \* packets lost since the last one that arrived
    socket,          \* the receive buffer of the data socket
    isOpen,          \* data_socket_ has not been closed
    \* LinuxReceiver::run
    recvPc,
    receiving,       \* the buffer being filled
    next,            \* the buffer signal() has chosen to be filled next
    frame_bytes_received, frame_count, packets_dropped, last_psn, first,
    mem,             \* buffer -> packet -> the frame its bytes are from
    meta,            \* buffer -> LinuxReceiverMetadata
    base,            \* history: packets lost before the first one received
    ended,           \* history: the last frame whose metadata was received, and
                     \* packets_dropped then
    \* shared, under ready_mutex_
    ready, available, consumer_ready,
    exit,
    \* the operator and the CUDA stream
    opPc,
    out,             \* received_frame_number of the last frame taken
    stream,          \* copies in flight, oldest first: buffer and content wanted
    overrun          \* history: frames given up because no buffer was available

txVars     == <<psn, sending, lost, burst>>
psnVars    == <<packets_dropped, last_psn, first, base>>
bufferVars == <<receiving, next, mem, meta>>
queueVars  == <<ready, available, consumer_ready, overrun>>
opVars     == <<opPc, out, stream>>
vars == <<txVars, socket, isOpen, recvPc, bufferVars, frame_bytes_received, frame_count, psnVars,
          ended, queueVars, exit, opVars>>

Buffers == 0..QueueSize   \* +1 for the buffer we're currently receiving into
Slots == 1..Packets

Missing == 0     \* bytes set by memset(0xFF)
Junk == -1       \* bytes of the allocation nobody has written

Packet == [imm : BOOLEAN, psn : 0..(PsnMod - 1), frame : Nat, slot : 1..(Packets + 1),
           lost : Nat]

\* frame, after and before are history: the device's number of the frame, that
\* of the one received before it, and packets_dropped at that time.
Metadata == [received_frame_number : Nat, frame_bytes_received : Nat,
             packets_dropped : Nat, frame : Nat, after : Nat, before : Nat]

NoMetadata == [received_frame_number |-> 0, frame_bytes_received |-> 0,
               packets_dropped |-> 0, frame |-> 0, after |-> 0, before |-> 0]

RecvPcs == {"recv", "blocked", "signal", "sync", "memset", "exit", "done"}
OpPcs == {"idle", "waiting", "close", "join", "stopped"}

TypeOK ==
    /\ psn \in 0..(PsnMod - 1)
    /\ sending \in [frame : Nat, slot : 1..(Packets + 1)]
    /\ lost \in Nat /\ burst \in 0..MaxBurst
    /\ socket \in Seq(Packet) /\ Len(socket) <= SocketSize /\ isOpen \in BOOLEAN
    /\ recvPc \in RecvPcs
    /\ receiving \in Buffers /\ next \in Buffers
    /\ mem \in [Buffers -> [Slots -> Int]] /\ meta \in [Buffers -> Metadata]
    /\ frame_bytes_received \in Nat
    /\ frame_count \in Nat /\ packets_dropped \in Nat
    /\ last_psn \in 0..(PsnMod - 1) /\ first \in BOOLEAN /\ base \in Nat /\ ended \in [frame : Nat, dropped : Nat]
    /\ ready \in Seq(Buffers) /\ available \in Seq(Buffers)
    /\ consumer_ready \in BOOLEAN /\ overrun \in Nat /\ exit \in BOOLEAN
    /\ opPc \in OpPcs /\ out \in Nat
    /\ stream \in Seq([buffer : Buffers, want : [Slots -> Int]])

Init ==
    /\ psn = 0 /\ sending = [frame |-> 1, slot |-> 1]
    /\ lost = 0 /\ burst = 0
    /\ socket = <<>> /\ isOpen = TRUE
    /\ recvPc = "recv"
    /\ receiving = 0 /\ next = 0
    /\ mem = [b \in Buffers |-> [s \in Slots |-> Junk]]
    /\ meta = [b \in Buffers |-> NoMetadata]
    /\ frame_bytes_received = 0 /\ frame_count = 0 /\ packets_dropped = 0
    /\ last_psn = 0 /\ first = TRUE /\ base = 0 /\ ended = [frame |-> 0, dropped |-> 0]
    /\ ready = <<>> /\ available = [i \in 1..QueueSize |-> i]
    /\ consumer_ready = FALSE /\ overrun = 0 /\ exit = FALSE
    /\ opPc = "idle" /\ out = 0 /\ stream = <<>>

-----------------------------------------------------------------------------
(* RoCEv2Transmitter::send and the network (external). *)

txUnchanged == UNCHANGED <<isOpen, recvPc, bufferVars, frame_bytes_received, frame_count, psnVars, ended,
                           queueVars, exit, opVars>>

(* The packet reaches the socket; a closed or full one discards it. *)
Arrives(imm) ==
    /\ isOpen /\ Len(socket) < SocketSize
    /\ socket' = Append(socket, [imm |-> imm, psn |-> psn, frame |-> sending.frame,
                                 slot |-> sending.slot, lost |-> lost])
    /\ burst' = 0
    /\ UNCHANGED lost

Lost ==
    /\ burst < MaxBurst
    /\ lost' = lost + 1 /\ burst' = burst + 1
    /\ UNCHANGED socket

\* Mutant: the sequence number is not reduced to its width.
SendPacket_NoMask ==
    /\ sending.frame <= MaxFrames /\ sending.slot <= Packets
    /\ Arrives(FALSE) \/ Lost
    /\ psn' = psn + 1
    /\ sending' = [sending EXCEPT !.slot = @ + 1]
    /\ txUnchanged

(* One pass of the loop over the content. A packet that sendto does not    *)
(* take is lost like any other: it is not repeated and uses up its number. *)
SendPacket ==
    /\ sending.frame <= MaxFrames /\ sending.slot <= Packets
    /\ Arrives(FALSE) \/ Lost
    /\ psn' = (psn + 1) % PsnMod
    /\ sending' = [sending EXCEPT !.slot = @ + 1]
    /\ txUnchanged

(* The immediate packet with the frame's metadata. *)
SendMetadata ==
    /\ sending.frame <= MaxFrames /\ sending.slot = Packets + 1
    /\ Arrives(TRUE) \/ Lost
    /\ psn' = (psn + 1) % PsnMod
    /\ sending' = [frame |-> sending.frame + 1, slot |-> 1]
    /\ txUnchanged

-----------------------------------------------------------------------------
(* The receiver thread: LinuxReceiver::run and signal. *)

recvUnchanged == UNCHANGED <<txVars, isOpen, exit, opVars>>

(* recv() on the socket; on a closed one it fails (EBADF). *)
RecvCall ==
    /\ recvPc = "recv"
    /\ recvPc' = IF isOpen THEN "blocked" ELSE "exit"
    /\ UNCHANGED <<socket, bufferVars, frame_bytes_received, frame_count, psnVars, ended, queueVars>>
    /\ recvUnchanged

(* recv() timed out: this is where exit_ is looked at. *)
RecvTimeout ==
    /\ recvPc = "blocked" /\ socket = <<>>
    /\ recvPc' = IF exit THEN "exit" ELSE "recv"
    /\ UNCHANGED <<socket, bufferVars, frame_bytes_received, frame_count, psnVars, ended, queueVars>>
    /\ recvUnchanged

RecvError ==
    /\ recvPc = "blocked" /\ RecvErrors
    /\ recvPc' = "exit"
    /\ UNCHANGED <<socket, bufferVars, frame_bytes_received, frame_count, psnVars, ended, queueVars>>
    /\ recvUnchanged

(* A datagram that is not a RoCE request is skipped. *)
RecvRunt ==
    /\ recvPc = "blocked"
    /\ recvPc' = "recv"
    /\ UNCHANGED <<socket, bufferVars, frame_bytes_received, frame_count, psnVars, ended, queueVars>>
    /\ recvUnchanged

\* Mutant: the difference is not reduced to the width of the counter.
CountDropped_NotMasked(p) ==
    /\ packets_dropped' = IF first \/ p.psn <= last_psn THEN packets_dropped
                          ELSE packets_dropped + (p.psn - (last_psn + 1))
    /\ base' = IF first THEN p.lost ELSE base
    /\ last_psn' = p.psn
    /\ first' = FALSE

(* How many packets are missing before packet p. *)
CountDropped(p) ==
    /\ packets_dropped' = IF first THEN packets_dropped
                          ELSE packets_dropped + ((p.psn - (last_psn + 1)) % PsnMod)
    /\ base' = IF first THEN p.lost ELSE base
    /\ last_psn' = p.psn
    /\ first' = FALSE

(* RDMA WRITE: the payload goes where its address, modulo the page, says. *)
RecvWrite ==
    /\ recvPc = "blocked" /\ socket # <<>> /\ ~Head(socket).imm
    /\ socket' = Tail(socket)
    /\ CountDropped(Head(socket))
    /\ frame_bytes_received' = frame_bytes_received + 1
    /\ mem' = [mem EXCEPT ![receiving][Head(socket).slot] = Head(socket).frame]
    /\ recvPc' = "recv"
    /\ UNCHANGED <<receiving, next, meta, frame_count, ended, queueVars>>
    /\ recvUnchanged

(* RDMA WRITE WITH IMMEDIATE: the frame ends; fill in its metadata. *)
RecvImmediate ==
    /\ recvPc = "blocked" /\ socket # <<>> /\ Head(socket).imm
    /\ socket' = Tail(socket)
    /\ CountDropped(Head(socket))
    /\ frame_count' = frame_count + 1
    /\ meta' = [meta EXCEPT ![receiving] =
                  [received_frame_number |-> frame_count',
                   frame_bytes_received |-> frame_bytes_received,
                   packets_dropped |-> packets_dropped',
                   frame |-> Head(socket).frame, after |-> ended.frame,
                   before |-> ended.dropped]]
    /\ ended' = [frame |-> Head(socket).frame, dropped |-> packets_dropped']
    /\ recvPc' = "signal"
    /\ UNCHANGED <<frame_bytes_received, receiving, next, mem, queueVars>>
    /\ recvUnchanged

(* signal() takes ready_mutex_ and chooses the buffer to fill next.        *)

\* if the consumer is not ready yet, avoid queueing up more frames
ReuseReady ==
    /\ ~consumer_ready /\ ready # <<>>
    /\ next' = Head(ready) /\ ready' = Tail(ready)
    /\ UNCHANGED <<available, overrun>>

\* Mutant: the newest waiting frame is given up.
DropOldest_DropsNewest ==
    /\ consumer_ready \/ ready = <<>>
    /\ available = <<>>
    /\ next' = ready[Len(ready)] /\ ready' = SubSeq(ready, 1, Len(ready) - 1)
    /\ overrun' = overrun + 1
    /\ UNCHANGED available

\* there is no available descriptor: use the oldest ready one
DropOldest ==
    /\ consumer_ready \/ ready = <<>>
    /\ available = <<>>
    /\ next' = Head(ready) /\ ready' = Tail(ready)
    /\ overrun' = overrun + 1
    /\ UNCHANGED available

UseAvailable ==
    /\ consumer_ready \/ ready = <<>>
    /\ available # <<>>
    /\ next' = Head(available) /\ available' = Tail(available)
    /\ UNCHANGED <<ready, overrun>>

SignalTake ==
    /\ recvPc = "signal"
    /\ ReuseReady \/ DropOldest \/ UseAvailable
    /\ recvPc' = "sync"
    /\ UNCHANGED <<socket, receiving, mem, meta, frame_bytes_received, frame_count, psnVars,
                   ended, consumer_ready>>
    /\ recvUnchanged

\* Mutant: signal() does not wait for the copy.
SignalPush_NoSync ==
    /\ recvPc = "sync"
    /\ ready' = Append(ready, receiving)
    /\ receiving' = next
    /\ recvPc' = "memset"
    /\ UNCHANGED <<socket, next, mem, meta, frame_bytes_received, frame_count, psnVars, ended,
                   available, consumer_ready, overrun>>
    /\ recvUnchanged

(* cuEventSynchronize returns when the copy from that buffer is complete;  *)
(* the received frame is queued and the mutex released.                    *)
SignalPush ==
    /\ recvPc = "sync"
    /\ \A i \in 1..Len(stream) : stream[i].buffer # next
    /\ ready' = Append(ready, receiving)
    /\ receiving' = next
    /\ recvPc' = "memset"
    /\ UNCHANGED <<socket, next, mem, meta, frame_bytes_received, frame_count, psnVars, ended,
                   available, consumer_ready, overrun>>
    /\ recvUnchanged

\* Mutant: the buffer is not cleared.
RecvMemset_Skipped ==
    /\ recvPc = "memset"
    /\ frame_bytes_received' = 0
    /\ recvPc' = "recv"
    /\ UNCHANGED <<socket, bufferVars, frame_count, psnVars, ended, queueVars>>
    /\ recvUnchanged

(* Make it easy to identify missing packets; reset the counters. *)
RecvMemset ==
    /\ recvPc = "memset"
    /\ mem' = [mem EXCEPT ![receiving] = [s \in Slots |-> Missing]]
    /\ frame_bytes_received' = 0
    /\ recvPc' = "recv"
    /\ UNCHANGED <<socket, receiving, next, meta, frame_count, psnVars, ended, queueVars>>
    /\ recvUnchanged

(* run() returns: the queues are emptied and the buffers freed. *)
RecvExit ==
    /\ recvPc = "exit"
    /\ ready' = <<>> /\ available' = <<>>
    /\ recvPc' = "done"
    /\ UNCHANGED <<socket, bufferVars, frame_bytes_received, frame_count, psnVars, ended,
                   consumer_ready, overrun>>
    /\ recvUnchanged

Receiver ==
    \/ RecvCall \/ RecvTimeout \/ RecvError \/ RecvRunt \/ RecvWrite \/ RecvImmediate
    \/ SignalTake \/ SignalPush \/ RecvMemset \/ RecvExit

-----------------------------------------------------------------------------
(* The operator: LinuxReceiver::get_next_frame and stop_receiver. *)

MutexFree == recvPc # "sync"

opUnchanged == UNCHANGED <<txVars, socket, recvPc, bufferVars, frame_bytes_received, frame_count,
                           psnVars, ended, overrun>>

\* Mutant: the buffer is handed back twice.
TakeFrame_Twice ==
    /\ ready # <<>>
    /\ out' = meta[Head(ready)].received_frame_number
    /\ stream' = Append(stream, [buffer |-> Head(ready), want |-> mem[Head(ready)]])
    /\ ready' = Tail(ready) /\ available' = available \o <<Head(ready), Head(ready)>>
    /\ opPc' = "idle"

(* Take the oldest frame and start to copy it to cu_buffer_; its buffer is *)
(* available again at once.                                                *)
TakeFrame ==
    /\ ready # <<>>
    /\ out' = meta[Head(ready)].received_frame_number
    /\ stream' = Append(stream, [buffer |-> Head(ready), want |-> mem[Head(ready)]])
    /\ ready' = Tail(ready) /\ available' = Append(available, Head(ready))
    /\ opPc' = "idle"

(* compute() calls get_next_frame: a frame is there, ... *)
GetTake ==
    /\ opPc = "idle" /\ MutexFree
    /\ consumer_ready' = TRUE
    /\ TakeFrame
    /\ UNCHANGED <<isOpen, exit>>
    /\ opUnchanged

(* ... or it waits for the condition variable. *)
GetWait ==
    /\ opPc = "idle" /\ MutexFree
    /\ consumer_ready' = TRUE
    /\ ready = <<>>
    /\ opPc' = "waiting"
    /\ UNCHANGED <<ready, available, isOpen, exit, out, stream>>
    /\ opUnchanged

WaitTake ==
    /\ opPc = "waiting" /\ MutexFree
    /\ TakeFrame
    /\ UNCHANGED <<consumer_ready, isOpen, exit>>
    /\ opUnchanged

(* ETIMEDOUT: no frame, even if one has just come. *)
WaitTimeout ==
    /\ opPc = "waiting" /\ MutexFree
    /\ opPc' = "idle"
    /\ UNCHANGED <<ready, available, consumer_ready, isOpen, exit, out, stream>>
    /\ opUnchanged

\* Mutant: the socket stays open.
OperatorStop_KeepsSocket ==
    /\ opPc = "idle"
    /\ opPc' = "close"
    /\ UNCHANGED <<ready, available, consumer_ready, isOpen, exit, out, stream>>
    /\ opUnchanged

(* stop_receiver: the data socket is closed first, ... *)
OperatorStop ==
    /\ opPc = "idle"
    /\ isOpen' = FALSE
    /\ opPc' = "close"
    /\ UNCHANGED <<ready, available, consumer_ready, exit, out, stream>>
    /\ opUnchanged

(* ... then exit_ is set ... *)
OperatorClose ==
    /\ opPc = "close"
    /\ exit' = TRUE
    /\ opPc' = "join"
    /\ UNCHANGED <<ready, available, consumer_ready, isOpen, out, stream>>
    /\ opUnchanged

(* ... and the thread is joined. *)
OperatorJoin ==
    /\ opPc = "join" /\ recvPc = "done"
    /\ opPc' = "stopped"
    /\ UNCHANGED <<ready, available, consumer_ready, isOpen, exit, out, stream>>
    /\ opUnchanged

GetNextFrame == GetTake \/ GetWait \/ WaitTake \/ WaitTimeout

(* The oldest copy completes (external: the CUDA stream). *)
CopyDone ==
    /\ stream # <<>>
    /\ stream' = Tail(stream)
    /\ UNCHANGED <<ready, available, consumer_ready, isOpen, exit, opPc, out>>
    /\ opUnchanged

Next ==
    \/ SendPacket \/ SendMetadata
    \/ Receiver
    \/ GetNextFrame
    \/ OperatorStop \/ OperatorClose \/ OperatorJoin
    \/ CopyDone

(* The threads are scheduled and copies complete. Nothing makes the        *)
(* emulator send, packets arrive, recv() fail or the operator stop.        *)
Fairness ==
    /\ WF_vars(Receiver) /\ WF_vars(GetNextFrame)
    /\ WF_vars(OperatorClose \/ OperatorJoin) /\ WF_vars(CopyDone)

SafetySpec == Init /\ [][Next]_vars
Spec == SafetySpec /\ Fairness

-----------------------------------------------------------------------------
(* Properties. *)

Running == recvPc \notin {"exit", "done"}

ToSet(s) == {s[i] : i \in 1..Len(s)}

\* The buffers the receiver thread holds: the one it fills and, inside
\* signal(), the one it will fill next.
Filling == IF recvPc = "sync" THEN {receiving, next} ELSE {receiving}

\* Every buffer is in exactly one place: with the receiver thread, in ready_
\* or in available_. get_next_frame and the three ways signal() finds a buffer
\* neither lose one nor hand one out twice.
BuffersConserved ==
    recvPc # "done" =>
        /\ Filling \cup ToSet(ready) \cup ToSet(available) = Buffers
        /\ Cardinality(Filling) + Len(ready) + Len(available) = QueueSize + 1

\* get_next_frame gives the buffer back while the GPU still copies from it:
\* until that copy is done the buffer keeps the bytes of the frame that was
\* delivered, whichever way it travels back to the receiver thread.
CopiesIntact ==
    recvPc # "done" => \A i \in 1..Len(stream) : mem[stream[i].buffer] = stream[i].want

\* Buffers are neither lost nor shared nor overwritten while they are copied.
BuffersSafe == TypeOK /\ BuffersConserved /\ CopiesIntact

\* packets_dropped counts exactly the packets that were lost between the first
\* and the last packet received, across the wrap of the 24-bit number: compared
\* here whenever the receiver has caught up with the sender.
DroppedExact ==
    ~first /\ burst = 0 /\ socket = <<>> => packets_dropped + base = lost

\* What an application can rely on: a frame with as many bytes as a frame has,
\* and across which packets_dropped has not moved, consists of
\* its own bytes only. Neither of the two is enough: a lost immediate packet
\* merges two frames into one whose byte count can be right, and losses before
\* the first packet do not count.
CompleteMeansIntact ==
    \A i \in 1..Len(ready) :
        LET m == meta[ready[i]]
        IN  /\ m.frame_bytes_received = Packets
            /\ m.packets_dropped = m.before
            => \A s \in Slots : mem[ready[i]][s] = m.frame

\* Where packets are missing a frame shows 0xFF or, when the immediate packets
\* of the frames right before it were lost, bytes of those; only the first
\* frame can show uninitialised memory. Bytes of a frame that was delivered
\* never show again.
NoStaleBytes ==
    \A i \in 1..Len(ready) :
        LET m == meta[ready[i]]
        IN  \A s \in Slots :
                mem[ready[i]][s] \in ((m.after + 1)..m.frame) \cup
                    (IF m.received_frame_number = 1 THEN {Junk} ELSE {Missing})

\* What a frame shows is its own, or recognisable as missing, and what is
\* missing is counted.
LossesVisible == CompleteMeansIntact /\ NoStaleBytes /\ DroppedExact

\* stop() returns even while packets keep coming: once the socket is closed
\* recv() fails or times out.
StopTerminates == (opPc = "close") ~> (opPc = "stopped")

\* The frame whose buffer signal() has just taken from ready_; nobody sees the
\* queue without it before the new frame is there, too.
GivenUp ==
    IF recvPc = "sync" /\ meta[next].received_frame_number > out
    THEN <<meta[next].received_frame_number>> ELSE <<>>

\* The receiver is a bounded, lossy, ordered stream of frames from which every
\* waiting frame is eventually taken.
Stream == INSTANCE FrameStream WITH
    Capacity <- QueueSize,
    arrived <- IF recvPc \in {"signal", "sync"} THEN frame_count - 1 ELSE frame_count,
    waiting <- GivenUp \o [i \in 1..Len(ready) |-> meta[ready[i]].received_frame_number],
    delivered <- out,
    dropped <- IF consumer_ready THEN overrun - Len(GivenUp) ELSE overrun,
    asked <- consumer_ready,
    open <- isOpen /\ recvPc # "done"

ImplementsFrameStream == Stream!Spec
=============================================================================
