---------------------------- MODULE RoceReceiver ----------------------------
(***************************************************************************)
(* The RoCE data plane of the host: the HSB device RDMA-writes frames into *)
(* a ring of pages, the monitor thread of RoceReceiver turns completions   *)
(* into queued descriptors, and BaseReceiverOp, scheduled by an            *)
(* asynchronous condition, takes them.                                     *)
(*                                                                         *)
(* Actors and where they live in the code:                                 *)
(*   device    external (the FPGA); it never waits for the host            *)
(*   monitor   RoceReceiver::blocking_monitor, a thread of its own         *)
(*   operator  BaseReceiverOp::start/compute/stop and the RoceReceiver     *)
(*             calls they make, one at a time (the scheduler's thread)     *)
(*   stream    the CUDA stream that copies frame metadata to the host      *)
(*                                                                         *)
(* A frame is identified by the number n the device gives it. ready_mutex_ *)
(* sections are single actions.                                            *)
(***************************************************************************)
EXTENDS Integers, Sequences, FiniteSets

CONSTANTS
    QueueSize,   \* queue_size_: descriptors the receiver owns
    Pages,       \* pages_: frame buffers the device cycles through
    RecvWRs,     \* receive work requests posted to the queue pair at start
    CounterMod,  \* 2^16: width of the frame number in the device's metadata
    MaxFrames    \* bound: frames the device sends

\* start_receiver rejects a queue of size zero or larger than the ring.
ASSUME RoceAssumption ==
    /\ QueueSize \in Nat \ {0}
    /\ Pages \in Nat /\ QueueSize <= Pages
    /\ RecvWRs \in Nat \ {0}
    /\ CounterMod \in Nat \ {0, 1}
    /\ MaxFrames \in Nat

VARIABLES
    \* the device and its memory
    streaming,   \* device_start has been called, device_stop has not
    begun,       \* frames the device has begun to write
    ended,       \* frames the device has finished
    data,        \* page -> frame whose payload was last written there
    meta,        \* page -> frame whose metadata was last written there
    \* ibverbs
    recvs,       \* receive work requests posted and not yet consumed
    cq,          \* completion queue: frames whose write-immediate arrived
    armed,       \* ibv_req_notify_cq is in effect
    event,       \* the completion channel is readable
    \* RoceReceiver
    monPc,       \* where the monitor thread is
    current,     \* the completion the monitor is handling
    frame_count, \* completions handled
    consumer_ready,
    ready,       \* ready_: descriptors waiting for get_next_frame
    available,   \* available_: free descriptors
    desc,        \* the descriptors' contents
    dropped,
    done,
    counter,     \* ExtendedCounter frame_number_
    \* BaseReceiverOp
    opPc,        \* where the operator is
    running,
    condition,   \* frame_ready_condition_
    out,         \* the metadata compute() last published
    \* history, used by the properties only
    delivered,   \* frames handed to compute()
    replaced     \* frames replaced before the consumer was ready

deviceVars   == <<streaming, begun, ended, data, meta>>
queueVars    == <<consumer_ready, ready, available, desc, dropped, replaced>>
outputVars   == <<counter, out, delivered>>
vars == <<deviceVars, recvs, cq, armed, event, monPc, current, frame_count,
          queueVars, done, outputVars, opPc, running, condition>>

Descriptors == 1..QueueSize
PageSet == 0..(Pages - 1)

PageOf(n) == (n - 1) % Pages

\* received is frame_count at completion; n and page come from the immediate;
\* host is the copy of the page's metadata, valid once copied.
Descriptor == [received : Nat, n : Nat, page : PageSet, dropped : Nat,
               host : Nat, copied : BOOLEAN]

EmptyDescriptor ==
    [received |-> 0, n |-> 0, page |-> 0, dropped |-> 0, host |-> 0, copied |-> FALSE]

MonitorPcs == {"none", "arm", "poll", "rearm", "drain", "lock",
               "callback", "set_done", "repost", "exited"}

OperatorPcs == {"created", "device_start", "check", "set_done", "idle", "waiting",
                "clear", "device_stop", "close", "join", "stopped"}

TypeOK ==
    /\ streaming \in BOOLEAN
    /\ begun \in Nat /\ ended \in Nat
    /\ data \in [PageSet -> Nat] /\ meta \in [PageSet -> Nat]
    /\ recvs \in Nat /\ cq \in Seq(Nat) /\ armed \in BOOLEAN /\ event \in BOOLEAN
    /\ monPc \in MonitorPcs /\ current \in Nat /\ frame_count \in Nat
    /\ consumer_ready \in BOOLEAN
    /\ ready \in Seq(Descriptors) /\ available \in Seq(Descriptors)
    /\ desc \in [Descriptors -> Descriptor]
    /\ dropped \in Nat /\ done \in BOOLEAN
    /\ counter \in [current : Nat, previous : Nat]
    /\ opPc \in OperatorPcs /\ running \in BOOLEAN
    /\ condition \in {"WAIT", "EVENT_WAITING", "EVENT_DONE", "EVENT_NEVER"}
    /\ out \in [n : Nat, received : Nat, dropped : Nat, host : Nat, frame_number : Nat]
    /\ delivered \in Nat /\ replaced \in Nat

Init ==
    /\ streaming = FALSE
    /\ begun = 0 /\ ended = 0
    /\ data = [p \in PageSet |-> 0] /\ meta = [p \in PageSet |-> 0]
    /\ recvs = RecvWRs /\ cq = <<>> /\ armed = FALSE /\ event = FALSE
    /\ monPc = "none" /\ current = 0 /\ frame_count = 0
    \* a std::atomic<bool> the constructor does not initialise
    /\ consumer_ready \in BOOLEAN
    /\ ready = <<>> /\ available = <<>>
    /\ desc = [d \in Descriptors |-> EmptyDescriptor]
    /\ dropped = 0 /\ done = FALSE
    /\ counter = [current |-> 0, previous |-> 0]
    /\ opPc = "created" /\ running = FALSE /\ condition = "WAIT"
    /\ out = [n |-> 0, received |-> 0, dropped |-> 0, host |-> 0, frame_number |-> 0]
    /\ delivered = 0 /\ replaced = 0

-----------------------------------------------------------------------------
(* The device (external). It writes the payload, then the metadata, then   *)
(* sends the write-immediate that becomes a completion.                    *)

DeviceBegin ==
    /\ streaming /\ begun = ended /\ begun < MaxFrames
    /\ begun' = begun + 1
    /\ data' = [data EXCEPT ![PageOf(begun')] = begun']
    /\ UNCHANGED <<streaming, ended, meta, recvs, cq, armed, event, monPc, current,
                   frame_count, queueVars, done, outputVars, opPc, running, condition>>

(* A completion raises an event only if the queue was armed beforehand. *)
Completion ==
    /\ recvs > 0
    /\ recvs' = recvs - 1
    /\ cq' = Append(cq, ended')
    /\ armed' = FALSE
    /\ event' = (event \/ armed)

(* The write-immediate is lost on the way, or no work request is posted. *)
NoCompletion == UNCHANGED <<recvs, cq, armed, event>>

DeviceEnd ==
    /\ ended < begun
    /\ ended' = begun
    /\ meta' = [meta EXCEPT ![PageOf(begun)] = begun]
    /\ Completion \/ NoCompletion
    /\ UNCHANGED <<streaming, begun, data, monPc, current, frame_count, queueVars,
                   done, outputVars, opPc, running, condition>>

-----------------------------------------------------------------------------
(* The monitor thread: RoceReceiver::blocking_monitor. *)

MonitorUnchanged ==
    UNCHANGED <<deviceVars, outputVars, done, opPc, running>>

(* The descriptors are created, then the first ibv_req_notify_cq. *)
MonitorArm ==
    /\ monPc = "arm"
    /\ available' = [d \in Descriptors |-> d]
    /\ armed' = TRUE
    /\ monPc' = "poll"
    /\ UNCHANGED <<recvs, cq, event, current, frame_count, consumer_ready, ready, desc,
                   dropped, replaced, condition>>
    /\ MonitorUnchanged

\* Mutant: every work request is taken to be still posted when they are flushed.
MonitorExit_FlushAll ==
    /\ monPc \in {"poll", "drain"}
    /\ done
    /\ monPc' = "exited"
    /\ cq' = <<>> /\ recvs' = recvs - RecvWRs
    /\ armed' = FALSE /\ event' = FALSE
    /\ UNCHANGED <<current, frame_count, queueVars, condition>>
    /\ MonitorUnchanged

\* Mutant: the control pipe does not wake poll().
MonitorExit_NoPipe ==
    /\ monPc = "drain"
    /\ done
    /\ monPc' = "exited"
    /\ cq' = <<>> /\ recvs' = 0
    /\ armed' = FALSE /\ event' = FALSE
    /\ UNCHANGED <<current, frame_count, queueVars, condition>>
    /\ MonitorUnchanged

(* while (!done_) poll(): a closed control pipe ends the loop, whatever    *)
(* else is pending; free_ib_resources drains the completion queue.         *)
MonitorExit ==
    /\ monPc \in {"poll", "drain"}
    /\ done
    /\ monPc' = "exited"
    /\ cq' = <<>> /\ recvs' = 0
    /\ armed' = FALSE /\ event' = FALSE
    /\ UNCHANGED <<current, frame_count, queueVars, condition>>
    /\ MonitorUnchanged

\* Mutant: the completion queue is not armed again.
MonitorGetEvent_NoRearm ==
    /\ monPc = "poll"
    /\ event
    /\ event' = FALSE
    /\ monPc' = "drain"
    /\ UNCHANGED <<recvs, cq, armed, current, frame_count, queueVars, condition>>
    /\ MonitorUnchanged

(* poll() returned for the completion channel: get the event and ack it. *)
MonitorGetEvent ==
    /\ monPc = "poll"
    /\ event
    /\ event' = FALSE
    /\ monPc' = "rearm"
    /\ UNCHANGED <<recvs, cq, armed, current, frame_count, queueVars, condition>>
    /\ MonitorUnchanged

MonitorRearm ==
    /\ monPc = "rearm"
    /\ armed' = TRUE
    /\ monPc' = "drain"
    /\ UNCHANGED <<recvs, cq, event, current, frame_count, queueVars, condition>>
    /\ MonitorUnchanged

(* ibv_poll_cq: take one completion, or find none and go back to poll(). *)
MonitorPollCq ==
    /\ monPc = "drain"
    /\ ~done
    /\ \/ /\ cq # <<>>
          /\ current' = Head(cq) /\ cq' = Tail(cq)
          /\ frame_count' = frame_count + 1
          /\ monPc' = "lock"
       \/ /\ cq = <<>>
          /\ monPc' = "poll"
          /\ UNCHANGED <<current, cq, frame_count>>
    /\ UNCHANGED <<recvs, armed, event, queueVars, condition>>
    /\ MonitorUnchanged

(* The descriptor d now describes the completion being handled; the copy   *)
(* of its metadata has been started on the CUDA stream.                    *)
Fill(d) ==
    desc' = [desc EXCEPT ![d] =
                [received |-> frame_count, n |-> current, page |-> PageOf(current),
                 dropped |-> dropped', host |-> @.host, copied |-> FALSE]]

\* if the consumer is not ready yet, avoid queueing up more frames
ReplaceReady ==
    /\ ~consumer_ready /\ ready # <<>>
    /\ ready' = Append(Tail(ready), Head(ready))
    /\ replaced' = replaced + 1
    /\ UNCHANGED <<available, dropped>>
    /\ Fill(Head(ready))

\* Mutant: the newest waiting frame gives up its descriptor.
DropOldest_DropsNewest ==
    /\ consumer_ready \/ ready = <<>>
    /\ available = <<>>
    /\ dropped' = dropped + 1
    /\ UNCHANGED <<ready, available, replaced>>
    /\ Fill(ready[Len(ready)])

\* Mutant: the dropped frame is not counted.
DropOldest_NotCounted ==
    /\ consumer_ready \/ ready = <<>>
    /\ available = <<>>
    /\ ready' = Append(Tail(ready), Head(ready))
    /\ UNCHANGED <<available, dropped, replaced>>
    /\ Fill(Head(ready))

\* no available descriptor: use the oldest ready one and drop its frame
DropOldest ==
    /\ consumer_ready \/ ready = <<>>
    /\ available = <<>>
    /\ ready' = Append(Tail(ready), Head(ready))
    /\ dropped' = dropped + 1
    /\ UNCHANGED <<available, replaced>>
    /\ Fill(Head(ready))

UseAvailable ==
    /\ consumer_ready \/ ready = <<>>
    /\ available # <<>>
    /\ ready' = Append(ready, Head(available))
    /\ available' = Tail(available)
    /\ UNCHANGED <<dropped, replaced>>
    /\ Fill(Head(available))

(* The section under ready_mutex_. *)
MonitorQueue ==
    /\ monPc = "lock"
    /\ ReplaceReady \/ DropOldest \/ UseAvailable
    /\ monPc' = "callback"
    /\ UNCHANGED <<consumer_ready, recvs, cq, armed, event, current, frame_count, condition>>
    /\ MonitorUnchanged

(* frame_ready_ is BaseReceiverOp::frame_ready: it tests running_ ... *)
MonitorFrameReady ==
    /\ monPc = "callback"
    /\ monPc' = IF running THEN "set_done" ELSE "repost"
    /\ UNCHANGED <<recvs, cq, armed, event, current, frame_count, queueVars, condition>>
    /\ MonitorUnchanged

(* ... and then sets the condition. *)
MonitorSetDone ==
    /\ monPc = "set_done"
    /\ condition' = "EVENT_DONE"
    /\ monPc' = "repost"
    /\ UNCHANGED <<recvs, cq, armed, event, current, frame_count, queueVars>>
    /\ MonitorUnchanged

\* Mutant: the work request is not put back.
MonitorRepost_Forgotten ==
    /\ monPc = "repost"
    /\ monPc' = "drain"
    /\ UNCHANGED <<recvs, cq, armed, event, current, frame_count, queueVars, condition>>
    /\ MonitorUnchanged

(* ibv_post_recv puts a work request back. *)
MonitorRepost ==
    /\ monPc = "repost"
    /\ recvs' = recvs + 1
    /\ monPc' = "drain"
    /\ UNCHANGED <<cq, armed, event, current, frame_count, queueVars, condition>>
    /\ MonitorUnchanged

Monitor ==
    \/ MonitorArm \/ MonitorExit \/ MonitorGetEvent \/ MonitorRearm \/ MonitorPollCq
    \/ MonitorQueue \/ MonitorFrameReady \/ MonitorSetDone \/ MonitorRepost

(* The CUDA stream executes a copy started by copy_metadata_to_host. A     *)
(* copy superseded by a later one to the same descriptor leaves no trace.  *)
CopyMetadata(d) ==
    /\ \E i \in 1..Len(ready) : ready[i] = d
    /\ ~desc[d].copied
    /\ desc' = [desc EXCEPT ![d].host = meta[desc[d].page], ![d].copied = TRUE]
    /\ UNCHANGED <<deviceVars, recvs, cq, armed, event, monPc, current, frame_count,
                   consumer_ready, ready, available, dropped, replaced, done,
                   outputVars, opPc, running, condition>>

-----------------------------------------------------------------------------
(* The operator: BaseReceiverOp with RoceReceiverOp's receiver. *)

OperatorUnchanged ==
    UNCHANGED <<begun, ended, data, meta, recvs, cq, armed, event, current, frame_count>>

(* start(): running_, then start_receiver creates the monitor thread. *)
OperatorStart ==
    /\ opPc = "created"
    /\ running' = TRUE
    /\ monPc' = "arm"
    /\ opPc' = "device_start"
    /\ OperatorUnchanged
    /\ UNCHANGED <<streaming, queueVars, done, outputVars, condition>>

(* configure_roce and device_start: from here on frames may arrive. *)
OperatorDeviceStart ==
    /\ opPc = "device_start"
    /\ streaming' = TRUE
    /\ opPc' = "check"
    /\ OperatorUnchanged
    /\ UNCHANGED <<monPc, queueVars, done, outputVars, running, condition>>

(* if (frames_ready()) at the end of start() and of compute() ... *)
OperatorFramesReady ==
    /\ opPc = "check"
    /\ opPc' = IF ready # <<>> THEN "set_done" ELSE "idle"
    /\ OperatorUnchanged
    /\ UNCHANGED <<streaming, monPc, queueVars, done, outputVars, running, condition>>

(* ... sets the condition. *)
OperatorSetDone ==
    /\ opPc = "set_done"
    /\ condition' = "EVENT_DONE"
    /\ opPc' = "idle"
    /\ OperatorUnchanged
    /\ UNCHANGED <<streaming, monPc, queueVars, done, outputVars, running>>

\* Mutant: the difference is not taken in the narrow unsigned type.
Update_Wide(c, in) == [current |-> c.current + in - c.previous, previous |-> in]

(* ExtendedCounter::update *)
Update(c, in) ==
    LET delta == (in - c.previous) % CounterMod
    IN  [current |-> c.current + delta, previous |-> in]

\* Mutant: the descriptor is not returned to available_.
TakeFrame_Leaks ==
    /\ ready # <<>>
    /\ LET d == desc[Head(ready)]
       IN  /\ d.copied
           /\ counter' = Update(counter, d.host % CounterMod)
           /\ out' = [n |-> d.n, received |-> d.received, dropped |-> d.dropped,
                      host |-> d.host, frame_number |-> counter'.current]
    /\ ready' = Tail(ready)
    /\ delivered' = delivered + 1
    /\ opPc' = "clear"
    /\ UNCHANGED <<available, desc, dropped, replaced>>

(* The part of get_next_frame that takes the oldest ready descriptor; it   *)
(* waits for the metadata copy and returns the descriptor to available_.   *)
TakeFrame ==
    /\ ready # <<>>
    /\ LET d == desc[Head(ready)]
       IN  /\ d.copied
           /\ counter' = Update(counter, d.host % CounterMod)
           /\ out' = [n |-> d.n, received |-> d.received, dropped |-> d.dropped,
                      host |-> d.host, frame_number |-> counter'.current]
    /\ ready' = Tail(ready)
    /\ available' = Append(available, Head(ready))
    /\ delivered' = delivered + 1
    /\ opPc' = "clear"
    /\ UNCHANGED <<desc, dropped, replaced>>

(* compute() is called because the condition is EVENT_DONE, and            *)
(* get_next_frame finds a frame without waiting.                           *)
ComputeTake ==
    /\ opPc = "idle" /\ condition = "EVENT_DONE"
    /\ consumer_ready' = TRUE
    /\ TakeFrame
    /\ OperatorUnchanged
    /\ UNCHANGED <<streaming, monPc, done, running, condition>>

(* get_next_frame finds nothing and waits on ready_condition_. *)
ComputeWait ==
    /\ opPc = "idle" /\ condition = "EVENT_DONE"
    /\ ready = <<>>
    /\ consumer_ready' = TRUE
    /\ opPc' = "waiting"
    /\ OperatorUnchanged
    /\ UNCHANGED <<streaming, monPc, ready, available, desc, dropped, replaced, done,
                   outputVars, running, condition>>

WaitTake ==
    /\ opPc = "waiting"
    /\ TakeFrame
    /\ OperatorUnchanged
    /\ UNCHANGED <<streaming, monPc, consumer_ready, done, running, condition>>

\* Mutant: the condition is cleared on the timeout path.
WaitTimeout_Clears ==
    /\ opPc = "waiting"
    /\ condition' = "EVENT_WAITING"
    /\ opPc' = "idle"
    /\ OperatorUnchanged
    /\ UNCHANGED <<streaming, monPc, queueVars, done, outputVars, running>>

(* ETIMEDOUT is not followed by another look at ready_; compute returns    *)
(* without touching the condition.                                         *)
WaitTimeout ==
    /\ opPc = "waiting"
    /\ opPc' = "idle"
    /\ OperatorUnchanged
    /\ UNCHANGED <<streaming, monPc, queueVars, done, outputVars, running, condition>>

\* Mutant: frames_ready() is not consulted after the condition is cleared.
ComputeClear_NoRecheck ==
    /\ opPc = "clear"
    /\ condition' = "EVENT_WAITING"
    /\ opPc' = "idle"
    /\ OperatorUnchanged
    /\ UNCHANGED <<streaming, monPc, queueVars, done, outputVars, running>>

(* compute() clears the condition before it looks at frames_ready(). *)
ComputeClear ==
    /\ opPc = "clear"
    /\ condition' = "EVENT_WAITING"
    /\ opPc' = "check"
    /\ OperatorUnchanged
    /\ UNCHANGED <<streaming, monPc, queueVars, done, outputVars, running>>

(* stop(): running_ first, ... *)
OperatorStop ==
    /\ opPc = "idle"
    /\ running' = FALSE
    /\ opPc' = "device_stop"
    /\ OperatorUnchanged
    /\ UNCHANGED <<streaming, monPc, queueVars, done, outputVars, condition>>

(* ... device_stop and unconfigure, ... *)
OperatorDeviceStop ==
    /\ opPc = "device_stop"
    /\ streaming' = FALSE
    /\ opPc' = "close"
    /\ OperatorUnchanged
    /\ UNCHANGED <<monPc, queueVars, done, outputVars, running, condition>>

(* ... RoceReceiver::close, ... *)
OperatorClose ==
    /\ opPc = "close"
    /\ done' = TRUE
    /\ opPc' = "join"
    /\ OperatorUnchanged
    /\ UNCHANGED <<streaming, monPc, queueVars, outputVars, running, condition>>

\* Mutant: stop() does not wait for the monitor thread.
OperatorJoin_NoJoin ==
    /\ opPc = "join"
    /\ condition' = "EVENT_NEVER"
    /\ opPc' = "stopped"
    /\ OperatorUnchanged
    /\ UNCHANGED <<streaming, monPc, queueVars, done, outputVars, running>>

(* ... the join, and EVENT_NEVER. *)
OperatorJoin ==
    /\ opPc = "join"
    /\ monPc = "exited"
    /\ condition' = "EVENT_NEVER"
    /\ opPc' = "stopped"
    /\ OperatorUnchanged
    /\ UNCHANGED <<streaming, monPc, queueVars, done, outputVars, running>>

Starting == OperatorStart \/ OperatorDeviceStart
Compute ==
    \/ OperatorFramesReady \/ OperatorSetDone \/ ComputeTake \/ ComputeWait
    \/ WaitTake \/ WaitTimeout \/ ComputeClear
Stopping == OperatorDeviceStop \/ OperatorClose \/ OperatorJoin

Next ==
    \/ DeviceBegin \/ DeviceEnd
    \/ Monitor
    \/ \E d \in Descriptors : CopyMetadata(d)
    \/ Starting \/ Compute \/ OperatorStop \/ Stopping

(* Threads are scheduled and the CUDA stream makes progress; nothing makes *)
(* the device send a frame or the application stop.                        *)
Fairness ==
    /\ WF_vars(Monitor)
    /\ WF_vars(Starting \/ Compute \/ Stopping)
    /\ \A d \in Descriptors : WF_vars(CopyMetadata(d))

SafetySpec == Init /\ [][Next]_vars
Spec == SafetySpec /\ Fairness

-----------------------------------------------------------------------------
(* Properties. *)

\* Every descriptor is in one of ready_ and available_ and none is queued
\* twice: no path of blocking_monitor or get_next_frame leaks or duplicates
\* one, so that front() is never taken of two empty queues.
DescriptorsConserved ==
    monPc \notin {"none", "arm"} =>
        /\ Len(ready) + Len(available) = QueueSize
        /\ \A i, j \in 1..Len(ready) : ready[i] = ready[j] => i = j
        /\ \A i, j \in 1..Len(available) : available[i] = available[j] => i = j
        /\ \A i \in 1..Len(ready), j \in 1..Len(available) : ready[i] # available[j]

Queued == IF monPc = "lock" THEN frame_count - 1 ELSE frame_count

\* ready_ holds the newest completions, consecutively and oldest first,
\* whichever of the three branches of blocking_monitor filed them.
ReadyIsNewest ==
    \A i \in 1..Len(ready) : desc[ready[i]].received = Queued - Len(ready) + i

\* Every completion is delivered, waiting, counted in dropped_ or was
\* replaced before the consumer was ready: the statistics published with a
\* frame account for every frame that is missing.
FramesAccounted == Queued = delivered + Len(ready) + dropped + replaced

\* ready_ and available_ are correct after every step of the monitor thread
\* and of get_next_frame: nothing leaks, the newest frames wait in order and
\* the missing ones are counted.
QueueCorrect == TypeOK /\ DescriptorsConserved /\ ReadyIsNewest /\ FramesAccounted

\* The payload of a waiting frame has not been overwritten by the device as
\* long as the backlog in the completion queue and queue_size_ leave a page
\* to spare. With queue_size_ = pages_, which start_receiver allows, there
\* is no such margin.
WaitingFrameIntact ==
    (Queued + Len(cq) + (IF monPc = "lock" THEN 1 ELSE 0) = ended
        /\ QueueSize + Len(cq) + (IF monPc = "lock" THEN 1 ELSE 0) < Pages)
    => \A i \in 1..Len(ready) : data[desc[ready[i]].page] = desc[ready[i]].n

\* The condition set by frame_ready() and cleared by compute() never loses a
\* frame: when the operator is not running and will not be scheduled, either
\* nothing is waiting or the monitor is about to call frame_ready().
NoLostWakeup ==
    opPc = "idle" /\ condition # "EVENT_DONE" /\ ready # <<>>
        => monPc \in {"callback", "set_done"}

\* After stop() the operator is never scheduled again, although the monitor
\* thread may be between its test of running_ and its write of the condition
\* when stop() begins.
NeverMeansNever == [][condition = "EVENT_NEVER" => condition' = "EVENT_NEVER"]_vars

\* ExtendedCounter recovers the device's frame number from its low bits as
\* long as fewer than 2^16 frames are missed between two deliveries.
FrameNumberExtended ==
    [][ (out' # out /\ counter.current = out.n /\ out'.host = out'.n
            /\ out'.n - out.n < CounterMod)
        => out'.frame_number = out'.n ]_vars

\* Work requests are conserved: a completion that has been taken off the
\* completion queue is given its work request back before the next is taken.
WorkRequestsConserved ==
    monPc # "exited" =>
        recvs + Len(cq)
            + (IF monPc \in {"lock", "callback", "set_done", "repost"} THEN 1 ELSE 0)
          = RecvWRs

\* close() ends the monitor thread wherever it was, so that stop() returns.
StopTerminates == (opPc = "device_stop") ~> (opPc = "stopped")

\* stop() returns and is final.
StopIsFinal == NeverMeansNever /\ StopTerminates

\* The receiver and operator together are a bounded, lossy, ordered stream
\* of frames from which every waiting frame is eventually taken.
Stream == INSTANCE FrameStream WITH
    Capacity <- QueueSize,
    arrived <- Queued,
    waiting <- [i \in 1..Len(ready) |-> desc[ready[i]].received],
    delivered <- out.received,
    asked <- consumer_ready,
    open <- opPc \notin {"device_stop", "close", "join", "stopped"}

ImplementsFrameStream == Stream!Spec

\* Re-arming before draining is enough: once a first completion has been
\* handled, no interleaving of arrivals with ibv_get_cq_event,
\* ibv_req_notify_cq and ibv_poll_cq leaves a completion in the queue while
\* the monitor sleeps; completions that arrived before the first arming are
\* found with the next one.
StrandedOnlyAtStart ==
    monPc = "poll" /\ cq # <<>> => event \/ (armed /\ frame_count = 0)

\* Receiving never dries up: no completion is left behind and no work request
\* is lost, however arrivals and the monitor's steps interleave.
CompletionsServed == WorkRequestsConserved /\ StrandedOnlyAtStart
=============================================================================
