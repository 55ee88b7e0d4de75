--------------------------- MODULE RoceTransmitter ---------------------------
(***************************************************************************)
(* RoceTransmitterOp: tensors are copied into registered buffers and sent  *)
(* to the device through a queue pair.                                     *)
(*                                                                         *)
(* Actors and where they live in the code:                                 *)
(*   operator      start, compute, stop and the on_stop callback, which    *)
(*                 may call flush (roce_transmitter_test.cpp does)         *)
(*   transmission  transmission_thread                                     *)
(*   completion    completion_thread                                       *)
(*   NIC, stream   external: the queue pair, and each buffer's CUDA stream *)
(*                                                                         *)
(* A buffer is available, pending or sent; mutex_ guards the three queues  *)
(* and every section under it is one action, except the transmission       *)
(* thread's predicate test and its sleep, because running_ is changed      *)
(* without the mutex. The k-th tensor stored is the number k, and is sent  *)
(* with wr_id k - 1.                                                       *)
(***************************************************************************)
EXTENDS Integers, Sequences, FiniteSets

CONSTANTS
    QueueSize,   \* queue_size_: buffers, and entries of the completion queue
    MaxTensors,  \* bound: tensors stored
    MaxFaults    \* bound: failing calls and requests

\* start() rejects a queue of size zero.
ASSUME TransmitterAssumption ==
    QueueSize \in Nat \ {0} /\ MaxTensors \in Nat /\ MaxFaults \in Nat

VARIABLES
    \* the operator's thread
    opPc,       \* where the operator is
    timed,      \* flush was given a time-out
    flushed,    \* flush returned true when this many tensors had been stored
    \* shared by the operator and its threads
    running_,
    available,  \* available_buffers_
    pending,    \* pending_buffers_
    sent,       \* sent_buffers_: <<wr_id, buffer>>
    asleep,     \* threads blocked in cv_.wait
    \* the threads
    txPc, txCurrent, wr_id,
    compPc, compCurrent,
    \* outside
    nic,        \* requests posted and not finished, oldest first
    cq,         \* the completion queue
    qp_error,   \* the queue pair is in the error state
    stream,     \* buffer -> tensors being copied into it
    content,    \* buffer -> tensor in its memory
    \* history
    wire,       \* <<wr_id, tensor>> of every request transmitted
    stored,     \* tensors stored so far
    faults,
    lost,       \* buffers that Store, when it threw, kept out of the queues
    missed      \* stop()'s notification came between test and sleep

opVars == <<opPc, timed, flushed>>
queueVars == <<available, pending, sent>>
txVars == <<txPc, txCurrent, wr_id>>
compVars == <<compPc, compCurrent>>
nicVars == <<nic, cq, qp_error, wire>>
copyVars == <<stream, content>>
history == <<stored, faults, lost, missed>>
vars == <<opVars, running_, queueVars, asleep, txVars, compVars, nicVars, copyVars, history>>

Buffers == 1..QueueSize
Tensors == 0..MaxTensors
Ids == 0..MaxTensors
Request == Ids \X Buffers
Completion == [id : Ids, ok : BOOLEAN]

TypeOK ==
    /\ opPc \in {"created", "idle", "queue", "threw", "flush", "stopping", "notify", "join",
                 "stopped"}
    /\ timed \in BOOLEAN /\ flushed \in Tensors
    /\ running_ \in BOOLEAN
    /\ available \in Seq(Buffers) /\ pending \in Seq(Buffers) /\ sent \in Seq(Request)
    /\ asleep \in SUBSET {"operator", "transmission"}
    /\ txPc \in {"none", "wait", "tested", "send", "ended"}
    /\ txCurrent \in Request /\ wr_id \in Ids
    /\ compPc \in {"none", "test", "poll", "take", "ended"}
    /\ compCurrent \in Completion
    /\ nic \in Seq(Request) /\ cq \in Seq(Completion) /\ qp_error \in BOOLEAN
    /\ stream \in [Buffers -> Seq(Tensors)] /\ content \in [Buffers -> Tensors]
    /\ wire \in Seq(Ids \X Tensors)
    /\ stored \in Tensors /\ faults \in 0..MaxFaults
    /\ lost \in SUBSET Buffers /\ missed \in BOOLEAN

Init ==
    /\ opPc = "created" /\ timed = FALSE /\ flushed = 0
    /\ running_ = FALSE
    /\ available = <<>> /\ pending = <<>> /\ sent = <<>>
    /\ asleep = {}
    /\ txPc = "none" /\ txCurrent = <<0, 1>> /\ wr_id = 0
    /\ compPc = "none" /\ compCurrent = [id |-> 0, ok |-> TRUE]
    /\ nic = <<>> /\ cq = <<>> /\ qp_error = FALSE
    /\ stream = [b \in Buffers |-> <<>>] /\ content = [b \in Buffers |-> 0]
    /\ wire = <<>>
    /\ stored = 0 /\ faults = 0 /\ lost = {} /\ missed = FALSE

-----------------------------------------------------------------------------
\* The transmission thread has tested its predicate and is not asleep yet.
MutexFree == txPc # "tested"

\* cv_.notify_all.
NotifyAll == asleep' = {}

\* One more call or request fails.
Fault == faults < MaxFaults /\ faults' = faults + 1

(* The operator. *)

\* start: Resource, connect, on_start, and the two threads.
Start ==
    /\ opPc = "created"
    /\ opPc' = "idle"
    /\ available' = [i \in 1..QueueSize |-> i]
    /\ running_' = TRUE
    /\ txPc' = "wait" /\ compPc' = "test"
    /\ UNCHANGED <<timed, flushed, pending, sent, asleep, txCurrent, wr_id, compCurrent, nicVars,
                   copyVars, history>>

\* The device cannot be opened or connected: start() throws.
StartFails ==
    /\ opPc = "created"
    /\ Fault
    /\ opPc' = "stopped"
    /\ UNCHANGED <<timed, flushed, running_, queueVars, asleep, txVars, compVars, nicVars,
                   copyVars, stored, lost, missed>>

(* compute: a tensor has arrived; queue_buffer is called. *)
Compute ==
    /\ opPc = "idle" /\ stored < MaxTensors
    /\ opPc' = "queue"
    /\ UNCHANGED <<timed, flushed, running_, queueVars, asleep, txVars, compVars, nicVars,
                   copyVars, history>>

\* queue_buffer: no buffer is available.
QueueWait ==
    /\ opPc = "queue" /\ "operator" \notin asleep /\ MutexFree
    /\ available = <<>>
    /\ asleep' = asleep \cup {"operator"}
    /\ UNCHANGED <<opVars, running_, queueVars, txVars, compVars, nicVars, copyVars, history>>

\* Mutant: a buffer is taken from the ones that were sent.
QueueStore_TakesSent ==
    /\ opPc = "queue" /\ "operator" \notin asleep /\ MutexFree
    /\ \/ /\ available # <<>>
          /\ available' = Tail(available) /\ pending' = Append(pending, Head(available))
          /\ stream' = [stream EXCEPT ![Head(available)] = Append(@, stored + 1)]
          /\ sent' = sent
       \/ /\ available = <<>> /\ sent # <<>>
          /\ sent' = Tail(sent) /\ pending' = Append(pending, Head(sent)[2])
          /\ stream' = [stream EXCEPT ![Head(sent)[2]] = Append(@, stored + 1)]
          /\ available' = available
    /\ stored' = stored + 1
    /\ opPc' = "idle"
    /\ NotifyAll
    /\ UNCHANGED <<timed, flushed, running_, txVars, compVars, nicVars, content, faults, lost,
                   missed>>

\* queue_buffer: Store starts the copy, and the buffer is pending.
QueueStore ==
    LET b == Head(available) IN
    /\ opPc = "queue" /\ "operator" \notin asleep /\ MutexFree
    /\ available # <<>>
    /\ available' = Tail(available)
    /\ stored' = stored + 1
    /\ stream' = [stream EXCEPT ![b] = Append(@, stored')]
    /\ pending' = Append(pending, b)
    /\ opPc' = "idle"
    /\ NotifyAll
    /\ UNCHANGED <<timed, flushed, running_, sent, txVars, compVars, nicVars, content, faults,
                   lost, missed>>

\* queue_buffer: Store throws (the tensor is too large, or CUDA fails) after
\* the buffer was popped; the application ends.
QueueThrows ==
    /\ opPc = "queue" /\ "operator" \notin asleep /\ MutexFree
    /\ available # <<>>
    /\ Fault
    /\ available' = Tail(available)
    /\ lost' = lost \cup {Head(available)}
    /\ opPc' = "threw"
    /\ UNCHANGED <<timed, flushed, running_, pending, sent, asleep, txVars, compVars, nicVars,
                   copyVars, stored, missed>>

\* stop: on_stop does nothing, or calls flush with or without a time-out.
Stop ==
    /\ opPc \in {"idle", "threw"}
    /\ opPc' \in {"stopping", "flush"}
    /\ timed' \in (IF opPc' = "flush" THEN BOOLEAN ELSE {FALSE})
    /\ UNCHANGED <<flushed, running_, queueVars, asleep, txVars, compVars, nicVars, copyVars,
                   history>>

\* Mutant: flush only looks at what is not yet sent.
FlushCondition_PendingOnly == pending = <<>>

FlushCondition == pending = <<>> /\ sent = <<>>

\* flush: something is still to be sent.
FlushWait ==
    /\ opPc = "flush" /\ "operator" \notin asleep /\ MutexFree
    /\ ~FlushCondition
    /\ asleep' = asleep \cup {"operator"}
    /\ UNCHANGED <<opVars, running_, queueVars, txVars, compVars, nicVars, copyVars, history>>

\* flush: it returns true, or the time is up.
FlushReturn ==
    /\ opPc = "flush" /\ MutexFree
    /\ \/ "operator" \notin asleep /\ FlushCondition
       \/ timed
    /\ flushed' = IF FlushCondition THEN stored ELSE 0
    /\ opPc' = "stopping"
    /\ NotifyAll
    /\ UNCHANGED <<timed, running_, queueVars, txVars, compVars, nicVars, copyVars, history>>

\* stop: running_ is cleared without mutex_.
StopRunning ==
    /\ opPc = "stopping"
    /\ running_' = FALSE
    /\ opPc' = "notify"
    /\ UNCHANGED <<timed, flushed, queueVars, asleep, txVars, compVars, nicVars, copyVars,
                   history>>

\* Mutant: nobody is notified.
StopNotify_Missing ==
    /\ opPc = "notify"
    /\ opPc' = "join"
    /\ UNCHANGED <<timed, flushed, running_, queueVars, asleep, txVars, compVars, nicVars,
                   copyVars, history>>

\* stop: cv_.notify_all, again without mutex_.
StopNotify ==
    /\ opPc = "notify"
    /\ NotifyAll
    /\ missed' = (txPc = "tested")
    /\ opPc' = "join"
    /\ UNCHANGED <<timed, flushed, running_, queueVars, txVars, compVars, nicVars, copyVars,
                   stored, faults, lost>>

\* stop: both threads are joined and the resource is released.
StopJoined ==
    /\ opPc = "join" /\ txPc = "ended" /\ compPc = "ended"
    /\ opPc' = "stopped"
    /\ UNCHANGED <<timed, flushed, running_, queueVars, asleep, txVars, compVars, nicVars,
                   copyVars, history>>

-----------------------------------------------------------------------------
(* transmission_thread. *)

TxAwake == txPc = "wait" /\ "transmission" \notin asleep

TxEnd ==
    /\ TxAwake /\ ~running_
    /\ txPc' = "ended"
    /\ UNCHANGED <<opVars, running_, queueVars, asleep, txCurrent, wr_id, compVars, nicVars,
                   copyVars, history>>

\* Mutant: the buffer is recorded as sent only by the next round.
TxTake_NotRecorded ==
    /\ TxAwake /\ running_ /\ pending # <<>>
    /\ pending' = Tail(pending)
    /\ txCurrent' = <<wr_id, Head(pending)>>
    /\ wr_id' = wr_id + 1
    /\ sent' = IF wr_id = 0 THEN sent ELSE Append(sent, txCurrent)
    /\ txPc' = "send"
    /\ UNCHANGED <<opVars, running_, available, asleep, compVars, nicVars, copyVars, history>>

\* The oldest pending buffer is recorded as sent, and then sent.
TxTake ==
    /\ TxAwake /\ running_ /\ pending # <<>>
    /\ pending' = Tail(pending)
    /\ txCurrent' = <<wr_id, Head(pending)>>
    /\ wr_id' = wr_id + 1
    /\ sent' = Append(sent, txCurrent')
    /\ txPc' = "send"
    /\ UNCHANGED <<opVars, running_, available, asleep, compVars, nicVars, copyVars, history>>

\* There is nothing to do: the predicate is false, mutex_ is still held ...
TxTested ==
    /\ TxAwake /\ running_ /\ pending = <<>>
    /\ txPc' = "tested"
    /\ UNCHANGED <<opVars, running_, queueVars, asleep, txCurrent, wr_id, compVars, nicVars,
                   copyVars, history>>

\* ... and is released by going to sleep.
TxSleep ==
    /\ txPc = "tested"
    /\ txPc' = "wait"
    /\ asleep' = asleep \cup {"transmission"}
    /\ UNCHANGED <<opVars, running_, queueVars, txCurrent, wr_id, compVars, nicVars, copyVars,
                   history>>

\* Mutant: the copy into the buffer is not waited for.
Synchronized_Skipped(b) == TRUE

\* get_scatter_gather_element: cudaStreamSynchronize returns.
Synchronized(b) == stream[b] = <<>>

\* send: the request is posted.
TxSend ==
    /\ txPc = "send"
    /\ Synchronized(txCurrent[2])
    /\ nic' = Append(nic, txCurrent)
    /\ txPc' = "wait"
    /\ UNCHANGED <<opVars, running_, queueVars, asleep, txCurrent, wr_id, compVars, cq, qp_error,
                   wire, copyVars, history>>

\* send: CUDA or ibv_post_send fails; the buffer stays in sent_buffers_.
TxSendFails ==
    /\ txPc = "send"
    /\ Fault
    /\ txPc' = "wait"
    /\ UNCHANGED <<opVars, running_, queueVars, asleep, txCurrent, wr_id, compVars, nicVars,
                   copyVars, stored, lost, missed>>

-----------------------------------------------------------------------------
(* completion_thread. *)

CompTest ==
    /\ compPc = "test"
    /\ compPc' = IF running_ THEN "poll" ELSE "ended"
    /\ UNCHANGED <<opVars, running_, queueVars, asleep, txVars, compCurrent, nicVars, copyVars,
                   history>>

\* The completion queue is empty, or its oldest entry is taken; one with an
\* error is only logged.
CompPoll ==
    /\ compPc = "poll"
    /\ \/ /\ cq = <<>>
          /\ compPc' = "test"
          /\ UNCHANGED <<compCurrent, cq>>
       \/ /\ cq # <<>>
          /\ cq' = Tail(cq)
          /\ compCurrent' = Head(cq)
          /\ compPc' = IF Head(cq).ok THEN "take" ELSE "test"
    /\ UNCHANGED <<opVars, running_, queueVars, asleep, txVars, nic, qp_error, wire, copyVars,
                   history>>

\* Mutant: nobody is told that a buffer is available.
CompTake_NoNotify ==
    /\ compPc = "take" /\ MutexFree
    /\ sent' = Tail(sent)
    /\ available' = Append(available, Head(sent)[2])
    /\ compPc' = "test"
    /\ UNCHANGED <<opVars, running_, pending, asleep, txVars, compCurrent, nicVars, copyVars,
                   history>>

\* The oldest sent buffer is available again; another wr_id than that of the
\* completion is only logged.
CompTake ==
    /\ compPc = "take" /\ MutexFree
    /\ sent' = Tail(sent)
    /\ available' = Append(available, Head(sent)[2])
    /\ NotifyAll
    /\ compPc' = "test"
    /\ UNCHANGED <<opVars, running_, pending, txVars, compCurrent, nicVars, copyVars, history>>

-----------------------------------------------------------------------------
(* The NIC finishes the requests in order; after an error all of them fail. *)

NicTransmit ==
    /\ nic # <<>> /\ ~qp_error
    /\ nic' = Tail(nic)
    /\ wire' = Append(wire, <<Head(nic)[1], content[Head(nic)[2]]>>)
    /\ cq' = Append(cq, [id |-> Head(nic)[1], ok |-> TRUE])
    /\ UNCHANGED <<opVars, running_, queueVars, asleep, txVars, compVars, qp_error, copyVars,
                   history>>

NicFails ==
    /\ nic # <<>>
    /\ IF qp_error THEN faults' = faults ELSE Fault
    /\ qp_error' = TRUE
    /\ nic' = Tail(nic)
    /\ cq' = Append(cq, [id |-> Head(nic)[1], ok |-> FALSE])
    /\ UNCHANGED <<opVars, running_, queueVars, asleep, txVars, compVars, wire, copyVars, stored,
                   lost, missed>>

(* The oldest copy of a buffer's stream ends. *)
CopyDone(b) ==
    /\ stream[b] # <<>>
    /\ content' = [content EXCEPT ![b] = Head(stream[b])]
    /\ stream' = [stream EXCEPT ![b] = Tail(@)]
    /\ UNCHANGED <<opVars, running_, queueVars, asleep, txVars, compVars, nicVars, history>>

-----------------------------------------------------------------------------
Call == Start \/ StartFails \/ Compute \/ Stop
Operator == \/ QueueWait \/ QueueStore \/ QueueThrows \/ FlushWait \/ FlushReturn
            \/ StopRunning \/ StopNotify \/ StopJoined
Transmission == TxEnd \/ TxTake \/ TxTested \/ TxSleep \/ TxSend \/ TxSendFails
CompletionThread == CompTest \/ CompPoll \/ CompTake
Nic == NicTransmit \/ NicFails

Next ==
    \/ Call \/ Operator \/ Transmission \/ CompletionThread \/ Nic
    \/ \E b \in Buffers : CopyDone(b)

(* Threads run, requests are finished and copies end; that another tensor  *)
(* arrives, or that the application stops, is not assumed.                 *)
Spec ==
    /\ Init /\ [][Next]_vars
    /\ WF_vars(Operator) /\ WF_vars(Transmission) /\ WF_vars(CompletionThread) /\ WF_vars(Nic)
    /\ \A b \in Buffers : WF_vars(CopyDone(b))

-----------------------------------------------------------------------------
(* Properties. *)

Items(s) == {s[i] : i \in DOMAIN s}
SentBuffers == [i \in DOMAIN sent |-> sent[i][2]]

\* A buffer is in exactly one of the three queues; only a Store that throws
\* takes one away for good.
BuffersConserved ==
    opPc \notin {"created", "stopped"} =>
        LET all == available \o pending \o SentBuffers IN
        /\ Len(all) + Cardinality(lost) = QueueSize
        /\ Items(all) = Buffers \ lost

\* The device is sent every tensor at most once, in the order of compute(),
\* and whole: no buffer is filled again while the NIC reads it, also when
\* failures have put sent_buffers_ out of step with the completions.
SentInOrder ==
    /\ \A i \in DOMAIN wire : wire[i][2] = wire[i][1] + 1
    /\ \A i, j \in DOMAIN wire : i < j => wire[i][1] < wire[j][1]

\* completion_thread never pops an empty queue, and completions and
\* sent_buffers_ disagree only after a failure.
CompletionsMatched ==
    compPc = "take" =>
        /\ sent # <<>>
        /\ Head(sent)[1] # compCurrent.id => faults > 0

\* The completion queue has one entry per buffer and is never overrun.
CompletionsFit == Len(cq) <= QueueSize

\* When flush returned true, everything stored had been transmitted.
FlushedMeansSent == flushed > 0 => Len(wire) >= flushed

\* The queues are correct and the tensors arrive.
TransmitCorrect ==
    TypeOK /\ BuffersConserved /\ SentInOrder /\ CompletionsMatched /\ CompletionsFit /\
    FlushedMeansSent

\* Requests of which a successful completion can still come.
InFlight ==
    Len(nic) + Len(SelectSeq(cq, LAMBDA c : c.ok)) + (IF compPc = "take" THEN 1 ELSE 0)
        + (IF txPc = "send" THEN 1 ELSE 0)

\* Buffers in sent_buffers_ that no completion will ever return.
Stranded == Len(sent) - InFlight

\* compute() gets a buffer unless failures have used up all of them, and
\* flush, with or without a time-out, returns unless a request failed: every
\* completion wakes up whoever waits.
OperationsReturn ==
    /\ (opPc = "queue") ~> (opPc # "queue" \/ Stranded + Cardinality(lost) = QueueSize)
    /\ (opPc = "flush") ~> (opPc # "flush" \/ (~timed /\ Stranded > 0))

\* stop() returns unless its notification, sent without mutex_, falls between
\* the transmission thread's test of running_ and its sleep.
StopReturns == (opPc = "notify") ~> (opPc = "stopped" \/ missed)
=============================================================================
