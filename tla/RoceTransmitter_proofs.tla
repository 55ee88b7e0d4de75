----------------------- MODULE RoceTransmitter_proofs -----------------------
(***************************************************************************)
(* RoceTransmitterOp for every queue size, number of tensors and number of *)
(* failures.                                                               *)
(***************************************************************************)
EXTENDS RoceTransmitter, FiniteSetTheorems, TLAPS

(* The inductive invariant. *)

Take == IF compPc = "take" THEN 1 ELSE 0
Sending == IF txPc = "send" THEN 1 ELSE 0

\* Tensors are numbered as they are stored and sent.
NumbersInv ==
    /\ stored = wr_id + Len(pending)
    /\ opPc = "queue" => stored < MaxTensors

In(e, s) == \E i \in 1..Len(s) : s[i] = e
Once(s) == \A i, j \in 1..Len(s) : s[i] = s[j] => i = j

\* A buffer is in one place of one queue.
DistinctInv ==
    /\ Once(available) /\ Once(pending) /\ Once(SentBuffers)
    /\ \A b \in Buffers :
           /\ In(b, available) => ~In(b, pending) /\ ~In(b, SentBuffers) /\ b \notin lost
           /\ In(b, pending) => ~In(b, SentBuffers) /\ b \notin lost
           /\ In(b, SentBuffers) => b \notin lost

Somewhere(b) == In(b, available) \/ In(b, pending) \/ In(b, SentBuffers) \/ b \in lost

NotStarted ==
    /\ opPc \in {"created", "stopped"}
    /\ available = <<>> /\ pending = <<>> /\ sent = <<>> /\ lost = {}
    /\ txPc = "none" /\ compPc = "none" /\ nic = <<>> /\ cq = <<>>

\* No buffer disappears.
PlacesInv ==
    \/ NotStarted
    \/ /\ opPc # "created"
       /\ Len(available) + Len(pending) + Len(sent) + Cardinality(lost) = QueueSize
       /\ \A b \in Buffers : Somewhere(b)

\* The r-th request that is not finished, x, is recorded in sent_buffers_, and
\* what failed before it is recorded in front of it.
Recorded(r, x) == \E j \in r..Len(sent) : sent[j] = x /\ (faults = 0 => j = r)
RecordedId(r, id) == \E j \in r..Len(sent) : sent[j][1] = id /\ (faults = 0 => j = r)

\* Every request that is not finished has its buffer in sent_buffers_.
TakenInv == compPc = "take" => RecordedId(1, compCurrent.id)
CompletedInv == \A i \in 1..Len(cq) : RecordedId(Take + i, cq[i].id)
PostedInv == \A i \in 1..Len(nic) : Recorded(Take + Len(cq) + i, nic[i])
SendingInv == txPc = "send" => sent[Len(sent)] = txCurrent
CountInv == Take + Len(cq) + Len(nic) + Sending <= Len(sent)

\* Without a failure, sent_buffers_ holds nothing else.
FaultlessInv ==
    faults = 0 =>
        /\ Take + Len(cq) + Len(nic) + Sending = Len(sent)
        /\ ~qp_error
        /\ \A i \in 1..Len(cq) : cq[i].ok

RequestsInv ==
    TakenInv /\ CompletedInv /\ PostedInv /\ SendingInv /\ CountInv /\ FaultlessInv

\* Requests are transmitted in the order of their numbers.
OrderInv ==
    /\ \A i, j \in 1..Len(wire) : i < j => wire[i][1] < wire[j][1]
    /\ \A i \in 1..Len(wire), j \in 1..Len(nic) : wire[i][1] < nic[j][1]
    /\ \A i, j \in 1..Len(nic) : i < j => nic[i][1] < nic[j][1]
    /\ \A i \in 1..Len(wire) : wire[i][1] < wr_id - Sending
    /\ \A i \in 1..Len(nic) : nic[i][1] < wr_id - Sending
    /\ txPc = "send" => txCurrent[1] = wr_id - 1

\* What a buffer holds once its stream is idle.
FinalOf(copies, c) == IF copies = <<>> THEN c ELSE copies[Len(copies)]
Final(b) == FinalOf(stream[b], content[b])

\* Each buffer on its way to the device holds the tensor of its number.
PendingContent == \A i \in 1..Len(pending) : Final(pending[i]) = wr_id + i
SendContent == txPc = "send" => Final(txCurrent[2]) = txCurrent[1] + 1
NicContent ==
    \A i \in 1..Len(nic) : stream[nic[i][2]] = <<>> /\ content[nic[i][2]] = nic[i][1] + 1
WireContent == \A i \in 1..Len(wire) : wire[i][2] = wire[i][1] + 1

ContentInv == PendingContent /\ SendContent /\ NicContent /\ WireContent

\* A buffer that has left sent_buffers_ left it for a request transmitted; the
\* first m completions are successes and the others failures.
Succeeded(m) ==
    /\ \A i \in 1..Len(cq) : cq[i].ok <=> i <= m
    /\ ~qp_error => m = Len(cq)
    /\ Len(wire) = wr_id - Len(sent) + Take + m

SuccessInv == (\E m \in 0..Len(cq) : Succeeded(m)) /\ FlushedMeansSent

TransmitInv ==
    /\ TypeOK /\ NumbersInv /\ DistinctInv /\ PlacesInv /\ RequestsInv
    /\ OrderInv /\ ContentInv /\ SuccessInv

-----------------------------------------------------------------------------
(* Sequences. *)

\* What Append does to a sequence.
LEMMA AppendFacts ==
    ASSUME NEW S, NEW s \in Seq(S), NEW e \in S
    PROVE  /\ Append(s, e) \in Seq(S)
           /\ Len(Append(s, e)) = Len(s) + 1
           /\ \A i \in 1..Len(s) : Append(s, e)[i] = s[i]
           /\ Append(s, e)[Len(s) + 1] = e
  OBVIOUS

\* What Tail and Head do to a non-empty sequence.
LEMMA TailFacts ==
    ASSUME NEW S, NEW s \in Seq(S), s # <<>>
    PROVE  /\ Head(s) \in S /\ Head(s) = s[1]
           /\ Tail(s) \in Seq(S)
           /\ Len(s) \in Nat \ {0}
           /\ Len(Tail(s)) = Len(s) - 1
           /\ \A i \in 1..Len(Tail(s)) : Tail(s)[i] = s[i + 1]
  OBVIOUS

-----------------------------------------------------------------------------
(* Steps that only move a program counter or wake somebody up. *)

Quiet ==
    /\ UNCHANGED <<queueVars, txCurrent, wr_id, compCurrent, nicVars, copyVars, stored, faults,
                   lost, flushed>>
    /\ compPc' = "take" <=> compPc = "take"
    /\ txPc' = "send" <=> txPc = "send"
    /\ opPc' = "queue" => opPc = "queue" \/ stored < MaxTensors
    /\ opPc' = "created" => opPc = "created"
    /\ NotStarted => NotStarted'

\* The steps that do more.
Busy ==
    \/ Start \/ StartFails \/ QueueStore \/ QueueThrows \/ FlushReturn
    \/ TxTake \/ TxSend \/ TxSendFails \/ CompPoll \/ CompTake
    \/ NicTransmit \/ NicFails \/ \E b \in Buffers : CopyDone(b)

\* Every step is one or the other.
LEMMA QuietOrBusy == [Next]_vars => Quiet \/ Busy
<1> SUFFICES ASSUME [Next]_vars PROVE Quiet \/ Busy
  OBVIOUS
<1>1. CASE Compute \/ Stop \/ QueueWait
  BY <1>1 DEF Compute, Stop, QueueWait, Quiet, NotStarted, opVars, queueVars, txVars, compVars,
       nicVars, copyVars, history
<1>2. CASE FlushWait \/ StopRunning \/ StopNotify
  BY <1>2 DEF FlushWait, StopRunning, StopNotify, Quiet, NotStarted, opVars, queueVars, txVars,
       compVars, nicVars, copyVars, history
<1>3. CASE StopJoined \/ TxEnd \/ TxTested
  BY <1>3 DEF StopJoined, TxEnd, TxTested, TxAwake, Quiet, NotStarted, opVars, queueVars, txVars,
       compVars, nicVars, copyVars, history
<1>4. CASE TxSleep \/ CompTest
  BY <1>4 DEF TxSleep, CompTest, Quiet, NotStarted, opVars, queueVars, txVars, compVars,
       nicVars, copyVars, history
<1>5. CASE UNCHANGED vars
  BY <1>5 DEF vars, Quiet, NotStarted, opVars, queueVars, txVars, compVars, nicVars, copyVars,
       history
<1>6. QED
  BY <1>1, <1>2, <1>3, <1>4, <1>5, Zenon
     DEF Next, Call, Operator, Transmission, CompletionThread, Nic, Busy

-----------------------------------------------------------------------------
(* Types. *)

\* TypeOK, grouped by who writes the variables.
OperatorTypes ==
    /\ opPc \in {"created", "idle", "queue", "threw", "flush", "stopping", "notify", "join",
                 "stopped"}
    /\ timed \in BOOLEAN /\ flushed \in Tensors
    /\ running_ \in BOOLEAN
    /\ asleep \in SUBSET {"operator", "transmission"}
    /\ missed \in BOOLEAN

QueueTypes ==
    /\ available \in Seq(Buffers) /\ pending \in Seq(Buffers) /\ sent \in Seq(Request)
    /\ lost \in SUBSET Buffers

ThreadTypes ==
    /\ txPc \in {"none", "wait", "tested", "send", "ended"}
    /\ txCurrent \in Request /\ wr_id \in Ids
    /\ compPc \in {"none", "test", "poll", "take", "ended"}
    /\ compCurrent \in Completion

NicTypes ==
    /\ nic \in Seq(Request) /\ cq \in Seq(Completion) /\ qp_error \in BOOLEAN
    /\ wire \in Seq(Ids \X Tensors)

CopyTypes == stream \in [Buffers -> Seq(Tensors)] /\ content \in [Buffers -> Tensors]

CountTypes == stored \in Tensors /\ faults \in 0..MaxFaults

\* The groups are TypeOK.
LEMMA TypeGroups ==
    TypeOK <=> OperatorTypes /\ QueueTypes /\ ThreadTypes /\ NicTypes /\ CopyTypes /\ CountTypes
  BY Zenon DEF TypeOK, OperatorTypes, QueueTypes, ThreadTypes, NicTypes, CopyTypes, CountTypes

\* A group that a step leaves alone keeps its types.
LEMMA TypesKept ==
    /\ QueueTypes /\ UNCHANGED queueVars /\ UNCHANGED lost => QueueTypes'
    /\ ThreadTypes /\ UNCHANGED txVars /\ UNCHANGED compVars => ThreadTypes'
    /\ NicTypes /\ UNCHANGED nicVars => NicTypes'
    /\ CopyTypes /\ UNCHANGED copyVars => CopyTypes'
    /\ CountTypes /\ UNCHANGED <<stored, faults>> => CountTypes'
<1>1. QueueTypes /\ UNCHANGED queueVars /\ UNCHANGED lost => QueueTypes'
  BY Zenon DEF QueueTypes, queueVars
<1>2. ThreadTypes /\ UNCHANGED txVars /\ UNCHANGED compVars => ThreadTypes'
  BY Zenon DEF ThreadTypes, txVars, compVars
<1>3. NicTypes /\ UNCHANGED nicVars => NicTypes'
  BY Zenon DEF NicTypes, nicVars
<1>4. CopyTypes /\ UNCHANGED copyVars => CopyTypes'
  BY Zenon DEF CopyTypes, copyVars
<1>5. CountTypes /\ UNCHANGED <<stored, faults>> => CountTypes'
  BY Zenon DEF CountTypes
<1>6. QED
  BY <1>1, <1>2, <1>3, <1>4, <1>5, Zenon

\* The operator's variables.
LEMMA OperatorType == TypeOK /\ [Next]_vars => OperatorTypes'
<1> SUFFICES ASSUME TypeOK, [Next]_vars PROVE OperatorTypes'
  OBVIOUS
<1>0. OperatorTypes
  BY TypeGroups, Zenon
<1>1. CASE Start \/ StartFails \/ Compute \/ Stop
  BY <1>0, <1>1 DEF OperatorTypes, Start, StartFails, Compute, Stop, history
<1>2. CASE QueueWait \/ QueueStore \/ QueueThrows
  BY <1>0, <1>2 DEF OperatorTypes, QueueWait, QueueStore, QueueThrows, NotifyAll, opVars, history
<1>3. CASE FlushWait \/ StopRunning \/ StopNotify \/ StopJoined
  BY <1>0, <1>3 DEF OperatorTypes, FlushWait, StopRunning, StopNotify, StopJoined, NotifyAll,
       opVars, history
<1>4. CASE FlushReturn
  <2>1. stored \in Tensors /\ 0 \in Tensors
    BY TransmitterAssumption DEF TypeOK, Tensors
  <2>2. flushed' \in Tensors
    BY <1>4, <2>1 DEF FlushReturn
  <2>3. QED
    BY <1>0, <1>4, <2>2 DEF OperatorTypes, FlushReturn, NotifyAll, history
<1>5. CASE Transmission
  BY <1>0, <1>5 DEF OperatorTypes, Transmission, TxEnd, TxTake, TxTested, TxSleep, TxSend,
       TxSendFails, opVars, history
<1>6. CASE CompletionThread \/ Nic
  BY <1>0, <1>6 DEF OperatorTypes, CompletionThread, CompTest, CompPoll, CompTake, Nic,
       NicTransmit, NicFails, NotifyAll, opVars, history
<1>7. CASE (\E b \in Buffers : CopyDone(b)) \/ UNCHANGED vars
  BY <1>0, <1>7 DEF OperatorTypes, CopyDone, vars, opVars, history
<1>8. QED
  BY <1>1, <1>2, <1>3, <1>4, <1>5, <1>6, <1>7, Zenon DEF Next, Call, Operator

\* The threads' variables; wr_id is bounded by the tensors stored.
LEMMA ThreadType == TypeOK /\ NumbersInv /\ [Next]_vars => ThreadTypes'
<1> SUFFICES ASSUME TypeOK, NumbersInv, [Next]_vars PROVE ThreadTypes'
  OBVIOUS
<1>0. ThreadTypes /\ QueueTypes /\ NicTypes /\ CountTypes
  BY TypeGroups, Zenon
<1>1. CASE Start \/ TxEnd \/ TxTested \/ TxSleep \/ TxSend \/ TxSendFails \/ CompTest \/ CompTake
  BY <1>0, <1>1 DEF ThreadTypes, Start, TxEnd, TxTested, TxSleep, TxSend, TxSendFails, CompTest,
       CompTake, txVars, compVars
<1>2. CASE TxTake
  <2>1. pending # <<>> /\ pending \in Seq(Buffers) /\ wr_id \in Nat /\ stored <= MaxTensors
    BY <1>0, <1>2, TransmitterAssumption DEF QueueTypes, ThreadTypes, CountTypes, Ids, Tensors, TxTake
  <2>2. Head(pending) \in Buffers /\ Len(pending) \in Nat \ {0}
    BY <2>1, TailFacts
  <2>3. wr_id + 1 \in Ids
    BY <2>1, <2>2, TransmitterAssumption DEF NumbersInv, Ids
  <2>4. txCurrent' \in Request
    BY <1>0, <1>2, <2>2 DEF ThreadTypes, Request, TxTake
  <2>5. QED
    BY <1>0, <1>2, <2>3, <2>4 DEF ThreadTypes, TxTake, compVars
<1>3. CASE CompPoll
  <2>1. UNCHANGED txVars
    BY <1>3 DEF CompPoll
  <2>2. cq # <<>> => Head(cq) \in Completion
    BY <1>0, TailFacts DEF NicTypes
  <2>3. compCurrent' \in Completion
    BY <1>0, <1>3, <2>2 DEF ThreadTypes, CompPoll
  <2>4. compPc' \in {"none", "test", "poll", "take", "ended"}
    BY <1>3 DEF CompPoll
  <2>5. QED
    BY <1>0, <2>1, <2>3, <2>4 DEF ThreadTypes, txVars
<1>4. CASE \/ StartFails \/ Compute \/ Stop \/ Operator \/ Nic \/ UNCHANGED vars
           \/ \E b \in Buffers : CopyDone(b)
  <2>1. UNCHANGED txVars /\ UNCHANGED compVars
    BY <1>4 DEF StartFails, Compute, Stop, Operator, QueueWait, QueueStore, QueueThrows,
         FlushWait, FlushReturn, StopRunning, StopNotify, StopJoined, Nic, NicTransmit, NicFails,
         CopyDone, vars
  <2>2. QED
    BY <1>0, <2>1, TypesKept, Zenon
<1>5. QED
  BY <1>1, <1>2, <1>3, <1>4, Zenon DEF Next, Call, Transmission, CompletionThread

\* The initial sequence of buffers.
LEMMA BufferSequence == [i \in 1..QueueSize |-> i] \in Seq(Buffers)
  BY TransmitterAssumption DEF Buffers

\* The three queues: sent_buffers_ is not empty when it is popped.
LEMMA QueueType == TypeOK /\ RequestsInv /\ [Next]_vars => QueueTypes'
<1> SUFFICES ASSUME TypeOK, RequestsInv, [Next]_vars PROVE QueueTypes'
  OBVIOUS
<1>0. QueueTypes /\ ThreadTypes
  BY TypeGroups, Zenon
<1>1. CASE Start
  <2>1. UNCHANGED <<pending, sent, lost>> /\ available' = [i \in 1..QueueSize |-> i]
    BY <1>1 DEF Start, history
  <2>2. QED
    BY <1>0, <2>1, BufferSequence, Zenon DEF QueueTypes
<1>2. CASE QueueStore \/ QueueThrows
  <2>1. available # <<>> /\ available' = Tail(available) /\ sent' = sent
    BY <1>2 DEF QueueStore, QueueThrows
  <2>2. /\ Head(available) \in Buffers /\ Tail(available) \in Seq(Buffers)
        /\ pending \in Seq(Buffers)
    BY <1>0, <2>1, TailFacts DEF QueueTypes
  <2>3. Append(pending, Head(available)) \in Seq(Buffers)
    BY <2>2, AppendFacts
  <2>4. pending' \in Seq(Buffers) /\ lost' \in SUBSET Buffers
    BY <1>0, <1>2, <2>2, <2>3 DEF QueueTypes, QueueStore, QueueThrows
  <2>5. QED
    BY <1>0, <2>1, <2>2, <2>4, Zenon DEF QueueTypes
<1>3. CASE TxTake
  <2>1. pending # <<>> /\ pending' = Tail(pending) /\ sent' = Append(sent, txCurrent')
        /\ UNCHANGED <<available, lost>> /\ txCurrent' = <<wr_id, Head(pending)>>
    BY <1>3 DEF TxTake, history
  <2>2. Head(pending) \in Buffers /\ Tail(pending) \in Seq(Buffers)
    BY <1>0, <2>1, TailFacts DEF QueueTypes
  <2>3. txCurrent' \in Request
    BY <1>0, <2>1, <2>2 DEF ThreadTypes, Request
  <2>4. sent' \in Seq(Request)
    BY <1>0, <2>1, <2>3, AppendFacts DEF QueueTypes
  <2>5. QED
    BY <1>0, <2>1, <2>2, <2>4, Zenon DEF QueueTypes
<1>4. CASE CompTake
  <2>1. /\ sent' = Tail(sent) /\ available' = Append(available, Head(sent)[2])
        /\ UNCHANGED <<pending, lost>> /\ compPc = "take"
    BY <1>4 DEF CompTake, history
  <2>2. sent # <<>> /\ sent \in Seq(Request)
    <3>1. Take = 1 /\ Sending \in Nat /\ Len(cq) \in Nat /\ Len(nic) \in Nat /\ sent \in Seq(Request)
      BY <1>0, <2>1 DEF Take, Sending, TypeOK
    <3>2. Take + Len(cq) + Len(nic) + Sending <= Len(sent)
      BY DEF RequestsInv, CountInv
    <3>3. QED
      BY <3>1, <3>2
  <2>3. Head(sent) \in Request /\ Tail(sent) \in Seq(Request)
    BY <2>2, TailFacts
  <2>4. Head(sent)[2] \in Buffers
    BY <2>3 DEF Request
  <2>5. Append(available, Head(sent)[2]) \in Seq(Buffers)
    BY <1>0, <2>4, AppendFacts DEF QueueTypes
  <2>6. QED
    BY <1>0, <2>1, <2>3, <2>5, Zenon DEF QueueTypes
<1>5. CASE \/ StartFails \/ FlushReturn \/ TxSend \/ TxSendFails \/ CompPoll \/ Nic
           \/ (\E b \in Buffers : CopyDone(b)) \/ Quiet
  <2>1. UNCHANGED queueVars /\ UNCHANGED lost
    BY <1>5 DEF StartFails, FlushReturn, TxSend, TxSendFails, CompPoll, Nic, NicTransmit,
         NicFails, CopyDone, Quiet, history
  <2>2. QED
    BY <1>0, <2>1, TypesKept, Zenon
<1>6. QED
  BY <1>1, <1>2, <1>3, <1>4, <1>5, QuietOrBusy, Zenon DEF Busy, Nic

\* The NIC's queues and what it transmitted.
LEMMA NicType == TypeOK /\ [Next]_vars => NicTypes'
<1> SUFFICES ASSUME TypeOK, [Next]_vars PROVE NicTypes'
  OBVIOUS
<1>0. NicTypes /\ ThreadTypes /\ CopyTypes
  BY TypeGroups, Zenon
<1>1. CASE TxSend
  <2>1. nic' \in Seq(Request)
    BY <1>0, <1>1, AppendFacts DEF NicTypes, ThreadTypes, TxSend
  <2>2. QED
    BY <1>0, <1>1, <2>1, Zenon DEF NicTypes, TxSend
<1>2. CASE CompPoll
  <2>1. cq # <<>> => Tail(cq) \in Seq(Completion)
    BY <1>0, TailFacts DEF NicTypes
  <2>2. cq' \in Seq(Completion)
    BY <1>0, <1>2, <2>1 DEF NicTypes, CompPoll
  <2>3. QED
    BY <1>0, <1>2, <2>2, Zenon DEF NicTypes, CompPoll
<1>3. CASE Nic
  <2>1. nic # <<>> /\ nic' = Tail(nic)
    BY <1>3 DEF Nic, NicTransmit, NicFails
  <2>2. Head(nic) \in Request /\ Tail(nic) \in Seq(Request)
    BY <1>0, <2>1, TailFacts DEF NicTypes
  <2>3. /\ Head(nic)[1] \in Ids /\ Head(nic)[2] \in Buffers
        /\ [id |-> Head(nic)[1], ok |-> TRUE] \in Completion
        /\ [id |-> Head(nic)[1], ok |-> FALSE] \in Completion
    BY <2>2 DEF Request, Completion
  <2>4. <<Head(nic)[1], content[Head(nic)[2]]>> \in Ids \X Tensors
    BY <1>0, <2>3 DEF CopyTypes
  <2>5. cq' \in Seq(Completion)
    <3>1. \/ cq' = Append(cq, [id |-> Head(nic)[1], ok |-> TRUE])
          \/ cq' = Append(cq, [id |-> Head(nic)[1], ok |-> FALSE])
      BY <1>3, Zenon DEF Nic, NicTransmit, NicFails
    <3>2. cq \in Seq(Completion)
      BY <1>0 DEF NicTypes
    <3>3. /\ Append(cq, [id |-> Head(nic)[1], ok |-> TRUE]) \in Seq(Completion)
          /\ Append(cq, [id |-> Head(nic)[1], ok |-> FALSE]) \in Seq(Completion)
      BY <2>3, <3>2, AppendFacts, Zenon
    <3>4. QED
      BY <3>1, <3>3, Zenon
  <2>6. wire' \in Seq(Ids \X Tensors)
    <3>1. \/ wire' = wire
          \/ wire' = Append(wire, <<Head(nic)[1], content[Head(nic)[2]]>>)
      BY <1>3, Zenon DEF Nic, NicTransmit, NicFails
    <3>2. wire \in Seq(Ids \X Tensors)
      BY <1>0 DEF NicTypes
    <3>3. Append(wire, <<Head(nic)[1], content[Head(nic)[2]]>>) \in Seq(Ids \X Tensors)
      BY <2>4, <3>2, AppendFacts, Zenon
    <3>4. QED
      BY <3>1, <3>2, <3>3, Zenon
  <2>7. qp_error' \in BOOLEAN
    BY <1>0, <1>3, Zenon DEF Nic, NicTransmit, NicFails, NicTypes
  <2>8. QED
    BY <2>1, <2>2, <2>5, <2>6, <2>7, Zenon DEF NicTypes
<1>4. CASE \/ Start \/ StartFails \/ QueueStore \/ QueueThrows \/ FlushReturn \/ TxTake
           \/ TxSendFails \/ CompTake \/ (\E b \in Buffers : CopyDone(b)) \/ Quiet
  <2>1. UNCHANGED nicVars
    BY <1>4 DEF Start, StartFails, QueueStore, QueueThrows, FlushReturn, TxTake, TxSendFails,
         CompTake, CopyDone, Quiet
  <2>2. QED
    BY <1>0, <2>1, TypesKept, Zenon
<1>5. QED
  BY <1>1, <1>2, <1>3, <1>4, QuietOrBusy, Zenon DEF Busy, Nic

\* The streams and the buffers' memory.
LEMMA CopyType == TypeOK /\ NumbersInv /\ [Next]_vars => CopyTypes'
<1> SUFFICES ASSUME TypeOK, NumbersInv, [Next]_vars PROVE CopyTypes'
  OBVIOUS
<1>0. CopyTypes /\ CountTypes
  BY TypeGroups, Zenon
<1>1. CASE QueueStore
  <2>1. stored + 1 \in Tensors
    BY <1>0, <1>1, TransmitterAssumption DEF CountTypes, Tensors, NumbersInv, QueueStore
  <2>2. Head(available) \in Buffers
    BY <1>1, TailFacts DEF TypeOK, QueueStore
  <2>3. Append(stream[Head(available)], stored + 1) \in Seq(Tensors)
    BY <1>0, <2>1, <2>2, AppendFacts DEF CopyTypes
  <2>4. QED
    BY <1>0, <1>1, <2>3 DEF CopyTypes, QueueStore
<1>2. CASE \E b \in Buffers : CopyDone(b)
  <2>1. PICK b \in Buffers : CopyDone(b)
    BY <1>2
  <2>2. stream[b] # <<>> /\ stream[b] \in Seq(Tensors)
    BY <1>0, <2>1 DEF CopyTypes, CopyDone
  <2>3. Head(stream[b]) \in Tensors /\ Tail(stream[b]) \in Seq(Tensors)
    BY <2>2, TailFacts
  <2>4. QED
    BY <1>0, <2>1, <2>3 DEF CopyTypes, CopyDone
<1>3. CASE \/ Start \/ StartFails \/ QueueThrows \/ FlushReturn \/ TxTake \/ TxSend
           \/ TxSendFails \/ CompPoll \/ CompTake \/ Nic \/ Quiet
  <2>1. UNCHANGED copyVars
    BY <1>3 DEF Start, StartFails, QueueThrows, FlushReturn, TxTake, TxSend, TxSendFails,
         CompPoll, CompTake, Nic, NicTransmit, NicFails, Quiet
  <2>2. QED
    BY <1>0, <2>1, TypesKept, Zenon
<1>4. QED
  BY <1>1, <1>2, <1>3, QuietOrBusy, Zenon DEF Busy, Nic

\* The counters.
LEMMA CountType == TypeOK /\ NumbersInv /\ [Next]_vars => CountTypes'
<1> SUFFICES ASSUME TypeOK, NumbersInv, [Next]_vars PROVE CountTypes'
  OBVIOUS
<1>0. CountTypes
  BY TypeGroups, Zenon
<1>1. CASE QueueStore
  BY <1>0, <1>1, TransmitterAssumption DEF CountTypes, Tensors, NumbersInv, QueueStore
<1>2. CASE StartFails \/ QueueThrows \/ TxSendFails \/ NicFails
  <2>1. stored' = stored /\ (faults' = faults \/ Fault)
    BY <1>2 DEF StartFails, QueueThrows, TxSendFails, NicFails
  <2>2. QED
    BY <1>0, <2>1, TransmitterAssumption DEF CountTypes, Fault
<1>3. CASE \/ Start \/ FlushReturn \/ TxTake \/ TxSend \/ CompPoll \/ CompTake \/ NicTransmit
           \/ (\E b \in Buffers : CopyDone(b)) \/ Quiet
  <2>1. UNCHANGED <<stored, faults>>
    BY <1>3 DEF Start, FlushReturn, TxTake, TxSend, CompPoll, CompTake, NicTransmit, CopyDone,
         Quiet, history
  <2>2. QED
    BY <1>0, <2>1, TypesKept, Zenon
<1>4. QED
  BY <1>1, <1>2, <1>3, QuietOrBusy, Zenon DEF Busy

\* Every step keeps the types.
LEMMA NextType == TypeOK /\ NumbersInv /\ RequestsInv /\ [Next]_vars => TypeOK'
<1>1. (OperatorTypes /\ QueueTypes /\ ThreadTypes /\ NicTypes /\ CopyTypes /\ CountTypes)'
        => TypeOK'
  BY TypeGroups, PTL
<1>2. QED
  BY <1>1, OperatorType, QueueType, ThreadType, NicType, CopyType, CountType, Zenon

-----------------------------------------------------------------------------
(* Numbers. *)

\* The numbers of the tensors stay consecutive.
LEMMA NextNumbers == TypeOK /\ NumbersInv /\ [Next]_vars => NumbersInv'
<1> SUFFICES ASSUME TypeOK, NumbersInv, [Next]_vars PROVE NumbersInv'
  OBVIOUS
<1>0. /\ stored \in Nat /\ wr_id \in Nat /\ Len(pending) \in Nat /\ pending \in Seq(Buffers)
      /\ available \in Seq(Buffers)
  BY DEF TypeOK, Tensors, Ids
<1>1. CASE QueueStore
  <2>1. Head(available) \in Buffers
    BY <1>0, <1>1, TailFacts DEF QueueStore
  <2>2. Len(pending') = Len(pending) + 1
    BY <1>0, <1>1, <2>1, AppendFacts DEF QueueStore
  <2>3. stored' = stored + 1 /\ wr_id' = wr_id /\ opPc' = "idle"
    BY <1>1 DEF QueueStore, txVars
  <2>4. QED
    BY <1>0, <2>2, <2>3 DEF NumbersInv
<1>2. CASE TxTake
  <2>1. Len(pending') = Len(pending) - 1
    BY <1>0, <1>2, TailFacts DEF TxTake
  <2>2. UNCHANGED <<stored, opPc>> /\ wr_id' = wr_id + 1
    BY <1>2 DEF TxTake, opVars, history
  <2>3. QED
    BY <1>0, <2>1, <2>2 DEF NumbersInv
<1>3. CASE \/ Start \/ StartFails \/ QueueThrows \/ FlushReturn \/ TxSend \/ TxSendFails
           \/ CompPoll \/ CompTake \/ Nic \/ (\E b \in Buffers : CopyDone(b)) \/ Quiet
  <2>1. /\ UNCHANGED <<stored, wr_id, pending>>
        /\ opPc' = "queue" => opPc = "queue" \/ stored < MaxTensors
    BY <1>3 DEF Start, StartFails, QueueThrows, FlushReturn, TxSend, TxSendFails, CompPoll,
         CompTake, Nic, NicTransmit, NicFails, CopyDone, Quiet, opVars, queueVars, txVars, history
  <2>2. QED
    BY <2>1 DEF NumbersInv
<1>4. QED
  BY <1>1, <1>2, <1>3, QuietOrBusy, Zenon DEF Busy, Nic

-----------------------------------------------------------------------------
(* Where the buffers are. *)

\* What a step does to a queue, by indices.
Popped(s, t) == Len(t) = Len(s) - 1 /\ \A i \in 1..Len(t) : t[i] = s[i + 1]
Pushed(s, t, e) ==
    /\ Len(t) = Len(s) + 1
    /\ \A i \in 1..Len(s) : t[i] = s[i]
    /\ t[Len(s) + 1] = e

\* What is in a queue after a pop.
LEMMA PopFacts ==
    ASSUME NEW s, NEW t, Len(s) \in Nat \ {0}, Len(t) \in Nat, Popped(s, t)
    PROVE  /\ In(s[1], s)
           /\ Once(s) => Once(t) /\ ~In(s[1], t)
           /\ \A e : In(e, s) <=> e = s[1] \/ In(e, t)
<1>1. In(s[1], s)
  BY DEF In
<1>2. Once(s) => Once(t) /\ ~In(s[1], t)
  BY DEF Once, In, Popped
<1>3. ASSUME NEW e PROVE In(e, s) <=> e = s[1] \/ In(e, t)
  <2>1. ASSUME In(e, s) PROVE e = s[1] \/ In(e, t)
    <3>1. PICK i \in 1..Len(s) : s[i] = e
      BY <2>1 DEF In
    <3>2. CASE i # 1
      <4>1. i - 1 \in 1..Len(t) /\ t[i - 1] = s[i]
        BY <3>2 DEF Popped
      <4>2. QED
        BY <3>1, <4>1 DEF In
    <3>3. QED
      BY <3>1, <3>2
  <2>2. ASSUME In(e, t) PROVE In(e, s)
    <3>1. PICK i \in 1..Len(t) : t[i] = e
      BY <2>2 DEF In
    <3>2. i + 1 \in 1..Len(s) /\ s[i + 1] = e
      BY <3>1 DEF Popped
    <3>3. QED
      BY <3>2 DEF In
  <2>3. QED
    BY <1>1, <2>1, <2>2
<1>4. QED
  BY <1>1, <1>2, <1>3

\* What is in a queue after a push.
LEMMA PushFacts ==
    ASSUME NEW s, NEW t, NEW e, Len(s) \in Nat, Pushed(s, t, e)
    PROVE  /\ Once(s) /\ ~In(e, s) => Once(t)
           /\ \A x : In(x, t) <=> x = e \/ In(x, s)
<1>1. Once(s) /\ ~In(e, s) => Once(t)
  BY DEF Once, In, Pushed
<1>2. ASSUME NEW x PROVE In(x, t) <=> x = e \/ In(x, s)
  <2>1. ASSUME In(x, t) PROVE x = e \/ In(x, s)
    <3>1. PICK i \in 1..Len(t) : t[i] = x
      BY <2>1 DEF In
    <3>2. CASE i = Len(s) + 1
      BY <3>1, <3>2 DEF Pushed
    <3>3. CASE i \in 1..Len(s)
      BY <3>1, <3>3 DEF Pushed, In
    <3>4. QED
      BY <3>2, <3>3 DEF Pushed
  <2>2. ASSUME In(x, s) PROVE In(x, t)
    BY <2>2 DEF In, Pushed
  <2>3. In(e, t)
    BY DEF In, Pushed
  <2>4. QED
    BY <2>1, <2>2, <2>3
<1>3. QED
  BY <1>1, <1>2

\* SentBuffers follows sent_buffers_.
LEMMA SentFacts ==
    ASSUME NEW s \in Seq(Request)
    PROVE  LET buffers == [i \in DOMAIN s |-> s[i][2]]
           IN  /\ Len(buffers) = Len(s) /\ Len(s) \in Nat
               /\ \A i \in 1..Len(s) : buffers[i] = s[i][2] /\ s[i][2] \in Buffers
<1>1. DOMAIN s = 1..Len(s) /\ Len(s) \in Nat
  OBVIOUS
<1>2. \A i \in 1..Len(s) : s[i] \in Request
  BY <1>1
<1>3. \A i \in 1..Len(s) : s[i][2] \in Buffers
  BY <1>2 DEF Request
<1>4. [i \in DOMAIN s |-> s[i][2]] \in Seq(Buffers)
  BY <1>1, <1>3
<1>5. QED
  BY <1>1, <1>3, <1>4

\* The three queues are sequences of known length, of which sent_buffers_
\* holds at least the request that completed.
LEMMA QueueFacts ==
    TypeOK /\ RequestsInv =>
        /\ available \in Seq(Buffers) /\ pending \in Seq(Buffers) /\ sent \in Seq(Request)
        /\ Len(available) \in Nat /\ Len(pending) \in Nat /\ Len(sent) \in Nat
        /\ compPc = "take" => sent # <<>> /\ Len(sent) >= 1 + Sending
<1> SUFFICES ASSUME TypeOK, RequestsInv
             PROVE  /\ available \in Seq(Buffers) /\ pending \in Seq(Buffers)
                    /\ sent \in Seq(Request)
                    /\ Len(available) \in Nat /\ Len(pending) \in Nat /\ Len(sent) \in Nat
                    /\ compPc = "take" => sent # <<>> /\ Len(sent) >= 1 + Sending
  OBVIOUS
<1>1. /\ available \in Seq(Buffers) /\ pending \in Seq(Buffers) /\ sent \in Seq(Request)
      /\ Len(available) \in Nat /\ Len(pending) \in Nat /\ Len(sent) \in Nat
      /\ Len(cq) \in Nat /\ Len(nic) \in Nat /\ Sending \in Nat
  BY DEF TypeOK, Sending
<1>2. ASSUME compPc = "take" PROVE sent # <<>> /\ Len(sent) >= 1 + Sending
  <2>1. Take = 1 /\ Take + Len(cq) + Len(nic) + Sending <= Len(sent)
    BY <1>2 DEF Take, RequestsInv, CountInv
  <2>2. QED
    BY <1>1, <2>1
<1>3. QED
  BY <1>1, <1>2

\* What each step does to the queues.
LEMMA QueueSteps ==
    ASSUME TypeOK, RequestsInv
    PROVE  /\ QueueStore \/ QueueThrows =>
                  /\ Len(available) \in Nat \ {0} /\ Head(available) = available[1]
                  /\ Popped(available, available')
           /\ QueueStore => Pushed(pending, pending', available[1])
           /\ TxTake => /\ Len(pending) \in Nat \ {0} /\ Head(pending) = pending[1]
                        /\ Popped(pending, pending')
                        /\ Pushed(sent, sent', <<wr_id, pending[1]>>)
                        /\ txCurrent' = <<wr_id, pending[1]>>
           /\ CompTake => /\ Len(sent) \in Nat \ {0}
                          /\ Popped(sent, sent')
                          /\ Pushed(available, available', sent[1][2])
<1>0. /\ available \in Seq(Buffers) /\ pending \in Seq(Buffers) /\ sent \in Seq(Request)
      /\ compPc = "take" => sent # <<>>
  BY QueueFacts, Zenon
<1>1. ASSUME QueueStore \/ QueueThrows
      PROVE  /\ Len(available) \in Nat \ {0} /\ Head(available) = available[1]
             /\ Popped(available, available') /\ Head(available) \in Buffers
  <2>1. available # <<>> /\ available' = Tail(available)
    BY <1>1 DEF QueueStore, QueueThrows
  <2>2. QED
    BY <1>0, <2>1, TailFacts DEF Popped
<1>2. ASSUME QueueStore PROVE Pushed(pending, pending', available[1])
  BY <1>0, <1>1, <1>2, AppendFacts DEF QueueStore, Pushed
<1>3. ASSUME TxTake
      PROVE  /\ Len(pending) \in Nat \ {0} /\ Head(pending) = pending[1]
             /\ Popped(pending, pending')
             /\ Pushed(sent, sent', <<wr_id, pending[1]>>)
             /\ txCurrent' = <<wr_id, pending[1]>>
  <2>1. /\ pending # <<>> /\ pending' = Tail(pending) /\ txCurrent' = <<wr_id, Head(pending)>>
        /\ sent' = Append(sent, txCurrent')
    BY <1>3 DEF TxTake
  <2>2. /\ Len(pending) \in Nat \ {0} /\ Head(pending) = pending[1]
        /\ Popped(pending, pending') /\ Head(pending) \in Buffers
    BY <1>0, <2>1, TailFacts DEF Popped
  <2>3. txCurrent' \in Request
    BY <2>1, <2>2 DEF TypeOK, Request
  <2>4. Pushed(sent, sent', txCurrent')
    BY <1>0, <2>1, <2>3, AppendFacts DEF Pushed
  <2>5. QED
    BY <2>1, <2>2, <2>4
<1>4. ASSUME CompTake
      PROVE  /\ Len(sent) \in Nat \ {0}
             /\ Popped(sent, sent')
             /\ Pushed(available, available', sent[1][2])
  <2>1. /\ sent # <<>> /\ sent' = Tail(sent) /\ available' = Append(available, Head(sent)[2])
    BY <1>0, <1>4 DEF CompTake
  <2>2. /\ Len(sent) \in Nat \ {0} /\ Head(sent) = sent[1] /\ Popped(sent, sent')
        /\ Head(sent) \in Request
    BY <1>0, <2>1, TailFacts DEF Popped
  <2>3. Head(sent)[2] \in Buffers
    BY <2>2 DEF Request
  <2>4. QED
    BY <1>0, <2>1, <2>2, <2>3, AppendFacts DEF Pushed
<1>5. QED
  BY <1>1, <1>2, <1>3, <1>4, Zenon

\* What each step does to the buffers in sent_buffers_.
LEMMA SentSteps ==
    ASSUME TypeOK, RequestsInv, QueueTypes'
    PROVE  /\ Len(SentBuffers) = Len(sent) /\ Len(SentBuffers') = Len(sent')
           /\ \A i \in 1..Len(sent) : SentBuffers[i] = sent[i][2]
           /\ sent' = sent => SentBuffers' = SentBuffers
           /\ TxTake => Pushed(SentBuffers, SentBuffers', pending[1])
           /\ CompTake => /\ Popped(SentBuffers, SentBuffers')
                          /\ Pushed(available, available', SentBuffers[1])
<1>0. sent \in Seq(Request) /\ sent' \in Seq(Request)
  BY DEF TypeOK, QueueTypes
<1>1. /\ Len(SentBuffers) = Len(sent) /\ Len(sent) \in Nat
      /\ \A i \in 1..Len(sent) : SentBuffers[i] = sent[i][2]
  BY <1>0, SentFacts DEF SentBuffers
<1>2. /\ Len(SentBuffers') = Len(sent') /\ Len(sent') \in Nat
      /\ \A i \in 1..Len(sent') : SentBuffers'[i] = sent'[i][2]
  BY <1>0, SentFacts DEF SentBuffers
<1>3. sent' = sent => SentBuffers' = SentBuffers
  BY DEF SentBuffers
<1>4. ASSUME TxTake PROVE Pushed(SentBuffers, SentBuffers', pending[1])
  <2>1. Pushed(sent, sent', <<wr_id, pending[1]>>)
    BY <1>4, QueueSteps, Zenon
  <2>2. QED
    BY <1>1, <1>2, <2>1 DEF Pushed
<1>5. ASSUME CompTake
      PROVE  Popped(SentBuffers, SentBuffers') /\ Pushed(available, available', SentBuffers[1])
  <2>1. /\ Len(sent) \in Nat \ {0} /\ Popped(sent, sent')
        /\ Pushed(available, available', sent[1][2])
    BY <1>5, QueueSteps, Zenon
  <2>2. SentBuffers[1] = sent[1][2]
    BY <1>1, <2>1
  <2>3. Popped(SentBuffers, SentBuffers')
    BY <1>1, <1>2, <2>1 DEF Popped
  <2>4. QED
    BY <2>1, <2>2, <2>3
<1>6. QED
  BY <1>1, <1>2, <1>3, <1>4, <1>5, Zenon

\* A pop from one queue and a push to another: what is where afterwards.
LEMMA QueueMoves ==
    ASSUME TypeOK, RequestsInv, QueueTypes', DistinctInv
    PROVE  /\ QueueStore =>
                 /\ available[1] \in Buffers /\ In(available[1], available)
                 /\ UNCHANGED <<SentBuffers, lost>>
                 /\ Once(available') /\ Once(pending') /\ ~In(available[1], available')
                 /\ \A b : In(b, available) <=> b = available[1] \/ In(b, available')
                 /\ \A b : In(b, pending') <=> b = available[1] \/ In(b, pending)
           /\ QueueThrows =>
                 /\ available[1] \in Buffers /\ In(available[1], available)
                 /\ UNCHANGED <<pending, SentBuffers>> /\ lost' = lost \cup {available[1]}
                 /\ Once(available') /\ ~In(available[1], available')
                 /\ \A b : In(b, available) <=> b = available[1] \/ In(b, available')
           /\ TxTake =>
                 /\ pending[1] \in Buffers /\ In(pending[1], pending)
                 /\ UNCHANGED <<available, lost>>
                 /\ Once(pending') /\ Once(SentBuffers') /\ ~In(pending[1], pending')
                 /\ \A b : In(b, pending) <=> b = pending[1] \/ In(b, pending')
                 /\ \A b : In(b, SentBuffers') <=> b = pending[1] \/ In(b, SentBuffers)
           /\ CompTake =>
                 /\ SentBuffers[1] \in Buffers /\ In(SentBuffers[1], SentBuffers)
                 /\ UNCHANGED <<pending, lost>>
                 /\ Once(SentBuffers') /\ Once(available') /\ ~In(SentBuffers[1], SentBuffers')
                 /\ \A b : In(b, SentBuffers) <=> b = SentBuffers[1] \/ In(b, SentBuffers')
                 /\ \A b : In(b, available') <=> b = SentBuffers[1] \/ In(b, available)
<1>0. /\ Len(available) \in Nat /\ Len(pending) \in Nat /\ Len(sent) \in Nat
      /\ Len(available') \in Nat /\ Len(pending') \in Nat /\ Len(sent') \in Nat
      /\ Len(SentBuffers) = Len(sent) /\ Len(SentBuffers') = Len(sent')
  BY SentSteps DEF TypeOK, QueueTypes
<1>1. ASSUME QueueStore
      PROVE  /\ available[1] \in Buffers /\ In(available[1], available)
             /\ UNCHANGED <<SentBuffers, lost>>
             /\ Once(available') /\ Once(pending') /\ ~In(available[1], available')
             /\ \A b : In(b, available) <=> b = available[1] \/ In(b, available')
             /\ \A b : In(b, pending') <=> b = available[1] \/ In(b, pending)
  <2>1. /\ Len(available) \in Nat \ {0} /\ Popped(available, available')
        /\ Pushed(pending, pending', available[1])
    BY <1>1, QueueSteps, Zenon
  <2>2. sent' = sent /\ lost' = lost
    BY <1>1 DEF QueueStore
  <2>3. available[1] \in Buffers
    BY <2>1 DEF TypeOK
  <2>4. /\ In(available[1], available) /\ Once(available') /\ ~In(available[1], available')
        /\ \A b : In(b, available) <=> b = available[1] \/ In(b, available')
    BY <1>0, <2>1, PopFacts, Zenon DEF DistinctInv
  <2>5. ~In(available[1], pending)
    BY <2>3, <2>4, Zenon DEF DistinctInv
  <2>6. /\ Once(pending')
        /\ \A b : In(b, pending') <=> b = available[1] \/ In(b, pending)
    BY <1>0, <2>1, <2>5, PushFacts, Zenon DEF DistinctInv
  <2>7. SentBuffers' = SentBuffers
    BY <2>2, SentSteps, Zenon
  <2>8. QED
    BY <2>2, <2>3, <2>4, <2>6, <2>7
<1>2. ASSUME QueueThrows
      PROVE  /\ available[1] \in Buffers /\ In(available[1], available)
             /\ UNCHANGED <<pending, SentBuffers>> /\ lost' = lost \cup {available[1]}
             /\ Once(available') /\ ~In(available[1], available')
             /\ \A b : In(b, available) <=> b = available[1] \/ In(b, available')
  <2>1. /\ Len(available) \in Nat \ {0} /\ Popped(available, available')
        /\ Head(available) = available[1]
    BY <1>2, QueueSteps, Zenon
  <2>2. sent' = sent /\ pending' = pending /\ lost' = lost \cup {available[1]}
    BY <1>2, <2>1 DEF QueueThrows
  <2>3. available[1] \in Buffers
    BY <2>1 DEF TypeOK
  <2>4. /\ In(available[1], available) /\ Once(available') /\ ~In(available[1], available')
        /\ \A b : In(b, available) <=> b = available[1] \/ In(b, available')
    BY <1>0, <2>1, PopFacts, Zenon DEF DistinctInv
  <2>5. SentBuffers' = SentBuffers
    BY <2>2, SentSteps, Zenon
  <2>6. QED
    BY <2>2, <2>3, <2>4, <2>5
<1>3. ASSUME TxTake
      PROVE  /\ pending[1] \in Buffers /\ In(pending[1], pending)
             /\ UNCHANGED <<available, lost>>
             /\ Once(pending') /\ Once(SentBuffers') /\ ~In(pending[1], pending')
             /\ \A b : In(b, pending) <=> b = pending[1] \/ In(b, pending')
             /\ \A b : In(b, SentBuffers') <=> b = pending[1] \/ In(b, SentBuffers)
  <2>1. Len(pending) \in Nat \ {0} /\ Popped(pending, pending')
    BY <1>3, QueueSteps, Zenon
  <2>2. Pushed(SentBuffers, SentBuffers', pending[1])
    BY <1>3, SentSteps, Zenon
  <2>3. available' = available /\ lost' = lost
    BY <1>3 DEF TxTake, history
  <2>4. pending[1] \in Buffers
    BY <2>1 DEF TypeOK
  <2>5. /\ In(pending[1], pending) /\ Once(pending') /\ ~In(pending[1], pending')
        /\ \A b : In(b, pending) <=> b = pending[1] \/ In(b, pending')
    BY <1>0, <2>1, PopFacts, Zenon DEF DistinctInv
  <2>6. ~In(pending[1], SentBuffers)
    BY <2>4, <2>5, Zenon DEF DistinctInv
  <2>7. /\ Once(SentBuffers')
        /\ \A b : In(b, SentBuffers') <=> b = pending[1] \/ In(b, SentBuffers)
    BY <1>0, <2>2, <2>6, PushFacts DEF DistinctInv
  <2>8. QED
    BY <2>3, <2>4, <2>5, <2>7
<1>4. ASSUME CompTake
      PROVE  /\ SentBuffers[1] \in Buffers /\ In(SentBuffers[1], SentBuffers)
             /\ UNCHANGED <<pending, lost>>
             /\ Once(SentBuffers') /\ Once(available') /\ ~In(SentBuffers[1], SentBuffers')
             /\ \A b : In(b, SentBuffers) <=> b = SentBuffers[1] \/ In(b, SentBuffers')
             /\ \A b : In(b, available') <=> b = SentBuffers[1] \/ In(b, available)
  <2>1. Len(sent) \in Nat \ {0}
    BY <1>4, QueueSteps, Zenon
  <2>2. Popped(SentBuffers, SentBuffers') /\ Pushed(available, available', SentBuffers[1])
    BY <1>4, SentSteps, Zenon
  <2>3. pending' = pending /\ lost' = lost
    BY <1>4 DEF CompTake, history
  <2>4. SentBuffers[1] \in Buffers
    <3>1. sent \in Seq(Request) /\ 1 \in 1..Len(sent)
      BY <2>1 DEF TypeOK
    <3>2. QED
      BY <3>1, SentFacts DEF SentBuffers
  <2>5. /\ In(SentBuffers[1], SentBuffers) /\ Once(SentBuffers')
        /\ ~In(SentBuffers[1], SentBuffers')
        /\ \A b : In(b, SentBuffers) <=> b = SentBuffers[1] \/ In(b, SentBuffers')
    BY <1>0, <2>1, <2>2, PopFacts DEF DistinctInv
  <2>6. ~In(SentBuffers[1], available)
    BY <2>4, <2>5, Zenon DEF DistinctInv
  <2>7. /\ Once(available')
        /\ \A b : In(b, available') <=> b = SentBuffers[1] \/ In(b, available)
    BY <1>0, <2>2, <2>6, PushFacts DEF DistinctInv
  <2>8. QED
    BY <2>3, <2>4, <2>5, <2>7
<1>5. QED
  BY <1>1, <1>2, <1>3, <1>4, Zenon

\* Steps that leave the queues alone.
QueuesKept ==
    \/ StartFails \/ FlushReturn \/ TxSend \/ TxSendFails \/ CompPoll \/ Nic
    \/ (\E b \in Buffers : CopyDone(b)) \/ Quiet

\* They do.
LEMMA QueuesUnchanged ==
    QueuesKept => UNCHANGED <<available, pending, sent, SentBuffers, lost>>
  BY DEF QueuesKept, StartFails, FlushReturn, TxSend, TxSendFails, CompPoll, Nic, NicTransmit,
       NicFails, CopyDone, Quiet, history, queueVars, SentBuffers

\* A buffer stays in one place.
LEMMA NextDistinct ==
    TypeOK /\ QueueTypes' /\ RequestsInv /\ DistinctInv /\ PlacesInv /\ [Next]_vars => DistinctInv'
<1> SUFFICES ASSUME TypeOK, QueueTypes', RequestsInv, DistinctInv, PlacesInv, [Next]_vars
             PROVE  DistinctInv'
  OBVIOUS
<1>1. CASE Start
  <2>1. /\ available' = [i \in 1..QueueSize |-> i] /\ pending' = pending /\ sent' = sent
        /\ lost' = lost /\ opPc = "created"
    BY <1>1 DEF Start, history
  <2>2. pending = <<>> /\ sent = <<>> /\ lost = {}
    BY <2>1 DEF PlacesInv, NotStarted
  <2>3. Len(pending') = 0 /\ Len(SentBuffers') = 0 /\ Len(available') = QueueSize /\ lost' = {}
    BY <2>1, <2>2, TransmitterAssumption, SentSteps
  <2>4. Once(available') /\ Once(pending') /\ Once(SentBuffers')
    BY <2>1, <2>3, TransmitterAssumption DEF Once
  <2>5. \A b : ~In(b, pending') /\ ~In(b, SentBuffers') /\ b \notin lost'
    BY <2>3 DEF In
  <2>6. QED
    BY <2>4, <2>5, Zenon DEF DistinctInv
<1>2. CASE QueueStore
  <2>1. SentBuffers' = SentBuffers /\ lost' = lost
    BY <1>2, QueueMoves
  <2>2. /\ Once(available') /\ Once(pending') /\ Once(SentBuffers')
    BY <1>2, <2>1, QueueMoves DEF DistinctInv
  <2>3. /\ \A b : In(b, available) <=> b = available[1] \/ In(b, available')
        /\ \A b : In(b, pending') <=> b = available[1] \/ In(b, pending)
        /\ ~In(available[1], available') /\ available[1] \in Buffers
    BY <1>2, QueueMoves, Zenon
  <2>4. QED
    BY <2>1, <2>2, <2>3, Zenon DEF DistinctInv
<1>3. CASE QueueThrows
  <2>1. /\ pending' = pending /\ SentBuffers' = SentBuffers /\ lost' = lost \cup {available[1]}
    BY <1>3, QueueMoves
  <2>2. /\ Once(available') /\ Once(pending') /\ Once(SentBuffers')
    BY <1>3, <2>1, QueueMoves DEF DistinctInv
  <2>3. /\ \A b : In(b, available) <=> b = available[1] \/ In(b, available')
        /\ ~In(available[1], available') /\ available[1] \in Buffers
    BY <1>3, QueueMoves, Zenon
  <2>4. QED
    BY <2>1, <2>2, <2>3, Zenon DEF DistinctInv
<1>4. CASE TxTake
  <2>1. available' = available /\ lost' = lost
    BY <1>4, QueueMoves
  <2>2. /\ Once(available') /\ Once(pending') /\ Once(SentBuffers')
    BY <1>4, <2>1, QueueMoves DEF DistinctInv
  <2>3. /\ \A b : In(b, pending) <=> b = pending[1] \/ In(b, pending')
        /\ \A b : In(b, SentBuffers') <=> b = pending[1] \/ In(b, SentBuffers)
        /\ ~In(pending[1], pending') /\ pending[1] \in Buffers
    BY <1>4, QueueMoves, Zenon
  <2>4. QED
    BY <2>1, <2>2, <2>3, Zenon DEF DistinctInv
<1>5. CASE CompTake
  <2>1. pending' = pending /\ lost' = lost
    BY <1>5, QueueMoves
  <2>2. /\ Once(available') /\ Once(pending') /\ Once(SentBuffers')
    BY <1>5, <2>1, QueueMoves DEF DistinctInv
  <2>3. /\ \A b : In(b, SentBuffers) <=> b = SentBuffers[1] \/ In(b, SentBuffers')
        /\ \A b : In(b, available') <=> b = SentBuffers[1] \/ In(b, available)
        /\ ~In(SentBuffers[1], SentBuffers') /\ SentBuffers[1] \in Buffers
    BY <1>5, QueueMoves, Zenon
  <2>4. QED
    BY <2>1, <2>2, <2>3, Zenon DEF DistinctInv
<1>6. CASE QueuesKept
  <2>1. UNCHANGED <<available, pending, SentBuffers, lost>>
    BY <1>6, QueuesUnchanged
  <2>2. QED
    BY <2>1, Zenon DEF DistinctInv
<1>7. QED
  BY <1>1, <1>2, <1>3, <1>4, <1>5, <1>6, QuietOrBusy, Zenon DEF Busy, Nic, QueuesKept

\* The lost buffers can be counted.
LEMMA LostFinite ==
    ASSUME TypeOK
    PROVE  /\ IsFiniteSet(lost) /\ Cardinality(lost) \in Nat
           /\ \A b \in Buffers \ lost : Cardinality(lost \cup {b}) = Cardinality(lost) + 1
<1>1. IsFiniteSet(Buffers)
  BY TransmitterAssumption, FS_Interval DEF Buffers
<1>2. IsFiniteSet(lost)
  BY <1>1, FS_Subset DEF TypeOK
<1>3. QED
  BY <1>2, FS_CardinalityType, FS_AddElement

\* No buffer disappears.
LEMMA NextPlaces ==
    TypeOK /\ QueueTypes' /\ RequestsInv /\ DistinctInv /\ PlacesInv /\ [Next]_vars => PlacesInv'
<1> SUFFICES ASSUME TypeOK, QueueTypes', RequestsInv, DistinctInv, PlacesInv, [Next]_vars
             PROVE  PlacesInv'
  OBVIOUS
<1> DEFINE Counted == Len(available) + Len(pending) + Len(sent) + Cardinality(lost) = QueueSize
<1> DEFINE Placed == \A b \in Buffers : Somewhere(b)
<1>0. /\ Len(available) \in Nat /\ Len(pending) \in Nat /\ Len(sent) \in Nat
      /\ Cardinality(lost) \in Nat
  BY LostFinite DEF TypeOK
<1>1. CASE Start
  <2>1. /\ available' = [i \in 1..QueueSize |-> i] /\ pending' = pending /\ sent' = sent
        /\ lost' = lost /\ opPc = "created" /\ opPc' = "idle"
    BY <1>1 DEF Start, history
  <2>2. pending = <<>> /\ sent = <<>> /\ lost = {}
    BY <2>1 DEF PlacesInv, NotStarted
  <2>3. Len(pending') = 0 /\ Len(sent') = 0 /\ Len(available') = QueueSize /\ lost' = {}
    BY <2>1, <2>2, TransmitterAssumption
  <2>4. Cardinality(lost') = 0
    BY <2>3, FS_EmptySet
  <2>5. Counted'
    BY <2>3, <2>4, TransmitterAssumption
  <2>6. \A b \in Buffers : b \in 1..Len(available') /\ available'[b] = b
    BY <2>1, <2>3, TransmitterAssumption DEF Buffers
  <2>7. \A b \in Buffers : In(b, available')
    BY <2>6, Zenon DEF In
  <2>8. QED
    BY <2>1, <2>5, <2>7 DEF PlacesInv, Somewhere
<1>2. CASE QueueStore \/ QueueThrows \/ TxTake \/ CompTake
  <2>1. Counted /\ Placed /\ opPc # "created"
    <3>1. ~NotStarted
      <4>1. Len(<<>>) = 0
        OBVIOUS
      <4>2. QED
        BY <1>2, <4>1 DEF NotStarted, QueueStore, QueueThrows, TxTake, TxAwake, CompTake
    <3>2. QED
      BY <3>1 DEF PlacesInv
  <2>2. opPc' # "created"
    BY <1>2, <2>1 DEF QueueStore, QueueThrows, TxTake, CompTake, opVars
  <2>3. CASE QueueStore
    <3>1. /\ Len(available') = Len(available) - 1 /\ Len(pending') = Len(pending) + 1
          /\ sent' = sent /\ lost' = lost
      BY <2>3, QueueSteps DEF Popped, Pushed, QueueStore
    <3>2. Counted'
      BY <1>0, <2>1, <3>1
    <3>3. /\ \A b : In(b, available) <=> b = available[1] \/ In(b, available')
          /\ \A b : In(b, pending') <=> b = available[1] \/ In(b, pending)
          /\ SentBuffers' = SentBuffers
      BY <2>3, QueueMoves
    <3>4. Placed'
      BY <2>1, <3>1, <3>3, Zenon DEF Somewhere
    <3>5. QED
      BY <2>2, <3>2, <3>4 DEF PlacesInv
  <2>4. CASE QueueThrows
    <3>1. /\ Len(available') = Len(available) - 1
          /\ sent' = sent /\ pending' = pending /\ lost' = lost \cup {available[1]}
      BY <2>4, QueueSteps DEF Popped, QueueThrows
    <3>2. available[1] \in Buffers \ lost
      BY <2>4, QueueMoves DEF DistinctInv
    <3>3. Cardinality(lost') = Cardinality(lost) + 1
      BY <3>1, <3>2, LostFinite
    <3>4. Counted'
      BY <1>0, <2>1, <3>1, <3>3
    <3>5. /\ \A b : In(b, available) <=> b = available[1] \/ In(b, available')
          /\ SentBuffers' = SentBuffers
      BY <2>4, QueueMoves
    <3>6. Placed'
      BY <2>1, <3>1, <3>5, Zenon DEF Somewhere
    <3>7. QED
      BY <2>2, <3>4, <3>6 DEF PlacesInv
  <2>5. CASE TxTake
    <3>1. /\ Len(pending') = Len(pending) - 1 /\ Len(sent') = Len(sent) + 1
          /\ available' = available /\ lost' = lost
      BY <2>5, QueueSteps DEF Popped, Pushed, TxTake, history
    <3>2. Counted'
      BY <1>0, <2>1, <3>1
    <3>3. /\ \A b : In(b, pending) <=> b = pending[1] \/ In(b, pending')
          /\ \A b : In(b, SentBuffers') <=> b = pending[1] \/ In(b, SentBuffers)
      BY <2>5, QueueMoves, Zenon
    <3>4. Placed'
      BY <2>1, <3>1, <3>3, Zenon DEF Somewhere
    <3>5. QED
      BY <2>2, <3>2, <3>4 DEF PlacesInv
  <2>6. CASE CompTake
    <3>1. /\ Len(sent') = Len(sent) - 1 /\ Len(available') = Len(available) + 1
          /\ pending' = pending /\ lost' = lost
      BY <2>6, QueueSteps DEF Popped, Pushed, CompTake, history
    <3>2. Counted'
      BY <1>0, <2>1, <3>1
    <3>3. /\ \A b : In(b, SentBuffers) <=> b = SentBuffers[1] \/ In(b, SentBuffers')
          /\ \A b : In(b, available') <=> b = SentBuffers[1] \/ In(b, available)
      BY <2>6, QueueMoves, Zenon
    <3>4. Placed'
      BY <2>1, <3>1, <3>3, Zenon DEF Somewhere
    <3>5. QED
      BY <2>2, <3>2, <3>4 DEF PlacesInv
  <2>7. QED
    BY <1>2, <2>3, <2>4, <2>5, <2>6
<1>3. CASE QueuesKept
  <2>1. UNCHANGED <<available, pending, sent, SentBuffers, lost>>
    BY <1>3, QueuesUnchanged
  <2>2. opPc' = "created" => opPc = "created"
    BY <1>3 DEF QueuesKept, StartFails, FlushReturn, TxSend, TxSendFails, CompPoll, Nic,
         NicTransmit, NicFails, CopyDone, Quiet, opVars
  <2>3. NotStarted => NotStarted'
    <3>1. ASSUME NotStarted, StartFails PROVE NotStarted'
      BY <3>1 DEF NotStarted, StartFails, queueVars, txVars, compVars, nicVars
    <3>2. ASSUME NotStarted, \E b \in Buffers : CopyDone(b) PROVE NotStarted'
      BY <3>2 DEF NotStarted, CopyDone, opVars, queueVars, txVars, compVars, nicVars, history
    <3>3. ASSUME NotStarted, FlushReturn \/ TxSend \/ TxSendFails \/ CompPoll \/ Nic PROVE FALSE
      BY <3>3 DEF NotStarted, FlushReturn, TxSend, TxSendFails, CompPoll, Nic, NicTransmit,
           NicFails
    <3>4. QED
      BY <1>3, <3>1, <3>2, <3>3 DEF QueuesKept, Quiet
  <2>4. ASSUME Counted, Placed PROVE Counted' /\ Placed'
    BY <2>1, <2>4, Zenon DEF Somewhere
  <2>5. QED
    BY <2>2, <2>3, <2>4, Zenon DEF PlacesInv
<1>4. QED
  BY <1>1, <1>2, <1>3, QuietOrBusy, Zenon DEF Busy, Nic, QueuesKept

-----------------------------------------------------------------------------
(* The requests that are not finished. *)

\* Steps that leave the requests alone; a failure only weakens what is known.
LEMMA RequestsFrame ==
    ASSUME RequestsInv, UNCHANGED <<sent, cq, nic, qp_error, compCurrent, txCurrent>>,
           compPc' = "take" <=> compPc = "take", txPc' = "send" <=> txPc = "send",
           faults' = 0 => faults = 0
    PROVE  RequestsInv'
<1>1. Take' = Take /\ Sending' = Sending
  BY DEF Take, Sending
<1>2. TakenInv'
  BY DEF RequestsInv, TakenInv, RecordedId
<1>3. CompletedInv'
  BY <1>1 DEF RequestsInv, CompletedInv, RecordedId
<1>4. PostedInv'
  BY <1>1 DEF RequestsInv, PostedInv, Recorded
<1>5. SendingInv' /\ CountInv' /\ FaultlessInv'
  BY <1>1 DEF RequestsInv, SendingInv, CountInv, FaultlessInv
<1>6. QED
  BY <1>2, <1>3, <1>4, <1>5 DEF RequestsInv

\* The lengths that the counts are made of.
LEMMA RequestFacts ==
    ASSUME TypeOK
    PROVE  /\ sent \in Seq(Request) /\ cq \in Seq(Completion) /\ nic \in Seq(Request)
           /\ Len(sent) \in Nat /\ Len(cq) \in Nat /\ Len(nic) \in Nat
           /\ Take \in 0..1 /\ Sending \in 0..1 /\ faults \in Nat
           /\ (compPc = "take" <=> Take = 1) /\ (txPc = "send" <=> Sending = 1)
<1>1. /\ sent \in Seq(Request) /\ cq \in Seq(Completion) /\ nic \in Seq(Request)
      /\ faults \in Nat
  BY DEF TypeOK
<1>2. /\ Take \in 0..1 /\ Sending \in 0..1
      /\ (compPc = "take" <=> Take = 1) /\ (txPc = "send" <=> Sending = 1)
  BY DEF Take, Sending
<1>3. QED
  BY <1>1, <1>2

\* A request that is taken is recorded behind the others.
LEMMA TakeRequests == ASSUME TypeOK, RequestsInv, TxTake PROVE RequestsInv'
<1>0. /\ Len(sent) \in Nat /\ Len(cq) \in Nat /\ Len(nic) \in Nat
      /\ Take \in 0..1 /\ Sending \in 0..1
  BY RequestFacts
<1>1. /\ UNCHANGED <<cq, nic, qp_error, compPc, compCurrent, faults>>
      /\ txPc = "wait" /\ txPc' = "send"
  BY DEF TxTake, TxAwake, compVars, nicVars, history
<1>2. Take' = Take /\ Sending = 0 /\ Sending' = 1
  BY <1>1 DEF Take, Sending
<1>3. /\ Len(sent') = Len(sent) + 1
      /\ \A j \in 1..Len(sent) : sent'[j] = sent[j]
      /\ sent'[Len(sent) + 1] = txCurrent'
  BY QueueSteps DEF Pushed
<1>4. TakenInv'
  <2>1. ASSUME NEW j \in 1..Len(sent) PROVE j \in 1..Len(sent') /\ sent'[j] = sent[j]
    BY <1>0, <1>3
  <2>2. QED
    BY <1>1, <2>1 DEF RequestsInv, TakenInv, RecordedId
<1>5. CompletedInv'
  <2> SUFFICES ASSUME NEW i \in 1..Len(cq) PROVE RecordedId(Take + i, cq[i].id)'
    BY <1>1, <1>2 DEF CompletedInv
  <2>1. PICK j \in (Take + i)..Len(sent) : sent[j][1] = cq[i].id /\ (faults = 0 => j = Take + i)
    BY DEF RequestsInv, CompletedInv, RecordedId
  <2>2. j \in (Take + i)..Len(sent') /\ sent'[j] = sent[j]
    BY <1>0, <1>3
  <2>3. QED
    BY <1>1, <1>2, <2>1, <2>2 DEF RecordedId
<1>6. PostedInv'
  <2> SUFFICES ASSUME NEW i \in 1..Len(nic) PROVE Recorded(Take + Len(cq) + i, nic[i])'
    BY <1>1, <1>2 DEF PostedInv
  <2>1. PICK j \in (Take + Len(cq) + i)..Len(sent) :
            sent[j] = nic[i] /\ (faults = 0 => j = Take + Len(cq) + i)
    BY DEF RequestsInv, PostedInv, Recorded
  <2>2. j \in (Take + Len(cq) + i)..Len(sent') /\ sent'[j] = sent[j]
    BY <1>0, <1>3
  <2>3. QED
    BY <1>1, <1>2, <2>1, <2>2 DEF Recorded
<1>7. SendingInv' /\ CountInv' /\ FaultlessInv'
  BY <1>0, <1>1, <1>2, <1>3 DEF RequestsInv, SendingInv, CountInv, FaultlessInv
<1>8. QED
  BY <1>4, <1>5, <1>6, <1>7 DEF RequestsInv

\* The request that is posted is the last one recorded.
LEMMA SendRequests == ASSUME TypeOK, RequestsInv, TxSend PROVE RequestsInv'
<1>0. /\ Len(sent) \in Nat /\ Len(cq) \in Nat /\ Len(nic) \in Nat /\ nic \in Seq(Request)
      /\ Take \in 0..1 /\ Sending \in 0..1
  BY RequestFacts
<1>1. /\ UNCHANGED <<sent, cq, qp_error, compPc, compCurrent, faults, txCurrent>>
      /\ txPc = "send" /\ txPc' = "wait"
  BY DEF TxSend, queueVars, compVars, history
<1>2. Take' = Take /\ Sending = 1 /\ Sending' = 0
  BY <1>1 DEF Take, Sending
<1>3. /\ Len(nic') = Len(nic) + 1
      /\ \A i \in 1..Len(nic) : nic'[i] = nic[i]
      /\ nic'[Len(nic) + 1] = txCurrent
  BY <1>0, AppendFacts DEF TxSend, TypeOK
<1>4. TakenInv' /\ SendingInv'
  BY <1>1 DEF RequestsInv, TakenInv, SendingInv, RecordedId
<1>5. CompletedInv'
  BY <1>1, <1>2 DEF RequestsInv, CompletedInv, RecordedId
<1>6. PostedInv'
  <2> SUFFICES ASSUME NEW i \in 1..Len(nic') PROVE Recorded(Take + Len(cq) + i, nic'[i])
    BY <1>1, <1>2 DEF PostedInv, Recorded
  <2>1. CASE i \in 1..Len(nic)
    BY <1>1, <1>2, <1>3, <2>1 DEF RequestsInv, PostedInv, Recorded
  <2>2. CASE i = Len(nic) + 1
    <3>1. sent[Len(sent)] = txCurrent
      BY <1>1 DEF RequestsInv, SendingInv
    <3>2. Take + Len(cq) + i <= Len(sent) /\ (faults = 0 => Take + Len(cq) + i = Len(sent))
      BY <1>0, <1>2, <2>2 DEF RequestsInv, CountInv, FaultlessInv
    <3>3. Len(sent) \in (Take + Len(cq) + i)..Len(sent)
      BY <1>0, <2>2, <3>2
    <3>4. QED
      BY <1>1, <1>2, <1>3, <2>2, <3>1, <3>2, <3>3 DEF Recorded
  <2>3. QED
    BY <1>0, <1>3, <2>1, <2>2
<1>7. CountInv' /\ FaultlessInv'
  BY <1>0, <1>1, <1>2, <1>3 DEF RequestsInv, CountInv, FaultlessInv
<1>8. QED
  BY <1>4, <1>5, <1>6, <1>7 DEF RequestsInv

\* A request that could not be posted leaves its buffer in sent_buffers_.
LEMMA SendFailsRequests == ASSUME TypeOK, RequestsInv, TxSendFails PROVE RequestsInv'
<1>0. /\ Len(sent) \in Nat /\ Len(cq) \in Nat /\ Len(nic) \in Nat
      /\ Take \in 0..1 /\ Sending \in 0..1 /\ faults \in Nat
  BY RequestFacts
<1>1. /\ UNCHANGED <<sent, cq, nic, compPc, compCurrent>>
      /\ txPc = "send" /\ txPc' = "wait" /\ faults' = faults + 1
  BY DEF TxSendFails, Fault, queueVars, nicVars, compVars
<1>2. Take' = Take /\ Sending = 1 /\ Sending' = 0 /\ faults' # 0
  BY <1>0, <1>1 DEF Take, Sending
<1>3. TakenInv'
  BY <1>1, <1>2 DEF RequestsInv, TakenInv, RecordedId
<1>4. CompletedInv'
  BY <1>1, <1>2 DEF RequestsInv, CompletedInv, RecordedId
<1>5. PostedInv'
  BY <1>1, <1>2 DEF RequestsInv, PostedInv, Recorded
<1>6. SendingInv' /\ CountInv' /\ FaultlessInv'
  BY <1>0, <1>1, <1>2 DEF RequestsInv, SendingInv, CountInv, FaultlessInv
<1>7. QED
  BY <1>3, <1>4, <1>5, <1>6 DEF RequestsInv

\* A completion that is polled: the other ones keep their places.
LEMMA PollRequests == ASSUME TypeOK, RequestsInv, CompPoll PROVE RequestsInv'
<1>0. /\ Len(sent) \in Nat /\ Len(cq) \in Nat /\ Len(nic) \in Nat /\ cq \in Seq(Completion)
      /\ Take \in 0..1 /\ Sending \in 0..1 /\ faults \in Nat
  BY RequestFacts
<1>1. /\ UNCHANGED <<sent, nic, qp_error, faults, txPc, txCurrent>> /\ compPc = "poll"
  BY DEF CompPoll, queueVars, txVars, history
<1>2. Sending' = Sending /\ Take = 0
  BY <1>1 DEF Take, Sending
<1>3. CASE cq = <<>>
  <2>1. compPc' = "test" /\ UNCHANGED <<compCurrent, cq>>
    BY <1>3 DEF CompPoll
  <2>2. QED
    BY <1>1, <2>1, RequestsFrame
<1>4. CASE cq # <<>>
  <2>1. /\ cq' = Tail(cq) /\ compCurrent' = Head(cq)
        /\ compPc' = IF Head(cq).ok THEN "take" ELSE "test"
    BY <1>4 DEF CompPoll
  <2>2. /\ Len(cq') = Len(cq) - 1 /\ Len(cq) \in Nat \ {0} /\ Head(cq) = cq[1]
        /\ \A i \in 1..Len(cq') : cq'[i] = cq[i + 1]
    BY <1>0, <1>4, <2>1, TailFacts
  <2>3. CASE Head(cq).ok
    <3>1. compPc' = "take" /\ Take' = 1
      BY <2>1, <2>3 DEF Take
    <3>2. TakenInv'
      <4>1. RecordedId(Take + 1, cq[1].id)
        BY <2>2 DEF RequestsInv, CompletedInv
      <4>2. QED
        BY <1>1, <1>2, <2>1, <2>2, <4>1 DEF TakenInv, RecordedId
    <3>3. CompletedInv'
      <4> SUFFICES ASSUME NEW i \in 1..Len(cq') PROVE RecordedId(1 + i, cq[i + 1].id)
        BY <1>1, <2>2, <3>1 DEF CompletedInv, RecordedId
      <4>1. i + 1 \in 1..Len(cq) /\ Take + (i + 1) = 1 + i
        BY <1>0, <1>2, <2>2
      <4>2. RecordedId(Take + (i + 1), cq[i + 1].id)
        BY <4>1 DEF RequestsInv, CompletedInv
      <4>3. QED
        BY <4>1, <4>2
    <3>4. PostedInv'
      <4> SUFFICES ASSUME NEW i \in 1..Len(nic) PROVE Recorded(1 + Len(cq') + i, nic[i])
        BY <1>1, <3>1 DEF PostedInv, Recorded
      <4>1. 1 + Len(cq') + i = Take + Len(cq) + i
        BY <1>0, <1>2, <2>2
      <4>2. QED
        BY <4>1 DEF RequestsInv, PostedInv
    <3>5. SendingInv' /\ CountInv'
      BY <1>0, <1>1, <1>2, <2>2, <3>1 DEF RequestsInv, SendingInv, CountInv
    <3>6. FaultlessInv'
      BY <1>0, <1>1, <1>2, <2>2, <3>1 DEF RequestsInv, FaultlessInv
    <3>7. QED
      BY <3>2, <3>3, <3>4, <3>5, <3>6 DEF RequestsInv
  <2>4. CASE ~Head(cq).ok
    <3>1. compPc' = "test" /\ Take' = 0 /\ faults # 0
      <4>1. faults # 0
        BY <2>2, <2>4 DEF RequestsInv, FaultlessInv
      <4>2. QED
        BY <2>1, <2>4, <4>1 DEF Take
    <3>2. CompletedInv'
      <4> SUFFICES ASSUME NEW i \in 1..Len(cq') PROVE RecordedId(0 + i, cq[i + 1].id)
        BY <1>1, <2>2, <3>1 DEF CompletedInv, RecordedId
      <4>1. i + 1 \in 1..Len(cq) /\ Take + (i + 1) = 1 + i
        BY <1>0, <1>2, <2>2
      <4>2. PICK j \in (1 + i)..Len(sent) : sent[j][1] = cq[i + 1].id
        BY <4>1 DEF RequestsInv, CompletedInv, RecordedId
      <4>3. j \in (0 + i)..Len(sent)
        BY <1>0
      <4>4. QED
        BY <3>1, <4>2, <4>3 DEF RecordedId
    <3>3. PostedInv'
      <4> SUFFICES ASSUME NEW i \in 1..Len(nic) PROVE Recorded(Len(cq') + i, nic[i])
        BY <1>0, <1>1, <2>2, <3>1 DEF PostedInv, Recorded
      <4>1. PICK j \in (Take + Len(cq) + i)..Len(sent) : sent[j] = nic[i]
        BY DEF RequestsInv, PostedInv, Recorded
      <4>2. j \in (Len(cq') + i)..Len(sent)
        BY <1>0, <1>2, <2>2
      <4>3. QED
        BY <3>1, <4>1, <4>2 DEF Recorded
    <3>4. TakenInv' /\ SendingInv' /\ CountInv' /\ FaultlessInv'
      BY <1>0, <1>1, <1>2, <2>2, <3>1
         DEF RequestsInv, TakenInv, SendingInv, CountInv, FaultlessInv
    <3>5. QED
      BY <3>2, <3>3, <3>4 DEF RequestsInv
  <2>5. QED
    BY <2>3, <2>4
<1>5. QED
  BY <1>3, <1>4

\* A buffer is popped: every other request moves up by one place.
LEMMA PopRequests == ASSUME TypeOK, RequestsInv, CompTake PROVE RequestsInv'
<1>0. /\ Len(sent) \in Nat /\ Len(cq) \in Nat /\ Len(nic) \in Nat
      /\ Take \in 0..1 /\ Sending \in 0..1 /\ faults \in Nat
  BY RequestFacts
<1>1. /\ UNCHANGED <<cq, nic, qp_error, faults, txPc, txCurrent>>
      /\ compPc = "take" /\ compPc' = "test"
  BY DEF CompTake, nicVars, txVars, history
<1>2. Sending' = Sending /\ Take = 1 /\ Take' = 0
  BY <1>1 DEF Take, Sending
<1>3. /\ Len(sent) \in Nat \ {0} /\ Len(sent') = Len(sent) - 1
      /\ \A j \in 1..Len(sent') : sent'[j] = sent[j + 1]
  BY QueueSteps DEF Popped
<1>4. ASSUME NEW j \in 2..Len(sent)
      PROVE  j - 1 \in 1..Len(sent') /\ sent'[j - 1] = sent[j]
  <2>1. j - 1 \in 1..Len(sent') /\ (j - 1) + 1 = j
    BY <1>0, <1>3
  <2>2. QED
    BY <1>3, <2>1
<1>5. CompletedInv'
  <2> SUFFICES ASSUME NEW i \in 1..Len(cq)
               PROVE  \E j \in i..Len(sent') : /\ sent'[j][1] = cq[i].id
                                               /\ (faults = 0 => j = i)
    BY <1>0, <1>1, <1>2 DEF CompletedInv, RecordedId
  <2>1. PICK j \in (1 + i)..Len(sent) : sent[j][1] = cq[i].id /\ (faults = 0 => j = 1 + i)
    BY <1>2 DEF RequestsInv, CompletedInv, RecordedId
  <2>2. j \in 2..Len(sent) /\ j - 1 \in i..Len(sent') /\ (faults = 0 => j - 1 = i)
    BY <1>0, <1>3, <2>1
  <2>3. QED
    BY <1>4, <2>1, <2>2
<1>6. PostedInv'
  <2> SUFFICES ASSUME NEW i \in 1..Len(nic)
               PROVE  \E j \in (Len(cq) + i)..Len(sent') :
                          sent'[j] = nic[i] /\ (faults = 0 => j = Len(cq) + i)
    BY <1>0, <1>1, <1>2 DEF PostedInv, Recorded
  <2>1. PICK j \in (1 + Len(cq) + i)..Len(sent) :
            sent[j] = nic[i] /\ (faults = 0 => j = 1 + Len(cq) + i)
    BY <1>2 DEF RequestsInv, PostedInv, Recorded
  <2>2. /\ j \in 2..Len(sent) /\ j - 1 \in (Len(cq) + i)..Len(sent')
        /\ (faults = 0 => j - 1 = Len(cq) + i)
    BY <1>0, <1>3, <2>1
  <2>3. QED
    BY <1>4, <2>1, <2>2
<1>7. SendingInv'
  <2> SUFFICES ASSUME txPc = "send" PROVE sent'[Len(sent')] = txCurrent
    BY <1>1 DEF SendingInv
  <2>1. Len(sent) \in 2..Len(sent)
    BY <1>0, <1>2 DEF RequestsInv, CountInv, Sending
  <2>2. sent'[Len(sent) - 1] = sent[Len(sent)]
    BY <1>4, <2>1
  <2>3. QED
    BY <1>3, <2>2 DEF RequestsInv, SendingInv
<1>8. TakenInv' /\ CountInv' /\ FaultlessInv'
  BY <1>0, <1>1, <1>2, <1>3 DEF RequestsInv, TakenInv, CountInv, FaultlessInv
<1>9. QED
  BY <1>5, <1>6, <1>7, <1>8 DEF RequestsInv

\* The NIC finishes its oldest request, which becomes the newest completion.
LEMMA NicRequests == ASSUME TypeOK, RequestsInv, Nic PROVE RequestsInv'
<1>0. /\ Len(sent) \in Nat /\ Len(cq) \in Nat /\ Len(nic) \in Nat
      /\ Take \in 0..1 /\ Sending \in 0..1 /\ faults \in Nat
      /\ nic \in Seq(Request) /\ cq \in Seq(Completion)
  BY RequestFacts
<1>1. /\ UNCHANGED <<sent, txPc, txCurrent, compPc, compCurrent>>
      /\ nic # <<>> /\ nic' = Tail(nic)
  BY DEF Nic, NicTransmit, NicFails, queueVars, compVars, txVars
<1>2. Sending' = Sending /\ Take' = Take
  BY <1>1 DEF Take, Sending
<1>3. /\ Len(nic) \in Nat \ {0} /\ Len(nic') = Len(nic) - 1 /\ Head(nic) = nic[1]
      /\ Head(nic) \in Request
      /\ \A i \in 1..Len(nic') : nic'[i] = nic[i + 1]
  BY <1>0, <1>1, TailFacts
<1>4. PICK ok \in BOOLEAN :
        /\ cq' = Append(cq, [id |-> Head(nic)[1], ok |-> ok])
        /\ ok => faults' = faults /\ qp_error' = qp_error
        /\ ~ok => faults' # 0
  <2>1. CASE NicTransmit
    BY <2>1 DEF NicTransmit, history
  <2>2. CASE NicFails
    <3>1. faults' # 0
      BY <1>0, <2>2 DEF NicFails, Fault, RequestsInv, FaultlessInv
    <3>2. QED
      BY <2>2, <3>1 DEF NicFails
  <2>3. QED
    BY <2>1, <2>2 DEF Nic
<1>5. faults' = 0 => faults = 0 /\ ok
  BY <1>4
<1>6. [id |-> Head(nic)[1], ok |-> ok] \in Completion
  BY <1>3, <1>4 DEF Completion, Request
<1>7. /\ Len(cq') = Len(cq) + 1
      /\ \A i \in 1..Len(cq) : cq'[i] = cq[i]
      /\ cq'[Len(cq) + 1] = [id |-> Head(nic)[1], ok |-> ok]
  BY <1>0, <1>4, <1>6, AppendFacts
<1>L. Len(cq') = Len(cq) + 1 /\ Len(nic') = Len(nic) - 1 /\ Len(nic) \in Nat \ {0}
  BY <1>3, <1>7, Zenon
<1>8. CompletedInv'
  <2> SUFFICES ASSUME NEW i \in 1..Len(cq')
               PROVE  \E j \in (Take + i)..Len(sent) : /\ sent[j][1] = cq'[i].id
                                                       /\ (faults' = 0 => j = Take + i)
    BY <1>1, <1>2 DEF CompletedInv, RecordedId
  <2>1. CASE i \in 1..Len(cq)
    BY <1>5, <1>7, <2>1 DEF RequestsInv, CompletedInv, RecordedId
  <2>2. CASE i = Len(cq) + 1
    <3>1. Recorded(Take + Len(cq) + 1, nic[1])
      BY <1>3 DEF RequestsInv, PostedInv
    <3>2. PICK j \in (Take + Len(cq) + 1)..Len(sent) :
              sent[j] = nic[1] /\ (faults = 0 => j = Take + Len(cq) + 1)
      BY <3>1 DEF Recorded
    <3>3. Take + i = Take + Len(cq) + 1 /\ cq'[i].id = nic[1][1]
      BY <1>0, <1>3, <1>7, <2>2
    <3>4. QED
      BY <1>5, <3>2, <3>3
  <2>3. QED
    BY <1>0, <1>7, <2>1, <2>2
<1>9. PostedInv'
  <2> SUFFICES ASSUME NEW i \in 1..Len(nic')
               PROVE  \E j \in (Take + Len(cq') + i)..Len(sent) :
                          /\ sent[j] = nic'[i]
                          /\ (faults' = 0 => j = Take + Len(cq') + i)
    BY <1>1, <1>2, Zenon DEF PostedInv, Recorded
  <2>1. i + 1 \in 1..Len(nic) /\ Take + Len(cq') + i = Take + Len(cq) + (i + 1)
    BY <1>0, <1>L
  <2>2. Recorded(Take + Len(cq) + (i + 1), nic[i + 1])
    BY <2>1 DEF RequestsInv, PostedInv
  <2>3. QED
    BY <1>3, <1>5, <2>1, <2>2 DEF Recorded
<1>10. TakenInv' /\ SendingInv'
  BY <1>1, <1>5 DEF RequestsInv, TakenInv, SendingInv, RecordedId
<1>11. CountInv'
  BY <1>0, <1>1, <1>2, <1>3, <1>7 DEF RequestsInv, CountInv
<1>12. FaultlessInv'
  <2> SUFFICES ASSUME faults' = 0
               PROVE  /\ Take + Len(cq') + Len(nic') + Sending = Len(sent)
                      /\ ~qp_error'
                      /\ \A i \in 1..Len(cq') : cq'[i].ok
    BY <1>1, <1>2 DEF FaultlessInv
  <2>1. /\ faults = 0 /\ ok /\ qp_error' = qp_error
    BY <1>4, <1>5, Zenon
  <2>2. /\ Take + Len(cq) + Len(nic) + Sending = Len(sent) /\ ~qp_error
        /\ \A i \in 1..Len(cq) : cq[i].ok
    BY <2>1 DEF RequestsInv, FaultlessInv
  <2>3. Take + Len(cq') + Len(nic') + Sending = Len(sent)
    <3>1. Take + Len(cq) + Len(nic) + Sending = Len(sent)
      BY <2>2, Zenon
    <3>2. Take \in Nat /\ Sending \in Nat /\ Len(sent) \in Nat /\ Len(cq) \in Nat
      BY <1>0
    <3>3. QED
      BY <1>L, <3>1, <3>2
  <2>4. ASSUME NEW i \in 1..Len(cq') PROVE cq'[i].ok
    <3>1. i \in 1..Len(cq) \/ i = Len(cq) + 1
      BY <1>0, <1>7
    <3>2. QED
      BY <1>7, <2>1, <2>2, <3>1
  <2>5. QED
    BY <2>1, <2>2, <2>3, <2>4
<1>13. QED
  BY <1>8, <1>9, <1>10, <1>11, <1>12 DEF RequestsInv

\* Every step keeps the requests recorded.
LEMMA NextRequests == TypeOK /\ RequestsInv /\ PlacesInv /\ [Next]_vars => RequestsInv'
<1> SUFFICES ASSUME TypeOK, RequestsInv, PlacesInv, [Next]_vars PROVE RequestsInv'
  OBVIOUS
<1>1. CASE Start
  <2>1. opPc = "created" /\ compPc' = "test" /\ txPc' = "wait"
        /\ UNCHANGED <<sent, cq, nic, qp_error, compCurrent, txCurrent, faults>>
    BY <1>1 DEF Start, nicVars, history
  <2>2. compPc = "none" /\ txPc = "none"
    BY <2>1 DEF PlacesInv, NotStarted
  <2>3. QED
    BY <2>1, <2>2, RequestsFrame
<1>2. CASE \/ StartFails \/ QueueStore \/ QueueThrows \/ FlushReturn \/ Quiet
           \/ \E b \in Buffers : CopyDone(b)
  <2>1. /\ UNCHANGED <<sent, cq, nic, qp_error, compCurrent, txCurrent>>
        /\ compPc' = "take" <=> compPc = "take"
        /\ txPc' = "send" <=> txPc = "send"
    BY <1>2 DEF StartFails, QueueStore, QueueThrows, FlushReturn, CopyDone, Quiet, queueVars,
         compVars, txVars, nicVars
  <2>2. faults' = faults \/ faults' = faults + 1
    BY <1>2 DEF StartFails, QueueStore, QueueThrows, FlushReturn, CopyDone, Quiet, Fault, history
  <2>3. faults' = 0 => faults = 0
    BY <2>2, RequestFacts
  <2>4. QED
    BY <2>1, <2>3, RequestsFrame
<1>3. QED
  BY <1>1, <1>2, TakeRequests, SendRequests, SendFailsRequests, PollRequests, PopRequests,
     NicRequests, QuietOrBusy, Zenon DEF Busy, Nic

-----------------------------------------------------------------------------
(* Order. *)

\* Every step keeps the order of the requests.
LEMMA NextOrder == TypeOK /\ OrderInv /\ PlacesInv /\ [Next]_vars => OrderInv'
<1> SUFFICES ASSUME TypeOK, OrderInv, PlacesInv, [Next]_vars PROVE OrderInv'
  OBVIOUS
<1>0. /\ wr_id \in Nat /\ Sending \in 0..1 /\ Len(nic) \in Nat /\ Len(wire) \in Nat
      /\ nic \in Seq(Request) /\ wire \in Seq(Ids \X Tensors)
  BY RequestFacts DEF TypeOK, Ids
<1>1. /\ \A i \in 1..Len(nic) : nic[i][1] \in Nat
      /\ \A i \in 1..Len(wire) : wire[i][1] \in Nat
  <2>1. ASSUME NEW i \in 1..Len(nic) PROVE nic[i][1] \in Nat
    <3>1. nic[i] \in Request
      BY <1>0
    <3>2. QED
      BY <3>1 DEF Request, Ids
  <2>2. ASSUME NEW i \in 1..Len(wire) PROVE wire[i][1] \in Nat
    <3>1. wire[i] \in Ids \X Tensors
      BY <1>0
    <3>2. QED
      BY <3>1 DEF Ids
  <2>3. QED
    BY <2>1, <2>2
<1>2. CASE TxTake
  <2>1. UNCHANGED <<nic, wire>> /\ wr_id' = wr_id + 1 /\ txCurrent' = <<wr_id, Head(pending)>>
        /\ txPc = "wait" /\ txPc' = "send"
    BY <1>2 DEF TxTake, TxAwake, nicVars
  <2>2. Sending = 0 /\ Sending' = 1 /\ wr_id' - Sending' = wr_id - Sending
        /\ txCurrent'[1] = wr_id' - 1
    BY <1>0, <2>1 DEF Sending
  <2>3. QED
    BY <2>1, <2>2 DEF OrderInv
<1>3. CASE TxSend
  <2>1. UNCHANGED <<wire, wr_id, txCurrent>> /\ txPc = "send" /\ txPc' = "wait"
    BY <1>3 DEF TxSend
  <2>2. Sending = 1 /\ Sending' = 0 /\ txCurrent[1] = wr_id - 1
    BY <2>1 DEF Sending, OrderInv
  <2>3. /\ Len(nic') = Len(nic) + 1
        /\ \A i \in 1..Len(nic) : nic'[i] = nic[i]
        /\ nic'[Len(nic) + 1] = txCurrent
    BY <1>0, <1>3, AppendFacts DEF TxSend, TypeOK
  <2>4. \A i \in 1..Len(nic') : i \in 1..Len(nic) \/ (i = Len(nic) + 1 /\ nic'[i][1] = wr_id - 1)
    BY <1>0, <2>2, <2>3
  <2>5. \A i, j \in 1..Len(nic') : i < j => nic'[i][1] < nic'[j][1]
    BY <1>0, <1>1, <2>2, <2>3, <2>4 DEF OrderInv
  <2>6. \A i \in 1..Len(nic') : nic'[i][1] < wr_id - 0
    BY <1>0, <1>1, <2>2, <2>3, <2>4 DEF OrderInv
  <2>7. \A i \in 1..Len(wire), j \in 1..Len(nic') : wire[i][1] < nic'[j][1]
    BY <1>0, <1>1, <2>2, <2>3, <2>4 DEF OrderInv
  <2>8. \A i \in 1..Len(wire) : wire[i][1] < wr_id - 0
    BY <1>0, <1>1, <2>2 DEF OrderInv
  <2>9. \A i, j \in 1..Len(wire) : i < j => wire[i][1] < wire[j][1]
    BY DEF OrderInv
  <2>10. QED
    BY <2>1, <2>2, <2>5, <2>6, <2>7, <2>8, <2>9 DEF OrderInv
<1>4. CASE TxSendFails
  <2>1. UNCHANGED <<nic, wire, wr_id>> /\ txPc = "send" /\ txPc' = "wait"
    BY <1>4 DEF TxSendFails, nicVars
  <2>2. Sending = 1 /\ Sending' = 0
    BY <2>1 DEF Sending
  <2>3. /\ \A i \in 1..Len(wire) : wire[i][1] < wr_id - 0
        /\ \A i \in 1..Len(nic) : nic[i][1] < wr_id - 0
    BY <1>0, <1>1, <2>2 DEF OrderInv
  <2>4. QED
    BY <2>1, <2>2, <2>3 DEF OrderInv
<1>5. CASE Nic
  <2>1. /\ nic # <<>> /\ nic' = Tail(nic) /\ UNCHANGED <<txPc, txCurrent, wr_id>>
    BY <1>5 DEF Nic, NicTransmit, NicFails, txVars
  <2>2. Sending' = Sending
    BY <2>1 DEF Sending
  <2>3. /\ Len(nic) \in Nat \ {0} /\ Len(nic') = Len(nic) - 1 /\ Head(nic) = nic[1]
        /\ \A i \in 1..Len(nic') : nic'[i] = nic[i + 1]
    BY <1>0, <2>1, TailFacts
  <2>4. \A i \in 1..Len(nic') : i + 1 \in 1..Len(nic) /\ 1 < i + 1
    BY <1>0, <2>3
  <2>5. /\ \A i, j \in 1..Len(nic') : i < j => nic'[i][1] < nic'[j][1]
        /\ \A i \in 1..Len(nic') : nic'[i][1] < wr_id - Sending
        /\ \A i \in 1..Len(nic') : nic[1][1] < nic'[i][1]
    <3>1. \A i, j \in 1..Len(nic) : i < j => nic[i][1] < nic[j][1]
      BY DEF OrderInv
    <3>2. \A i \in 1..Len(nic) : nic[i][1] < wr_id - Sending
      BY DEF OrderInv
    <3>3. ASSUME NEW i \in 1..Len(nic'), NEW j \in 1..Len(nic'), i < j
          PROVE  nic'[i][1] < nic'[j][1]
      <4>1. i + 1 \in 1..Len(nic) /\ j + 1 \in 1..Len(nic) /\ i + 1 < j + 1
        BY <2>4, <3>3
      <4>2. nic[i + 1][1] < nic[j + 1][1]
        BY <3>1, <4>1
      <4>3. QED
        BY <2>3, <4>2
    <3>4. ASSUME NEW i \in 1..Len(nic')
          PROVE  nic'[i][1] < wr_id - Sending /\ nic[1][1] < nic'[i][1]
      <4>1. nic'[i] = nic[i + 1] /\ i + 1 \in 1..Len(nic) /\ 1 \in 1..Len(nic) /\ 1 < i + 1
        BY <2>3, <2>4
      <4>2. QED
        BY <3>1, <3>2, <4>1
    <3>5. QED
      BY <3>3, <3>4
  <2>6. \A i \in 1..Len(wire), j \in 1..Len(nic') : wire[i][1] < nic'[j][1]
    BY <1>0, <2>3, <2>4 DEF OrderInv
  <2>7. CASE NicFails
    <3>1. wire' = wire
      BY <2>7 DEF NicFails
    <3>2. QED
      BY <2>1, <2>2, <2>5, <2>6, <3>1 DEF OrderInv
  <2>8. CASE NicTransmit
    <3>1. nic[1] \in Request
      BY <1>0, <2>3
    <3>2. <<Head(nic)[1], content[Head(nic)[2]]>> \in Ids \X Tensors
      BY <2>3, <3>1 DEF TypeOK, Request
    <3>3. /\ Len(wire') = Len(wire) + 1
          /\ \A i \in 1..Len(wire) : wire'[i] = wire[i]
          /\ wire'[Len(wire) + 1][1] = nic[1][1]
      BY <1>0, <2>3, <2>8, <3>2, AppendFacts DEF NicTransmit
    <3>4. \A i \in 1..Len(wire') : i \in 1..Len(wire) \/ i = Len(wire) + 1
      BY <1>0, <3>3
    <3>5. \A i \in 1..Len(wire) : wire[i][1] < nic[1][1]
      BY <2>3 DEF OrderInv
    <3>6. \A i, j \in 1..Len(wire') : i < j => wire'[i][1] < wire'[j][1]
      BY <1>0, <3>3, <3>4, <3>5 DEF OrderInv
    <3>7. \A i \in 1..Len(wire'), j \in 1..Len(nic') : wire'[i][1] < nic'[j][1]
      BY <2>5, <2>6, <3>3, <3>4
    <3>8. \A i \in 1..Len(wire') : wire'[i][1] < wr_id - Sending
      BY <2>3, <3>3, <3>4 DEF OrderInv
    <3>9. QED
      BY <2>1, <2>2, <2>5, <3>6, <3>7, <3>8 DEF OrderInv
  <2>9. QED
    BY <1>5, <2>7, <2>8 DEF Nic
<1>6. CASE \/ Start \/ StartFails \/ QueueStore \/ QueueThrows \/ FlushReturn \/ CompPoll
           \/ CompTake \/ (\E b \in Buffers : CopyDone(b)) \/ Quiet
  <2>1. UNCHANGED <<nic, wire, wr_id, txCurrent>>
    BY <1>6 DEF Start, StartFails, QueueStore, QueueThrows, FlushReturn, CompPoll, CompTake,
         CopyDone, Quiet, txVars, nicVars
  <2>2. txPc' = "send" <=> txPc = "send"
    <3>1. CASE Start
      BY <3>1 DEF Start, PlacesInv, NotStarted
    <3>2. CASE ~Start
      BY <1>6, <3>2 DEF StartFails, QueueStore, QueueThrows, FlushReturn, CompPoll, CompTake,
           CopyDone, Quiet, txVars
    <3>3. QED
      BY <3>1, <3>2
  <2>3. Sending' = Sending
    BY <2>2 DEF Sending
  <2>4. QED
    BY <2>1, <2>2, <2>3 DEF OrderInv
<1>7. QED
  BY <1>2, <1>3, <1>4, <1>5, <1>6, QuietOrBusy, Zenon DEF Busy, Nic

-----------------------------------------------------------------------------
(* What the buffers hold. *)

\* What is on its way to the device is not available.
LEMMA OnItsWay ==
    ASSUME TypeOK, DistinctInv, RequestsInv, NEW b \in Buffers, In(b, available)
    PROVE  /\ \A i \in 1..Len(pending) : pending[i] # b
           /\ \A i \in 1..Len(nic) : nic[i][2] # b
           /\ txPc = "send" => txCurrent[2] # b
<1>0. /\ Len(sent) \in Nat /\ Len(cq) \in Nat /\ Len(nic) \in Nat /\ sent \in Seq(Request)
      /\ Take \in 0..1 /\ Sending \in 0..1
  BY RequestFacts
<1>1. ~In(b, pending) /\ ~In(b, SentBuffers)
  BY Zenon DEF DistinctInv
<1>2. \A j \in 1..Len(sent) : sent[j][2] # b
  <2>1. /\ Len(SentBuffers) = Len(sent)
        /\ \A j \in 1..Len(sent) : SentBuffers[j] = sent[j][2]
    BY <1>0, SentFacts DEF SentBuffers
  <2>2. QED
    BY <1>1, <2>1 DEF In
<1>3. ASSUME NEW i \in 1..Len(nic) PROVE nic[i][2] # b
  <2>1. PICK j \in (Take + Len(cq) + i)..Len(sent) : sent[j] = nic[i]
    BY DEF RequestsInv, PostedInv, Recorded
  <2>2. j \in 1..Len(sent)
    BY <1>0
  <2>3. QED
    BY <1>2, <2>1, <2>2
<1>4. txPc = "send" => txCurrent[2] # b
  <2> SUFFICES ASSUME txPc = "send" PROVE txCurrent[2] # b
    OBVIOUS
  <2>1. Sending = 1
    BY DEF Sending
  <2>2. Take + Len(cq) + Len(nic) + Sending <= Len(sent)
    BY DEF RequestsInv, CountInv
  <2>3. Len(sent) \in 1..Len(sent)
    BY <1>0, <2>1, <2>2
  <2>4. QED
    BY <1>2, <2>3 DEF RequestsInv, SendingInv
<1>5. QED
  BY <1>1, <1>3, <1>4 DEF In

\* The end of a copy changes what a buffer holds, not what it will hold.
LEMMA CopyFinal ==
    ASSUME TypeOK, NEW b \in Buffers, CopyDone(b)
    PROVE  /\ \A c \in Buffers : FinalOf(stream'[c], content'[c]) = Final(c)
           /\ \A c \in Buffers \ {b} : stream'[c] = stream[c] /\ content'[c] = content[c]
<1>1. stream \in [Buffers -> Seq(Tensors)] /\ content \in [Buffers -> Tensors]
  BY DEF TypeOK
<1>2. /\ stream[b] # <<>> /\ stream[b] \in Seq(Tensors)
      /\ content' = [content EXCEPT ![b] = Head(stream[b])]
      /\ stream' = [stream EXCEPT ![b] = Tail(stream[b])]
  BY <1>1 DEF CopyDone
<1>3. \A c \in Buffers \ {b} : stream'[c] = stream[c] /\ content'[c] = content[c]
  BY <1>1, <1>2
<1>4. stream'[b] = Tail(stream[b]) /\ content'[b] = Head(stream[b])
  BY <1>1, <1>2
<1>5. /\ Len(stream[b]) \in Nat \ {0} /\ Head(stream[b]) = stream[b][1]
      /\ Tail(stream[b]) \in Seq(Tensors) /\ Len(Tail(stream[b])) = Len(stream[b]) - 1
      /\ \A i \in 1..Len(Tail(stream[b])) : Tail(stream[b])[i] = stream[b][i + 1]
  BY <1>2, TailFacts
<1>6. FinalOf(stream'[b], content'[b]) = Final(b)
  <2>1. CASE Tail(stream[b]) = <<>>
    <3>1. Len(stream[b]) = 1
      <4>0. Len(Tail(stream[b])) = Len(<<>>)
        BY <2>1, Zenon
      <4>1. Len(<<>>) = 0
        OBVIOUS
      <4>2. Len(stream[b]) \in Nat /\ Len(Tail(stream[b])) = Len(stream[b]) - 1
        BY <1>5
      <4>3. QED
        BY <4>0, <4>1, <4>2
    <3>2. QED
      BY <1>2, <1>4, <1>5, <2>1, <3>1 DEF Final, FinalOf
  <2>2. CASE Tail(stream[b]) # <<>>
    <3>1. Len(Tail(stream[b])) \in 1..Len(Tail(stream[b]))
      BY <1>5, <2>2
    <3>2. Tail(stream[b])[Len(Tail(stream[b]))] = stream[b][Len(Tail(stream[b])) + 1]
      BY <1>5, <3>1
    <3>3. Len(Tail(stream[b])) + 1 = Len(stream[b])
      BY <1>5
    <3>4. QED
      BY <1>2, <1>4, <2>2, <3>2, <3>3 DEF Final, FinalOf
  <2>3. QED
    BY <2>1, <2>2
<1>7. \A c \in Buffers \ {b} : FinalOf(stream'[c], content'[c]) = Final(c)
  BY <1>3 DEF Final, FinalOf
<1>8. QED
  BY <1>3, <1>6, <1>7

\* A copy that begins decides what its buffer will hold.
LEMMA StoreFinal ==
    ASSUME TypeOK, NumbersInv, QueueStore, NEW c \in Buffers
    PROVE  IF c = Head(available)
           THEN FinalOf(stream'[c], content'[c]) = stored + 1
           ELSE /\ FinalOf(stream'[c], content'[c]) = Final(c)
                /\ stream'[c] = stream[c] /\ content'[c] = content[c]
<1>1. /\ stream \in [Buffers -> Seq(Tensors)] /\ content' = content
      /\ stream' = [stream EXCEPT ![Head(available)] = Append(@, stored + 1)]
  BY DEF TypeOK, QueueStore
<1>2. CASE c = Head(available)
  <2>1. stream'[c] = Append(stream[c], stored + 1)
    BY <1>1, <1>2
  <2>2. stream[c] \in Seq(Tensors)
    BY <1>1
  <2>3. stored + 1 \in Tensors
    <3>1. stored \in 0..MaxTensors
      BY DEF TypeOK, Tensors
    <3>2. stored < MaxTensors
      BY DEF NumbersInv, QueueStore
    <3>3. QED
      BY <3>1, <3>2, TransmitterAssumption DEF Tensors
  <2>4. /\ Len(stream'[c]) = Len(stream[c]) + 1 /\ Len(stream[c]) \in Nat
        /\ stream'[c][Len(stream[c]) + 1] = stored + 1
    BY <2>1, <2>2, <2>3, AppendFacts
  <2>5. stream'[c] # <<>>
    <3>1. Len(<<>>) = 0
      OBVIOUS
    <3>2. QED
      BY <2>4, <3>1
  <2>6. QED
    BY <1>2, <2>4, <2>5 DEF Final, FinalOf
<1>3. CASE c # Head(available)
  <2>1. stream'[c] = stream[c] /\ content'[c] = content[c]
    BY <1>1, <1>3
  <2>2. QED
    BY <1>3, <2>1 DEF Final, FinalOf
<1>4. QED
  BY <1>2, <1>3

\* The types of what the contents are about.
LEMMA ContentFacts ==
    ASSUME TypeOK
    PROVE  /\ wr_id \in Nat /\ stored \in Nat /\ Len(pending) \in Nat /\ Len(nic) \in Nat
           /\ Len(wire) \in Nat /\ pending \in Seq(Buffers) /\ nic \in Seq(Request)
           /\ wire \in Seq(Ids \X Tensors)
           /\ \A i \in 1..Len(pending) : pending[i] \in Buffers
           /\ \A i \in 1..Len(nic) : nic[i] \in Request /\ nic[i][2] \in Buffers
           /\ txCurrent \in Request /\ txCurrent[2] \in Buffers
<1>1. /\ wr_id \in Nat /\ stored \in Nat /\ Len(pending) \in Nat /\ Len(nic) \in Nat
      /\ Len(wire) \in Nat /\ pending \in Seq(Buffers) /\ nic \in Seq(Request)
      /\ wire \in Seq(Ids \X Tensors) /\ txCurrent \in Request
  BY DEF TypeOK, Ids, Tensors
<1>2. /\ \A i \in 1..Len(nic) : nic[i] \in Request
      /\ \A i \in 1..Len(pending) : pending[i] \in Buffers
  BY <1>1
<1>3. QED
  BY <1>1, <1>2 DEF Request

\* A buffer that is stored to is not one that the device will read earlier.
LEMMA StoreContent ==
    ASSUME TypeOK, NumbersInv, DistinctInv, RequestsInv, ContentInv, QueueStore
    PROVE  ContentInv'
<1>0. /\ wr_id \in Nat /\ stored \in Nat /\ Len(pending) \in Nat
      /\ \A i \in 1..Len(pending) : pending[i] \in Buffers
      /\ \A i \in 1..Len(nic) : nic[i] \in Request /\ nic[i][2] \in Buffers
      /\ txCurrent[2] \in Buffers
  BY ContentFacts
<1>1. UNCHANGED <<nic, wire, wr_id, txPc, txCurrent>>
  BY DEF QueueStore, nicVars, txVars
<1>2. /\ Head(available) = available[1] /\ Pushed(pending, pending', available[1])
      /\ Len(available) \in Nat \ {0}
  BY QueueSteps, Zenon
<1>3. available[1] \in Buffers /\ In(available[1], available)
  BY <1>2 DEF In, TypeOK
<1>4. /\ \A i \in 1..Len(pending) : pending[i] # available[1]
      /\ \A i \in 1..Len(nic) : nic[i][2] # available[1]
      /\ txPc = "send" => txCurrent[2] # available[1]
  BY <1>3, OnItsWay, Zenon
<1>5. \A c \in Buffers : IF c = available[1]
                         THEN FinalOf(stream'[c], content'[c]) = stored + 1
                         ELSE /\ FinalOf(stream'[c], content'[c]) = Final(c)
                              /\ stream'[c] = stream[c] /\ content'[c] = content[c]
  BY <1>2, StoreFinal, Zenon
<1>6. PendingContent'
  <2> SUFFICES ASSUME NEW i \in 1..Len(pending')
               PROVE  FinalOf(stream'[pending'[i]], content'[pending'[i]]) = wr_id + i
    BY <1>1 DEF PendingContent, Final
  <2>1. CASE i \in 1..Len(pending)
    <3>1. pending'[i] = pending[i] /\ pending[i] \in Buffers \ {available[1]}
      BY <1>0, <1>2, <1>4, <2>1 DEF Pushed
    <3>2. QED
      BY <1>5, <2>1, <3>1 DEF ContentInv, PendingContent
  <2>2. CASE i = Len(pending) + 1
    <3>1. pending'[i] = available[1]
      BY <1>2, <2>2 DEF Pushed
    <3>2. stored + 1 = wr_id + i
      BY <1>0, <2>2 DEF NumbersInv
    <3>3. QED
      BY <1>3, <1>5, <3>1, <3>2
  <2>3. QED
    BY <1>0, <1>2, <2>1, <2>2 DEF Pushed
<1>7. SendContent'
  <2> SUFFICES ASSUME txPc = "send"
               PROVE  FinalOf(stream'[txCurrent[2]], content'[txCurrent[2]]) = txCurrent[1] + 1
    BY <1>1 DEF SendContent, Final
  <2>1. Final(txCurrent[2]) = txCurrent[1] + 1
    BY DEF ContentInv, SendContent
  <2>2. QED
    BY <1>0, <1>4, <1>5, <2>1
<1>8. NicContent'
  <2> SUFFICES ASSUME NEW i \in 1..Len(nic)
               PROVE  stream'[nic[i][2]] = <<>> /\ content'[nic[i][2]] = nic[i][1] + 1
    BY <1>1 DEF NicContent
  <2>1. nic[i][2] \in Buffers \ {available[1]}
    BY <1>0, <1>4
  <2>2. QED
    BY <1>5, <2>1 DEF ContentInv, NicContent
<1>9. WireContent'
  BY <1>1 DEF ContentInv, WireContent
<1>10. QED
  BY <1>6, <1>7, <1>8, <1>9 DEF ContentInv

\* The NIC reads a buffer only when the copies into it have ended.
LEMMA SendContentKept == ASSUME TypeOK, ContentInv, TxSend PROVE ContentInv'
<1>0. nic \in Seq(Request) /\ txCurrent \in Request /\ Len(nic) \in Nat
  BY ContentFacts
<1>1. /\ UNCHANGED <<pending, wire, wr_id, stream, content, txCurrent>>
      /\ txPc = "send" /\ txPc' = "wait" /\ stream[txCurrent[2]] = <<>>
  BY DEF TxSend, Synchronized, queueVars, copyVars
<1>2. /\ Len(nic') = Len(nic) + 1
      /\ \A i \in 1..Len(nic) : nic'[i] = nic[i]
      /\ nic'[Len(nic) + 1] = txCurrent
  BY <1>0, AppendFacts DEF TxSend
<1>3. content[txCurrent[2]] = txCurrent[1] + 1
  BY <1>1 DEF ContentInv, SendContent, Final, FinalOf
<1>4. NicContent'
  <2> SUFFICES ASSUME NEW i \in 1..Len(nic')
               PROVE  stream[nic'[i][2]] = <<>> /\ content[nic'[i][2]] = nic'[i][1] + 1
    BY <1>1 DEF NicContent
  <2>1. i \in 1..Len(nic) \/ i = Len(nic) + 1
    BY <1>0, <1>2
  <2>2. QED
    BY <1>1, <1>2, <1>3, <2>1 DEF ContentInv, NicContent
<1>5. PendingContent' /\ SendContent' /\ WireContent'
  BY <1>1 DEF ContentInv, PendingContent, SendContent, WireContent, Final
<1>6. QED
  BY <1>4, <1>5 DEF ContentInv

\* Every step keeps what the buffers on their way to the device hold.
LEMMA NextContent ==
    TypeOK /\ NumbersInv /\ DistinctInv /\ RequestsInv /\ PlacesInv /\ ContentInv /\ [Next]_vars
        => ContentInv'
<1> SUFFICES ASSUME TypeOK, NumbersInv, DistinctInv, RequestsInv, PlacesInv, ContentInv,
                    [Next]_vars
             PROVE  ContentInv'
  OBVIOUS
<1>0. /\ wr_id \in Nat /\ Len(pending) \in Nat /\ Len(nic) \in Nat
      /\ Len(wire) \in Nat /\ nic \in Seq(Request) /\ wire \in Seq(Ids \X Tensors)
      /\ \A i \in 1..Len(pending) : pending[i] \in Buffers
      /\ \A i \in 1..Len(nic) : nic[i] \in Request /\ nic[i][2] \in Buffers
      /\ txCurrent[2] \in Buffers
  BY ContentFacts
<1>1. CASE TxTake
  <2>1. UNCHANGED <<nic, wire, stream, content>> /\ wr_id' = wr_id + 1 /\ txPc' = "send"
    BY <1>1 DEF TxTake, nicVars, copyVars
  <2>2. /\ Len(pending) \in Nat \ {0} /\ Len(pending') = Len(pending) - 1
        /\ \A i \in 1..Len(pending') : pending'[i] = pending[i + 1]
        /\ txCurrent' = <<wr_id, pending[1]>>
    BY <1>1, QueueSteps DEF Popped
  <2>3. PendingContent'
    <3> SUFFICES ASSUME NEW i \in 1..Len(pending') PROVE Final(pending[i + 1]) = (wr_id + 1) + i
      BY <2>1, <2>2 DEF PendingContent, Final
    <3>1. i + 1 \in 1..Len(pending) /\ (wr_id + 1) + i = wr_id + (i + 1)
      BY <1>0, <2>2
    <3>2. QED
      BY <3>1 DEF ContentInv, PendingContent
  <2>4. SendContent'
    <3>1. Final(pending[1]) = wr_id + 1
      BY <2>2 DEF ContentInv, PendingContent
    <3>2. QED
      BY <2>1, <2>2, <3>1 DEF SendContent, Final
  <2>5. NicContent' /\ WireContent'
    BY <2>1 DEF ContentInv, NicContent, WireContent
  <2>6. QED
    BY <2>3, <2>4, <2>5 DEF ContentInv
<1>2. CASE NicTransmit
  <2>1. /\ UNCHANGED <<pending, stream, content, wr_id, txPc, txCurrent>>
        /\ nic # <<>> /\ nic' = Tail(nic)
    BY <1>2 DEF NicTransmit, queueVars, copyVars, txVars
  <2>2. /\ Len(nic) \in Nat \ {0} /\ Len(nic') = Len(nic) - 1 /\ Head(nic) = nic[1]
        /\ \A i \in 1..Len(nic') : nic'[i] = nic[i + 1]
    BY <1>0, <2>1, TailFacts
  <2>3. /\ nic[1] \in Request /\ nic[1][2] \in Buffers /\ content[nic[1][2]] = nic[1][1] + 1
    BY <1>0, <2>2 DEF ContentInv, NicContent
  <2>4. <<Head(nic)[1], content[Head(nic)[2]]>> \in Ids \X Tensors
    BY <2>2, <2>3 DEF TypeOK, Request
  <2>5. /\ Len(wire') = Len(wire) + 1
        /\ \A i \in 1..Len(wire) : wire'[i] = wire[i]
        /\ wire'[Len(wire) + 1] = <<nic[1][1], content[nic[1][2]]>>
    BY <1>0, <1>2, <2>2, <2>4, AppendFacts DEF NicTransmit
  <2>6. WireContent'
    <3> SUFFICES ASSUME NEW i \in 1..Len(wire') PROVE wire'[i][2] = wire'[i][1] + 1
      BY DEF WireContent
    <3>1. i \in 1..Len(wire) \/ i = Len(wire) + 1
      BY <1>0, <2>5
    <3>2. QED
      BY <2>3, <2>5, <3>1 DEF ContentInv, WireContent
  <2>7. NicContent'
    <3> SUFFICES ASSUME NEW i \in 1..Len(nic')
                 PROVE  stream[nic[i + 1][2]] = <<>> /\ content[nic[i + 1][2]] = nic[i + 1][1] + 1
      BY <2>1, <2>2 DEF NicContent
    <3>1. i + 1 \in 1..Len(nic)
      BY <1>0, <2>2
    <3>2. QED
      BY <3>1 DEF ContentInv, NicContent
  <2>8. PendingContent' /\ SendContent'
    BY <2>1 DEF ContentInv, PendingContent, SendContent, Final
  <2>9. QED
    BY <2>6, <2>7, <2>8 DEF ContentInv
<1>3. CASE NicFails
  <2>1. /\ UNCHANGED <<pending, stream, content, wr_id, txPc, txCurrent, wire>>
        /\ nic # <<>> /\ nic' = Tail(nic)
    BY <1>3 DEF NicFails, queueVars, copyVars, txVars
  <2>2. /\ Len(nic) \in Nat \ {0} /\ Len(nic') = Len(nic) - 1
        /\ \A i \in 1..Len(nic') : nic'[i] = nic[i + 1]
    BY <1>0, <2>1, TailFacts
  <2>3. NicContent'
    <3> SUFFICES ASSUME NEW i \in 1..Len(nic')
                 PROVE  stream[nic[i + 1][2]] = <<>> /\ content[nic[i + 1][2]] = nic[i + 1][1] + 1
      BY <2>1, <2>2 DEF NicContent
    <3>1. i + 1 \in 1..Len(nic)
      BY <1>0, <2>2
    <3>2. QED
      BY <3>1 DEF ContentInv, NicContent
  <2>4. PendingContent' /\ SendContent' /\ WireContent'
    BY <2>1 DEF ContentInv, PendingContent, SendContent, WireContent, Final
  <2>5. QED
    BY <2>3, <2>4 DEF ContentInv
<1>4. CASE \E b \in Buffers : CopyDone(b)
  <2>1. PICK b \in Buffers : CopyDone(b)
    BY <1>4
  <2>2. UNCHANGED <<pending, nic, wire, wr_id, txPc, txCurrent>> /\ stream[b] # <<>>
    BY <2>1 DEF CopyDone, queueVars, nicVars, txVars
  <2>3. /\ \A c \in Buffers : FinalOf(stream'[c], content'[c]) = Final(c)
        /\ \A c \in Buffers \ {b} : stream'[c] = stream[c] /\ content'[c] = content[c]
    BY <2>1, CopyFinal, Zenon
  <2>4. PendingContent' /\ SendContent' /\ WireContent'
    BY <1>0, <2>2, <2>3 DEF ContentInv, PendingContent, SendContent, WireContent, Final
  <2>5. NicContent'
    <3> SUFFICES ASSUME NEW i \in 1..Len(nic)
                 PROVE  stream'[nic[i][2]] = <<>> /\ content'[nic[i][2]] = nic[i][1] + 1
      BY <2>2 DEF NicContent
    <3>1. stream[nic[i][2]] = <<>> /\ content[nic[i][2]] = nic[i][1] + 1
      BY DEF ContentInv, NicContent
    <3>2. nic[i][2] \in Buffers \ {b}
      BY <1>0, <2>2, <3>1
    <3>3. QED
      BY <2>3, <3>1, <3>2
  <2>6. QED
    BY <2>4, <2>5 DEF ContentInv
<1>5. CASE \/ Start \/ StartFails \/ QueueThrows \/ FlushReturn \/ TxSendFails \/ CompPoll
           \/ CompTake \/ Quiet
  <2>1. UNCHANGED <<pending, nic, wire, stream, content, wr_id, txCurrent>>
    BY <1>5 DEF Start, StartFails, QueueThrows, FlushReturn, TxSendFails, CompPoll, CompTake,
         Quiet, queueVars, copyVars, nicVars, txVars
  <2>2. txPc' = "send" => txPc = "send"
    BY <1>5 DEF Start, StartFails, QueueThrows, FlushReturn, TxSendFails, CompPoll, CompTake,
         Quiet, txVars
  <2>3. QED
    BY <2>1, <2>2 DEF ContentInv, PendingContent, SendContent, NicContent, WireContent, Final
<1>6. QED
  BY <1>1, <1>2, <1>3, <1>4, <1>5, StoreContent, SendContentKept, QuietOrBusy, Zenon DEF Busy

-----------------------------------------------------------------------------
(* What was transmitted, counted. *)

\* Steps that touch none of the counts.
LEMMA SuccessFrame ==
    ASSUME SuccessInv, UNCHANGED <<cq, qp_error, wire, wr_id, sent, flushed>>,
           compPc' = "take" <=> compPc = "take"
    PROVE  SuccessInv'
<1>1. Take' = Take
  BY DEF Take
<1>2. QED
  BY <1>1 DEF SuccessInv, Succeeded, FlushedMeansSent

\* Every step keeps the count of the tensors transmitted.
LEMMA NextSuccess ==
    TypeOK /\ NumbersInv /\ RequestsInv /\ PlacesInv /\ SuccessInv /\ [Next]_vars => SuccessInv'
<1> SUFFICES ASSUME TypeOK, NumbersInv, RequestsInv, PlacesInv, SuccessInv, [Next]_vars
             PROVE  SuccessInv'
  OBVIOUS
<1>0. /\ Len(sent) \in Nat /\ Len(cq) \in Nat /\ Len(nic) \in Nat /\ Len(wire) \in Nat
      /\ Take \in 0..1 /\ Sending \in 0..1 /\ wr_id \in Nat /\ stored \in Nat
      /\ cq \in Seq(Completion) /\ nic \in Seq(Request) /\ wire \in Seq(Ids \X Tensors)
      /\ flushed \in Nat
  BY RequestFacts DEF TypeOK, Ids, Tensors
<1>1. PICK m \in 0..Len(cq) : Succeeded(m)
  BY DEF SuccessInv
<1>2. CASE Start
  <2>1. compPc = "none"
    BY <1>2 DEF Start, PlacesInv, NotStarted
  <2>2. QED
    BY <1>2, <2>1, SuccessFrame DEF Start, nicVars
<1>3. CASE \/ StartFails \/ QueueStore \/ QueueThrows \/ TxSend \/ TxSendFails \/ Quiet
           \/ \E b \in Buffers : CopyDone(b)
  <2>1. /\ UNCHANGED <<cq, qp_error, wire, wr_id, sent, flushed>>
        /\ compPc' = "take" <=> compPc = "take"
    BY <1>3 DEF StartFails, QueueStore, QueueThrows, TxSend, TxSendFails, CopyDone, Quiet,
         opVars, queueVars, txVars, compVars, nicVars
  <2>2. QED
    BY <2>1, SuccessFrame
<1>4. CASE FlushReturn
  <2>1. /\ UNCHANGED <<cq, qp_error, wire, wr_id, sent, compPc>>
        /\ flushed' = IF FlushCondition THEN stored ELSE 0
    BY <1>4 DEF FlushReturn, queueVars, txVars, compVars, nicVars
  <2>2. Take' = Take
    BY <2>1 DEF Take
  <2>3. \E k \in 0..Len(cq') : Succeeded(k)'
    BY <1>1, <2>1, <2>2 DEF Succeeded
  <2>4. FlushedMeansSent'
    <3>1. CASE FlushCondition
      <4>1. Len(<<>>) = 0
        OBVIOUS
      <4>2. Len(pending) = 0 /\ Len(sent) = 0
        BY <3>1, <4>1, Zenon DEF FlushCondition
      <4>3. stored = wr_id + 0
        BY <4>2 DEF NumbersInv
      <4>4. Take + Len(cq) + Len(nic) + Sending <= 0
        BY <4>2 DEF RequestsInv, CountInv
      <4>5. Take = 0 /\ m = 0
        BY <1>0, <1>1, <4>4
      <4>6. Len(wire) = wr_id - Len(sent) + Take + m
        BY <1>1 DEF Succeeded
      <4>7. Len(wire) = stored
        BY <1>0, <4>2, <4>3, <4>5, <4>6
      <4>8. QED
        BY <1>0, <2>1, <3>1, <4>7 DEF FlushedMeansSent
    <3>2. CASE ~FlushCondition
      BY <2>1, <3>2 DEF FlushedMeansSent
    <3>3. QED
      BY <3>1, <3>2
  <2>5. QED
    BY <2>3, <2>4 DEF SuccessInv
<1>5. CASE TxTake
  <2>1. /\ UNCHANGED <<cq, qp_error, wire, compPc, flushed>> /\ wr_id' = wr_id + 1
    BY <1>5 DEF TxTake, opVars, nicVars, compVars
  <2>2. Len(sent') = Len(sent) + 1
    BY <1>5, QueueSteps DEF Pushed
  <2>3. Take' = Take
    BY <2>1 DEF Take
  <2>4. Len(wire) = wr_id - Len(sent) + Take + m
    BY <1>1 DEF Succeeded
  <2>5. Len(wire') = wr_id' - Len(sent') + Take' + m
    BY <1>0, <2>1, <2>2, <2>3, <2>4
  <2>6. Succeeded(m)'
    BY <1>1, <2>1, <2>5 DEF Succeeded
  <2>7. QED
    BY <2>1, <2>6 DEF SuccessInv, FlushedMeansSent
<1>6. CASE CompTake
  <2>1. /\ UNCHANGED <<cq, qp_error, wire, flushed, wr_id>>
        /\ compPc = "take" /\ compPc' = "test"
    BY <1>6 DEF CompTake, opVars, nicVars, txVars
  <2>2. Len(sent') = Len(sent) - 1
    BY <1>6, QueueSteps DEF Popped
  <2>3. Take = 1 /\ Take' = 0
    BY <2>1 DEF Take
  <2>4. Len(wire) = wr_id - Len(sent) + Take + m
    BY <1>1 DEF Succeeded
  <2>5. Len(wire') = wr_id' - Len(sent') + Take' + m
    BY <1>0, <2>1, <2>2, <2>3, <2>4
  <2>6. Succeeded(m)'
    BY <1>1, <2>1, <2>5 DEF Succeeded
  <2>7. QED
    BY <2>1, <2>6 DEF SuccessInv, FlushedMeansSent
<1>7. CASE CompPoll
  <2>1. UNCHANGED <<qp_error, wire, flushed, wr_id, sent>> /\ compPc = "poll"
    BY <1>7 DEF CompPoll, opVars, txVars, queueVars
  <2>2. Take = 0
    BY <2>1 DEF Take
  <2>3. CASE cq = <<>>
    <3>1. compPc' = "test" /\ cq' = cq
      BY <1>7, <2>3 DEF CompPoll
    <3>2. QED
      BY <2>1, <3>1, SuccessFrame
  <2>4. CASE cq # <<>>
    <3>1. cq' = Tail(cq) /\ compPc' = IF Head(cq).ok THEN "take" ELSE "test"
      BY <1>7, <2>4 DEF CompPoll
    <3>2. /\ Len(cq') = Len(cq) - 1 /\ Len(cq) \in Nat \ {0} /\ Head(cq) = cq[1]
          /\ \A i \in 1..Len(cq') : cq'[i] = cq[i + 1]
      BY <1>0, <2>4, <3>1, TailFacts
    <3>3. 1 \in 1..Len(cq) /\ Len(cq') = Len(cq) - 1
      BY <3>2
    <3>4. Head(cq).ok <=> 1 <= m
      BY <1>1, <3>2, <3>3 DEF Succeeded
    <3>5. Len(wire) = wr_id - Len(sent) + Take + m
      BY <1>1 DEF Succeeded
    <3>6. CASE Head(cq).ok
      <4>1. Take' = 1
        BY <3>1, <3>6 DEF Take
      <4>2. m - 1 \in 0..Len(cq')
        BY <1>0, <3>3, <3>4, <3>6
      <4>3. Len(wire') = wr_id' - Len(sent') + Take' + (m - 1)
        BY <1>0, <2>1, <2>2, <3>5, <4>1
      <4>4. ASSUME NEW i \in 1..Len(cq') PROVE cq'[i].ok <=> i <= m - 1
        <5>1. i + 1 \in 1..Len(cq) /\ (i + 1 <= m <=> i <= m - 1)
          BY <1>0, <3>3
        <5>2. cq[i + 1].ok <=> i + 1 <= m
          BY <1>1, <5>1 DEF Succeeded
        <5>3. QED
          BY <3>2, <5>1, <5>2
      <4>5. ~qp_error' => m - 1 = Len(cq')
        BY <1>1, <2>1, <3>3 DEF Succeeded
      <4>6. Succeeded(m - 1)'
        BY <4>3, <4>4, <4>5 DEF Succeeded
      <4>7. QED
        BY <2>1, <4>2, <4>6 DEF SuccessInv, FlushedMeansSent
    <3>7. CASE ~Head(cq).ok
      <4>1. Take' = 0
        BY <3>1, <3>7 DEF Take
      <4>2. m = 0 /\ m \in 0..Len(cq')
        BY <1>0, <3>3, <3>4, <3>7
      <4>3. Len(wire') = wr_id' - Len(sent') + Take' + m
        BY <1>0, <2>1, <2>2, <3>5, <4>1
      <4>4. ASSUME NEW i \in 1..Len(cq') PROVE cq'[i].ok <=> i <= m
        <5>1. i + 1 \in 1..Len(cq) /\ ~(i + 1 <= m) /\ ~(i <= m)
          BY <1>0, <3>3, <4>2
        <5>2. cq[i + 1].ok <=> i + 1 <= m
          BY <1>1, <5>1 DEF Succeeded
        <5>3. QED
          BY <3>2, <5>1, <5>2
      <4>5. ~qp_error' => m = Len(cq')
        <5>1. ~qp_error => m = Len(cq)
          BY <1>1 DEF Succeeded
        <5>2. QED
          BY <1>0, <2>1, <3>3, <4>2, <5>1
      <4>6. Succeeded(m)'
        BY <4>3, <4>4, <4>5 DEF Succeeded
      <4>7. QED
        BY <2>1, <4>2, <4>6 DEF SuccessInv, FlushedMeansSent
    <3>8. QED
      BY <3>6, <3>7
  <2>5. QED
    BY <2>3, <2>4
<1>8. CASE NicTransmit
  <2>1. /\ UNCHANGED <<qp_error, flushed, wr_id, sent, compPc>> /\ nic # <<>> /\ ~qp_error
    BY <1>8 DEF NicTransmit, opVars, txVars, queueVars, compVars
  <2>2. Take' = Take
    BY <2>1 DEF Take
  <2>3. Head(nic) \in Request
    BY <1>0, <2>1, TailFacts
  <2>4. /\ Head(nic)[1] \in Ids /\ [id |-> Head(nic)[1], ok |-> TRUE] \in Completion
        /\ <<Head(nic)[1], content[Head(nic)[2]]>> \in Ids \X Tensors
    BY <2>3 DEF Request, Completion, TypeOK
  <2>5. /\ Len(cq') = Len(cq) + 1
        /\ \A i \in 1..Len(cq) : cq'[i] = cq[i]
        /\ cq'[Len(cq) + 1].ok
    BY <1>0, <1>8, <2>4, AppendFacts DEF NicTransmit
  <2>6. Len(wire') = Len(wire) + 1
    BY <1>0, <1>8, <2>4, AppendFacts DEF NicTransmit
  <2>7. Len(wire) = wr_id - Len(sent) + Take + m /\ m = Len(cq)
    BY <1>1, <2>1 DEF Succeeded
  <2>8. Len(cq') = Len(cq) + 1
    BY <2>5
  <2>9. Len(wire') = wr_id' - Len(sent') + Take' + (m + 1)
    BY <1>0, <2>1, <2>2, <2>6, <2>7
  <2>10. ASSUME NEW i \in 1..Len(cq') PROVE cq'[i].ok <=> i <= m + 1
    <3>1. i <= m + 1 /\ ((i \in 1..Len(cq) /\ i <= m) \/ i = Len(cq) + 1)
      BY <1>0, <2>7, <2>8
    <3>2. \A k \in 1..Len(cq) : cq[k].ok <=> k <= m
      BY <1>1 DEF Succeeded
    <3>3. QED
      BY <2>5, <3>1, <3>2
  <2>11. m + 1 \in 0..Len(cq') /\ m + 1 = Len(cq')
    BY <1>0, <2>7, <2>8
  <2>12. Succeeded(m + 1)'
    BY <2>9, <2>10, <2>11 DEF Succeeded
  <2>13. FlushedMeansSent'
    BY <1>0, <2>1, <2>6 DEF SuccessInv, FlushedMeansSent
  <2>14. QED
    BY <2>11, <2>12, <2>13 DEF SuccessInv
<1>9. CASE NicFails
  <2>1. /\ UNCHANGED <<flushed, wr_id, sent, compPc, wire>> /\ nic # <<>> /\ qp_error' = TRUE
    BY <1>9 DEF NicFails, opVars, txVars, queueVars, compVars
  <2>2. Take' = Take
    BY <2>1 DEF Take
  <2>3. Head(nic) \in Request
    BY <1>0, <2>1, TailFacts
  <2>4. [id |-> Head(nic)[1], ok |-> FALSE] \in Completion
    BY <2>3 DEF Request, Completion
  <2>5. /\ Len(cq') = Len(cq) + 1
        /\ \A i \in 1..Len(cq) : cq'[i] = cq[i]
        /\ ~cq'[Len(cq) + 1].ok
    BY <1>0, <1>9, <2>4, AppendFacts DEF NicFails
  <2>6. Len(wire) = wr_id - Len(sent) + Take + m
    BY <1>1 DEF Succeeded
  <2>7. Len(cq') = Len(cq) + 1
    BY <2>5
  <2>8. ASSUME NEW i \in 1..Len(cq') PROVE cq'[i].ok <=> i <= m
    <3>1. i \in 1..Len(cq) \/ (i = Len(cq) + 1 /\ ~(i <= m))
      BY <1>0, <2>7
    <3>2. \A k \in 1..Len(cq) : cq[k].ok <=> k <= m
      BY <1>1 DEF Succeeded
    <3>3. QED
      BY <2>5, <3>1, <3>2
  <2>9. m \in 0..Len(cq')
    BY <1>0, <2>7
  <2>10. Succeeded(m)'
    BY <2>1, <2>2, <2>6, <2>8 DEF Succeeded
  <2>11. QED
    BY <2>1, <2>9, <2>10 DEF SuccessInv, FlushedMeansSent
<1>10. QED
  BY <1>2, <1>3, <1>4, <1>5, <1>6, <1>7, <1>8, <1>9, QuietOrBusy, Zenon DEF Busy

-----------------------------------------------------------------------------
(* The theorem. *)

\* The initial state.
LEMMA InitTransmit == Init => TransmitInv
<1> SUFFICES ASSUME Init PROVE TransmitInv
  OBVIOUS
<1>0. /\ Len(<<>>) = 0 /\ 1 \in Buffers /\ 0 \in Ids /\ 0 \in Tensors
  BY TransmitterAssumption DEF Buffers, Ids, Tensors
<1>1. TypeOK
  <2>1. OperatorTypes /\ CountTypes
    <3>1. 0 \in 0..MaxFaults
      BY TransmitterAssumption
    <3>2. QED
      BY <1>0, <3>1, Zenon DEF Init, OperatorTypes, CountTypes
  <2>2. QueueTypes /\ NicTypes
    <3>1. <<>> \in Seq(Buffers) /\ <<>> \in Seq(Request) /\ <<>> \in Seq(Completion)
          /\ <<>> \in Seq(Ids \X Tensors) /\ {} \in SUBSET Buffers
      OBVIOUS
    <3>2. QED
      BY <3>1, Zenon DEF Init, QueueTypes, NicTypes
  <2>3. ThreadTypes
    <3>1. <<0, 1>> \in Request
      BY <1>0 DEF Request
    <3>2. [id |-> 0, ok |-> TRUE] \in Completion
      BY <1>0 DEF Completion
    <3>3. QED
      BY <1>0, <3>1, <3>2, Zenon DEF Init, ThreadTypes
  <2>4. CopyTypes
    BY <1>0 DEF Init, CopyTypes
  <2>5. QED
    BY <2>1, <2>2, <2>3, <2>4, TypeGroups, Zenon
<1>2. NumbersInv /\ PlacesInv
  BY <1>0 DEF Init, NumbersInv, PlacesInv, NotStarted
<1>3. Take = 0 /\ Sending = 0
  BY DEF Init, Take, Sending
<1>4. DistinctInv
  <2>1. Len(available) = 0 /\ Len(pending) = 0 /\ Len(SentBuffers) = 0
    BY DEF Init, SentBuffers
  <2>2. QED
    BY <2>1 DEF DistinctInv, Once, In
<1>5. RequestsInv
  BY <1>0, <1>3 DEF Init, RequestsInv, TakenInv, CompletedInv, PostedInv, SendingInv, CountInv,
       FaultlessInv
<1>6. OrderInv /\ ContentInv
  BY <1>0, <1>3 DEF Init, OrderInv, ContentInv, PendingContent, SendContent, NicContent,
       WireContent
<1>7. SuccessInv
  <2>1. Len(cq) = 0 /\ Len(wire) = 0 /\ Len(sent) = 0 /\ wr_id = 0 /\ flushed = 0
    BY <1>0, Zenon DEF Init
  <2>2. Succeeded(0) /\ 0 \in 0..Len(cq)
    BY <1>3, <2>1 DEF Succeeded
  <2>3. QED
    BY <2>1, <2>2 DEF SuccessInv, FlushedMeansSent
<1>8. QED
  BY <1>1, <1>2, <1>4, <1>5, <1>6, <1>7 DEF TransmitInv

\* Every step keeps the inductive invariant.
LEMMA NextTransmit == TransmitInv /\ [Next]_vars => TransmitInv'
<1>1. TypeOK' => QueueTypes'
  BY TypeGroups, PTL
<1>2. QED
  BY <1>1, NextType, NextNumbers, NextDistinct, NextPlaces, NextRequests, NextOrder, NextContent,
     NextSuccess, Zenon DEF TransmitInv

\* The inductive invariant of the transmitter holds.
THEOREM TransmitInvariant == Spec => []TransmitInv
  BY InitTransmit, NextTransmit, PTL DEF Spec

\* What is in the three queues together.
LEMMA Concatenated ==
    ASSUME NEW S, NEW s \in Seq(S), NEW t \in Seq(S), NEW u \in Seq(S)
    PROVE  /\ Len(s \o t \o u) = Len(s) + Len(t) + Len(u)
           /\ \A e : e \in Items(s \o t \o u) <=> In(e, s) \/ In(e, t) \/ In(e, u)
<1> DEFINE all == s \o t \o u
<1>0. /\ Len(s) \in Nat /\ Len(t) \in Nat /\ Len(u) \in Nat
      /\ Len(all) = Len(s) + Len(t) + Len(u) /\ DOMAIN all = 1..Len(all)
  OBVIOUS
<1>1. /\ \A i \in 1..Len(s) : all[i] = s[i]
      /\ \A i \in 1..Len(t) : all[Len(s) + i] = t[i]
      /\ \A i \in 1..Len(u) : all[Len(s) + Len(t) + i] = u[i]
  OBVIOUS
<1> HIDE DEF all
<1>2. ASSUME NEW e, e \in Items(all) PROVE In(e, s) \/ In(e, t) \/ In(e, u)
  <2>1. PICK i \in 1..Len(all) : e = all[i]
    BY <1>0, <1>2 DEF Items
  <2>2. CASE i \in 1..Len(s)
    BY <1>1, <2>1, <2>2 DEF In
  <2>3. CASE i - Len(s) \in 1..Len(t)
    <3>1. Len(s) + (i - Len(s)) = i
      BY <1>0
    <3>2. QED
      BY <1>1, <2>1, <2>3, <3>1 DEF In
  <2>4. CASE i - Len(s) - Len(t) \in 1..Len(u)
    <3>1. Len(s) + Len(t) + (i - Len(s) - Len(t)) = i
      BY <1>0
    <3>2. QED
      BY <1>1, <2>1, <2>4, <3>1 DEF In
  <2>5. QED
    BY <1>0, <2>2, <2>3, <2>4
<1>3. ASSUME NEW e, In(e, s) \/ In(e, t) \/ In(e, u) PROVE e \in Items(all)
  <2>1. ASSUME In(e, s) PROVE e \in Items(all)
    <3>1. PICK i \in 1..Len(s) : s[i] = e
      BY <2>1 DEF In
    <3>2. i \in DOMAIN all
      BY <1>0
    <3>3. QED
      BY <1>1, <3>1, <3>2 DEF Items
  <2>2. ASSUME In(e, t) PROVE e \in Items(all)
    <3>1. PICK i \in 1..Len(t) : t[i] = e
      BY <2>2 DEF In
    <3>2. Len(s) + i \in DOMAIN all
      BY <1>0
    <3>3. QED
      BY <1>1, <3>1, <3>2 DEF Items
  <2>3. ASSUME In(e, u) PROVE e \in Items(all)
    <3>1. PICK i \in 1..Len(u) : u[i] = e
      BY <2>3 DEF In
    <3>2. Len(s) + Len(t) + i \in DOMAIN all
      BY <1>0
    <3>3. QED
      BY <1>1, <3>1, <3>2 DEF Items
  <2>4. QED
    BY <1>3, <2>1, <2>2, <2>3
<1>4. QED
  BY <1>0, <1>2, <1>3 DEF all

\* The buffers of the three queues and the lost ones are all the buffers.
LEMMA ConservedWhenInv == TransmitInv => BuffersConserved
<1> SUFFICES ASSUME TransmitInv, opPc \notin {"created", "stopped"}
             PROVE  LET all == available \o pending \o SentBuffers IN
                    /\ Len(all) + Cardinality(lost) = QueueSize
                    /\ Items(all) = Buffers \ lost
  BY DEF BuffersConserved
<1>1. /\ Len(available) + Len(pending) + Len(sent) + Cardinality(lost) = QueueSize
      /\ \A b \in Buffers : Somewhere(b)
  BY DEF TransmitInv, PlacesInv, NotStarted
<1>2. /\ available \in Seq(Buffers) /\ pending \in Seq(Buffers) /\ sent \in Seq(Request)
      /\ TypeOK
  BY DEF TransmitInv, TypeOK
<1>3. SentBuffers \in Seq(Buffers) /\ Len(SentBuffers) = Len(sent)
  <2>1. /\ Len(SentBuffers) = Len(sent) /\ Len(sent) \in Nat
        /\ \A i \in 1..Len(sent) : SentBuffers[i] \in Buffers
    BY <1>2, SentFacts DEF SentBuffers
  <2>2. SentBuffers = [i \in 1..Len(sent) |-> SentBuffers[i]]
    BY <1>2 DEF SentBuffers
  <2>3. QED
    BY <2>1, <2>2
<1> DEFINE all == available \o pending \o SentBuffers
<1>4. /\ Len(all) = Len(available) + Len(pending) + Len(SentBuffers)
      /\ \A e : e \in Items(all) <=> In(e, available) \/ In(e, pending) \/ In(e, SentBuffers)
  BY <1>2, <1>3, Concatenated
<1>5. \A e : In(e, available) \/ In(e, pending) \/ In(e, SentBuffers) => e \in Buffers
  <2>1. ASSUME NEW e, NEW s \in Seq(Buffers), In(e, s) PROVE e \in Buffers
    BY <2>1 DEF In
  <2>2. QED
    BY <1>2, <1>3, <2>1
<1>6. DistinctInv
  BY DEF TransmitInv
<1> HIDE DEF all
<1>7. Len(all) + Cardinality(lost) = QueueSize
  BY <1>1, <1>3, <1>4
<1>8. \A e : e \in Items(all) <=> e \in Buffers \ lost
  BY <1>1, <1>4, <1>5, <1>6, Zenon DEF DistinctInv, Somewhere
<1>9. Items(all) = Buffers \ lost
  BY <1>8
<1>10. QED
  BY <1>7, <1>9 DEF all

\* The invariant implies what the run checks.
LEMMA CorrectWhenInv == TransmitInv => TransmitCorrect
<1> SUFFICES ASSUME TransmitInv PROVE TransmitCorrect
  OBVIOUS
<1>0. /\ Len(sent) \in Nat /\ Len(cq) \in Nat /\ Len(nic) \in Nat
      /\ Len(available) \in Nat /\ Len(pending) \in Nat /\ Cardinality(lost) \in Nat
      /\ Take \in 0..1 /\ Sending \in 0..1 /\ faults \in Nat /\ sent \in Seq(Request)
  BY RequestFacts, LostFinite, QueueFacts DEF TransmitInv
<1>1. SentInOrder
  <2>1. DOMAIN wire = 1..Len(wire)
    BY DEF TransmitInv, TypeOK
  <2>2. QED
    BY <2>1 DEF TransmitInv, OrderInv, ContentInv, WireContent, SentInOrder
<1>2. CompletionsMatched
  <2> SUFFICES ASSUME compPc = "take"
               PROVE  sent # <<>> /\ (Head(sent)[1] # compCurrent.id => faults > 0)
    BY DEF CompletionsMatched
  <2>1. sent # <<>>
    BY QueueFacts DEF TransmitInv
  <2>2. PICK j \in 1..Len(sent) : sent[j][1] = compCurrent.id /\ (faults = 0 => j = 1)
    BY DEF TransmitInv, RequestsInv, TakenInv, RecordedId
  <2>3. Head(sent) = sent[1]
    BY <1>0, <2>1, TailFacts
  <2>4. QED
    BY <1>0, <2>1, <2>2, <2>3
<1>3. CompletionsFit
  <2>1. Take + Len(cq) + Len(nic) + Sending <= Len(sent)
    BY DEF TransmitInv, RequestsInv, CountInv
  <2>2. Len(sent) <= QueueSize
    <3>1. CASE NotStarted
      <4>1. Len(<<>>) = 0
        OBVIOUS
      <4>2. QED
        BY <3>1, <4>1, TransmitterAssumption DEF NotStarted
    <3>2. CASE ~NotStarted
      <4>1. Len(available) + Len(pending) + Len(sent) + Cardinality(lost) = QueueSize
        BY <3>2 DEF TransmitInv, PlacesInv
      <4>2. QED
        BY <1>0, <4>1, TransmitterAssumption
    <3>3. QED
      BY <3>1, <3>2
  <2>3. QED
    BY <1>0, <2>1, <2>2, TransmitterAssumption DEF CompletionsFit
<1>4. QED
  BY <1>1, <1>2, <1>3, ConservedWhenInv DEF TransmitInv, SuccessInv, TransmitCorrect

\* RoceTransmitterOp, for every number of buffers, tensors and failures: no
\* buffer of queue_size_ is lost by the three queues, the device is sent every
\* tensor at most once, in order and whole, completions are matched to
\* sent_buffers_ unless something failed, the completion queue is never
\* overrun, and flush() returns true only when everything was transmitted.
THEOREM TransmitIsCorrect == Spec => []TransmitCorrect
  BY TransmitInvariant, CorrectWhenInv, PTL

=============================================================================
