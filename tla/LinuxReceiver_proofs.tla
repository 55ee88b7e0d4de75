------------------------ MODULE LinuxReceiver_proofs ------------------------
(***************************************************************************)
(* The software receiver, for every queue size, frame size, width of the   *)
(* packet sequence number and number of frames, and for any losses of      *)
(* fewer packets in a row than the number counts.                          *)
(***************************************************************************)
EXTENDS LinuxReceiver, FiniteSetTheorems, TLAPS

(* The inductive invariant: the buffers. *)

In(e, s) == \E i \in 1..Len(s) : s[i] = e
Once(s) == \A i, j \in 1..Len(s) : s[i] = s[j] => i = j

\* No buffer is in two places.
DistinctInv ==
    /\ Once(ready) /\ Once(available)
    /\ \A b \in Buffers : In(b, ready) => ~In(b, available) /\ b \notin Filling
    /\ \A b \in Buffers : In(b, available) => b \notin Filling
    /\ recvPc = "sync" => receiving # next

HeldCount == IF recvPc = "sync" THEN 2 ELSE 1

\* Until run() returns every buffer is somewhere; then the queues are empty.
PlacesInv ==
    IF recvPc = "done" THEN ready = <<>> /\ available = <<>>
    ELSE /\ DistinctInv
         /\ \A b \in Buffers : b \in Filling \/ In(b, ready) \/ In(b, available)
         /\ HeldCount + Len(ready) + Len(available) = QueueSize + 1

\* No copy is made from the buffer that is being filled.
CopiesInv ==
    recvPc # "done" =>
        \A i \in 1..Len(stream) : /\ stream[i].buffer # receiving
                                  /\ mem[stream[i].buffer] = stream[i].want

BuffersInv == TypeOK /\ PlacesInv /\ CopiesInv

-----------------------------------------------------------------------------
(* The inductive invariant: the packets. *)

\* The packets on the way to the receiver, and the one that is sent next.
Cur == [imm |-> sending.slot = Packets + 1, psn |-> psn, frame |-> sending.frame,
        slot |-> sending.slot, lost |-> lost]
Line(i) == IF i <= Len(socket) THEN socket[i] ELSE Cur

\* Packet q was sent right after packet p, but for q.lost - p.lost others.
Follows(p, q) ==
    /\ q.lost - p.lost \in 0..MaxBurst
    /\ q.psn = (p.psn + 1 + (q.lost - p.lost)) % PsnMod
    /\ q.frame > p.frame \/ (q.frame = p.frame /\ q.slot > p.slot)
    /\ q.lost = p.lost =>
           IF p.slot = Packets + 1 THEN q.frame = p.frame + 1 /\ q.slot = 1
           ELSE q.frame = p.frame /\ q.slot = p.slot + 1

SocketInv ==
    /\ \A i \in 1..Len(socket) : socket[i].imm <=> socket[i].slot = Packets + 1
    /\ \A i \in 1..Len(socket) : Follows(Line(i), Line(i + 1))
    /\ socket # <<>> => lost = socket[Len(socket)].lost + burst

\* Before the first packet.
StartInv ==
    /\ first => /\ packets_dropped = 0 /\ frame_bytes_received = 0 /\ frame_count = 0
                /\ base = 0 /\ ended = [frame |-> 0, dropped |-> 0]
                /\ recvPc \notin {"signal", "sync", "memset"}
    /\ recvPc \in {"signal", "sync", "memset"} => frame_count >= 1

\* Packets lost before the last packet received.
Counted == packets_dropped + base

LastInv ==
    ~first =>
        /\ Line(1).lost - Counted \in 0..MaxBurst
        /\ Line(1).psn = (last_psn + 1 + (Line(1).lost - Counted)) % PsnMod
        /\ socket = <<>> => lost = Counted + burst

\* The last packet received ended a frame.
Between == recvPc \in {"signal", "sync", "memset"} \/ frame_bytes_received = 0

\* While nothing was lost since the last frame ended, the packets received are
\* the packets of one frame in a row, and the next packet is the next of it.
InARow(f, s) ==
    /\ frame_bytes_received <= s
    /\ \A k \in (s - frame_bytes_received + 1)..s : mem[receiving][k] = f
    /\ Line(1).lost = Counted => Line(1).frame = f /\ Line(1).slot = s + 1

ExpectInv ==
    /\ ended.dropped <= packets_dropped
    /\ Line(1).frame > ended.frame
    /\ ~first /\ packets_dropped = ended.dropped =>
           IF Between
           THEN Line(1).lost = Counted => Line(1).frame = ended.frame + 1 /\ Line(1).slot = 1
           ELSE \E f \in Nat, s \in Slots : InARow(f, s)

\* The bytes of the frame that is being received.
FillingInv ==
    recvPc \notin {"signal", "sync", "memset"} =>
        \A s \in Slots :
            mem[receiving][s] \in ((ended.frame + 1)..Line(1).frame) \cup
                (IF frame_count = 0 THEN {Junk} ELSE {Missing})

\* A buffer whose frame has ended: CompleteMeansIntact and NoStaleBytes.
Intact(b) ==
    /\ meta[b].frame_bytes_received = Packets
    /\ meta[b].packets_dropped = meta[b].before
    => \A s \in Slots : mem[b][s] = meta[b].frame

Clean(b) ==
    \A s \in Slots :
        mem[b][s] \in ((meta[b].after + 1)..meta[b].frame) \cup
            (IF meta[b].received_frame_number = 1 THEN {Junk} ELSE {Missing})

EndedInv ==
    \A b \in Buffers :
        In(b, ready) \/ (b = receiving /\ recvPc \in {"signal", "sync"}) => Intact(b) /\ Clean(b)

LossInv == SocketInv /\ StartInv /\ LastInv /\ ExpectInv /\ FillingInv /\ EndedInv

-----------------------------------------------------------------------------
(* Sequences and remainders. *)

\* What Append does to a sequence.
LEMMA AppendFacts ==
    ASSUME NEW S, NEW s \in Seq(S), NEW e \in S
    PROVE  /\ Append(s, e) \in Seq(S)
           /\ Len(Append(s, e)) = Len(s) + 1
           /\ \A i \in 1..Len(s) : Append(s, e)[i] = s[i]
           /\ Append(s, e)[Len(s) + 1] = e
  OBVIOUS

\* What Tail and Head do to a non-empty sequence.
LEMMA TailFacts ==
    ASSUME NEW S, NEW s \in Seq(S), s # <<>>
    PROVE  /\ Head(s) \in S /\ Head(s) = s[1]
           /\ Tail(s) \in Seq(S)
           /\ Len(s) \in Nat \ {0}
           /\ Len(Tail(s)) = Len(s) - 1
           /\ \A i \in 1..Len(Tail(s)) : Tail(s)[i] = s[i + 1]
  OBVIOUS

\* What a step does to a queue, by indices.
Popped(s, t) == Len(t) = Len(s) - 1 /\ \A i \in 1..Len(t) : t[i] = s[i + 1]
Pushed(s, t, e) ==
    /\ Len(t) = Len(s) + 1
    /\ \A i \in 1..Len(s) : t[i] = s[i]
    /\ t[Len(s) + 1] = e

\* What is in a queue after a pop.
LEMMA PopFacts ==
    ASSUME NEW s, NEW t, Len(s) \in Nat \ {0}, Len(t) \in Nat, Popped(s, t)
    PROVE  /\ In(s[1], s)
           /\ Once(s) => Once(t) /\ ~In(s[1], t)
           /\ \A e : In(e, s) <=> e = s[1] \/ In(e, t)
<1>1. In(s[1], s)
  BY DEF In
<1>2. Once(s) => Once(t) /\ ~In(s[1], t)
  BY DEF Once, In, Popped
<1>3. ASSUME NEW e PROVE In(e, s) <=> e = s[1] \/ In(e, t)
  <2>1. ASSUME In(e, s) PROVE e = s[1] \/ In(e, t)
    <3>1. PICK i \in 1..Len(s) : s[i] = e
      BY <2>1 DEF In
    <3>2. CASE i # 1
      <4>1. i - 1 \in 1..Len(t) /\ t[i - 1] = s[i]
        BY <3>2 DEF Popped
      <4>2. QED
        BY <3>1, <4>1 DEF In
    <3>3. QED
      BY <3>1, <3>2
  <2>2. ASSUME In(e, t) PROVE In(e, s)
    <3>1. PICK i \in 1..Len(t) : t[i] = e
      BY <2>2 DEF In
    <3>2. i + 1 \in 1..Len(s) /\ s[i + 1] = e
      BY <3>1 DEF Popped
    <3>3. QED
      BY <3>2 DEF In
  <2>3. QED
    BY <1>1, <2>1, <2>2
<1>4. QED
  BY <1>1, <1>2, <1>3

\* What is in a queue after a push.
LEMMA PushFacts ==
    ASSUME NEW s, NEW t, NEW e, Len(s) \in Nat, Pushed(s, t, e)
    PROVE  /\ Once(s) /\ ~In(e, s) => Once(t)
           /\ \A x : In(x, t) <=> x = e \/ In(x, s)
<1>1. Once(s) /\ ~In(e, s) => Once(t)
  BY DEF Once, In, Pushed
<1>2. ASSUME NEW x PROVE In(x, t) <=> x = e \/ In(x, s)
  <2>1. ASSUME In(x, t) PROVE x = e \/ In(x, s)
    <3>1. PICK i \in 1..Len(t) : t[i] = x
      BY <2>1 DEF In
    <3>2. CASE i = Len(s) + 1
      BY <3>1, <3>2 DEF Pushed
    <3>3. CASE i \in 1..Len(s)
      BY <3>1, <3>3 DEF Pushed, In
    <3>4. QED
      BY <3>2, <3>3 DEF Pushed
  <2>2. ASSUME In(x, s) PROVE In(x, t)
    BY <2>2 DEF In, Pushed
  <2>3. In(e, t)
    BY DEF In, Pushed
  <2>4. QED
    BY <2>1, <2>2, <2>3
<1>3. QED
  BY <1>1, <1>2

\* A number is a multiple of the modulus plus its remainder.
LEMMA DivMod ==
    ASSUME NEW a \in Int, NEW M \in Nat \ {0}
    PROVE  a % M \in 0..(M - 1) /\ \E q \in Int : a = q * M + (a % M)
<1>1. \A x \in Int : \A k \in Nat \ {0} : x = (x \div k) * k + (x % k)
  OBVIOUS
<1>2. a = (a \div M) * M + (a % M)
  BY <1>1
<1>3. a \div M \in Int /\ a % M \in 0..(M - 1)
  OBVIOUS
<1>4. \E q \in Int : a = q * M + (a % M)
  <2>1. WITNESS a \div M \in Int
  <2>2. QED
    BY <1>2
<1>5. QED
  BY <1>3, <1>4

\* Multiples of M are at least M apart.
LEMMA MultStep ==
    ASSUME NEW M \in Nat \ {0}, NEW p \in Int, NEW q \in Int, p < q
    PROVE  q * M >= p * M + M
<1>1. (q - p) * M >= M
  OBVIOUS
<1>2. QED
  BY <1>1

\* Quotient and remainder are unique.
LEMMA ModUnique ==
    ASSUME NEW M \in Nat \ {0}, NEW p \in Int, NEW q \in Int,
           NEW r \in 0..(M - 1), NEW s \in 0..(M - 1), p * M + r = q * M + s
    PROVE  p = q /\ r = s
<1>1. p * M \in Int /\ q * M \in Int
  OBVIOUS
<1>2. p < q => q * M >= p * M + M
  BY MultStep
<1>3. q < p => p * M >= q * M + M
  BY MultStep
<1>4. p = q
  BY <1>1, <1>2, <1>3
<1>5. QED
  BY <1>1, <1>4

\* A remainder advances by one.
LEMMA ModSucc ==
    ASSUME NEW M \in Nat \ {0}, NEW x \in Int
    PROVE  ((x % M) + 1) % M = (x + 1) % M
<1> DEFINE r == x % M
<1>1. PICK q \in Int : x = q * M + r
  BY DivMod
<1>2. r \in Int
  BY DivMod
<1> HIDE DEF r
<1> DEFINE y == r + 1
           z == x + 1
<1>z. y \in Int /\ z \in Int
  BY <1>2
<1> HIDE DEF y, z
<1> DEFINE v == y % M
           w == z % M
<1>3. v \in 0..(M - 1) /\ w \in 0..(M - 1)
  BY <1>z, DivMod
<1>4. PICK t \in Int : y = t * M + v
  BY <1>z, DivMod
<1>5. PICK p \in Int : z = p * M + w
  BY <1>z, DivMod
<1> HIDE DEF v, w
<1> DEFINE k == q + t
<1>6. k \in Int /\ k * M + v = p * M + w
  <2>1. k * M = q * M + t * M
    OBVIOUS
  <2>2. q * M \in Int /\ t * M \in Int /\ p * M \in Int
    OBVIOUS
  <2>3. QED
    BY <1>1, <1>2, <1>3, <1>4, <1>5, <2>1, <2>2 DEF y, z
<1> HIDE DEF k
<1>7. v = w
  BY <1>3, <1>6, ModUnique
<1>8. QED
  BY <1>7 DEF r, v, w, y, z

\* How far a remainder is ahead, as CountDropped computes it.
LEMMA ModAhead ==
    ASSUME NEW M \in Nat \ {0}, NEW a \in Int, NEW d \in 0..(M - 1)
    PROVE  (((a + d) % M) - a) % M = d
<1> DEFINE b == a + d
<1>b. b \in Int
  OBVIOUS
<1> HIDE DEF b
<1> DEFINE r == b % M
<1>1. PICK q \in Int : b = q * M + r
  BY <1>b, DivMod
<1>2. r \in Int
  BY <1>b, DivMod
<1> HIDE DEF r
<1> DEFINE z == r - a
<1>z. z \in Int
  BY <1>2
<1> HIDE DEF z
<1> DEFINE u == z % M
<1>3. u \in 0..(M - 1)
  BY <1>z, DivMod
<1>4. PICK t \in Int : z = t * M + u
  BY <1>z, DivMod
<1> HIDE DEF u
<1> DEFINE k == t + q
<1>5. k \in Int /\ k * M + u = 0 * M + d
  <2>1. k * M = t * M + q * M
    OBVIOUS
  <2>2. q * M \in Int /\ t * M \in Int
    OBVIOUS
  <2>3. QED
    BY <1>1, <1>2, <1>3, <1>4, <2>1, <2>2 DEF z, b
<1> HIDE DEF k
<1>6. u = d
  BY <1>3, <1>5, ModUnique
<1>7. QED
  BY <1>6 DEF r, z, u, b

-----------------------------------------------------------------------------
(* The steps. *)

Send == SendPacket \/ SendMetadata
Take == GetTake \/ WaitTake

\* Steps that move a program counter only, or a flag of the operator.
Idle ==
    /\ UNCHANGED <<txVars, socket, bufferVars, frame_bytes_received, frame_count, psnVars, ended,
                   ready, available, overrun, out, stream>>
    /\ \/ recvPc' = recvPc
       \/ recvPc \in {"recv", "blocked"} /\ recvPc' \in {"recv", "blocked", "exit"}

LEMMA StepCases ==
    [Next]_vars => \/ Idle \/ Send \/ RecvWrite \/ RecvImmediate \/ SignalTake \/ SignalPush
                   \/ RecvMemset \/ RecvExit \/ Take \/ CopyDone
<1>1. UNCHANGED vars => Idle
  BY Zenon DEF vars, Idle, queueVars, opVars
<1>2. RecvCall \/ RecvTimeout \/ RecvError \/ RecvRunt => Idle
  BY Zenon DEF RecvCall, RecvTimeout, RecvError, RecvRunt, recvUnchanged, queueVars, opVars, Idle
<1>3. GetWait \/ WaitTimeout \/ OperatorStop \/ OperatorClose \/ OperatorJoin => Idle
  BY Zenon DEF GetWait, WaitTimeout, OperatorStop, OperatorClose, OperatorJoin, opUnchanged, Idle
<1>4. QED
  BY <1>1, <1>2, <1>3, Zenon DEF Next, Receiver, GetNextFrame, Send, Take

-----------------------------------------------------------------------------
(* Types. *)

TxTypes ==
    /\ psn \in 0..(PsnMod - 1)
    /\ sending \in [frame : Nat, slot : 1..(Packets + 1)]
    /\ lost \in Nat /\ burst \in 0..MaxBurst

SocketTypes == socket \in Seq(Packet) /\ Len(socket) <= SocketSize

RecvTypes ==
    /\ recvPc \in RecvPcs
    /\ frame_bytes_received \in Nat /\ frame_count \in Nat
    /\ ended \in [frame : Nat, dropped : Nat]

BufferTypes ==
    /\ receiving \in Buffers /\ next \in Buffers
    /\ mem \in [Buffers -> [Slots -> Int]] /\ meta \in [Buffers -> Metadata]

PsnTypes ==
    /\ packets_dropped \in Nat
    /\ last_psn \in 0..(PsnMod - 1) /\ first \in BOOLEAN /\ base \in Nat

QueueTypes == ready \in Seq(Buffers) /\ available \in Seq(Buffers) /\ overrun \in Nat

OpTypes ==
    /\ isOpen \in BOOLEAN /\ consumer_ready \in BOOLEAN /\ exit \in BOOLEAN /\ opPc \in OpPcs

CopyTypes == out \in Nat /\ stream \in Seq([buffer : Buffers, want : [Slots -> Int]])

LEMMA TypeGroups ==
    TypeOK <=> /\ TxTypes /\ SocketTypes /\ RecvTypes /\ BufferTypes /\ PsnTypes
               /\ QueueTypes /\ OpTypes /\ CopyTypes
  BY Zenon DEF TypeOK, TxTypes, SocketTypes, RecvTypes, BufferTypes, PsnTypes, QueueTypes, OpTypes,
               CopyTypes

LEMMA TypesKept ==
    /\ TxTypes /\ UNCHANGED txVars => TxTypes'
    /\ SocketTypes /\ UNCHANGED socket => SocketTypes'
    /\ BufferTypes /\ UNCHANGED bufferVars => BufferTypes'
    /\ PsnTypes /\ UNCHANGED psnVars => PsnTypes'
    /\ QueueTypes /\ UNCHANGED <<ready, available, overrun>> => QueueTypes'
    /\ OpTypes /\ UNCHANGED <<isOpen, consumer_ready, exit, opPc>> => OpTypes'
    /\ CopyTypes /\ UNCHANGED <<out, stream>> => CopyTypes'
<1>1. TxTypes /\ UNCHANGED txVars => TxTypes'
  BY Zenon DEF TxTypes, txVars
<1>2. SocketTypes /\ UNCHANGED socket => SocketTypes'
  BY Zenon DEF SocketTypes
<1>3. BufferTypes /\ UNCHANGED bufferVars => BufferTypes'
  BY Zenon DEF BufferTypes, bufferVars
<1>4. PsnTypes /\ UNCHANGED psnVars => PsnTypes'
  BY Zenon DEF PsnTypes, psnVars
<1>5. QueueTypes /\ UNCHANGED <<ready, available, overrun>> => QueueTypes'
  BY Zenon DEF QueueTypes
<1>6. OpTypes /\ UNCHANGED <<isOpen, consumer_ready, exit, opPc>> => OpTypes'
  BY Zenon DEF OpTypes
<1>7. CopyTypes /\ UNCHANGED <<out, stream>> => CopyTypes'
  BY Zenon DEF CopyTypes
<1>8. QED
  BY <1>1, <1>2, <1>3, <1>4, <1>5, <1>6, <1>7, Zenon

\* The bounds of the numbers.
LEMMA Sizes ==
    /\ QueueSize \in Nat \ {0} /\ Packets \in Nat \ {0} /\ SocketSize \in Nat \ {0}
    /\ PsnMod \in Nat \ {0} /\ MaxBurst \in Nat /\ MaxBurst < PsnMod
    /\ 0 \in Buffers
  BY LinuxAssumption DEF LinuxAssumption, Buffers

\* signal() always finds a buffer.
LEMMA NotBothEmpty ==
    ASSUME TypeOK, PlacesInv, recvPc = "signal"
    PROVE  ready # <<>> \/ available # <<>>
<1>1. 1 + Len(ready) + Len(available) = QueueSize + 1
  BY DEF PlacesInv, HeldCount
<1>2. Len(<<>>) = 0
  OBVIOUS
<1>3. ASSUME ready = <<>>, available = <<>> PROVE FALSE
  <2>1. Len(ready) = 0 /\ Len(available) = 0
    BY <1>2, <1>3, Zenon
  <2>2. QED
    BY <1>1, <2>1, Sizes
<1>4. QED
  BY <1>3, Zenon

\* What signal() does to the queues.
LEMMA TakeBuffer ==
    ASSUME TypeOK, PlacesInv, SignalTake
    PROVE  /\ \/ ready # <<>> /\ next' = Head(ready) /\ ready' = Tail(ready)
                 /\ UNCHANGED available
              \/ available # <<>> /\ next' = Head(available) /\ available' = Tail(available)
                 /\ UNCHANGED ready
           /\ recvPc = "signal" /\ recvPc' = "sync"
<1>1. recvPc = "signal" /\ recvPc' = "sync" /\ (ReuseReady \/ DropOldest \/ UseAvailable)
  BY Zenon DEF SignalTake
<1>2. DropOldest => ready # <<>>
  BY <1>1, NotBothEmpty, Zenon DEF DropOldest
<1>3. QED
  BY <1>1, <1>2, Zenon DEF ReuseReady, DropOldest, UseAvailable

\* What the arrival of a packet does to the socket.
LEMMA ArriveTypes ==
    ASSUME TypeOK, NEW imm \in BOOLEAN, Arrives(imm)
    PROVE  /\ [imm |-> imm, psn |-> psn, frame |-> sending.frame, slot |-> sending.slot,
               lost |-> lost] \in Packet
           /\ SocketTypes'
<1>1. [imm |-> imm, psn |-> psn, frame |-> sending.frame, slot |-> sending.slot,
       lost |-> lost] \in Packet
  BY DEF TypeOK, Packet
<1>2. socket \in Seq(Packet) /\ Len(socket) \in Nat /\ Len(socket) < SocketSize /\ SocketSize \in Nat
  BY Sizes DEF TypeOK, Arrives
<1>3. socket' \in Seq(Packet) /\ Len(socket') = Len(socket) + 1
  BY <1>1, <1>2, AppendFacts DEF Arrives
<1>4. Len(socket') <= SocketSize
  BY <1>2, <1>3
<1>5. QED
  BY <1>1, <1>3, <1>4, Zenon DEF SocketTypes

\* Every step keeps the types.
LEMMA NextType == TypeOK /\ PlacesInv /\ [Next]_vars => TypeOK'
<1>1. SUFFICES ASSUME TypeOK, PlacesInv, [Next]_vars
               PROVE  /\ TxTypes' /\ SocketTypes' /\ RecvTypes' /\ BufferTypes' /\ PsnTypes'
                      /\ QueueTypes' /\ OpTypes' /\ CopyTypes'
  BY TypeGroups, PTL
<1>2. /\ TxTypes /\ SocketTypes /\ RecvTypes /\ BufferTypes /\ PsnTypes
      /\ QueueTypes /\ OpTypes /\ CopyTypes
  BY <1>1, TypeGroups, Zenon
<1>3. OpTypes'
  <2>1. UNCHANGED vars => OpTypes'
    BY <1>2, Zenon DEF vars, queueVars, opVars, OpTypes
  <2>2. Send \/ Receiver => OpTypes'
    BY <1>2, Zenon DEF Send, SendPacket, SendMetadata, txUnchanged, queueVars, opVars, OpTypes,
       Receiver, RecvCall, RecvTimeout, RecvError, RecvRunt, RecvWrite, RecvImmediate, SignalTake,
       SignalPush, RecvMemset, RecvExit, recvUnchanged
  <2>3. GetNextFrame \/ OperatorStop \/ OperatorClose \/ OperatorJoin \/ CopyDone => OpTypes'
    BY <1>2, Zenon DEF GetNextFrame, GetTake, GetWait, WaitTake, WaitTimeout, TakeFrame,
       OperatorStop, OperatorClose, OperatorJoin, CopyDone, OpTypes, OpPcs
  <2>4. QED
    BY <1>1, <2>1, <2>2, <2>3, Zenon DEF Next, Send
<1>4. RecvTypes'
  <2>1. CASE Idle
    <3>1. recvPc' \in RecvPcs
      BY <1>2, <2>1, Zenon DEF Idle, RecvTypes, RecvPcs
    <3>2. QED
      BY <1>2, <2>1, <3>1, Zenon DEF Idle, RecvTypes
  <2>2. CASE Send
    BY <1>2, <2>2, Zenon DEF Send, SendPacket, SendMetadata, txUnchanged, RecvTypes
  <2>3. CASE Take \/ CopyDone
    BY <1>2, <2>3, Zenon DEF Take, GetTake, WaitTake, CopyDone, opUnchanged, RecvTypes
  <2>4. CASE SignalTake \/ SignalPush \/ RecvExit
    BY <1>2, <2>4, Zenon DEF SignalTake, SignalPush, RecvExit, RecvTypes, RecvPcs
  <2>5. CASE RecvWrite
    <3>1. frame_bytes_received' \in Nat
      BY <1>2, <2>5 DEF RecvWrite, RecvTypes
    <3>2. QED
      BY <1>2, <2>5, <3>1, Zenon DEF RecvWrite, RecvTypes, RecvPcs
  <2>6. CASE RecvMemset
    <3>1. frame_bytes_received' \in Nat
      BY <2>6 DEF RecvMemset
    <3>2. QED
      BY <1>2, <2>6, <3>1, Zenon DEF RecvMemset, RecvTypes, RecvPcs
  <2>7. CASE RecvImmediate
    <3>1. Head(socket) \in Packet
      BY <1>2, <2>7, TailFacts, Zenon DEF SocketTypes, RecvImmediate
    <3>2. Head(socket).frame \in Nat /\ Head(socket).psn \in 0..(PsnMod - 1)
      BY <3>1 DEF Packet
    <3>3. packets_dropped' \in Nat
      <4>1. \A a \in Int : a % PsnMod \in Nat
        BY Sizes, DivMod
      <4>2. last_psn \in Int /\ packets_dropped \in Nat /\ Head(socket).psn \in Int
        BY <1>2, <3>2, Sizes DEF PsnTypes
      <4>3. (Head(socket).psn - (last_psn + 1)) % PsnMod \in Nat
        BY <4>1, <4>2
      <4>4. QED
        BY <2>7, <4>2, <4>3 DEF RecvImmediate, CountDropped
    <3>4. frame_count' \in Nat
      BY <1>2, <2>7 DEF RecvImmediate, RecvTypes
    <3>5. ended' \in [frame : Nat, dropped : Nat]
      BY <2>7, <3>2, <3>3 DEF RecvImmediate
    <3>6. QED
      BY <1>2, <2>7, <3>4, <3>5, Zenon DEF RecvImmediate, RecvTypes, RecvPcs
  <2>8. QED
    BY <1>1, <2>1, <2>2, <2>3, <2>4, <2>5, <2>6, <2>7, StepCases, Zenon
<1>5. TxTypes' /\ SocketTypes'
  <2>1. CASE Send
    <3>1. (Arrives(TRUE) \/ Arrives(FALSE)) \/ Lost
      BY <2>1, Zenon DEF Send, SendPacket, SendMetadata
    <3>2. SocketTypes'
      BY <1>1, <1>2, <3>1, ArriveTypes, Zenon DEF Lost, SocketTypes
    <3>3. lost' \in Nat /\ burst' \in 0..MaxBurst
      BY <1>2, <3>1, Sizes DEF Arrives, Lost, TxTypes
    <3>4. psn' \in 0..(PsnMod - 1)
      <4>1. psn' = (psn + 1) % PsnMod
        BY <2>1, Zenon DEF Send, SendPacket, SendMetadata
      <4>2. psn \in Int
        BY <1>2, Sizes DEF TxTypes
      <4>3. psn + 1 \in Int
        BY <4>2
      <4>4. QED
        BY <4>1, <4>3, Sizes, DivMod, Zenon
    <3>5. sending' \in [frame : Nat, slot : 1..(Packets + 1)]
      <4>1. \/ sending.slot <= Packets /\ sending' = [sending EXCEPT !.slot = @ + 1]
            \/ sending' = [frame |-> sending.frame + 1, slot |-> 1]
        BY <2>1, Zenon DEF Send, SendPacket, SendMetadata
      <4>2. sending \in [frame : Nat, slot : 1..(Packets + 1)] /\ Packets \in Nat
        BY <1>2, Sizes DEF TxTypes
      <4>3. QED
        BY <4>1, <4>2
    <3>6. QED
      BY <3>2, <3>3, <3>4, <3>5, Zenon DEF TxTypes
  <2>2. CASE RecvWrite \/ RecvImmediate
    <3>1. socket # <<>> /\ socket' = Tail(socket) /\ UNCHANGED txVars
      BY <2>2, Zenon DEF RecvWrite, RecvImmediate, recvUnchanged
    <3>2. socket' \in Seq(Packet) /\ Len(socket') = Len(socket) - 1 /\ Len(socket) \in Nat
      BY <1>2, <3>1, TailFacts DEF SocketTypes
    <3>3. Len(socket') <= SocketSize
      BY <1>2, <3>2, Sizes DEF SocketTypes
    <3>4. QED
      BY <1>2, <3>1, <3>2, <3>3, TypesKept, Zenon DEF SocketTypes
  <2>3. CASE Idle
    BY <1>2, <2>3, TypesKept, Zenon DEF Idle
  <2>4. CASE SignalTake \/ SignalPush \/ RecvMemset \/ RecvExit
    BY <1>2, <2>4, TypesKept, Zenon DEF SignalTake, SignalPush, RecvMemset, RecvExit, recvUnchanged
  <2>5. CASE Take \/ CopyDone
    BY <1>2, <2>5, TypesKept, Zenon DEF Take, GetTake, WaitTake, CopyDone, opUnchanged
  <2>6. QED
    BY <1>1, <2>1, <2>2, <2>3, <2>4, <2>5, StepCases, Zenon
<1>6. PsnTypes'
  <2>1. CASE RecvWrite \/ RecvImmediate
    <3>1. CountDropped(Head(socket)) /\ socket # <<>>
      BY <2>1, Zenon DEF RecvWrite, RecvImmediate
    <3>2. Head(socket) \in Packet
      BY <1>2, <3>1, TailFacts, Zenon DEF SocketTypes
    <3>3. Head(socket).lost \in Nat /\ Head(socket).psn \in 0..(PsnMod - 1)
      BY <3>2 DEF Packet
    <3>4. packets_dropped' \in Nat
      <4>1. \A a \in Int : a % PsnMod \in Nat
        BY Sizes, DivMod
      <4>2. last_psn \in Int /\ packets_dropped \in Nat /\ Head(socket).psn \in Int
        BY <1>2, <3>3, Sizes DEF PsnTypes
      <4>3. (Head(socket).psn - (last_psn + 1)) % PsnMod \in Nat
        BY <4>1, <4>2
      <4>4. QED
        BY <3>1, <4>2, <4>3 DEF CountDropped
    <3>5. QED
      BY <1>2, <3>1, <3>3, <3>4, Zenon DEF CountDropped, PsnTypes
  <2>2. CASE Idle
    BY <1>2, <2>2, TypesKept, Zenon DEF Idle
  <2>3. CASE SignalTake \/ SignalPush \/ RecvMemset \/ RecvExit
    BY <1>2, <2>3, TypesKept, Zenon DEF SignalTake, SignalPush, RecvMemset, RecvExit
  <2>4. CASE Take \/ CopyDone
    BY <1>2, <2>4, TypesKept, Zenon DEF Take, GetTake, WaitTake, CopyDone, opUnchanged
  <2>5. CASE Send
    BY <1>2, <2>5, TypesKept, Zenon DEF Send, SendPacket, SendMetadata, txUnchanged
  <2>6. QED
    BY <1>1, <2>1, <2>2, <2>3, <2>4, <2>5, StepCases, Zenon
<1>7. BufferTypes' /\ QueueTypes'
  <2>1. CASE Idle
    BY <1>2, <2>1, TypesKept, Zenon DEF Idle
  <2>2. CASE Send
    BY <1>2, <2>2, TypesKept, Zenon DEF Send, SendPacket, SendMetadata, txUnchanged, queueVars
  <2>3. CASE CopyDone
    BY <1>2, <2>3, TypesKept, Zenon DEF CopyDone, opUnchanged
  <2>4. CASE Take
    <3>1. ready # <<>> /\ ready' = Tail(ready) /\ available' = Append(available, Head(ready))
          /\ UNCHANGED bufferVars /\ UNCHANGED overrun
      BY <2>4, Zenon DEF Take, GetTake, WaitTake, TakeFrame, opUnchanged
    <3>2. ready' \in Seq(Buffers) /\ available' \in Seq(Buffers)
      BY <1>2, <3>1, TailFacts, AppendFacts, Zenon DEF QueueTypes
    <3>3. QED
      BY <1>2, <3>1, <3>2, TypesKept, Zenon DEF QueueTypes
  <2>5. CASE RecvWrite
    <3>1. Head(socket) \in Packet /\ ~Head(socket).imm
      BY <1>2, <2>5, TailFacts, Zenon DEF SocketTypes, RecvWrite
    <3>2. mem' \in [Buffers -> [Slots -> Int]]
      <4> DEFINE row == [mem[receiving] EXCEPT ![Head(socket).slot] = Head(socket).frame]
      <4>1. mem' = [mem EXCEPT ![receiving] = row]
        BY <2>5 DEF RecvWrite
      <4>2. Head(socket).frame \in Int
        BY <3>1 DEF Packet
      <4>3. mem \in [Buffers -> [Slots -> Int]] /\ mem[receiving] \in [Slots -> Int]
        BY <1>2 DEF BufferTypes
      <4>4. row \in [Slots -> Int]
        BY <4>2, <4>3
      <4> HIDE DEF row
      <4>5. QED
        BY <4>1, <4>3, <4>4
    <3>3. QED
      BY <1>2, <2>5, <3>2, TypesKept, Zenon DEF RecvWrite, BufferTypes, queueVars
  <2>6. CASE RecvImmediate
    <3>1. Head(socket) \in Packet
      BY <1>2, <2>6, TailFacts, Zenon DEF SocketTypes, RecvImmediate
    <3>2. Head(socket).frame \in Nat
      BY <3>1 DEF Packet
    <3>3. packets_dropped' \in Nat /\ frame_count' \in Nat /\ ended \in [frame : Nat, dropped : Nat]
          /\ frame_bytes_received \in Nat
      BY <1>2, <1>4, <1>6, Zenon DEF PsnTypes, RecvTypes
    <3>4. meta' \in [Buffers -> Metadata]
      BY <1>2, <2>6, <3>2, <3>3 DEF RecvImmediate, BufferTypes, Metadata
    <3>5. QED
      BY <1>2, <2>6, <3>4, TypesKept, Zenon DEF RecvImmediate, BufferTypes, queueVars
  <2>7. CASE SignalTake
    <3>1. UNCHANGED <<receiving, mem, meta>> /\ (ReuseReady \/ DropOldest \/ UseAvailable)
      BY <2>7, Zenon DEF SignalTake
    <3>2. overrun' \in Nat
      BY <1>2, <3>1 DEF ReuseReady, DropOldest, UseAvailable, QueueTypes
    <3>3. next' \in Buffers /\ ready' \in Seq(Buffers) /\ available' \in Seq(Buffers)
      BY <1>1, <1>2, <2>7, TakeBuffer, TailFacts, Zenon DEF QueueTypes
    <3>4. QED
      BY <1>2, <3>1, <3>2, <3>3, Zenon DEF BufferTypes, QueueTypes
  <2>8. CASE SignalPush
    <3>1. ready' \in Seq(Buffers)
      BY <1>2, <2>8, AppendFacts, Zenon DEF SignalPush, QueueTypes, BufferTypes
    <3>2. QED
      BY <1>2, <2>8, <3>1, Zenon DEF SignalPush, QueueTypes, BufferTypes
  <2>9. CASE RecvMemset
    <3>1. mem' \in [Buffers -> [Slots -> Int]]
      BY <1>2, <2>9 DEF RecvMemset, BufferTypes, Missing
    <3>2. QED
      BY <1>2, <2>9, <3>1, TypesKept, Zenon DEF RecvMemset, BufferTypes, queueVars
  <2>10. CASE RecvExit
    <3>1. <<>> \in Seq(Buffers)
      OBVIOUS
    <3>2. QED
      BY <1>2, <2>10, <3>1, TypesKept, Zenon DEF RecvExit, QueueTypes
  <2>11. QED
    BY <1>1, <2>1, <2>2, <2>3, <2>4, <2>5, <2>6, <2>7, <2>8, <2>9, <2>10, StepCases, Zenon
<1>8. CopyTypes'
  <2>1. CASE Take
    <3>1. /\ ready # <<>> /\ out' = meta[Head(ready)].received_frame_number
          /\ stream' = Append(stream, [buffer |-> Head(ready), want |-> mem[Head(ready)]])
      BY <2>1, Zenon DEF Take, GetTake, WaitTake, TakeFrame
    <3>2. Head(ready) \in Buffers
      BY <1>2, <3>1, TailFacts, Zenon DEF QueueTypes
    <3>3. out' \in Nat
      BY <1>2, <3>1, <3>2 DEF BufferTypes, Metadata
    <3>4. [buffer |-> Head(ready), want |-> mem[Head(ready)]] \in
              [buffer : Buffers, want : [Slots -> Int]]
      BY <1>2, <3>2 DEF BufferTypes
    <3>5. QED
      BY <1>2, <3>1, <3>3, <3>4, AppendFacts, Zenon DEF CopyTypes
  <2>2. CASE CopyDone
    BY <1>2, <2>2, TailFacts, Zenon DEF CopyDone, CopyTypes
  <2>3. CASE Idle
    BY <1>2, <2>3, TypesKept, Zenon DEF Idle
  <2>4. CASE Send
    BY <1>2, <2>4, TypesKept, Zenon DEF Send, SendPacket, SendMetadata, txUnchanged, opVars
  <2>5. CASE RecvWrite \/ RecvImmediate \/ SignalTake \/ SignalPush \/ RecvMemset \/ RecvExit
    BY <1>2, <2>5, TypesKept, Zenon DEF RecvWrite, RecvImmediate, SignalTake, SignalPush,
       RecvMemset, RecvExit, recvUnchanged, opVars
  <2>6. QED
    BY <1>1, <2>1, <2>2, <2>3, <2>4, <2>5, StepCases, Zenon
<1>9. QED
  BY <1>3, <1>4, <1>5, <1>6, <1>7, <1>8, Zenon

-----------------------------------------------------------------------------
(* Where the buffers are. *)

\* The queues before and after, by indices.
LEMMA QueueFacts ==
    ASSUME TypeOK
    PROVE  /\ Len(ready) \in Nat /\ Len(available) \in Nat
           /\ ready # <<>> => /\ Head(ready) = ready[1] /\ Head(ready) \in Buffers
                              /\ Len(ready) \in Nat \ {0} /\ Popped(ready, Tail(ready))
           /\ available # <<>> => /\ Head(available) = available[1] /\ Head(available) \in Buffers
                                  /\ Len(available) \in Nat \ {0}
                                  /\ Popped(available, Tail(available))
           /\ \A b \in Buffers : Pushed(ready, Append(ready, b), b)
           /\ \A b \in Buffers : Pushed(available, Append(available, b), b)
<1>1. ready \in Seq(Buffers) /\ available \in Seq(Buffers)
  BY Zenon DEF TypeOK
<1>2. Len(ready) \in Nat /\ Len(available) \in Nat
  BY <1>1
<1>3. ready # <<>> => /\ Head(ready) = ready[1] /\ Head(ready) \in Buffers
                      /\ Len(ready) \in Nat \ {0} /\ Popped(ready, Tail(ready))
  BY <1>1, TailFacts, Zenon DEF Popped
<1>4. available # <<>> => /\ Head(available) = available[1] /\ Head(available) \in Buffers
                          /\ Len(available) \in Nat \ {0} /\ Popped(available, Tail(available))
  BY <1>1, TailFacts, Zenon DEF Popped
<1>5. ASSUME NEW b \in Buffers PROVE Pushed(ready, Append(ready, b), b)
  <2>1. ready \in Seq(Buffers)
    BY <1>1
  <2>2. QED
    BY <2>1, AppendFacts DEF Pushed
<1>6. ASSUME NEW b \in Buffers PROVE Pushed(available, Append(available, b), b)
  <2>1. available \in Seq(Buffers)
    BY <1>1
  <2>2. QED
    BY <2>1, AppendFacts DEF Pushed
<1>7. QED
  BY <1>2, <1>3, <1>4, <1>5, <1>6, Zenon

\* What a step leaves as it is, if it leaves the queues and the receiver's
\* buffers alone.
LEMMA PlacesKept ==
    ASSUME PlacesInv, UNCHANGED <<ready, available, receiving, next>>,
           recvPc' = recvPc \/ (recvPc \notin {"sync", "done"} /\ recvPc' \notin {"sync", "done"})
    PROVE  PlacesInv'
<1>1. CASE recvPc = "done"
  <2>1. recvPc' = "done"
    BY <1>1
  <2>2. QED
    BY <1>1, <2>1, Zenon DEF PlacesInv
<1>2. CASE recvPc # "done"
  <2>1. recvPc' # "done" /\ (recvPc' = "sync" <=> recvPc = "sync")
    BY <1>2
  <2>2. Filling' = Filling /\ HeldCount' = HeldCount
    BY <2>1, Zenon DEF Filling, HeldCount
  <2>3. QED
    BY <1>2, <2>1, <2>2, Zenon DEF PlacesInv, DistinctInv
<1>3. QED
  BY <1>1, <1>2, Zenon

LEMMA NextPlaces == TypeOK /\ PlacesInv /\ [Next]_vars => PlacesInv'
<1>1. SUFFICES ASSUME TypeOK, PlacesInv, [Next]_vars PROVE PlacesInv'
  OBVIOUS
<1>2. Len(ready) \in Nat /\ Len(available) \in Nat /\ receiving \in Buffers /\ next \in Buffers
  BY <1>1, QueueFacts, Zenon DEF TypeOK
<1>3. recvPc # "done" =>
        /\ DistinctInv
        /\ \A b \in Buffers : b \in Filling \/ In(b, ready) \/ In(b, available)
        /\ HeldCount + Len(ready) + Len(available) = QueueSize + 1
  BY <1>1, Zenon DEF PlacesInv
<1>4. CASE Idle
  <2>1. /\ UNCHANGED <<ready, available, receiving, next>>
        /\ \/ recvPc' = recvPc
           \/ recvPc \in {"recv", "blocked"} /\ recvPc' \in {"recv", "blocked", "exit"}
    BY <1>4, Zenon DEF Idle, bufferVars
  <2>2. recvPc' = recvPc \/ (recvPc \notin {"sync", "done"} /\ recvPc' \notin {"sync", "done"})
    BY <2>1
  <2>3. QED
    BY <1>1, <2>1, <2>2, PlacesKept, Zenon
<1>5. CASE Send \/ CopyDone
  <2>1. UNCHANGED <<ready, available, receiving, next, recvPc>>
    BY <1>5, Zenon DEF Send, SendPacket, SendMetadata, txUnchanged, bufferVars, queueVars, CopyDone,
                       opUnchanged
  <2>2. QED
    BY <1>1, <2>1, PlacesKept, Zenon
<1>6. CASE RecvWrite \/ RecvImmediate \/ RecvMemset
  <2>1. /\ UNCHANGED <<ready, available, receiving, next>>
        /\ recvPc \in {"blocked", "memset"} /\ recvPc' \in {"recv", "signal"}
    BY <1>6, Zenon DEF RecvWrite, RecvImmediate, RecvMemset, queueVars
  <2>2. recvPc \notin {"sync", "done"} /\ recvPc' \notin {"sync", "done"}
    BY <2>1
  <2>3. QED
    BY <1>1, <2>1, <2>2, PlacesKept, Zenon
<1>7. CASE RecvExit
  BY <1>7, Zenon DEF RecvExit, PlacesInv
<1>8. CASE Take
  <2>1. /\ ready # <<>> /\ ready' = Tail(ready) /\ available' = Append(available, Head(ready))
        /\ UNCHANGED <<recvPc, receiving, next>> /\ recvPc # "sync"
    BY <1>8, Zenon DEF Take, GetTake, WaitTake, TakeFrame, opUnchanged, bufferVars, MutexFree
  <2>2. recvPc # "done" /\ recvPc' # "done" /\ recvPc' # "sync"
    BY <1>1, <2>1, Zenon DEF PlacesInv
  <2>3. Filling = {receiving} /\ Filling' = {receiving} /\ HeldCount = 1 /\ HeldCount' = 1
    BY <2>1, Zenon DEF Filling, HeldCount
  <2>4. /\ Head(ready) = ready[1] /\ ready[1] \in Buffers /\ Len(ready) \in Nat \ {0}
        /\ Popped(ready, ready') /\ Pushed(available, available', ready[1])
    BY <1>1, <2>1, QueueFacts, Zenon
  <2>5. Len(ready') = Len(ready) - 1 /\ Len(available') = Len(available) + 1
    BY <2>4, Zenon DEF Popped, Pushed
  <2>6. Len(ready') \in Nat
    BY <2>4, <2>5
  <2>7. /\ In(ready[1], ready) /\ (Once(ready) => Once(ready') /\ ~In(ready[1], ready'))
        /\ \A e : In(e, ready) <=> e = ready[1] \/ In(e, ready')
    BY <2>4, <2>6, PopFacts, Zenon
  <2>8. /\ Once(available) /\ ~In(ready[1], available) => Once(available')
        /\ \A e : In(e, available') <=> e = ready[1] \/ In(e, available)
    BY <1>2, <2>4, PushFacts, Zenon
  <2>9. /\ Once(ready) /\ Once(available)
        /\ \A b \in Buffers : In(b, ready) => ~In(b, available) /\ b \notin Filling
        /\ \A b \in Buffers : In(b, available) => b \notin Filling
    BY <1>3, <2>2, Zenon DEF DistinctInv
  <2>10. DistinctInv'
    BY <2>2, <2>3, <2>4, <2>7, <2>8, <2>9, Zenon DEF DistinctInv
  <2>11. \A b \in Buffers : b \in Filling' \/ In(b, ready') \/ In(b, available')
    BY <1>3, <2>2, <2>3, <2>7, <2>8, Zenon
  <2>12. HeldCount' + Len(ready') + Len(available') = QueueSize + 1
    BY <1>2, <1>3, <2>2, <2>3, <2>5
  <2>13. QED
    BY <2>2, <2>10, <2>11, <2>12, Zenon DEF PlacesInv
<1>9. CASE SignalPush
  <2>1. /\ recvPc = "sync" /\ recvPc' = "memset" /\ ready' = Append(ready, receiving)
        /\ receiving' = next /\ UNCHANGED <<next, available>>
    BY <1>9, Zenon DEF SignalPush
  <2>2. recvPc # "done" /\ recvPc' # "done" /\ recvPc' # "sync"
    BY <2>1
  <2>3. Filling = {receiving, next} /\ Filling' = {next} /\ HeldCount = 2 /\ HeldCount' = 1
    BY <2>1, <2>2, Zenon DEF Filling, HeldCount
  <2>4. Pushed(ready, ready', receiving)
    BY <1>1, <1>2, <2>1, QueueFacts, Zenon
  <2>5. Len(ready') = Len(ready) + 1
    BY <2>4, Zenon DEF Pushed
  <2>6. /\ Once(ready) /\ ~In(receiving, ready) => Once(ready')
        /\ \A e : In(e, ready') <=> e = receiving \/ In(e, ready)
    BY <1>2, <2>4, PushFacts, Zenon
  <2>7. /\ Once(ready) /\ Once(available) /\ receiving # next
        /\ \A b \in Buffers : In(b, ready) => ~In(b, available) /\ b \notin Filling
        /\ \A b \in Buffers : In(b, available) => b \notin Filling
    BY <1>3, <2>1, <2>2, Zenon DEF DistinctInv
  <2>8. ~In(receiving, ready) /\ ~In(receiving, available)
    BY <1>2, <2>3, <2>7, Zenon
  <2>9. DistinctInv'
    BY <2>1, <2>2, <2>3, <2>6, <2>7, <2>8, Zenon DEF DistinctInv
  <2>10. \A b \in Buffers : b \in Filling' \/ In(b, ready') \/ In(b, available')
    BY <1>3, <2>1, <2>2, <2>3, <2>6, Zenon
  <2>11. HeldCount' + Len(ready') + Len(available') = QueueSize + 1
    BY <1>2, <1>3, <2>1, <2>2, <2>3, <2>5
  <2>12. QED
    BY <2>2, <2>9, <2>10, <2>11, Zenon DEF PlacesInv
<1>10. CASE SignalTake
  <2>1. /\ \/ ready # <<>> /\ next' = Head(ready) /\ ready' = Tail(ready) /\ UNCHANGED available
           \/ available # <<>> /\ next' = Head(available) /\ available' = Tail(available)
              /\ UNCHANGED ready
        /\ recvPc = "signal" /\ recvPc' = "sync"
    BY <1>1, <1>10, TakeBuffer, Zenon
  <2>2. UNCHANGED receiving
    BY <1>10, Zenon DEF SignalTake
  <2>3. recvPc # "done" /\ recvPc' # "done" /\ recvPc # "sync"
    BY <2>1
  <2>4. Filling = {receiving} /\ Filling' = {receiving, next'} /\ HeldCount = 1 /\ HeldCount' = 2
    BY <2>1, <2>2, <2>3, Zenon DEF Filling, HeldCount
  <2>5. /\ Once(ready) /\ Once(available)
        /\ \A b \in Buffers : In(b, ready) => ~In(b, available) /\ b \notin Filling
        /\ \A b \in Buffers : In(b, available) => b \notin Filling
    BY <1>3, <2>3, Zenon DEF DistinctInv
  <2>6. CASE ready # <<>> /\ next' = Head(ready) /\ ready' = Tail(ready) /\ UNCHANGED available
    <3>1. /\ next' = ready[1] /\ ready[1] \in Buffers /\ Len(ready) \in Nat \ {0}
          /\ Popped(ready, ready')
      BY <1>1, <2>6, QueueFacts, Zenon
    <3>2. Len(ready') = Len(ready) - 1
      BY <3>1, Zenon DEF Popped
    <3>3. Len(ready') \in Nat
      BY <3>1, <3>2
    <3>4. /\ In(ready[1], ready) /\ (Once(ready) => Once(ready') /\ ~In(ready[1], ready'))
          /\ \A e : In(e, ready) <=> e = ready[1] \/ In(e, ready')
      BY <3>1, <3>3, PopFacts, Zenon
    <3>5. ready[1] # receiving /\ ~In(ready[1], available)
      BY <2>4, <2>5, <3>1, <3>4, Zenon
    <3>6. DistinctInv'
      BY <2>2, <2>4, <2>5, <2>6, <3>1, <3>4, <3>5, Zenon DEF DistinctInv
    <3>7. \A b \in Buffers : b \in Filling' \/ In(b, ready') \/ In(b, available')
      BY <1>3, <2>3, <2>4, <2>6, <3>1, <3>4, Zenon
    <3>8. HeldCount' + Len(ready') + Len(available') = QueueSize + 1
      BY <1>2, <1>3, <2>3, <2>4, <2>6, <3>2
    <3>9. QED
      BY <2>3, <3>6, <3>7, <3>8, Zenon DEF PlacesInv
  <2>7. CASE available # <<>> /\ next' = Head(available) /\ available' = Tail(available)
             /\ UNCHANGED ready
    <3>1. /\ next' = available[1] /\ available[1] \in Buffers /\ Len(available) \in Nat \ {0}
          /\ Popped(available, available')
      BY <1>1, <2>7, QueueFacts, Zenon
    <3>2. Len(available') = Len(available) - 1
      BY <3>1, Zenon DEF Popped
    <3>3. Len(available') \in Nat
      BY <3>1, <3>2
    <3>4. /\ In(available[1], available)
          /\ Once(available) => Once(available') /\ ~In(available[1], available')
          /\ \A e : In(e, available) <=> e = available[1] \/ In(e, available')
      BY <3>1, <3>3, PopFacts, Zenon
    <3>5. available[1] # receiving /\ ~In(available[1], ready)
      BY <2>4, <2>5, <3>1, <3>4, Zenon
    <3>6. DistinctInv'
      BY <2>2, <2>4, <2>5, <2>7, <3>1, <3>4, <3>5, Zenon DEF DistinctInv
    <3>7. \A b \in Buffers : b \in Filling' \/ In(b, ready') \/ In(b, available')
      BY <1>3, <2>3, <2>4, <2>7, <3>1, <3>4, Zenon
    <3>8. HeldCount' + Len(ready') + Len(available') = QueueSize + 1
      BY <1>2, <1>3, <2>3, <2>4, <2>7, <3>2
    <3>9. QED
      BY <2>3, <3>6, <3>7, <3>8, Zenon DEF PlacesInv
  <2>8. QED
    BY <2>1, <2>6, <2>7, Zenon
<1>11. QED
  BY <1>1, <1>4, <1>5, <1>6, <1>7, <1>8, <1>9, <1>10, StepCases, Zenon

\* No step writes a buffer that is being copied.
LEMMA NextCopies == TypeOK /\ PlacesInv /\ CopiesInv /\ [Next]_vars => CopiesInv'
<1>1. SUFFICES ASSUME TypeOK, PlacesInv, CopiesInv, [Next]_vars, recvPc' # "done",
                      NEW i \in 1..Len(stream')
               PROVE  stream'[i].buffer # receiving' /\ mem'[stream'[i].buffer] = stream'[i].want
  BY Zenon DEF CopiesInv
<1>2. recvPc # "done"
  <2>1. Idle => recvPc # "done"
    BY <1>1, Zenon DEF Idle
  <2>2. Send \/ Take \/ CopyDone => recvPc' = recvPc
    BY Zenon DEF Send, SendPacket, SendMetadata, txUnchanged, Take, GetTake, WaitTake, CopyDone,
                 opUnchanged
  <2>3. RecvWrite \/ RecvImmediate \/ SignalTake \/ SignalPush \/ RecvMemset => recvPc # "done"
    BY DEF RecvWrite, RecvImmediate, SignalTake, SignalPush, RecvMemset
  <2>4. ~RecvExit
    BY <1>1, Zenon DEF RecvExit
  <2>5. QED
    BY <1>1, <2>1, <2>2, <2>3, <2>4, StepCases, Zenon
<1>3. \A j \in 1..Len(stream) : /\ stream[j].buffer # receiving
                                /\ mem[stream[j].buffer] = stream[j].want
  BY <1>1, <1>2, Zenon DEF CopiesInv
<1>4. /\ stream \in Seq([buffer : Buffers, want : [Slots -> Int]]) /\ receiving \in Buffers
      /\ mem \in [Buffers -> [Slots -> Int]]
  BY <1>1, Zenon DEF TypeOK
<1>5. ASSUME NEW j \in 1..Len(stream) PROVE stream[j].buffer \in Buffers
  <2> DEFINE Copy == [buffer : Buffers, want : [Slots -> Int]]
  <2>1. \A c \in Copy : c.buffer \in Buffers
    OBVIOUS
  <2>2. stream \in Seq(Copy)
    BY <1>4
  <2> HIDE DEF Copy
  <2>3. stream[j] \in Copy
    BY <2>2
  <2>4. QED
    BY <2>1, <2>3
<1>6. CASE Idle \/ Send \/ RecvImmediate \/ SignalTake
  <2>1. UNCHANGED <<stream, receiving, mem>>
    BY <1>6, Zenon DEF Idle, bufferVars, Send, SendPacket, SendMetadata, txUnchanged, opVars,
                       RecvImmediate, SignalTake, recvUnchanged
  <2>2. QED
    BY <1>1, <1>3, <2>1, Zenon
<1>7. CASE RecvWrite \/ RecvMemset
  <2>1. UNCHANGED <<stream, receiving>>
    BY <1>7, Zenon DEF RecvWrite, RecvMemset, recvUnchanged, opVars
  <2>2. \E row : mem' = [mem EXCEPT ![receiving] = row]
    BY <1>7 DEF RecvWrite, RecvMemset
  <2>3. \A b \in Buffers : b # receiving => mem'[b] = mem[b]
    BY <1>4, <2>2
  <2>4. QED
    BY <1>1, <1>3, <1>5, <2>1, <2>3, Zenon
<1>8. CASE SignalPush
  <2>1. /\ UNCHANGED <<stream, mem>> /\ receiving' = next
        /\ \A j \in 1..Len(stream) : stream[j].buffer # next
    BY <1>8, Zenon DEF SignalPush, recvUnchanged, opVars
  <2>2. QED
    BY <1>1, <1>3, <2>1, Zenon
<1>9. CASE Take
  <2>1. /\ UNCHANGED <<receiving, mem>> /\ ready # <<>>
        /\ stream' = Append(stream, [buffer |-> Head(ready), want |-> mem[Head(ready)]])
    BY <1>9, Zenon DEF Take, GetTake, WaitTake, TakeFrame, opUnchanged, bufferVars
  <2>2. Head(ready) \in Buffers /\ Head(ready) # receiving
    <3>1. /\ Head(ready) = ready[1] /\ ready[1] \in Buffers /\ Len(ready) \in Nat \ {0}
      BY <1>1, <2>1, QueueFacts, Zenon
    <3>2. In(ready[1], ready)
      BY <3>1 DEF In
    <3>3. QED
      BY <1>1, <1>2, <3>1, <3>2, Zenon DEF PlacesInv, DistinctInv, Filling
  <2>3. [buffer |-> Head(ready), want |-> mem[Head(ready)]] \in
              [buffer : Buffers, want : [Slots -> Int]]
    BY <1>4, <2>2
  <2>4. /\ Len(stream') = Len(stream) + 1 /\ Len(stream) \in Nat
        /\ \A j \in 1..Len(stream) : stream'[j] = stream[j]
        /\ stream'[Len(stream) + 1] = [buffer |-> Head(ready), want |-> mem[Head(ready)]]
    BY <1>4, <2>1, <2>3, AppendFacts
  <2>5. CASE i = Len(stream) + 1
    BY <2>1, <2>2, <2>4, <2>5
  <2>6. CASE i \in 1..Len(stream)
    BY <1>3, <2>1, <2>4, <2>6, Zenon
  <2>7. QED
    BY <1>1, <2>4, <2>5, <2>6
<1>10. CASE CopyDone
  <2>1. UNCHANGED <<receiving, mem>> /\ stream # <<>> /\ stream' = Tail(stream)
    BY <1>10, Zenon DEF CopyDone, opUnchanged, bufferVars
  <2>2. stream'[i] = stream[i + 1] /\ i + 1 \in 1..Len(stream)
    BY <1>1, <1>4, <2>1, TailFacts
  <2>3. QED
    BY <1>3, <2>1, <2>2, Zenon
<1>11. CASE RecvExit
  BY <1>1, <1>11, Zenon DEF RecvExit
<1>12. QED
  BY <1>1, <1>6, <1>7, <1>8, <1>9, <1>10, <1>11, StepCases, Zenon

\* Every buffer is in one place, and none is written while it is copied.
THEOREM BuffersInvariant == SafetySpec => []BuffersInv
<1>1. Init => BuffersInv
  <2>1. SUFFICES ASSUME Init PROVE BuffersInv
    OBVIOUS
  <2>2. available \in Seq(Buffers) /\ Len(available) = QueueSize
        /\ \A i \in 1..QueueSize : available[i] = i
    <3>1. \A i \in 1..QueueSize : i \in Buffers
      BY Sizes DEF Buffers
    <3>2. QED
      BY <2>1, <3>1, Sizes DEF Init
  <2>3. ready = <<>> /\ stream = <<>> /\ recvPc = "recv" /\ receiving = 0 /\ Len(ready) = 0
        /\ Len(stream) = 0
    BY <2>1 DEF Init
  <2>4. TypeOK
    <3>1. TxTypes
      BY <2>1, Sizes DEF Init, TxTypes
    <3>2. SocketTypes
      BY <2>1, Sizes DEF Init, SocketTypes
    <3>3. RecvTypes
      BY <2>1 DEF Init, RecvTypes, RecvPcs
    <3>4. BufferTypes
      BY <2>1, Sizes DEF Init, BufferTypes, Metadata, NoMetadata, Junk
    <3>5. PsnTypes
      BY <2>1, Sizes DEF Init, PsnTypes
    <3>6. QueueTypes
      BY <2>1, <2>2 DEF Init, QueueTypes
    <3>7. OpTypes
      BY <2>1, Zenon DEF Init, OpTypes, OpPcs
    <3>8. CopyTypes
      BY <2>1 DEF Init, CopyTypes
    <3>9. QED
      BY <3>1, <3>2, <3>3, <3>4, <3>5, <3>6, <3>7, <3>8, TypeGroups, Zenon
  <2>5. \A b : In(b, available) <=> b \in 1..QueueSize
    BY <2>2 DEF In
  <2>6. \A b : ~In(b, ready)
    BY <2>3, Sizes DEF In
  <2>7. Filling = {0} /\ HeldCount = 1
    BY <2>3 DEF Filling, HeldCount
  <2>8. Once(ready) /\ Once(available)
    BY <2>2, <2>3, Sizes DEF Once
  <2>9. PlacesInv
    <3>1. \A b \in Buffers : b \in Filling \/ In(b, available)
      BY <2>5, <2>7, Sizes DEF Buffers
    <3>2. \A b \in Buffers : In(b, available) => b \notin Filling
      BY <2>5, <2>7, Sizes
    <3>3. HeldCount + Len(ready) + Len(available) = QueueSize + 1
      BY <2>2, <2>3, <2>7, Sizes
    <3>4. recvPc # "done" /\ recvPc # "sync"
      BY <2>3
    <3>5. QED
      BY <2>6, <2>8, <3>1, <3>2, <3>3, <3>4, Zenon DEF PlacesInv, DistinctInv
  <2>10. CopiesInv
    BY <2>3 DEF CopiesInv
  <2>11. QED
    BY <2>4, <2>9, <2>10, Zenon DEF BuffersInv
<1>2. BuffersInv /\ [Next]_vars => BuffersInv'
  BY NextType, NextPlaces, NextCopies, Zenon DEF BuffersInv
<1>3. QED
  BY <1>1, <1>2, PTL DEF SafetySpec

\* Buffers are conserved and copies are intact: get_next_frame gives a buffer
\* back while the GPU copies from it, and signal() waits for that copy.
THEOREM BuffersAreSafe == SafetySpec => []BuffersSafe
<1>1. BuffersInv => BuffersSafe
  <2>1. SUFFICES ASSUME BuffersInv PROVE BuffersSafe
    OBVIOUS
  <2>2. TypeOK /\ PlacesInv /\ CopiesInv
    BY <2>1, Zenon DEF BuffersInv
  <2>3. CopiesIntact
    BY <2>2, Zenon DEF CopiesInv, CopiesIntact
  <2>4. ASSUME recvPc # "done"
        PROVE  /\ Filling \cup ToSet(ready) \cup ToSet(available) = Buffers
               /\ Cardinality(Filling) + Len(ready) + Len(available) = QueueSize + 1
    <3>1. /\ \A b \in Buffers : b \in Filling \/ In(b, ready) \/ In(b, available)
          /\ HeldCount + Len(ready) + Len(available) = QueueSize + 1
          /\ recvPc = "sync" => receiving # next
      BY <2>2, <2>4, Zenon DEF PlacesInv, DistinctInv
    <3>2. /\ ready \in Seq(Buffers) /\ available \in Seq(Buffers)
          /\ receiving \in Buffers /\ next \in Buffers
      BY <2>2, Zenon DEF TypeOK
    <3>3. ToSet(ready) \subseteq Buffers /\ ToSet(available) \subseteq Buffers
      BY <3>2 DEF ToSet
    <3>4. \A b : (In(b, ready) => b \in ToSet(ready)) /\ (In(b, available) => b \in ToSet(available))
      BY Zenon DEF In, ToSet
    <3>5. Filling \subseteq Buffers
      BY <3>2, Zenon DEF Filling
    <3>6. Cardinality(Filling) = HeldCount
      <4>1. \A x : Cardinality({x}) = 1
        BY FS_Singleton
      <4>2. \A x, y : x # y => Cardinality({x, y}) = 2
        <5>1. SUFFICES ASSUME NEW x, NEW y, x # y PROVE Cardinality({x, y}) = 2
          OBVIOUS
        <5>2. IsFiniteSet({y}) /\ Cardinality({y}) = 1
          BY FS_Singleton
        <5>3. Cardinality({y} \cup {x}) = Cardinality({y}) + 1
          BY <5>1, <5>2, FS_AddElement
        <5>4. {y} \cup {x} = {x, y}
          OBVIOUS
        <5>5. QED
          BY <5>2, <5>3, <5>4
      <4>3. QED
        BY <3>1, <4>1, <4>2 DEF Filling, HeldCount
    <3>7. Filling \cup ToSet(ready) \cup ToSet(available) = Buffers
      BY <3>1, <3>3, <3>4, <3>5, Zenon
    <3>8. QED
      BY <3>1, <3>6, <3>7, Zenon
  <2>5. BuffersConserved
    BY <2>4, Zenon DEF BuffersConserved
  <2>6. QED
    BY <2>2, <2>3, <2>5, Zenon DEF BuffersSafe
<1>2. QED
  BY <1>1, BuffersInvariant, PTL

-----------------------------------------------------------------------------
(* What is lost. *)

\* What a packet holds.
LEMMA PacketFields ==
    ASSUME NEW p \in Packet
    PROVE  /\ p.imm \in BOOLEAN /\ p.psn \in Int /\ p.psn \in 0..(PsnMod - 1)
           /\ p.frame \in Nat /\ p.slot \in 1..(Packets + 1) /\ p.slot \in Nat /\ p.lost \in Nat
<1>1. /\ p.imm \in BOOLEAN /\ p.psn \in 0..(PsnMod - 1)
      /\ p.frame \in Nat /\ p.slot \in 1..(Packets + 1) /\ p.lost \in Nat
  BY DEF Packet
<1>2. QED
  BY <1>1, Sizes

\* The packet that is sent next is a packet.
LEMMA CurType == TypeOK => Cur \in Packet
  BY DEF TypeOK, Cur, Packet

\* The packets on the way.
LEMMA LineTypes == TypeOK => \A i \in Nat \ {0} : Line(i) \in Packet
<1>1. SUFFICES ASSUME TypeOK, NEW i \in Nat \ {0} PROVE Line(i) \in Packet
  OBVIOUS
<1>2. socket \in Seq(Packet)
  BY <1>1, Zenon DEF TypeOK
<1>3. i <= Len(socket) => socket[i] \in Packet
  BY <1>2
<1>4. QED
  BY <1>1, <1>3, CurType, Zenon DEF Line

\* The packets on the way, one by one.
LineShape ==
    \A i \in Nat \ {0} : /\ i <= Len(socket) => Line(i) = socket[i]
                         /\ i > Len(socket) => Line(i) = Cur

LEMMA LineIsShaped == TypeOK => LineShape
<1>1. SUFFICES ASSUME TypeOK, NEW i \in Nat \ {0}
               PROVE  /\ i <= Len(socket) => Line(i) = socket[i]
                      /\ i > Len(socket) => Line(i) = Cur
  BY DEF LineShape
<1>2. socket \in Seq(Packet) /\ Len(socket) \in Nat
  BY <1>1 DEF TypeOK
<1>3. i > Len(socket) => ~(i <= Len(socket))
  BY <1>2
<1>4. QED
  BY <1>3, Zenon DEF Line

LEMMA SocketLine ==
    ASSUME TypeOK
    PROVE  /\ Len(socket) \in Nat
           /\ socket # <<>> => Len(socket) \in Nat \ {0} /\ Head(socket) = Line(1)
           /\ socket = <<>> => Len(socket) = 0 /\ Line(1) = Cur
           /\ \A i \in 1..Len(socket) : Line(i) = socket[i]
           /\ Line(Len(socket) + 1) = Cur
<1>1. socket \in Seq(Packet) /\ Len(socket) \in Nat
  BY DEF TypeOK
<1>2. socket # <<>> => Len(socket) \in Nat \ {0} /\ Head(socket) = socket[1]
  BY <1>1
<1>3. socket = <<>> => Len(socket) = 0
  BY <1>1
<1>4. \A i \in 1..Len(socket) : Line(i) = socket[i]
  BY <1>1 DEF Line
<1>5. Line(Len(socket) + 1) = Cur
  BY <1>1 DEF Line
<1>6. socket = <<>> => Line(1) = Cur
  BY <1>3 DEF Line
<1>7. socket # <<>> => Head(socket) = Line(1)
  BY <1>2, <1>4
<1>8. QED
  BY <1>1, <1>2, <1>3, <1>4, <1>5, <1>6, <1>7, Zenon

\* Packet q is the one that is sent right after p.
Succeeds(p, q) ==
    /\ q.psn = (p.psn + 1) % PsnMod
    /\ IF p.slot = Packets + 1 THEN q.frame = p.frame + 1 /\ q.slot = 1
       ELSE q.frame = p.frame /\ q.slot = p.slot + 1

\* What sending a packet does.
LEMMA SendFacts ==
    ASSUME TypeOK, TypeOK', Send
    PROVE  /\ Succeeds(Cur, Cur')
           /\ \/ /\ Len(socket') = Len(socket) + 1
                 /\ \A i \in 1..(Len(socket) + 1) : Line(i)' = Line(i)
                 /\ Cur'.lost = Cur.lost /\ burst' = 0
              \/ /\ socket' = socket /\ burst' = burst + 1
                 /\ Cur'.lost = Cur.lost + 1 /\ burst < MaxBurst
<1>1. Succeeds(Cur, Cur')
  <2>1. Cur'.psn = (Cur.psn + 1) % PsnMod
    BY Zenon DEF Send, SendPacket, SendMetadata, Cur
  <2>2. \/ sending.slot <= Packets /\ sending' = [sending EXCEPT !.slot = @ + 1]
        \/ sending.slot = Packets + 1 /\ sending' = [frame |-> sending.frame + 1, slot |-> 1]
    BY Zenon DEF Send, SendPacket, SendMetadata
  <2>3. sending \in [frame : Nat, slot : 1..(Packets + 1)] /\ Packets \in Nat
    BY Sizes DEF TypeOK
  <2>4. IF sending.slot = Packets + 1 THEN sending'.frame = sending.frame + 1 /\ sending'.slot = 1
        ELSE sending'.frame = sending.frame /\ sending'.slot = sending.slot + 1
    BY <2>2, <2>3
  <2>5. /\ Cur.slot = sending.slot /\ Cur.frame = sending.frame
        /\ Cur'.slot = sending'.slot /\ Cur'.frame = sending'.frame
    BY DEF Cur
  <2>6. QED
    BY <2>1, <2>4, <2>5, Zenon DEF Succeeds
<1>2. CASE Lost
  BY <1>1, <1>2 DEF Lost, Cur
<1>3. CASE \E imm \in BOOLEAN : Arrives(imm) /\ (imm <=> sending.slot = Packets + 1)
  <2>1. PICK imm \in BOOLEAN : Arrives(imm) /\ (imm <=> sending.slot = Packets + 1)
    BY <1>3
  <2> DEFINE p == [imm |-> imm, psn |-> psn, frame |-> sending.frame,
                   slot |-> sending.slot, lost |-> lost]
  <2>2. p = Cur
    <3>1. imm = (sending.slot = Packets + 1)
      BY <2>1
    <3>2. QED
      BY <3>1, Zenon DEF Cur
  <2>3. socket' = Append(socket, Cur)
    BY <2>1, <2>2, Zenon DEF Arrives
  <2>4. socket \in Seq(Packet) /\ Len(socket) \in Nat
    BY DEF TypeOK
  <2>5. /\ Len(socket') = Len(socket) + 1
        /\ \A i \in 1..Len(socket) : socket'[i] = socket[i]
        /\ socket'[Len(socket) + 1] = Cur
    BY <2>3, <2>4, CurType, AppendFacts
  <2>6. ASSUME NEW i \in 1..(Len(socket) + 1) PROVE Line(i)' = Line(i)
    <3>1. Line(i)' = socket'[i]
      BY <2>4, <2>5 DEF Line
    <3>2. CASE i \in 1..Len(socket)
      BY <2>5, <3>1, <3>2, SocketLine, Zenon
    <3>3. CASE i = Len(socket) + 1
      BY <2>5, <3>1, <3>3, SocketLine, Zenon
    <3>4. QED
      BY <2>4, <3>2, <3>3
  <2>7. Cur'.lost = Cur.lost /\ burst' = 0
    BY <2>1 DEF Arrives, Cur
  <2>8. QED
    BY <1>1, <2>5, <2>6, <2>7, Zenon
<1>4. Lost \/ \E imm \in BOOLEAN : Arrives(imm) /\ (imm <=> sending.slot = Packets + 1)
  <2>1. sending.slot <= Packets => sending.slot # Packets + 1
    BY Sizes DEF TypeOK
  <2>2. QED
    BY <2>1, Zenon DEF Send, SendPacket, SendMetadata
<1>5. QED
  BY <1>2, <1>3, <1>4, Zenon

\* The next packet follows a packet that arrived, ...
LEMMA FollowsNext ==
    ASSUME NEW p \in Packet, NEW q \in Packet, Succeeds(p, q), q.lost = p.lost
    PROVE  Follows(p, q)
<1>1. /\ p.psn \in Int /\ p.lost \in Nat /\ q.lost \in Nat /\ p.frame \in Nat
      /\ p.slot \in 1..(Packets + 1) /\ Packets \in Nat /\ MaxBurst \in Nat
  BY PacketFields, Sizes
<1>2. q.lost - p.lost = 0
  BY <1>1
<1>3. p.psn + 1 + 0 = p.psn + 1
  BY <1>1
<1>4. q.psn = (p.psn + 1 + (q.lost - p.lost)) % PsnMod
  BY <1>2, <1>3, Zenon DEF Succeeds
<1>5. q.frame > p.frame \/ (q.frame = p.frame /\ q.slot > p.slot)
  BY <1>1 DEF Succeeds
<1>6. q.lost - p.lost \in 0..MaxBurst
  BY <1>1, <1>2
<1>7. QED
  BY <1>4, <1>5, <1>6, Zenon DEF Follows, Succeeds

\* ... and also when the one in between is lost.
LEMMA FollowsLost ==
    ASSUME NEW p \in Packet, NEW q \in Packet, NEW r \in Packet, Follows(p, q), Succeeds(q, r),
           r.lost = q.lost + 1, r.lost - p.lost <= MaxBurst
    PROVE  Follows(p, r)
<1>1. /\ p.psn \in Int /\ p.lost \in Nat /\ q.lost \in Nat /\ p.frame \in Nat /\ q.frame \in Nat
      /\ q.slot \in 1..(Packets + 1) /\ p.slot \in Nat
      /\ Packets \in Nat /\ MaxBurst \in Nat /\ PsnMod \in Nat \ {0}
  BY PacketFields, Sizes
<1> DEFINE x == p.psn + 1 + (q.lost - p.lost)
<1>2. x \in Int /\ x + 1 = p.psn + 1 + (r.lost - p.lost)
  BY <1>1
<1>3. q.psn = x % PsnMod /\ r.psn = (q.psn + 1) % PsnMod
  BY Zenon DEF Follows, Succeeds
<1> HIDE DEF x
<1>4. r.psn = (x + 1) % PsnMod
  BY <1>1, <1>2, <1>3, ModSucc, Zenon
<1>5. r.psn = (p.psn + 1 + (r.lost - p.lost)) % PsnMod
  BY <1>2, <1>4, Zenon
<1>6. q.lost - p.lost \in 0..MaxBurst
  BY Zenon DEF Follows
<1>7. r.lost - p.lost \in 0..MaxBurst /\ r.lost # p.lost
  BY <1>1, <1>6
<1>8. /\ q.frame > p.frame \/ (q.frame = p.frame /\ q.slot > p.slot)
      /\ IF q.slot = Packets + 1 THEN r.frame = q.frame + 1 /\ r.slot = 1
         ELSE r.frame = q.frame /\ r.slot = q.slot + 1
  BY Zenon DEF Follows, Succeeds
<1>9. r.frame > p.frame \/ (r.frame = p.frame /\ r.slot > p.slot)
  BY <1>1, <1>8
<1>10. QED
  BY <1>5, <1>7, <1>9, Zenon DEF Follows

\* Later packets are of the same frame or a later one.
LEMMA FollowsFrame ==
    ASSUME NEW p \in Packet, NEW q \in Packet, Follows(p, q)
    PROVE  /\ q.frame >= p.frame
           /\ p.slot = Packets + 1 => q.frame > p.frame
<1>1. /\ p.frame \in Nat /\ q.frame \in Nat /\ p.slot \in Nat /\ q.slot \in 1..(Packets + 1)
      /\ Packets \in Nat
  BY PacketFields, Sizes
<1>2. q.frame > p.frame \/ (q.frame = p.frame /\ q.slot > p.slot)
  BY Zenon DEF Follows
<1>3. QED
  BY <1>1, <1>2

\* What the other parts of the invariant say about the packet at the front.
LineInv ==
    /\ ~first => /\ Line(1).lost - Counted \in 0..MaxBurst
                 /\ Line(1).psn = (last_psn + 1 + (Line(1).lost - Counted)) % PsnMod
    /\ ExpectInv /\ FillingInv

\* The receiver does not change and the packet at the front does not either.
LEMMA LineKept ==
    ASSUME LossInv, Line(1)' = Line(1),
           UNCHANGED <<recvPc, receiving, mem, frame_bytes_received, frame_count, psnVars, ended>>
    PROVE  LineInv'
<1>1. LineInv
  BY Zenon DEF LossInv, LastInv, LineInv
<1>2. Counted' = Counted
  BY Zenon DEF Counted, psnVars
<1>3. (~first => /\ Line(1).lost - Counted \in 0..MaxBurst
                 /\ Line(1).psn = (last_psn + 1 + (Line(1).lost - Counted)) % PsnMod)'
  BY <1>1, <1>2, Zenon DEF LineInv, psnVars
<1>4. FillingInv'
  BY <1>1, Zenon DEF LineInv, FillingInv
<1>5. Between' = Between
  BY Zenon DEF Between
<1>6. \A f, s : InARow(f, s)' = InARow(f, s)
  BY <1>2 DEF InARow
<1>7. ExpectInv'
  BY <1>1, <1>2, <1>5, <1>6, Zenon DEF LineInv, ExpectInv, psnVars
<1>8. QED
  BY <1>3, <1>4, <1>7, Zenon DEF LineInv

\* Sending a packet, whether it arrives or is lost, keeps the invariant.
LEMMA SendKeeps ==
    ASSUME TypeOK, TypeOK', LossInv, Send
    PROVE  LossInv'
<1>1. /\ UNCHANGED <<recvPc, receiving, mem, meta, frame_bytes_received, frame_count, ended, ready>>
      /\ UNCHANGED psnVars
  BY Zenon DEF Send, SendPacket, SendMetadata, txUnchanged, bufferVars, queueVars
<1>2. SocketInv /\ StartInv /\ LastInv /\ ExpectInv /\ FillingInv /\ EndedInv
  BY Zenon DEF LossInv
<1>3. StartInv' /\ EndedInv'
  BY <1>1, <1>2, Zenon DEF StartInv, EndedInv, Intact, Clean, In, psnVars
<1>4. /\ Cur \in Packet /\ Cur' \in Packet
      /\ \A i \in Nat \ {0} : Line(i) \in Packet
      /\ Len(socket) \in Nat /\ lost \in Nat /\ burst \in 0..MaxBurst /\ MaxBurst \in Nat
  <2>1. (Cur \in Packet)'
    BY CurType, PTL
  <2>2. QED
    BY <2>1, CurType, LineTypes, SocketLine, Sizes, Zenon DEF TypeOK
<1>5. Succeeds(Cur, Cur')
  BY SendFacts, Zenon
<1>6. \A i \in 1..Len(socket) : Follows(Line(i), Line(i + 1))
  BY <1>2, Zenon DEF SocketInv
<1>7. \A i \in 1..Len(socket) : socket[i].imm <=> socket[i].slot = Packets + 1
  BY <1>2, Zenon DEF SocketInv
<1>8. Cur.lost = lost /\ Cur'.lost = lost'
  BY DEF Cur
<1>9. CASE /\ Len(socket') = Len(socket) + 1
           /\ \A i \in 1..(Len(socket) + 1) : Line(i)' = Line(i)
           /\ Cur'.lost = Cur.lost /\ burst' = 0
  <2>1. Line(1)' = Line(1)
    <3>1. 1 \in 1..(Len(socket) + 1)
      BY <1>4
    <3>2. QED
      BY <1>9, <3>1, Zenon
  <2>2. LineInv'
    BY <1>1, <2>1, LineKept, Zenon
  <2>3. Len(socket') \in Nat \ {0} /\ socket' # <<>>
    <3>1. Len(<<>>) = 0
      OBVIOUS
    <3>2. QED
      BY <1>4, <1>9, <3>1
  <2>4. /\ \A i \in 1..Len(socket') : Line(i)' = socket'[i]
        /\ \A i \in Nat : i = Len(socket') + 1 => Line(i)' = Cur'
    <3>1. LineShape'
      BY LineIsShaped, PTL
    <3>2. \A i \in Nat \ {0} : /\ i <= Len(socket') => Line(i)' = socket'[i]
                               /\ i > Len(socket') => Line(i)' = Cur'
      BY <3>1 DEF LineShape
    <3>3. QED
      BY <2>3, <3>2
  <2>5. ASSUME NEW i \in 1..Len(socket') PROVE (Line(i).imm <=> Line(i).slot = Packets + 1)'
    <3>1. Line(i)' = Line(i)
      BY <1>9
    <3>2. CASE i \in 1..Len(socket)
      BY <1>7, <3>1, <3>2, SocketLine, Zenon
    <3>3. CASE i = Len(socket) + 1
      <4>1. Line(i)' = Cur
        BY <3>1, <3>3, SocketLine, Zenon
      <4>2. Cur.imm <=> Cur.slot = Packets + 1
        BY DEF Cur
      <4>3. QED
        BY <4>1, <4>2, Zenon
    <3>4. QED
      BY <1>4, <1>9, <3>2, <3>3
  <2>6. ASSUME NEW i \in 1..Len(socket') PROVE Follows(Line(i)', Line(i + 1)')
    <3>1. Line(i)' = Line(i)
      BY <1>9
    <3>2. CASE i \in 1..Len(socket)
      <4>1. i + 1 \in 1..(Len(socket) + 1)
        BY <1>4, <3>2
      <4>2. Line(i + 1)' = Line(i + 1)
        BY <1>9, <4>1, Zenon
      <4>3. QED
        BY <1>6, <3>1, <3>2, <4>2, Zenon
    <3>3. CASE i = Len(socket) + 1
      <4>1. i + 1 = Len(socket') + 1 /\ i + 1 \in Nat
        BY <1>4, <1>9, <3>3
      <4>2. Line(i)' = Cur
        BY <3>1, <3>3, SocketLine, Zenon
      <4>3. Line(i + 1)' = Cur'
        BY <2>4, <4>1, Zenon
      <4>4. Follows(Cur, Cur')
        BY <1>4, <1>5, <1>9, FollowsNext, Zenon
      <4>5. QED
        BY <4>2, <4>3, <4>4, Zenon
    <3>4. QED
      BY <1>4, <1>9, <3>2, <3>3
  <2>7. lost' = socket'[Len(socket')].lost + burst'
    <3>1. PICK n \in Nat : n = Len(socket')
      BY <2>3, Zenon
    <3>2. n \in 1..Len(socket') /\ n \in 1..(Len(socket) + 1) /\ n = Len(socket) + 1
      BY <1>4, <1>9, <3>1
    <3>3. socket'[n] = Cur
      BY <1>9, <2>4, <3>2, SocketLine, Zenon
    <3>4. lost' = lost /\ burst' = 0 /\ socket'[n].lost = lost
      BY <1>8, <1>9, <3>3, Zenon
    <3>5. lost' = socket'[n].lost + burst'
      BY <1>4, <3>4
    <3>6. QED
      BY <3>1, <3>5, Zenon
  <2>8. SocketInv'
    <3>1. (\A i \in 1..Len(socket) : socket[i].imm <=> socket[i].slot = Packets + 1)'
      BY <2>4, <2>5, Zenon
    <3>2. (\A i \in 1..Len(socket) : Follows(Line(i), Line(i + 1)))'
      BY <2>6 DEF Follows
    <3>3. QED
      BY <2>7, <3>1, <3>2, Zenon DEF SocketInv
  <2>9. LastInv'
    BY <2>2, <2>3, Zenon DEF LineInv, LastInv
  <2>10. QED
    BY <1>3, <2>2, <2>8, <2>9, Zenon DEF LineInv, LossInv
<1>10. CASE /\ socket' = socket /\ burst' = burst + 1
            /\ Cur'.lost = Cur.lost + 1 /\ burst < MaxBurst
  <2>1. \A i \in 1..Len(socket) : Line(i)' = Line(i)
    BY <1>10 DEF Line
  <2>2. \A i \in Nat : i = Len(socket) + 1 => Line(i)' = Cur'
    <3>1. SUFFICES ASSUME NEW i \in Nat, i = Len(socket) + 1 PROVE Line(i)' = Cur'
      OBVIOUS
    <3>2. ~(i <= Len(socket'))
      BY <1>4, <1>10, <3>1
    <3>3. QED
      BY <3>2, Zenon DEF Line
  <2>3. ASSUME socket # <<>> PROVE LineInv' /\ LastInv'
    <3>1. 1 \in 1..Len(socket)
      BY <2>3, SocketLine
    <3>2. LineInv'
      BY <1>1, <2>1, <3>1, LineKept, Zenon
    <3>3. QED
      BY <1>10, <2>3, <3>2, Zenon DEF LineInv, LastInv
  <2>4. ASSUME socket = <<>> PROVE LineInv' /\ LastInv'
    <3>1. Line(1) = Cur /\ Line(1)' = Cur'
      <4>1. Line(1) = Cur /\ Len(socket) = 0
        BY <2>4, SocketLine, Zenon
      <4>2. 1 \in Nat /\ 1 = Len(socket) + 1
        BY <4>1
      <4>3. QED
        BY <2>2, <4>1, <4>2, Zenon
    <3>2. Counted' = Counted /\ first' = first /\ last_psn' = last_psn
      BY <1>1, Zenon DEF Counted, psnVars
    <3>3. Counted \in Nat /\ last_psn \in Int /\ ended.frame \in Nat /\ packets_dropped \in Nat
      BY Sizes DEF Counted, TypeOK
    <3>4. ~first => lost = Counted + burst
      BY <1>2, <2>4, Zenon DEF LastInv
    <3>5. ~first => /\ lost' = Counted + burst + 1 /\ lost' - Counted = (lost - Counted) + 1
                    /\ lost' - Counted \in 0..MaxBurst /\ lost' # Counted
      BY <1>4, <1>8, <1>10, <3>3, <3>4
    <3>6. ~first => Cur'.psn = (last_psn + 1 + (lost' - Counted)) % PsnMod
      <4>1. SUFFICES ASSUME ~first PROVE Cur'.psn = (last_psn + 1 + (lost' - Counted)) % PsnMod
        OBVIOUS
      <4> DEFINE x == last_psn + 1 + (lost - Counted)
      <4>2. Cur.psn = x % PsnMod
        BY <1>2, <1>8, <3>1, <4>1, Zenon DEF LastInv
      <4>3. x \in Int /\ x + 1 = last_psn + 1 + (lost' - Counted)
        BY <1>4, <3>3, <3>5, <4>1
      <4> HIDE DEF x
      <4>4. Cur'.psn = (Cur.psn + 1) % PsnMod /\ PsnMod \in Nat \ {0}
        BY <1>5, Sizes, Zenon DEF Succeeds
      <4>5. Cur'.psn = (x + 1) % PsnMod
        BY <4>2, <4>3, <4>4, ModSucc, Zenon
      <4>6. QED
        BY <4>3, <4>5, Zenon
    <3>7. (~first => /\ Line(1).lost - Counted \in 0..MaxBurst
                     /\ Line(1).psn = (last_psn + 1 + (Line(1).lost - Counted)) % PsnMod
                     /\ socket = <<>> => lost = Counted + burst)'
      <4>1. ~first => lost' = Counted + burst'
        BY <1>4, <1>10, <3>3, <3>5
      <4>2. QED
        BY <1>8, <3>1, <3>2, <3>5, <3>6, <4>1, Zenon
    <3>8. Cur.frame \in Nat /\ Cur'.frame \in Nat /\ Cur'.frame >= Cur.frame
      <4>1. Cur.frame \in Nat /\ Cur'.frame \in Nat
        BY <1>4, PacketFields, Zenon
      <4>2. QED
        BY <1>5, <4>1 DEF Succeeds
    <3>9. FillingInv'
      <4>1. (recvPc \notin {"signal", "sync", "memset"}) =>
               \A s \in Slots :
                 mem[receiving][s] \in ((ended.frame + 1)..Cur.frame) \cup
                     (IF frame_count = 0 THEN {Junk} ELSE {Missing})
        BY <1>2, <3>1, Zenon DEF FillingInv
      <4>2. (ended.frame + 1)..Cur.frame \subseteq (ended.frame + 1)..(Cur'.frame)
        BY <3>3, <3>8
      <4>3. QED
        BY <1>1, <3>1, <4>1, <4>2, Zenon DEF FillingInv
    <3>10. ExpectInv'
      <4>1. (ended.dropped <= packets_dropped)'
        BY <1>1, <1>2, Zenon DEF ExpectInv, psnVars
      <4>2. Cur'.frame > ended.frame
        <5>1. Cur.frame > ended.frame
          BY <1>2, <3>1, Zenon DEF ExpectInv
        <5>2. QED
          BY <3>3, <3>8, <5>1
      <4>3. (~first => Line(1).lost # Counted)'
        BY <1>8, <3>1, <3>2, <3>5, Zenon
      <4>4. Between' = Between /\ packets_dropped' = packets_dropped /\ ended' = ended
        BY <1>1, Zenon DEF Between, psnVars
      <4>5. ASSUME ~first', NEW f \in Nat, NEW s \in Slots, InARow(f, s) PROVE InARow(f, s)'
        BY <1>1, <4>3, <4>5, Zenon DEF InARow
      <4>6. QED
        BY <1>2, <3>1, <3>2, <4>1, <4>2, <4>3, <4>4, <4>5, Zenon DEF ExpectInv
    <3>11. QED
      BY <3>7, <3>9, <3>10, Zenon DEF LineInv, LastInv
  <2>5. ASSUME NEW i \in 1..Len(socket) PROVE Follows(Line(i)', Line(i + 1)')
    <3>1. Line(i)' = Line(i) /\ i \in Nat \ {0} /\ i + 1 \in Nat \ {0}
      BY <1>4, <2>1
    <3>2. CASE i # Len(socket)
      <4>1. i + 1 \in 1..Len(socket)
        BY <1>4, <3>2
      <4>2. QED
        BY <1>6, <2>1, <3>1, <4>1, Zenon
    <3>3. CASE i = Len(socket)
      <4>1. Line(i + 1) = Cur /\ Line(i + 1)' = Cur' /\ Line(i) = socket[Len(socket)]
        <5>1. i + 1 \in Nat /\ i + 1 = Len(socket) + 1
          BY <3>1, <3>3
        <5>2. QED
          BY <2>2, <3>3, <5>1, SocketLine, Zenon
      <4>2. socket # <<>>
        <5>1. Len(<<>>) = 0
          OBVIOUS
        <5>2. QED
          BY <3>3, <3>1, <5>1
      <4>3. lost = Line(i).lost + burst
        BY <1>2, <4>1, <4>2, Zenon DEF SocketInv
      <4>4. Line(i) \in Packet /\ Line(i).lost \in Nat
        BY <1>4, <3>1, PacketFields, Zenon
      <4>5. Cur'.lost = Cur.lost + 1 /\ Cur'.lost - Line(i).lost <= MaxBurst
        BY <1>4, <1>8, <1>10, <4>3, <4>4
      <4>6. Follows(Line(i), Cur)
        BY <1>6, <4>1, Zenon
      <4>7. Follows(Line(i), Cur')
        BY <1>4, <1>5, <4>4, <4>5, <4>6, FollowsLost, Zenon
      <4>8. QED
        BY <3>1, <4>1, <4>7, Zenon
    <3>4. QED
      BY <3>2, <3>3, Zenon
  <2>6. socket # <<>> => lost' = socket[Len(socket)].lost + burst'
    <3>1. SUFFICES ASSUME socket # <<>> PROVE lost' = socket[Len(socket)].lost + burst'
      OBVIOUS
    <3>2. Len(socket) \in Nat \ {0}
      BY <3>1, SocketLine, Zenon
    <3>3. socket[Len(socket)] \in Packet
      <4>1. Len(socket) \in 1..Len(socket)
        BY <3>2
      <4>2. QED
        BY <1>4, <3>2, <4>1, SocketLine, Zenon
    <3>4. socket[Len(socket)].lost \in Nat
      BY <3>3, PacketFields, Zenon
    <3>5. lost = socket[Len(socket)].lost + burst
      BY <1>2, <3>1, Zenon DEF SocketInv
    <3>6. lost' = lost + 1 /\ burst' = burst + 1 /\ lost \in Nat /\ burst \in Nat
      BY <1>4, <1>8, <1>10
    <3>7. QED
      BY <3>4, <3>5, <3>6
  <2>7. SocketInv'
    <3>1. (\A i \in 1..Len(socket) : Follows(Line(i), Line(i + 1)))'
      BY <1>10, <2>5 DEF Follows
    <3>2. QED
      BY <1>7, <1>10, <2>6, <3>1, Zenon DEF SocketInv
  <2>8. QED
    BY <1>3, <2>3, <2>4, <2>7, Zenon DEF LineInv, LossInv
<1>11. QED
  BY <1>9, <1>10, SendFacts, Zenon

\* Receiving a packet moves the line on by one.
LEMMA ReceiveFacts ==
    ASSUME TypeOK, TypeOK', SocketInv, socket # <<>>, socket' = Tail(socket), UNCHANGED txVars
    PROVE  /\ Head(socket) = Line(1) /\ Line(1) \in Packet /\ Line(2) \in Packet
           /\ Line(1)' = Line(2) /\ Follows(Line(1), Line(2))
           /\ Line(1).imm <=> Line(1).slot = Packets + 1
           /\ socket' = <<>> => lost' = Line(1).lost + burst'
           /\ SocketInv'
<1>1. socket \in Seq(Packet) /\ Len(socket) \in Nat \ {0} /\ Head(socket) = Line(1)
  BY SocketLine, Zenon DEF TypeOK
<1>2. /\ Len(socket') = Len(socket) - 1 /\ Len(socket') \in Nat
      /\ \A i \in 1..Len(socket') : socket'[i] = socket[i + 1]
  BY <1>1, TailFacts
<1>3. Cur' = Cur
  BY Zenon DEF Cur, txVars
<1>4. LineShape /\ LineShape'
  BY LineIsShaped, PTL
<1>5. ASSUME NEW i \in Nat \ {0} PROVE Line(i)' = Line(i + 1)
  <2>1. /\ i <= Len(socket') => Line(i)' = socket'[i]
        /\ i > Len(socket') => Line(i)' = Cur'
    BY <1>4 DEF LineShape
  <2>2. /\ i + 1 <= Len(socket) => Line(i + 1) = socket[i + 1]
        /\ i + 1 > Len(socket) => Line(i + 1) = Cur
    <3>1. i + 1 \in Nat \ {0}
      OBVIOUS
    <3>2. QED
      BY <1>4, <3>1, Zenon DEF LineShape
  <2>3. CASE i <= Len(socket')
    <3>1. i \in 1..Len(socket') /\ i + 1 <= Len(socket)
      BY <1>1, <1>2, <2>3
    <3>2. QED
      BY <1>2, <2>1, <2>2, <2>3, <3>1, Zenon
  <2>4. CASE i > Len(socket')
    <3>1. i + 1 > Len(socket)
      BY <1>1, <1>2, <2>4
    <3>2. QED
      BY <1>3, <2>1, <2>2, <2>4, <3>1, Zenon
  <2>5. QED
    BY <1>2, <2>3, <2>4
<1>6. \A i \in 1..Len(socket) : Follows(Line(i), Line(i + 1))
  BY Zenon DEF SocketInv
<1>7. 1 \in 1..Len(socket) /\ 1 \in Nat \ {0} /\ 1 + 1 = 2 /\ 2 \in Nat \ {0}
  BY <1>1
<1>8. Line(1)' = Line(2) /\ Follows(Line(1), Line(2))
  <2>1. Line(1)' = Line(1 + 1) /\ Follows(Line(1), Line(1 + 1))
    BY <1>5, <1>6, <1>7, Zenon
  <2>2. QED
    BY <1>7, <2>1, Zenon
<1>9. Line(1).imm <=> Line(1).slot = Packets + 1
  <2>1. Line(1) = socket[1]
    BY <1>7, SocketLine, Zenon
  <2>2. QED
    BY <1>7, <2>1, Zenon DEF SocketInv
<1>10. lost = socket[Len(socket)].lost + burst /\ UNCHANGED <<lost, burst>>
  BY Zenon DEF SocketInv, txVars
<1>11. socket' = <<>> => lost' = Line(1).lost + burst'
  <2>1. SUFFICES ASSUME socket' = <<>> PROVE lost' = Line(1).lost + burst'
    OBVIOUS
  <2>2. Len(<<>>) = 0
    OBVIOUS
  <2>3. Len(socket) = 1
    <3>1. Len(socket') = 0
      BY <2>1, <2>2, Zenon
    <3>2. Len(socket) \in Nat /\ Len(socket') = Len(socket) - 1
      BY <1>1, <1>2, Zenon
    <3>3. QED
      BY <3>1, <3>2
  <2>4. Line(1) = socket[1]
    BY <1>7, SocketLine, Zenon
  <2>5. QED
    BY <1>10, <2>3, <2>4, Zenon
<1>12. SocketInv'
  <2>1. ASSUME NEW i \in 1..Len(socket')
        PROVE  /\ socket'[i].imm <=> socket'[i].slot = Packets + 1
               /\ Follows(Line(i)', Line(i + 1)')
    <3>1. /\ i + 1 \in 1..Len(socket) /\ i \in Nat \ {0} /\ i + 1 \in Nat \ {0}
      BY <1>1, <1>2
    <3>2. socket'[i] = socket[i + 1]
      BY <1>2
    <3>3. socket[i + 1].imm <=> socket[i + 1].slot = Packets + 1
      BY <3>1, Zenon DEF SocketInv
    <3>4. Line(i)' = Line(i + 1) /\ Line(i + 1)' = Line((i + 1) + 1)
      BY <1>5, <3>1, Zenon
    <3>5. Follows(Line(i + 1), Line((i + 1) + 1))
      BY <1>6, <3>1, Zenon
    <3>6. QED
      BY <3>2, <3>3, <3>4, <3>5, Zenon
  <2>2. socket' # <<>> => lost' = socket'[Len(socket')].lost + burst'
    <3>1. SUFFICES ASSUME socket' # <<>> PROVE lost' = socket'[Len(socket')].lost + burst'
      OBVIOUS
    <3>2. socket' \in Seq(Packet)
      BY Zenon DEF TypeOK
    <3>3. Len(socket') # 0
      BY <3>1, <3>2
    <3>4. Len(socket') \in 1..Len(socket') /\ Len(socket') + 1 = Len(socket)
      BY <1>1, <1>2, <3>3
    <3>5. socket'[Len(socket')] = socket[Len(socket') + 1]
      BY <1>2, <3>4, Zenon
    <3>6. QED
      BY <1>10, <3>4, <3>5, Zenon
  <2>3. (\A i \in 1..Len(socket) : Follows(Line(i), Line(i + 1)))'
    <3>1. \A i \in 1..Len(socket') : Follows(Line(i)', Line(i + 1)')
      BY <2>1, Zenon
    <3>2. QED
      BY <3>1 DEF Follows
  <2>4. QED
    BY <2>1, <2>2, <2>3, Zenon DEF SocketInv
<1>13. Line(1) \in Packet /\ Line(2) \in Packet
  BY <1>7, LineTypes, Zenon
<1>14. QED
  BY <1>1, <1>8, <1>9, <1>11, <1>12, <1>13, Zenon

\* The packets counted as dropped are those that were lost.
LEMMA CountFacts ==
    ASSUME TypeOK, LossInv, NEW p \in Packet, p = Line(1), CountDropped(p)
    PROVE  /\ first' = FALSE /\ last_psn' = p.psn /\ Counted' = p.lost
           /\ packets_dropped' >= packets_dropped
           /\ ~first /\ packets_dropped' = packets_dropped => p.lost = Counted
           /\ packets_dropped \in Nat /\ packets_dropped' \in Nat
<1>1. first' = FALSE /\ last_psn' = p.psn
  BY Zenon DEF CountDropped
<1>2. /\ packets_dropped \in Nat /\ base \in Nat /\ last_psn \in Int /\ first \in BOOLEAN
      /\ p.lost \in Nat /\ Counted \in Nat /\ Counted = packets_dropped + base
  BY PacketFields, Sizes DEF TypeOK, Counted
<1>3. CASE first
  <2>1. packets_dropped' = packets_dropped /\ packets_dropped = 0 /\ base' = p.lost
    BY <1>3 DEF CountDropped, LossInv, StartInv
  <2>2. QED
    BY <1>1, <1>2, <1>3, <2>1 DEF Counted
<1>4. CASE ~first
  <2> DEFINE d == p.lost - Counted
             a == last_psn + 1
  <2>1. d \in 0..MaxBurst /\ p.psn = (a + d) % PsnMod
    BY <1>4, Zenon DEF LossInv, LastInv
  <2>2. packets_dropped' = packets_dropped + ((p.psn - a) % PsnMod) /\ base' = base
    BY <1>4, Zenon DEF CountDropped
  <2>3. d \in 0..(PsnMod - 1) /\ a \in Int /\ PsnMod \in Nat \ {0} /\ d \in Nat
    BY <1>2, <2>1, Sizes
  <2>4. Counted + d = p.lost
    BY <1>2
  <2> HIDE DEF d, a
  <2>5. (p.psn - a) % PsnMod = d
    BY <2>1, <2>3, ModAhead, Zenon
  <2>6. packets_dropped' = packets_dropped + d /\ base' = base
    BY <2>2, <2>5, Zenon
  <2>7. QED
    BY <1>1, <1>2, <2>3, <2>4, <2>6 DEF Counted
<1>5. QED
  BY <1>2, <1>3, <1>4, Zenon

\* The buffer that is being filled is not in ready_.
LEMMA FillingApart ==
    ASSUME TypeOK, PlacesInv, recvPc # "done", NEW b \in Buffers, In(b, ready)
    PROVE  b # receiving
  BY Zenon DEF PlacesInv, DistinctInv, Filling

\* What is kept of the line once a packet is received and counted.
LEMMA ReceiveKeeps ==
    ASSUME TypeOK, TypeOK', LossInv, socket # <<>>, socket' = Tail(socket), UNCHANGED txVars,
           CountDropped(Head(socket))
    PROVE  /\ SocketInv' /\ LastInv'
           /\ Line(1) \in Packet /\ Line(2) \in Packet /\ Follows(Line(1), Line(2))
           /\ Line(1)' = Line(2) /\ Head(socket) = Line(1)
           /\ Line(1).imm <=> Line(1).slot = Packets + 1
           /\ first' = FALSE /\ Counted' = Line(1).lost
           /\ packets_dropped' >= packets_dropped
           /\ ~first /\ packets_dropped' = packets_dropped => Line(1).lost = Counted
           /\ packets_dropped \in Nat /\ packets_dropped' \in Nat
           /\ ended.dropped \in Nat /\ ended.frame \in Nat /\ ended.dropped <= packets_dropped
           /\ Line(1).frame \in Nat /\ Line(2).frame \in Nat
           /\ Line(1).frame > ended.frame /\ Line(2).frame >= Line(1).frame
<1>1. /\ Line(1) \in Packet /\ Line(2) \in Packet /\ Follows(Line(1), Line(2))
      /\ Line(1)' = Line(2) /\ Head(socket) = Line(1)
      /\ Line(1).imm <=> Line(1).slot = Packets + 1
      /\ socket' = <<>> => lost' = Line(1).lost + burst'
      /\ SocketInv'
  BY ReceiveFacts, Zenon DEF LossInv
<1>2. /\ first' = FALSE /\ last_psn' = Line(1).psn /\ Counted' = Line(1).lost
      /\ packets_dropped' >= packets_dropped
      /\ ~first /\ packets_dropped' = packets_dropped => Line(1).lost = Counted
      /\ packets_dropped \in Nat /\ packets_dropped' \in Nat
  <2>1. CountDropped(Line(1))
    BY <1>1, Zenon
  <2>2. QED
    BY <1>1, <2>1, CountFacts, Zenon
<1>3. LastInv'
  <2>1. /\ Line(2).lost - Line(1).lost \in 0..MaxBurst
        /\ Line(2).psn = (Line(1).psn + 1 + (Line(2).lost - Line(1).lost)) % PsnMod
    BY <1>1, Zenon DEF Follows
  <2>2. QED
    BY <1>1, <1>2, <2>1, Zenon DEF LastInv
<1>4. /\ ended.dropped \in Nat /\ ended.frame \in Nat /\ ended.dropped <= packets_dropped
      /\ Line(1).frame > ended.frame
  BY DEF TypeOK, LossInv, ExpectInv
<1>5. Line(1).frame \in Nat /\ Line(2).frame \in Nat /\ Line(2).frame >= Line(1).frame
  BY <1>1, PacketFields, FollowsFrame, Zenon
<1>6. QED
  BY <1>1, <1>2, <1>3, <1>4, <1>5, Zenon

\* A content packet extends the row of packets, or starts one.
LEMMA WriteKeeps ==
    ASSUME TypeOK, TypeOK', PlacesInv, LossInv, RecvWrite
    PROVE  LossInv'
<1>1. /\ recvPc = "blocked" /\ recvPc' = "recv" /\ socket # <<>> /\ ~Head(socket).imm
      /\ socket' = Tail(socket) /\ UNCHANGED txVars /\ CountDropped(Head(socket))
      /\ frame_bytes_received' = frame_bytes_received + 1
      /\ mem' = [mem EXCEPT ![receiving][Head(socket).slot] = Head(socket).frame]
      /\ UNCHANGED <<receiving, meta, frame_count, ended, ready>>
  BY Zenon DEF RecvWrite, recvUnchanged, queueVars
<1>2. /\ SocketInv' /\ LastInv'
      /\ Line(1) \in Packet /\ Line(2) \in Packet /\ Follows(Line(1), Line(2))
      /\ Line(1)' = Line(2) /\ Head(socket) = Line(1)
      /\ Line(1).imm <=> Line(1).slot = Packets + 1
      /\ first' = FALSE /\ Counted' = Line(1).lost
      /\ packets_dropped' >= packets_dropped
      /\ ~first /\ packets_dropped' = packets_dropped => Line(1).lost = Counted
      /\ packets_dropped \in Nat /\ packets_dropped' \in Nat
      /\ ended.dropped \in Nat /\ ended.frame \in Nat /\ ended.dropped <= packets_dropped
      /\ Line(1).frame \in Nat /\ Line(2).frame \in Nat
      /\ Line(1).frame > ended.frame /\ Line(2).frame >= Line(1).frame
  BY <1>1, ReceiveKeeps, Zenon
<1>3. StartInv /\ ExpectInv /\ FillingInv /\ EndedInv
  BY Zenon DEF LossInv
<1> DEFINE z == Line(1).slot
           g == Line(1).frame
<1>4. z \in Slots /\ z \in Nat /\ z >= 1 /\ z # Packets + 1 /\ Packets \in Nat
  <2>1. Line(1).slot \in 1..(Packets + 1) /\ Line(1).slot # Packets + 1 /\ Packets \in Nat
    BY <1>1, <1>2, PacketFields, Sizes, Zenon
  <2>2. QED
    BY <2>1 DEF Slots
<1>5. /\ mem \in [Buffers -> [Slots -> Int]] /\ receiving \in Buffers
      /\ frame_bytes_received \in Nat /\ frame_count \in Nat
  BY Zenon DEF TypeOK
<1>6. /\ mem'[receiving][z] = g
      /\ \A s \in Slots : s # z => mem'[receiving][s] = mem[receiving][s]
      /\ \A b \in Buffers : b # receiving => mem'[b] = mem[b]
  <2>1. mem' = [mem EXCEPT ![receiving][z] = g]
    BY <1>1, <1>2, Zenon
  <2> HIDE DEF z, g
  <2>2. QED
    BY <1>4, <1>5, <2>1
<1>7. StartInv'
  BY <1>1, <1>2 DEF StartInv
<1>8. EndedInv'
  <2>1. SUFFICES ASSUME NEW b \in Buffers, In(b, ready) PROVE Intact(b)' /\ Clean(b)'
    <3>1. ready' = ready /\ recvPc' \notin {"signal", "sync"}
      BY <1>1
    <3>2. QED
      BY <3>1, Zenon DEF EndedInv, In
  <2>2. mem'[b] = mem[b]
    <3>1. recvPc # "done"
      BY <1>1
    <3>2. QED
      BY <1>6, <2>1, <3>1, FillingApart, Zenon
  <2>3. Intact(b) /\ Clean(b)
    BY <1>3, <2>1, Zenon DEF EndedInv
  <2>4. QED
    BY <1>1, <2>2, <2>3, Zenon DEF Intact, Clean
<1>9. FillingInv'
  <2>1. SUFFICES ASSUME NEW s \in Slots
                 PROVE  mem'[receiving][s] \in ((ended.frame + 1)..Line(2).frame) \cup
                            (IF frame_count = 0 THEN {Junk} ELSE {Missing})
    BY <1>1, <1>2, Zenon DEF FillingInv
  <2>2. CASE s = z
    <3>1. g \in (ended.frame + 1)..Line(2).frame
      BY <1>2
    <3>2. QED
      BY <1>6, <2>2, <3>1, Zenon
  <2>3. CASE s # z
    <3>1. mem[receiving][s] \in ((ended.frame + 1)..Line(1).frame) \cup
                            (IF frame_count = 0 THEN {Junk} ELSE {Missing})
      <4>1. recvPc \notin {"signal", "sync", "memset"}
        BY <1>1
      <4>2. QED
        BY <1>3, <4>1, Zenon DEF FillingInv
    <3>2. (ended.frame + 1)..Line(1).frame \subseteq (ended.frame + 1)..Line(2).frame
      BY <1>2
    <3>3. QED
      BY <1>6, <2>3, <3>1, <3>2, Zenon
  <2>4. QED
    BY <2>2, <2>3, Zenon
<1>10. Line(2).lost = Line(1).lost => Line(2).frame = g /\ Line(2).slot = z + 1
  BY <1>2, <1>4, Zenon DEF Follows
<1>11. ASSUME packets_dropped' = ended.dropped
       PROVE  \E f \in Nat, s \in Slots : InARow(f, s)'
  <2>1. packets_dropped' = packets_dropped /\ packets_dropped = ended.dropped
    BY <1>2, <1>11
  <2>a. PICK f1 \in Nat, s1 \in Slots : f1 = g /\ s1 = z
    BY <1>2, <1>4, Zenon
  <2>2. CASE frame_bytes_received = 0
    <3>1. frame_bytes_received' = 1
      BY <1>1, <2>2
    <3>2. \A k \in (z - 1 + 1)..z : k = z
      BY <1>4
    <3>3. 1 <= z
      BY <1>4
    <3>4. InARow(f1, s1)'
      <4>1. (\A k \in (z - frame_bytes_received' + 1)..z : mem'[receiving'][k] = g)
        BY <1>1, <1>6, <3>1, <3>2, Zenon
      <4>2. frame_bytes_received' <= z
        BY <3>1, <3>3, Zenon
      <4>3. (Line(1)'.lost = Counted') => Line(1)'.frame = g /\ Line(1)'.slot = z + 1
        BY <1>2, <1>10, Zenon
      <4>4. QED
        BY <2>a, <4>1, <4>2, <4>3, Zenon DEF InARow
    <3>5. QED
      BY <3>4, Zenon
  <2>3. CASE frame_bytes_received # 0
    <3>1. ~first
      BY <1>3, <2>3, Zenon DEF StartInv
    <3>2. ~Between
      BY <1>1, <2>3 DEF Between
    <3>3. PICK f \in Nat, s \in Slots : InARow(f, s)
      BY <1>3, <2>1, <3>1, <3>2, Zenon DEF ExpectInv
    <3>4. g = f /\ z = s + 1
      BY <1>2, <2>1, <3>1, <3>3, Zenon DEF InARow
    <3>5. s \in Nat
      BY <1>4 DEF Slots
    <3>6. /\ frame_bytes_received <= s
          /\ \A k \in (s - frame_bytes_received + 1)..s : mem[receiving][k] = f
      BY <3>3, Zenon DEF InARow
    <3>7. frame_bytes_received' <= z
      BY <1>1, <1>5, <3>4, <3>5, <3>6
    <3>8. ASSUME NEW k \in (z - frame_bytes_received' + 1)..z PROVE mem'[receiving'][k] = g
      <4>1. k \in Int /\ k \in Slots /\ (k # z => k \in (s - frame_bytes_received + 1)..s)
        BY <1>1, <1>4, <1>5, <3>4, <3>5, <3>6 DEF Slots
      <4>2. QED
        BY <1>1, <1>6, <3>4, <3>6, <4>1, Zenon
    <3>9. (Line(1)'.lost = Counted') => Line(1)'.frame = g /\ Line(1)'.slot = z + 1
      BY <1>2, <1>10, Zenon
    <3>10. InARow(f1, s1)'
      BY <2>a, <3>7, <3>8, <3>9, Zenon DEF InARow
    <3>11. QED
      BY <3>10, Zenon
  <2>4. QED
    BY <2>2, <2>3, Zenon
<1>12. ExpectInv'
  <2>1. ended.dropped <= packets_dropped' /\ Line(2).frame > ended.frame
    BY <1>2
  <2>2. ~Between'
    BY <1>1, <1>5 DEF Between
  <2>3. QED
    BY <1>1, <1>2, <1>11, <2>1, <2>2, Zenon DEF ExpectInv
<1>13. QED
  BY <1>2, <1>7, <1>8, <1>9, <1>12, Zenon DEF LossInv

\* The immediate packet ends a frame: what it shows is its own or missing.
LEMMA ImmediateKeeps ==
    ASSUME TypeOK, TypeOK', PlacesInv, LossInv, RecvImmediate
    PROVE  LossInv'
<1>1. /\ recvPc = "blocked" /\ recvPc' = "signal" /\ socket # <<>> /\ Head(socket).imm
      /\ socket' = Tail(socket) /\ UNCHANGED txVars /\ CountDropped(Head(socket))
      /\ frame_count' = frame_count + 1
      /\ meta' = [meta EXCEPT ![receiving] =
                    [received_frame_number |-> frame_count',
                     frame_bytes_received |-> frame_bytes_received,
                     packets_dropped |-> packets_dropped',
                     frame |-> Head(socket).frame, after |-> ended.frame,
                     before |-> ended.dropped]]
      /\ ended' = [frame |-> Head(socket).frame, dropped |-> packets_dropped']
      /\ UNCHANGED <<receiving, mem, frame_bytes_received, ready>>
  BY Zenon DEF RecvImmediate, recvUnchanged, queueVars
<1>2. /\ SocketInv' /\ LastInv'
      /\ Line(1) \in Packet /\ Line(2) \in Packet /\ Follows(Line(1), Line(2))
      /\ Line(1)' = Line(2) /\ Head(socket) = Line(1)
      /\ Line(1).imm <=> Line(1).slot = Packets + 1
      /\ first' = FALSE /\ Counted' = Line(1).lost
      /\ packets_dropped' >= packets_dropped
      /\ ~first /\ packets_dropped' = packets_dropped => Line(1).lost = Counted
      /\ packets_dropped \in Nat /\ packets_dropped' \in Nat
      /\ ended.dropped \in Nat /\ ended.frame \in Nat /\ ended.dropped <= packets_dropped
      /\ Line(1).frame \in Nat /\ Line(2).frame \in Nat
      /\ Line(1).frame > ended.frame /\ Line(2).frame >= Line(1).frame
  BY <1>1, ReceiveKeeps, Zenon
<1>3. StartInv /\ ExpectInv /\ FillingInv /\ EndedInv
  BY Zenon DEF LossInv
<1>4. /\ mem \in [Buffers -> [Slots -> Int]] /\ receiving \in Buffers
      /\ meta \in [Buffers -> Metadata]
      /\ frame_bytes_received \in Nat /\ frame_count \in Nat
      /\ Packets \in Nat \ {0}
  BY Sizes, Zenon DEF TypeOK
<1>5. Line(1).slot = Packets + 1
  BY <1>1, <1>2, Zenon
<1>6. StartInv'
  <2>1. frame_count' >= 1
    BY <1>1, <1>4
  <2>2. QED
    BY <1>2, <2>1, Zenon DEF StartInv
<1>7. /\ ended'.frame = Line(1).frame /\ ended'.dropped = packets_dropped'
  BY <1>1, <1>2
<1>8. ExpectInv'
  <2>1. ended'.dropped <= packets_dropped'
    BY <1>2, <1>7
  <2>2. Line(2).frame > Line(1).frame
    BY <1>2, <1>5, FollowsFrame, Zenon
  <2>3. Between'
    BY <1>1 DEF Between
  <2>4. Line(2).lost = Line(1).lost => Line(2).frame = Line(1).frame + 1 /\ Line(2).slot = 1
    BY <1>2, <1>5, Zenon DEF Follows
  <2>5. QED
    BY <1>2, <1>7, <2>1, <2>2, <2>3, <2>4, Zenon DEF ExpectInv
<1>9. FillingInv'
  BY <1>1 DEF FillingInv
<1>10. /\ \A b \in Buffers : b # receiving => meta'[b] = meta[b]
       /\ meta'[receiving].received_frame_number = frame_count + 1
       /\ meta'[receiving].frame_bytes_received = frame_bytes_received
       /\ meta'[receiving].packets_dropped = packets_dropped'
       /\ meta'[receiving].frame = Line(1).frame
       /\ meta'[receiving].after = ended.frame
       /\ meta'[receiving].before = ended.dropped
  <2> DEFINE m == [received_frame_number |-> frame_count',
                   frame_bytes_received |-> frame_bytes_received,
                   packets_dropped |-> packets_dropped',
                   frame |-> Head(socket).frame, after |-> ended.frame,
                   before |-> ended.dropped]
  <2>1. /\ m.received_frame_number = frame_count + 1
        /\ m.frame_bytes_received = frame_bytes_received
        /\ m.packets_dropped = packets_dropped' /\ m.frame = Line(1).frame
        /\ m.after = ended.frame /\ m.before = ended.dropped
    BY <1>1, <1>2
  <2>2. meta' = [meta EXCEPT ![receiving] = m]
    BY <1>1, Zenon
  <2> HIDE DEF m
  <2>3. meta'[receiving] = m /\ \A b \in Buffers : b # receiving => meta'[b] = meta[b]
    BY <1>4, <2>2
  <2>4. QED
    BY <2>1, <2>3, Zenon
<1>11. ASSUME frame_bytes_received = Packets, packets_dropped' = ended.dropped, NEW k \in Slots
       PROVE  mem[receiving][k] = Line(1).frame
  <2>1. packets_dropped' = packets_dropped /\ packets_dropped = ended.dropped
    BY <1>2, <1>11
  <2>2. frame_bytes_received # 0
    BY <1>4, <1>11
  <2>3. ~first
    BY <1>3, <2>2, Zenon DEF StartInv
  <2>4. ~Between
    BY <1>1, <2>2 DEF Between
  <2>5. PICK f \in Nat, s \in Slots : InARow(f, s)
    BY <1>3, <2>1, <2>3, <2>4, Zenon DEF ExpectInv
  <2>6. Line(1).frame = f
    BY <1>2, <2>1, <2>3, <2>5, Zenon DEF InARow
  <2>7. /\ frame_bytes_received <= s
        /\ \A j \in (s - frame_bytes_received + 1)..s : mem[receiving][j] = f
    BY <2>5, Zenon DEF InARow
  <2>8. k \in (s - frame_bytes_received + 1)..s
    BY <1>4, <1>11, <2>7 DEF Slots
  <2>9. QED
    BY <2>6, <2>7, <2>8, Zenon
<1>12. \A s \in Slots : mem[receiving][s] \in ((ended.frame + 1)..Line(1).frame) \cup
                            (IF frame_count = 0 THEN {Junk} ELSE {Missing})
  <2>1. recvPc \notin {"signal", "sync", "memset"}
    BY <1>1
  <2>2. QED
    BY <1>3, <2>1, Zenon DEF FillingInv
<1>13. Intact(receiving)' /\ Clean(receiving)'
  <2>1. Intact(receiving)'
    BY <1>1, <1>10, <1>11, Zenon DEF Intact
  <2>2. frame_count + 1 = 1 <=> frame_count = 0
    BY <1>4
  <2>3. Clean(receiving)'
    BY <1>1, <1>10, <1>12, <2>2, Zenon DEF Clean
  <2>4. QED
    BY <2>1, <2>3, Zenon
<1>14. ASSUME NEW b \in Buffers, In(b, ready) PROVE Intact(b)' /\ Clean(b)'
  <2>1. recvPc # "done"
    BY <1>1
  <2>2. meta'[b] = meta[b]
    BY <1>10, <1>14, <2>1, FillingApart, Zenon
  <2>3. Intact(b) /\ Clean(b)
    BY <1>3, <1>14, Zenon DEF EndedInv
  <2>4. QED
    BY <1>1, <2>2, <2>3, Zenon DEF Intact, Clean
<1>15. EndedInv'
  <2>1. SUFFICES ASSUME NEW b \in Buffers, In(b, ready) \/ b = receiving
                 PROVE  Intact(b)' /\ Clean(b)'
    BY <1>1, Zenon DEF EndedInv, In
  <2>2. CASE b = receiving
    <3>1. receiving' = b
      BY <1>1, <2>2, Zenon
    <3>2. QED
      BY <1>13, <3>1, Zenon DEF Intact, Clean
  <2>3. QED
    BY <1>14, <2>1, <2>2, Zenon
<1>16. QED
  BY <1>2, <1>6, <1>8, <1>9, <1>15, Zenon DEF LossInv

\* Steps that neither send nor receive and at most take frames from ready_.
Quiet ==
    /\ UNCHANGED <<txVars, socket, receiving, mem, meta, frame_bytes_received, frame_count,
                   psnVars, ended>>
    /\ \A b \in Buffers : In(b, ready)' => In(b, ready)
    /\ recvPc' \in {"signal", "sync", "memset"} <=> recvPc \in {"signal", "sync", "memset"}
    /\ recvPc' \in {"signal", "sync"} => recvPc \in {"signal", "sync"}

LEMMA QuietKeeps ==
    ASSUME LossInv, Quiet
    PROVE  LossInv'
<1>1. SocketInv /\ StartInv /\ LastInv /\ ExpectInv /\ FillingInv /\ EndedInv
  BY Zenon DEF LossInv
<1>2. /\ UNCHANGED <<psn, sending, lost, burst, socket, receiving, mem, meta, frame_bytes_received,
                     frame_count, packets_dropped, last_psn, first, base, ended>>
      /\ \A b \in Buffers : In(b, ready)' => In(b, ready)
      /\ recvPc' \in {"signal", "sync", "memset"} <=> recvPc \in {"signal", "sync", "memset"}
      /\ recvPc' \in {"signal", "sync"} => recvPc \in {"signal", "sync"}
  BY Zenon DEF Quiet, txVars, psnVars
<1>3. Counted' = Counted /\ Between' = Between
  BY <1>2, Zenon DEF Counted, Between
<1>4. \A i : Line(i)' = Line(i)
  BY <1>2 DEF Line, Cur
<1>5. \A f, s : InARow(f, s)' = InARow(f, s)
  BY <1>2, <1>3, <1>4 DEF InARow
<1>6. SocketInv'
  BY <1>1, <1>2 DEF SocketInv, Follows, Line, Cur
<1>7. StartInv' /\ LastInv'
  BY <1>1, <1>2, <1>3, <1>4, Zenon DEF StartInv, LastInv
<1>8. ExpectInv'
  BY <1>1, <1>2, <1>3, <1>4, <1>5, Zenon DEF ExpectInv
<1>9. FillingInv'
  BY <1>1, <1>2, <1>4, Zenon DEF FillingInv
<1>10. EndedInv'
  BY <1>1, <1>2, Zenon DEF EndedInv, Intact, Clean
<1>11. QED
  BY <1>6, <1>7, <1>8, <1>9, <1>10, Zenon DEF LossInv

\* The received frame goes to ready_ as it is.
LEMMA PushKeeps ==
    ASSUME TypeOK, LossInv, SignalPush
    PROVE  LossInv'
<1>1. /\ recvPc = "sync" /\ recvPc' = "memset" /\ ready' = Append(ready, receiving)
      /\ receiving \in Buffers
      /\ UNCHANGED <<psn, sending, lost, burst, socket, mem, meta, frame_bytes_received,
                     frame_count, packets_dropped, last_psn, first, base, ended>>
  BY Zenon DEF SignalPush, recvUnchanged, txVars, psnVars, TypeOK
<1>2. SocketInv /\ StartInv /\ LastInv /\ ExpectInv /\ FillingInv /\ EndedInv
  BY Zenon DEF LossInv
<1>3. Counted' = Counted /\ Between /\ Between'
  BY <1>1 DEF Counted, Between
<1>4. \A i : Line(i)' = Line(i)
  BY <1>1 DEF Line, Cur
<1>5. SocketInv'
  BY <1>1, <1>2 DEF SocketInv, Follows, Line, Cur
<1>6. StartInv' /\ LastInv'
  <2>1. recvPc \in {"signal", "sync", "memset"}
    BY <1>1
  <2>2. QED
    BY <1>1, <1>2, <1>3, <1>4, <2>1, Zenon DEF StartInv, LastInv
<1>7. ExpectInv'
  BY <1>1, <1>2, <1>3, <1>4, Zenon DEF ExpectInv
<1>8. FillingInv'
  BY <1>1 DEF FillingInv
<1>9. EndedInv'
  <2>1. \A b : In(b, Append(ready, receiving)) <=> b = receiving \/ In(b, ready)
    <3>1. Pushed(ready, Append(ready, receiving), receiving) /\ Len(ready) \in Nat
      BY <1>1, QueueFacts, Zenon
    <3>2. QED
      BY <3>1, PushFacts, Zenon
  <2>2. \A b : In(b, ready)' => b = receiving \/ In(b, ready)
    BY <1>1, <2>1, Zenon DEF In
  <2>3. recvPc \in {"signal", "sync"} /\ recvPc' \notin {"signal", "sync"}
    BY <1>1
  <2>4. \A b \in Buffers : Intact(b) /\ Clean(b) => Intact(b)' /\ Clean(b)'
    BY <1>1, Zenon DEF Intact, Clean
  <2>5. QED
    BY <1>2, <2>2, <2>3, <2>4, Zenon DEF EndedInv
<1>10. QED
  BY <1>5, <1>6, <1>7, <1>8, <1>9, Zenon DEF LossInv

\* The buffer that is filled next shows that its packets are missing.
LEMMA MemsetKeeps ==
    ASSUME TypeOK, PlacesInv, LossInv, RecvMemset
    PROVE  LossInv'
<1>1. /\ recvPc = "memset" /\ recvPc' = "recv" /\ frame_bytes_received' = 0
      /\ mem' = [mem EXCEPT ![receiving] = [s \in Slots |-> Missing]]
      /\ UNCHANGED <<psn, sending, lost, burst, socket, receiving, meta, ready,
                     frame_count, packets_dropped, last_psn, first, base, ended>>
  BY Zenon DEF RecvMemset, recvUnchanged, txVars, psnVars, queueVars
<1>2. SocketInv /\ StartInv /\ LastInv /\ ExpectInv /\ FillingInv /\ EndedInv
  BY Zenon DEF LossInv
<1>3. Counted' = Counted /\ Between /\ Between'
  BY <1>1 DEF Counted, Between
<1>4. \A i : Line(i)' = Line(i)
  BY <1>1 DEF Line, Cur
<1>5. SocketInv'
  BY <1>1, <1>2 DEF SocketInv, Follows, Line, Cur
<1>6. recvPc \in {"signal", "sync", "memset"} /\ recvPc' \notin {"signal", "sync", "memset"}
      /\ recvPc' \notin {"signal", "sync"} /\ recvPc # "done"
  BY <1>1
<1>7. ~first /\ frame_count >= 1
  BY <1>2, <1>6, Zenon DEF StartInv
<1>8. StartInv' /\ LastInv'
  BY <1>1, <1>2, <1>3, <1>4, <1>6, <1>7, Zenon DEF StartInv, LastInv
<1>9. ExpectInv'
  BY <1>1, <1>2, <1>3, <1>4, Zenon DEF ExpectInv
<1>10. mem \in [Buffers -> [Slots -> Int]] /\ receiving \in Buffers /\ frame_count \in Nat
  BY Zenon DEF TypeOK
<1>11. FillingInv'
  <2>1. frame_count' # 0
    BY <1>1, <1>7, <1>10
  <2>2. \A s \in Slots : mem'[receiving'][s] = Missing
    BY <1>1, <1>10
  <2>3. QED
    BY <2>1, <2>2, Zenon DEF FillingInv
<1>12. EndedInv'
  <2>1. SUFFICES ASSUME NEW b \in Buffers, In(b, ready) PROVE Intact(b)' /\ Clean(b)'
    BY <1>1, <1>6, Zenon DEF EndedInv, In
  <2>2. b # receiving
    BY <1>6, <2>1, FillingApart, Zenon
  <2>3. mem'[b] = mem[b]
    BY <1>1, <1>10, <2>2
  <2>4. Intact(b) /\ Clean(b)
    BY <1>2, <2>1, Zenon DEF EndedInv
  <2>5. QED
    BY <1>1, <2>3, <2>4, Zenon DEF Intact, Clean
<1>13. QED
  BY <1>5, <1>8, <1>9, <1>11, <1>12, Zenon DEF LossInv

\* The other steps are quiet.
LEMMA QuietSteps ==
    ASSUME TypeOK, PlacesInv, Idle \/ Take \/ CopyDone \/ SignalTake \/ RecvExit
    PROVE  Quiet
<1>1. CASE Idle \/ CopyDone
  <2>1. /\ UNCHANGED <<txVars, socket, bufferVars, frame_bytes_received, frame_count, psnVars,
                       ended, ready>>
        /\ \/ recvPc' = recvPc
           \/ recvPc \in {"recv", "blocked"} /\ recvPc' \in {"recv", "blocked", "exit"}
    BY <1>1, Zenon DEF Idle, CopyDone, opUnchanged
  <2>2. /\ recvPc' \in {"signal", "sync", "memset"} <=> recvPc \in {"signal", "sync", "memset"}
        /\ recvPc' \in {"signal", "sync"} => recvPc \in {"signal", "sync"}
    BY <2>1
  <2>3. \A b \in Buffers : In(b, ready)' => In(b, ready)
    BY <2>1, Zenon DEF In
  <2>4. QED
    BY <2>1, <2>2, <2>3, Zenon DEF Quiet, bufferVars
<1>2. ASSUME ready # <<>>, ready' = Tail(ready)
      PROVE  \A b \in Buffers : In(b, ready)' => In(b, ready)
  <2>1. Len(ready) \in Nat \ {0} /\ Popped(ready, Tail(ready))
    BY <1>2, QueueFacts, Zenon
  <2>2. Len(Tail(ready)) \in Nat
    BY <2>1 DEF Popped
  <2>3. \A b : In(b, Tail(ready)) => In(b, ready)
    BY <2>1, <2>2, PopFacts, Zenon
  <2>4. QED
    BY <1>2, <2>3, Zenon DEF In
<1>3. CASE Take
  <2>1. /\ UNCHANGED <<txVars, socket, bufferVars, frame_bytes_received, frame_count, psnVars,
                       ended, recvPc>>
        /\ ready # <<>> /\ ready' = Tail(ready)
    BY <1>3, Zenon DEF Take, GetTake, WaitTake, TakeFrame, opUnchanged
  <2>2. QED
    BY <1>2, <2>1, Zenon DEF Quiet, bufferVars
<1>4. CASE SignalTake
  <2>1. /\ UNCHANGED <<txVars, socket, receiving, mem, meta, frame_bytes_received, frame_count,
                       psnVars, ended>>
        /\ recvPc = "signal" /\ recvPc' = "sync"
    BY <1>4, Zenon DEF SignalTake, recvUnchanged
  <2>2. /\ recvPc' \in {"signal", "sync", "memset"} <=> recvPc \in {"signal", "sync", "memset"}
        /\ recvPc' \in {"signal", "sync"} => recvPc \in {"signal", "sync"}
    BY <2>1
  <2>3. ready' = ready \/ (ready # <<>> /\ ready' = Tail(ready))
    BY <1>4, TakeBuffer, Zenon
  <2>4. \A b \in Buffers : In(b, ready)' => In(b, ready)
    BY <1>2, <2>3, Zenon DEF In
  <2>5. QED
    BY <2>1, <2>2, <2>4, Zenon DEF Quiet
<1>5. CASE RecvExit
  <2>1. /\ UNCHANGED <<txVars, socket, bufferVars, frame_bytes_received, frame_count,
                       psnVars, ended>>
        /\ recvPc = "exit" /\ recvPc' = "done" /\ ready' = <<>>
    BY <1>5, Zenon DEF RecvExit, recvUnchanged
  <2>2. /\ recvPc' \in {"signal", "sync", "memset"} <=> recvPc \in {"signal", "sync", "memset"}
        /\ recvPc' \in {"signal", "sync"} => recvPc \in {"signal", "sync"}
    BY <2>1
  <2>3. \A b : ~In(b, <<>>)
    BY DEF In
  <2>4. \A b \in Buffers : In(b, ready)' => In(b, ready)
    BY <2>1, <2>3, Zenon DEF In
  <2>5. QED
    BY <2>1, <2>2, <2>4, Zenon DEF Quiet, bufferVars
<1>6. QED
  BY <1>1, <1>3, <1>4, <1>5, Zenon

\* The invariant about losses, on top of the one about buffers.
THEOREM LossInvariant == SafetySpec => [](BuffersInv /\ LossInv)
<1>1. Init => LossInv
  <2>1. SUFFICES ASSUME Init PROVE LossInv
    OBVIOUS
  <2>2. /\ Len(socket) = 0 /\ socket = <<>> /\ first = TRUE /\ recvPc = "recv" /\ ready = <<>>
        /\ Len(ready) = 0
    BY <2>1 DEF Init
  <2>3. Line(1) = Cur /\ Cur.frame = 1
    BY <2>1, <2>2 DEF Line, Cur, Init
  <2>4. SocketInv
    BY <2>2 DEF SocketInv
  <2>5. StartInv /\ LastInv
    BY <2>1, <2>2 DEF StartInv, LastInv, Init
  <2>6. ExpectInv
    BY <2>1, <2>2, <2>3 DEF ExpectInv, Init
  <2>7. FillingInv
    BY <2>1, Sizes DEF FillingInv, Init, Junk
  <2>8. EndedInv
    BY <2>2 DEF EndedInv, In
  <2>9. QED
    BY <2>4, <2>5, <2>6, <2>7, <2>8, Zenon DEF LossInv
<1>2. LossInv /\ BuffersInv /\ BuffersInv' /\ [Next]_vars => LossInv'
  <2>1. SUFFICES ASSUME LossInv, TypeOK, PlacesInv, TypeOK', [Next]_vars PROVE LossInv'
    BY Zenon DEF BuffersInv
  <2>2. QED
    BY <2>1, StepCases, SendKeeps, WriteKeeps, ImmediateKeeps, QuietSteps, QuietKeeps, PushKeeps,
       MemsetKeeps, Zenon
<1>3. QED
  BY <1>1, <1>2, BuffersInvariant, PTL DEF SafetySpec

\* What a frame shows is its own or recognisable as missing, and
\* packets_dropped counts exactly the packets that were lost.
THEOREM LossesAreVisible == SafetySpec => []LossesVisible
<1>1. BuffersInv /\ LossInv => LossesVisible
  <2>1. SUFFICES ASSUME TypeOK, LossInv PROVE LossesVisible
    BY Zenon DEF BuffersInv
  <2>2. ready \in Seq(Buffers)
    BY <2>1, Zenon DEF TypeOK
  <2>3. ASSUME NEW i \in 1..Len(ready) PROVE Intact(ready[i]) /\ Clean(ready[i])
    <3>1. ready[i] \in Buffers /\ In(ready[i], ready)
      BY <2>2 DEF In
    <3>2. QED
      BY <2>1, <3>1, Zenon DEF LossInv, EndedInv
  <2>4. CompleteMeansIntact
    BY <2>3, Zenon DEF CompleteMeansIntact, Intact
  <2>5. NoStaleBytes
    BY <2>3, Zenon DEF NoStaleBytes, Clean
  <2>6. DroppedExact
    <3>1. SUFFICES ASSUME ~first, burst = 0, socket = <<>> PROVE packets_dropped + base = lost
      BY DEF DroppedExact
    <3>2. lost = Counted + burst
      BY <2>1, <3>1, Zenon DEF LossInv, LastInv
    <3>3. packets_dropped \in Nat /\ base \in Nat
      BY <2>1, Zenon DEF TypeOK
    <3>4. QED
      BY <3>1, <3>2, <3>3 DEF Counted
  <2>7. QED
    BY <2>4, <2>5, <2>6, Zenon DEF LossesVisible
<1>2. QED
  BY <1>1, LossInvariant, PTL

-----------------------------------------------------------------------------
(* The receiver and the operator implement FrameStream, up to fairness.    *)

Num(b) == meta[b].received_frame_number

\* Frames wait in the order of their numbers and have not been delivered; a
\* buffer in available_ holds a frame that has been, or none.
OrderInv ==
    /\ \A i \in 1..Len(ready) : out < Num(ready[i]) /\ Num(ready[i]) <= frame_count
    /\ \A i, j \in 1..Len(ready) : i < j => Num(ready[i]) < Num(ready[j])
    /\ \A i \in 1..Len(available) : Num(available[i]) <= out
    /\ out <= frame_count
    /\ recvPc \in {"signal", "sync"} =>
           /\ Num(receiving) = frame_count /\ out < frame_count
           /\ \A i \in 1..Len(ready) : Num(ready[i]) < frame_count

\* Why signal() has taken the buffer it holds in next.
SyncInv ==
    recvPc = "sync" =>
        IF Num(next) > out THEN consumer_ready => available = <<>>
        ELSE consumer_ready \/ ready = <<>>

\* A consumer that waits has asked, and the stream is open until stop().
AskedInv ==
    /\ opPc = "waiting" => consumer_ready
    /\ opPc \in {"idle", "waiting"} => isOpen

StreamInv == OrderInv /\ SyncInv /\ AskedInv

\* The numbers of the frames in a queue.
LEMMA NumTypes ==
    ASSUME TypeOK
    PROVE  /\ \A b \in Buffers : Num(b) \in Nat
           /\ \A i \in 1..Len(ready) : ready[i] \in Buffers /\ Num(ready[i]) \in Nat
           /\ \A i \in 1..Len(available) : available[i] \in Buffers /\ Num(available[i]) \in Nat
           /\ out \in Nat /\ frame_count \in Nat /\ receiving \in Buffers /\ next \in Buffers
<1>1. /\ meta \in [Buffers -> Metadata] /\ ready \in Seq(Buffers) /\ available \in Seq(Buffers)
      /\ out \in Nat /\ frame_count \in Nat /\ receiving \in Buffers /\ next \in Buffers
  BY Zenon DEF TypeOK
<1>2. \A b \in Buffers : Num(b) \in Nat
  BY <1>1 DEF Num, Metadata
<1>3. \A i \in 1..Len(ready) : ready[i] \in Buffers
  BY <1>1
<1>4. \A i \in 1..Len(available) : available[i] \in Buffers
  BY <1>1
<1>5. QED
  BY <1>1, <1>2, <1>3, <1>4, Zenon

\* Frames stay in order.
LEMMA NextOrder ==
    ASSUME TypeOK, TypeOK', PlacesInv, OrderInv, [Next]_vars
    PROVE  OrderInv'
<1>1. /\ \A i \in 1..Len(ready) : out < Num(ready[i]) /\ Num(ready[i]) <= frame_count
      /\ \A i, j \in 1..Len(ready) : i < j => Num(ready[i]) < Num(ready[j])
      /\ \A i \in 1..Len(available) : Num(available[i]) <= out
      /\ out <= frame_count
      /\ recvPc \in {"signal", "sync"} =>
             /\ Num(receiving) = frame_count /\ out < frame_count
             /\ \A i \in 1..Len(ready) : Num(ready[i]) < frame_count
  BY Zenon DEF OrderInv
<1>2. /\ \A b \in Buffers : Num(b) \in Nat
      /\ \A i \in 1..Len(ready) : ready[i] \in Buffers /\ Num(ready[i]) \in Nat
      /\ \A i \in 1..Len(available) : available[i] \in Buffers /\ Num(available[i]) \in Nat
      /\ out \in Nat /\ frame_count \in Nat /\ receiving \in Buffers
      /\ Len(ready) \in Nat /\ Len(available) \in Nat
  BY NumTypes, QueueFacts, Zenon
<1>3. ASSUME UNCHANGED <<meta, ready, available, receiving, frame_count, out>>,
             recvPc' \in {"signal", "sync"} => recvPc \in {"signal", "sync"}
      PROVE  OrderInv'
  BY <1>1, <1>3, Zenon DEF OrderInv, Num
<1>4. CASE Idle \/ Send \/ CopyDone \/ RecvWrite \/ RecvMemset
  <2>1. UNCHANGED <<meta, ready, available, receiving, frame_count, out>>
    BY <1>4, Zenon DEF Idle, bufferVars, Send, SendPacket, SendMetadata, txUnchanged, queueVars,
                       opVars, CopyDone, opUnchanged, RecvWrite, RecvMemset, recvUnchanged
  <2>2. recvPc' = recvPc \/ recvPc' \in {"recv", "blocked", "exit"}
    BY <1>4, Zenon DEF Idle, Send, SendPacket, SendMetadata, txUnchanged, CopyDone, opUnchanged,
                       RecvWrite, RecvMemset
  <2>3. recvPc' \in {"signal", "sync"} => recvPc \in {"signal", "sync"}
    BY <2>2
  <2>4. QED
    BY <1>3, <2>1, <2>3, Zenon
<1>5. CASE RecvImmediate
  <2>1. /\ recvPc = "blocked" /\ UNCHANGED <<receiving, ready, available, out>>
        /\ frame_count' = frame_count + 1
        /\ meta' = [meta EXCEPT ![receiving] =
                    [received_frame_number |-> frame_count',
                     frame_bytes_received |-> frame_bytes_received,
                     packets_dropped |-> packets_dropped',
                     frame |-> Head(socket).frame, after |-> ended.frame,
                     before |-> ended.dropped]]
    BY <1>5, Zenon DEF RecvImmediate, recvUnchanged, queueVars, opVars
  <2>2. meta \in [Buffers -> Metadata]
    BY Zenon DEF TypeOK
  <2>3. /\ \A b \in Buffers : b # receiving => Num(b)' = Num(b)
        /\ Num(receiving)' = frame_count'
    BY <1>2, <2>1, <2>2 DEF Num
  <2>4. /\ \A i \in 1..Len(ready) : ready[i] # receiving
        /\ \A i \in 1..Len(available) : available[i] # receiving
    <3>1. recvPc # "done"
      BY <2>1
    <3>2. /\ \A i \in 1..Len(ready) : In(ready[i], ready)
          /\ \A i \in 1..Len(available) : In(available[i], available)
      BY Zenon DEF In
    <3>3. QED
      BY <1>2, <3>1, <3>2, Zenon DEF PlacesInv, DistinctInv, Filling
  <2>5. /\ \A i \in 1..Len(ready) : meta'[ready[i]].received_frame_number = Num(ready[i])
        /\ \A i \in 1..Len(available) : meta'[available[i]].received_frame_number = Num(available[i])
    BY <1>2, <2>3, <2>4, Zenon DEF Num
  <2>6. \A i \in 1..Len(ready) : Num(ready[i]) < frame_count' /\ Num(ready[i]) <= frame_count'
    BY <1>1, <1>2, <2>1
  <2>7. out <= frame_count' /\ out < frame_count'
    BY <1>1, <1>2, <2>1
  <2>8. (\A i \in 1..Len(ready) : out < Num(ready[i]) /\ Num(ready[i]) <= frame_count)'
    BY <1>1, <2>1, <2>5, <2>6, Zenon DEF Num
  <2>9. (\A i, j \in 1..Len(ready) : i < j => Num(ready[i]) < Num(ready[j]))'
    <3>1. \A i, j \in 1..Len(ready) : i < j => Num(ready[i]) < Num(ready[j])
      BY <1>1, Zenon
    <3>2. \A i \in 1..Len(ready) : meta'[ready[i]].received_frame_number = Num(ready[i])
      BY <2>5, Zenon
    <3>3. ready' = ready
      BY <2>1, Zenon
    <3>4. QED
      BY <3>1, <3>2, <3>3, Zenon DEF Num
  <2>10. (\A i \in 1..Len(available) : Num(available[i]) <= out)'
    BY <1>1, <2>1, <2>5, Zenon DEF Num
  <2>11. (Num(receiving) = frame_count /\ out < frame_count
          /\ \A i \in 1..Len(ready) : Num(ready[i]) < frame_count)'
    BY <2>1, <2>3, <2>5, <2>6, <2>7, Zenon DEF Num
  <2>12. QED
    BY <2>1, <2>7, <2>8, <2>9, <2>10, <2>11, Zenon DEF OrderInv
<1>6. CASE SignalTake
  <2>1. UNCHANGED <<meta, receiving, frame_count, out>> /\ recvPc = "signal"
    BY <1>6, Zenon DEF SignalTake, recvUnchanged, opVars
  <2>2. \A b : Num(b)' = Num(b)
    BY <2>1 DEF Num
  <2>3. recvPc \in {"signal", "sync"}
    BY <2>1
  <2>4. CASE ready # <<>> /\ ready' = Tail(ready) /\ UNCHANGED available
    <3>1. Len(ready') = Len(ready) - 1 /\ \A i \in 1..Len(ready') : ready'[i] = ready[i + 1]
      BY <2>4, QueueFacts, Zenon DEF Popped
    <3>2. \A i \in 1..Len(ready') : i + 1 \in 1..Len(ready) /\ i \in Nat
      BY <1>2, <3>1
    <3>3. \A i, j \in 1..Len(ready') : i < j => i + 1 < j + 1
      BY <3>2
    <3>4. (\A i \in 1..Len(ready) : out < meta[ready[i]].received_frame_number
             /\ meta[ready[i]].received_frame_number <= frame_count
             /\ meta[ready[i]].received_frame_number < frame_count)'
      BY <1>1, <2>1, <2>3, <3>1, <3>2, Zenon DEF Num
    <3>5. (\A i, j \in 1..Len(ready) : i < j => meta[ready[i]].received_frame_number <
                                                meta[ready[j]].received_frame_number)'
      BY <1>1, <2>1, <3>1, <3>2, <3>3, Zenon DEF Num
    <3>6. QED
      BY <1>1, <2>1, <2>3, <2>4, <3>4, <3>5, Zenon DEF OrderInv, Num
  <2>5. CASE available # <<>> /\ available' = Tail(available) /\ UNCHANGED ready
    <3>1. /\ Len(available') = Len(available) - 1
          /\ \A i \in 1..Len(available') : available'[i] = available[i + 1]
      BY <2>5, QueueFacts, Zenon DEF Popped
    <3>2. \A i \in 1..Len(available') : i + 1 \in 1..Len(available)
      BY <1>2, <3>1
    <3>3. (\A i \in 1..Len(available) : meta[available[i]].received_frame_number <= out)'
      BY <1>1, <2>1, <3>1, <3>2, Zenon DEF Num
    <3>4. QED
      BY <1>1, <2>1, <2>3, <2>5, <3>3, Zenon DEF OrderInv, Num
  <2>6. QED
    BY <1>6, <2>4, <2>5, TakeBuffer, Zenon
<1>7. CASE SignalPush
  <2>1. /\ UNCHANGED <<meta, available, frame_count, out>> /\ recvPc = "sync" /\ recvPc' = "memset"
        /\ ready' = Append(ready, receiving)
    BY <1>7, Zenon DEF SignalPush, recvUnchanged, opVars
  <2>2. /\ Num(receiving) = frame_count /\ out < frame_count
        /\ \A i \in 1..Len(ready) : Num(ready[i]) < frame_count
    BY <1>1, <2>1
  <2>3. /\ Len(ready') = Len(ready) + 1
        /\ \A i \in 1..Len(ready) : ready'[i] = ready[i]
        /\ ready'[Len(ready) + 1] = receiving
    BY <1>2, <2>1, QueueFacts, Zenon DEF Pushed
  <2>4. \A i \in 1..Len(ready') : \/ i \in 1..Len(ready) /\ Num(ready'[i]) = Num(ready[i])
                                  \/ i = Len(ready) + 1 /\ Num(ready'[i]) = frame_count
    BY <1>2, <2>2, <2>3
  <2>5. \A i \in 1..Len(ready') : out < Num(ready'[i]) /\ Num(ready'[i]) <= frame_count
    <3>1. frame_count <= frame_count
      BY <1>2
    <3>2. QED
      BY <1>1, <2>2, <2>4, <3>1, Zenon
  <2>6. \A i, j \in 1..Len(ready') : i < j => Num(ready'[i]) < Num(ready'[j])
    <3>1. \A i, j \in 1..Len(ready') : i < j => i \in 1..Len(ready) /\ i # Len(ready) + 1
      BY <1>2, <2>3
    <3>2. QED
      BY <1>1, <2>2, <2>4, <3>1, Zenon
  <2>7. recvPc' \notin {"signal", "sync"}
    BY <2>1
  <2>8. QED
    BY <1>1, <2>1, <2>5, <2>6, <2>7, Zenon DEF OrderInv, Num
<1>8. CASE RecvExit
  <2>1. /\ UNCHANGED <<meta, frame_count, out>> /\ recvPc' = "done" /\ ready' = <<>>
        /\ available' = <<>>
    BY <1>8, Zenon DEF RecvExit, recvUnchanged, bufferVars, opVars
  <2>2. Len(ready') = 0 /\ Len(available') = 0 /\ recvPc' \notin {"signal", "sync"}
    BY <2>1
  <2>3. \A i \in 1..0 : FALSE
    OBVIOUS
  <2>4. QED
    BY <1>1, <2>1, <2>2, <2>3, Zenon DEF OrderInv
<1>9. CASE Take
  <2>1. /\ UNCHANGED <<meta, receiving, frame_count, recvPc>> /\ ready # <<>>
        /\ out' = Num(Head(ready)) /\ ready' = Tail(ready)
        /\ available' = Append(available, Head(ready))
    BY <1>9, Zenon DEF Take, GetTake, WaitTake, TakeFrame, opUnchanged, bufferVars, Num
  <2>2. /\ Head(ready) = ready[1] /\ Len(ready) \in Nat \ {0} /\ Head(ready) \in Buffers
        /\ Len(ready') = Len(ready) - 1 /\ \A i \in 1..Len(ready') : ready'[i] = ready[i + 1]
    BY <2>1, QueueFacts, Zenon DEF Popped
  <2>3. /\ Len(available') = Len(available) + 1
        /\ \A i \in 1..Len(available) : available'[i] = available[i]
        /\ available'[Len(available) + 1] = ready[1]
    BY <1>2, <2>1, <2>2, QueueFacts, Zenon DEF Pushed
  <2>4. /\ 1 \in 1..Len(ready) /\ out' = Num(ready[1]) /\ out' \in Nat /\ out < out'
        /\ out' <= frame_count
    BY <1>1, <1>2, <2>1, <2>2
  <2>5. \A i \in 1..Len(ready') : i + 1 \in 1..Len(ready) /\ 1 < i + 1 /\ i \in Nat
    BY <1>2, <2>2
  <2>6. \A i \in 1..Len(ready') : out' < Num(ready'[i]) /\ Num(ready'[i]) <= frame_count
    BY <1>1, <2>2, <2>4, <2>5, Zenon
  <2>7. \A i, j \in 1..Len(ready') : i < j => i + 1 < j + 1
    BY <2>5
  <2>8. \A i, j \in 1..Len(ready') : i < j => Num(ready'[i]) < Num(ready'[j])
    BY <1>1, <2>2, <2>5, <2>7, Zenon
  <2>9. \A i \in 1..Len(available') : Num(available'[i]) <= out'
    <3>1. \A i \in 1..Len(available) : Num(available[i]) <= out'
      BY <1>1, <1>2, <2>4
    <3>2. \A i \in 1..Len(available') : i \in 1..Len(available) \/ i = Len(available) + 1
      BY <1>2, <2>3
    <3>3. Num(ready[1]) <= out'
      BY <2>4
    <3>4. QED
      BY <2>3, <3>1, <3>2, <3>3, Zenon
  <2>10. recvPc' \in {"signal", "sync"} =>
             /\ Num(receiving) = frame_count /\ out' < frame_count
             /\ \A i \in 1..Len(ready') : Num(ready'[i]) < frame_count
    BY <1>1, <2>1, <2>2, <2>4, <2>5, Zenon
  <2>11. QED
    BY <2>1, <2>4, <2>6, <2>8, <2>9, <2>10, Zenon DEF OrderInv, Num
<1>10. QED
  BY <1>4, <1>5, <1>6, <1>7, <1>8, <1>9, StepCases, Zenon

\* signal() keeps its reason while it holds ready_mutex_.
LEMMA NextSync ==
    ASSUME TypeOK, PlacesInv, OrderInv, SyncInv, [Next]_vars
    PROVE  SyncInv'
<1>1. /\ \A b \in Buffers : Num(b) \in Nat
      /\ out \in Nat
  BY NumTypes, Zenon
<1>2. CASE SignalTake
  <2>1. /\ recvPc = "signal" /\ (ReuseReady \/ DropOldest \/ UseAvailable)
        /\ UNCHANGED <<meta, out, consumer_ready>>
    BY <1>2, Zenon DEF SignalTake, recvUnchanged, opVars
  <2>2. ASSUME ReuseReady \/ DropOldest PROVE Num(next)' > out' /\ (consumer_ready => available' = <<>>)
    <3>1. ready # <<>> /\ next' = Head(ready) /\ UNCHANGED available
      BY <2>1, <2>2, NotBothEmpty, Zenon DEF ReuseReady, DropOldest
    <3>2. consumer_ready => available = <<>>
      BY <2>2, Zenon DEF ReuseReady, DropOldest
    <3>3. Head(ready) = ready[1] /\ Len(ready) \in Nat \ {0} /\ Head(ready) \in Buffers
      BY <3>1, QueueFacts, Zenon
    <3>4. 1 \in 1..Len(ready)
      BY <3>3
    <3>5. out < Num(ready[1])
      BY <3>4, Zenon DEF OrderInv
    <3>6. Num(next)' = Num(ready[1])
      BY <2>1, <3>1, <3>3, Zenon DEF Num
    <3>7. Num(next)' > out'
      BY <1>1, <2>1, <3>3, <3>5, <3>6
    <3>8. QED
      BY <3>1, <3>2, <3>7, Zenon
  <2>3. ASSUME UseAvailable PROVE ~(Num(next)' > out') /\ (consumer_ready \/ ready' = <<>>)
    <3>1. /\ available # <<>> /\ next' = Head(available) /\ UNCHANGED ready
          /\ consumer_ready \/ ready = <<>>
      BY <2>3, Zenon DEF UseAvailable
    <3>2. /\ Head(available) = available[1] /\ Len(available) \in Nat \ {0}
          /\ Head(available) \in Buffers
      BY <3>1, QueueFacts, Zenon
    <3>3. 1 \in 1..Len(available)
      BY <3>2
    <3>4. Num(available[1]) <= out
      BY <3>3, Zenon DEF OrderInv
    <3>5. Num(next)' = Num(available[1])
      BY <2>1, <3>1, <3>2, Zenon DEF Num
    <3>6. ~(Num(next)' > out')
      BY <1>1, <2>1, <3>2, <3>4, <3>5
    <3>7. QED
      BY <3>1, <3>6, Zenon
  <2>4. QED
    BY <2>1, <2>2, <2>3, Zenon DEF SyncInv
<1>3. ASSUME UNCHANGED <<meta, next, out, ready, available>>, consumer_ready => consumer_ready',
             recvPc' = "sync" => recvPc = "sync" /\ UNCHANGED consumer_ready
      PROVE  SyncInv'
  BY <1>3, Zenon DEF SyncInv, Num
<1>4. CASE Send \/ CopyDone
  <2>1. UNCHANGED <<meta, next, out, ready, available, consumer_ready, recvPc>>
    BY <1>4, Zenon DEF Send, SendPacket, SendMetadata, txUnchanged, queueVars, opVars, bufferVars,
                       CopyDone, opUnchanged
  <2>2. QED
    BY <1>3, <2>1, Zenon
<1>5. CASE RecvCall \/ RecvTimeout \/ RecvError \/ RecvRunt \/ RecvWrite \/ RecvImmediate
           \/ SignalPush \/ RecvMemset \/ RecvExit
  <2>1. recvPc' \in {"recv", "blocked", "exit", "signal", "memset", "done"}
    BY <1>5, Zenon DEF RecvCall, RecvTimeout, RecvError, RecvRunt, RecvWrite, RecvImmediate,
                       SignalPush, RecvMemset, RecvExit
  <2>2. recvPc' # "sync"
    BY <2>1
  <2>3. QED
    BY <2>2, Zenon DEF SyncInv
<1>6. CASE GetNextFrame
  <2>1. recvPc # "sync" /\ recvPc' = recvPc
    BY <1>6, Zenon DEF GetNextFrame, GetTake, GetWait, WaitTake, WaitTimeout, MutexFree, opUnchanged
  <2>2. QED
    BY <2>1, Zenon DEF SyncInv
<1>7. CASE OperatorStop \/ OperatorClose \/ OperatorJoin \/ UNCHANGED vars
  <2>1. UNCHANGED <<meta, next, out, ready, available, consumer_ready, recvPc>>
    BY <1>7, Zenon DEF OperatorStop, OperatorClose, OperatorJoin, opUnchanged, bufferVars, vars,
                       queueVars, opVars
  <2>2. QED
    BY <1>3, <2>1, Zenon
<1>8. QED
  BY <1>2, <1>4, <1>5, <1>6, <1>7, Zenon DEF Next, Receiver, Send

\* A consumer that waits goes on having asked.
LEMMA NextAsked ==
    ASSUME AskedInv, [Next]_vars
    PROVE  AskedInv'
<1>1. ASSUME UNCHANGED <<opPc, consumer_ready, isOpen>> PROVE AskedInv'
  BY <1>1, Zenon DEF AskedInv
<1>2. CASE SendPacket \/ SendMetadata \/ CopyDone \/ UNCHANGED vars
  <2>1. UNCHANGED <<opPc, consumer_ready, isOpen>>
    BY <1>2, Zenon DEF SendPacket, SendMetadata, txUnchanged, queueVars, opVars, CopyDone,
                       opUnchanged, vars
  <2>2. QED
    BY <1>1, <2>1, Zenon
<1>3. CASE Receiver
  <2>1. UNCHANGED <<opPc, consumer_ready, isOpen>>
    BY <1>3, Zenon DEF Receiver, RecvCall, RecvTimeout, RecvError, RecvRunt, RecvWrite,
                       RecvImmediate, SignalTake, SignalPush, RecvMemset, RecvExit, recvUnchanged,
                       queueVars, opVars
  <2>2. QED
    BY <1>1, <2>1, Zenon
<1>4. CASE GetNextFrame
  <2>1. opPc = "idle" \/ opPc = "waiting"
    BY <1>4, Zenon DEF GetNextFrame, GetTake, GetWait, WaitTake, WaitTimeout
  <2>2. isOpen'
    <3>1. opPc \in {"idle", "waiting"}
      BY <2>1
    <3>2. isOpen' = isOpen
      BY <1>4, Zenon DEF GetNextFrame, GetTake, GetWait, WaitTake, WaitTimeout
    <3>3. QED
      BY <3>1, <3>2, Zenon DEF AskedInv
  <2>3. opPc' = "waiting" => consumer_ready'
    <3>1. opPc' = "idle" \/ consumer_ready' = TRUE
      BY <1>4, Zenon DEF GetNextFrame, GetTake, GetWait, WaitTake, WaitTimeout, TakeFrame
    <3>2. QED
      BY <3>1
  <2>4. QED
    BY <2>2, <2>3, Zenon DEF AskedInv
<1>5. CASE OperatorStop \/ OperatorClose \/ OperatorJoin
  <2>1. opPc' \in {"close", "join", "stopped"}
    BY <1>5, Zenon DEF OperatorStop, OperatorClose, OperatorJoin
  <2>2. opPc' # "waiting" /\ opPc' \notin {"idle", "waiting"}
    BY <2>1
  <2>3. QED
    BY <2>2, Zenon DEF AskedInv
<1>6. QED
  BY <1>2, <1>3, <1>4, <1>5, Zenon DEF Next

-----------------------------------------------------------------------------
(* The stream as FrameStream sees it. *)

Nums == [i \in 1..Len(ready) |-> meta[ready[i]].received_frame_number]
Frames == GivenUp \o Nums
Arrived == IF recvPc \in {"signal", "sync"} THEN frame_count - 1 ELSE frame_count
Dropped == IF consumer_ready THEN overrun - Len(GivenUp) ELSE overrun
Open == isOpen /\ recvPc # "done"

\* The steps of FrameStream in these terms.
LEMMA StreamForms ==
    /\ UNCHANGED <<Arrived, Frames, out, Dropped, consumer_ready, Open>> => UNCHANGED Stream!vars
    /\ /\ Arrived' \in Nat /\ Arrived' > Arrived
       /\ \/ /\ ~consumer_ready /\ Frames # <<>> /\ Frames' = Append(Tail(Frames), Arrived')
             /\ UNCHANGED Dropped
          \/ /\ consumer_ready \/ Frames = <<>>
             /\ Len(Frames) < QueueSize /\ Frames' = Append(Frames, Arrived')
             /\ UNCHANGED Dropped
          \/ /\ consumer_ready /\ Len(Frames) = QueueSize
             /\ Frames' = Append(Tail(Frames), Arrived') /\ Dropped' = Dropped + 1
       /\ UNCHANGED <<out, consumer_ready, Open>>
       => Stream!Next
    /\ /\ Open /\ Frames # <<>> /\ out' = Head(Frames) /\ Frames' = Tail(Frames)
       /\ consumer_ready' = TRUE /\ UNCHANGED <<Arrived, Dropped, Open>>
       => Stream!Next
    /\ /\ Frames = <<>> /\ consumer_ready' = TRUE
       /\ UNCHANGED <<Arrived, Frames, out, Dropped, Open>>
       => Stream!Next
    /\ /\ Open' = FALSE /\ Frames' \in {Frames, <<>>}
       /\ UNCHANGED <<Arrived, out, Dropped, consumer_ready>>
       => Stream!Next
<1>1. UNCHANGED <<Arrived, Frames, out, Dropped, consumer_ready, Open>> => UNCHANGED Stream!vars
  BY Zenon DEF Stream!vars, Arrived, Frames, Nums, Dropped, Open
<1>2. /\ Arrived' \in Nat /\ Arrived' > Arrived
      /\ \/ /\ ~consumer_ready /\ Frames # <<>> /\ Frames' = Append(Tail(Frames), Arrived')
            /\ UNCHANGED Dropped
         \/ /\ consumer_ready \/ Frames = <<>>
            /\ Len(Frames) < QueueSize /\ Frames' = Append(Frames, Arrived')
            /\ UNCHANGED Dropped
         \/ /\ consumer_ready /\ Len(Frames) = QueueSize
            /\ Frames' = Append(Tail(Frames), Arrived') /\ Dropped' = Dropped + 1
      /\ UNCHANGED <<out, consumer_ready, Open>>
      => Stream!Next
  BY Zenon DEF Stream!Next, Stream!Arrive, Arrived, Frames, Nums, Dropped, Open
<1>3. /\ Open /\ Frames # <<>> /\ out' = Head(Frames) /\ Frames' = Tail(Frames)
      /\ consumer_ready' = TRUE /\ UNCHANGED <<Arrived, Dropped, Open>>
      => Stream!Next
  BY Zenon DEF Stream!Next, Stream!Deliver, Arrived, Frames, Nums, Dropped, Open
<1>4. /\ Frames = <<>> /\ consumer_ready' = TRUE
      /\ UNCHANGED <<Arrived, Frames, out, Dropped, Open>>
      => Stream!Next
  BY Zenon DEF Stream!Next, Stream!Ask, Arrived, Frames, Nums, Dropped, Open
<1>5. /\ Open' = FALSE /\ Frames' \in {Frames, <<>>}
      /\ UNCHANGED <<Arrived, out, Dropped, consumer_ready>>
      => Stream!Next
  BY Zenon DEF Stream!Next, Stream!Close, Arrived, Frames, Nums, Dropped, Open
<1>6. QED
  BY <1>1, <1>2, <1>3, <1>4, <1>5, Zenon

\* Sequences with one element put in front.
LEMMA FrontFacts ==
    ASSUME NEW s \in Seq(Nat)
    PROVE  /\ <<>> \o s = s
           /\ \A x \in Nat : /\ <<x>> \o s # <<>> /\ Len(<<x>> \o s) = Len(s) + 1
                             /\ Tail(<<x>> \o s) = s
           /\ s # <<>> => <<Head(s)>> \o Tail(s) = s
           /\ Len(s) \in Nat
<1>1. <<>> \o s = s
  OBVIOUS
<1>2. \A x \in Nat : <<x>> \o s # <<>> /\ Len(<<x>> \o s) = Len(s) + 1
  OBVIOUS
<1>3. \A x \in Nat : Tail(<<x>> \o s) = s
  OBVIOUS
<1>4. s # <<>> => <<Head(s)>> \o Tail(s) = s
  OBVIOUS
<1>5. Len(s) \in Nat
  OBVIOUS
<1>6. QED
  BY <1>1, <1>2, <1>3, <1>4, <1>5

\* The numbers of the waiting frames, and how a pop and a push change them.
LEMMA NumsFacts ==
    ASSUME TypeOK
    PROVE  /\ Nums \in Seq(Nat) /\ Len(Nums) = Len(ready)
           /\ ready = <<>> <=> Nums = <<>>
           /\ ready # <<>> => Head(Nums) = Num(ready[1])
<1>1. ready \in Seq(Buffers) /\ \A i \in 1..Len(ready) : Num(ready[i]) \in Nat
  BY NumTypes, Zenon DEF TypeOK
<1>2. Len(ready) \in Nat
  BY <1>1
<1>3. Nums \in Seq(Nat) /\ Len(Nums) = Len(ready)
  BY <1>1, <1>2 DEF Nums, Num
<1>4. ready = <<>> <=> Nums = <<>>
  BY <1>1, <1>3
<1>5. ready # <<>> => Head(Nums) = Num(ready[1])
  BY <1>1, <1>2, <1>3 DEF Nums, Num
<1>6. QED
  BY <1>3, <1>4, <1>5, Zenon

\* Sequences of numbers with the same elements.
LEMMA SameNumbers ==
    ASSUME NEW s \in Seq(Nat), NEW t \in Seq(Nat), Len(s) = Len(t),
           \A i \in 1..Len(s) : s[i] = t[i]
    PROVE  s = t
  OBVIOUS

\* A pop of ready_ takes the first number.
LEMMA NumsPopped ==
    ASSUME TypeOK, ready # <<>>, ready' = Tail(ready), meta' = meta
    PROVE  Nums' = Tail(Nums)
<1>1. /\ Len(ready) \in Nat \ {0} /\ Len(ready') = Len(ready) - 1
      /\ \A i \in 1..Len(ready') : ready'[i] = ready[i + 1]
  BY QueueFacts, Zenon DEF Popped
<1>2. Nums \in Seq(Nat) /\ Len(Nums) = Len(ready)
  BY NumsFacts, Zenon
<1>3. \A i \in 1..Len(ready) : Num(ready[i]) \in Nat
  BY NumTypes, Zenon
<1>4. \A i \in 1..Len(ready') : i + 1 \in 1..Len(ready)
  BY <1>1
<1>5. \A i \in 1..Len(ready') : meta[ready'[i]].received_frame_number \in Nat
  BY <1>1, <1>3, <1>4, Zenon DEF Num
<1>6. Nums' \in Seq(Nat) /\ Len(Nums') = Len(ready')
  BY <1>1, <1>5 DEF Nums
<1>7. \A i \in 1..Len(ready') : Nums'[i] = meta[ready[i + 1]].received_frame_number
  BY <1>1 DEF Nums
<1>8. /\ Tail(Nums) \in Seq(Nat) /\ Len(Tail(Nums)) = Len(ready')
      /\ \A i \in 1..Len(ready') : Tail(Nums)[i] = Nums[i + 1]
  BY <1>1, <1>2
<1>9. \A i \in 1..Len(ready') : Nums[i + 1] = meta[ready[i + 1]].received_frame_number
  BY <1>4 DEF Nums
<1>10. \A i \in 1..Len(ready') : Nums'[i] = Tail(Nums)[i]
  BY <1>7, <1>8, <1>9, Zenon
<1>11. QED
  BY <1>6, <1>8, <1>10, SameNumbers

\* A push onto ready_ adds a number at the end.
LEMMA NumsPushed ==
    ASSUME TypeOK, NEW b \in Buffers, ready' = Append(ready, b), meta' = meta
    PROVE  Nums' = Append(Nums, Num(b))
<1>1. /\ Len(ready) \in Nat /\ Len(ready') = Len(ready) + 1
      /\ \A i \in 1..Len(ready) : ready'[i] = ready[i]
      /\ ready'[Len(ready) + 1] = b
  BY QueueFacts, Zenon DEF Pushed
<1>2. Nums \in Seq(Nat) /\ Len(Nums) = Len(ready)
  BY NumsFacts, Zenon
<1>3. Num(b) \in Nat /\ \A i \in 1..Len(ready) : Num(ready[i]) \in Nat
  BY NumTypes, Zenon
<1>4. \A i \in 1..Len(ready') : i \in 1..Len(ready) \/ i = Len(ready) + 1
  BY <1>1
<1>5. \A i \in 1..Len(ready') : meta[ready'[i]].received_frame_number \in Nat
  BY <1>1, <1>3, <1>4, Zenon DEF Num
<1>6. Nums' \in Seq(Nat) /\ Len(Nums') = Len(ready')
  BY <1>1, <1>5 DEF Nums
<1>7. \A i \in 1..Len(ready') : Nums'[i] = meta[ready'[i]].received_frame_number
  BY DEF Nums
<1>8. /\ Append(Nums, Num(b)) \in Seq(Nat) /\ Len(Append(Nums, Num(b))) = Len(ready')
      /\ \A i \in 1..Len(ready) : Append(Nums, Num(b))[i] = Nums[i]
      /\ Append(Nums, Num(b))[Len(ready) + 1] = Num(b)
  BY <1>1, <1>2, <1>3
<1>9. \A i \in 1..Len(ready) : Nums[i] = meta[ready[i]].received_frame_number
  BY DEF Nums
<1>10. \A i \in 1..Len(ready') : Nums'[i] = Append(Nums, Num(b))[i]
  <2>1. \A i \in 1..Len(ready) : i \in 1..Len(ready')
    BY <1>1
  <2>2. Len(ready) + 1 \in 1..Len(ready')
    BY <1>1
  <2>3. \A i \in 1..Len(ready) : Nums'[i] = Append(Nums, Num(b))[i]
    BY <1>1, <1>7, <1>8, <1>9, <2>1, Zenon
  <2>4. Nums'[Len(ready) + 1] = Append(Nums, Num(b))[Len(ready) + 1]
    BY <1>1, <1>7, <1>8, <2>2, Zenon DEF Num
  <2>5. QED
    BY <1>4, <2>3, <2>4, Zenon
<1>11. QED
  BY <1>6, <1>8, <1>10, SameNumbers

\* Outside the section of signal() no frame is half given up.
LEMMA NothingGivenUp ==
    TypeOK /\ recvPc # "sync" => GivenUp = <<>> /\ Frames = Nums /\ Dropped = overrun
<1>1. SUFFICES ASSUME TypeOK, recvPc # "sync"
               PROVE  GivenUp = <<>> /\ Frames = Nums /\ Dropped = overrun
  OBVIOUS
<1>2. GivenUp = <<>>
  BY <1>1 DEF GivenUp
<1>3. Nums \in Seq(Nat)
  BY <1>1, NumsFacts, Zenon
<1>4. Frames = Nums
  BY <1>2, <1>3, FrontFacts DEF Frames
<1>5. Len(GivenUp) = 0
  BY <1>2
<1>6. overrun \in Nat
  BY <1>1, Zenon DEF TypeOK
<1>7. Dropped = overrun
  BY <1>5, <1>6 DEF Dropped
<1>8. QED
  BY <1>2, <1>4, <1>7

\* signal() takes a buffer: nothing is seen of it.
LEMMA TakeStutters ==
    ASSUME TypeOK, PlacesInv, OrderInv, SignalTake
    PROVE  UNCHANGED <<Arrived, Frames, out, Dropped, consumer_ready, Open>>
<1>1. /\ recvPc = "signal" /\ recvPc' = "sync" /\ (ReuseReady \/ DropOldest \/ UseAvailable)
      /\ UNCHANGED <<meta, out, consumer_ready, frame_count, isOpen>>
  BY Zenon DEF SignalTake, recvUnchanged, opVars
<1>2. Frames = Nums /\ Dropped = overrun
  <2>1. recvPc # "sync"
    BY <1>1
  <2>2. QED
    BY <2>1, NothingGivenUp, Zenon
<1>3. Arrived' = Arrived /\ Open' = Open
  BY <1>1 DEF Arrived, Open
<1>4. Nums \in Seq(Nat) /\ overrun \in Nat /\ out \in Nat
  BY NumsFacts, Zenon DEF TypeOK
<1>5. CASE ReuseReady \/ DropOldest
  <2>1. ready # <<>> /\ next' = Head(ready) /\ ready' = Tail(ready)
    BY <1>1, <1>5, NotBothEmpty, Zenon DEF ReuseReady, DropOldest
  <2>2. /\ Head(ready) = ready[1] /\ Len(ready) \in Nat \ {0} /\ Head(ready) \in Buffers
    BY <2>1, QueueFacts, Zenon
  <2>3. 1 \in 1..Len(ready)
    BY <2>2
  <2>4. out < Num(ready[1]) /\ Num(ready[1]) \in Nat
    BY <2>3, NumTypes, Zenon DEF OrderInv
  <2>5. meta'[next'].received_frame_number = Num(ready[1])
    BY <1>1, <2>1, <2>2, Zenon DEF Num
  <2>6. meta'[next'].received_frame_number > out'
    BY <1>1, <1>4, <2>4, <2>5
  <2>7. GivenUp' = <<Num(ready[1])>>
    BY <1>1, <2>5, <2>6, Zenon DEF GivenUp
  <2>8. Nums' = Tail(Nums) /\ Nums # <<>> /\ Head(Nums) = Num(ready[1])
    BY <1>1, <2>1, NumsPopped, NumsFacts, Zenon
  <2>9. <<Head(Nums)>> \o Tail(Nums) = Nums
    BY <1>4, <2>8, FrontFacts
  <2>10. Frames' = Frames
    BY <1>2, <2>7, <2>8, <2>9, Zenon DEF Frames
  <2>11. Dropped' = Dropped
    <3>1. Len(GivenUp') = 1
      BY <2>7
    <3>2. CASE ReuseReady
      <4>1. ~consumer_ready /\ overrun' = overrun
        BY <3>2, Zenon DEF ReuseReady
      <4>2. QED
        BY <1>1, <1>2, <4>1, Zenon DEF Dropped
    <3>3. CASE DropOldest
      <4>1. consumer_ready /\ overrun' = overrun + 1
        BY <2>1, <3>3, Zenon DEF DropOldest
      <4>2. Dropped' = overrun' - 1
        BY <1>1, <3>1, <4>1, Zenon DEF Dropped
      <4>3. QED
        BY <1>2, <1>4, <4>1, <4>2
    <3>4. QED
      BY <1>5, <3>2, <3>3, Zenon
  <2>12. QED
    BY <1>1, <1>3, <2>10, <2>11, Zenon
<1>6. CASE UseAvailable
  <2>1. available # <<>> /\ next' = Head(available) /\ UNCHANGED <<ready, overrun>>
    BY <1>6, Zenon DEF UseAvailable
  <2>2. /\ Head(available) = available[1] /\ Len(available) \in Nat \ {0}
        /\ Head(available) \in Buffers
    BY <2>1, QueueFacts, Zenon
  <2>3. 1 \in 1..Len(available)
    BY <2>2
  <2>4. Num(available[1]) <= out /\ Num(available[1]) \in Nat
    BY <2>3, NumTypes, Zenon DEF OrderInv
  <2>5. meta'[next'].received_frame_number = Num(available[1])
    BY <1>1, <2>1, <2>2, Zenon DEF Num
  <2>6. ~(meta'[next'].received_frame_number > out')
    BY <1>1, <1>4, <2>4, <2>5
  <2>7. GivenUp' = <<>>
    BY <2>6, Zenon DEF GivenUp
  <2>8. Nums' = Nums
    BY <1>1, <2>1, Zenon DEF Nums
  <2>9. <<>> \o Nums = Nums
    BY <1>4, FrontFacts
  <2>10. Frames' = Frames
    BY <1>2, <2>7, <2>8, <2>9, Zenon DEF Frames
  <2>11. Dropped' = Dropped
    <3>1. Len(GivenUp') = 0
      BY <2>7
    <3>2. overrun' - 0 = overrun
      BY <1>4, <2>1
    <3>3. QED
      BY <1>2, <2>1, <3>1, <3>2, Zenon DEF Dropped
  <2>12. QED
    BY <1>1, <1>3, <2>10, <2>11, Zenon
<1>7. QED
  BY <1>1, <1>5, <1>6, Zenon

\* signal() queues the new frame: an arrival.
LEMMA PushArrives ==
    ASSUME TypeOK, TypeOK', PlacesInv, OrderInv, SyncInv, SignalPush
    PROVE  Stream!Next
<1>1. /\ recvPc = "sync" /\ recvPc' = "memset" /\ ready' = Append(ready, receiving)
      /\ UNCHANGED <<meta, out, consumer_ready, frame_count, isOpen, overrun>>
  BY Zenon DEF SignalPush, recvUnchanged, opVars
<1>2. /\ Num(receiving) = frame_count
  <2>1. recvPc \in {"signal", "sync"}
    BY <1>1
  <2>2. QED
    BY <2>1, Zenon DEF OrderInv
<1>3. /\ receiving \in Buffers /\ next \in Buffers /\ Num(next) \in Nat /\ frame_count \in Nat
      /\ Nums \in Seq(Nat) /\ Len(Nums) = Len(ready) /\ overrun \in Nat /\ out \in Nat
      /\ Len(ready) \in Nat /\ Len(available) \in Nat
  BY NumTypes, NumsFacts, QueueFacts, Zenon DEF TypeOK
<1>4. Frames' = Nums' /\ Dropped' = overrun'
  <2>1. (TypeOK /\ recvPc # "sync")' => (GivenUp = <<>> /\ Frames = Nums /\ Dropped = overrun)'
    BY NothingGivenUp, PTL
  <2>2. recvPc' # "sync"
    BY <1>1
  <2>3. QED
    BY <2>1, <2>2
<1>5. Frames' = Append(Nums, frame_count)
  BY <1>1, <1>2, <1>3, <1>4, NumsPushed
<1>6. Arrived = frame_count - 1 /\ Arrived' = frame_count
  BY <1>1 DEF Arrived
<1>7. Arrived' \in Nat /\ Arrived' > Arrived
  BY <1>3, <1>6
<1>8. Open' = Open
  BY <1>1 DEF Open
<1>9. 2 + Len(ready) + Len(available) = QueueSize + 1
  <2>1. recvPc # "done" /\ HeldCount = 2
    BY <1>1 DEF HeldCount
  <2>2. QED
    BY <2>1, Zenon DEF PlacesInv
<1>10. CASE Num(next) > out
  <2>1. GivenUp = <<Num(next)>>
    BY <1>1, <1>10, Zenon DEF GivenUp, Num
  <2>2. Frames # <<>> /\ Len(Frames) = Len(ready) + 1 /\ Tail(Frames) = Nums
    BY <1>3, <2>1, FrontFacts DEF Frames
  <2>3. Frames' = Append(Tail(Frames), Arrived')
    BY <1>5, <1>6, <2>2, Zenon
  <2>4. CASE consumer_ready
    <3>1. available = <<>>
      BY <1>1, <1>10, <2>4, Zenon DEF SyncInv
    <3>2. Len(available) = 0
      BY <3>1
    <3>3. QueueSize \in Nat
      BY LinuxAssumption
    <3>4. Len(Frames) = QueueSize
      BY <1>3, <1>9, <2>2, <3>2, <3>3
    <3>5. Len(GivenUp) = 1
      BY <2>1
    <3>6. Dropped = overrun - 1
      BY <2>4, <3>5, Zenon DEF Dropped
    <3>7. Dropped' = Dropped + 1
      BY <1>1, <1>3, <1>4, <3>6
    <3>8. QED
      BY <1>1, <1>7, <1>8, <2>3, <2>4, <3>4, <3>7, StreamForms, Zenon
  <2>5. CASE ~consumer_ready
    <3>1. Dropped' = Dropped
      BY <1>1, <1>4, <2>5, Zenon DEF Dropped
    <3>2. QED
      BY <1>1, <1>7, <1>8, <2>2, <2>3, <2>5, <3>1, StreamForms, Zenon
  <2>6. QED
    BY <2>4, <2>5, Zenon
<1>11. CASE ~(Num(next) > out)
  <2>1. GivenUp = <<>> /\ (consumer_ready \/ ready = <<>>)
    BY <1>1, <1>11, Zenon DEF GivenUp, Num, SyncInv
  <2>2. Frames = Nums
    BY <1>3, <2>1, FrontFacts DEF Frames
  <2>3. Frames' = Append(Frames, Arrived')
    BY <1>5, <1>6, <2>2, Zenon
  <2>4. QueueSize \in Nat
    BY LinuxAssumption
  <2>5. Len(Frames) < QueueSize
    BY <1>3, <1>9, <2>2, <2>4
  <2>6. consumer_ready \/ Frames = <<>>
    BY <2>1, <2>2, NumsFacts, Zenon
  <2>7. Len(GivenUp) = 0
    BY <2>1
  <2>8. overrun - 0 = overrun
    BY <1>3
  <2>9. Dropped' = Dropped
    BY <1>1, <1>4, <2>7, <2>8, Zenon DEF Dropped
  <2>10. QED
    BY <1>1, <1>7, <1>8, <2>3, <2>5, <2>6, <2>9, StreamForms, Zenon
<1>12. QED
  BY <1>10, <1>11, Zenon

\* Steps outside signal() that leave the queue and the counts alone.
LEMMA OtherStutters ==
    ASSUME TypeOK, TypeOK', UNCHANGED <<Nums, out, consumer_ready, overrun, isOpen, Arrived>>,
           recvPc # "sync", recvPc' # "sync", recvPc # "done", recvPc' # "done"
    PROVE  UNCHANGED Stream!vars
<1>1. Frames = Nums /\ Dropped = overrun
  BY NothingGivenUp, Zenon
<1>2. Frames' = Nums' /\ Dropped' = overrun'
  <2>1. (TypeOK /\ recvPc # "sync")' => (GivenUp = <<>> /\ Frames = Nums /\ Dropped = overrun)'
    BY NothingGivenUp, PTL
  <2>2. QED
    BY <2>1
<1>3. Open' = Open
  BY Zenon DEF Open
<1>4. QED
  BY <1>1, <1>2, <1>3, StreamForms, Zenon

\* The frame's end is not seen before signal().
LEMMA ImmediateStutters ==
    ASSUME TypeOK, TypeOK', PlacesInv, RecvImmediate
    PROVE  UNCHANGED Stream!vars
<1>1. /\ recvPc = "blocked" /\ recvPc' = "signal" /\ frame_count' = frame_count + 1
      /\ UNCHANGED <<receiving, ready, out, consumer_ready, overrun, isOpen>>
  BY Zenon DEF RecvImmediate, recvUnchanged, queueVars, opVars
<1>2. \A b \in Buffers : b # receiving => meta'[b] = meta[b]
  <2>1. meta \in [Buffers -> Metadata]
    BY Zenon DEF TypeOK
  <2>2. QED
    BY <2>1 DEF RecvImmediate
<1>3. \A i \in 1..Len(ready) : ready[i] \in Buffers /\ ready[i] # receiving
  <2>1. recvPc # "done"
    BY <1>1
  <2>2. \A i \in 1..Len(ready) : ready[i] \in Buffers /\ In(ready[i], ready)
    BY NumTypes, Zenon DEF In
  <2>3. QED
    BY <2>1, <2>2, Zenon DEF PlacesInv, DistinctInv, Filling
<1>4. Nums' = Nums
  BY <1>1, <1>2, <1>3, Zenon DEF Nums
<1>5. Arrived' = Arrived
  <2>1. frame_count \in Nat
    BY Zenon DEF TypeOK
  <2>2. QED
    BY <1>1, <2>1 DEF Arrived
<1>6. /\ recvPc # "sync" /\ recvPc' # "sync" /\ recvPc # "done" /\ recvPc' # "done"
  BY <1>1
<1>7. UNCHANGED <<Nums, out, consumer_ready, overrun, isOpen, Arrived>>
  BY <1>1, <1>4, <1>5, Zenon
<1>8. QED
  BY <1>6, <1>7, OtherStutters, Zenon

\* get_next_frame takes the oldest waiting frame: a delivery.
LEMMA TakeDelivers ==
    ASSUME TypeOK, TypeOK', PlacesInv, AskedInv, Take
    PROVE  Stream!Next
<1>1. /\ recvPc' = recvPc /\ recvPc # "sync" /\ ready # <<>> /\ ready' = Tail(ready)
      /\ out' = meta[Head(ready)].received_frame_number
      /\ UNCHANGED <<meta, frame_count, isOpen, overrun>>
  BY Zenon DEF Take, GetTake, WaitTake, TakeFrame, MutexFree, opUnchanged, bufferVars
<1>2. consumer_ready' = TRUE
  <2>1. CASE GetTake
    BY <2>1, Zenon DEF GetTake
  <2>2. CASE WaitTake
    <3>1. consumer_ready /\ consumer_ready' = consumer_ready /\ consumer_ready \in BOOLEAN
      BY <2>2, Zenon DEF WaitTake, AskedInv, TypeOK
    <3>2. QED
      BY <3>1, Zenon
  <2>3. QED
    BY <2>1, <2>2, Zenon DEF Take
<1>3. isOpen /\ recvPc # "done"
  <2>1. opPc = "idle" \/ opPc = "waiting"
    BY Zenon DEF Take, GetTake, WaitTake
  <2>2. opPc \in {"idle", "waiting"}
    BY <2>1
  <2>3. QED
    BY <1>1, <2>2, Zenon DEF AskedInv, PlacesInv
<1>4. Open /\ Open' = Open /\ Arrived' = Arrived
  BY <1>1, <1>3, Zenon DEF Open, Arrived
<1>5. Frames = Nums /\ Dropped = overrun
  BY <1>1, NothingGivenUp, Zenon
<1>6. Frames' = Nums' /\ Dropped' = overrun'
  <2>1. (TypeOK /\ recvPc # "sync")' => (GivenUp = <<>> /\ Frames = Nums /\ Dropped = overrun)'
    BY NothingGivenUp, PTL
  <2>2. QED
    BY <1>1, <2>1
<1>7. Nums' = Tail(Nums) /\ Nums # <<>> /\ Head(Nums) = Num(ready[1]) /\ Head(ready) = ready[1]
  BY <1>1, NumsPopped, NumsFacts, QueueFacts, Zenon
<1>8. out' = Head(Frames) /\ Frames # <<>> /\ Frames' = Tail(Frames)
  BY <1>1, <1>5, <1>6, <1>7, Zenon DEF Num
<1>9. QED
  BY <1>1, <1>2, <1>4, <1>5, <1>6, <1>8, StreamForms, Zenon

\* get_next_frame finds nothing and waits: a request.
LEMMA WaitAsks ==
    ASSUME TypeOK, TypeOK', GetWait
    PROVE  Stream!Next
<1>1. /\ recvPc' = recvPc /\ recvPc # "sync" /\ ready = <<>> /\ consumer_ready' = TRUE
      /\ UNCHANGED <<ready, meta, frame_count, isOpen, overrun, out>>
  BY Zenon DEF GetWait, MutexFree, opUnchanged, bufferVars
<1>2. Frames = Nums /\ Dropped = overrun
  BY <1>1, NothingGivenUp, Zenon
<1>3. Frames' = Nums' /\ Dropped' = overrun'
  <2>1. (TypeOK /\ recvPc # "sync")' => (GivenUp = <<>> /\ Frames = Nums /\ Dropped = overrun)'
    BY NothingGivenUp, PTL
  <2>2. QED
    BY <1>1, <2>1
<1>4. Nums' = Nums /\ Nums = <<>>
  BY <1>1, NumsFacts, Zenon DEF Nums
<1>5. Open' = Open /\ Arrived' = Arrived
  BY <1>1, Zenon DEF Open, Arrived
<1>6. QED
  BY <1>1, <1>2, <1>3, <1>4, <1>5, StreamForms, Zenon

\* run() returns, or the socket is closed: the stream is closed.
LEMMA ExitCloses ==
    ASSUME TypeOK, TypeOK', RecvExit
    PROVE  Stream!Next
<1>1. /\ recvPc = "exit" /\ recvPc' = "done" /\ ready' = <<>>
      /\ UNCHANGED <<frame_count, overrun, out, consumer_ready>>
  BY Zenon DEF RecvExit, recvUnchanged, opVars
<1>2. recvPc # "sync" /\ recvPc' # "sync"
  BY <1>1
<1>3. Dropped = overrun
  BY <1>2, NothingGivenUp, Zenon
<1>4. Frames' = Nums' /\ Dropped' = overrun'
  <2>1. (TypeOK /\ recvPc # "sync")' => (GivenUp = <<>> /\ Frames = Nums /\ Dropped = overrun)'
    BY NothingGivenUp, PTL
  <2>2. QED
    BY <1>2, <2>1
<1>5. Nums' = <<>>
  BY <1>1 DEF Nums
<1>6. Frames' \in {Frames, <<>>}
  BY <1>4, <1>5, Zenon
<1>7. Open' = FALSE
  BY <1>1 DEF Open
<1>8. Arrived' = Arrived
  BY <1>1 DEF Arrived
<1>9. QED
  BY <1>1, <1>3, <1>4, <1>6, <1>7, <1>8, StreamForms, Zenon

\* Every step is a step of the stream or leaves it unchanged.
LEMMA StreamStep ==
    ASSUME TypeOK, TypeOK', PlacesInv, StreamInv, [Next]_vars
    PROVE  [Stream!Next]_(Stream!vars)
<1>1. OrderInv /\ SyncInv /\ AskedInv
  BY Zenon DEF StreamInv
<1>2. ASSUME UNCHANGED <<ready, meta, next, out, consumer_ready, overrun, frame_count, recvPc>>
      PROVE  UNCHANGED <<Arrived, Frames, out, Dropped, consumer_ready>>
  BY <1>2, Zenon DEF Arrived, Frames, GivenUp, Nums, Dropped
<1>3. CASE SendPacket \/ SendMetadata \/ CopyDone \/ WaitTimeout \/ OperatorClose \/ OperatorJoin
           \/ UNCHANGED vars
  <2>1. UNCHANGED <<ready, meta, next, out, consumer_ready, overrun, frame_count, recvPc, isOpen>>
    BY <1>3, Zenon DEF SendPacket, SendMetadata, txUnchanged, CopyDone, WaitTimeout, OperatorClose,
                       OperatorJoin, opUnchanged, vars, queueVars, opVars, bufferVars
  <2>2. Open' = Open
    BY <2>1, Zenon DEF Open
  <2>3. QED
    BY <1>2, <2>1, <2>2, StreamForms, Zenon
<1>4. CASE OperatorStop
  <2>1. /\ isOpen' = FALSE
        /\ UNCHANGED <<ready, meta, next, out, consumer_ready, overrun, frame_count, recvPc>>
    BY <1>4, Zenon DEF OperatorStop, opUnchanged, bufferVars
  <2>2. Open' = FALSE
    BY <2>1, Zenon DEF Open
  <2>3. QED
    BY <1>2, <2>1, <2>2, StreamForms, Zenon
<1>5. CASE RecvCall \/ RecvTimeout \/ RecvError \/ RecvRunt \/ RecvWrite \/ RecvMemset
  <2>1. UNCHANGED <<ready, meta, out, consumer_ready, overrun, frame_count, isOpen>>
    BY <1>5, Zenon DEF RecvCall, RecvTimeout, RecvError, RecvRunt, RecvWrite, RecvMemset,
                       recvUnchanged, queueVars, opVars, bufferVars
  <2>2. recvPc = "recv" \/ recvPc = "blocked" \/ recvPc = "memset"
    BY <1>5, Zenon DEF RecvCall, RecvTimeout, RecvError, RecvRunt, RecvWrite, RecvMemset
  <2>3. recvPc' = "recv" \/ recvPc' = "blocked" \/ recvPc' = "exit"
    BY <1>5, Zenon DEF RecvCall, RecvTimeout, RecvError, RecvRunt, RecvWrite, RecvMemset
  <2>4. /\ recvPc # "sync" /\ recvPc' # "sync" /\ recvPc # "done" /\ recvPc' # "done"
        /\ recvPc \notin {"signal", "sync"} /\ recvPc' \notin {"signal", "sync"}
    BY <2>2, <2>3
  <2>5. UNCHANGED <<Nums, Arrived>>
    BY <2>1, <2>4, Zenon DEF Nums, Arrived
  <2>6. QED
    BY <2>1, <2>4, <2>5, OtherStutters, Zenon
<1>6. CASE SignalTake
  BY <1>1, <1>6, TakeStutters, StreamForms, Zenon
<1>7. CASE SignalPush
  BY <1>1, <1>7, PushArrives, Zenon
<1>8. CASE RecvImmediate
  BY <1>8, ImmediateStutters, Zenon
<1>9. CASE RecvExit
  BY <1>9, ExitCloses, Zenon
<1>10. CASE Take
  BY <1>1, <1>10, TakeDelivers, Zenon
<1>11. CASE GetWait
  BY <1>11, WaitAsks, Zenon
<1>12. QED
  BY <1>3, <1>4, <1>5, <1>6, <1>7, <1>8, <1>9, <1>10, <1>11, Zenon
     DEF Next, Receiver, GetNextFrame, Take

\* The receiver and the operator are a bounded, lossy, ordered stream that
\* drops the oldest frame, and only when nothing is free: every step of
\* theirs is one of FrameStream's or none, although signal() gives a frame
\* up and queues the new one in two steps.
THEOREM LinuxStreamImplemented == SafetySpec => Stream!Init /\ [][Stream!Next]_(Stream!vars)
<1>1. Init => Stream!Init /\ StreamInv
  <2>1. SUFFICES ASSUME Init PROVE Stream!Init /\ StreamInv
    OBVIOUS
  <2>2. /\ ready = <<>> /\ recvPc = "recv" /\ out = 0 /\ frame_count = 0 /\ overrun = 0
        /\ consumer_ready = FALSE /\ isOpen = TRUE /\ opPc = "idle"
        /\ meta = [b \in Buffers |-> NoMetadata] /\ available = [i \in 1..QueueSize |-> i]
    BY <2>1, Zenon DEF Init
  <2>3. Nums = <<>> /\ GivenUp = <<>>
    BY <2>2 DEF Nums, GivenUp
  <2>4. Frames = <<>> /\ Arrived = 0 /\ Dropped = 0 /\ Open = TRUE
    BY <2>2, <2>3 DEF Frames, Arrived, Dropped, Open
  <2>5. Stream!Init
    BY <2>2, <2>4, Zenon DEF Stream!Init, Frames, Nums, Arrived, Dropped, Open
  <2>6. Len(ready) = 0 /\ Len(available) = QueueSize
    BY <2>2, LinuxAssumption
  <2>7. \A i \in 1..Len(available) : Num(available[i]) = 0
    BY <2>2, <2>6, LinuxAssumption DEF Num, NoMetadata, Buffers
  <2>8. OrderInv
    <3>1. \A i \in 1..Len(ready) : FALSE
      BY <2>6
    <3>2. \A i \in 1..Len(available) : Num(available[i]) <= out
      <4>1. 0 <= out
        BY <2>2
      <4>2. QED
        BY <2>7, <4>1, Zenon
    <3>3. out <= frame_count /\ recvPc \notin {"signal", "sync"}
      BY <2>2
    <3>4. QED
      BY <3>1, <3>2, <3>3, Zenon DEF OrderInv
  <2>9. SyncInv /\ AskedInv
    BY <2>2 DEF SyncInv, AskedInv
  <2>10. QED
    BY <2>5, <2>8, <2>9, Zenon DEF StreamInv
<1>2. BuffersInv /\ StreamInv /\ BuffersInv' /\ [Next]_vars
          => StreamInv' /\ [Stream!Next]_(Stream!vars)
  <2>1. SUFFICES ASSUME TypeOK, TypeOK', PlacesInv, StreamInv, [Next]_vars
                 PROVE  StreamInv' /\ [Stream!Next]_(Stream!vars)
    BY Zenon DEF BuffersInv
  <2>2. OrderInv /\ SyncInv /\ AskedInv
    BY <2>1, Zenon DEF StreamInv
  <2>3. OrderInv' /\ SyncInv' /\ AskedInv'
    BY <2>1, <2>2, NextOrder, NextSync, NextAsked, Zenon
  <2>4. QED
    BY <2>1, <2>3, StreamStep, Zenon DEF StreamInv
<1>3. QED
  BY <1>1, <1>2, BuffersInvariant, PTL DEF SafetySpec
=============================================================================
