------------------------- MODULE RoceReceiver_proofs -------------------------
(***************************************************************************)
(* The queue invariants of RoceReceiver for every queue size, number of    *)
(* pages, number of work requests and number of frames.                    *)
(***************************************************************************)
EXTENDS RoceReceiver, TLAPS

\* A remainder is a natural number below the modulus.
LEMMA ModRange == ASSUME NEW a \in Int, NEW b \in Nat \ {0} PROVE a % b \in 0..(b - 1)
  BY SMT

\* A number is a multiple of the modulus plus its remainder.
LEMMA DivMod ==
    ASSUME NEW a \in Int, NEW M \in Nat \ {0}
    PROVE  a % M \in 0..(M - 1) /\ \E q \in Int : a = q * M + (a % M)
<1>1. \A x \in Int : \A k \in Nat \ {0} : x = (x \div k) * k + (x % k)
  OBVIOUS
<1>2. a = (a \div M) * M + (a % M)
  BY <1>1
<1>3. a \div M \in Int /\ a % M \in 0..(M - 1)
  OBVIOUS
<1>4. \E q \in Int : a = q * M + (a % M)
  <2>1. WITNESS a \div M \in Int
  <2>2. QED
    BY <1>2
<1>5. QED
  BY <1>3, <1>4

\* Multiples of M are at least M apart.
LEMMA MultStep ==
    ASSUME NEW M \in Nat \ {0}, NEW p \in Int, NEW q \in Int, p < q
    PROVE  q * M >= p * M + M
<1>1. (q - p) * M >= M
  OBVIOUS
<1>2. QED
  BY <1>1

\* Quotient and remainder are unique.
LEMMA ModUnique ==
    ASSUME NEW M \in Nat \ {0}, NEW p \in Int, NEW q \in Int,
           NEW r \in 0..(M - 1), NEW s \in 0..(M - 1), p * M + r = q * M + s
    PROVE  p = q /\ r = s
<1>1. p * M \in Int /\ q * M \in Int
  OBVIOUS
<1>2. p < q => q * M >= p * M + M
  BY MultStep
<1>3. q < p => p * M >= q * M + M
  BY MultStep
<1>4. p = q
  BY <1>1, <1>2, <1>3
<1>5. QED
  BY <1>1, <1>4

\* Numbers less than M apart have different remainders.
LEMMA ModDistinct ==
    ASSUME NEW M \in Nat \ {0}, NEW a \in Int, NEW b \in Int, a < b, b - a < M
    PROVE  a % M # b % M
<1> DEFINE r == a % M
<1>1. PICK p \in Int : a = p * M + r
  BY DivMod
<1> HIDE DEF r
<1>2. ASSUME r = b % M PROVE FALSE
  <2>1. PICK q \in Int : b = q * M + r
    BY <1>2, DivMod
  <2>2. q * M \in Int /\ p * M \in Int /\ r \in Int
    BY <1>2, DivMod
  <2>3. q * M - p * M = b - a
    BY <1>1, <2>1, <2>2
  <2>4. p < q => q * M >= p * M + M
    BY MultStep
  <2>5. q < p => p * M >= q * M + M
    BY MultStep
  <2>6. p # q
    BY <2>2, <2>3
  <2>7. QED
    BY <2>2, <2>3, <2>4, <2>5, <2>6
<1>3. QED
  BY <1>2 DEF r

\* The difference of two numbers less than M apart, from their remainders.
LEMMA ModDifference ==
    ASSUME NEW M \in Nat \ {0}, NEW c \in Int, NEW h \in Int, 0 <= h - c, h - c < M
    PROVE  ((h % M) - (c % M)) % M = h - c
<1> DEFINE r == c % M
           s == h % M
<1>1. PICK p \in Int : c = p * M + r
  BY DivMod
<1>2. PICK q \in Int : h = q * M + s
  BY DivMod
<1>3. r \in Int /\ s \in Int
  BY DivMod
<1> HIDE DEF r, s
<1> DEFINE z == s - r
<1>z. z \in Int
  BY <1>3
<1> HIDE DEF z
<1> DEFINE u == z % M
<1>4. u \in 0..(M - 1)
  BY <1>z, DivMod
<1>5. PICK t \in Int : z = t * M + u
  BY <1>z, DivMod
<1> HIDE DEF u
<1> DEFINE w == t + (q - p)
<1>6. w \in Int /\ w * M + u = 0 * M + (h - c)
  <2>1. w * M = t * M + (q * M - p * M)
    OBVIOUS
  <2>2. p * M \in Int /\ q * M \in Int /\ t * M \in Int
    OBVIOUS
  <2>3. QED
    BY <1>1, <1>2, <1>3, <1>4, <1>5, <2>1, <2>2 DEF z
<1> HIDE DEF w
<1>7. h - c \in 0..(M - 1)
  OBVIOUS
<1>8. u = h - c
  BY <1>4, <1>6, <1>7, ModUnique
<1>9. QED
  BY <1>8 DEF r, s, z, u

\* Adding the difference of the remainders gives the new remainder.
LEMMA ModAdvance ==
    ASSUME NEW M \in Nat \ {0}, NEW c \in Int, NEW i \in 0..(M - 1)
    PROVE  (c + ((i - (c % M)) % M)) % M = i
<1> DEFINE r == c % M
<1>1. PICK p \in Int : c = p * M + r
  BY DivMod
<1>2. r \in Int
  BY DivMod
<1> HIDE DEF r
<1> DEFINE z == i - r
<1>z. z \in Int
  BY <1>2
<1> HIDE DEF z
<1> DEFINE u == z % M
<1>3. PICK t \in Int : z = t * M + u
  BY <1>z, DivMod
<1>4. u \in Int
  BY <1>z, DivMod
<1> HIDE DEF u
<1> DEFINE v == c + u
<1>v. v \in Int
  BY <1>4
<1> HIDE DEF v
<1> DEFINE y == v % M
<1>5. y \in 0..(M - 1)
  BY <1>v, DivMod
<1>6. PICK x \in Int : v = x * M + y
  BY <1>v, DivMod
<1> HIDE DEF y
<1> DEFINE w == p - t
<1>7. w \in Int /\ w * M + i = x * M + y
  <2>1. w * M = p * M - t * M
    OBVIOUS
  <2>2. p * M \in Int /\ x * M \in Int /\ t * M \in Int
    OBVIOUS
  <2>3. QED
    BY <1>1, <1>2, <1>3, <1>4, <1>5, <1>6, <2>1, <2>2 DEF z, v
<1> HIDE DEF w
<1>8. y = i
  BY <1>5, <1>7, ModUnique
<1>9. QED
  BY <1>8 DEF r, z, u, v, y

\* What Append does to a sequence.
LEMMA AppendFacts ==
    ASSUME NEW S, NEW s \in Seq(S), NEW e \in S
    PROVE  /\ Append(s, e) \in Seq(S)
           /\ Len(Append(s, e)) = Len(s) + 1
           /\ \A i \in 1..Len(s) : Append(s, e)[i] = s[i]
           /\ Append(s, e)[Len(s) + 1] = e
  OBVIOUS

\* What Tail and Head do to a non-empty sequence.
LEMMA TailFacts ==
    ASSUME NEW S, NEW s \in Seq(S), s # <<>>
    PROVE  /\ Head(s) \in S /\ Head(s) = s[1]
           /\ Tail(s) \in Seq(S)
           /\ Len(s) \in Nat \ {0}
           /\ Len(Tail(s)) = Len(s) - 1
           /\ \A i \in 1..Len(Tail(s)) : Tail(s)[i] = s[i + 1]
  OBVIOUS

-----------------------------------------------------------------------------
(* Type correctness. *)

\* ExtendedCounter::update returns a counter.
LEMMA UpdateType ==
    ASSUME NEW c \in [current : Nat, previous : Nat], NEW h \in Nat
    PROVE  Update(c, h % CounterMod) \in [current : Nat, previous : Nat]
<1>1. h % CounterMod \in Nat
  BY RoceAssumption, ModRange
<1>2. ((h % CounterMod) - c.previous) % CounterMod \in Nat
  <2>1. (h % CounterMod) - c.previous \in Int
    BY <1>1
  <2>2. QED
    BY <2>1, RoceAssumption, ModRange
<1>3. QED
  BY <1>1, <1>2 DEF Update

\* The device writes to one of its pages.
LEMMA PageType == ASSUME NEW n \in Nat PROVE PageOf(n) \in PageSet
<1>1. Pages \in Nat \ {0}
  BY RoceAssumption
<1>2. QED
  BY <1>1, ModRange DEF PageOf, PageSet

\* The descriptors in order, as the monitor creates them, are a sequence.
LEMMA DescriptorSequence == [d \in Descriptors |-> d] \in Seq(Descriptors)
  BY RoceAssumption DEF Descriptors

\* Filling in a descriptor keeps the types.
LEMMA FillType ==
    ASSUME TypeOK, dropped' \in Nat, NEW d \in Descriptors, Fill(d)
    PROVE  desc' \in [Descriptors -> Descriptor]
<1>1. PageOf(current) \in PageSet
  BY PageType DEF TypeOK
<1>2. desc[d] \in Descriptor
  BY DEF TypeOK
<1>3. QED
  BY <1>1, <1>2 DEF TypeOK, Fill, Descriptor

\* Taking the oldest ready descriptor keeps the types.
LEMMA TakeFrameType ==
    ASSUME TypeOK, TakeFrame
    PROVE  /\ ready' \in Seq(Descriptors) /\ available' \in Seq(Descriptors)
           /\ desc' \in [Descriptors -> Descriptor]
           /\ dropped' \in Nat /\ replaced' \in Nat
           /\ counter' \in [current : Nat, previous : Nat]
           /\ out' \in [n : Nat, received : Nat, dropped : Nat, host : Nat, frame_number : Nat]
           /\ delivered' \in Nat /\ opPc' \in OperatorPcs
<1>1. Head(ready) \in Descriptors /\ Tail(ready) \in Seq(Descriptors)
  BY TailFacts DEF TypeOK, TakeFrame
<1>2. desc[Head(ready)] \in Descriptor
  BY <1>1 DEF TypeOK
<1>3. counter' \in [current : Nat, previous : Nat]
  BY <1>2, UpdateType DEF TypeOK, TakeFrame, Descriptor
<1>4. out' \in [n : Nat, received : Nat, dropped : Nat, host : Nat, frame_number : Nat]
  BY <1>2, <1>3 DEF TakeFrame, Descriptor
<1>5. /\ ready' = Tail(ready) /\ available' = Append(available, Head(ready))
      /\ desc' = desc /\ dropped' = dropped /\ replaced' = replaced
      /\ delivered' = delivered + 1 /\ opPc' = "clear"
  BY DEF TakeFrame
<1>6. available' \in Seq(Descriptors)
  BY <1>1, <1>5, AppendFacts DEF TypeOK
<1>7. delivered' \in Nat /\ opPc' \in OperatorPcs
  BY <1>5 DEF TypeOK, OperatorPcs
<1>8. QED
  BY <1>1, <1>3, <1>4, <1>5, <1>6, <1>7, Zenon DEF TypeOK

\* The initial state is well typed.
LEMMA InitType == Init => TypeOK
<1> SUFFICES ASSUME Init PROVE TypeOK
  OBVIOUS
<1>1. 0 \in PageSet
  BY RoceAssumption DEF PageSet
<1>2. EmptyDescriptor \in Descriptor
  BY <1>1 DEF EmptyDescriptor, Descriptor
<1>3. /\ data \in [PageSet -> Nat] /\ meta \in [PageSet -> Nat]
      /\ desc \in [Descriptors -> Descriptor]
      /\ counter \in [current : Nat, previous : Nat]
      /\ out \in [n : Nat, received : Nat, dropped : Nat, host : Nat, frame_number : Nat]
  BY <1>2 DEF Init
<1>4. /\ cq \in Seq(Nat) /\ ready \in Seq(Descriptors) /\ available \in Seq(Descriptors)
      /\ recvs \in Nat
  BY RoceAssumption DEF Init
<1>5. QED
  BY <1>3, <1>4 DEF Init, TypeOK, MonitorPcs, OperatorPcs

\* Two empty queues would mean that a descriptor has leaked.
LEMMA NotBothEmpty ==
    ASSUME DescriptorsConserved, monPc = "lock", available = <<>>
    PROVE  ready # <<>>
  BY RoceAssumption DEF DescriptorsConserved

\* The section under ready_mutex_ keeps the types. DropOldest needs to know
\* that ready_ is not empty.
LEMMA QueueType ==
    ASSUME TypeOK, DescriptorsConserved, MonitorQueue
    PROVE  /\ ready' \in Seq(Descriptors) /\ available' \in Seq(Descriptors)
           /\ dropped' \in Nat /\ replaced' \in Nat
           /\ desc' \in [Descriptors -> Descriptor]
<1>1. CASE ready # <<>> /\ (ReplaceReady \/ DropOldest)
  <2>1. Head(ready) \in Descriptors /\ Tail(ready) \in Seq(Descriptors)
    BY <1>1, TailFacts DEF TypeOK
  <2>2. dropped' \in Nat /\ replaced' \in Nat
    <3>1. CASE ReplaceReady
      BY <3>1 DEF TypeOK, ReplaceReady
    <3>2. CASE DropOldest
      BY <3>2 DEF TypeOK, DropOldest
    <3>3. QED
      BY <1>1, <3>1, <3>2
  <2>3. Fill(Head(ready))
    BY <1>1 DEF ReplaceReady, DropOldest
  <2>4. desc' \in [Descriptors -> Descriptor]
    BY <2>1, <2>2, <2>3, FillType
  <2>5. ready' \in Seq(Descriptors)
    BY <1>1, <2>1, AppendFacts DEF ReplaceReady, DropOldest
  <2>6. QED
    BY <1>1, <2>2, <2>4, <2>5 DEF TypeOK, ReplaceReady, DropOldest
<1>2. CASE UseAvailable
  <2>1. Head(available) \in Descriptors /\ Tail(available) \in Seq(Descriptors)
    BY <1>2, TailFacts DEF TypeOK, UseAvailable
  <2>2. dropped' \in Nat /\ replaced' \in Nat
    BY <1>2 DEF TypeOK, UseAvailable
  <2>3. desc' \in [Descriptors -> Descriptor]
    BY <1>2, <2>1, <2>2, FillType DEF UseAvailable
  <2>4. ready' \in Seq(Descriptors)
    BY <1>2, <2>1, AppendFacts DEF TypeOK, UseAvailable
  <2>5. QED
    BY <1>2, <2>1, <2>2, <2>3, <2>4 DEF UseAvailable
<1>3. ~(ready = <<>> /\ DropOldest)
  BY NotBothEmpty DEF MonitorQueue, DropOldest
<1>4. QED
  BY <1>1, <1>2, <1>3 DEF MonitorQueue, ReplaceReady

(* TypeOK in six groups, so that a step is only asked about the groups it  *)
(* changes.                                                                *)

DeviceTypes ==
    /\ streaming \in BOOLEAN
    /\ begun \in Nat /\ ended \in Nat
    /\ data \in [PageSet -> Nat] /\ meta \in [PageSet -> Nat]

VerbsTypes ==
    recvs \in Nat /\ cq \in Seq(Nat) /\ armed \in BOOLEAN /\ event \in BOOLEAN

MonitorTypes == monPc \in MonitorPcs /\ current \in Nat /\ frame_count \in Nat

QueueTypes ==
    /\ consumer_ready \in BOOLEAN
    /\ ready \in Seq(Descriptors) /\ available \in Seq(Descriptors)
    /\ desc \in [Descriptors -> Descriptor]
    /\ dropped \in Nat /\ replaced \in Nat

OutputTypes ==
    /\ counter \in [current : Nat, previous : Nat]
    /\ out \in [n : Nat, received : Nat, dropped : Nat, host : Nat, frame_number : Nat]
    /\ delivered \in Nat

OperatorTypes ==
    /\ opPc \in OperatorPcs /\ running \in BOOLEAN /\ done \in BOOLEAN
    /\ condition \in {"WAIT", "EVENT_WAITING", "EVENT_DONE", "EVENT_NEVER"}

\* The groups are TypeOK.
LEMMA TypeGroups ==
    TypeOK <=> /\ DeviceTypes /\ VerbsTypes /\ MonitorTypes
               /\ QueueTypes /\ OutputTypes /\ OperatorTypes
  BY Zenon DEF TypeOK, DeviceTypes, VerbsTypes, MonitorTypes, QueueTypes, OutputTypes,
               OperatorTypes

\* A group that a step leaves alone keeps its types.
LEMMA TypesKept ==
    /\ DeviceTypes /\ UNCHANGED deviceVars => DeviceTypes'
    /\ VerbsTypes /\ UNCHANGED <<recvs, cq, armed, event>> => VerbsTypes'
    /\ MonitorTypes /\ UNCHANGED <<monPc, current, frame_count>> => MonitorTypes'
    /\ QueueTypes /\ UNCHANGED queueVars => QueueTypes'
    /\ OutputTypes /\ UNCHANGED outputVars => OutputTypes'
    /\ OperatorTypes /\ UNCHANGED <<opPc, running, done, condition>> => OperatorTypes'
<1>1. DeviceTypes /\ UNCHANGED deviceVars => DeviceTypes'
  BY Zenon DEF DeviceTypes, deviceVars
<1>2. VerbsTypes /\ UNCHANGED <<recvs, cq, armed, event>> => VerbsTypes'
  BY Zenon DEF VerbsTypes
<1>3. MonitorTypes /\ UNCHANGED <<monPc, current, frame_count>> => MonitorTypes'
  BY Zenon DEF MonitorTypes
<1>4. QueueTypes /\ UNCHANGED queueVars => QueueTypes'
  BY Zenon DEF QueueTypes, queueVars
<1>5. OutputTypes /\ UNCHANGED outputVars => OutputTypes'
  BY Zenon DEF OutputTypes, outputVars
<1>6. OperatorTypes /\ UNCHANGED <<opPc, running, done, condition>> => OperatorTypes'
  BY Zenon DEF OperatorTypes
<1>7. QED
  BY <1>1, <1>2, <1>3, <1>4, <1>5, <1>6, Zenon

\* Every step keeps the types.
LEMMA NextType == TypeOK /\ DescriptorsConserved /\ [Next]_vars => TypeOK'
<1> SUFFICES ASSUME TypeOK, DescriptorsConserved, [Next]_vars PROVE TypeOK'
  OBVIOUS
<1>0. /\ DeviceTypes /\ VerbsTypes /\ MonitorTypes
      /\ QueueTypes /\ OutputTypes /\ OperatorTypes
  BY TypeGroups, Zenon
<1> SUFFICES /\ DeviceTypes' /\ VerbsTypes' /\ MonitorTypes'
             /\ QueueTypes' /\ OutputTypes' /\ OperatorTypes'
  <2>1. (/\ DeviceTypes /\ VerbsTypes /\ MonitorTypes
         /\ QueueTypes /\ OutputTypes /\ OperatorTypes)' => TypeOK'
    BY TypeGroups, PTL
  <2>2. QED
    BY <2>1, Zenon
<1>1. CASE DeviceBegin
  <2>1. DeviceTypes'
    <3>1. begun' \in Nat
      BY <1>0, <1>1 DEF DeviceTypes, DeviceBegin
    <3>2. data' \in [PageSet -> Nat]
      BY <1>0, <1>1, <3>1 DEF DeviceTypes, DeviceBegin
    <3>3. QED
      BY <1>0, <1>1, <3>1, <3>2, Zenon DEF DeviceTypes, DeviceBegin
  <2>2. /\ UNCHANGED <<recvs, cq, armed, event>> /\ UNCHANGED <<monPc, current, frame_count>>
        /\ UNCHANGED queueVars /\ UNCHANGED outputVars
        /\ UNCHANGED <<opPc, running, done, condition>>
    BY <1>1 DEF DeviceBegin
  <2>3. QED
    BY <1>0, <2>1, <2>2, TypesKept, Zenon
<1>2. CASE DeviceEnd
  <2>1. VerbsTypes'
    <3>1. CASE Completion
      <4>1. cq' \in Seq(Nat)
        BY <1>0, <1>2, <3>1, AppendFacts DEF DeviceTypes, VerbsTypes, DeviceEnd, Completion
      <4>2. recvs' \in Nat
        BY <1>0, <3>1 DEF VerbsTypes, Completion
      <4>3. armed' \in BOOLEAN /\ event' \in BOOLEAN
        BY <1>0, <3>1, Zenon DEF VerbsTypes, Completion
      <4>4. QED
        BY <4>1, <4>2, <4>3, Zenon DEF VerbsTypes
    <3>2. CASE NoCompletion
      BY <1>0, <3>2, TypesKept, Zenon DEF NoCompletion
    <3>3. QED
      BY <1>2, <3>1, <3>2, Zenon DEF DeviceEnd
  <2>2. DeviceTypes'
    BY <1>0, <1>2 DEF DeviceTypes, DeviceEnd
  <2>3. /\ UNCHANGED <<monPc, current, frame_count>>
        /\ UNCHANGED queueVars /\ UNCHANGED outputVars
        /\ UNCHANGED <<opPc, running, done, condition>>
    BY <1>2 DEF DeviceEnd
  <2>4. QED
    BY <1>0, <2>1, <2>2, <2>3, TypesKept, Zenon
<1>3. CASE MonitorUnchanged /\ (MonitorArm \/ MonitorExit \/ MonitorGetEvent \/ MonitorRearm
                                \/ MonitorPollCq \/ MonitorFrameReady \/ MonitorSetDone
                                \/ MonitorRepost)
  <2>1. UNCHANGED deviceVars /\ UNCHANGED outputVars
    BY <1>3 DEF MonitorUnchanged
  <2>2. OperatorTypes'
    BY <1>0, <1>3 DEF OperatorTypes, MonitorUnchanged, MonitorArm, MonitorExit,
         MonitorGetEvent, MonitorRearm, MonitorPollCq, MonitorFrameReady, MonitorSetDone,
         MonitorRepost
  <2>3. QueueTypes'
    <3>1. CASE MonitorArm
      <4>1. UNCHANGED <<consumer_ready, ready, desc, dropped, replaced>>
        BY <3>1 DEF MonitorArm
      <4>2. available' \in Seq(Descriptors)
        BY <3>1, DescriptorSequence, Zenon DEF MonitorArm
      <4>3. QED
        BY <1>0, <4>1, <4>2, Zenon DEF QueueTypes
    <3>2. CASE ~MonitorArm
      <4>1. UNCHANGED queueVars
        BY <1>3, <3>2 DEF MonitorExit, MonitorGetEvent, MonitorRearm, MonitorPollCq,
             MonitorFrameReady, MonitorSetDone, MonitorRepost
      <4>2. QED
        BY <1>0, <4>1, TypesKept, Zenon
    <3>3. QED
      BY <3>1, <3>2
  <2>4. VerbsTypes' /\ MonitorTypes'
    <3>1. CASE MonitorPollCq
      <4>1. cq # <<>> => Head(cq) \in Nat /\ Tail(cq) \in Seq(Nat)
        BY <1>0, TailFacts DEF VerbsTypes
      <4>2. /\ cq' \in Seq(Nat) /\ current' \in Nat /\ frame_count' \in Nat
            /\ monPc' \in MonitorPcs
        <5>1. CASE cq # <<>>
          <6>1. /\ current' = Head(cq) /\ cq' = Tail(cq)
                /\ frame_count' = frame_count + 1 /\ monPc' = "lock"
            BY <3>1, <5>1, Zenon DEF MonitorPollCq
          <6>2. QED
            BY <1>0, <4>1, <5>1, <6>1 DEF MonitorTypes, MonitorPcs
        <5>2. CASE cq = <<>>
          <6>1. current' = current /\ cq' = cq /\ frame_count' = frame_count /\ monPc' = "poll"
            BY <3>1, <5>2 DEF MonitorPollCq
          <6>2. QED
            BY <1>0, <6>1 DEF VerbsTypes, MonitorTypes, MonitorPcs
        <5>3. QED
          BY <5>1, <5>2
      <4>3. UNCHANGED <<recvs, armed, event>>
        BY <3>1 DEF MonitorPollCq
      <4>4. QED
        BY <1>0, <4>2, <4>3, Zenon DEF VerbsTypes, MonitorTypes
    <3>2. CASE MonitorExit
      <4>1. /\ cq' = <<>> /\ recvs' = 0 /\ armed' = FALSE /\ event' = FALSE
            /\ monPc' = "exited" /\ current' = current /\ frame_count' = frame_count
        BY <3>2 DEF MonitorExit
      <4>2. VerbsTypes'
        <5>1. 0 \in Nat /\ <<>> \in Seq(Nat)
          OBVIOUS
        <5>2. QED
          BY <4>1, <5>1, Zenon DEF VerbsTypes
      <4>3. MonitorTypes'
        BY <1>0, <4>1 DEF MonitorTypes, MonitorPcs
      <4>4. QED
        BY <4>2, <4>3
    <3>3. CASE MonitorArm \/ MonitorRearm
      BY <1>0, <3>3 DEF VerbsTypes, MonitorTypes, MonitorPcs, MonitorArm, MonitorRearm
    <3>4. CASE MonitorGetEvent \/ MonitorFrameReady \/ MonitorSetDone
      BY <1>0, <3>4 DEF VerbsTypes, MonitorTypes, MonitorPcs, MonitorGetEvent,
           MonitorFrameReady, MonitorSetDone
    <3>5. CASE MonitorRepost
      BY <1>0, <3>5 DEF VerbsTypes, MonitorTypes, MonitorPcs, MonitorRepost
    <3>6. QED
      BY <1>3, <3>1, <3>2, <3>3, <3>4, <3>5, Zenon
  <2>5. QED
    BY <1>0, <2>1, <2>2, <2>3, <2>4, TypesKept, Zenon
<1>4. CASE MonitorQueue
  <2>1. QueueTypes'
    <3>1. /\ ready' \in Seq(Descriptors) /\ available' \in Seq(Descriptors)
          /\ dropped' \in Nat /\ replaced' \in Nat /\ desc' \in [Descriptors -> Descriptor]
      BY <1>4, QueueType
    <3>2. consumer_ready' = consumer_ready
      BY <1>4 DEF MonitorQueue
    <3>3. QED
      BY <1>0, <3>1, <3>2, Zenon DEF QueueTypes
  <2>2. /\ UNCHANGED deviceVars /\ UNCHANGED outputVars /\ UNCHANGED <<recvs, cq, armed, event>>
        /\ UNCHANGED <<opPc, running, done, condition>>
    BY <1>4 DEF MonitorQueue, MonitorUnchanged
  <2>3. MonitorTypes'
    BY <1>0, <1>4 DEF MonitorTypes, MonitorPcs, MonitorQueue
  <2>4. QED
    BY <1>0, <2>1, <2>2, <2>3, TypesKept, Zenon
<1>5. CASE ComputeTake \/ WaitTake
  <2>1. TakeFrame
    BY <1>5 DEF ComputeTake, WaitTake
  <2>2. /\ ready' \in Seq(Descriptors) /\ available' \in Seq(Descriptors)
        /\ desc' \in [Descriptors -> Descriptor]
        /\ dropped' \in Nat /\ replaced' \in Nat
        /\ counter' \in [current : Nat, previous : Nat]
        /\ out' \in [n : Nat, received : Nat, dropped : Nat, host : Nat, frame_number : Nat]
        /\ delivered' \in Nat /\ opPc' \in OperatorPcs
    BY <2>1, TakeFrameType
  <2>3. consumer_ready' \in BOOLEAN
    BY <1>0, <1>5, Zenon DEF QueueTypes, ComputeTake, WaitTake
  <2>4. QueueTypes' /\ OutputTypes'
    BY <2>2, <2>3, Zenon DEF QueueTypes, OutputTypes
  <2>5. /\ UNCHANGED deviceVars /\ UNCHANGED <<recvs, cq, armed, event>>
        /\ UNCHANGED <<monPc, current, frame_count>>
    BY <1>5 DEF ComputeTake, WaitTake, OperatorUnchanged, deviceVars
  <2>6. UNCHANGED <<running, done, condition>>
    BY <1>5 DEF ComputeTake, WaitTake
  <2>7. OperatorTypes'
    BY <1>0, <2>2, <2>6, Zenon DEF OperatorTypes
  <2>8. QED
    BY <1>0, <2>4, <2>5, <2>7, TypesKept, Zenon
<1>6. CASE \/ OperatorStart \/ OperatorDeviceStart \/ OperatorFramesReady \/ OperatorSetDone
           \/ ComputeWait \/ WaitTimeout \/ ComputeClear \/ OperatorStop
           \/ OperatorDeviceStop \/ OperatorClose \/ OperatorJoin
  <2> USE <1>6 DEF OperatorStart, OperatorDeviceStart, OperatorFramesReady, OperatorSetDone,
           ComputeWait, WaitTimeout, ComputeClear, OperatorStop, OperatorDeviceStop,
           OperatorClose, OperatorJoin
  <2>1. OperatorUnchanged /\ UNCHANGED outputVars
    OBVIOUS
  <2>2. UNCHANGED <<recvs, cq, armed, event>>
    BY <2>1 DEF OperatorUnchanged
  <2>3. DeviceTypes'
    <3>1. streaming' \in BOOLEAN
      BY <1>0, Zenon DEF DeviceTypes
    <3>2. QED
      BY <1>0, <2>1, <3>1, Zenon DEF DeviceTypes, OperatorUnchanged
  <2>4. MonitorTypes'
    <3>1. monPc' \in MonitorPcs
      BY <1>0 DEF MonitorTypes, MonitorPcs
    <3>2. QED
      BY <1>0, <2>1, <3>1, Zenon DEF MonitorTypes, OperatorUnchanged
  <2>5. QueueTypes'
    <3>1. UNCHANGED <<ready, available, desc, dropped, replaced>>
      BY DEF queueVars
    <3>2. consumer_ready' \in BOOLEAN
      BY <1>0, Zenon DEF QueueTypes, queueVars
    <3>3. QED
      BY <1>0, <3>1, <3>2, Zenon DEF QueueTypes
  <2>6. OperatorTypes'
    BY <1>0 DEF OperatorTypes, OperatorPcs
  <2>7. QED
    BY <1>0, <2>1, <2>2, <2>3, <2>4, <2>5, <2>6, TypesKept, Zenon
<1>7. CASE \E d \in Descriptors : CopyMetadata(d)
  <2>1. PICK d \in Descriptors : CopyMetadata(d)
    BY <1>7
  <2>2. desc[d] \in Descriptor
    BY <1>0 DEF QueueTypes
  <2>3. meta[desc[d].page] \in Nat
    BY <1>0, <2>2 DEF DeviceTypes, Descriptor
  <2>4. desc' \in [Descriptors -> Descriptor]
    BY <1>0, <2>1, <2>2, <2>3 DEF QueueTypes, CopyMetadata, Descriptor
  <2>5. /\ UNCHANGED deviceVars /\ UNCHANGED <<recvs, cq, armed, event>>
        /\ UNCHANGED <<monPc, current, frame_count>> /\ UNCHANGED outputVars
        /\ UNCHANGED <<opPc, running, done, condition>>
        /\ UNCHANGED <<consumer_ready, ready, available, dropped, replaced>>
    BY <2>1 DEF CopyMetadata
  <2>6. QueueTypes'
    BY <1>0, <2>4, <2>5, Zenon DEF QueueTypes
  <2>7. QED
    BY <1>0, <2>5, <2>6, TypesKept, Zenon
<1>8. CASE UNCHANGED vars
  <2>1. /\ UNCHANGED deviceVars /\ UNCHANGED <<recvs, cq, armed, event>>
        /\ UNCHANGED <<monPc, current, frame_count>> /\ UNCHANGED queueVars
        /\ UNCHANGED outputVars /\ UNCHANGED <<opPc, running, done, condition>>
    BY <1>8 DEF vars
  <2>2. QED
    BY <1>0, <2>1, TypesKept, Zenon
<1>9. MonitorUnchanged \/ ~(MonitorArm \/ MonitorExit \/ MonitorGetEvent \/ MonitorRearm
                            \/ MonitorPollCq \/ MonitorFrameReady \/ MonitorSetDone
                            \/ MonitorRepost)
  BY Zenon DEF MonitorArm, MonitorExit, MonitorGetEvent, MonitorRearm, MonitorPollCq,
       MonitorFrameReady, MonitorSetDone, MonitorRepost
<1>10. QED
  BY <1>1, <1>2, <1>3, <1>4, <1>5, <1>6, <1>7, <1>8, <1>9, Zenon
     DEF Next, Monitor, Starting, Compute, Stopping

-----------------------------------------------------------------------------
(* The queues. The three properties are inductive together with the types  *)
(* and with the fact that the queues are empty until the monitor thread    *)
(* has created the descriptors.                                            *)

EmptyBeforeArm ==
    /\ monPc \in {"none", "arm"} => ready = <<>> /\ available = <<>>
    /\ opPc = "created" => monPc = "none"

QueueInv == DescriptorsConserved /\ ReadyIsNewest /\ FramesAccounted /\ EmptyBeforeArm

\* Steps that leave the queues and the statistics alone.
LEMMA QueueFrame ==
    ASSUME QueueInv,
           ready' = ready, available' = available, desc' = desc,
           dropped' = dropped, replaced' = replaced, delivered' = delivered,
           Queued' = Queued, opPc' = "created" => monPc' = "none",
           (monPc' \in {"none", "arm"}) <=> (monPc \in {"none", "arm"})
    PROVE  QueueInv'
<1>1. DescriptorsConserved' /\ EmptyBeforeArm'
  BY DEF QueueInv, DescriptorsConserved, EmptyBeforeArm
<1>2. ReadyIsNewest'
  BY DEF QueueInv, ReadyIsNewest
<1>3. FramesAccounted'
  BY DEF QueueInv, FramesAccounted
<1>4. QED
  BY <1>1, <1>2, <1>3 DEF QueueInv

\* Moving the head of a sequence to its end.
LEMMA Rotate ==
    ASSUME NEW S, NEW s \in Seq(S), s # <<>>,
           NEW t, t = Append(Tail(s), Head(s))
    PROVE  /\ t \in Seq(S)
           /\ Len(t) = Len(s) /\ Len(s) \in Nat \ {0}
           /\ \A i \in 1..(Len(s) - 1) : t[i] = s[i + 1]
           /\ t[Len(s)] = s[1]
<1>1. /\ Head(s) \in S /\ Head(s) = s[1] /\ Tail(s) \in Seq(S)
      /\ Len(Tail(s)) = Len(s) - 1 /\ Len(s) \in Nat \ {0}
      /\ \A i \in 1..Len(Tail(s)) : Tail(s)[i] = s[i + 1]
  BY TailFacts
<1>2. /\ t \in Seq(S)
      /\ Len(t) = Len(Tail(s)) + 1
      /\ \A i \in 1..Len(Tail(s)) : t[i] = Tail(s)[i]
      /\ t[Len(Tail(s)) + 1] = Head(s)
  BY <1>1, AppendFacts
<1>3. QED
  BY <1>1, <1>2

\* The queue invariant holds initially.
LEMMA InitQueue == Init => QueueInv
  BY DEF Init, QueueInv, DescriptorsConserved, ReadyIsNewest, FramesAccounted,
         EmptyBeforeArm, Queued

\* Before the mutex is taken the completion in hand is not yet counted.
LEMMA QueuedBefore ==
    ASSUME TypeOK, monPc = "lock", monPc' = "callback", frame_count' = frame_count
    PROVE  Queued = frame_count - 1 /\ Queued' = frame_count
  BY DEF Queued

\* ReplaceReady and DropOldest: the oldest descriptor becomes the newest.
LEMMA ReuseStep ==
    ASSUME TypeOK, QueueInv, MonitorQueue, ready # <<>>, ReplaceReady \/ DropOldest
    PROVE  QueueInv'
<1> DEFINE h == Head(ready)
           N == Len(ready)
<1>1. /\ ready' = Append(Tail(ready), h) /\ available' = available /\ Fill(h)
      /\ monPc = "lock" /\ monPc' = "callback" /\ frame_count' = frame_count
      /\ delivered' = delivered /\ opPc' = opPc
  BY DEF MonitorQueue, ReplaceReady, DropOldest, MonitorUnchanged, outputVars
<1>2. /\ Len(ready') = N /\ N \in Nat \ {0}
      /\ \A i \in 1..(N - 1) : ready'[i] = ready[i + 1]
      /\ ready'[N] = ready[1]
  BY <1>1, Rotate DEF TypeOK
<1>3. h = ready[1] /\ h \in Descriptors
  BY TailFacts DEF TypeOK
<1>4. /\ Len(ready) + Len(available) = QueueSize
      /\ \A i, j \in 1..N : ready[i] = ready[j] => i = j
      /\ \A i, j \in 1..Len(available) : available[i] = available[j] => i = j
      /\ \A i \in 1..N, j \in 1..Len(available) : ready[i] # available[j]
  BY <1>1 DEF QueueInv, DescriptorsConserved
<1>5. Queued = frame_count - 1 /\ Queued' = frame_count /\ frame_count \in Nat
  BY <1>1, QueuedBefore DEF TypeOK
<1>6. DescriptorsConserved'
  <2>1. \A i \in 1..N : \E k \in 1..N : ready'[i] = ready[k] /\ k = (IF i = N THEN 1 ELSE i + 1)
    BY <1>2
  <2>2. ASSUME NEW i \in 1..N, NEW j \in 1..N, ready'[i] = ready'[j]
        PROVE  i = j
    <3>1. PICK k \in 1..N : ready'[i] = ready[k] /\ k = (IF i = N THEN 1 ELSE i + 1)
      BY <2>1
    <3>2. PICK l \in 1..N : ready'[j] = ready[l] /\ l = (IF j = N THEN 1 ELSE j + 1)
      BY <2>1
    <3>3. k = l
      BY <1>4, <2>2, <3>1, <3>2
    <3>4. QED
      BY <1>2, <3>1, <3>2, <3>3
  <2>3. \A i \in 1..N, j \in 1..Len(available) : ready'[i] # available[j]
    BY <1>4, <2>1
  <2>4. \A i, j \in 1..N : ready'[i] = ready'[j] => i = j
    BY <2>2
  <2>5. Len(ready') = N /\ available' = available
    BY <1>1, <1>2
  <2>6. QED
    BY <1>4, <2>3, <2>4, <2>5, Zenon DEF DescriptorsConserved
<1>7. ReadyIsNewest'
  <2>1. SUFFICES ASSUME NEW i \in 1..N
                 PROVE  desc'[ready'[i]].received = frame_count - N + i
    BY <1>2, <1>5 DEF ReadyIsNewest
  <2>2. desc'[h].received = frame_count
    BY <1>1, <1>3 DEF Fill, TypeOK
  <2>3. CASE i = N
    BY <1>2, <1>3, <2>2, <2>3 DEF TypeOK
  <2>4. CASE i # N
    <3>1. i + 1 \in 1..N /\ ready'[i] = ready[i + 1] /\ ready[i + 1] # h
      BY <1>2, <1>3, <1>4, <2>4
    <3>2. ready[i + 1] \in Descriptors
      BY <3>1 DEF TypeOK
    <3>3. desc'[ready[i + 1]] = desc[ready[i + 1]]
      BY <1>1, <1>3, <3>1, <3>2 DEF Fill, TypeOK
    <3>4. desc[ready[i + 1]].received = Queued - N + (i + 1)
      BY <3>1 DEF QueueInv, ReadyIsNewest
    <3>5. QED
      BY <1>2, <1>5, <3>1, <3>3, <3>4
  <2>5. QED
    BY <2>3, <2>4
<1>8. FramesAccounted'
  <2>1. dropped' + replaced' = dropped + replaced + 1
    <3>1. CASE ReplaceReady
      BY <3>1 DEF ReplaceReady, TypeOK
    <3>2. CASE DropOldest
      BY <3>2 DEF DropOldest, TypeOK
    <3>3. QED
      BY <3>1, <3>2
  <2>2. dropped' \in Nat /\ replaced' \in Nat
    BY QueueType DEF QueueInv
  <2>3. /\ Queued = delivered + N + dropped + replaced
        /\ delivered \in Nat /\ dropped \in Nat /\ replaced \in Nat
    BY DEF FramesAccounted, QueueInv, TypeOK
  <2>4. Queued' = delivered' + Len(ready') + dropped' + replaced'
    <3>1. Len(ready') = N /\ N \in Nat /\ delivered' = delivered
      BY <1>1, <1>2
    <3>2. Queued' = Queued + 1
      BY <1>5
    <3>3. (dropped + replaced) + 1 = dropped' + replaced'
      BY <2>1
    <3>4. Queued + 1 = delivered + N + ((dropped + replaced) + 1)
      BY <2>3, <3>1
    <3>5. Queued + 1 = delivered + N + (dropped' + replaced')
      BY <3>3, <3>4
    <3>6. QED
      BY <2>2, <2>3, <3>1, <3>2, <3>5
  <2>5. QED
    BY <2>4 DEF FramesAccounted
<1>9. EmptyBeforeArm'
  BY <1>1 DEF EmptyBeforeArm, QueueInv
<1>10. QED
  BY <1>6, <1>7, <1>8, <1>9 DEF QueueInv

\* UseAvailable: a free descriptor is appended to ready_.
LEMMA UseAvailableStep ==
    ASSUME TypeOK, QueueInv, MonitorQueue, UseAvailable
    PROVE  QueueInv'
<1> DEFINE h == Head(available)
           N == Len(ready)
           A == Len(available)
<1>1. /\ ready' = Append(ready, h) /\ available' = Tail(available) /\ Fill(h)
      /\ available # <<>>
      /\ monPc = "lock" /\ monPc' = "callback" /\ frame_count' = frame_count
      /\ delivered' = delivered /\ dropped' = dropped /\ replaced' = replaced
      /\ opPc' = opPc
  BY DEF MonitorQueue, UseAvailable, MonitorUnchanged, outputVars
<1>2. /\ h \in Descriptors /\ h = available[1] /\ A \in Nat \ {0}
      /\ Len(available') = A - 1
      /\ \A i \in 1..(A - 1) : available'[i] = available[i + 1]
  BY <1>1, TailFacts DEF TypeOK
<1>3. /\ Len(ready') = N + 1 /\ N \in Nat
      /\ \A i \in 1..N : ready'[i] = ready[i]
      /\ ready'[N + 1] = h
  BY <1>1, <1>2, AppendFacts DEF TypeOK
<1>4. /\ N + A = QueueSize
      /\ \A i, j \in 1..N : ready[i] = ready[j] => i = j
      /\ \A i, j \in 1..A : available[i] = available[j] => i = j
      /\ \A i \in 1..N, j \in 1..A : ready[i] # available[j]
  BY <1>1 DEF QueueInv, DescriptorsConserved
<1>5. Queued = frame_count - 1 /\ Queued' = frame_count /\ frame_count \in Nat
  BY <1>1, QueuedBefore DEF TypeOK
<1>6. DescriptorsConserved'
  <2>1. Len(ready') + Len(available') = QueueSize
    BY <1>2, <1>3, <1>4
  <2>2. \A i \in 1..N : ready[i] # h
    BY <1>2, <1>4
  <2>3. \A i, j \in 1..(N + 1) : ready'[i] = ready'[j] => i = j
    BY <1>3, <1>4, <2>2
  <2>4. \A i, j \in 1..(A - 1) : available'[i] = available'[j] => i = j
    BY <1>2, <1>4
  <2>5. \A i \in 1..(N + 1), j \in 1..(A - 1) : ready'[i] # available'[j]
    <3>1. TAKE i \in 1..(N + 1), j \in 1..(A - 1)
    <3>2. available'[j] = available[j + 1] /\ j + 1 \in 1..A /\ j + 1 # 1
      BY <1>2
    <3>3. h # available[j + 1]
      BY <1>2, <1>4, <3>2
    <3>4. QED
      BY <1>3, <1>4, <3>2, <3>3
  <2>6. QED
    BY <1>2, <1>3, <2>1, <2>3, <2>4, <2>5 DEF DescriptorsConserved
<1>7. ReadyIsNewest'
  <2>1. SUFFICES ASSUME NEW i \in 1..(N + 1)
                 PROVE  desc'[ready'[i]].received = frame_count - (N + 1) + i
    BY <1>3, <1>5 DEF ReadyIsNewest
  <2>2. desc'[h].received = frame_count
    BY <1>1, <1>2 DEF Fill, TypeOK
  <2>3. CASE i = N + 1
    BY <1>3, <2>2, <2>3 DEF TypeOK
  <2>4. CASE i # N + 1
    <3>0. i \in 1..N
      BY <1>3, <2>4
    <3>1. i \in 1..N /\ ready'[i] = ready[i] /\ ready[i] # h /\ ready[i] \in Descriptors
      <4>1. ready'[i] = ready[i]
        BY <1>3, <3>0
      <4>2. ready[i] # available[1]
        BY <1>2, <1>4, <3>0
      <4>3. ready[i] \in Descriptors
        BY <3>0 DEF TypeOK
      <4>4. QED
        BY <1>2, <3>0, <4>1, <4>2, <4>3
    <3>2. desc'[ready[i]] = desc[ready[i]]
      BY <1>1, <1>2, <3>1 DEF Fill, TypeOK
    <3>3. desc[ready[i]].received = Queued - N + i
      BY <3>1 DEF QueueInv, ReadyIsNewest
    <3>4. QED
      BY <1>3, <1>5, <3>1, <3>2, <3>3 DEF TypeOK
  <2>5. QED
    BY <2>3, <2>4
<1>8. FramesAccounted'
  <2>1. /\ Queued = delivered + N + dropped + replaced
        /\ delivered \in Nat /\ dropped \in Nat /\ replaced \in Nat
    BY DEF FramesAccounted, QueueInv, TypeOK
  <2>2. Queued' = delivered' + Len(ready') + dropped' + replaced'
    BY <1>1, <1>3, <1>5, <2>1
  <2>3. QED
    BY <2>2 DEF FramesAccounted
<1>9. EmptyBeforeArm'
  BY <1>1 DEF EmptyBeforeArm, QueueInv
<1>10. QED
  BY <1>6, <1>7, <1>8, <1>9 DEF QueueInv

\* get_next_frame: the oldest ready descriptor moves to available_.
LEMMA TakeFrameStep ==
    ASSUME TypeOK, QueueInv, TakeFrame, monPc' = monPc, frame_count' = frame_count
    PROVE  QueueInv'
<1> DEFINE h == Head(ready)
           N == Len(ready)
           A == Len(available)
<1>1. /\ ready # <<>>
      /\ ready' = Tail(ready) /\ available' = Append(available, h) /\ desc' = desc
      /\ delivered' = delivered + 1 /\ dropped' = dropped /\ replaced' = replaced
      /\ opPc' = "clear"
  BY DEF TakeFrame
<1>2. /\ h \in Descriptors /\ h = ready[1] /\ N \in Nat \ {0}
      /\ Len(ready') = N - 1
      /\ \A i \in 1..(N - 1) : ready'[i] = ready[i + 1]
  BY <1>1, TailFacts DEF TypeOK
<1>3. /\ Len(available') = A + 1 /\ A \in Nat
      /\ \A i \in 1..A : available'[i] = available[i]
      /\ available'[A + 1] = h
  BY <1>1, <1>2, AppendFacts DEF TypeOK
<1>4. /\ N + A = QueueSize /\ monPc \notin {"none", "arm"}
      /\ \A i, j \in 1..N : ready[i] = ready[j] => i = j
      /\ \A i, j \in 1..A : available[i] = available[j] => i = j
      /\ \A i \in 1..N, j \in 1..A : ready[i] # available[j]
  BY <1>1 DEF QueueInv, DescriptorsConserved, EmptyBeforeArm
<1>5. Queued' = Queued
  BY DEF Queued
<1>6. DescriptorsConserved'
  <2>1. Len(ready') + Len(available') = QueueSize
    BY <1>2, <1>3, <1>4
  <2>2. \A i, j \in 1..(N - 1) : ready'[i] = ready'[j] => i = j
    BY <1>2, <1>4
  <2>3. \A j \in 1..A : h # available[j]
    BY <1>2, <1>4
  <2>4. \A i, j \in 1..(A + 1) : available'[i] = available'[j] => i = j
    BY <1>3, <1>4, <2>3
  <2>5. \A i \in 1..(N - 1), j \in 1..(A + 1) : ready'[i] # available'[j]
    <3>1. TAKE i \in 1..(N - 1), j \in 1..(A + 1)
    <3>2. ready'[i] = ready[i + 1] /\ i + 1 \in 1..N /\ i + 1 # 1
      BY <1>2
    <3>3. ready[i + 1] # h
      BY <1>2, <1>4, <3>2
    <3>4. QED
      BY <1>3, <1>4, <3>2, <3>3
  <2>6. QED
    BY <1>2, <1>3, <2>1, <2>2, <2>4, <2>5 DEF DescriptorsConserved
<1>7. ReadyIsNewest'
  <2>1. SUFFICES ASSUME NEW i \in 1..(N - 1)
                 PROVE  desc[ready'[i]].received = Queued - (N - 1) + i
    BY <1>1, <1>2, <1>5 DEF ReadyIsNewest
  <2>2. i + 1 \in 1..N /\ ready'[i] = ready[i + 1]
    BY <1>2
  <2>3. desc[ready[i + 1]].received = Queued - N + (i + 1)
    BY <2>2 DEF QueueInv, ReadyIsNewest
  <2>4. Queued \in Int
    BY DEF Queued, TypeOK
  <2>5. QED
    BY <1>2, <2>2, <2>3, <2>4
<1>8. FramesAccounted'
  <2>1. /\ Queued = delivered + N + dropped + replaced
        /\ delivered \in Nat /\ dropped \in Nat /\ replaced \in Nat
    BY DEF FramesAccounted, QueueInv, TypeOK
  <2>2. Queued' = delivered' + Len(ready') + dropped' + replaced'
    BY <1>1, <1>2, <1>5, <2>1
  <2>3. QED
    BY <2>2 DEF FramesAccounted
<1>9. EmptyBeforeArm'
  BY <1>1, <1>4 DEF EmptyBeforeArm
<1>10. QED
  BY <1>6, <1>7, <1>8, <1>9 DEF QueueInv

\* The monitor thread creates the descriptors.
LEMMA ArmStep == ASSUME TypeOK, QueueInv, MonitorArm PROVE QueueInv'
<1>1. /\ ready = <<>> /\ ready' = <<>> /\ available' = [d \in Descriptors |-> d]
      /\ monPc = "arm" /\ monPc' = "poll" /\ frame_count' = frame_count
      /\ delivered' = delivered /\ dropped' = dropped /\ replaced' = replaced
      /\ opPc' = opPc /\ opPc # "created"
  BY DEF MonitorArm, MonitorUnchanged, outputVars, QueueInv, EmptyBeforeArm
<1>2. /\ Len(ready') = 0 /\ Len(ready) = 0 /\ Len(available') = QueueSize
      /\ \A i \in 1..QueueSize : available'[i] = i
  BY <1>1, RoceAssumption, DescriptorSequence DEF Descriptors
<1>3. DescriptorsConserved'
  BY <1>2, RoceAssumption DEF DescriptorsConserved
<1>4. Queued' = Queued
  BY <1>1 DEF Queued
<1>5. ReadyIsNewest' /\ FramesAccounted'
  BY <1>1, <1>2, <1>4 DEF ReadyIsNewest, FramesAccounted, QueueInv
<1>6. EmptyBeforeArm'
  BY <1>1 DEF EmptyBeforeArm
<1>7. QED
  BY <1>3, <1>5, <1>6 DEF QueueInv

\* The CUDA stream changes neither the queues nor the frame numbers.
LEMMA CopyStep ==
    ASSUME TypeOK, QueueInv, NEW d \in Descriptors, CopyMetadata(d)
    PROVE  QueueInv'
<1>1. /\ ready' = ready /\ available' = available /\ dropped' = dropped
      /\ replaced' = replaced /\ delivered' = delivered /\ monPc' = monPc
      /\ frame_count' = frame_count /\ opPc' = opPc
  BY DEF CopyMetadata, outputVars
<1>2. \A e \in Descriptors : desc'[e].received = desc[e].received
  BY DEF CopyMetadata, TypeOK, Descriptor
<1>3. Queued' = Queued
  BY <1>1 DEF Queued
<1>4. \A i \in 1..Len(ready) : ready[i] \in Descriptors
  BY DEF TypeOK
<1>5. ReadyIsNewest'
  BY <1>1, <1>2, <1>3, <1>4 DEF QueueInv, ReadyIsNewest
<1>6. DescriptorsConserved' /\ EmptyBeforeArm' /\ FramesAccounted'
  BY <1>1, <1>3 DEF QueueInv, DescriptorsConserved, EmptyBeforeArm, FramesAccounted
<1>7. QED
  BY <1>5, <1>6 DEF QueueInv

\* Every step keeps the queue invariant.
LEMMA NextQueue == TypeOK /\ QueueInv /\ [Next]_vars => QueueInv'
<1> SUFFICES ASSUME TypeOK, QueueInv, [Next]_vars PROVE QueueInv'
  OBVIOUS
<1>1. CASE MonitorQueue
  <2>1. CASE UseAvailable
    BY <1>1, <2>1, UseAvailableStep
  <2>2. CASE ReplaceReady \/ DropOldest
    <3>1. ready # <<>>
      BY <1>1, <2>2, NotBothEmpty DEF MonitorQueue, ReplaceReady, DropOldest, QueueInv
    <3>2. QED
      BY <1>1, <2>2, <3>1, ReuseStep
  <2>3. QED
    BY <1>1, <2>1, <2>2 DEF MonitorQueue
<1>2. CASE MonitorArm
  BY <1>2, ArmStep
<1>3. CASE \E d \in Descriptors : CopyMetadata(d)
  BY <1>3, CopyStep
<1>4. CASE ComputeTake \/ WaitTake
  <2>1. TakeFrame /\ monPc' = monPc /\ frame_count' = frame_count
    BY <1>4 DEF ComputeTake, WaitTake, OperatorUnchanged
  <2>2. QED
    BY <2>1, TakeFrameStep
<1>5. ASSUME /\ ready' = ready /\ available' = available /\ desc' = desc
             /\ dropped' = dropped /\ replaced' = replaced /\ delivered' = delivered
             /\ Queued' = Queued
             /\ opPc' = "created" => monPc' = "none"
             /\ (monPc' \in {"none", "arm"}) <=> (monPc \in {"none", "arm"})
      PROVE  QueueInv'
  BY <1>5, QueueFrame
<1>6. opPc = "created" => monPc = "none"
  BY DEF QueueInv, EmptyBeforeArm
<1>7. CASE DeviceBegin \/ DeviceEnd
  BY <1>5, <1>6, <1>7 DEF DeviceBegin, DeviceEnd, queueVars, outputVars, Queued
<1>8. CASE MonitorPollCq
  <2>1. Queued' = Queued
    BY <1>8 DEF MonitorPollCq, Queued, TypeOK
  <2>2. QED
    BY <1>5, <1>6, <1>8, <2>1 DEF MonitorPollCq, MonitorUnchanged, queueVars, outputVars
<1>9. CASE \/ MonitorExit \/ MonitorGetEvent \/ MonitorRearm \/ MonitorFrameReady
           \/ MonitorSetDone \/ MonitorRepost
  BY <1>5, <1>6, <1>9 DEF MonitorExit, MonitorGetEvent, MonitorRearm, MonitorFrameReady,
       MonitorSetDone, MonitorRepost, MonitorUnchanged, queueVars, outputVars, Queued
<1>10. CASE OperatorStart
  BY <1>5, <1>6, <1>10 DEF OperatorStart, OperatorUnchanged, queueVars, outputVars, Queued
<1>11. CASE \/ OperatorDeviceStart \/ OperatorFramesReady \/ OperatorSetDone
            \/ WaitTimeout \/ ComputeClear \/ OperatorStop
            \/ OperatorDeviceStop \/ OperatorClose \/ OperatorJoin
  BY <1>5, <1>11 DEF OperatorDeviceStart, OperatorFramesReady, OperatorSetDone,
       WaitTimeout, ComputeClear, OperatorStop, OperatorDeviceStop, OperatorClose,
       OperatorJoin, OperatorUnchanged, queueVars, outputVars, Queued
<1>12. CASE ComputeWait
  BY <1>5, <1>12 DEF ComputeWait, OperatorUnchanged, outputVars, Queued
<1>13. CASE UNCHANGED vars
  BY <1>5, <1>6, <1>13 DEF vars, queueVars, outputVars, Queued
<1>14. QED
  BY <1>1, <1>2, <1>3, <1>4, <1>7, <1>8, <1>9, <1>10, <1>11, <1>12, <1>13
     DEF Next, Monitor, Starting, Compute, Stopping

-----------------------------------------------------------------------------
(* The theorems. *)

\* The types and the queue invariant hold together in every reachable state.
THEOREM QueueInvariant == SafetySpec => [](TypeOK /\ QueueInv)
<1>1. Init => TypeOK /\ QueueInv
  BY InitType, InitQueue
<1>2. TypeOK /\ QueueInv /\ [Next]_vars => (TypeOK /\ QueueInv)'
  BY NextType, NextQueue DEF QueueInv
<1>3. QED
  BY <1>1, <1>2, PTL DEF SafetySpec

\* The state of the receiver and of the operator keeps its types.
THEOREM TypeCorrect == SafetySpec => []TypeOK
  BY QueueInvariant, PTL

\* blocking_monitor and get_next_frame neither leak nor duplicate descriptors.
THEOREM DescriptorsAreConserved == SafetySpec => []DescriptorsConserved
<1>1. TypeOK /\ QueueInv => DescriptorsConserved
  BY DEF QueueInv
<1>2. QED
  BY <1>1, QueueInvariant, PTL

\* ready_ always holds the newest completions in order.
THEOREM ReadyHoldsNewest == SafetySpec => []ReadyIsNewest
<1>1. TypeOK /\ QueueInv => ReadyIsNewest
  BY DEF QueueInv
<1>2. QED
  BY <1>1, QueueInvariant, PTL

\* Every frame is delivered, waiting, counted as dropped or was replaced.
THEOREM EveryFrameAccounted == SafetySpec => []FramesAccounted
<1>1. TypeOK /\ QueueInv => FramesAccounted
  BY DEF QueueInv
<1>2. QED
  BY <1>1, QueueInvariant, PTL

\* ready_ and available_ are correct after any number of frames, for every
\* queue size and page count.
THEOREM QueueIsCorrect == SafetySpec => []QueueCorrect
<1>1. TypeOK /\ QueueInv => QueueCorrect
  BY DEF QueueInv, QueueCorrect
<1>2. QED
  BY <1>1, QueueInvariant, PTL

-----------------------------------------------------------------------------
(* Scheduling: frame_ready(), compute() and stop() share the condition     *)
(* without a lock.                                                         *)

\* running_ is TRUE from start() to stop(); a compute() that waits was called
\* because the condition was EVENT_DONE, and nobody else clears it.
WakeupInv ==
    /\ NoLostWakeup
    /\ opPc \in {"device_start", "check", "set_done", "idle", "waiting", "clear"} => running
    /\ opPc = "waiting" => condition = "EVENT_DONE"

\* The wake-up invariant holds initially.
LEMMA InitWakeup == Init => WakeupInv
  BY DEF Init, WakeupInv, NoLostWakeup

\* Every step keeps the wake-up invariant.
LEMMA NextWakeup == WakeupInv /\ [Next]_vars => WakeupInv'
<1> SUFFICES ASSUME WakeupInv, [Next]_vars PROVE WakeupInv'
  OBVIOUS
<1> USE DEF WakeupInv, NoLostWakeup
<1>1. CASE UNCHANGED <<opPc, condition, ready, monPc, running>>
  BY <1>1
<1>2. CASE DeviceBegin \/ DeviceEnd \/ \E d \in Descriptors : CopyMetadata(d)
  BY <1>1, <1>2 DEF DeviceBegin, DeviceEnd, CopyMetadata, queueVars
<1>3. CASE MonitorArm \/ MonitorExit \/ MonitorGetEvent \/ MonitorRearm \/ MonitorPollCq
           \/ MonitorRepost
  BY <1>3 DEF MonitorArm, MonitorExit, MonitorGetEvent, MonitorRearm, MonitorPollCq,
       MonitorRepost, MonitorUnchanged, queueVars
<1>4. CASE MonitorQueue
  BY <1>4 DEF MonitorQueue, MonitorUnchanged
<1>5. CASE MonitorFrameReady \/ MonitorSetDone
  BY <1>5 DEF MonitorFrameReady, MonitorSetDone, MonitorUnchanged, queueVars
<1>6. CASE ComputeTake \/ WaitTake
  BY <1>6 DEF ComputeTake, WaitTake, TakeFrame
<1>7. CASE ComputeWait \/ WaitTimeout \/ ComputeClear
  BY <1>7 DEF ComputeWait, WaitTimeout, ComputeClear, queueVars
<1>8. CASE OperatorFramesReady \/ OperatorSetDone
  BY <1>8 DEF OperatorFramesReady, OperatorSetDone, queueVars
<1>9. CASE Starting \/ OperatorStop \/ Stopping
  BY <1>9 DEF Starting, Stopping, OperatorStart, OperatorDeviceStart, OperatorStop,
       OperatorDeviceStop, OperatorClose, OperatorJoin, queueVars
<1>10. CASE UNCHANGED vars
  BY <1>1, <1>10 DEF vars, queueVars
<1>11. QED
  BY <1>2, <1>3, <1>4, <1>5, <1>6, <1>7, <1>8, <1>9, <1>10, Zenon
     DEF Next, Monitor, Starting, Compute, Stopping

\* No frame waits for an operator that will not be scheduled.
THEOREM NoWakeupIsLost == SafetySpec => []NoLostWakeup
<1>1. WakeupInv => NoLostWakeup
  BY DEF WakeupInv
<1>2. QED
  BY <1>1, InitWakeup, NextWakeup, PTL DEF SafetySpec

\* EVENT_NEVER is only set when both threads have come to their end.
NeverInv == condition = "EVENT_NEVER" => opPc = "stopped" /\ monPc = "exited"

\* Where a step can change the condition.
LEMMA ConditionChanges ==
    ASSUME [Next]_vars, condition' # condition
    PROVE  \/ monPc = "set_done" /\ condition' = "EVENT_DONE"
           \/ opPc \in {"set_done", "clear"} /\ condition' \in {"EVENT_DONE", "EVENT_WAITING"}
           \/ opPc' = "stopped" /\ monPc' = "exited" /\ condition' = "EVENT_NEVER"
<1>1. CASE Monitor
  BY <1>1 DEF Monitor, MonitorArm, MonitorExit, MonitorGetEvent, MonitorRearm, MonitorPollCq,
       MonitorQueue, MonitorFrameReady, MonitorSetDone, MonitorRepost
<1>2. CASE Compute
  BY <1>2 DEF Compute, OperatorFramesReady, OperatorSetDone, ComputeTake, ComputeWait,
       WaitTake, WaitTimeout, ComputeClear
<1>3. CASE Starting \/ OperatorStop \/ Stopping
  BY <1>3 DEF Starting, Stopping, OperatorStart, OperatorDeviceStart, OperatorStop,
       OperatorDeviceStop, OperatorClose, OperatorJoin
<1>4. ~(DeviceBegin \/ DeviceEnd \/ (\E d \in Descriptors : CopyMetadata(d)) \/ UNCHANGED vars)
  BY DEF DeviceBegin, DeviceEnd, CopyMetadata, vars
<1>5. QED
  BY <1>1, <1>2, <1>3, <1>4, Zenon DEF Next

\* A thread that has come to its end takes no more steps.
LEMMA EndIsFinal ==
    ASSUME [Next]_vars
    PROVE  /\ opPc = "stopped" => opPc' = "stopped"
           /\ monPc = "exited" /\ opPc = "stopped" => monPc' = "exited"
<1>1. CASE Monitor
  BY <1>1 DEF Monitor, MonitorArm, MonitorExit, MonitorGetEvent, MonitorRearm, MonitorPollCq,
       MonitorQueue, MonitorFrameReady, MonitorSetDone, MonitorRepost, MonitorUnchanged
<1>2. CASE Compute
  BY <1>2 DEF Compute, OperatorFramesReady, OperatorSetDone, ComputeTake, ComputeWait,
       WaitTake, WaitTimeout, ComputeClear
<1>3. CASE Starting \/ OperatorStop \/ Stopping
  BY <1>3 DEF Starting, Stopping, OperatorStart, OperatorDeviceStart, OperatorStop,
       OperatorDeviceStop, OperatorClose, OperatorJoin
<1>4. CASE DeviceBegin \/ DeviceEnd \/ (\E d \in Descriptors : CopyMetadata(d))
           \/ UNCHANGED vars
  BY <1>4 DEF DeviceBegin, DeviceEnd, CopyMetadata, vars
<1>5. QED
  BY <1>1, <1>2, <1>3, <1>4, Zenon DEF Next

\* After stop() the operator is never scheduled again: frame_ready(), which
\* may be between its test of running_ and its write when stop() begins, has
\* returned before EVENT_NEVER is set.
THEOREM StopIsNever == SafetySpec => NeverMeansNever
<1>1. Init => NeverInv
  BY DEF Init, NeverInv
<1>2. NeverInv /\ [Next]_vars => NeverInv'
  BY ConditionChanges, EndIsFinal DEF NeverInv
<1>3. NeverInv /\ [Next]_vars => (condition = "EVENT_NEVER" => condition' = "EVENT_NEVER")
  BY ConditionChanges DEF NeverInv
<1>4. QED
  BY <1>1, <1>2, <1>3, PTL DEF SafetySpec, NeverMeansNever

-----------------------------------------------------------------------------
(* Completions and work requests.                                          *)

\* While the monitor is between ibv_req_notify_cq and ibv_get_cq_event, the
\* queue is armed or its event is pending; nothing has been handled before
\* the first arming.
ArmedInv ==
    /\ monPc \in {"poll", "drain", "lock", "callback", "set_done", "repost"} => event \/ armed
    /\ monPc \in {"none", "arm"} => frame_count = 0
    /\ opPc = "created" => monPc = "none"

ServedInv == WorkRequestsConserved /\ StrandedOnlyAtStart /\ ArmedInv

\* The invariant holds initially.
LEMMA InitServed == Init => ServedInv
  BY RoceAssumption
     DEF Init, ServedInv, WorkRequestsConserved, StrandedOnlyAtStart, ArmedInv

\* Steps that leave the completion queue alone.
LEMMA ServedFrame ==
    ASSUME ServedInv, UNCHANGED <<recvs, cq, armed, event, monPc, frame_count>>,
           opPc' = "created" => opPc = "created"
    PROVE  ServedInv'
  BY DEF ServedInv, WorkRequestsConserved, StrandedOnlyAtStart, ArmedInv

\* Every step keeps the invariant.
LEMMA NextServed == TypeOK /\ ServedInv /\ [Next]_vars => ServedInv'
<1> SUFFICES ASSUME TypeOK, ServedInv, [Next]_vars PROVE ServedInv'
  OBVIOUS
<1>0. recvs \in Nat /\ cq \in Seq(Nat) /\ ended \in Nat /\ begun \in Nat /\ frame_count \in Nat
  BY DEF TypeOK
<1>1. CASE DeviceEnd
  <2>1. CASE Completion
    <3>1. /\ recvs > 0 /\ recvs' = recvs - 1 /\ armed' = FALSE /\ event' = (event \/ armed)
          /\ Len(cq') = Len(cq) + 1
      BY <1>0, <1>1, <2>1, AppendFacts DEF DeviceEnd, Completion
    <3>2. monPc' = monPc /\ frame_count' = frame_count /\ opPc' = opPc
      BY <1>1 DEF DeviceEnd
    <3>3. WorkRequestsConserved'
      <4>1. recvs' + Len(cq') = recvs + Len(cq)
        BY <1>0, <3>1
      <4>2. recvs \in Nat /\ Len(cq) \in Nat /\ recvs' \in Nat /\ Len(cq') \in Nat
        BY <1>0, <3>1
      <4>3. QED
        BY <3>2, <4>1, <4>2 DEF ServedInv, WorkRequestsConserved
    <3>4. StrandedOnlyAtStart' /\ ArmedInv'
      BY <3>1, <3>2 DEF ServedInv, StrandedOnlyAtStart, ArmedInv
    <3>5. QED
      BY <3>3, <3>4 DEF ServedInv
  <2>2. CASE NoCompletion
    BY <1>1, <2>2, ServedFrame DEF DeviceEnd, NoCompletion
  <2>3. QED
    BY <1>1, <2>1, <2>2, Zenon DEF DeviceEnd
<1>2. CASE MonitorPollCq
  <2>1. UNCHANGED <<recvs, armed, event, opPc>> /\ monPc = "drain"
    BY <1>2 DEF MonitorPollCq, MonitorUnchanged
  <2>2. CASE cq # <<>>
    <3>1. Len(cq') = Len(cq) - 1 /\ Len(cq) \in Nat \ {0} /\ monPc' = "lock"
      BY <1>0, <1>2, <2>2, TailFacts DEF MonitorPollCq
    <3>2. WorkRequestsConserved'
      BY <1>0, <2>1, <3>1 DEF ServedInv, WorkRequestsConserved
    <3>3. QED
      BY <2>1, <3>1, <3>2 DEF ServedInv, StrandedOnlyAtStart, ArmedInv
  <2>3. CASE cq = <<>>
    <3>1. monPc' = "poll" /\ cq' = cq /\ frame_count' = frame_count
      BY <1>2, <2>3 DEF MonitorPollCq
    <3>2. QED
      BY <2>1, <2>3, <3>1 DEF ServedInv, WorkRequestsConserved, StrandedOnlyAtStart, ArmedInv
  <2>4. QED
    BY <2>2, <2>3
<1>3. CASE MonitorRepost
  <2>1. /\ recvs' = recvs + 1 /\ monPc = "repost" /\ monPc' = "drain"
        /\ UNCHANGED <<cq, armed, event, opPc, frame_count>>
    BY <1>3 DEF MonitorRepost, MonitorUnchanged
  <2>2. WorkRequestsConserved'
    BY <1>0, <2>1 DEF ServedInv, WorkRequestsConserved
  <2>3. QED
    BY <2>1, <2>2 DEF ServedInv, StrandedOnlyAtStart, ArmedInv
<1>4. CASE MonitorArm \/ MonitorExit \/ MonitorGetEvent \/ MonitorRearm
  <2>1. WorkRequestsConserved'
    BY <1>4 DEF ServedInv, WorkRequestsConserved, MonitorArm, MonitorExit, MonitorGetEvent,
         MonitorRearm
  <2>2. StrandedOnlyAtStart'
    BY <1>4 DEF ServedInv, ArmedInv, StrandedOnlyAtStart, MonitorArm, MonitorExit,
         MonitorGetEvent, MonitorRearm
  <2>3. ArmedInv'
    BY <1>4 DEF ServedInv, ArmedInv, MonitorArm, MonitorExit, MonitorGetEvent, MonitorRearm,
         MonitorUnchanged
  <2>4. QED
    BY <2>1, <2>2, <2>3 DEF ServedInv
<1>5. CASE MonitorQueue \/ MonitorFrameReady \/ MonitorSetDone
  <2>1. /\ UNCHANGED <<recvs, cq, armed, event, opPc, frame_count>>
        /\ monPc \in {"lock", "callback", "set_done"}
        /\ monPc' \in {"callback", "set_done", "repost"}
    BY <1>5 DEF MonitorQueue, MonitorFrameReady, MonitorSetDone, MonitorUnchanged
  <2>2. QED
    BY <2>1 DEF ServedInv, WorkRequestsConserved, StrandedOnlyAtStart, ArmedInv
<1>6. CASE OperatorStart
  <2>1. /\ UNCHANGED <<recvs, cq, armed, event, frame_count>>
        /\ opPc = "created" /\ monPc' = "arm" /\ opPc' = "device_start"
    BY <1>6 DEF OperatorStart, OperatorUnchanged
  <2>2. QED
    BY <2>1 DEF ServedInv, WorkRequestsConserved, StrandedOnlyAtStart, ArmedInv
<1>7. CASE \/ OperatorDeviceStart \/ OperatorStop \/ Stopping \/ Compute
  <2>1. OperatorUnchanged /\ monPc' = monPc /\ opPc' # "created"
    BY <1>7 DEF OperatorDeviceStart, OperatorStop, Stopping, OperatorDeviceStop, OperatorClose,
         OperatorJoin, Compute, OperatorFramesReady, OperatorSetDone, ComputeTake, ComputeWait,
         WaitTake, WaitTimeout, ComputeClear, TakeFrame
  <2>2. QED
    BY <2>1, ServedFrame DEF OperatorUnchanged
<1>8. CASE DeviceBegin \/ (\E d \in Descriptors : CopyMetadata(d)) \/ UNCHANGED vars
  BY <1>8, ServedFrame DEF DeviceBegin, CopyMetadata, vars
<1>9. QED
  BY <1>1, <1>2, <1>3, <1>4, <1>5, <1>6, <1>7, <1>8, Zenon DEF Next, Monitor, Starting

\* Receiving never dries up: no completion is left in the queue while the
\* monitor sleeps, and no work request is lost, for any number of either.
THEOREM CompletionsAreServed == SafetySpec => []CompletionsServed
<1>1. ServedInv => CompletionsServed
  BY DEF ServedInv, CompletionsServed
<1>2. QED
  BY <1>1, InitServed, NextServed, TypeCorrect, PTL DEF SafetySpec

-----------------------------------------------------------------------------
(* Frames and pages: what a waiting descriptor points to.                  *)

\* Frames that ended without a completion the monitor will ever see.
Unseen == ended - (frame_count + Len(cq))

\* The k-th completion is for frame n, and is still on its way to compute():
\* it waits in ready_, is being handled, or is in the completion queue.
InPipe(k, n) ==
    \/ \E i \in 1..Len(ready) : desc[ready[i]].received = k /\ desc[ready[i]].n = n
    \/ monPc = "lock" /\ frame_count = k /\ current = n
    \/ \E i \in 1..Len(cq) : frame_count + i = k /\ cq[i] = n

\* Frames without a completion push the frame number of the k-th completion
\* up, by no more than there were of them.
PipeCounts ==
    /\ frame_count + Len(cq) <= ended
    /\ \A k, n \in Nat : InPipe(k, n) => k <= n /\ n <= k + Unseen

\* Frames come through in the order the device sent them.
PipeOrdered ==
    /\ out.n <= ended
    /\ \A k, n \in Nat : InPipe(k, n) => out.n < n
    /\ \A k, n, l, m \in Nat : InPipe(k, n) /\ InPipe(l, m) /\ k < l => n < m

\* A descriptor in use points to the page of its frame.
PagesInv == \A d \in Descriptors : desc[d].n = 0 \/ desc[d].page = PageOf(desc[d].n)

\* The device works on one frame at a time, and a page keeps the payload of
\* the last frame written to it.
DeviceInv ==
    /\ ended <= begun /\ begun <= ended + 1
    /\ \A n \in 1..begun : begun - n < Pages => data[PageOf(n)] = n

\* The invariants hold initially.
LEMMA InitFrames == Init => DeviceInv /\ PipeCounts /\ PipeOrdered /\ PagesInv
  BY DEF Init, DeviceInv, PipeCounts, PipeOrdered, PagesInv, InPipe, Unseen, EmptyDescriptor

\* Every step keeps the device's invariant.
LEMMA NextDevice == TypeOK /\ DeviceInv /\ [Next]_vars => DeviceInv'
<1> SUFFICES ASSUME TypeOK, DeviceInv, [Next]_vars PROVE DeviceInv'
  OBVIOUS
<1>0. /\ ended \in Nat /\ begun \in Nat /\ data \in [PageSet -> Nat]
      /\ Pages \in Nat \ {0}
  BY RoceAssumption DEF TypeOK
<1>1. CASE DeviceBegin
  <2>1. /\ begun = ended /\ begun' = begun + 1 /\ ended' = ended
        /\ data' = [data EXCEPT ![PageOf(begun + 1)] = begun + 1]
    BY <1>1 DEF DeviceBegin
  <2>2. ASSUME NEW n \in 1..begun', begun' - n < Pages
        PROVE  data'[PageOf(n)] = n
    <3>1. PageOf(n) \in PageSet /\ PageOf(begun + 1) \in PageSet
      BY <1>0, <2>1, PageType
    <3>2. CASE n = begun + 1
      BY <1>0, <2>1, <3>1, <3>2
    <3>3. CASE n # begun + 1
      <4>1. n \in 1..begun /\ begun - n < Pages
        BY <1>0, <2>1, <2>2, <3>3
      <4>2. data[PageOf(n)] = n
        BY <4>1 DEF DeviceInv
      <4>3. (n - 1) % Pages # begun % Pages
        <5>1. n - 1 < begun /\ begun - (n - 1) < Pages
          BY <1>0, <2>1, <2>2, <4>1
        <5>2. \A a, b \in Int : a < b /\ b - a < Pages => a % Pages # b % Pages
          BY <1>0, ModDistinct
        <5>3. n - 1 \in Int /\ begun \in Int
          BY <1>0, <4>1
        <5>4. QED
          BY <5>1, <5>2, <5>3
      <4>4. PageOf(n) # PageOf(begun + 1)
        <5>1. (begun + 1) - 1 = begun
          BY <1>0
        <5>2. QED
          BY <4>3, <5>1 DEF PageOf
      <4>5. QED
        BY <1>0, <2>1, <3>1, <4>2, <4>4
    <3>4. QED
      BY <3>2, <3>3
  <2>3. QED
    BY <1>0, <2>1, <2>2 DEF DeviceInv
<1>2. CASE DeviceEnd
  BY <1>0, <1>2 DEF DeviceInv, DeviceEnd
<1>3. CASE UNCHANGED <<begun, ended, data>>
  BY <1>3 DEF DeviceInv
<1>4. CASE Monitor
  <2>1. MonitorUnchanged
    BY <1>4 DEF Monitor, MonitorArm, MonitorExit, MonitorGetEvent, MonitorRearm,
         MonitorPollCq, MonitorQueue, MonitorFrameReady, MonitorSetDone, MonitorRepost
  <2>2. QED
    BY <1>3, <2>1 DEF MonitorUnchanged, deviceVars
<1>5. CASE Starting \/ Compute \/ OperatorStop \/ Stopping
  <2>1. OperatorUnchanged
    BY <1>5 DEF Starting, OperatorStart, OperatorDeviceStart, OperatorStop, Stopping,
         OperatorDeviceStop, OperatorClose, OperatorJoin, Compute, OperatorFramesReady,
         OperatorSetDone, ComputeTake, ComputeWait, WaitTake, WaitTimeout, ComputeClear
  <2>2. QED
    BY <1>3, <2>1 DEF OperatorUnchanged
<1>6. CASE (\E d \in Descriptors : CopyMetadata(d)) \/ UNCHANGED vars
  BY <1>3, <1>6 DEF CopyMetadata, vars, deviceVars
<1>7. QED
  BY <1>1, <1>2, <1>4, <1>5, <1>6, Zenon DEF Next

\* Which completions are on their way.
LEMMA PipeBounds ==
    ASSUME TypeOK, QueueInv, NEW k \in Nat, NEW n \in Nat, InPipe(k, n)
    PROVE  Queued - Len(ready) < k /\ k <= frame_count + Len(cq) /\ 0 < k
<1>1. /\ frame_count \in Nat /\ Len(cq) \in Nat /\ Len(ready) \in Nat
      /\ delivered \in Nat /\ dropped \in Nat /\ replaced \in Nat
  BY DEF TypeOK
<1>2. Queued \in Int /\ Queued <= frame_count /\ (monPc = "lock" => Queued = frame_count - 1)
  BY <1>1 DEF Queued
<1>3. Queued = delivered + Len(ready) + dropped + replaced
  BY DEF QueueInv, FramesAccounted
<1>4. Queued - Len(ready) >= 0
  BY <1>1, <1>2, <1>3
<1>5. CASE \E i \in 1..Len(ready) : desc[ready[i]].received = k /\ desc[ready[i]].n = n
  <2>1. PICK i \in 1..Len(ready) : desc[ready[i]].received = k
    BY <1>5
  <2>2. k = Queued - Len(ready) + i
    BY <2>1 DEF QueueInv, ReadyIsNewest
  <2>3. QED
    BY <1>1, <1>2, <1>4, <2>2
<1>6. CASE monPc = "lock" /\ frame_count = k /\ current = n
  BY <1>1, <1>2, <1>4, <1>6
<1>7. CASE \E i \in 1..Len(cq) : frame_count + i = k /\ cq[i] = n
  BY <1>1, <1>2, <1>4, <1>7
<1>8. QED
  BY <1>5, <1>6, <1>7 DEF InPipe

\* A step that puts nothing on its way, but may take something off it or let
\* more frames pass unseen.
LEMMA PipeKept ==
    ASSUME TypeOK, TypeOK', PipeCounts, PipeOrdered, ended <= ended',
           frame_count' + Len(cq') <= frame_count + Len(cq), out'.n = out.n,
           \A k, n \in Nat : InPipe(k, n)' => InPipe(k, n)
    PROVE  PipeCounts' /\ PipeOrdered'
<1>0. frame_count \in Nat /\ Len(cq) \in Nat /\ ended \in Nat
  BY DEF TypeOK
<1>1. /\ frame_count \in Nat /\ Len(cq) \in Nat /\ ended \in Nat
      /\ frame_count' \in Nat /\ Len(cq') \in Nat /\ ended' \in Nat /\ out'.n \in Nat
  <2>1. frame_count' \in Nat /\ cq' \in Seq(Nat) /\ ended' \in Nat /\ out'.n \in Nat
    BY DEF TypeOK
  <2>2. QED
    BY <1>0, <2>1
<1>2. Unseen \in Int /\ Unseen' \in Int /\ Unseen <= Unseen'
  BY <1>1 DEF Unseen
<1>3. frame_count' + Len(cq') <= ended'
  BY <1>1 DEF PipeCounts
<1>4. \A k, n \in Nat : InPipe(k, n)' => k <= n /\ n <= k + Unseen'
  <2>1. SUFFICES ASSUME NEW k \in Nat, NEW n \in Nat, InPipe(k, n)'
                 PROVE  k <= n /\ n <= k + Unseen'
    OBVIOUS
  <2>2. k <= n /\ n <= k + Unseen
    BY <2>1 DEF PipeCounts
  <2>3. \A u, v \in Int : u <= v /\ n <= k + u => n <= k + v
    OBVIOUS
  <2>4. QED
    BY <1>2, <2>2, <2>3
<1>5. PipeOrdered'
  <2>1. out'.n <= ended'
    BY <1>1 DEF PipeOrdered
  <2>2. QED
    BY <2>1 DEF PipeOrdered
<1>6. QED
  BY <1>3, <1>4, <1>5 DEF PipeCounts

\* What a descriptor holds is a number.
LEMMA ReadyFields ==
    ASSUME TypeOK, NEW i \in 1..Len(ready)
    PROVE  /\ ready[i] \in Descriptors /\ desc[ready[i]] \in Descriptor
           /\ desc[ready[i]].received \in Nat /\ desc[ready[i]].n \in Nat
<1>1. ready[i] \in Descriptors
  BY DEF TypeOK
<1>2. desc[ready[i]] \in Descriptor
  BY <1>1 DEF TypeOK
<1>3. QED
  BY <1>1, <1>2 DEF Descriptor

\* The write-immediate of frame ended' becomes a completion.
LEMMA CompletionPipe ==
    ASSUME TypeOK, TypeOK', QueueInv, DeviceInv, PipeCounts, PipeOrdered,
           DeviceEnd, Completion
    PROVE  PipeCounts' /\ PipeOrdered'
<1> DEFINE T == frame_count + Len(cq)
<1>1. /\ frame_count \in Nat /\ Len(cq) \in Nat /\ ended \in Nat /\ begun \in Nat
      /\ cq \in Seq(Nat) /\ out.n \in Nat /\ out.n <= ended
  BY DEF TypeOK, PipeOrdered
<1>2. /\ ended' = ended + 1 /\ frame_count' = frame_count /\ out' = out /\ ready' = ready
      /\ desc' = desc /\ monPc' = monPc /\ current' = current
  BY <1>1 DEF DeviceEnd, DeviceInv, queueVars, outputVars
<1>3. /\ Len(cq') = Len(cq) + 1 /\ \A i \in 1..Len(cq) : cq'[i] = cq[i]
      /\ cq'[Len(cq) + 1] = ended + 1
  BY <1>1, <1>2, AppendFacts DEF Completion
<1>4. Unseen' = Unseen /\ Unseen = ended - T /\ T <= ended /\ T \in Nat
  BY <1>1, <1>2, <1>3 DEF Unseen, PipeCounts
<1>5. ASSUME NEW k \in Nat, NEW n \in Nat, InPipe(k, n)'
      PROVE  InPipe(k, n) \/ (k = T + 1 /\ n = ended + 1)
  <2>1. CASE \E i \in 1..Len(cq') : frame_count' + i = k /\ cq'[i] = n
    <3>1. PICK i \in 1..Len(cq') : frame_count' + i = k /\ cq'[i] = n
      BY <2>1
    <3>2. CASE i = Len(cq) + 1
      BY <1>1, <1>2, <1>3, <3>1, <3>2
    <3>3. CASE i # Len(cq) + 1
      <4>1. i \in 1..Len(cq) /\ frame_count + i = k /\ cq[i] = n
        BY <1>1, <1>2, <1>3, <3>1, <3>3
      <4>2. QED
        BY <4>1 DEF InPipe
    <3>4. QED
      BY <3>2, <3>3
  <2>2. CASE ~\E i \in 1..Len(cq') : frame_count' + i = k /\ cq'[i] = n
    BY <1>2, <1>5, <2>2 DEF InPipe
  <2>3. QED
    BY <2>1, <2>2
<1>6. ASSUME NEW k \in Nat, NEW n \in Nat, InPipe(k, n)
      PROVE  k <= T /\ k <= n /\ n <= k + Unseen /\ n <= ended /\ out.n < n
  <2>1. k <= T
    BY <1>6, PipeBounds
  <2>2. k <= n /\ n <= k + Unseen /\ out.n < n
    BY <1>6 DEF PipeCounts, PipeOrdered
  <2>3. QED
    BY <1>1, <1>4, <2>1, <2>2
<1>7. ASSUME NEW k \in Nat, NEW n \in Nat, InPipe(k, n)'
      PROVE  k <= n /\ n <= k + Unseen' /\ out'.n < n
  <2>1. CASE InPipe(k, n)
    BY <1>2, <1>4, <1>6, <2>1
  <2>2. CASE k = T + 1 /\ n = ended + 1
    BY <1>1, <1>2, <1>4, <2>2
  <2>3. QED
    BY <1>5, <1>7, <2>1, <2>2
<1>8. ASSUME NEW k \in Nat, NEW n \in Nat, NEW l \in Nat, NEW m \in Nat,
             InPipe(k, n)', InPipe(l, m)', k < l
      PROVE  n < m
  <2>1. CASE InPipe(k, n) /\ InPipe(l, m)
    BY <1>8, <2>1 DEF PipeOrdered
  <2>2. CASE InPipe(k, n) /\ l = T + 1 /\ m = ended + 1
    BY <1>1, <1>6, <2>2
  <2>3. CASE k = T + 1
    <3>1. l <= T + 1
      BY <1>4, <1>5, <1>6, <1>8
    <3>2. QED
      BY <1>4, <1>8, <2>3, <3>1
  <2>4. QED
    BY <1>5, <1>8, <2>1, <2>2, <2>3
<1>9. (frame_count + Len(cq) <= ended)' /\ (out.n <= ended)'
  BY <1>1, <1>2, <1>3, <1>4
<1>10. QED
  BY <1>7, <1>8, <1>9 DEF PipeCounts, PipeOrdered

\* Which completions are on their way, as a formula that can be primed.
LEMMA PipeBoundsAll ==
    TypeOK /\ QueueInv => \A k, n \in Nat : InPipe(k, n) => Queued - Len(ready) < k
  BY PipeBounds

\* ibv_poll_cq: the oldest completion is now the one being handled.
LEMMA PollPipe ==
    ASSUME TypeOK, MonitorPollCq
    PROVE  /\ frame_count' + Len(cq') = frame_count + Len(cq)
           /\ \A k, n \in Nat : InPipe(k, n)' => InPipe(k, n)
<1>1. frame_count \in Nat /\ cq \in Seq(Nat) /\ Len(cq) \in Nat
  BY DEF TypeOK
<1>2. ready' = ready /\ desc' = desc /\ monPc = "drain"
  BY DEF MonitorPollCq, queueVars
<1>3. CASE cq # <<>>
  <2>1. current' = Head(cq) /\ cq' = Tail(cq) /\ frame_count' = frame_count + 1
    BY <1>3, Zenon DEF MonitorPollCq
  <2>2. /\ Head(cq) = cq[1] /\ Len(cq) \in Nat \ {0} /\ Len(cq') = Len(cq) - 1
        /\ \A i \in 1..Len(cq') : cq'[i] = cq[i + 1]
    BY <1>1, <1>3, <2>1, TailFacts
  <2>3. ASSUME NEW k \in Nat, NEW n \in Nat, InPipe(k, n)'
        PROVE  InPipe(k, n)
    <3>1. CASE \E i \in 1..Len(ready') : desc'[ready'[i]].received = k /\ desc'[ready'[i]].n = n
      BY <1>2, <3>1 DEF InPipe
    <3>2. CASE frame_count' = k /\ current' = n
      <4>1. 1 \in 1..Len(cq) /\ frame_count + 1 = k /\ cq[1] = n
        BY <2>1, <2>2, <3>2
      <4>2. QED
        BY <4>1 DEF InPipe
    <3>3. CASE \E i \in 1..Len(cq') : frame_count' + i = k /\ cq'[i] = n
      <4>1. PICK i \in 1..Len(cq') : frame_count' + i = k /\ cq'[i] = n
        BY <3>3
      <4>2. i + 1 \in 1..Len(cq) /\ frame_count + (i + 1) = k /\ cq[i + 1] = n
        BY <1>1, <2>1, <2>2, <4>1
      <4>3. QED
        BY <4>2 DEF InPipe
    <3>4. QED
      BY <2>3, <3>1, <3>2, <3>3 DEF InPipe
  <2>4. QED
    BY <1>1, <2>1, <2>2, <2>3
<1>4. CASE cq = <<>>
  <2>1. cq' = cq /\ frame_count' = frame_count /\ monPc' = "poll"
    BY <1>4 DEF MonitorPollCq
  <2>2. QED
    BY <1>2, <2>1 DEF InPipe
<1>5. QED
  BY <1>3, <1>4

\* The section under ready_mutex_ files the completion being handled.
LEMMA QueuePipe ==
    ASSUME TypeOK, QueueInv, MonitorQueue
    PROVE  \A k, n \in Nat : InPipe(k, n)' => InPipe(k, n)
<1>1. /\ monPc = "lock" /\ monPc' = "callback" /\ frame_count' = frame_count /\ cq' = cq
  BY DEF MonitorQueue
<1>2. \E h \in Descriptors :
          /\ Fill(h)
          /\ \A i \in 1..Len(ready') :
                 ready'[i] = h \/ \E j \in 1..Len(ready) : ready'[i] = ready[j]
  <2>1. CASE UseAvailable
    <3>1. /\ available # <<>> /\ ready' = Append(ready, Head(available))
          /\ Fill(Head(available))
      BY <2>1 DEF UseAvailable
    <3>2. Head(available) \in Descriptors
      BY <3>1, TailFacts DEF TypeOK
    <3>3. /\ Len(ready') = Len(ready) + 1 /\ Len(ready) \in Nat
          /\ \A i \in 1..Len(ready) : ready'[i] = ready[i]
          /\ ready'[Len(ready) + 1] = Head(available)
      BY <3>1, <3>2, AppendFacts DEF TypeOK
    <3>4. ASSUME NEW i \in 1..Len(ready')
          PROVE  ready'[i] = Head(available) \/ \E j \in 1..Len(ready) : ready'[i] = ready[j]
      BY <3>3
    <3>5. QED
      BY <3>1, <3>2, <3>4
  <2>2. CASE ReplaceReady \/ DropOldest
    <3>1. ready # <<>>
      BY <1>1, <2>2, NotBothEmpty DEF ReplaceReady, DropOldest, QueueInv
    <3>2. ready' = Append(Tail(ready), Head(ready)) /\ Fill(Head(ready))
      BY <2>2 DEF ReplaceReady, DropOldest
    <3>3. Head(ready) \in Descriptors /\ Head(ready) = ready[1]
      BY <3>1, TailFacts DEF TypeOK
    <3>4. /\ Len(ready') = Len(ready) /\ Len(ready) \in Nat \ {0}
          /\ \A i \in 1..(Len(ready) - 1) : ready'[i] = ready[i + 1]
          /\ ready'[Len(ready)] = ready[1]
      BY <3>1, <3>2, Rotate DEF TypeOK
    <3>5. ASSUME NEW i \in 1..Len(ready')
          PROVE  ready'[i] = Head(ready) \/ \E j \in 1..Len(ready) : ready'[i] = ready[j]
      <4>1. CASE i = Len(ready)
        BY <3>3, <3>4, <4>1
      <4>2. CASE i # Len(ready)
        <5>1. i + 1 \in 1..Len(ready) /\ ready'[i] = ready[i + 1]
          BY <3>4, <4>2
        <5>2. QED
          BY <5>1
      <4>3. QED
        BY <4>1, <4>2
    <3>6. QED
      BY <3>2, <3>3, <3>5
  <2>3. QED
    BY <2>1, <2>2 DEF MonitorQueue
<1>3. PICK h \in Descriptors :
          /\ Fill(h)
          /\ \A i \in 1..Len(ready') :
                 ready'[i] = h \/ \E j \in 1..Len(ready) : ready'[i] = ready[j]
  BY <1>2
<1>4. desc'[h].received = frame_count /\ desc'[h].n = current
  BY <1>3 DEF Fill, TypeOK
<1>5. \A e \in Descriptors : e # h => desc'[e] = desc[e]
  BY <1>3 DEF Fill, TypeOK
<1>6. SUFFICES ASSUME NEW k \in Nat, NEW n \in Nat, InPipe(k, n)'
               PROVE  InPipe(k, n)
  OBVIOUS
<1>7. CASE \E i \in 1..Len(ready') : desc'[ready'[i]].received = k /\ desc'[ready'[i]].n = n
  <2>1. PICK i \in 1..Len(ready') : desc'[ready'[i]].received = k /\ desc'[ready'[i]].n = n
    BY <1>7
  <2>2. CASE ready'[i] = h
    BY <1>1, <1>4, <2>1, <2>2 DEF InPipe
  <2>3. CASE ready'[i] # h
    <3>1. PICK j \in 1..Len(ready) : ready'[i] = ready[j]
      BY <1>3, <2>3
    <3>2. ready[j] \in Descriptors
      BY ReadyFields
    <3>3. desc'[ready[j]] = desc[ready[j]]
      BY <1>5, <2>3, <3>1, <3>2
    <3>4. QED
      BY <2>1, <3>1, <3>3 DEF InPipe
  <2>4. QED
    BY <2>2, <2>3
<1>8. CASE \E i \in 1..Len(cq') : frame_count' + i = k /\ cq'[i] = n
  BY <1>1, <1>8 DEF InPipe
<1>9. QED
  BY <1>1, <1>6, <1>7, <1>8 DEF InPipe

\* get_next_frame takes the frame that has been on its way longest.
LEMMA TakePipe ==
    ASSUME TypeOK, TypeOK', QueueInv, QueueInv', PipeCounts, PipeOrdered, TakeFrame,
           UNCHANGED <<ended, frame_count, cq, monPc, current>>
    PROVE  PipeCounts' /\ PipeOrdered' /\ out.n < out'.n
<1> DEFINE h == Head(ready)
           k0 == desc[h].received
           n0 == desc[h].n
<1>1. ready # <<>> /\ ready' = Tail(ready) /\ desc' = desc /\ out'.n = n0
  BY DEF TakeFrame
<1>2. /\ h = ready[1] /\ Len(ready) \in Nat \ {0} /\ Len(ready') = Len(ready) - 1
      /\ \A i \in 1..Len(ready') : ready'[i] = ready[i + 1]
  BY <1>1, TailFacts DEF TypeOK
<1>3. 1 \in 1..Len(ready)
  BY <1>2
<1>4. k0 \in Nat /\ n0 \in Nat
  BY <1>2, <1>3, ReadyFields
<1>5. InPipe(k0, n0)
  BY <1>2, <1>3 DEF InPipe
<1>6. k0 = Queued - Len(ready) + 1
  BY <1>2, <1>3 DEF QueueInv, ReadyIsNewest
<1>7. Queued \in Int /\ Queued' = Queued
  BY DEF Queued, TypeOK
<1>8. ASSUME NEW k \in Nat, NEW n \in Nat, InPipe(k, n)'
      PROVE  InPipe(k, n)
  <2>1. CASE \E i \in 1..Len(ready') : desc'[ready'[i]].received = k /\ desc'[ready'[i]].n = n
    <3>1. PICK i \in 1..Len(ready') : desc'[ready'[i]].received = k /\ desc'[ready'[i]].n = n
      BY <2>1
    <3>2. i + 1 \in 1..Len(ready) /\ ready'[i] = ready[i + 1]
      BY <1>2
    <3>3. QED
      BY <1>1, <3>1, <3>2 DEF InPipe
  <2>2. CASE ~\E i \in 1..Len(ready') : desc'[ready'[i]].received = k /\ desc'[ready'[i]].n = n
    BY <1>8, <2>2 DEF InPipe
  <2>3. QED
    BY <2>1, <2>2
<1>8a. (TypeOK /\ QueueInv)'
          => (\A k, n \in Nat : InPipe(k, n) => Queued - Len(ready) < k)'
  BY PipeBoundsAll, PTL
<1>9. ASSUME NEW k \in Nat, NEW n \in Nat, InPipe(k, n)'
      PROVE  n0 < n
  <2>1. (Queued - Len(ready))' < k
    BY <1>9, <1>8a
  <2>2. k0 < k
    BY <1>2, <1>4, <1>6, <1>7, <2>1
  <2>3. QED
    BY <1>4, <1>5, <1>8, <1>9, <2>2 DEF PipeOrdered
<1>10. Unseen' = Unseen /\ Unseen \in Int /\ Unseen = ended - (frame_count + Len(cq))
  BY DEF Unseen, TypeOK
<1>11. n0 <= ended
  <2>1. n0 <= k0 + Unseen
    BY <1>4, <1>5 DEF PipeCounts
  <2>2. k0 <= frame_count + Len(cq)
    BY <1>4, <1>5, PipeBounds
  <2>3. frame_count \in Nat /\ Len(cq) \in Nat /\ ended \in Nat
    BY DEF TypeOK
  <2>4. QED
    BY <1>4, <1>10, <2>1, <2>2, <2>3
<1>12. PipeCounts'
  <2>1. (frame_count + Len(cq) <= ended)'
    BY DEF PipeCounts
  <2>2. \A k, n \in Nat : InPipe(k, n)' => k <= n /\ n <= k + Unseen'
    BY <1>8, <1>10 DEF PipeCounts
  <2>3. QED
    BY <2>1, <2>2 DEF PipeCounts
<1>13. PipeOrdered'
  <2>1. out'.n <= ended'
    BY <1>1, <1>11
  <2>2. \A k, n \in Nat : InPipe(k, n)' => out'.n < n
    BY <1>1, <1>9
  <2>3. \A k, n, l, m \in Nat : InPipe(k, n)' /\ InPipe(l, m)' /\ k < l => n < m
    BY <1>8 DEF PipeOrdered
  <2>4. QED
    BY <2>1, <2>2, <2>3 DEF PipeOrdered
<1>14. QED
  BY <1>1, <1>4, <1>5, <1>12, <1>13 DEF PipeOrdered

\* What InPipe depends on.
LEMMA PipeSame ==
    ASSUME UNCHANGED <<ready, desc, frame_count, current, cq>>,
           monPc' = "lock" => monPc = "lock"
    PROVE  \A k, n \in Nat : InPipe(k, n)' => InPipe(k, n)
  BY DEF InPipe

\* Every step keeps what is known of the frames on their way.
LEMMA NextPipe ==
    ASSUME TypeOK, TypeOK', QueueInv, QueueInv', DeviceInv, PipeCounts, PipeOrdered, [Next]_vars
    PROVE  PipeCounts' /\ PipeOrdered'
<1>0. frame_count \in Nat /\ Len(cq) \in Nat /\ ended \in Nat /\ begun \in Nat
  BY DEF TypeOK
<1>1. ASSUME UNCHANGED <<ready, desc, frame_count, current, cq, ended, out>>,
             monPc' = "lock" => monPc = "lock"
      PROVE  PipeCounts' /\ PipeOrdered'
  <2>1. \A k, n \in Nat : InPipe(k, n)' => InPipe(k, n)
    BY <1>1, PipeSame
  <2>2. ended <= ended' /\ frame_count' + Len(cq') <= frame_count + Len(cq) /\ out'.n = out.n
    BY <1>0, <1>1
  <2>3. QED
    BY <2>1, <2>2, PipeKept
<1>2. CASE DeviceBegin
  BY <1>1, <1>2 DEF DeviceBegin, queueVars, outputVars
<1>3. CASE DeviceEnd
  <2>1. CASE Completion
    BY <1>3, <2>1, CompletionPipe
  <2>2. CASE NoCompletion
    <3>1. UNCHANGED <<ready, desc, frame_count, current, cq, monPc, out>>
      BY <1>3, <2>2 DEF DeviceEnd, NoCompletion, queueVars, outputVars
    <3>2. ended <= ended'
      BY <1>0, <1>3 DEF DeviceEnd
    <3>3. \A k, n \in Nat : InPipe(k, n)' => InPipe(k, n)
      BY <3>1, PipeSame
    <3>4. frame_count' + Len(cq') <= frame_count + Len(cq) /\ out'.n = out.n
      BY <1>0, <3>1
    <3>5. QED
      BY <3>2, <3>3, <3>4, PipeKept
  <2>3. QED
    BY <1>3, <2>1, <2>2, Zenon DEF DeviceEnd
<1>4. CASE MonitorPollCq
  <2>1. ended' = ended /\ out' = out
    BY <1>4 DEF MonitorPollCq, MonitorUnchanged, deviceVars, outputVars
  <2>2. /\ frame_count' + Len(cq') = frame_count + Len(cq)
        /\ \A k, n \in Nat : InPipe(k, n)' => InPipe(k, n)
    BY <1>4, PollPipe
  <2>3. ended <= ended' /\ frame_count' + Len(cq') <= frame_count + Len(cq) /\ out'.n = out.n
    BY <1>0, <2>1, <2>2
  <2>4. QED
    BY <2>2, <2>3, PipeKept
<1>5. CASE MonitorQueue
  <2>1. UNCHANGED <<ended, out, frame_count, cq>>
    BY <1>5 DEF MonitorQueue, MonitorUnchanged, deviceVars, outputVars
  <2>2. \A k, n \in Nat : InPipe(k, n)' => InPipe(k, n)
    BY <1>5, QueuePipe
  <2>3. ended <= ended' /\ frame_count' + Len(cq') <= frame_count + Len(cq) /\ out'.n = out.n
    BY <1>0, <2>1
  <2>4. QED
    BY <2>2, <2>3, PipeKept
<1>6. CASE MonitorExit
  <2>1. /\ UNCHANGED <<ready, desc, frame_count, current, ended, out>>
        /\ cq' = <<>> /\ monPc' = "exited"
    BY <1>6 DEF MonitorExit, MonitorUnchanged, deviceVars, outputVars, queueVars
  <2>2. Len(cq') = 0
    BY <2>1
  <2>3. \A k, n \in Nat : InPipe(k, n)' => InPipe(k, n)
    BY <2>1, <2>2 DEF InPipe
  <2>4. ended <= ended' /\ frame_count' + Len(cq') <= frame_count + Len(cq) /\ out'.n = out.n
    BY <1>0, <2>1, <2>2
  <2>5. QED
    BY <2>3, <2>4, PipeKept
<1>7. CASE MonitorArm \/ MonitorGetEvent \/ MonitorRearm \/ MonitorFrameReady
           \/ MonitorSetDone \/ MonitorRepost
  BY <1>1, <1>7 DEF MonitorArm, MonitorGetEvent, MonitorRearm, MonitorFrameReady,
       MonitorSetDone, MonitorRepost, MonitorUnchanged, deviceVars, outputVars, queueVars
<1>8. CASE ComputeTake \/ WaitTake
  <2>1. TakeFrame /\ UNCHANGED <<ended, frame_count, cq, monPc, current>>
    BY <1>8 DEF ComputeTake, WaitTake, OperatorUnchanged
  <2>2. QED
    BY <2>1, TakePipe
<1>9. CASE OperatorFramesReady \/ OperatorSetDone \/ ComputeWait \/ WaitTimeout \/ ComputeClear
  BY <1>1, <1>9 DEF OperatorFramesReady, OperatorSetDone, ComputeWait, WaitTimeout,
       ComputeClear, OperatorUnchanged, queueVars, outputVars
<1>10. CASE Starting \/ OperatorStop \/ Stopping
  BY <1>1, <1>10 DEF Starting, Stopping, OperatorStart, OperatorDeviceStart, OperatorStop,
       OperatorDeviceStop, OperatorClose, OperatorJoin, OperatorUnchanged, queueVars, outputVars
<1>11. CASE \E d \in Descriptors : CopyMetadata(d)
  <2>1. PICK d \in Descriptors : CopyMetadata(d)
    BY <1>11
  <2>2. UNCHANGED <<ready, frame_count, current, cq, ended, out, monPc>>
    BY <2>1 DEF CopyMetadata, deviceVars, outputVars
  <2>3. \A e \in Descriptors : desc'[e].received = desc[e].received /\ desc'[e].n = desc[e].n
    BY <2>1 DEF CopyMetadata, TypeOK, Descriptor
  <2>4. \A i \in 1..Len(ready) : ready[i] \in Descriptors
    BY ReadyFields
  <2>5. \A k, n \in Nat : InPipe(k, n)' => InPipe(k, n)
    BY <2>2, <2>3, <2>4 DEF InPipe
  <2>6. ended <= ended' /\ frame_count' + Len(cq') <= frame_count + Len(cq) /\ out'.n = out.n
    BY <1>0, <2>2
  <2>7. QED
    BY <2>5, <2>6, PipeKept
<1>12. CASE UNCHANGED vars
  BY <1>1, <1>12 DEF vars, deviceVars, outputVars, queueVars
<1>13. QED
  BY <1>2, <1>3, <1>4, <1>5, <1>6, <1>7, <1>8, <1>9, <1>10, <1>11, <1>12, Zenon
     DEF Next, Monitor, Compute

\* Only Fill, with a page and a frame that belong together, changes a page.
LEMMA NextPages == TypeOK /\ DescriptorsConserved /\ PagesInv /\ [Next]_vars => PagesInv'
<1> SUFFICES ASSUME TypeOK, DescriptorsConserved, PagesInv, [Next]_vars PROVE PagesInv'
  OBVIOUS
<1>1. ASSUME NEW h \in Descriptors, Fill(h) PROVE PagesInv'
  BY <1>1 DEF PagesInv, Fill, TypeOK
<1>2. CASE UNCHANGED desc
  BY <1>2 DEF PagesInv
<1>3. CASE MonitorQueue
  <2>1. CASE UseAvailable
    BY <1>1, <2>1, TailFacts DEF UseAvailable, TypeOK
  <2>2. CASE ReplaceReady \/ DropOldest
    <3>1. ready # <<>>
      BY <1>3, <2>2, NotBothEmpty DEF MonitorQueue, ReplaceReady, DropOldest
    <3>2. Head(ready) \in Descriptors
      BY <3>1, TailFacts DEF TypeOK
    <3>3. QED
      BY <1>1, <2>2, <3>2 DEF ReplaceReady, DropOldest
  <2>3. QED
    BY <1>3, <2>1, <2>2 DEF MonitorQueue
<1>4. CASE \E d \in Descriptors : CopyMetadata(d)
  <2>1. PICK d \in Descriptors : CopyMetadata(d)
    BY <1>4
  <2>2. \A e \in Descriptors : desc'[e].page = desc[e].page /\ desc'[e].n = desc[e].n
    BY <2>1 DEF CopyMetadata, TypeOK, Descriptor
  <2>3. QED
    BY <2>2 DEF PagesInv
<1>5. CASE MonitorArm \/ MonitorExit \/ MonitorGetEvent \/ MonitorRearm \/ MonitorPollCq
           \/ MonitorFrameReady \/ MonitorSetDone \/ MonitorRepost
  BY <1>2, <1>5 DEF MonitorArm, MonitorExit, MonitorGetEvent, MonitorRearm, MonitorPollCq,
       MonitorFrameReady, MonitorSetDone, MonitorRepost, queueVars
<1>6. CASE Compute
  BY <1>2, <1>6 DEF Compute, OperatorFramesReady, OperatorSetDone, ComputeTake, ComputeWait,
       WaitTake, WaitTimeout, ComputeClear, TakeFrame, queueVars
<1>7. CASE Starting \/ OperatorStop \/ Stopping
  BY <1>2, <1>7 DEF Starting, Stopping, OperatorStart, OperatorDeviceStart, OperatorStop,
       OperatorDeviceStop, OperatorClose, OperatorJoin, queueVars
<1>8. CASE DeviceBegin \/ DeviceEnd \/ UNCHANGED vars
  BY <1>2, <1>8 DEF DeviceBegin, DeviceEnd, vars, queueVars
<1>9. QED
  BY <1>3, <1>4, <1>5, <1>6, <1>7, <1>8, Zenon DEF Next, Monitor

\* Everything that is known of the frames, together.
FramesInv == TypeOK /\ QueueInv /\ DeviceInv /\ PipeCounts /\ PipeOrdered /\ PagesInv

\* The invariants about frames hold together in every reachable state.
THEOREM FramesInvariant == SafetySpec => []FramesInv
<1>1. Init => FramesInv
  BY InitType, InitQueue, InitFrames DEF FramesInv
<1>2. FramesInv /\ [Next]_vars => FramesInv'
  <2> SUFFICES ASSUME FramesInv, [Next]_vars PROVE FramesInv'
    OBVIOUS
  <2>1. TypeOK' /\ QueueInv'
    BY NextType, NextQueue DEF FramesInv, QueueInv
  <2>2. DeviceInv' /\ PagesInv'
    BY NextDevice, NextPages DEF FramesInv, QueueInv
  <2>3. PipeCounts' /\ PipeOrdered'
    BY <2>1, NextPipe DEF FramesInv
  <2>4. QED
    BY <2>1, <2>2, <2>3 DEF FramesInv
<1>3. QED
  BY <1>1, <1>2, PTL DEF SafetySpec

\* With all completions seen, a waiting descriptor points to the page of its
\* frame, and the device has not come round to that page again.
LEMMA IntactWhenSeen == FramesInv => WaitingFrameIntact
<1> SUFFICES ASSUME FramesInv,
                    Queued + Len(cq) + (IF monPc = "lock" THEN 1 ELSE 0) = ended,
                    QueueSize + Len(cq) + (IF monPc = "lock" THEN 1 ELSE 0) < Pages,
                    NEW i \in 1..Len(ready)
             PROVE  data[desc[ready[i]].page] = desc[ready[i]].n
  BY DEF WaitingFrameIntact
<1> DEFINE k == desc[ready[i]].received
           n == desc[ready[i]].n
<1>1. /\ frame_count \in Nat /\ Len(cq) \in Nat /\ ended \in Nat /\ begun \in Nat
      /\ Len(ready) \in Nat /\ Len(available) \in Nat /\ QueueSize \in Nat /\ Pages \in Nat
  BY RoceAssumption DEF FramesInv, TypeOK
<1>2. k \in Nat /\ n \in Nat /\ ready[i] \in Descriptors
  BY ReadyFields DEF FramesInv
<1>3. frame_count + Len(cq) = ended
  BY <1>1 DEF Queued
<1>4. k <= n /\ n <= k + Unseen
  BY <1>2 DEF FramesInv, PipeCounts, InPipe
<1>5. Unseen = 0
  BY <1>1, <1>3 DEF Unseen
<1>6. n = k
  BY <1>2, <1>4, <1>5
<1>7. k = Queued - Len(ready) + i
  BY DEF FramesInv, QueueInv, ReadyIsNewest
<1>8. Queued \in Int /\ Queued <= frame_count
  BY <1>1 DEF Queued
<1>9. 0 < k /\ k <= ended
  <2>1. InPipe(k, n)
    BY DEF InPipe
  <2>2. QED
    BY <1>2, <1>3, <2>1, PipeBounds DEF FramesInv
<1>10. Len(ready) <= QueueSize
  <2>1. ready # <<>>
    BY <1>1 DEF FramesInv, TypeOK
  <2>2. monPc \notin {"none", "arm"}
    BY <2>1 DEF FramesInv, QueueInv, EmptyBeforeArm
  <2>3. Len(ready) + Len(available) = QueueSize
    BY <2>2 DEF FramesInv, QueueInv, DescriptorsConserved
  <2>4. QED
    BY <1>1, <2>3
<1>11. ended <= begun /\ begun <= ended + 1
  BY DEF FramesInv, DeviceInv
<1>12. n \in 1..begun /\ begun - n < Pages
  <2>1. CASE monPc = "lock"
    BY <1>1, <1>2, <1>6, <1>7, <1>8, <1>9, <1>10, <1>11, <2>1
  <2>2. CASE monPc # "lock"
    BY <1>1, <1>2, <1>6, <1>7, <1>8, <1>9, <1>10, <1>11, <2>2
  <2>3. QED
    BY <2>1, <2>2
<1>13. data[PageOf(n)] = n
  BY <1>12 DEF FramesInv, DeviceInv
<1>14. desc[ready[i]].page = PageOf(n)
  BY <1>2, <1>6, <1>9 DEF FramesInv, PagesInv
<1>15. QED
  BY <1>13, <1>14

\* The payload of a waiting frame is the one its metadata describes, as long
\* as no completion was lost and the backlog leaves a page to spare.
THEOREM WaitingFramesAreIntact == SafetySpec => []WaitingFrameIntact
  BY FramesInvariant, IntactWhenSeen, PTL

-----------------------------------------------------------------------------
(* ExtendedCounter.                                                        *)

\* previous_ is what is left of current_ in the narrow type.
CounterInv == counter.previous = counter.current % CounterMod

\* ExtendedCounter::update keeps that, and adds the right difference.
LEMMA UpdateCounter ==
    ASSUME NEW c \in [current : Nat, previous : Nat], NEW h \in Nat,
           c.previous = c.current % CounterMod
    PROVE  LET d == Update(c, h % CounterMod)
           IN  /\ d.previous = d.current % CounterMod
               /\ c.current <= h /\ h - c.current < CounterMod => d.current = h
<1> DEFINE M == CounterMod
           x == c.current
           i == h % M
           e == (i - (x % M)) % M
<1>1. M \in Nat \ {0} /\ x \in Int /\ h \in Int
  BY RoceAssumption
<1>2. i \in 0..(M - 1)
  BY <1>1, DivMod
<1>3. (x + e) % M = i
  BY <1>1, <1>2, ModAdvance
<1>4. x <= h /\ h - x < M => e = h - x
  <2>1. 0 <= h - x /\ h - x < M => e = h - x
    BY <1>1, ModDifference
  <2>2. QED
    BY <1>1, <2>1
<1>5. Update(c, i) = [current |-> x + e, previous |-> i]
  BY DEF Update
<1> HIDE DEF e, i
<1>6. x <= h /\ h - x < M => x + e = h
  BY <1>1, <1>4
<1>7. QED
  BY <1>3, <1>5, <1>6 DEF i

\* compute() is the only one to use the counter and to publish metadata.
LEMMA OutputChanges ==
    ASSUME [Next]_vars
    PROVE  TakeFrame \/ UNCHANGED <<counter, out>>
<1>1. CASE Monitor
  <2>1. MonitorUnchanged
    BY <1>1 DEF Monitor, MonitorArm, MonitorExit, MonitorGetEvent, MonitorRearm,
         MonitorPollCq, MonitorQueue, MonitorFrameReady, MonitorSetDone, MonitorRepost
  <2>2. QED
    BY <2>1 DEF MonitorUnchanged, outputVars
<1>2. CASE Compute
  BY <1>2 DEF Compute, OperatorFramesReady, OperatorSetDone, ComputeTake, ComputeWait,
       WaitTake, WaitTimeout, ComputeClear, outputVars
<1>3. CASE Starting \/ OperatorStop \/ Stopping
  BY <1>3 DEF Starting, Stopping, OperatorStart, OperatorDeviceStart, OperatorStop,
       OperatorDeviceStop, OperatorClose, OperatorJoin, outputVars
<1>4. CASE DeviceBegin \/ DeviceEnd \/ (\E d \in Descriptors : CopyMetadata(d))
           \/ UNCHANGED vars
  BY <1>4 DEF DeviceBegin, DeviceEnd, CopyMetadata, vars, outputVars
<1>5. QED
  BY <1>1, <1>2, <1>3, <1>4, Zenon DEF Next

\* What compute() publishes comes from the counter and the oldest descriptor.
LEMMA TakeCounter ==
    ASSUME TypeOK, CounterInv, TakeFrame
    PROVE  /\ CounterInv'
           /\ (counter.current <= out'.host /\ out'.host - counter.current < CounterMod)
                  => out'.frame_number = out'.host
<1> DEFINE d == desc[Head(ready)]
<1>1. d.host \in Nat
  <2>1. Head(ready) \in Descriptors
    BY TailFacts DEF TypeOK, TakeFrame
  <2>2. d \in Descriptor
    BY <2>1 DEF TypeOK
  <2>3. QED
    BY <2>2 DEF Descriptor
<1>2. /\ counter' = Update(counter, d.host % CounterMod)
      /\ out'.host = d.host /\ out'.frame_number = counter'.current
  BY DEF TakeFrame
<1>3. counter \in [current : Nat, previous : Nat] /\ counter.previous = counter.current % CounterMod
  BY DEF TypeOK, CounterInv
<1> HIDE DEF d
<1>4. /\ counter'.previous = counter'.current % CounterMod
      /\ counter.current <= d.host /\ d.host - counter.current < CounterMod
             => counter'.current = d.host
  BY <1>1, <1>2, <1>3, UpdateCounter
<1>5. QED
  BY <1>2, <1>4 DEF CounterInv

\* ExtendedCounter recovers the device's frame number however often the
\* narrow one has wrapped. That frames are taken in the device's order is
\* what makes the difference of two of them a small positive number.
THEOREM FrameNumberIsExtended == SafetySpec => FrameNumberExtended
<1> DEFINE Extends == (out' # out /\ counter.current = out.n /\ out'.host = out'.n
                          /\ out'.n - out.n < CounterMod)
                      => out'.frame_number = out'.n
<1>1. Init => CounterInv
  <2>1. 0 % CounterMod = 0
    BY RoceAssumption
  <2>2. QED
    BY <2>1 DEF Init, CounterInv
<1>2. FramesInv /\ CounterInv /\ [Next]_vars => CounterInv'
  BY OutputChanges, TakeCounter DEF FramesInv, CounterInv
<1>3. FramesInv /\ FramesInv' /\ CounterInv /\ [Next]_vars => Extends
  <2> SUFFICES ASSUME FramesInv, FramesInv', CounterInv, [Next]_vars, out' # out,
                      counter.current = out.n, out'.host = out'.n, out'.n - out.n < CounterMod
               PROVE  out'.frame_number = out'.n
    OBVIOUS
  <2>1. TakeFrame
    BY OutputChanges
  <2>2. UNCHANGED <<ended, frame_count, cq, monPc, current>>
    <3>1. CASE ComputeTake \/ WaitTake
      BY <3>1 DEF ComputeTake, WaitTake, OperatorUnchanged
    <3>2. ~Monitor
      <4>1. Monitor => MonitorUnchanged
        BY DEF Monitor, MonitorArm, MonitorExit, MonitorGetEvent, MonitorRearm,
             MonitorPollCq, MonitorQueue, MonitorFrameReady, MonitorSetDone, MonitorRepost
      <4>2. QED
        BY <4>1 DEF MonitorUnchanged, outputVars
    <3>3. ~(OperatorFramesReady \/ OperatorSetDone \/ ComputeWait \/ WaitTimeout \/ ComputeClear)
      BY DEF OperatorFramesReady, OperatorSetDone, ComputeWait, WaitTimeout, ComputeClear,
           outputVars
    <3>4. ~(Starting \/ OperatorStop \/ Stopping)
      BY DEF Starting, Stopping, OperatorStart, OperatorDeviceStart, OperatorStop,
           OperatorDeviceStop, OperatorClose, OperatorJoin, outputVars
    <3>5. ~(DeviceBegin \/ DeviceEnd \/ (\E d \in Descriptors : CopyMetadata(d))
            \/ UNCHANGED vars)
      BY DEF DeviceBegin, DeviceEnd, CopyMetadata, vars, outputVars
    <3>6. QED
      BY <3>1, <3>2, <3>3, <3>4, <3>5, Zenon DEF Next, Compute
  <2>3. out.n < out'.n
    BY <2>1, <2>2, TakePipe DEF FramesInv
  <2>4. out.n \in Nat /\ out'.n \in Nat
    <3>1. out.n \in Nat
      BY DEF FramesInv, TypeOK
    <3>2. out'.n \in Nat
      BY DEF FramesInv, TypeOK
    <3>3. QED
      BY <3>1, <3>2
  <2>5. QED
    BY <2>1, <2>3, <2>4, TakeCounter DEF FramesInv
<1>4. QED
  BY <1>1, <1>2, <1>3, FramesInvariant, PTL DEF SafetySpec, FrameNumberExtended

-----------------------------------------------------------------------------
(* The receiver and the operator implement FrameStream, up to fairness.    *)

\* Numbers a + 1, ..., a + L in a sequence.
Run(a, L) == [i \in 1..L |-> a + i]

\* What waits, as FrameStream sees it.
Waiting == [i \in 1..Len(ready) |-> desc[ready[i]].received]

\* Runs are sequences, and grow and shrink as sequences do.
LEMMA RunFacts ==
    ASSUME NEW a \in Nat, NEW L \in Nat
    PROVE  /\ Run(a, L) \in Seq(Nat) /\ Len(Run(a, L)) = L
           /\ Append(Run(a, L), a + L + 1) = Run(a, L + 1)
           /\ L # 0 => /\ Run(a, L) # <<>>
                       /\ Head(Run(a, L)) = a + 1
                       /\ Tail(Run(a, L)) = Run(a + 1, L - 1)
<1>1. Run(a, L) \in Seq(Nat) /\ Len(Run(a, L)) = L
  BY DEF Run
<1>2. Append(Run(a, L), a + L + 1) = Run(a, L + 1)
  BY DEF Run
<1>3. L # 0 => Run(a, L) # <<>> /\ Head(Run(a, L)) = a + 1
  BY <1>1 DEF Run
<1>4. L # 0 => Tail(Run(a, L)) = Run(a + 1, L - 1)
  BY DEF Run
<1>5. QED
  BY <1>1, <1>2, <1>3, <1>4

\* What waits are the newest arrivals.
LEMMA WaitingRun ==
    TypeOK /\ QueueInv => /\ Queued - Len(ready) \in Nat /\ Queued \in Nat /\ Len(ready) \in Nat
                          /\ Waiting = Run(Queued - Len(ready), Len(ready))
<1> SUFFICES ASSUME TypeOK, QueueInv
             PROVE  /\ Queued - Len(ready) \in Nat /\ Queued \in Nat /\ Len(ready) \in Nat
                    /\ Waiting = Run(Queued - Len(ready), Len(ready))
  OBVIOUS
<1>1. /\ Len(ready) \in Nat /\ frame_count \in Nat
      /\ delivered \in Nat /\ dropped \in Nat /\ replaced \in Nat
  BY DEF TypeOK
<1>2. Queued = delivered + Len(ready) + dropped + replaced
  BY DEF QueueInv, FramesAccounted
<1>3. Queued - Len(ready) \in Nat /\ Queued \in Nat
  BY <1>1, <1>2
<1>4. \A i \in 1..Len(ready) : desc[ready[i]].received = (Queued - Len(ready)) + i
  BY DEF QueueInv, ReadyIsNewest
<1>5. QED
  BY <1>1, <1>3, <1>4 DEF Waiting, Run

\* A consumer that waits has asked.
AskedInv == opPc = "waiting" => consumer_ready

\* Every step keeps that.
LEMMA NextAsked == AskedInv /\ [Next]_vars => AskedInv'
<1> SUFFICES ASSUME AskedInv, [Next]_vars PROVE AskedInv'
  OBVIOUS
<1>1. CASE Monitor
  BY <1>1 DEF AskedInv, Monitor, MonitorArm, MonitorExit, MonitorGetEvent, MonitorRearm,
       MonitorPollCq, MonitorQueue, MonitorFrameReady, MonitorSetDone, MonitorRepost,
       MonitorUnchanged, queueVars
<1>2. CASE Compute
  BY <1>2 DEF AskedInv, Compute, OperatorFramesReady, OperatorSetDone, ComputeTake,
       ComputeWait, WaitTake, WaitTimeout, ComputeClear, TakeFrame
<1>3. CASE Starting \/ OperatorStop \/ Stopping
  BY <1>3 DEF AskedInv, Starting, Stopping, OperatorStart, OperatorDeviceStart, OperatorStop,
       OperatorDeviceStop, OperatorClose, OperatorJoin
<1>4. CASE DeviceBegin \/ DeviceEnd \/ (\E d \in Descriptors : CopyMetadata(d))
           \/ UNCHANGED vars
  BY <1>4 DEF AskedInv, DeviceBegin, DeviceEnd, CopyMetadata, vars, queueVars
<1>5. QED
  BY <1>1, <1>2, <1>3, <1>4, Zenon DEF Next

\* The section under ready_mutex_ is an arrival.
LEMMA QueueArrives ==
    ASSUME TypeOK, TypeOK', QueueInv, QueueInv', MonitorQueue
    PROVE  Stream!Arrive
<1> DEFINE a == Queued - Len(ready)
           L == Len(ready)
<1>1. /\ a \in Nat /\ Queued \in Nat /\ L \in Nat /\ Waiting = Run(a, L)
  BY WaitingRun
<1>2. /\ Queued' - Len(ready') \in Nat
      /\ Waiting' = Run(Queued' - Len(ready'), Len(ready'))
  <2>1. (TypeOK /\ QueueInv)' =>
            (/\ Queued - Len(ready) \in Nat /\ Queued \in Nat /\ Len(ready) \in Nat
             /\ Waiting = Run(Queued - Len(ready), Len(ready)))'
    BY WaitingRun, PTL
  <2>2. QED
    BY <2>1
<1>3. Queued' = Queued + 1
  <2>1. monPc = "lock" /\ monPc' = "callback" /\ frame_count' = frame_count
    BY DEF MonitorQueue
  <2>2. frame_count \in Nat
    BY DEF TypeOK
  <2>3. QED
    BY <2>1, <2>2 DEF Queued
<1>4. Queued' \in Nat /\ Queued' > Queued
  BY <1>1, <1>3
<1>5. /\ L + Len(available) = QueueSize /\ Len(available) \in Nat
      /\ available = <<>> <=> Len(available) = 0
      /\ ready = <<>> <=> L = 0
  BY DEF QueueInv, DescriptorsConserved, MonitorQueue, TypeOK
<1>6. UNCHANGED <<out, consumer_ready, opPc>>
  BY DEF MonitorQueue, MonitorUnchanged, outputVars
<1>7. Waiting \in Seq(Nat) /\ Len(Waiting) = L
  BY <1>1, RunFacts
<1>8. Waiting = <<>> <=> L = 0
  BY <1>7
<1>9. CASE ready # <<>> /\ (ReplaceReady \/ DropOldest)
  <2>1. Len(ready') = L
    BY <1>9, Rotate DEF ReplaceReady, DropOldest, TypeOK
  <2>2. L # 0 /\ L - 1 \in Nat /\ a + 1 \in Nat
    BY <1>1, <1>5, <1>9
  <2>3. Waiting' = Run(a + 1, L)
    BY <1>1, <1>2, <1>3, <2>1
  <2>4. Tail(Waiting) = Run(a + 1, L - 1)
    BY <1>1, <2>2, RunFacts
  <2>5. Append(Run(a + 1, L - 1), (a + 1) + (L - 1) + 1) = Run(a + 1, (L - 1) + 1)
    BY <2>2, RunFacts
  <2>6. (a + 1) + (L - 1) + 1 = Queued' /\ (L - 1) + 1 = L
    BY <1>1, <1>3, <2>2
  <2>7. Waiting' = Append(Tail(Waiting), Queued')
    BY <2>3, <2>4, <2>5, <2>6
  <2>8. CASE ReplaceReady
    <3>1. ~consumer_ready /\ dropped' = dropped
      BY <2>8 DEF ReplaceReady
    <3>2. QED
      BY <1>4, <1>6, <1>8, <2>2, <2>7, <3>1 DEF Stream!Arrive, Waiting
  <2>9. CASE DropOldest
    <3>1. consumer_ready /\ dropped' = dropped + 1 /\ available = <<>>
      BY <1>9, <2>9 DEF DropOldest
    <3>2. Len(Waiting) = QueueSize
      BY <1>1, <1>5, <1>7, <3>1
    <3>3. QED
      BY <1>4, <1>6, <2>7, <3>1, <3>2 DEF Stream!Arrive, Waiting
  <2>10. QED
    BY <1>9, <2>8, <2>9
<1>10. CASE UseAvailable
  <2>1. /\ available # <<>> /\ ready' = Append(ready, Head(available)) /\ dropped' = dropped
        /\ consumer_ready \/ ready = <<>>
    BY <1>10 DEF UseAvailable
  <2>2. Head(available) \in Descriptors
    BY <2>1, TailFacts DEF TypeOK
  <2>3. Len(ready') = L + 1
    BY <2>1, <2>2, AppendFacts DEF TypeOK
  <2>4. Waiting' = Run(a, L + 1)
    BY <1>1, <1>2, <1>3, <2>3
  <2>5. Append(Run(a, L), a + L + 1) = Run(a, L + 1)
    BY <1>1, RunFacts
  <2>6. a + L + 1 = Queued'
    BY <1>1, <1>3
  <2>7. Waiting' = Append(Waiting, Queued')
    BY <1>1, <2>4, <2>5, <2>6
  <2>8. Len(Waiting) < QueueSize
    BY <1>1, <1>5, <1>7, <2>1
  <2>9. consumer_ready \/ Waiting = <<>>
    BY <1>5, <1>8, <2>1
  <2>10. QED
    BY <1>4, <1>6, <2>1, <2>7, <2>8, <2>9 DEF Stream!Arrive, Waiting
<1>11. ~(ready = <<>> /\ (ReplaceReady \/ DropOldest))
  BY NotBothEmpty DEF MonitorQueue, DropOldest, ReplaceReady, QueueInv
<1>12. QED
  BY <1>9, <1>10, <1>11 DEF MonitorQueue

\* Taking the oldest ready descriptor is a delivery.
LEMMA TakeDelivers ==
    ASSUME TypeOK, TypeOK', QueueInv, QueueInv', TakeFrame,
           UNCHANGED <<monPc, frame_count>>, opPc \in {"idle", "waiting"}, consumer_ready' = TRUE
    PROVE  Stream!Deliver
<1> DEFINE a == Queued - Len(ready)
           L == Len(ready)
<1>1. /\ a \in Nat /\ Queued \in Nat /\ L \in Nat /\ Waiting = Run(a, L)
  BY WaitingRun
<1>2. Waiting' = Run(Queued' - Len(ready'), Len(ready'))
  <2>1. (TypeOK /\ QueueInv)' =>
            (/\ Queued - Len(ready) \in Nat /\ Queued \in Nat /\ Len(ready) \in Nat
             /\ Waiting = Run(Queued - Len(ready), Len(ready)))'
    BY WaitingRun, PTL
  <2>2. QED
    BY <2>1
<1>3. Queued' = Queued
  BY DEF Queued
<1>4. /\ ready # <<>> /\ ready' = Tail(ready) /\ dropped' = dropped /\ opPc' = "clear"
      /\ out'.received = desc[Head(ready)].received
  BY DEF TakeFrame
<1>5. L # 0 /\ Len(ready') = L - 1 /\ Head(ready) = ready[1]
  BY <1>1, <1>4, TailFacts DEF TypeOK
<1>6. /\ Waiting # <<>> /\ Head(Waiting) = a + 1 /\ Tail(Waiting) = Run(a + 1, L - 1)
  BY <1>1, <1>5, RunFacts
<1>7. out'.received = Head(Waiting)
  <2>1. 1 \in 1..L
    BY <1>1, <1>5
  <2>2. desc[ready[1]].received = Queued - L + 1
    BY <2>1 DEF QueueInv, ReadyIsNewest
  <2>3. QED
    BY <1>1, <1>4, <1>5, <1>6, <2>2
<1>8. Waiting' = Tail(Waiting)
  <2>1. Queued' - Len(ready') = a + 1
    BY <1>1, <1>3, <1>5
  <2>2. QED
    BY <1>2, <1>5, <1>6, <2>1
<1>9. QED
  BY <1>3, <1>4, <1>6, <1>7, <1>8 DEF Stream!Deliver, Waiting

\* Every step is a step of the stream or leaves it unchanged.
LEMMA StreamStep ==
    ASSUME TypeOK, TypeOK', QueueInv, QueueInv', AskedInv, [Next]_vars
    PROVE  [Stream!Next]_(Stream!vars)
<1> DEFINE Open == opPc \notin {"device_stop", "close", "join", "stopped"}
<1>1. ASSUME UNCHANGED <<Queued, Waiting, out, dropped, consumer_ready>>, Open' = Open
      PROVE  UNCHANGED Stream!vars
  BY <1>1 DEF Stream!vars, Waiting
<1>2. ASSUME UNCHANGED <<ready, desc>> PROVE Waiting' = Waiting
  BY <1>2 DEF Waiting
<1>3. CASE MonitorQueue
  BY <1>3, QueueArrives DEF Stream!Next
<1>4. CASE ComputeTake \/ WaitTake
  <2>1. /\ TakeFrame /\ UNCHANGED <<monPc, frame_count>>
        /\ opPc \in {"idle", "waiting"} /\ consumer_ready' = TRUE
    <3>1. CASE ComputeTake
      BY <3>1 DEF ComputeTake, OperatorUnchanged
    <3>2. CASE WaitTake
      <4>1. consumer_ready
        BY <3>2 DEF AskedInv, WaitTake
      <4>2. consumer_ready \in BOOLEAN
        BY DEF TypeOK
      <4>3. consumer_ready' = consumer_ready
        BY <3>2 DEF WaitTake
      <4>4. consumer_ready' = TRUE
        BY <4>1, <4>2, <4>3, Zenon
      <4>5. QED
        BY <3>2, <4>4 DEF WaitTake, OperatorUnchanged
    <3>3. QED
      BY <1>4, <3>1, <3>2
  <2>2. QED
    BY <2>1, TakeDelivers DEF Stream!Next
<1>5. CASE ComputeWait
  <2>1. /\ ready = <<>> /\ consumer_ready' = TRUE /\ opPc = "idle" /\ opPc' = "waiting"
        /\ UNCHANGED <<ready, desc, dropped, out, monPc, frame_count>>
    BY <1>5 DEF ComputeWait, OperatorUnchanged, outputVars
  <2>2. Waiting' = Waiting /\ Queued' = Queued
    BY <1>2, <2>1 DEF Queued
  <2>3. Waiting = <<>>
    <3>1. Len(ready) = 0 /\ Queued - Len(ready) \in Nat
      BY <2>1, WaitingRun
    <3>2. Waiting = Run(Queued - Len(ready), 0)
      BY <3>1, WaitingRun
    <3>3. QED
      BY <3>1, <3>2 DEF Run
  <2>4. QED
    BY <2>1, <2>2, <2>3 DEF Stream!Next, Stream!Ask, Waiting
<1>6. CASE OperatorStop
  <2>1. /\ opPc' = "device_stop"
        /\ UNCHANGED <<ready, desc, dropped, out, monPc, frame_count, consumer_ready>>
    BY <1>6 DEF OperatorStop, OperatorUnchanged, outputVars, queueVars
  <2>2. Waiting' = Waiting /\ Queued' = Queued
    BY <1>2, <2>1 DEF Queued
  <2>3. QED
    BY <2>1, <2>2 DEF Stream!Next, Stream!Close, Waiting
<1>7. CASE MonitorPollCq
  <2>1. UNCHANGED <<ready, desc, out, dropped, consumer_ready, opPc>>
    BY <1>7 DEF MonitorPollCq, MonitorUnchanged, outputVars, queueVars
  <2>2. frame_count \in Nat
    BY DEF TypeOK
  <2>3. Queued' = Queued
    BY <1>7, <2>2 DEF MonitorPollCq, Queued
  <2>4. QED
    BY <1>1, <1>2, <2>1, <2>3
<1>8. CASE MonitorArm \/ MonitorExit \/ MonitorGetEvent \/ MonitorRearm \/ MonitorFrameReady
           \/ MonitorSetDone \/ MonitorRepost
  <2>1. UNCHANGED <<ready, desc, out, dropped, consumer_ready, opPc, frame_count>>
    BY <1>8 DEF MonitorArm, MonitorExit, MonitorGetEvent, MonitorRearm, MonitorFrameReady,
         MonitorSetDone, MonitorRepost, MonitorUnchanged, outputVars, queueVars
  <2>2. monPc # "lock" /\ monPc' # "lock"
    BY <1>8 DEF MonitorArm, MonitorExit, MonitorGetEvent, MonitorRearm, MonitorFrameReady,
         MonitorSetDone, MonitorRepost
  <2>3. Queued' = Queued
    BY <2>1, <2>2 DEF Queued
  <2>4. QED
    BY <1>1, <1>2, <2>1, <2>3
<1>9. CASE OperatorFramesReady \/ OperatorSetDone \/ WaitTimeout \/ ComputeClear
           \/ OperatorDeviceStart \/ Stopping
  <2>1. UNCHANGED <<ready, desc, out, dropped, consumer_ready, frame_count, monPc>>
    BY <1>9 DEF OperatorFramesReady, OperatorSetDone, WaitTimeout, ComputeClear,
         OperatorDeviceStart, Stopping, OperatorDeviceStop, OperatorClose, OperatorJoin,
         OperatorUnchanged, outputVars, queueVars
  <2>2. Open' = Open
    BY <1>9 DEF OperatorFramesReady, OperatorSetDone, WaitTimeout, ComputeClear,
         OperatorDeviceStart, Stopping, OperatorDeviceStop, OperatorClose, OperatorJoin
  <2>3. Queued' = Queued
    BY <2>1 DEF Queued
  <2>4. QED
    BY <1>1, <1>2, <2>1, <2>2, <2>3
<1>10. CASE OperatorStart
  <2>1. UNCHANGED <<ready, desc, out, dropped, consumer_ready, frame_count>>
    BY <1>10 DEF OperatorStart, OperatorUnchanged, outputVars, queueVars
  <2>2. Open' = Open
    BY <1>10 DEF OperatorStart
  <2>3. Queued' = Queued
    BY <1>10, <2>1 DEF Queued, OperatorStart, QueueInv, EmptyBeforeArm
  <2>4. QED
    BY <1>1, <1>2, <2>1, <2>2, <2>3
<1>11. CASE \E d \in Descriptors : CopyMetadata(d)
  <2>1. PICK d \in Descriptors : CopyMetadata(d)
    BY <1>11
  <2>2. UNCHANGED <<ready, out, dropped, consumer_ready, frame_count, monPc, opPc>>
    BY <2>1 DEF CopyMetadata, outputVars
  <2>3. \A e \in Descriptors : desc'[e].received = desc[e].received
    BY <2>1 DEF CopyMetadata, TypeOK, Descriptor
  <2>4. \A i \in 1..Len(ready) : ready[i] \in Descriptors
    BY ReadyFields
  <2>5. Waiting' = Waiting
    BY <2>2, <2>3, <2>4 DEF Waiting
  <2>6. Queued' = Queued
    BY <2>2 DEF Queued
  <2>7. QED
    BY <1>1, <2>2, <2>5, <2>6
<1>12. CASE DeviceBegin \/ DeviceEnd \/ UNCHANGED vars
  <2>1. UNCHANGED <<ready, desc, out, dropped, consumer_ready, frame_count, monPc, opPc>>
    BY <1>12 DEF DeviceBegin, DeviceEnd, vars, outputVars, queueVars
  <2>2. Queued' = Queued
    BY <2>1 DEF Queued
  <2>3. QED
    BY <1>1, <1>2, <2>1, <2>2
<1>13. QED
  BY <1>3, <1>4, <1>5, <1>6, <1>7, <1>8, <1>9, <1>10, <1>11, <1>12, Zenon
     DEF Next, Monitor, Starting, Compute

\* The receiver and the operator are a bounded, lossy, ordered stream that
\* drops the oldest frame, and only when nothing is free: every step of
\* theirs is one of FrameStream's or none.
THEOREM StreamImplemented == SafetySpec => Stream!Init /\ [][Stream!Next]_(Stream!vars)
<1>1. Init => Stream!Init /\ AskedInv
  <2> SUFFICES ASSUME Init PROVE Stream!Init /\ AskedInv
    OBVIOUS
  <2>1. [i \in 1..Len(ready) |-> desc[ready[i]].received] = <<>> /\ Queued = 0
    BY DEF Init, Queued
  <2>2. QED
    BY <2>1 DEF Init, Stream!Init, AskedInv
<1>2. TypeOK /\ QueueInv /\ AskedInv /\ (TypeOK /\ QueueInv)' /\ [Next]_vars
          => AskedInv' /\ [Stream!Next]_(Stream!vars)
  BY NextAsked, StreamStep
<1>3. QED
  BY <1>1, <1>2, QueueInvariant, PTL DEF SafetySpec
=============================================================================
