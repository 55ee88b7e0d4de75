--------------------------- MODULE Session_proofs ---------------------------
(***************************************************************************)
(* A session with the device, for every set of channels and any number of  *)
(* configurations, restarts and lost accesses.                             *)
(***************************************************************************)
EXTENDS Session, TLAPS

(* The inductive invariant. *)

\* Between the read and the write of DP_VP_MASK.
Writing == {"and_write", "or_write", "clear_write"}

\* lock() covers the read and the write of DP_VP_MASK; mutex_ covers the
\* writes of the VSYNC registers; the main thread starts, resets and stops
\* while every channel is idle.
GuardInv ==
    /\ \A c \in Channels : lock = c <=> pc[c] \in Writing
    /\ \A c \in Channels : mutex_ = c <=> pc[c] = "setup_write"
    /\ mutex_ = "main" <=> main = "delay"
    /\ main \notin {"run", "delay"} => Quiet

\* The next register is one of the sequence that is being written.
StepInv ==
    /\ \A c \in Channels :
           step[c] \in IF pc[c] \in {"write", "clear"} THEN 1..2
                       ELSE IF pc[c] = "setup_write" THEN 1..4 ELSE {1}
    /\ step["main"] \in IF main = "delay" THEN 1..3 ELSE {1}

\* The device is sure to be as channel c left it: c has begun to configure it
\* since it was cleared, or it is in step and has been since configure_hsb.
Sure(c) == c \in own \/ (synced /\ ~adopted)

\* Then channel c knows its port.
PortInv(c) ==
    /\ pc[c] \in {"write", "clear"} => c \notin mask
    /\ pc[c] = "write" /\ step[c] = 2 => reg[c]["common"] = round[c]
    /\ pc[c] \in {"or_read", "or_write"} => \A r \in Registers : reg[c][r] = round[c]

PortsInv ==
    /\ \A c \in Channels : pc[c] # "idle" => round[c] >= 1
    /\ \A c \in Channels : Sure(c) => PortInv(c)
    /\ \A c \in Channels : pc[c] \in Writing /\ ~torn => seen[c] = mask

\* A device that was cleared under lock() is nobody's, until lock() is released.
TornInv == torn => lock # None /\ own = {} /\ (synced => adopted)

\* Nothing was lost and the device has been running all the time.
NoFault == count.faults = 0 /\ count.resets = 0

\* Then the session is as the host believes it to be.
SteadyInv ==
    NoFault =>
        /\ main \notin {"idle", "start_version"} => synced
        /\ main = "idle" => ~started_
        /\ main \notin {"reset_find", "reset_version", "reset_registers"}

\* A frequency is set before the synchronizer is.
FrequencyInv ==
    /\ active_ => frequency_ # 0
    /\ \A c \in Channels : pc[c] \in {"setup", "setup_write"} => frequency_ # 0

\* The VSYNC registers while nobody writes them, while the thread of c does in
\* setup(), and while the main thread does in set_delay().
VsyncIdle ==
    mutex_ = None =>
        /\ vsync.on = active_
        /\ vsync.on => vsync.frequency = frequency_ /\ vsync.delay = delay_ns_

VsyncSetup(c) ==
    pc[c] = "setup_write" =>
        /\ ~active_ /\ ~vsync.on
        /\ step[c] >= 3 => vsync.frequency = frequency_
        /\ step[c] = 4 => vsync.delay = delay_ns_

VsyncDelay ==
    main = "delay" =>
        /\ active_ /\ vsync.frequency = frequency_
        /\ vsync.on <=> step["main"] = 1
        /\ step["main"] = 3 => vsync.delay = delay_ns_

VsyncInv == NoFault => VsyncIdle /\ (\A c \in Channels : VsyncSetup(c)) /\ VsyncDelay

\* The peers of the synchronizer, those that set it up, and those that use it.
SettingUp == {"setup", "setup_write"}
Peers == SettingUp \cup {"attached", "running", "detach"}

\* One peer at a time sets the synchronizer up or shuts it down, when it is the
\* first or the last; in between it is active.
OnePeer ==
    /\ \A c, d \in Channels :
           pc[c] \in SettingUp \cup {"shutdown"} /\ pc[d] \in SettingUp \cup {"shutdown"} => c = d
    /\ \A c \in Channels : pc[c] \in SettingUp => ~active_
    /\ \A c \in Channels : pc[c] = "shutdown" => peers_ = {} /\ active_
    /\ active_ => peers_ # {} \/ \E c \in Channels : pc[c] = "shutdown"
    /\ peers_ # {} => active_ \/ \E c \in Channels : pc[c] \in SettingUp

\* The list of peers is what the cameras' threads believe, and there is one at a
\* time unless one has attached between detach() and shutdown() of the last.
Listed == \A c \in Channels : c \in peers_ <=> pc[c] \in Peers

PeersInv == NoFault => Listed /\ (~raced => OnePeer)

SessionInv ==
    /\ TypeOK /\ GuardInv /\ StepInv /\ PortsInv /\ TornInv /\ SteadyInv
    /\ FrequencyInv /\ VsyncInv /\ PeersInv /\ TransmitsConfigured

-----------------------------------------------------------------------------
(* Types. *)

\* TypeOK by the parts of the system.
HostTypes ==
    /\ main \in {"idle", "start_version", "start_registers", "run", "reset_trigger", "reset_find",
                 "reset_version", "reset_registers", "delay", "close", "join"}
    /\ started_ \in BOOLEAN /\ configured \in BOOLEAN
    /\ async \in {"none", "spawned", "call", "blocked", "woken", "deliver", "done", "terminated"}
    /\ socket \in {"none", "open", "shut", "closed"}
    /\ events \in 0..MaxEvents

ChannelTypes ==
    /\ lock \in Channels \cup {None}
    /\ pc \in [Channels -> ChannelStates]
    /\ step \in [Channels \cup {"main"} -> 1..4]
    /\ seen \in [Channels -> SUBSET Channels]
    /\ round \in [Channels -> 0..MaxRounds]

SyncTypes ==
    /\ peers_ \subseteq Channels
    /\ mutex_ \in Channels \cup {None, "main"}
    /\ active_ \in BOOLEAN
    /\ frequency_ \in Frequencies \cup {0} /\ delay_ns_ \in Delays
    /\ raced \in BOOLEAN

SequenceTypes == synced \in BOOLEAN /\ adopted \in BOOLEAN

DeviceTypes ==
    /\ mask \subseteq Channels
    /\ own \subseteq Channels /\ torn \in BOOLEAN
    /\ reg \in [Channels -> [Registers -> 0..MaxRounds]]
    /\ vsync \in [on : BOOLEAN, frequency : Frequencies \cup {0}, delay : Delays]
    /\ eagle \in BOOLEAN

CountTypes ==
    count \in [starts : 0..MaxStarts, resets : 0..MaxResets, rounds : 0..MaxRounds,
               sets : 0..MaxSets, faults : 0..MaxFaults]

\* The parts are TypeOK.
LEMMA TypeGroups ==
    TypeOK <=> HostTypes /\ ChannelTypes /\ SyncTypes /\ SequenceTypes /\ DeviceTypes
               /\ CountTypes
  BY Zenon DEF TypeOK, HostTypes, ChannelTypes, SyncTypes, SequenceTypes, DeviceTypes, CountTypes

\* A part that a step leaves alone keeps its types.
LEMMA TypesKept ==
    /\ HostTypes /\ UNCHANGED main /\ UNCHANGED hostVars => HostTypes'
    /\ ChannelTypes /\ UNCHANGED channelVars => ChannelTypes'
    /\ SyncTypes /\ UNCHANGED syncVars => SyncTypes'
    /\ SequenceTypes /\ UNCHANGED sequence => SequenceTypes'
    /\ DeviceTypes /\ UNCHANGED deviceVars /\ UNCHANGED eagle => DeviceTypes'
    /\ CountTypes /\ UNCHANGED count => CountTypes'
<1>1. HostTypes /\ UNCHANGED main /\ UNCHANGED hostVars => HostTypes'
  BY Zenon DEF HostTypes, hostVars
<1>2. ChannelTypes /\ UNCHANGED channelVars => ChannelTypes'
  BY Zenon DEF ChannelTypes, channelVars
<1>3. SyncTypes /\ UNCHANGED syncVars => SyncTypes'
  BY Zenon DEF SyncTypes, syncVars
<1>4. DeviceTypes /\ UNCHANGED deviceVars /\ UNCHANGED eagle => DeviceTypes'
  BY Zenon DEF DeviceTypes, deviceVars
<1>5. CountTypes /\ UNCHANGED count => CountTypes'
  BY Zenon DEF CountTypes
<1>6. SequenceTypes /\ UNCHANGED sequence => SequenceTypes'
  BY Zenon DEF SequenceTypes, sequence
<1>7. QED
  BY <1>1, <1>2, <1>3, <1>4, <1>5, <1>6, Zenon

\* The sequences of writes.
LEMMA Orders ==
    /\ Len(ConfigureOrder) = 2 /\ Len(ClearOrder) = 2 /\ Len(SetupOrder) = 4
    /\ Len(DelayOrder) = 3
    /\ ConfigureOrder[1] = "common" /\ ConfigureOrder[2] = "queue"
    /\ ClearOrder[1] = "queue" /\ ClearOrder[2] = "common"
    /\ SetupOrder[1] = "off" /\ SetupOrder[2] = "frequency" /\ SetupOrder[3] = "delay"
    /\ SetupOrder[4] = "on"
    /\ DelayOrder[1] = "off" /\ DelayOrder[2] = "delay" /\ DelayOrder[3] = "on"
  BY DEF ConfigureOrder, ClearOrder, SetupOrder, DelayOrder

\* A counter of what has happened goes up by one, within its bound.
LEMMA CountsUp ==
    ASSUME CountTypes, SessionAssumption
    PROVE  /\ Lost => CountTypes'
           /\ count.starts < MaxStarts /\ count' = [count EXCEPT !.starts = @ + 1] => CountTypes'
           /\ count.resets < MaxResets /\ count' = [count EXCEPT !.resets = @ + 1] => CountTypes'
           /\ count.rounds < MaxRounds /\ count' = [count EXCEPT !.rounds = @ + 1] => CountTypes'
           /\ count.sets < MaxSets /\ count' = [count EXCEPT !.sets = @ + 1] => CountTypes'
<1>1. MaxStarts \in Nat /\ MaxResets \in Nat /\ MaxRounds \in Nat /\ MaxSets \in Nat
      /\ MaxFaults \in Nat
  BY DEF SessionAssumption
<1>2. Lost => CountTypes'
  BY <1>1 DEF CountTypes, Lost
<1>3. count.starts < MaxStarts /\ count' = [count EXCEPT !.starts = @ + 1] => CountTypes'
  BY <1>1 DEF CountTypes
<1>4. count.resets < MaxResets /\ count' = [count EXCEPT !.resets = @ + 1] => CountTypes'
  BY <1>1 DEF CountTypes
<1>5. count.rounds < MaxRounds /\ count' = [count EXCEPT !.rounds = @ + 1] => CountTypes'
  BY <1>1 DEF CountTypes
<1>6. count.sets < MaxSets /\ count' = [count EXCEPT !.sets = @ + 1] => CountTypes'
  BY <1>1 DEF CountTypes
<1>7. QED
  BY <1>2, <1>3, <1>4, <1>5, <1>6, Zenon

\* The steps that leave the channels, the synchronizer and the registers of
\* the device alone.
Aside ==
    /\ UNCHANGED channelVars /\ UNCHANGED syncVars /\ UNCHANGED deviceVars /\ UNCHANGED eagle

\* Every step of the main thread, of the event thread and of the network that
\* is not TriggerReset, SetDelay or DelayWrite is one of them.
LEMMA AsideSteps ==
    StartAgain \/ Start \/ ConfigureVersion \/ ConfigureRegisters \/ Reset \/ FindChannel \/ Stop
        \/ StopClose \/ StopJoin \/ Async \/ SendEvent => Aside
<1>1. StartAgain \/ Start \/ ConfigureVersion \/ FindChannel \/ Stop \/ StopClose \/ StopJoin
      \/ SendEvent => Aside
  BY Zenon DEF StartAgain, Start, ConfigureVersion, FindChannel, Stop, StopClose, StopJoin,
               SendEvent, Aside
<1>2. ConfigureRegisters \/ Reset => Aside
  BY Zenon DEF ConfigureRegisters, Reset, Access, SameDevice, Aside
<1>3. Async => Aside
  BY Zenon DEF Async, AsyncBegin, AsyncRecv, AsyncEvent, AsyncShutdown, AsyncDeliver, AsyncTo, Aside
<1>4. QED
  BY <1>1, <1>2, <1>3, Zenon

\* The steps of a channel leave the host's session alone.
LEMMA ChannelKeeps ==
    ASSUME NEW c \in Channels, Channel(c)
    PROVE  UNCHANGED main /\ UNCHANGED hostVars /\ UNCHANGED eagle
  BY Zenon DEF Channel, Camera, Configure, MaskRead, MaskWrite, WriteRegister, MtuTooSmall,
     Unconfigure, ClearRegister, WriteNext, SetFrequency, Attach, Setup, SetupWrite, CameraStart,
     CameraStop, Detach, Shutdown

\* The steps of the host keep the types.
LEMMA HostTypesKept ==
    ASSUME TypeOK, SessionAssumption
    PROVE  Main \/ Async \/ SendEvent => HostTypes'
<1>1. HostTypes /\ MaxEvents \in Nat
  BY TypeGroups, Zenon DEF SessionAssumption
<1>2. StartAgain \/ Start \/ FindChannel \/ Stop \/ StopClose \/ StopJoin => HostTypes'
  <2>1. 0 \in 0..MaxEvents
    BY <1>1
  <2>2. StartAgain \/ FindChannel \/ Stop \/ StopClose \/ StopJoin => HostTypes'
    BY <1>1, Zenon DEF HostTypes, StartAgain, FindChannel, Stop, StopClose, StopJoin, MainTo,
                       hostVars
  <2>3. Start => HostTypes'
    BY <1>1, <2>1, Zenon DEF HostTypes, Start, MainTo
  <2>4. QED
    BY <2>2, <2>3, Zenon
<1>3. ConfigureVersion => HostTypes'
  BY <1>1, Zenon DEF HostTypes, ConfigureVersion, MainTo, hostVars
<1>4. ConfigureRegisters => HostTypes'
  BY <1>1, Zenon DEF HostTypes, ConfigureRegisters, Access, Configured, MainTo, hostVars
<1>5. Reset \/ TriggerReset => HostTypes'
  BY <1>1, Zenon DEF HostTypes, Reset, TriggerReset, Access, MainTo, hostVars
<1>6. SetDelay => HostTypes'
  BY <1>1, Zenon DEF HostTypes, SetDelay, MainTo, hostVars
<1>7. DelayWrite => HostTypes'
  BY <1>1, Zenon DEF HostTypes, DelayWrite, Access, MainTo, hostVars
<1>8. AsyncBegin \/ AsyncRecv \/ AsyncShutdown \/ AsyncDeliver => HostTypes'
  BY <1>1 DEF HostTypes, AsyncBegin, AsyncRecv, AsyncShutdown, AsyncDeliver, AsyncTo
<1>9. AsyncEvent => HostTypes'
  BY <1>1 DEF HostTypes, AsyncEvent, AsyncTo
<1>10. SendEvent => HostTypes'
  BY <1>1 DEF HostTypes, SendEvent
<1>11. QED
  BY <1>2, <1>3, <1>4, <1>5, <1>6, <1>7, <1>8, <1>9, <1>10, Zenon DEF Main, Async

\* Moving one channel to a state.
LEMMA Moves ==
    ASSUME NEW c \in Channels, NEW p, pc \in [Channels -> ChannelStates], PcTo(c, p)
    PROVE  /\ pc'[c] = p
           /\ \A d \in Channels : d # c => pc'[d] = pc[d]
           /\ p \in ChannelStates => pc' \in [Channels -> ChannelStates]
  BY DEF PcTo

\* Moving in a sequence of writes.
LEMMA Rewound ==
    ASSUME NEW t \in Channels \cup {"main"}, step \in [Channels \cup {"main"} -> 1..4], Rewind(t)
    PROVE  /\ step' \in [Channels \cup {"main"} -> 1..4]
           /\ step'[t] = 1
           /\ \A u \in Channels \cup {"main"} : u # t => step'[u] = step[u]
  BY DEF Rewind

LEMMA Advanced ==
    ASSUME NEW t \in Channels \cup {"main"}, NEW order, Len(order) \in 1..4,
           step \in [Channels \cup {"main"} -> 1..4],
           Advance(t, order), step[t] <= Len(order)
    PROVE  /\ step' \in [Channels \cup {"main"} -> 1..4]
           /\ step'[t] = IF step[t] = Len(order) THEN 1 ELSE step[t] + 1
           /\ \A u \in Channels \cup {"main"} : u # t => step'[u] = step[u]
<1> DEFINE n == Len(order)
           next == IF step[t] = n THEN 1 ELSE step[t] + 1
<1>1. step' = [step EXCEPT ![t] = next]
  BY DEF Advance
<1>2. n \in 1..4 /\ step[t] <= n /\ step[t] \in 1..4
  OBVIOUS
<1> HIDE DEF n
<1>3. next \in 1..4
  BY <1>2
<1>4. next = IF step[t] = n THEN 1 ELSE step[t] + 1
  OBVIOUS
<1> HIDE DEF next
<1>5. /\ step' \in [Channels \cup {"main"} -> 1..4]
      /\ step'[t] = next
      /\ \A u \in Channels \cup {"main"} : u # t => step'[u] = step[u]
  BY <1>1, <1>3
<1>6. QED
  BY <1>4, <1>5 DEF n

\* The steps of a channel keep the types of the channels.
LEMMA ChannelTypesKept ==
    ASSUME TypeOK, StepInv, SessionAssumption, NEW c \in Channels, Channel(c)
    PROVE  ChannelTypes'
<1>1. ChannelTypes /\ CountTypes
  BY TypeGroups, Zenon
<1>2. pc \in [Channels -> ChannelStates] /\ step \in [Channels \cup {"main"} -> 1..4]
      /\ c \in Channels \cup {"main"}
  BY <1>1, Zenon DEF ChannelTypes
<1>3. /\ "and_read" \in ChannelStates /\ "and_write" \in ChannelStates /\ "write" \in ChannelStates
      /\ "or_read" \in ChannelStates /\ "or_write" \in ChannelStates /\ "attach" \in ChannelStates
      /\ "setup" \in ChannelStates /\ "setup_write" \in ChannelStates
      /\ "attached" \in ChannelStates /\ "running" \in ChannelStates /\ "detach" \in ChannelStates
      /\ "shutdown" \in ChannelStates /\ "detached" \in ChannelStates
      /\ "clear_read" \in ChannelStates /\ "clear_write" \in ChannelStates
      /\ "clear" \in ChannelStates /\ "idle" \in ChannelStates
  BY Zenon DEF ChannelStates
<1>4. \A p \in ChannelStates : PcTo(c, p) => pc' \in [Channels -> ChannelStates]
  BY <1>2, Moves
<1>5. CASE Configure(c)
  <2>1. count'.rounds \in 0..MaxRounds
    BY <1>1, <1>5 DEF Configure, CountTypes, SessionAssumption
  <2>2. round' \in [Channels -> 0..MaxRounds]
    BY <1>1, <1>5, <2>1 DEF Configure, ChannelTypes
  <2>3. pc' \in [Channels -> ChannelStates]
    BY <1>3, <1>4, <1>5, Zenon DEF Configure
  <2>4. QED
    BY <1>1, <1>5, <2>2, <2>3, Zenon DEF Configure, ChannelTypes
<1>6. CASE MaskRead(c)
  <2>1. mask \subseteq Channels
    BY Zenon DEF TypeOK
  <2>2. seen' \in [Channels -> SUBSET Channels]
    <3>1. seen' = [seen EXCEPT ![c] = mask] \/ seen' = seen
      BY <1>6, Zenon DEF MaskRead, Access
    <3>2. QED
      BY <1>1, <2>1, <3>1 DEF ChannelTypes
  <2>3. pc' \in [Channels -> ChannelStates]
    <3>1. \/ PcTo(c, "idle") \/ PcTo(c, "and_write") \/ PcTo(c, "or_write")
          \/ PcTo(c, "clear_write")
      BY <1>6 DEF MaskRead, Access, Fails
    <3>2. QED
      BY <1>3, <1>4, <3>1, Zenon
  <2>4. lock' \in Channels \cup {None}
    BY <1>1, <1>6, Zenon DEF MaskRead, Access, ChannelTypes
  <2>5. QED
    BY <1>1, <1>6, <2>2, <2>3, <2>4, Zenon DEF MaskRead, ChannelTypes
<1>7. CASE MaskWrite(c)
  <2>1. seen' \in [Channels -> SUBSET Channels]
    BY <1>1, <1>7 DEF MaskWrite, ChannelTypes
  <2>2. pc' \in [Channels -> ChannelStates]
    <3>1. PcTo(c, "idle") \/ PcTo(c, "write") \/ PcTo(c, "attach") \/ PcTo(c, "clear")
      BY <1>7 DEF MaskWrite, Access, Fails
    <3>2. QED
      BY <1>3, <1>4, <3>1, Zenon
  <2>3. QED
    BY <1>1, <1>7, <2>1, <2>2, Zenon DEF MaskWrite, ChannelTypes
<1>8. CASE WriteRegister(c) \/ ClearRegister(c)
  <2>1. step[c] \in 1..2
    BY <1>8 DEF WriteRegister, ClearRegister, StepInv
  <2>2. PICK order \in {ConfigureOrder, ClearOrder} : Rewind(c) \/ Advance(c, order)
    BY <1>8, Zenon DEF WriteRegister, ClearRegister, WriteNext, Access
  <2>3. Len(order) = 2
    BY <2>2, Orders, Zenon
  <2>4. step' \in [Channels \cup {"main"} -> 1..4]
    <3>1. Len(order) \in 1..4 /\ step[c] <= Len(order)
      BY <2>1, <2>3
    <3>2. QED
      BY <1>2, <2>2, <3>1, Rewound, Advanced, Zenon
  <2>5. pc' \in [Channels -> ChannelStates]
    <3>1. PcTo(c, "idle") \/ PcTo(c, "or_read") \/ UNCHANGED pc
      BY <1>8, Zenon DEF WriteRegister, ClearRegister, WriteNext, Access, Fails
    <3>2. QED
      BY <1>2, <1>3, <1>4, <3>1, Zenon
  <2>6. QED
    BY <1>1, <1>8, <2>4, <2>5, Zenon DEF WriteRegister, ClearRegister, WriteNext, ChannelTypes
<1>9. CASE MtuTooSmall(c) \/ Unconfigure(c)
  <2>1. pc' \in [Channels -> ChannelStates]
    <3>1. PcTo(c, "idle") \/ PcTo(c, "clear_read")
      BY <1>9, Zenon DEF MtuTooSmall, Unconfigure, Fails
    <3>2. QED
      BY <1>3, <1>4, <3>1, Zenon
  <2>2. QED
    BY <1>1, <1>9, <2>1, Zenon DEF MtuTooSmall, Unconfigure, ChannelTypes
<1>10. CASE SetFrequency(c)
  BY <1>1, <1>10, TypesKept, Zenon DEF SetFrequency
<1>11. CASE Attach(c) \/ Setup(c) \/ CameraStart(c) \/ CameraStop(c) \/ Detach(c) \/ Shutdown(c)
  <2>1. pc' \in [Channels -> ChannelStates]
    <3>1. Attach(c) => PcTo(c, "idle") \/ PcTo(c, "setup") \/ PcTo(c, "attached")
      BY DEF Attach
    <3>2. Setup(c) => PcTo(c, "setup_write") \/ PcTo(c, "attached")
      BY Zenon DEF Setup
    <3>3. CameraStart(c) => PcTo(c, "running") \/ PcTo(c, "idle")
      BY Zenon DEF CameraStart, Access, Fails
    <3>4. CameraStop(c) => PcTo(c, "detach") \/ PcTo(c, "idle")
      BY Zenon DEF CameraStop, Access, Fails
    <3>5. Detach(c) => PcTo(c, "shutdown") \/ PcTo(c, "detached")
      BY Zenon DEF Detach
    <3>6. Shutdown(c) => PcTo(c, "detached") \/ PcTo(c, "idle")
      BY Zenon DEF Shutdown, Access, Fails
    <3>7. QED
      BY <1>3, <1>4, <1>11, <3>1, <3>2, <3>3, <3>4, <3>5, <3>6, Zenon
  <2>2. UNCHANGED <<lock, step, seen, round>>
    BY <1>11, Zenon DEF Attach, Setup, CameraStart, CameraStop, Detach, Shutdown
  <2>3. QED
    BY <1>1, <2>1, <2>2, Zenon DEF ChannelTypes
<1>12. CASE SetupWrite(c)
  <2>1. Rewind(c) \/ Advance(c, SetupOrder)
    BY <1>12, Zenon DEF SetupWrite, Access
  <2>2. step[c] \in 1..4 /\ Len(SetupOrder) = 4
    BY <1>2, Orders
  <2>3. step' \in [Channels \cup {"main"} -> 1..4]
    <3>1. Len(SetupOrder) \in 1..4 /\ step[c] <= Len(SetupOrder)
      BY <2>2
    <3>2. QED
      BY <1>2, <2>1, <3>1, Rewound, Advanced, Zenon
  <2>4. pc' \in [Channels -> ChannelStates]
    <3>1. PcTo(c, "idle") \/ PcTo(c, "attached") \/ UNCHANGED pc
      BY <1>12, Zenon DEF SetupWrite, Access, Fails
    <3>2. QED
      BY <1>2, <1>3, <1>4, <3>1, Zenon
  <2>5. QED
    BY <1>1, <1>12, <2>3, <2>4, Zenon DEF SetupWrite, ChannelTypes
<1>13. QED
  BY <1>5, <1>6, <1>7, <1>8, <1>9, <1>10, <1>11, <1>12, Zenon DEF Channel, Camera

\* A write of a VSYNC register keeps the types of the device.
LEMMA VsyncTypes ==
    ASSUME DeviceTypes, SyncTypes, NEW what, VsyncWrite(what), UNCHANGED eagle,
           what \in {"off", "on", "frequency", "delay"}
    PROVE  DeviceTypes'
<1>1. vsync' \in [on : BOOLEAN, frequency : Frequencies \cup {0}, delay : Delays]
  <2>1. /\ vsync \in [on : BOOLEAN, frequency : Frequencies \cup {0}, delay : Delays]
        /\ frequency_ \in Frequencies \cup {0} /\ delay_ns_ \in Delays
    BY Zenon DEF DeviceTypes, SyncTypes
  <2>2. CASE what = "off"
    BY <2>1, <2>2 DEF VsyncWrite
  <2>3. CASE what = "on"
    BY <2>1, <2>3 DEF VsyncWrite
  <2>4. CASE what = "frequency"
    BY <2>1, <2>4 DEF VsyncWrite
  <2>5. CASE what = "delay"
    BY <2>1, <2>5 DEF VsyncWrite
  <2>6. QED
    BY <2>2, <2>3, <2>4, <2>5, Zenon
<1>2. QED
  BY <1>1, Zenon DEF DeviceTypes, VsyncWrite

\* The steps of a channel keep the types of the synchronizer, of the device
\* and of the counts.
LEMMA OtherTypesKept ==
    ASSUME TypeOK, StepInv, SessionAssumption, NEW c \in Channels, Channel(c)
    PROVE  SyncTypes' /\ DeviceTypes' /\ CountTypes'
<1>1. ChannelTypes /\ SyncTypes /\ DeviceTypes /\ CountTypes
  BY TypeGroups, Zenon
<1>2. mask \subseteq Channels /\ seen[c] \subseteq Channels
  BY <1>1 DEF DeviceTypes, ChannelTypes
<1>3. UNCHANGED eagle
  BY ChannelKeeps, Zenon
<1>4. Lost => CountTypes'
  BY <1>1, CountsUp, Zenon
<1>5. CASE Configure(c)
  <2>1. CountTypes'
    BY <1>1, <1>5, CountsUp, Zenon DEF Configure
  <2>2. QED
    BY <1>1, <1>5, <2>1, TypesKept, Zenon DEF Configure
<1>6. CASE MaskRead(c) \/ CameraStart(c) \/ CameraStop(c)
  <2>1. UNCHANGED deviceVars /\ UNCHANGED syncVars /\ (Lost \/ UNCHANGED count)
    BY <1>2, <1>6, Zenon DEF MaskRead, CameraStart, CameraStop, Access, SameDevice
  <2>2. QED
    BY <1>1, <1>3, <1>4, <2>1, TypesKept, Zenon
<1>7. CASE MaskWrite(c)
  <2>1. /\ torn' = FALSE /\ UNCHANGED <<reg, vsync>> /\ UNCHANGED syncVars
        /\ Lost \/ UNCHANGED count
    BY <1>7, Zenon DEF MaskWrite, Access
  <2>2. /\ mask' = mask \/ mask' = seen[c] \cup {c} \/ mask' = seen[c] \ {c}
        /\ own' = own \/ own' = own \cup {c}
    BY <1>7, Zenon DEF MaskWrite, Access
  <2>3. mask' \subseteq Channels /\ own' \subseteq Channels
    BY <1>1, <1>2, <2>2 DEF DeviceTypes
  <2>4. QED
    BY <1>1, <1>3, <1>4, <2>1, <2>3, TypesKept, Zenon DEF DeviceTypes
<1>8. CASE WriteRegister(c) \/ ClearRegister(c)
  <2>1. /\ UNCHANGED <<mask, vsync, own, torn>> /\ UNCHANGED syncVars
        /\ Lost \/ UNCHANGED count
    BY <1>8, Zenon DEF WriteRegister, ClearRegister, WriteNext, Access, SameDevice, deviceVars
  <2>2. \/ reg' = reg
        \/ reg' = [reg EXCEPT ![c][ConfigureOrder[step[c]]] = round[c]]
        \/ reg' = [reg EXCEPT ![c][ClearOrder[step[c]]] = 0]
    BY <1>8, Zenon DEF WriteRegister, ClearRegister, WriteNext, Access, SameDevice, deviceVars
  <2>3. step[c] \in 1..2
    BY <1>8 DEF WriteRegister, ClearRegister, StepInv
  <2>4. ConfigureOrder[step[c]] \in Registers /\ ClearOrder[step[c]] \in Registers
    BY <2>3, Orders DEF Registers
  <2>5. round[c] \in 0..MaxRounds /\ 0 \in 0..MaxRounds
    BY <1>1 DEF ChannelTypes, SessionAssumption
  <2>6. reg' \in [Channels -> [Registers -> 0..MaxRounds]]
    <3>1. reg \in [Channels -> [Registers -> 0..MaxRounds]]
      BY <1>1, Zenon DEF DeviceTypes
    <3>2. QED
      BY <2>2, <2>4, <2>5, <3>1
  <2>7. QED
    BY <1>1, <1>3, <1>4, <2>1, <2>6, TypesKept, Zenon DEF DeviceTypes
<1>9. CASE MtuTooSmall(c) \/ Unconfigure(c)
  BY <1>1, <1>9, TypesKept, Zenon DEF MtuTooSmall, Unconfigure
<1>10. CASE SetFrequency(c) \/ Attach(c) \/ Setup(c) \/ Detach(c)
  <2>1. UNCHANGED eagle /\ UNCHANGED deviceVars /\ UNCHANGED count
    BY <1>10, Zenon DEF SetFrequency, Attach, Setup, Detach
  <2>2. SyncTypes'
    <3>1. SetFrequency(c) => SyncTypes'
      BY <1>1, Zenon DEF SetFrequency, SyncTypes
    <3>2. Attach(c) => SyncTypes'
      <4>1. Attach(c) => peers_' \subseteq Channels /\ raced' \in BOOLEAN
        BY <1>1 DEF Attach, SyncTypes
      <4>2. QED
        BY <1>1, <4>1, Zenon DEF Attach, SyncTypes
    <3>3. Setup(c) => SyncTypes'
      BY <1>1, Zenon DEF Setup, SyncTypes
    <3>4. Detach(c) => SyncTypes'
      BY <1>1, Zenon DEF Detach, SyncTypes
    <3>5. QED
      BY <1>10, <3>1, <3>2, <3>3, <3>4, Zenon
  <2>3. QED
    BY <1>1, <2>1, <2>2, TypesKept, Zenon
<1>11. CASE SetupWrite(c)
  <2>1. Lost \/ UNCHANGED count
    BY <1>11, Zenon DEF SetupWrite, Access
  <2>2. VsyncWrite(SetupOrder[step[c]]) \/ SameDevice
    BY <1>11, Zenon DEF SetupWrite, Access
  <2>3. SetupOrder[step[c]] \in {"off", "on", "frequency", "delay"}
    <3>1. step[c] \in 1..4
      BY <1>1 DEF ChannelTypes
    <3>2. QED
      BY <3>1, Orders
  <2>4. DeviceTypes'
    <3>1. SameDevice => DeviceTypes'
      BY <1>1, <1>3, Zenon DEF SameDevice, DeviceTypes, deviceVars
    <3>2. VsyncWrite(SetupOrder[step[c]]) => DeviceTypes'
      BY <1>1, <1>3, <2>3, VsyncTypes, Zenon
    <3>3. QED
      BY <2>2, <3>1, <3>2, Zenon
  <2>5. SyncTypes'
    BY <1>1, <1>11, Zenon DEF SetupWrite, Access, SyncTypes
  <2>6. QED
    BY <1>1, <1>4, <2>1, <2>4, <2>5, TypesKept, Zenon
<1>12. CASE Shutdown(c)
  <2>1. Lost \/ UNCHANGED count
    BY <1>12, Zenon DEF Shutdown, Access
  <2>2. VsyncWrite("off") \/ SameDevice
    BY <1>12, Zenon DEF Shutdown, Access
  <2>3. DeviceTypes'
    <3>1. SameDevice => DeviceTypes'
      BY <1>1, <1>3, Zenon DEF SameDevice, DeviceTypes, deviceVars
    <3>2. VsyncWrite("off") => DeviceTypes'
      BY <1>1, <1>3, VsyncTypes, Zenon
    <3>3. QED
      BY <2>2, <3>1, <3>2, Zenon
  <2>4. SyncTypes'
    BY <1>1, <1>12, Zenon DEF Shutdown, Access, SyncTypes
  <2>5. QED
    BY <1>1, <1>4, <2>1, <2>3, <2>4, TypesKept, Zenon
<1>13. QED
  BY <1>5, <1>6, <1>7, <1>8, <1>9, <1>10, <1>11, <1>12, Zenon DEF Channel, Camera

-----------------------------------------------------------------------------
(* The sequence number. *)

\* The device executes a request of a channel or of the host, checked or not.
Executes == (synced /\ UNCHANGED sequence) \/ Adopts

\* What an access does to the sequence number.
Follows == Executes \/ UNCHANGED sequence \/ (synced' = FALSE /\ UNCHANGED adopted)

\* A device that is in step, and has never taken the number of a retry, was so
\* before the access; and only clearing the device makes one that has forget.
LEMMA Flow ==
    ASSUME SequenceTypes, Follows
    PROVE  /\ SequenceTypes'
           /\ synced' /\ ~adopted' => synced /\ ~adopted
           /\ adopted => adopted'
           /\ Executes /\ ~adopted' => synced /\ ~adopted
<1>1. CASE UNCHANGED sequence
  BY <1>1, Zenon DEF SequenceTypes, Executes, Adopts, sequence
<1>2. CASE Adopts
  <2>1. synced' = TRUE /\ adopted' \in BOOLEAN
    BY <1>2 DEF Adopts, SequenceTypes
  <2>2. (adopted \/ ~synced) => adopted'
    BY <1>2 DEF Adopts, SequenceTypes
  <2>3. QED
    BY <2>1, <2>2 DEF SequenceTypes
<1>3. CASE synced' = FALSE /\ UNCHANGED adopted
  BY <1>3, Zenon DEF SequenceTypes, Executes, Adopts, sequence
<1>4. QED
  BY <1>1, <1>2, <1>3, Zenon DEF Follows, Executes

\* Every step of a channel is an access, or none,
LEMMA ChannelFollows ==
    ASSUME NEW c \in Channels, Channel(c)
    PROVE  Follows
<1>1. Configure(c) \/ MtuTooSmall(c) \/ Unconfigure(c) \/ SetFrequency(c) \/ Attach(c)
         \/ Setup(c) \/ Detach(c) => Follows
  BY Zenon DEF Follows, Configure, MtuTooSmall, Unconfigure, SetFrequency, Attach, Setup, Detach
<1>2. MaskRead(c) \/ MaskWrite(c) \/ WriteRegister(c) \/ ClearRegister(c) => Follows
  BY Zenon DEF Follows, Executes, MaskRead, MaskWrite, WriteRegister, ClearRegister, WriteNext,
               Access, sequence
<1>3. SetupWrite(c) \/ CameraStart(c) \/ CameraStop(c) \/ Shutdown(c) => Follows
  BY Zenon DEF Follows, Executes, SetupWrite, CameraStart, CameraStop, Shutdown, Access, sequence
<1>4. QED
  BY <1>1, <1>2, <1>3, Zenon DEF Channel, Camera

\* and of the host, but three.
LEMMA HostFollows ==
    UNCHANGED vars \/ Async \/ SendEvent \/ StartAgain \/ Start \/ ConfigureRegisters
        \/ Reset \/ FindChannel \/ Stop \/ StopClose \/ StopJoin \/ SetDelay \/ DelayWrite
    => Follows
<1>1. UNCHANGED vars \/ SendEvent \/ StartAgain \/ Start \/ FindChannel \/ Stop \/ StopClose
         \/ StopJoin \/ SetDelay => Follows
  BY Zenon DEF Follows, vars, SendEvent, StartAgain, Start, FindChannel, Stop, StopClose,
               StopJoin, SetDelay
<1>2. Async => Follows
  BY Zenon DEF Follows, Async, AsyncBegin, AsyncRecv, AsyncEvent, AsyncShutdown, AsyncDeliver,
               AsyncTo
<1>3. ConfigureRegisters \/ Reset \/ DelayWrite => Follows
  BY Zenon DEF Follows, Executes, ConfigureRegisters, Reset, DelayWrite, Access, sequence
<1>4. QED
  BY <1>1, <1>2, <1>3, Zenon

LEMMA NextSequence ==
    ASSUME SequenceTypes, [Next]_vars
    PROVE  SequenceTypes'
<1>1. ConfigureVersion => SequenceTypes'
  BY Zenon DEF ConfigureVersion, SequenceTypes
<1>2. TriggerReset \/ Restart => SequenceTypes'
  BY Zenon DEF TriggerReset, Restart, DeviceCleared, SequenceTypes
<1>3. Follows => SequenceTypes'
  BY Flow, Zenon
<1>4. QED
  BY <1>1, <1>2, <1>3, ChannelFollows, HostFollows, Zenon DEF Next, Main

\* Every step keeps the types.
LEMMA NextType ==
    ASSUME TypeOK, StepInv, SessionAssumption, [Next]_vars
    PROVE  TypeOK'
<1>1. HostTypes /\ ChannelTypes /\ SyncTypes /\ SequenceTypes /\ DeviceTypes /\ CountTypes
  BY TypeGroups, Zenon
<1>2. SequenceTypes'
  BY <1>1, NextSequence, Zenon
<1>3. SUFFICES HostTypes' /\ ChannelTypes' /\ SyncTypes' /\ DeviceTypes' /\ CountTypes'
  BY <1>2, TypeGroups, PTL
<1>4. CASE UNCHANGED vars
  BY <1>1, <1>4, TypesKept, Zenon DEF vars
<1>5. CASE \E c \in Channels : Channel(c)
  <2>1. PICK c \in Channels : Channel(c)
    BY <1>5, Zenon
  <2>2. QED
    BY <1>1, <2>1, ChannelKeeps, ChannelTypesKept, OtherTypesKept, TypesKept, Zenon
<1>6. CASE Async \/ SendEvent \/ StartAgain \/ Start \/ ConfigureVersion \/ ConfigureRegisters
           \/ Reset \/ FindChannel \/ Stop \/ StopClose \/ StopJoin
  <2>1. Aside
    BY <1>6, AsideSteps, Zenon
  <2>2. HostTypes'
    BY <1>6, HostTypesKept, Zenon DEF Main
  <2>4. CountTypes'
    <3>1. Start => CountTypes'
      BY <1>1, CountsUp, Zenon DEF Start
    <3>2. ConfigureVersion => Lost \/ UNCHANGED count
      BY Zenon DEF ConfigureVersion
    <3>3. ConfigureRegisters \/ Reset => Lost \/ UNCHANGED count
      BY Zenon DEF ConfigureRegisters, Reset, Access
    <3>4. Async \/ SendEvent \/ StartAgain \/ FindChannel \/ Stop \/ StopClose \/ StopJoin
             => UNCHANGED count
      BY Zenon DEF Async, SendEvent, StartAgain, FindChannel, Stop, StopClose, StopJoin,
         AsyncBegin, AsyncRecv, AsyncEvent, AsyncShutdown, AsyncDeliver, AsyncTo
    <3>5. Lost => CountTypes'
      BY <1>1, CountsUp, Zenon
    <3>6. UNCHANGED count => CountTypes'
      BY <1>1, TypesKept, Zenon
    <3>7. QED
      BY <1>6, <3>1, <3>2, <3>3, <3>4, <3>5, <3>6, Zenon
  <2>5. ChannelTypes' /\ SyncTypes'
    BY <1>1, <2>1, TypesKept, Zenon DEF Aside
  <2>6. DeviceTypes'
    BY <1>1, <2>1, Zenon DEF Aside, DeviceTypes, deviceVars
  <2>7. QED
    BY <2>2, <2>4, <2>5, <2>6, Zenon
<1>7. DeviceCleared /\ UNCHANGED eagle => DeviceTypes'
  <2>1. 0 \in 0..MaxRounds /\ 0 \in Delays
    BY DEF SessionAssumption
  <2>2. DeviceCleared => reg' \in [Channels -> [Registers -> 0..MaxRounds]]
    BY <2>1 DEF DeviceCleared, Blank
  <2>3. DeviceCleared =>
            vsync' \in [on : BOOLEAN, frequency : Frequencies \cup {0}, delay : Delays]
    BY <2>1 DEF DeviceCleared, VsyncOff
  <2>4. DeviceCleared => mask' \subseteq Channels /\ own' \subseteq Channels /\ torn' \in BOOLEAN
    BY DEF DeviceCleared
  <2>5. QED
    BY <1>1, <2>2, <2>3, <2>4, Zenon DEF DeviceTypes
<1>8. CASE TriggerReset
  <2>1. HostTypes'
    BY <1>8, HostTypesKept, Zenon DEF Main
  <2>2. CountTypes'
    BY <1>1, <1>8, CountsUp, Zenon DEF TriggerReset
  <2>3. DeviceTypes'
    <3>1. UNCHANGED eagle /\ (DeviceCleared \/ UNCHANGED deviceVars)
      BY <1>8, Zenon DEF TriggerReset, SameDevice
    <3>2. QED
      BY <1>1, <1>7, <3>1, TypesKept, Zenon
  <2>4. QED
    BY <1>1, <1>8, <2>1, <2>2, <2>3, TypesKept, Zenon DEF TriggerReset
<1>9. CASE Restart
  <2>1. CountTypes'
    BY <1>1, <1>9, CountsUp, Zenon DEF Restart, Lost
  <2>2. DeviceTypes'
    BY <1>7, <1>9, Zenon DEF Restart
  <2>3. QED
    BY <1>1, <1>9, <2>1, <2>2, TypesKept, Zenon DEF Restart
<1>10. CASE SetDelay
  <2>1. HostTypes'
    BY <1>10, HostTypesKept, Zenon DEF Main
  <2>2. CountTypes'
    BY <1>1, <1>10, CountsUp, Zenon DEF SetDelay
  <2>3. SyncTypes'
    BY <1>1, <1>10, Zenon DEF SetDelay, SyncTypes
  <2>4. ChannelTypes'
    BY <1>1, <1>10, Zenon DEF SetDelay, ChannelTypes
  <2>5. QED
    BY <1>1, <1>10, <2>1, <2>2, <2>3, <2>4, TypesKept, Zenon DEF SetDelay
<1>11. CASE DelayWrite
  <2>1. HostTypes'
    BY <1>11, HostTypesKept, Zenon DEF Main
  <2>2. step["main"] \in 1..3
    BY <1>11 DEF DelayWrite, StepInv
  <2>3. CountTypes'
    <3>1. Lost \/ UNCHANGED count
      BY <1>11, Zenon DEF DelayWrite, Access
    <3>2. QED
      BY <1>1, <3>1, CountsUp, TypesKept, Zenon
  <2>4. SyncTypes'
    BY <1>1, <1>11, Zenon DEF DelayWrite, Access, SyncTypes
  <2>5. ChannelTypes'
    <3>1. Rewind("main") \/ Advance("main", DelayOrder)
      BY <1>11, Zenon DEF DelayWrite, Access
    <3>2. Len(DelayOrder) \in 1..4 /\ step["main"] <= Len(DelayOrder)
      BY <2>2, Orders
    <3>3. step \in [Channels \cup {"main"} -> 1..4] /\ "main" \in Channels \cup {"main"}
      BY <1>1, Zenon DEF ChannelTypes
    <3>4. step' \in [Channels \cup {"main"} -> 1..4]
      BY <3>1, <3>2, <3>3, Rewound, Advanced, Zenon
    <3>5. QED
      BY <1>1, <1>11, <3>4, Zenon DEF DelayWrite, ChannelTypes
  <2>6. DeviceTypes'
    <3>1. UNCHANGED eagle /\ (VsyncWrite(DelayOrder[step["main"]]) \/ SameDevice)
      BY <1>11, Zenon DEF DelayWrite, Access
    <3>2. DelayOrder[step["main"]] \in {"off", "on", "frequency", "delay"}
      BY <2>2, Orders
    <3>3. SameDevice => DeviceTypes'
      BY <1>1, <3>1, Zenon DEF SameDevice, DeviceTypes, deviceVars
    <3>4. VsyncWrite(DelayOrder[step["main"]]) => DeviceTypes'
      BY <1>1, <3>1, <3>2, VsyncTypes, Zenon
    <3>5. QED
      BY <3>1, <3>3, <3>4, Zenon
  <2>7. QED
    BY <2>1, <2>3, <2>4, <2>5, <2>6, Zenon
<1>12. QED
  BY <1>4, <1>5, <1>6, <1>8, <1>9, <1>10, <1>11, Zenon DEF Next, Main

-----------------------------------------------------------------------------
(* How a channel moves. *)

Guarded == Writing \cup {"setup_write"}

\* With neither guard, and not in a sequence of writes of which it has made one.
PlainMove(c) ==
    /\ pc[c] \notin Guarded /\ pc'[c] \notin Guarded
    /\ UNCHANGED <<lock, mutex_, step>>
    /\ step[c] = 1

\* Taking lock(), releasing it.
TakesLock(c) ==
    /\ pc[c] \in {"and_read", "or_read", "clear_read"} /\ pc'[c] \in Writing
    /\ lock = None /\ lock' = c
    /\ UNCHANGED <<mutex_, step>>

DropsLock(c) ==
    /\ pc[c] \in Writing /\ pc'[c] \in {"idle", "write", "attach", "clear"}
    /\ lock' = None
    /\ UNCHANGED <<mutex_, step>>

\* Taking mutex_ in order to write, releasing it.
TakesMutex(c) ==
    /\ pc[c] = "setup" /\ pc'[c] = "setup_write"
    /\ mutex_ = None /\ mutex_' = c
    /\ UNCHANGED <<lock, step>>

DropsMutex(c) ==
    /\ pc[c] = "setup_write" /\ pc'[c] \in {"idle", "attached"}
    /\ mutex_' = None
    /\ Rewind(c)
    /\ UNCHANGED lock

\* Writing one of several registers, which need not be the last one.
Writes(c) ==
    /\ pc[c] \in {"write", "clear", "setup_write"}
    /\ UNCHANGED <<pc, lock, mutex_>>
    /\ step'[c] = step[c] + 1
    /\ step'[c] <= (IF pc[c] = "setup_write" THEN 4 ELSE 2)

EndsWrites(c) ==
    /\ pc[c] \in {"write", "clear"} /\ pc'[c] \in {"idle", "or_read"}
    /\ UNCHANGED <<lock, mutex_>>
    /\ Rewind(c)

\* Every step of a channel is one of these.
LEMMA ChannelMoves ==
    ASSUME TypeOK, StepInv, NEW c \in Channels, Channel(c)
    PROVE  /\ \A d \in Channels : d # c => pc'[d] = pc[d]
           /\ \A u \in Channels \cup {"main"} : u # c => step'[u] = step[u]
           /\ pc[c] # "idle" \/ main = "run"
           /\ \/ PlainMove(c) \/ TakesLock(c) \/ DropsLock(c) \/ TakesMutex(c)
              \/ DropsMutex(c) \/ Writes(c) \/ EndsWrites(c)
<1>1. pc \in [Channels -> ChannelStates] /\ step \in [Channels \cup {"main"} -> 1..4]
      /\ c \in Channels \cup {"main"}
  BY Zenon DEF TypeOK
<1> DEFINE Others == \A d \in Channels : d # c => pc'[d] = pc[d]
           OtherSteps == \A u \in Channels \cup {"main"} : u # c => step'[u] = step[u]
<1>2. \A p : PcTo(c, p) => pc'[c] = p /\ Others
  BY <1>1, Moves, Zenon
<1>3. UNCHANGED pc => Others
  BY Zenon
<1>4. UNCHANGED step => OtherSteps
  BY Zenon
<1>5. pc[c] \notin {"write", "clear", "setup_write"} => step[c] = 1
  BY Zenon DEF StepInv
<1>6. Rewind(c) => OtherSteps
  BY <1>1, Rewound, Zenon
<1> DEFINE Goal ==
      /\ Others /\ OtherSteps
      /\ pc[c] # "idle" \/ main = "run"
      /\ \/ PlainMove(c) \/ TakesLock(c) \/ DropsLock(c) \/ TakesMutex(c)
         \/ DropsMutex(c) \/ Writes(c) \/ EndsWrites(c)
<1>0. SUFFICES Goal
  BY Zenon
<1> HIDE DEF Others, OtherSteps
<1>7. CASE Configure(c)
  <2>1. /\ PcTo(c, "and_read") /\ pc[c] = "idle" /\ main = "run"
        /\ UNCHANGED <<lock, mutex_, step>>
    BY <1>7, Zenon DEF Configure, syncVars
  <2>2. PlainMove(c)
    BY <1>2, <1>5, <2>1 DEF PlainMove, Guarded, Writing
  <2>3. QED
    BY <1>2, <1>4, <2>1, <2>2, Zenon
<1>8. CASE MaskRead(c)
  <2>1. pc[c] \in {"and_read", "or_read", "clear_read"} /\ lock = None /\ UNCHANGED <<mutex_, step>>
    BY <1>8, Zenon DEF MaskRead, syncVars
  <2>2. \/ PcTo(c, "idle") /\ UNCHANGED lock
        \/ lock' = c /\ (PcTo(c, "and_write") \/ PcTo(c, "or_write") \/ PcTo(c, "clear_write"))
    BY <1>8 DEF MaskRead, Access, Fails
  <2>3. CASE PcTo(c, "idle") /\ UNCHANGED lock
    <3>1. PlainMove(c)
      BY <1>2, <1>5, <2>1, <2>3 DEF PlainMove, Guarded, Writing
    <3>2. QED
      BY <1>2, <1>4, <2>1, <2>3, <3>1, Zenon
  <2>4. CASE lock' = c /\ (PcTo(c, "and_write") \/ PcTo(c, "or_write") \/ PcTo(c, "clear_write"))
    <3>1. TakesLock(c)
      BY <1>2, <2>1, <2>4, Zenon DEF TakesLock, Writing
    <3>2. QED
      BY <1>2, <1>4, <2>1, <2>4, <3>1, Zenon
  <2>5. QED
    BY <2>2, <2>3, <2>4, Zenon
<1>9. CASE MaskWrite(c)
  <2>1. pc[c] \in Writing /\ lock' = None /\ UNCHANGED <<mutex_, step>>
    BY <1>9, Zenon DEF MaskWrite, syncVars, Writing
  <2>2. PcTo(c, "idle") \/ PcTo(c, "write") \/ PcTo(c, "attach") \/ PcTo(c, "clear")
    BY <1>9 DEF MaskWrite, Access, Fails
  <2>3. DropsLock(c)
    BY <1>2, <2>1, <2>2, Zenon DEF DropsLock
  <2>4. pc[c] # "idle"
    BY <2>1 DEF Writing
  <2>5. QED
    BY <1>2, <1>4, <2>1, <2>2, <2>3, <2>4, Zenon
<1>10. CASE WriteRegister(c) \/ ClearRegister(c)
  <2>1. pc[c] \in {"write", "clear"} /\ UNCHANGED <<lock, mutex_>> /\ step[c] \in 1..2
    BY <1>10 DEF WriteRegister, ClearRegister, WriteNext, syncVars, StepInv
  <2>2. PICK order \in {ConfigureOrder, ClearOrder}, done \in {"or_read", "idle"} :
           \/ /\ Advance(c, order)
              /\ IF step[c] = Len(order) THEN PcTo(c, done) ELSE UNCHANGED pc
           \/ PcTo(c, "idle") /\ Rewind(c)
    BY <1>10, Zenon DEF WriteRegister, ClearRegister, WriteNext, Access, Fails
  <2>3. Len(order) = 2
    BY <2>2, Orders, Zenon
  <2>4. CASE PcTo(c, "idle") /\ Rewind(c)
    <3>1. EndsWrites(c)
      BY <1>2, <2>1, <2>4, Zenon DEF EndsWrites
    <3>2. QED
      BY <1>2, <1>6, <2>1, <2>4, <3>1
  <2>5. CASE Advance(c, order) /\ step[c] = 2 /\ PcTo(c, done)
    <3>1. Rewind(c)
      BY <2>3, <2>5 DEF Advance, Rewind
    <3>2. EndsWrites(c)
      BY <1>2, <2>1, <2>2, <2>5, <3>1, Zenon DEF EndsWrites
    <3>3. QED
      BY <1>2, <1>6, <2>1, <2>5, <3>1, <3>2
  <2>6. CASE Advance(c, order) /\ step[c] # 2 /\ UNCHANGED pc
    <3>1. Len(order) \in 1..4 /\ step[c] <= Len(order)
      BY <2>1, <2>3
    <3>2. OtherSteps /\ step'[c] = IF step[c] = Len(order) THEN 1 ELSE step[c] + 1
      BY <1>1, <2>6, <3>1, Advanced, Zenon DEF OtherSteps
    <3>3. step'[c] = step[c] + 1 /\ step'[c] <= 2
      BY <2>1, <2>3, <2>6, <3>2
    <3>4. Writes(c)
      BY <2>1, <2>6, <3>3 DEF Writes
    <3>5. QED
      BY <1>3, <2>1, <2>6, <3>2, <3>4
  <2>7. QED
    BY <2>2, <2>3, <2>4, <2>5, <2>6, Zenon
<1>11. CASE MtuTooSmall(c)
  <2>1. /\ PcTo(c, "idle") /\ pc[c] = "write" /\ step[c] = 1
        /\ UNCHANGED <<lock, mutex_, step>>
    BY <1>11, Zenon DEF MtuTooSmall, Fails, syncVars
  <2>2. PlainMove(c)
    BY <1>2, <2>1 DEF PlainMove, Guarded, Writing
  <2>3. QED
    BY <1>2, <1>4, <2>1, <2>2
<1>12. CASE SetFrequency(c)
  <2>1. pc[c] = "attach" /\ UNCHANGED <<pc, lock, mutex_, step>>
    BY <1>12, Zenon DEF SetFrequency, channelVars
  <2>2. PlainMove(c)
    BY <1>5, <2>1 DEF PlainMove, Guarded, Writing
  <2>3. QED
    BY <1>3, <1>4, <2>1, <2>2
<1>13. CASE \/ Unconfigure(c) \/ Attach(c) \/ CameraStart(c) \/ CameraStop(c) \/ Detach(c)
            \/ Shutdown(c)
  <2>1. /\ UNCHANGED <<lock, mutex_, step>>
        /\ pc[c] \in {"detached", "attach", "attached", "running", "detach", "shutdown"}
    BY <1>13, Zenon DEF Unconfigure, Attach, CameraStart, CameraStop, Detach, Shutdown, syncVars
  <2>2. PICK p \in {"idle", "clear_read", "setup", "attached", "running", "detach", "shutdown",
                    "detached"} : PcTo(c, p)
    <3>1. Unconfigure(c) => PcTo(c, "idle") \/ PcTo(c, "clear_read")
      BY Zenon DEF Unconfigure
    <3>2. Attach(c) => PcTo(c, "idle") \/ PcTo(c, "setup") \/ PcTo(c, "attached")
      BY DEF Attach
    <3>3. CameraStart(c) => PcTo(c, "running") \/ PcTo(c, "idle")
      BY Zenon DEF CameraStart, Access, Fails
    <3>4. CameraStop(c) => PcTo(c, "detach") \/ PcTo(c, "idle")
      BY Zenon DEF CameraStop, Access, Fails
    <3>5. Detach(c) => PcTo(c, "shutdown") \/ PcTo(c, "detached")
      BY Zenon DEF Detach
    <3>6. Shutdown(c) => PcTo(c, "detached") \/ PcTo(c, "idle")
      BY Zenon DEF Shutdown, Access, Fails
    <3>7. QED
      BY <1>13, <3>1, <3>2, <3>3, <3>4, <3>5, <3>6, Zenon
  <2>3. PlainMove(c)
    BY <1>2, <1>5, <2>1, <2>2 DEF PlainMove, Guarded, Writing
  <2>4. pc[c] # "idle"
    BY <2>1
  <2>5. QED
    BY <1>2, <1>4, <2>1, <2>2, <2>3, <2>4, Zenon
<1>14. CASE Setup(c)
  <2>1. pc[c] = "setup" /\ mutex_ = None /\ UNCHANGED <<lock, step>>
    BY <1>14, Zenon DEF Setup
  <2>2. \/ PcTo(c, "attached") /\ mutex_' = None
        \/ PcTo(c, "setup_write") /\ mutex_' = c
    BY <1>14, Zenon DEF Setup
  <2>3. pc[c] # "idle"
    BY <2>1
  <2>4. CASE PcTo(c, "attached") /\ mutex_' = None
    <3>1. PlainMove(c)
      BY <1>2, <1>5, <2>1, <2>4 DEF PlainMove, Guarded, Writing
    <3>2. QED
      BY <1>2, <1>4, <2>1, <2>3, <2>4, <3>1, Zenon
  <2>5. CASE PcTo(c, "setup_write") /\ mutex_' = c
    <3>1. TakesMutex(c)
      BY <1>2, <2>1, <2>5, Zenon DEF TakesMutex
    <3>2. QED
      BY <1>2, <1>4, <2>1, <2>3, <2>5, <3>1, Zenon
  <2>6. QED
    BY <2>2, <2>4, <2>5, Zenon
<1>15. CASE SetupWrite(c)
  <2>1. pc[c] = "setup_write" /\ UNCHANGED lock /\ step[c] \in 1..4 /\ Len(SetupOrder) = 4
    BY <1>1, <1>15, Orders DEF SetupWrite
  <2>2. \/ /\ Advance(c, SetupOrder)
           /\ IF step[c] = Len(SetupOrder) THEN PcTo(c, "attached") /\ mutex_' = None
              ELSE UNCHANGED <<pc, mutex_>>
        \/ PcTo(c, "idle") /\ Rewind(c) /\ mutex_' = None
    BY <1>15, Zenon DEF SetupWrite, Access, Fails
  <2>3. CASE PcTo(c, "idle") /\ Rewind(c) /\ mutex_' = None
    <3>1. DropsMutex(c)
      BY <1>2, <2>1, <2>3, Zenon DEF DropsMutex
    <3>2. QED
      BY <1>2, <1>6, <2>1, <2>3, <3>1
  <2>4. CASE Advance(c, SetupOrder) /\ step[c] = 4 /\ PcTo(c, "attached") /\ mutex_' = None
    <3>1. Rewind(c)
      BY <2>1, <2>4 DEF Advance, Rewind
    <3>2. DropsMutex(c)
      BY <1>2, <2>1, <2>4, <3>1, Zenon DEF DropsMutex
    <3>3. QED
      BY <1>2, <1>6, <2>1, <2>4, <3>1, <3>2
  <2>5. CASE Advance(c, SetupOrder) /\ step[c] # 4 /\ UNCHANGED <<pc, mutex_>>
    <3>1. Len(SetupOrder) \in 1..4 /\ step[c] <= Len(SetupOrder)
      BY <2>1
    <3>2. OtherSteps /\ step'[c] = IF step[c] = Len(SetupOrder) THEN 1 ELSE step[c] + 1
      BY <1>1, <2>5, <3>1, Advanced, Zenon DEF OtherSteps
    <3>3. step'[c] = step[c] + 1 /\ step'[c] <= 4
      BY <2>1, <2>5, <3>2
    <3>4. Writes(c)
      BY <2>1, <2>5, <3>3 DEF Writes
    <3>5. QED
      BY <1>3, <2>1, <2>5, <3>2, <3>4
  <2>6. QED
    BY <2>1, <2>2, <2>3, <2>4, <2>5, Zenon
<1>16. QED
  BY <1>7, <1>8, <1>9, <1>10, <1>11, <1>12, <1>13, <1>14, <1>15, Zenon DEF Channel, Camera

-----------------------------------------------------------------------------
(* The guards and the steps of the sequences of writes. *)

\* The steps that no channel and no set_delay() takes.
HostStep ==
    \/ UNCHANGED vars \/ Async \/ SendEvent \/ StartAgain \/ Start \/ ConfigureVersion
    \/ ConfigureRegisters \/ FindChannel \/ Stop \/ StopClose \/ StopJoin \/ Reset
    \/ TriggerReset \/ Restart

LEMMA StepCases ==
    [Next]_vars => HostStep \/ SetDelay \/ DelayWrite \/ \E c \in Channels : Channel(c)
  BY Zenon DEF Next, Main, HostStep

\* They leave the channels and the synchronizer alone; the main thread goes
\* where no channel may be busy only when none is.
LEMMA HostMoves ==
    ASSUME GuardInv, HostStep
    PROVE  /\ UNCHANGED channelVars /\ UNCHANGED syncVars
           /\ \/ main' = main
              \/ main # "delay" /\ main' # "delay" /\ (main' = "run" \/ Quiet)
<1>1. CASE UNCHANGED vars
  BY <1>1, Zenon DEF vars
<1>2. CASE Async \/ SendEvent
  <2>1. UNCHANGED main
    BY <1>2, Zenon DEF Async, SendEvent, AsyncBegin, AsyncRecv, AsyncEvent, AsyncShutdown,
                       AsyncDeliver, AsyncTo
  <2>2. QED
    BY <1>2, <2>1, AsideSteps, Zenon DEF Aside
<1>3. CASE StartAgain \/ Start \/ ConfigureVersion \/ ConfigureRegisters \/ FindChannel \/ Stop
           \/ StopClose \/ StopJoin
  <2>1. main \in {"idle", "start_version", "reset_version", "start_registers", "reset_registers",
                  "reset_find", "close", "join"} \/ (main = "run" /\ Quiet)
    BY <1>3 DEF StartAgain, Start, ConfigureVersion, ConfigureRegisters, FindChannel, Stop,
                StopClose, StopJoin
  <2>2. Quiet /\ main # "delay"
    BY <2>1 DEF GuardInv
  <2>3. main' # "delay"
    BY <1>3 DEF StartAgain, Start, ConfigureVersion, ConfigureRegisters, FindChannel, Stop,
                StopClose, StopJoin, MainTo, Access, Configured
  <2>4. QED
    BY <1>3, <2>2, <2>3, AsideSteps, Zenon DEF Aside
<1>4. CASE Reset \/ TriggerReset
  <2>1. CASE Reset
    <3>1. main = "run" /\ Quiet /\ (main' = "reset_trigger" \/ main' = "idle")
      BY <2>1, Zenon DEF Reset, Access, MainTo
    <3>2. UNCHANGED channelVars /\ UNCHANGED syncVars
      BY <2>1, Zenon DEF Reset
    <3>3. QED
      BY <3>1, <3>2
  <2>2. CASE TriggerReset
    <3>1. main = "reset_trigger" /\ main' = "reset_find"
      BY <2>2, Zenon DEF TriggerReset, MainTo
    <3>2. Quiet
      BY <3>1 DEF GuardInv
    <3>3. UNCHANGED channelVars /\ UNCHANGED syncVars
      BY <2>2, Zenon DEF TriggerReset
    <3>4. QED
      BY <3>1, <3>2, <3>3
  <2>3. QED
    BY <1>4, <2>1, <2>2, Zenon
<1>5. CASE Restart
  BY <1>5, Zenon DEF Restart
<1>6. QED
  BY <1>1, <1>2, <1>3, <1>4, <1>5, Zenon DEF HostStep

\* lock() and mutex_ are held by the thread that is in their section, and the
\* main thread is where no channel may be busy only when none is.
LEMMA NextGuard ==
    ASSUME TypeOK, GuardInv, StepInv, SessionAssumption, [Next]_vars
    PROVE  GuardInv'
<1>1. CASE HostStep
  <2>1. UNCHANGED <<lock, pc, mutex_>>
    BY <1>1, HostMoves, Zenon DEF channelVars, syncVars
  <2>2. \/ main' = main
        \/ main # "delay" /\ main' # "delay" /\ (main' = "run" \/ Quiet)
    BY <1>1, HostMoves, Zenon
  <2>3. QED
    BY <2>1, <2>2, Zenon DEF GuardInv, Quiet
<1>2. CASE SetDelay
  <2>1. /\ main = "run" /\ mutex_ = None /\ UNCHANGED <<lock, pc>>
        /\ \/ mutex_' = "main" /\ main' = "delay"
           \/ mutex_' = None /\ main' = "run"
    BY <1>2, Zenon DEF SetDelay, MainTo
  <2>2. \A c \in Channels : c # None /\ c # "main"
    BY DEF SessionAssumption
  <2>3. None # "main"
    BY DEF SessionAssumption
  <2>4. QED
    BY <2>1, <2>2, <2>3 DEF GuardInv, Quiet
<1>3. CASE DelayWrite
  <2>1. /\ main = "delay" /\ UNCHANGED <<lock, pc>>
        /\ \/ mutex_' = None /\ main' = "run"
           \/ UNCHANGED <<main, mutex_>>
    BY <1>3, Zenon DEF DelayWrite, MainTo, Access
  <2>2. \A c \in Channels : c # None /\ c # "main"
    BY DEF SessionAssumption
  <2>3. None # "main" /\ mutex_ = "main"
    BY <2>1 DEF SessionAssumption, GuardInv
  <2>4. QED
    BY <2>1, <2>2, <2>3 DEF GuardInv, Quiet
<1>4. ASSUME NEW c \in Channels, Channel(c)
      PROVE  GuardInv'
  <2>1. UNCHANGED main
    BY <1>4, ChannelKeeps, Zenon
  <2>2. /\ \A d \in Channels : d # c => pc'[d] = pc[d]
        /\ pc[c] # "idle" \/ main = "run"
    BY <1>4, ChannelMoves, Zenon
  <2>3. main \in {"run", "delay"}
    BY <2>2, Zenon DEF GuardInv, Quiet
  <2>4. None # "main" /\ \A d \in Channels : d # None /\ d # "main"
    BY DEF SessionAssumption
  <2>5. CASE PlainMove(c)
    <3>1. /\ pc[c] \notin Writing /\ pc[c] # "setup_write"
          /\ pc'[c] \notin Writing /\ pc'[c] # "setup_write"
          /\ lock' = lock /\ mutex_' = mutex_
      BY <2>5, Zenon DEF PlainMove, Guarded
    <3>2. QED
      BY <2>1, <2>2, <2>3, <3>1, Zenon DEF GuardInv
  <2>6. CASE TakesLock(c)
    <3>1. /\ pc[c] \notin Writing /\ pc[c] # "setup_write"
          /\ pc'[c] \in Writing /\ pc'[c] # "setup_write"
          /\ lock = None /\ lock' = c /\ mutex_' = mutex_
      BY <2>6 DEF TakesLock, Writing
    <3>2. QED
      BY <2>1, <2>2, <2>3, <2>4, <3>1, Zenon DEF GuardInv
  <2>7. CASE DropsLock(c)
    <3>1. /\ pc[c] \in Writing /\ pc[c] # "setup_write"
          /\ pc'[c] \notin Writing /\ pc'[c] # "setup_write"
          /\ lock' = None /\ mutex_' = mutex_
      BY <2>7 DEF DropsLock, Writing
    <3>2. lock = c
      BY <3>1, Zenon DEF GuardInv
    <3>3. QED
      BY <2>1, <2>2, <2>3, <2>4, <3>1, <3>2, Zenon DEF GuardInv
  <2>8. CASE TakesMutex(c)
    <3>1. /\ pc[c] \notin Writing /\ pc[c] # "setup_write"
          /\ pc'[c] \notin Writing /\ pc'[c] = "setup_write"
          /\ mutex_ = None /\ mutex_' = c /\ lock' = lock
      BY <2>8 DEF TakesMutex, Writing
    <3>2. main # "delay"
      BY <2>4, <3>1, Zenon DEF GuardInv
    <3>3. QED
      BY <2>1, <2>2, <2>3, <2>4, <3>1, <3>2, Zenon DEF GuardInv
  <2>9. CASE DropsMutex(c)
    <3>1. /\ pc[c] \notin Writing /\ pc[c] = "setup_write"
          /\ pc'[c] \notin Writing /\ pc'[c] # "setup_write"
          /\ mutex_' = None /\ lock' = lock
      BY <2>9 DEF DropsMutex, Writing
    <3>2. mutex_ = c
      BY <3>1, Zenon DEF GuardInv
    <3>3. main # "delay"
      BY <2>4, <3>2, Zenon DEF GuardInv
    <3>4. QED
      BY <2>1, <2>2, <2>3, <2>4, <3>1, <3>2, <3>3, Zenon DEF GuardInv
  <2>10. CASE Writes(c)
    BY <2>1, <2>3, <2>10, Zenon DEF Writes, GuardInv, Quiet
  <2>11. CASE EndsWrites(c)
    <3>1. /\ pc[c] \notin Writing /\ pc[c] # "setup_write"
          /\ pc'[c] \notin Writing /\ pc'[c] # "setup_write"
          /\ lock' = lock /\ mutex_' = mutex_
      BY <2>11 DEF EndsWrites, Writing
    <3>2. QED
      BY <2>1, <2>2, <2>3, <3>1, Zenon DEF GuardInv
  <2>12. QED
    BY <1>4, <2>5, <2>6, <2>7, <2>8, <2>9, <2>10, <2>11, ChannelMoves, Zenon
<1>5. QED
  BY <1>1, <1>2, <1>3, <1>4, StepCases, Zenon

\* A sequence of writes is never left in the middle but by its thread.
LEMMA NextStep ==
    ASSUME TypeOK, GuardInv, StepInv, SessionAssumption, [Next]_vars
    PROVE  StepInv'
<1>1. CASE HostStep
  <2>1. UNCHANGED <<pc, step>> /\ (main' = main \/ (main # "delay" /\ main' # "delay"))
    BY <1>1, HostMoves, Zenon DEF channelVars
  <2>2. QED
    BY <2>1, Zenon DEF StepInv
<1>2. CASE SetDelay
  <2>1. main = "run" /\ UNCHANGED <<pc, step>>
    BY <1>2, Zenon DEF SetDelay
  <2>2. step'["main"] = 1
    BY <2>1 DEF StepInv
  <2>3. step'["main"] \in IF main' = "delay" THEN 1..3 ELSE {1}
    BY <2>2
  <2>4. QED
    BY <2>1, <2>3, Zenon DEF StepInv
<1>3. CASE DelayWrite
  <2>1. main = "delay" /\ UNCHANGED pc /\ step["main"] \in 1..3 /\ Len(DelayOrder) = 3
    BY <1>3, Orders DEF DelayWrite, StepInv
  <2>2. \/ Advance("main", DelayOrder) /\ main' = IF step["main"] = 3 THEN "run" ELSE main
        \/ Rewind("main") /\ main' = "run"
    BY <1>3, <2>1, Zenon DEF DelayWrite, Access, MainTo
  <2>3. step \in [Channels \cup {"main"} -> 1..4] /\ "main" \in Channels \cup {"main"}
    BY Zenon DEF TypeOK
  <2>4. /\ \A u \in Channels \cup {"main"} : u # "main" => step'[u] = step[u]
        /\ Rewind("main") => step'["main"] = 1
        /\ Advance("main", DelayOrder) =>
               step'["main"] = IF step["main"] = 3 THEN 1 ELSE step["main"] + 1
    <3>1. Len(DelayOrder) \in 1..4 /\ step["main"] <= Len(DelayOrder)
      BY <2>1
    <3>2. Rewind("main") =>
            /\ step'["main"] = 1
            /\ \A u \in Channels \cup {"main"} : u # "main" => step'[u] = step[u]
      BY <2>3, Rewound, Zenon
    <3>3. Advance("main", DelayOrder) =>
            /\ step'["main"] = IF step["main"] = Len(DelayOrder) THEN 1 ELSE step["main"] + 1
            /\ \A u \in Channels \cup {"main"} : u # "main" => step'[u] = step[u]
      BY <2>3, <3>1, Advanced, Zenon
    <3>4. Rewind("main") \/ Advance("main", DelayOrder)
      BY <2>2, Zenon
    <3>5. Len(DelayOrder) = 3
      BY <2>1
    <3>6. QED
      BY <3>2, <3>3, <3>4, <3>5, Zenon
  <2>5. \A c \in Channels : step'[c] = step[c]
    BY <2>4 DEF SessionAssumption
  <2>6. step'["main"] \in IF main' = "delay" THEN 1..3 ELSE {1}
    BY <2>1, <2>2, <2>4
  <2>7. QED
    BY <2>1, <2>5, <2>6, Zenon DEF StepInv
<1>4. ASSUME NEW c \in Channels, Channel(c)
      PROVE  StepInv'
  <2>1. UNCHANGED main
    BY <1>4, ChannelKeeps, Zenon
  <2>2. /\ \A d \in Channels : d # c => pc'[d] = pc[d]
        /\ \A u \in Channels \cup {"main"} : u # c => step'[u] = step[u]
    BY <1>4, ChannelMoves, Zenon
  <2>3. c # "main" /\ step'["main"] = step["main"]
    BY <2>2 DEF SessionAssumption
  <2>4. step \in [Channels \cup {"main"} -> 1..4] /\ c \in Channels \cup {"main"}
    BY Zenon DEF TypeOK
  <2>5. step[c] \in IF pc[c] \in {"write", "clear"} THEN 1..2
                    ELSE IF pc[c] = "setup_write" THEN 1..4 ELSE {1}
    BY Zenon DEF StepInv
  <2>6. step'[c] \in IF pc'[c] \in {"write", "clear"} THEN 1..2
                     ELSE IF pc'[c] = "setup_write" THEN 1..4 ELSE {1}
    <3>1. PlainMove(c) \/ TakesLock(c) \/ DropsLock(c) \/ TakesMutex(c) => step'[c] = 1
      BY <2>5 DEF PlainMove, TakesLock, DropsLock, TakesMutex, Writing
    <3>2. DropsMutex(c) \/ EndsWrites(c) => step'[c] = 1
      BY <2>4, Rewound, Zenon DEF DropsMutex, EndsWrites
    <3>3. CASE step'[c] = 1
      BY <3>3
    <3>4. CASE Writes(c)
      <4>1. step[c] \in 1..4
        BY <2>4
      <4>2. QED
        BY <2>5, <3>4, <4>1 DEF Writes
    <3>5. QED
      BY <1>4, <3>1, <3>2, <3>3, <3>4, ChannelMoves, Zenon
  <2>7. \A d \in Channels : d # c => step'[d] = step[d]
    BY <2>2, Zenon
  <2>8. QED
    BY <2>1, <2>2, <2>3, <2>6, <2>7, Zenon DEF StepInv
<1>5. QED
  BY <1>1, <1>2, <1>3, <1>4, StepCases, Zenon

-----------------------------------------------------------------------------
(* The virtual ports. *)

\* The steps of a channel that touch neither the mask nor its registers.
Rest(c) ==
    \/ MtuTooSmall(c) \/ Unconfigure(c) \/ SetFrequency(c) \/ Attach(c) \/ Setup(c)
    \/ SetupWrite(c) \/ CameraStart(c) \/ CameraStop(c) \/ Detach(c) \/ Shutdown(c)

\* States in which PortsInv claims something.
Claiming == Writing \cup {"write", "clear", "or_read"}

LEMMA RestMoves ==
    ASSUME TypeOK, NEW c \in Channels, Rest(c)
    PROVE  /\ UNCHANGED <<mask, reg, own, torn>> /\ UNCHANGED <<lock, seen, round>>
           /\ pc[c] # "idle"
           /\ pc'[c] \notin Claiming
<1>1. pc \in [Channels -> ChannelStates]
  BY Zenon DEF TypeOK
<1>2. UNCHANGED <<mask, reg, own, torn>> /\ UNCHANGED <<lock, seen, round>>
  BY Zenon DEF Rest, MtuTooSmall, Unconfigure, SetFrequency, Attach, Setup, SetupWrite,
     CameraStart, CameraStop, Detach, Shutdown, Access, VsyncWrite, SameDevice, deviceVars,
     channelVars
<1>3. pc[c] # "idle"
  BY DEF Rest, MtuTooSmall, Unconfigure, SetFrequency, Attach, Setup, SetupWrite,
     CameraStart, CameraStop, Detach, Shutdown
<1>4. \/ pc' = pc /\ pc[c] \in {"attach", "setup_write"}
      \/ \E p \in {"idle", "clear_read", "setup", "setup_write", "attached", "running", "detach",
                   "shutdown", "detached"} : PcTo(c, p)
  <2>1. MtuTooSmall(c) => PcTo(c, "idle")
    BY Zenon DEF MtuTooSmall, Fails
  <2>2. Unconfigure(c) => PcTo(c, "idle") \/ PcTo(c, "clear_read")
    BY Zenon DEF Unconfigure
  <2>3. SetFrequency(c) => pc' = pc /\ pc[c] = "attach"
    BY Zenon DEF SetFrequency, channelVars
  <2>4. Attach(c) => PcTo(c, "idle") \/ PcTo(c, "setup") \/ PcTo(c, "attached")
    BY DEF Attach
  <2>5. Setup(c) => PcTo(c, "attached") \/ PcTo(c, "setup_write")
    BY Zenon DEF Setup
  <2>6. SetupWrite(c) => \/ pc' = pc /\ pc[c] = "setup_write"
                         \/ PcTo(c, "attached") \/ PcTo(c, "idle")
    BY Zenon DEF SetupWrite, Access, Fails
  <2>7. CameraStart(c) => PcTo(c, "running") \/ PcTo(c, "idle")
    BY Zenon DEF CameraStart, Access, Fails
  <2>8. CameraStop(c) => PcTo(c, "detach") \/ PcTo(c, "idle")
    BY Zenon DEF CameraStop, Access, Fails
  <2>9. Detach(c) => PcTo(c, "shutdown") \/ PcTo(c, "detached")
    BY Zenon DEF Detach
  <2>10. Shutdown(c) => PcTo(c, "detached") \/ PcTo(c, "idle")
    BY Zenon DEF Shutdown, Access, Fails
  <2>11. QED
    BY <2>1, <2>2, <2>3, <2>4, <2>5, <2>6, <2>7, <2>8, <2>9, <2>10, Zenon DEF Rest
<1>5. \A p : PcTo(c, p) => pc'[c] = p
  BY <1>1, Moves, Zenon
<1>6. pc'[c] \notin Claiming
  BY <1>4, <1>5 DEF Claiming, Writing
<1>7. QED
  BY <1>2, <1>3, <1>6, Zenon

\* What channel c does between the read and the write of DP_VP_MASK.
LEMMA MaskReads ==
    ASSUME TypeOK, NEW c \in Channels, MaskRead(c)
    PROVE  /\ UNCHANGED <<mask, reg, own, torn, round>>
           /\ pc[c] \in {"and_read", "or_read", "clear_read"} /\ lock = None
           /\ \/ seen' = seen /\ pc'[c] = "idle"
              \/ /\ seen' = [seen EXCEPT ![c] = mask] /\ pc'[c] \in Writing
                 /\ pc'[c] = "or_write" => pc[c] = "or_read"
<1>1. UNCHANGED <<mask, reg, own, torn, round>>
  BY Zenon DEF MaskRead, Access, SameDevice, deviceVars
<1>2. pc[c] \in {"and_read", "or_read", "clear_read"} /\ lock = None
  BY Zenon DEF MaskRead
<1>3. \/ seen' = seen /\ PcTo(c, "idle")
      \/ /\ seen' = [seen EXCEPT ![c] = mask]
         /\ \/ PcTo(c, "or_write") /\ pc[c] = "or_read"
            \/ PcTo(c, "and_write") \/ PcTo(c, "clear_write")
  BY DEF MaskRead, Access, Fails
<1>4. \A p : PcTo(c, p) => pc'[c] = p
  BY Moves, Zenon DEF TypeOK
<1>5. \/ seen' = seen /\ pc'[c] = "idle"
      \/ /\ seen' = [seen EXCEPT ![c] = mask] /\ pc'[c] \in Writing
         /\ pc'[c] = "or_write" => pc[c] = "or_read"
  BY <1>3, <1>4 DEF Writing
<1>6. QED
  BY <1>1, <1>2, <1>5, Zenon

\* The mask it writes.
NewMask(c) == IF pc[c] = "or_write" THEN seen[c] \cup {c} ELSE seen[c] \ {c}

LEMMA MaskWrites ==
    ASSUME TypeOK, GuardInv, StepInv, NEW c \in Channels, MaskWrite(c)
    PROVE  /\ UNCHANGED <<reg, round>> /\ lock = c /\ lock' = None /\ torn' = FALSE
           /\ pc[c] \in Writing /\ pc'[c] \notin Writing
           /\ \A d \in Channels : d # c => pc[d] \notin Writing
           /\ step'[c] = 1
           /\ \/ /\ Executes /\ mask' = NewMask(c)
                 /\ own' = IF pc[c] = "and_write" THEN own \cup {c} ELSE own
                 /\ \/ pc'[c] \in {"idle", "attach"}
                    \/ pc[c] # "or_write" /\ pc'[c] \in {"write", "clear"}
              \/ /\ UNCHANGED <<mask, own>> /\ ~synced' /\ pc'[c] = "idle"
<1>1. UNCHANGED <<reg, round>> /\ lock' = None /\ torn' = FALSE /\ pc[c] \in Writing
  BY Zenon DEF MaskWrite, Access, Writing
<1>2. lock = c /\ \A d \in Channels : d # c => pc[d] \notin Writing
  BY <1>1, Zenon DEF GuardInv
<1>3. step'[c] = 1
  <2>1. step' = step
    BY Zenon DEF MaskWrite
  <2>2. QED
    BY <1>1, <2>1 DEF StepInv, Writing
<1>4. \A p : PcTo(c, p) => pc'[c] = p
  BY Moves, Zenon DEF TypeOK
<1> DEFINE Ok == PcTo(c, CASE pc[c] = "and_write" -> "write"
                          [] pc[c] = "or_write" -> "attach"
                          [] OTHER -> "clear")
<1>5. \/ /\ Executes /\ mask' = NewMask(c)
         /\ own' = IF pc[c] = "and_write" THEN own \cup {c} ELSE own
         /\ Ok \/ PcTo(c, "idle")
      \/ /\ UNCHANGED <<mask, own>> /\ ~synced' /\ PcTo(c, "idle")
  BY Zenon DEF MaskWrite, Access, Executes, NewMask, Fails, sequence
<1>6. Ok => pc'[c] = "attach" \/ (pc[c] # "or_write" /\ pc'[c] \in {"write", "clear"})
  <2>1. Ok => PcTo(c, "attach")
              \/ (pc[c] # "or_write" /\ (PcTo(c, "write") \/ PcTo(c, "clear")))
    OBVIOUS
  <2>2. QED
    BY <1>4, <2>1, Zenon
<1> HIDE DEF Ok
<1>7. PcTo(c, "idle") => pc'[c] = "idle"
  BY <1>4, Zenon
<1>8. \/ /\ Executes /\ mask' = NewMask(c)
         /\ own' = IF pc[c] = "and_write" THEN own \cup {c} ELSE own
         /\ \/ pc'[c] \in {"idle", "attach"}
            \/ pc[c] # "or_write" /\ pc'[c] \in {"write", "clear"}
      \/ /\ UNCHANGED <<mask, own>> /\ ~synced' /\ pc'[c] = "idle"
  BY <1>5, <1>6, <1>7, Zenon
<1>9. pc'[c] \notin Writing
  BY <1>8 DEF Writing
<1>10. QED
  BY <1>1, <1>2, <1>3, <1>8, <1>9, Zenon

\* Writing a register of its port.
LEMMA RegisterWrites ==
    ASSUME TypeOK, StepInv, NEW c \in Channels, WriteRegister(c) \/ ClearRegister(c)
    PROVE  /\ UNCHANGED <<mask, own, torn>> /\ UNCHANGED <<lock, seen, round>>
           /\ pc[c] \in {"write", "clear"} /\ step[c] \in 1..2
           /\ \A d \in Channels : d # c => reg'[d] = reg[d]
           /\ reg' = reg \/ Executes
           /\ \/ pc'[c] = "idle"
              \/ pc[c] = "clear" /\ pc'[c] = "clear"
              \/ /\ pc[c] = "write"
                 /\ reg' = [reg EXCEPT ![c][ConfigureOrder[step[c]]] = round[c]]
                 /\ \/ step[c] = 2 /\ pc'[c] = "or_read"
                    \/ step[c] = 1 /\ pc'[c] = "write"
<1>1. /\ UNCHANGED <<mask, own, torn>> /\ UNCHANGED <<lock, seen, round>>
      /\ pc[c] \in {"write", "clear"}
  BY Zenon DEF WriteRegister, ClearRegister, WriteNext, Access, SameDevice, deviceVars
<1>2. step[c] \in 1..2
  BY <1>1 DEF StepInv
<1>3. \/ reg' = reg
      \/ Executes /\ reg' = [reg EXCEPT ![c][ConfigureOrder[step[c]]] = round[c]]
      \/ Executes /\ reg' = [reg EXCEPT ![c][ClearOrder[step[c]]] = 0]
  BY Zenon DEF WriteRegister, ClearRegister, WriteNext, Access, SameDevice, deviceVars, Executes,
               sequence
<1>4. \A d \in Channels : d # c => reg'[d] = reg[d]
  BY <1>3 DEF TypeOK
<1>5. reg' = reg \/ Executes
  BY <1>3, Zenon
<1>6. \A p : PcTo(c, p) => pc'[c] = p
  BY Moves, Zenon DEF TypeOK
<1>7. CASE WriteRegister(c)
  <2>1. pc[c] = "write"
    BY <1>7, Zenon DEF WriteRegister
  <2>2. \/ PcTo(c, "idle")
        \/ /\ reg' = [reg EXCEPT ![c][ConfigureOrder[step[c]]] = round[c]]
           /\ IF step[c] = Len(ConfigureOrder) THEN PcTo(c, "or_read") ELSE UNCHANGED pc
    BY <1>7, Zenon DEF WriteRegister, WriteNext, Access, Fails
  <2>3. Len(ConfigureOrder) = 2 /\ (step[c] # 2 => step[c] = 1)
    BY <1>2, Orders
  <2>4. \/ pc'[c] = "idle"
        \/ /\ reg' = [reg EXCEPT ![c][ConfigureOrder[step[c]]] = round[c]]
           /\ \/ step[c] = 2 /\ pc'[c] = "or_read"
              \/ step[c] = 1 /\ pc'[c] = "write"
    BY <1>6, <2>1, <2>2, <2>3, Zenon
  <2>5. QED
    BY <1>1, <1>2, <1>4, <1>5, <2>1, <2>4, Zenon
<1>8. CASE ClearRegister(c)
  <2>1. pc[c] = "clear" /\ (PcTo(c, "idle") \/ UNCHANGED pc)
    BY <1>8, Zenon DEF ClearRegister, WriteNext, Access, Fails
  <2>2. pc'[c] = "idle" \/ pc'[c] = "clear"
    BY <1>6, <2>1, Zenon
  <2>3. QED
    BY <1>1, <1>2, <1>4, <1>5, <2>1, <2>2, Zenon
<1>9. QED
  BY <1>7, <1>8, Zenon

\* Every step of the host or of the device clears the device, or reads its
\* version while every channel is idle, or leaves it alone.
LEMMA HostDevice ==
    ASSUME GuardInv, HostStep \/ SetDelay \/ DelayWrite
    PROVE  /\ UNCHANGED <<lock, pc, seen, round>>
           /\ \/ DeviceCleared /\ synced' = FALSE
              \/ UNCHANGED <<mask, reg, own, torn>> /\ UNCHANGED adopted /\ Quiet
              \/ UNCHANGED <<mask, reg, own, torn>> /\ Follows
<1>1. UNCHANGED <<lock, pc, seen, round>>
  <2>1. HostStep => UNCHANGED <<lock, pc, seen, round>>
    BY HostMoves, Zenon DEF channelVars
  <2>2. SetDelay \/ DelayWrite => UNCHANGED <<lock, pc, seen, round>>
    BY Zenon DEF SetDelay, DelayWrite
  <2>3. QED
    BY <2>1, <2>2, Zenon
<1>2. CASE SetDelay \/ DelayWrite
  <2>1. UNCHANGED <<mask, reg, own, torn>>
    BY <1>2, Zenon DEF SetDelay, DelayWrite, Access, VsyncWrite, SameDevice, deviceVars
  <2>2. QED
    BY <1>1, <1>2, <2>1, HostFollows, Zenon
<1>3. CASE ConfigureVersion
  <2>1. Quiet
    BY <1>3 DEF ConfigureVersion, GuardInv
  <2>2. UNCHANGED <<mask, reg, own, torn>> /\ UNCHANGED adopted
    BY <1>3, Zenon DEF ConfigureVersion, deviceVars
  <2>3. QED
    BY <1>1, <2>1, <2>2, Zenon
<1>4. CASE Restart
  BY <1>1, <1>4, Zenon DEF Restart
<1>5. CASE TriggerReset
  <2>1. main = "reset_trigger"
    BY <1>5, Zenon DEF TriggerReset
  <2>2. Quiet
    BY <2>1 DEF GuardInv
  <2>3. \/ DeviceCleared /\ synced' = FALSE
        \/ UNCHANGED <<mask, reg, own, torn>> /\ UNCHANGED adopted
    BY <1>5, Zenon DEF TriggerReset, SameDevice, deviceVars
  <2>4. QED
    BY <1>1, <2>2, <2>3, Zenon
<1>6. CASE UNCHANGED vars
  <2>1. UNCHANGED <<mask, reg, own, torn>>
    BY <1>6, Zenon DEF vars, deviceVars
  <2>2. QED
    BY <1>1, <1>6, <2>1, HostFollows, Zenon
<1>7. CASE Async \/ SendEvent \/ StartAgain \/ Start \/ ConfigureRegisters \/ Reset
           \/ FindChannel \/ Stop \/ StopClose \/ StopJoin
  <2>1. UNCHANGED <<mask, reg, own, torn>>
    BY <1>7, AsideSteps, Zenon DEF Aside, deviceVars
  <2>2. QED
    BY <1>1, <1>7, <2>1, HostFollows, Zenon
<1>8. QED
  BY <1>2, <1>3, <1>4, <1>5, <1>6, <1>7, Zenon DEF HostStep

\* What a step of another channel leaves as it is, if it leaves the mask.
LEMMA OtherPort ==
    ASSUME NEW d \in Channels, PortInv(d), pc'[d] = pc[d], step'[d] = step[d],
           round'[d] = round[d], reg'[d] = reg[d], d \in mask' => d \in mask
    PROVE  PortInv(d)'
  BY Zenon DEF PortInv

\* An access that is no new beginning makes nothing surer.
LEMMA NoSurer ==
    ASSUME SequenceTypes, Follows, own' = own
    PROVE  /\ \A d \in Channels : Sure(d)' => Sure(d)
           /\ ~adopted' => ~adopted
  BY Flow, Zenon DEF Sure

\* A device that was cleared under lock() stays nobody's.
LEMMA NextTorn ==
    ASSUME TypeOK, GuardInv, StepInv, TornInv, SessionAssumption, [Next]_vars
    PROVE  TornInv'
<1>1. SequenceTypes
  BY TypeGroups, Zenon
<1>2. CASE HostStep \/ SetDelay \/ DelayWrite
  <2>1. UNCHANGED lock
    BY <1>2, HostDevice, Zenon
  <2>2. CASE DeviceCleared /\ synced' = FALSE
    BY <2>1, <2>2 DEF DeviceCleared, TornInv
  <2>3. CASE UNCHANGED <<mask, reg, own, torn>> /\ UNCHANGED adopted /\ Quiet
    <3>1. lock \notin Channels
      BY <2>3 DEF GuardInv, Quiet, Writing
    <3>2. lock = None
      BY <3>1, Zenon DEF TypeOK
    <3>3. QED
      BY <2>3, <3>2, Zenon DEF TornInv
  <2>4. CASE UNCHANGED <<mask, reg, own, torn>> /\ Follows
    <3>1. synced' /\ ~adopted' => synced /\ ~adopted
      BY <1>1, <2>4, Flow, Zenon
    <3>2. QED
      BY <2>1, <2>4, <3>1, Zenon DEF TornInv
  <2>5. QED
    BY <1>2, <2>2, <2>3, <2>4, HostDevice, Zenon
<1>3. ASSUME NEW c \in Channels, Channel(c)
      PROVE  TornInv'
  <2>1. CASE MaskWrite(c)
    BY <2>1, MaskWrites, Zenon DEF TornInv
  <2>2. CASE MaskRead(c)
    BY <2>2, MaskReads, Zenon DEF TornInv
  <2>3. CASE Configure(c) \/ WriteRegister(c) \/ ClearRegister(c) \/ Rest(c)
    <3>1. UNCHANGED <<own, torn>> /\ UNCHANGED lock
      <4>1. Configure(c) => UNCHANGED <<own, torn>> /\ UNCHANGED lock
        BY Zenon DEF Configure, deviceVars
      <4>2. QED
        BY <2>3, <4>1, RegisterWrites, RestMoves, Zenon
    <3>2. synced' /\ ~adopted' => synced /\ ~adopted
      BY <1>1, <1>3, ChannelFollows, Flow, Zenon
    <3>3. QED
      BY <3>1, <3>2, Zenon DEF TornInv
  <2>4. QED
    BY <1>3, <2>1, <2>2, <2>3, Zenon DEF Channel, Camera, Rest
<1>4. QED
  BY <1>2, <1>3, StepCases, Zenon

\* When the device was cleared under lock(), executing the write of the mask
\* makes it the writer's own at most.
LEMMA TornWrite ==
    ASSUME SequenceTypes, TornInv, torn, Executes, NEW c \in Channels,
           own' = own \/ own' = own \cup {c}
    PROVE  adopted' /\ \A d \in Channels : d # c => d \notin own' /\ ~Sure(d)'
<1>1. own = {} /\ (synced => adopted)
  BY Zenon DEF TornInv
<1>2. Follows
  BY Zenon DEF Follows
<1>3. adopted'
  BY <1>1, <1>2, Flow, Zenon
<1>4. \A d \in Channels : d # c => d \notin own'
  BY <1>1
<1>5. QED
  BY <1>3, <1>4, Zenon DEF Sure

\* Every step keeps what the channels know of their ports.
LEMMA NextPorts ==
    ASSUME TypeOK, GuardInv, StepInv, PortsInv, TornInv, SessionAssumption, [Next]_vars
    PROVE  PortsInv'
<1>0. SequenceTypes
  BY TypeGroups, Zenon
<1>1. CASE HostStep \/ SetDelay \/ DelayWrite
  <2>1. UNCHANGED <<lock, pc, seen, round>>
    BY <1>1, HostDevice, Zenon
  <2>2. \A c \in Channels : step'[c] = step[c]
    <3>1. HostStep \/ SetDelay => step' = step
      BY HostMoves, Zenon DEF channelVars, SetDelay
    <3>2. DelayWrite => \A c \in Channels : step'[c] = step[c]
      <4>1. \A c \in Channels : c # "main"
        BY DEF SessionAssumption
      <4>2. step \in [Channels \cup {"main"} -> 1..4]
        BY Zenon DEF TypeOK
      <4>3. DelayWrite => Advance("main", DelayOrder) \/ Rewind("main")
        BY Zenon DEF DelayWrite, Access
      <4>4. QED
        BY <4>1, <4>2, <4>3 DEF Advance, Rewind
    <3>3. QED
      BY <1>1, <3>1, <3>2, Zenon
  <2>3. \A c \in Channels : pc'[c] # "idle" => round'[c] >= 1
    BY <2>1, Zenon DEF PortsInv
  <2>4. CASE DeviceCleared /\ synced' = FALSE
    <3>1. \A c \in Channels : ~Sure(c)'
      BY <2>4 DEF DeviceCleared, Sure
    <3>2. ASSUME NEW c \in Channels, pc'[c] \in Writing, ~torn' PROVE FALSE
      <4>1. lock = None
        BY <2>4, <3>2, Zenon DEF DeviceCleared
      <4>2. lock = c
        BY <2>1, <3>2, Zenon DEF GuardInv
      <4>3. QED
        BY <4>1, <4>2, Zenon DEF SessionAssumption
    <3>3. QED
      BY <2>3, <3>1, <3>2, Zenon DEF PortsInv
  <2>5. CASE UNCHANGED <<mask, reg, own, torn>> /\ UNCHANGED adopted /\ Quiet
    <3>1. \A c \in Channels : pc'[c] = "idle"
      BY <2>1, <2>5, Zenon DEF Quiet
    <3>2. \A c \in Channels : pc'[c] \notin Writing /\ PortInv(c)'
      BY <3>1 DEF PortInv, Writing
    <3>3. QED
      BY <2>3, <3>2, Zenon DEF PortsInv
  <2>6. CASE UNCHANGED <<mask, reg, own, torn>> /\ Follows
    <3>1. \A c \in Channels : Sure(c)' => Sure(c)
      BY <1>0, <2>6, NoSurer, Zenon
    <3>2. ASSUME NEW c \in Channels, Sure(c)' PROVE PortInv(c)'
      <4>1. PortInv(c)
        BY <3>1, <3>2, Zenon DEF PortsInv
      <4>2. QED
        BY <2>1, <2>2, <2>6, <4>1, OtherPort, Zenon
    <3>3. \A c \in Channels : pc'[c] \in Writing /\ ~torn' => seen'[c] = mask'
      BY <2>1, <2>6, Zenon DEF PortsInv
    <3>4. QED
      BY <2>3, <3>2, <3>3, Zenon DEF PortsInv
  <2>7. QED
    BY <1>1, <2>4, <2>5, <2>6, HostDevice, Zenon
<1>2. ASSUME NEW c \in Channels, Channel(c)
      PROVE  PortsInv'
  <2>1. /\ \A d \in Channels : d # c => pc'[d] = pc[d]
        /\ \A d \in Channels : d # c => step'[d] = step[d]
    BY <1>2, ChannelMoves, Zenon
  <2>2. /\ pc \in [Channels -> ChannelStates] /\ seen \in [Channels -> SUBSET Channels]
        /\ round \in [Channels -> 0..MaxRounds] /\ mask \subseteq Channels
        /\ reg \in [Channels -> [Registers -> 0..MaxRounds]]
    BY Zenon DEF TypeOK
  <2>3. \A d \in Channels : Sure(d) => PortInv(d)
    BY Zenon DEF PortsInv
  <2>4. Follows
    BY <1>2, ChannelFollows, Zenon
  <2>5. own' = own => \A d \in Channels : Sure(d)' => Sure(d)
    BY <1>0, <2>4, NoSurer, Zenon
  <2>6. CASE Rest(c)
    <3>1. /\ UNCHANGED <<mask, reg, own, torn>> /\ UNCHANGED <<lock, seen, round>>
          /\ pc[c] # "idle" /\ pc'[c] \notin Claiming
      BY <2>6, RestMoves, Zenon
    <3>2. \A d \in Channels : pc'[d] # "idle" => round'[d] >= 1
      BY <2>1, <3>1, Zenon DEF PortsInv
    <3>3. ASSUME NEW d \in Channels, Sure(d)' PROVE PortInv(d)'
      <4>1. CASE d = c
        BY <3>1, <4>1 DEF PortInv, Claiming, Writing
      <4>2. CASE d # c
        BY <2>1, <2>3, <2>5, <3>1, <3>3, <4>2, OtherPort, Zenon
      <4>3. QED
        BY <4>1, <4>2, Zenon
    <3>4. pc'[c] \notin Writing
      BY <3>1 DEF Claiming
    <3>5. \A d \in Channels : pc'[d] \in Writing /\ ~torn' => seen'[d] = mask'
      BY <2>1, <3>1, <3>4, Zenon DEF PortsInv
    <3>6. QED
      BY <3>2, <3>3, <3>5, Zenon DEF PortsInv
  <2>7. CASE Configure(c)
    <3>1. /\ UNCHANGED <<mask, reg, own, torn, seen>> /\ PcTo(c, "and_read")
          /\ round' = [round EXCEPT ![c] = count'.rounds]
          /\ count' = [count EXCEPT !.rounds = @ + 1]
      BY <2>7, Zenon DEF Configure, deviceVars
    <3>2. pc'[c] = "and_read"
      BY <2>2, <3>1, Moves, Zenon
    <3>3. round'[c] >= 1 /\ \A d \in Channels : d # c => round'[d] = round[d]
      <4>1. count'.rounds >= 1
        BY <3>1 DEF TypeOK, SessionAssumption
      <4>2. QED
        BY <2>2, <3>1, <4>1
    <3>4. \A d \in Channels : pc'[d] # "idle" => round'[d] >= 1
      BY <2>1, <3>3, Zenon DEF PortsInv
    <3>5. ASSUME NEW d \in Channels, Sure(d)' PROVE PortInv(d)'
      <4>1. CASE d = c
        BY <3>2, <4>1 DEF PortInv
      <4>2. CASE d # c
        BY <2>1, <2>3, <2>5, <3>1, <3>3, <3>5, <4>2, OtherPort, Zenon
      <4>3. QED
        BY <4>1, <4>2, Zenon
    <3>6. pc'[c] \notin Writing
      BY <3>2 DEF Writing
    <3>7. \A d \in Channels : pc'[d] \in Writing /\ ~torn' => seen'[d] = mask'
      BY <2>1, <3>1, <3>6, Zenon DEF PortsInv
    <3>8. QED
      BY <3>4, <3>5, <3>7, Zenon DEF PortsInv
  <2>8. CASE MaskRead(c)
    <3>1. /\ UNCHANGED <<mask, reg, own, torn, round>>
          /\ pc[c] \in {"and_read", "or_read", "clear_read"}
          /\ \/ seen' = seen /\ pc'[c] = "idle"
             \/ /\ seen' = [seen EXCEPT ![c] = mask] /\ pc'[c] \in Writing
                /\ pc'[c] = "or_write" => pc[c] = "or_read"
      BY <2>8, MaskReads, Zenon
    <3>2. \A d \in Channels : d # c => seen'[d] = seen[d]
      BY <2>2, <3>1
    <3>3. \A d \in Channels : pc'[d] # "idle" => round'[d] >= 1
      <4>1. pc[c] # "idle"
        BY <3>1
      <4>2. QED
        BY <2>1, <3>1, <4>1, Zenon DEF PortsInv
    <3>4. ASSUME NEW d \in Channels, Sure(d)' PROVE PortInv(d)'
      <4>1. CASE d # c
        BY <2>1, <2>3, <2>5, <3>1, <3>4, <4>1, OtherPort, Zenon
      <4>2. CASE d = c
        <5>1. pc'[c] \notin {"write", "clear", "or_read"}
          BY <3>1 DEF Writing
        <5>2. pc'[c] = "or_write" => \A r \in Registers : reg'[c][r] = round'[c]
          <6>1. PortInv(c)
            BY <2>3, <2>5, <3>1, <3>4, <4>2, Zenon
          <6>2. pc'[c] = "or_write" => pc[c] = "or_read"
            BY <3>1
          <6>3. QED
            BY <3>1, <6>1, <6>2, Zenon DEF PortInv
        <5>3. QED
          BY <4>2, <5>1, <5>2, Zenon DEF PortInv
      <4>3. QED
        BY <4>1, <4>2, Zenon
    <3>5. pc'[c] \in Writing => seen'[c] = mask'
      BY <2>2, <3>1 DEF Writing
    <3>6. \A d \in Channels : pc'[d] \in Writing /\ ~torn' => seen'[d] = mask'
      BY <2>1, <3>1, <3>2, <3>5, Zenon DEF PortsInv
    <3>7. QED
      BY <3>3, <3>4, <3>6, Zenon DEF PortsInv
  <2>9. CASE MaskWrite(c)
    <3>1. /\ UNCHANGED <<reg, round>> /\ torn' = FALSE
          /\ pc[c] \in Writing /\ pc'[c] \notin Writing /\ step'[c] = 1
          /\ \A d \in Channels : d # c => pc[d] \notin Writing
      BY <2>9, MaskWrites, Zenon
    <3>2. \/ /\ Executes /\ mask' = NewMask(c)
             /\ own' = IF pc[c] = "and_write" THEN own \cup {c} ELSE own
             /\ \/ pc'[c] \in {"idle", "attach"}
                \/ pc[c] # "or_write" /\ pc'[c] \in {"write", "clear"}
          \/ /\ UNCHANGED <<mask, own>> /\ ~synced' /\ pc'[c] = "idle"
      BY <2>9, MaskWrites, Zenon
    <3>3. \A d \in Channels : pc'[d] # "idle" => round'[d] >= 1
      <4>1. pc[c] # "idle"
        BY <3>1 DEF Writing
      <4>2. QED
        BY <2>1, <3>1, <4>1, Zenon DEF PortsInv
    <3>4. ASSUME NEW d \in Channels, d # c, Sure(d)' PROVE PortInv(d)'
      <4>1. Sure(d) /\ (d \in mask' => d \in mask)
        <5>1. CASE UNCHANGED <<mask, own>>
          BY <2>5, <3>4, <5>1, Zenon
        <5>2. CASE /\ Executes /\ mask' = NewMask(c)
                   /\ own' = IF pc[c] = "and_write" THEN own \cup {c} ELSE own
          <6>1. ~torn
            BY <1>0, <3>4, <5>2, TornWrite, Zenon
          <6>2. seen[c] = mask
            BY <3>1, <6>1, Zenon DEF PortsInv
          <6>3. d \in own' => d \in own
            BY <3>4, <5>2
          <6>4. synced' /\ ~adopted' => synced /\ ~adopted
            BY <1>0, <2>4, Flow, Zenon
          <6>5. d \in mask' => d \in mask
            BY <3>4, <5>2, <6>2 DEF NewMask
          <6>6. QED
            BY <3>4, <6>3, <6>4, <6>5, Zenon DEF Sure
        <5>3. QED
          BY <3>2, <5>1, <5>2, Zenon
      <4>2. PortInv(d)
        BY <2>3, <4>1, Zenon
      <4>3. QED
        BY <2>1, <3>1, <3>4, <4>1, <4>2, OtherPort, Zenon
    <3>5. PortInv(c)'
      <4>1. pc'[c] \notin {"or_read", "or_write"}
        BY <3>2
      <4>2. pc'[c] \in {"write", "clear"} => c \notin mask'
        <5>1. pc'[c] \in {"write", "clear"} => pc[c] # "or_write" /\ mask' = NewMask(c)
          BY <3>2
        <5>2. pc[c] # "or_write" => c \notin NewMask(c)
          BY DEF NewMask
        <5>3. QED
          BY <5>1, <5>2, Zenon
      <4>3. step'[c] # 2
        BY <3>1
      <4>4. QED
        BY <4>1, <4>2, <4>3, Zenon DEF PortInv
    <3>6. \A d \in Channels : pc'[d] \notin Writing
      BY <2>1, <3>1, Zenon
    <3>7. QED
      BY <3>3, <3>4, <3>5, <3>6, Zenon DEF PortsInv
  <2>10. CASE WriteRegister(c) \/ ClearRegister(c)
    <3>1. /\ UNCHANGED <<mask, own, torn>> /\ UNCHANGED <<lock, seen, round>>
          /\ pc[c] \in {"write", "clear"} /\ step[c] \in 1..2
          /\ \A d \in Channels : d # c => reg'[d] = reg[d]
      BY <2>10, RegisterWrites, Zenon
    <3>2. \/ pc'[c] = "idle"
          \/ pc[c] = "clear" /\ pc'[c] = "clear"
          \/ /\ pc[c] = "write"
             /\ reg' = [reg EXCEPT ![c][ConfigureOrder[step[c]]] = round[c]]
             /\ \/ step[c] = 2 /\ pc'[c] = "or_read"
                \/ step[c] = 1 /\ pc'[c] = "write"
      BY <2>10, RegisterWrites, Zenon
    <3>3. \A d \in Channels : pc'[d] # "idle" => round'[d] >= 1
      <4>1. pc[c] # "idle"
        BY <3>1
      <4>2. QED
        BY <2>1, <3>1, <4>1, Zenon DEF PortsInv
    <3>4. ASSUME NEW d \in Channels, Sure(d)' PROVE PortInv(d)'
      <4>1. PortInv(d)
        BY <2>3, <2>5, <3>1, <3>4, Zenon
      <4>2. CASE d # c
        BY <2>1, <3>1, <4>1, <4>2, OtherPort, Zenon
      <4>3. CASE d = c
        <5>1. c \notin mask'
          BY <3>1, <4>1, <4>3, Zenon DEF PortInv
        <5>2. CASE pc'[c] \in {"idle", "clear"}
          BY <4>3, <5>1, <5>2 DEF PortInv
        <5>3. CASE /\ pc[c] = "write"
                   /\ reg' = [reg EXCEPT ![c][ConfigureOrder[step[c]]] = round[c]]
                   /\ \/ step[c] = 2 /\ pc'[c] = "or_read"
                      \/ step[c] = 1 /\ pc'[c] = "write"
          <6>1. reg[c] \in [Registers -> 0..MaxRounds] /\ "common" \in Registers
                /\ "queue" \in Registers
            BY <2>2 DEF Registers
          <6>2. reg'[c] = [reg[c] EXCEPT ![ConfigureOrder[step[c]]] = round[c]]
            BY <2>2, <5>3
          <6>3. ConfigureOrder[1] = "common" /\ ConfigureOrder[2] = "queue"
            BY Orders, Zenon
          <6>4. CASE step[c] = 1 /\ pc'[c] = "write"
            <7>1. reg'[c]["common"] = round'[c]
              BY <3>1, <6>1, <6>2, <6>3, <6>4
            <7>2. QED
              BY <4>3, <5>1, <6>4, <7>1 DEF PortInv
          <6>5. CASE step[c] = 2 /\ pc'[c] = "or_read"
            <7>1. reg[c]["common"] = round[c]
              BY <4>1, <4>3, <5>3, <6>5, Zenon DEF PortInv
            <7>2. \A r \in Registers : reg'[c][r] = round'[c]
              BY <3>1, <6>1, <6>2, <6>3, <6>5, <7>1 DEF Registers
            <7>3. QED
              BY <4>3, <6>5, <7>2 DEF PortInv
          <6>6. QED
            BY <5>3, <6>4, <6>5, Zenon
        <5>4. QED
          BY <3>2, <5>2, <5>3, Zenon
      <4>4. QED
        BY <4>2, <4>3, Zenon
    <3>5. pc'[c] \notin Writing
      BY <3>2 DEF Writing
    <3>6. \A d \in Channels : pc'[d] \in Writing /\ ~torn' => seen'[d] = mask'
      BY <2>1, <3>1, <3>5, Zenon DEF PortsInv
    <3>7. QED
      BY <3>3, <3>4, <3>6, Zenon DEF PortsInv
  <2>11. QED
    BY <1>2, <2>6, <2>7, <2>8, <2>9, <2>10, Zenon DEF Channel, Camera, Rest
<1>3. QED
  BY <1>1, <1>2, StepCases, Zenon

\* Every step keeps what the ports transmit: a bit is set only in a mask that
\* was read after the device was last cleared, by a channel that is sure of it.
LEMMA NextTransmits ==
    ASSUME TypeOK, GuardInv, StepInv, PortsInv, TornInv, TransmitsConfigured, SessionAssumption,
           [Next]_vars
    PROVE  TransmitsConfigured'
<1>0. SequenceTypes
  BY TypeGroups, Zenon
<1> DEFINE Whole(c) == \E g \in 1..MaxRounds : \A r \in Registers : reg[c][r] = g
           Claimed(c) == c \in own \/ ~adopted
<1>1. \A c \in mask : Claimed(c) => Whole(c)
  BY Zenon DEF TransmitsConfigured
<1>2. SUFFICES ASSUME NEW c \in mask', Claimed(c)' PROVE Whole(c)'
  BY Zenon DEF TransmitsConfigured
<1>3. ASSUME UNCHANGED <<mask, reg, own>>, ~adopted' => ~adopted PROVE Whole(c)'
  BY <1>1, <1>2, <1>3, Zenon
<1>4. CASE HostStep \/ SetDelay \/ DelayWrite
  <2>1. CASE DeviceCleared
    BY <1>2, <2>1 DEF DeviceCleared
  <2>2. CASE UNCHANGED <<mask, reg, own, torn>> /\ UNCHANGED adopted
    BY <1>3, <2>2, Zenon
  <2>3. CASE UNCHANGED <<mask, reg, own, torn>> /\ Follows
    BY <1>0, <1>3, <2>3, NoSurer, Zenon
  <2>4. QED
    BY <1>4, <2>1, <2>2, <2>3, HostDevice, Zenon
<1>5. ASSUME NEW d \in Channels, Channel(d) PROVE Whole(c)'
  <2>1. Follows
    BY <1>5, ChannelFollows, Zenon
  <2>2. own' = own => (~adopted' => ~adopted)
    BY <1>0, <2>1, NoSurer, Zenon
  <2>3. Executes /\ ~adopted' => synced /\ ~adopted
    BY <1>0, <2>1, Flow, Zenon
  <2>4. CASE Rest(d) \/ Configure(d) \/ MaskRead(d)
    <3>1. Configure(d) => UNCHANGED <<mask, reg, own>>
      BY Zenon DEF Configure, deviceVars
    <3>2. UNCHANGED <<mask, reg, own>>
      BY <2>4, <3>1, RestMoves, MaskReads, Zenon
    <3>3. QED
      BY <1>3, <2>2, <3>2, Zenon
  <2>5. CASE MaskWrite(d)
    <3>1. /\ UNCHANGED reg /\ pc[d] \in Writing
          /\ \/ /\ Executes /\ mask' = NewMask(d)
                /\ own' = IF pc[d] = "and_write" THEN own \cup {d} ELSE own
             \/ UNCHANGED <<mask, own>>
      BY <2>5, MaskWrites, Zenon
    <3>2. CASE UNCHANGED <<mask, own>>
      BY <1>3, <2>2, <3>1, <3>2, Zenon
    <3>3. CASE /\ Executes /\ mask' = NewMask(d)
               /\ own' = IF pc[d] = "and_write" THEN own \cup {d} ELSE own
      <4>1. CASE c = d
        <5>1. pc[d] = "or_write" /\ own' = own
          BY <1>2, <3>3, <4>1 DEF NewMask
        <5>2. Sure(d)
          BY <1>2, <2>3, <3>3, <4>1, <5>1, Zenon DEF Sure
        <5>3. \A r \in Registers : reg'[d][r] = round[d]
          BY <3>1, <5>1, <5>2, Zenon DEF PortsInv, PortInv
        <5>4. round[d] \in 1..MaxRounds
          <6>1. round[d] >= 1
            BY <5>1 DEF PortsInv
          <6>2. QED
            BY <6>1 DEF TypeOK, SessionAssumption
        <5>5. QED
          BY <4>1, <5>3, <5>4, Zenon
      <4>2. CASE c # d
        <5>1. mask \subseteq Channels /\ seen[d] \subseteq Channels
          BY DEF TypeOK
        <5>2. c \in Channels /\ c \in seen[d]
          BY <1>2, <3>3, <4>2, <5>1 DEF NewMask
        <5>3. ~torn
          <6>1. own' = own \/ own' = own \cup {d}
            BY <3>3, Zenon
          <6>2. torn => adopted' /\ c \notin own'
            BY <1>0, <3>3, <4>2, <5>2, <6>1, TornWrite, Zenon
          <6>3. QED
            BY <1>2, <6>2, Zenon
        <5>4. c \in mask
          BY <3>1, <5>2, <5>3, Zenon DEF PortsInv
        <5>5. c \in own' => c \in own
          BY <3>3, <4>2
        <5>6. Claimed(c)
          BY <1>2, <2>3, <3>3, <5>5, Zenon
        <5>7. QED
          BY <1>1, <3>1, <5>4, <5>6, Zenon
      <4>3. QED
        BY <4>1, <4>2, Zenon
    <3>4. QED
      BY <3>1, <3>2, <3>3, Zenon
  <2>6. CASE WriteRegister(d) \/ ClearRegister(d)
    <3>1. /\ UNCHANGED <<mask, own>> /\ pc[d] \in {"write", "clear"}
          /\ \A e \in Channels : e # d => reg'[e] = reg[e]
          /\ reg' = reg \/ Executes
      BY <2>6, RegisterWrites, Zenon
    <3>2. CASE reg' = reg
      BY <1>3, <2>2, <3>1, <3>2, Zenon
    <3>3. CASE Executes
      <4>1. Claimed(c) /\ c \in mask /\ c \in Channels
        BY <1>2, <2>2, <3>1 DEF TypeOK
      <4>2. c # d
        <5>1. SUFFICES ASSUME c = d PROVE FALSE
          BY Zenon
        <5>2. Sure(d)
          BY <1>2, <2>3, <3>1, <3>3, <5>1, Zenon DEF Sure
        <5>3. d \notin mask
          BY <3>1, <5>2, Zenon DEF PortsInv, PortInv
        <5>4. QED
          BY <4>1, <5>1, <5>3, Zenon
      <4>3. reg'[c] = reg[c]
        BY <3>1, <4>1, <4>2, Zenon
      <4>4. Whole(c)
        BY <1>1, <4>1, Zenon
      <4>5. QED
        BY <4>3, <4>4, Zenon
    <3>4. QED
      BY <3>1, <3>2, <3>3, Zenon
  <2>7. QED
    BY <1>5, <2>4, <2>5, <2>6, Zenon DEF Channel, Camera, Rest
<1>6. QED
  BY <1>4, <1>5, StepCases, Zenon

-----------------------------------------------------------------------------
(* The synchronizer. *)

\* A step without a fault: nothing is lost, nothing restarts.
LEMMA NoFaultStep ==
    ASSUME TypeOK, [Next]_vars, NoFault'
    PROVE  NoFault /\ ~Lost /\ ~Restart /\ ~TriggerReset
<1>1. count \in [starts : 0..MaxStarts, resets : 0..MaxResets, rounds : 0..MaxRounds,
                 sets : 0..MaxSets, faults : 0..MaxFaults]
  BY Zenon DEF TypeOK
<1>2. \/ count' = count \/ Lost
      \/ count' = [count EXCEPT !.starts = @ + 1]
      \/ count' = [count EXCEPT !.resets = @ + 1]
      \/ count' = [count EXCEPT !.rounds = @ + 1]
      \/ count' = [count EXCEPT !.sets = @ + 1]
  <2>1. HostStep => \/ count' = count \/ Lost
                    \/ count' = [count EXCEPT !.starts = @ + 1]
                    \/ count' = [count EXCEPT !.resets = @ + 1]
    <3>1. UNCHANGED vars \/ Async \/ SendEvent \/ StartAgain \/ ConfigureVersion \/ FindChannel
             \/ Stop \/ StopClose \/ StopJoin => count' = count \/ Lost
      BY Zenon DEF vars, Async, SendEvent, StartAgain, ConfigureVersion, FindChannel, Stop,
         StopClose, StopJoin, AsyncBegin, AsyncRecv, AsyncEvent, AsyncShutdown, AsyncDeliver,
         AsyncTo
    <3>2. ConfigureRegisters \/ Reset => count' = count \/ Lost
      BY Zenon DEF ConfigureRegisters, Reset, Access
    <3>3. Start => count' = [count EXCEPT !.starts = @ + 1]
      BY Zenon DEF Start
    <3>4. TriggerReset => count' = [count EXCEPT !.resets = @ + 1]
      BY Zenon DEF TriggerReset
    <3>5. Restart => Lost
      BY Zenon DEF Restart, Lost
    <3>6. QED
      BY <3>1, <3>2, <3>3, <3>4, <3>5, Zenon DEF HostStep
  <2>2. SetDelay \/ DelayWrite => \/ count' = count \/ Lost
                                  \/ count' = [count EXCEPT !.sets = @ + 1]
    BY Zenon DEF SetDelay, DelayWrite, Access
  <2>3. ASSUME NEW c \in Channels, Channel(c)
        PROVE  \/ count' = count \/ Lost
               \/ count' = [count EXCEPT !.rounds = @ + 1]
    <3>1. Configure(c) => count' = [count EXCEPT !.rounds = @ + 1]
      BY Zenon DEF Configure
    <3>2. MaskRead(c) \/ MaskWrite(c) \/ WriteRegister(c) \/ ClearRegister(c) \/ MtuTooSmall(c)
             \/ Unconfigure(c) => count' = count \/ Lost
      BY Zenon DEF MaskRead, MaskWrite, WriteRegister, MtuTooSmall, Unconfigure, ClearRegister,
         WriteNext, Access
    <3>3. Camera(c) => count' = count \/ Lost
      BY Zenon DEF Camera, SetFrequency, Attach, Setup, SetupWrite, CameraStart, CameraStop,
         Detach, Shutdown, Access
    <3>4. QED
      BY <2>3, <3>1, <3>2, <3>3, Zenon DEF Channel
  <2>4. QED
    BY <2>1, <2>2, <2>3, StepCases, Zenon
<1>3. count'.faults = 0 /\ count'.resets = 0
  BY Zenon DEF NoFault
<1>4. ~(count' = [count EXCEPT !.faults = @ + 1])
  BY <1>1, <1>3
<1>5. ~(count' = [count EXCEPT !.resets = @ + 1])
  BY <1>1, <1>3
<1>6. ~Lost /\ ~Restart /\ ~TriggerReset
  BY <1>4, <1>5, Zenon DEF Lost, Restart, TriggerReset
<1>7. count.faults = 0 /\ count.resets = 0
  BY <1>1, <1>2, <1>3, <1>5, <1>6
<1>8. QED
  BY <1>6, <1>7, Zenon DEF NoFault

\* Without a fault a channel that is busy has its accesses executed.
LEMMA Executed ==
    ASSUME GuardInv, SteadyInv, NoFault, NEW c \in Channels, pc[c] # "idle" \/ main = "run"
    PROVE  synced
<1>1. main \in {"run", "delay"}
  BY Zenon DEF GuardInv, Quiet
<1>2. main \notin {"idle", "start_version"}
  BY <1>1
<1>3. QED
  BY <1>2, Zenon DEF SteadyInv

\* Without a fault the session is as the host believes it to be.
LEMMA NextSteady ==
    ASSUME TypeOK, GuardInv, StepInv, SteadyInv, [Next]_vars
    PROVE  SteadyInv'
<1>1. SUFFICES ASSUME NoFault'
      PROVE  /\ main' \notin {"idle", "start_version"} => synced'
             /\ main' = "idle" => ~started_'
             /\ main' \notin {"reset_find", "reset_version", "reset_registers"}
  BY Zenon DEF SteadyInv
<1>2. NoFault /\ ~Lost /\ ~Restart /\ ~TriggerReset
  BY <1>1, NoFaultStep, Zenon
<1>3. /\ main \notin {"idle", "start_version"} => synced
      /\ main = "idle" => ~started_
      /\ main \notin {"reset_find", "reset_version", "reset_registers"}
  BY <1>2, Zenon DEF SteadyInv
<1>4. CASE UNCHANGED vars \/ Async \/ SendEvent
  <2>1. UNCHANGED <<main, synced, started_>>
    BY <1>4, Zenon DEF vars, hostVars, sequence, Async, SendEvent, AsyncBegin, AsyncRecv,
                       AsyncEvent, AsyncShutdown, AsyncDeliver, AsyncTo
  <2>2. QED
    BY <1>3, <2>1, Zenon
<1>5. CASE StartAgain
  BY <1>3, <1>5, Zenon DEF StartAgain
<1>6. CASE Start
  BY <1>6 DEF Start, MainTo
<1>7. CASE ConfigureVersion
  <2>1. main = "start_version" /\ synced' = TRUE /\ main' = "start_registers"
    BY <1>2, <1>3, <1>7 DEF ConfigureVersion, MainTo
  <2>2. QED
    BY <2>1
<1>8. CASE ConfigureRegisters
  <2>1. main \notin {"idle", "start_version"}
    BY <1>8 DEF ConfigureRegisters
  <2>2. synced' /\ main' = "run"
    <3>1. synced
      BY <1>3, <2>1, Zenon
    <3>2. synced'
      BY <1>2, <1>8, <3>1, Zenon DEF ConfigureRegisters, Access, sequence
    <3>3. main' = "run"
      BY <1>2, <1>8, <3>1, Zenon DEF ConfigureRegisters, Access, Configured, MainTo
    <3>4. QED
      BY <3>2, <3>3, Zenon
  <2>3. QED
    BY <2>2
<1>9. CASE FindChannel
  BY <1>3, <1>9 DEF FindChannel
<1>10. CASE Stop
  <2>1. main = "run" /\ UNCHANGED synced /\ main' = "close"
    BY <1>3, <1>10, Zenon DEF Stop, MainTo, sequence
  <2>2. QED
    BY <1>3, <2>1
<1>11. CASE StopClose
  BY <1>3, <1>11 DEF StopClose, MainTo, sequence
<1>12. CASE StopJoin
  BY <1>12 DEF StopJoin, MainTo
<1>13. CASE SetDelay
  BY <1>3, <1>13 DEF SetDelay, MainTo, sequence
<1>14. CASE DelayWrite
  <2>1. synced
    BY <1>3, <1>14 DEF DelayWrite
  <2>2. synced' /\ (main' = "run" \/ main' = main) /\ main = "delay"
    BY <1>2, <1>14, <2>1, Zenon DEF DelayWrite, Access, MainTo, sequence
  <2>3. QED
    BY <2>2
<1>15. ASSUME NEW c \in Channels, Channel(c)
       PROVE  /\ main' \notin {"idle", "start_version"} => synced'
              /\ main' = "idle" => ~started_'
              /\ main' \notin {"reset_find", "reset_version", "reset_registers"}
  <2>1. UNCHANGED <<main, started_>>
    BY <1>15, ChannelKeeps, Zenon DEF hostVars
  <2>2. synced
    BY <1>2, <1>15, ChannelMoves, Executed, Zenon
  <2>3. synced'
    <3>1. Configure(c) \/ MaskRead(c) \/ MaskWrite(c) \/ WriteRegister(c) \/ ClearRegister(c)
             \/ MtuTooSmall(c) \/ Unconfigure(c) => synced'
      BY <1>2, <2>2, Zenon DEF Configure, MaskRead, MaskWrite, WriteRegister, MtuTooSmall,
         Unconfigure, ClearRegister, WriteNext, Access, sequence
    <3>2. Camera(c) => synced'
      BY <1>2, <2>2, Zenon DEF Camera, SetFrequency, Attach, Setup, SetupWrite, CameraStart,
         CameraStop, Detach, Shutdown, Access, sequence
    <3>3. QED
      BY <1>15, <3>1, <3>2, Zenon DEF Channel
  <2>4. QED
    BY <1>3, <2>1, <2>3, Zenon
<1>16. CASE Reset
  <2>1. synced /\ main = "run"
    BY <1>3, <1>16 DEF Reset
  <2>2. synced' /\ main' = "reset_trigger"
    BY <1>2, <1>16, <2>1, Zenon DEF Reset, Access, MainTo, sequence
  <2>3. QED
    BY <2>2
<1>17. QED
  BY <1>2, <1>4, <1>5, <1>6, <1>7, <1>8, <1>9, <1>10, <1>11, <1>12, <1>13, <1>14, <1>15,
     <1>16, StepCases, Zenon DEF HostStep

\* The frequency is set before a channel writes it, and stays.
LEMMA NextFrequency ==
    ASSUME TypeOK, GuardInv, StepInv, FrequencyInv, SessionAssumption, [Next]_vars
    PROVE  FrequencyInv'
<1>1. CASE HostStep
  <2>1. UNCHANGED <<pc, active_, frequency_>>
    BY <1>1, HostMoves, Zenon DEF channelVars, syncVars
  <2>2. QED
    BY <2>1, Zenon DEF FrequencyInv
<1>2. CASE SetDelay \/ DelayWrite
  <2>1. UNCHANGED <<pc, active_, frequency_>>
    BY <1>2, Zenon DEF SetDelay, DelayWrite
  <2>2. QED
    BY <2>1, Zenon DEF FrequencyInv
<1>3. ASSUME NEW c \in Channels, Channel(c)
      PROVE  FrequencyInv'
  <2>1. \A d \in Channels : d # c => pc'[d] = pc[d]
    BY <1>3, ChannelMoves, Zenon
  <2>2. CASE frequency_' # 0
    BY <2>2, Zenon DEF FrequencyInv
  <2>3. CASE frequency_' = 0
    <3>1. ~SetFrequency(c)
      BY <2>3, Zenon DEF SetFrequency, SessionAssumption
    <3>2. UNCHANGED frequency_
      BY <1>3, <3>1, Zenon DEF Channel, Camera, Configure, MaskRead, MaskWrite, WriteRegister,
         MtuTooSmall, Unconfigure, ClearRegister, WriteNext, Attach, Setup, SetupWrite, CameraStart,
         CameraStop, Detach, Shutdown, syncVars
    <3>3. ~active_ /\ \A d \in Channels : pc[d] # "setup" /\ pc[d] # "setup_write"
      BY <2>3, <3>2, Zenon DEF FrequencyInv
    <3>4. ~Attach(c) /\ ~Setup(c) /\ ~SetupWrite(c)
      BY <2>3, <3>2, <3>3, Zenon DEF Attach, Setup, SetupWrite
    <3>5. ~active_'
      BY <1>3, <3>1, <3>3, <3>4, Zenon DEF Channel, Camera, Configure, MaskRead, MaskWrite,
         WriteRegister, MtuTooSmall, Unconfigure, ClearRegister, WriteNext, CameraStart,
         CameraStop, Detach, Shutdown, syncVars
    <3>6. pc'[c] # "setup" /\ pc'[c] # "setup_write"
      <4>1. Configure(c) \/ MaskRead(c) \/ MaskWrite(c) \/ WriteRegister(c) \/ ClearRegister(c)
            \/ MtuTooSmall(c) \/ Unconfigure(c) \/ CameraStart(c) \/ CameraStop(c) \/ Detach(c)
            \/ Shutdown(c)
        BY <1>3, <3>1, <3>4, Zenon DEF Channel, Camera
      <4>2. \/ pc' = pc
            \/ \E p \in ChannelStates \ {"setup", "setup_write"} : PcTo(c, p)
        <5>1. Configure(c) \/ CameraStart(c) \/ CameraStop(c) =>
                  PcTo(c, "and_read") \/ PcTo(c, "running") \/ PcTo(c, "detach") \/ PcTo(c, "idle")
          BY Zenon DEF Configure, CameraStart, CameraStop, Access, Fails
        <5>2. MaskRead(c) => \/ PcTo(c, "and_write") \/ PcTo(c, "or_write")
                             \/ PcTo(c, "clear_write") \/ PcTo(c, "idle")
          BY DEF MaskRead, Access, Fails
        <5>3. MaskWrite(c) => PcTo(c, "write") \/ PcTo(c, "attach") \/ PcTo(c, "clear")
                              \/ PcTo(c, "idle")
          BY DEF MaskWrite, Access, Fails
        <5>4. WriteRegister(c) \/ ClearRegister(c) =>
                  PcTo(c, "or_read") \/ PcTo(c, "idle") \/ pc' = pc
          BY Zenon DEF WriteRegister, ClearRegister, WriteNext, Access, Fails
        <5>5. MtuTooSmall(c) \/ Unconfigure(c) => PcTo(c, "idle") \/ PcTo(c, "clear_read")
          BY Zenon DEF MtuTooSmall, Unconfigure, Fails
        <5>6. Detach(c) \/ Shutdown(c) => PcTo(c, "shutdown") \/ PcTo(c, "detached")
                                          \/ PcTo(c, "idle")
          BY Zenon DEF Detach, Shutdown, Access, Fails
        <5>7. {"and_read", "and_write", "or_read", "or_write", "clear_read", "clear_write", "write",
               "clear", "attach", "running", "detach", "shutdown", "detached", "idle"}
                \subseteq ChannelStates \ {"setup", "setup_write"}
          BY DEF ChannelStates
        <5>8. QED
          BY <4>1, <5>1, <5>2, <5>3, <5>4, <5>5, <5>6, <5>7
      <4>3. \A p : PcTo(c, p) => pc'[c] = p
        BY Moves, Zenon DEF TypeOK
      <4>4. QED
        BY <3>3, <4>2, <4>3, Zenon
    <3>7. QED
      BY <2>1, <3>3, <3>5, <3>6, Zenon DEF FrequencyInv
  <2>4. QED
    BY <2>2, <2>3, Zenon
<1>4. QED
  BY <1>1, <1>2, <1>3, StepCases, Zenon

\* What a step leaves as it is, if it leaves the synchronizer and VSYNC alone.
LEMMA VsyncKept ==
    ASSUME UNCHANGED <<vsync, active_, frequency_, delay_ns_, mutex_>>,
           main' = "delay" => main = "delay", step'["main"] = step["main"],
           \A c \in Channels : pc'[c] = "setup_write" => pc[c] = pc'[c] /\ step'[c] = step[c],
           VsyncIdle, \A c \in Channels : VsyncSetup(c), VsyncDelay
    PROVE  VsyncIdle' /\ (\A c \in Channels : VsyncSetup(c)') /\ VsyncDelay'
<1>1. VsyncIdle'
  BY Zenon DEF VsyncIdle
<1>2. \A c \in Channels : VsyncSetup(c)'
  BY Zenon DEF VsyncSetup
<1>3. VsyncDelay'
  BY Zenon DEF VsyncDelay
<1>4. QED
  BY <1>1, <1>2, <1>3, Zenon

\* The effect of one VSYNC write, by register.
LEMMA VsyncEffect ==
    ASSUME vsync \in [on : BOOLEAN, frequency : Frequencies \cup {0}, delay : Delays]
    PROVE  /\ VsyncWrite("off") => ~vsync'.on /\ vsync'.frequency = vsync.frequency
                                   /\ vsync'.delay = vsync.delay
           /\ VsyncWrite("on") => vsync'.on = TRUE /\ vsync'.frequency = vsync.frequency
                                  /\ vsync'.delay = vsync.delay
           /\ VsyncWrite("frequency") => vsync'.on = vsync.on /\ vsync'.frequency = frequency_
                                         /\ vsync'.delay = vsync.delay
           /\ VsyncWrite("delay") => vsync'.on = vsync.on /\ vsync'.frequency = vsync.frequency
                                     /\ vsync'.delay = delay_ns_
  BY DEF VsyncWrite

\* Without a fault the VSYNC registers are what the synchronizer says, also in
\* the middle of their writes.
LEMMA NextVsync ==
    ASSUME TypeOK, GuardInv, GuardInv', StepInv, SteadyInv, FrequencyInv, VsyncInv,
           SessionAssumption, [Next]_vars
    PROVE  VsyncInv'
<1>1. SUFFICES ASSUME NoFault'
               PROVE  VsyncIdle' /\ (\A c \in Channels : VsyncSetup(c)') /\ VsyncDelay'
  BY Zenon DEF VsyncInv
<1>2. NoFault /\ ~Lost /\ ~Restart /\ ~TriggerReset
  BY <1>1, NoFaultStep, Zenon
<1>3. VsyncIdle /\ (\A c \in Channels : VsyncSetup(c)) /\ VsyncDelay
  BY <1>2, Zenon DEF VsyncInv
<1>4. /\ vsync \in [on : BOOLEAN, frequency : Frequencies \cup {0}, delay : Delays]
      /\ active_ \in BOOLEAN /\ pc \in [Channels -> ChannelStates]
      /\ step \in [Channels \cup {"main"} -> 1..4]
      /\ mutex_ \in Channels \cup {None, "main"}
  BY Zenon DEF TypeOK
<1>5. None # "main" /\ \A c \in Channels : c # None /\ c # "main"
  BY DEF SessionAssumption
<1>6. \A c \in Channels : mutex_ # c => pc[c] # "setup_write"
  BY Zenon DEF GuardInv
<1>7. CASE HostStep
  <2>1. UNCHANGED channelVars /\ UNCHANGED syncVars /\ (main' = "delay" => main = "delay")
    BY <1>7, HostMoves, Zenon
  <2>2. UNCHANGED deviceVars
    <3>1. UNCHANGED vars => UNCHANGED deviceVars
      BY Zenon DEF vars
    <3>2. QED
      BY <1>2, <1>7, <3>1, AsideSteps, Zenon DEF HostStep, Aside
  <2>3. UNCHANGED <<vsync, active_, frequency_, delay_ns_, mutex_, pc, step>>
    BY <2>1, <2>2, Zenon DEF channelVars, syncVars, deviceVars
  <2>4. QED
    BY <1>3, <2>1, <2>3, VsyncKept, Zenon
<1>8. CASE SetDelay
  <2>1. /\ mutex_ = None /\ main = "run" /\ UNCHANGED <<pc, step, vsync, active_, frequency_>>
        /\ \/ active_ /\ mutex_' = "main"
           \/ ~active_ /\ mutex_' = None /\ main' = "run"
    BY <1>8, Zenon DEF SetDelay, MainTo, deviceVars
  <2>2. vsync.on = active_ /\ (vsync.on => vsync.frequency = frequency_)
    BY <1>3, <2>1, Zenon DEF VsyncIdle
  <2>3. \A c \in Channels : pc'[c] # "setup_write"
    BY <1>5, <1>6, <2>1, Zenon
  <2>4. \A c \in Channels : VsyncSetup(c)'
    BY <2>3, Zenon DEF VsyncSetup
  <2>5. CASE active_ /\ mutex_' = "main"
    <3>1. VsyncIdle'
      BY <1>5, <2>5, Zenon DEF VsyncIdle
    <3>2. step'["main"] = 1
      BY <2>1 DEF StepInv
    <3>3. vsync'.on /\ vsync'.frequency = frequency_' /\ active_'
      BY <2>1, <2>2, <2>5, Zenon
    <3>4. VsyncDelay'
      BY <3>2, <3>3 DEF VsyncDelay
    <3>5. QED
      BY <2>4, <3>1, <3>4, Zenon
  <2>6. CASE ~active_ /\ mutex_' = None /\ main' = "run"
    <3>1. ~vsync'.on /\ vsync'.on = active_'
      BY <2>1, <2>2, <2>6, Zenon
    <3>2. VsyncIdle'
      BY <3>1, Zenon DEF VsyncIdle
    <3>3. VsyncDelay'
      BY <2>6 DEF VsyncDelay
    <3>4. QED
      BY <2>4, <3>2, <3>3, Zenon
  <2>7. QED
    BY <2>1, <2>5, <2>6, Zenon
<1>9. CASE DelayWrite
  <2>1. main = "delay" /\ UNCHANGED <<pc, active_, frequency_, delay_ns_>> /\ mutex_ = "main"
    BY <1>9, Zenon DEF DelayWrite, GuardInv
  <2>2. synced
    BY <1>2, <2>1 DEF SteadyInv
  <2>3. /\ VsyncWrite(DelayOrder[step["main"]]) /\ Advance("main", DelayOrder)
        /\ IF step["main"] = Len(DelayOrder)
           THEN main' = "run" /\ mutex_' = None ELSE UNCHANGED <<main, mutex_>>
    BY <1>2, <1>9, <2>2, Zenon DEF DelayWrite, Access, MainTo
  <2>4. \A c \in Channels : pc'[c] # "setup_write"
    BY <1>5, <1>6, <2>1, Zenon
  <2>5. \A c \in Channels : VsyncSetup(c)'
    BY <2>4, Zenon DEF VsyncSetup
  <2>6. step["main"] \in 1..3 /\ Len(DelayOrder) = 3
    BY <2>1, Orders DEF StepInv
  <2>7. step'["main"] = IF step["main"] = 3 THEN 1 ELSE step["main"] + 1
    BY <1>4, <2>3, <2>6 DEF Advance
  <2>8. /\ active_ /\ vsync.frequency = frequency_
        /\ vsync.on <=> step["main"] = 1
        /\ step["main"] = 3 => vsync.delay = delay_ns_
    BY <1>3, <2>1, Zenon DEF VsyncDelay
  <2>9. CASE step["main"] = 1
    <3>1. VsyncWrite("off") /\ UNCHANGED <<main, mutex_>>
      BY <2>3, <2>6, <2>9, Orders
    <3>2. ~vsync'.on /\ vsync'.frequency = vsync.frequency
      BY <1>4, <3>1, VsyncEffect, Zenon
    <3>3. step'["main"] = 2
      BY <2>7, <2>9
    <3>4. VsyncIdle'
      BY <1>5, <2>1, <3>1, Zenon DEF VsyncIdle
    <3>5. VsyncDelay'
      BY <2>1, <2>8, <3>2, <3>3 DEF VsyncDelay
    <3>6. QED
      BY <2>5, <3>4, <3>5, Zenon
  <2>10. CASE step["main"] = 2
    <3>1. VsyncWrite("delay") /\ UNCHANGED <<main, mutex_>>
      BY <2>3, <2>6, <2>10, Orders
    <3>2. vsync'.on = vsync.on /\ vsync'.frequency = vsync.frequency /\ vsync'.delay = delay_ns_
      BY <1>4, <3>1, VsyncEffect, Zenon
    <3>3. step'["main"] = 3 /\ ~vsync.on
      BY <2>7, <2>8, <2>10
    <3>4. VsyncIdle'
      BY <1>5, <2>1, <3>1, Zenon DEF VsyncIdle
    <3>5. VsyncDelay'
      BY <2>1, <2>8, <3>2, <3>3 DEF VsyncDelay
    <3>6. QED
      BY <2>5, <3>4, <3>5, Zenon
  <2>11. CASE step["main"] = 3
    <3>1. VsyncWrite("on") /\ main' = "run" /\ mutex_' = None
      BY <2>3, <2>6, <2>11, Orders
    <3>2. vsync'.on = TRUE /\ vsync'.frequency = vsync.frequency /\ vsync'.delay = vsync.delay
      BY <1>4, <3>1, VsyncEffect, Zenon
    <3>3. vsync.delay = delay_ns_ /\ active_ = TRUE
      BY <1>4, <2>8, <2>11
    <3>4. VsyncIdle'
      BY <2>1, <2>8, <3>2, <3>3, Zenon DEF VsyncIdle
    <3>5. VsyncDelay'
      BY <3>1 DEF VsyncDelay
    <3>6. QED
      BY <2>5, <3>4, <3>5, Zenon
  <2>12. QED
    BY <2>6, <2>9, <2>10, <2>11
<1>10. ASSUME NEW c \in Channels, Channel(c)
       PROVE  VsyncIdle' /\ (\A d \in Channels : VsyncSetup(d)') /\ VsyncDelay'
  <2>1. /\ \A d \in Channels : d # c => pc'[d] = pc[d]
        /\ \A u \in Channels \cup {"main"} : u # c => step'[u] = step[u]
        /\ UNCHANGED main
    BY <1>10, ChannelMoves, ChannelKeeps, Zenon
  <2>2. synced
    BY <1>2, <1>10, ChannelMoves, Executed, Zenon
  <2>3. step'["main"] = step["main"]
    BY <1>5, <2>1, Zenon
  <2>4. \A d \in Channels : pc'[d] = "setup_write" <=> mutex_' = d
    BY Zenon DEF GuardInv
  <2>5. CASE SetFrequency(c)
    <3>1. /\ frequency_ = 0 /\ UNCHANGED <<pc, step, vsync, active_, delay_ns_, mutex_>>
      BY <2>5, Zenon DEF SetFrequency, channelVars, deviceVars
    <3>2. ~active_ /\ \A d \in Channels : pc'[d] # "setup_write"
      BY <3>1, Zenon DEF FrequencyInv
    <3>3. \A d \in Channels : VsyncSetup(d)'
      BY <3>2, Zenon DEF VsyncSetup
    <3>4. main # "delay"
      BY <1>3, <3>2, Zenon DEF VsyncDelay
    <3>5. VsyncDelay'
      BY <2>1, <3>4, Zenon DEF VsyncDelay
    <3>6. mutex_ = None => vsync.on = active_
      BY <1>3, Zenon DEF VsyncIdle
    <3>7. mutex_' = None => vsync'.on = active_' /\ ~vsync'.on
      BY <3>1, <3>2, <3>6, Zenon
    <3>8. VsyncIdle'
      BY <3>7, Zenon DEF VsyncIdle
    <3>9. QED
      BY <3>3, <3>5, <3>8, Zenon
  <2>6. CASE Setup(c)
    <3>1. /\ mutex_ = None /\ UNCHANGED <<step, vsync, active_, frequency_, delay_ns_>>
          /\ pc[c] = "setup"
          /\ \/ active_ /\ mutex_' = None
             \/ ~active_ /\ mutex_' = c
      BY <2>6, Zenon DEF Setup, deviceVars
    <3>2. main # "delay"
      BY <1>5, <3>1, Zenon DEF GuardInv
    <3>3. VsyncDelay'
      BY <2>1, <3>2, Zenon DEF VsyncDelay
    <3>4. /\ vsync.on = active_
          /\ vsync.on => vsync.frequency = frequency_ /\ vsync.delay = delay_ns_
      BY <1>3, <3>1, Zenon DEF VsyncIdle
    <3>5. VsyncIdle'
      BY <3>1, <3>4, Zenon DEF VsyncIdle
    <3>6. ASSUME NEW d \in Channels PROVE VsyncSetup(d)'
      <4>1. CASE mutex_' # d
        BY <2>4, <4>1, Zenon DEF VsyncSetup
      <4>2. CASE mutex_' = d
        <5>1. d = c /\ ~active_
          BY <1>5, <3>1, <4>2, Zenon
        <5>2. ~active_' /\ ~vsync'.on
          BY <3>1, <3>4, <5>1, Zenon
        <5>3. step'[d] = 1
          BY <3>1, <5>1 DEF StepInv
        <5>4. QED
          BY <5>2, <5>3 DEF VsyncSetup
      <4>3. QED
        BY <4>1, <4>2, Zenon
    <3>7. QED
      BY <3>3, <3>5, <3>6, Zenon
  <2>7. CASE SetupWrite(c)
    <3>1. pc[c] = "setup_write" /\ UNCHANGED <<frequency_, delay_ns_>> /\ mutex_ = c
      BY <2>7, Zenon DEF SetupWrite, GuardInv
    <3>2. /\ VsyncWrite(SetupOrder[step[c]]) /\ Advance(c, SetupOrder)
          /\ IF step[c] = Len(SetupOrder) THEN active_' = TRUE /\ mutex_' = None
             ELSE UNCHANGED <<active_, mutex_>>
      BY <1>2, <2>2, <2>7, Zenon DEF SetupWrite, Access
    <3>3. main # "delay"
      BY <1>5, <3>1, Zenon DEF GuardInv
    <3>4. VsyncDelay'
      BY <2>1, <3>3, Zenon DEF VsyncDelay
    <3>5. step[c] \in 1..4 /\ Len(SetupOrder) = 4
      BY <1>4, Orders
    <3>6. step'[c] = IF step[c] = 4 THEN 1 ELSE step[c] + 1
      BY <1>4, <3>2, <3>5 DEF Advance
    <3>7. /\ ~active_ /\ ~vsync.on
          /\ step[c] >= 3 => vsync.frequency = frequency_
          /\ step[c] = 4 => vsync.delay = delay_ns_
      BY <1>3, <3>1, Zenon DEF VsyncSetup
    <3>8. \A d \in Channels : mutex_' # d => VsyncSetup(d)'
      BY <2>4, Zenon DEF VsyncSetup
    <3>9. CASE step[c] = 4
      <4>1. VsyncWrite("on") /\ active_' = TRUE /\ mutex_' = None
        BY <3>2, <3>5, <3>9, Orders
      <4>2. vsync'.on = TRUE /\ vsync'.frequency = vsync.frequency /\ vsync'.delay = vsync.delay
        BY <1>4, <4>1, VsyncEffect, Zenon
      <4>3. vsync.frequency = frequency_ /\ vsync.delay = delay_ns_
        BY <3>7, <3>9
      <4>4. VsyncIdle'
        BY <3>1, <4>1, <4>2, <4>3, Zenon DEF VsyncIdle
      <4>5. QED
        BY <1>5, <3>4, <3>8, <4>1, <4>4, Zenon
    <3>10. CASE step[c] # 4
      <4>1. UNCHANGED <<active_, mutex_>> /\ VsyncWrite(SetupOrder[step[c]])
        BY <3>2, <3>5, <3>10
      <4>2. VsyncIdle'
        BY <1>5, <3>1, <4>1, Zenon DEF VsyncIdle
      <4>3. /\ ~vsync'.on
            /\ step'[c] >= 3 => vsync'.frequency = frequency_'
            /\ step'[c] = 4 => vsync'.delay = delay_ns_'
        <5>1. CASE step[c] = 1
          <6>1. VsyncWrite("off")
            BY <4>1, <5>1, Orders
          <6>2. ~vsync'.on
            BY <1>4, <6>1, VsyncEffect, Zenon
          <6>3. step'[c] = 2
            BY <3>6, <5>1
          <6>4. QED
            BY <6>2, <6>3
        <5>2. CASE step[c] = 2
          <6>1. VsyncWrite("frequency")
            BY <4>1, <5>2, Orders
          <6>2. ~vsync'.on /\ vsync'.frequency = frequency_'
            BY <1>4, <3>1, <3>7, <6>1, VsyncEffect, Zenon
          <6>3. step'[c] = 3
            BY <3>6, <5>2
          <6>4. QED
            BY <6>2, <6>3
        <5>3. CASE step[c] = 3
          <6>1. VsyncWrite("delay")
            BY <4>1, <5>3, Orders
          <6>2. vsync.frequency = frequency_
            BY <3>7, <5>3
          <6>3. ~vsync'.on /\ vsync'.frequency = frequency_' /\ vsync'.delay = delay_ns_'
            BY <1>4, <3>1, <3>7, <6>1, <6>2, VsyncEffect, Zenon
          <6>4. QED
            BY <6>3, Zenon
        <5>4. QED
          BY <3>5, <3>10, <5>1, <5>2, <5>3
      <4>4. ~active_'
        BY <3>7, <4>1, Zenon
      <4>5. VsyncSetup(c)'
        BY <4>3, <4>4, Zenon DEF VsyncSetup
      <4>6. QED
        BY <3>1, <3>4, <3>8, <4>1, <4>2, <4>5, Zenon
    <3>11. QED
      BY <3>9, <3>10, Zenon
  <2>8. CASE Shutdown(c)
    <3>1. mutex_ = None /\ UNCHANGED <<mutex_, frequency_, delay_ns_>>
      BY <2>8, Zenon DEF Shutdown
    <3>2. \/ UNCHANGED <<vsync, active_>>
          \/ VsyncWrite("off") /\ active_' = FALSE
      BY <1>2, <2>2, <2>8, Zenon DEF Shutdown, Access, SameDevice, deviceVars
    <3>3. main # "delay"
      BY <1>5, <3>1, Zenon DEF GuardInv
    <3>4. VsyncDelay'
      BY <2>1, <3>3, Zenon DEF VsyncDelay
    <3>5. \A d \in Channels : VsyncSetup(d)'
      BY <1>5, <2>4, <3>1, Zenon DEF VsyncSetup
    <3>6. VsyncIdle'
      <4>1. CASE UNCHANGED <<vsync, active_>>
        BY <1>3, <3>1, <4>1, Zenon DEF VsyncIdle
      <4>2. CASE VsyncWrite("off") /\ active_' = FALSE
        <5>1. vsync'.on = FALSE
          BY <1>4, <4>2 DEF VsyncWrite
        <5>2. QED
          BY <4>2, <5>1, Zenon DEF VsyncIdle
      <4>3. QED
        BY <3>2, <4>1, <4>2, Zenon
    <3>7. QED
      BY <3>4, <3>5, <3>6, Zenon
  <2>9. CASE ~(SetFrequency(c) \/ Setup(c) \/ SetupWrite(c) \/ Shutdown(c))
    <3>1. Configure(c) \/ MaskRead(c) \/ MaskWrite(c) \/ WriteRegister(c) \/ ClearRegister(c)
          \/ MtuTooSmall(c) \/ Unconfigure(c) \/ Attach(c) \/ CameraStart(c) \/ CameraStop(c)
          \/ Detach(c)
      BY <1>10, <2>9, Zenon DEF Channel, Camera
    <3>2. UNCHANGED <<vsync, active_, frequency_, delay_ns_, mutex_>>
      BY <3>1, Zenon DEF Configure, MaskRead, MaskWrite, WriteRegister, MtuTooSmall, Unconfigure,
         ClearRegister, WriteNext, Attach, CameraStart, CameraStop, Detach, Access, SameDevice,
         deviceVars, syncVars
    <3>3. pc[c] # "setup_write"
      BY <3>1 DEF Configure, MaskRead, MaskWrite, WriteRegister, MtuTooSmall, Unconfigure,
         ClearRegister, Attach, CameraStart, CameraStop, Detach
    <3>4. pc'[c] # "setup_write"
      BY <2>4, <3>2, <3>3, Zenon DEF GuardInv
    <3>5. \A d \in Channels : pc'[d] = "setup_write" => pc[d] = pc'[d] /\ step'[d] = step[d]
      BY <2>1, <3>4, Zenon
    <3>6. QED
      BY <1>3, <2>1, <2>3, <3>2, <3>5, VsyncKept, Zenon
  <2>10. QED
    BY <2>5, <2>6, <2>7, <2>8, <2>9, Zenon
<1>11. QED
  BY <1>7, <1>8, <1>9, <1>10, StepCases, Zenon

-----------------------------------------------------------------------------
(* The peers. *)

Moving == SettingUp \cup {"shutdown"}

\* A step of a channel that does not attach or detach.
LEMMA PeersKept ==
    ASSUME NEW c \in Channels, \A d \in Channels : d # c => pc'[d] = pc[d],
           UNCHANGED <<peers_, active_, raced>>, pc[c] \notin Moving, pc'[c] \notin Moving,
           pc[c] \in Peers <=> pc'[c] \in Peers
    PROVE  (Listed => Listed') /\ (OnePeer => OnePeer')
<1>1. \A d \in Channels : (pc'[d] \in Peers <=> pc[d] \in Peers)
  BY Zenon
<1>2. \A d \in Channels : /\ pc'[d] \in Moving <=> pc[d] \in Moving
                          /\ pc'[d] \in SettingUp <=> pc[d] \in SettingUp
                          /\ pc'[d] = "shutdown" <=> pc[d] = "shutdown"
  BY DEF Moving
<1>3. Listed => Listed'
  BY <1>1, Zenon DEF Listed
<1>4. OnePeer => OnePeer'
  BY <1>2, Zenon DEF OnePeer, Moving
<1>5. QED
  BY <1>3, <1>4, Zenon

\* The steps of a channel that are such, when nothing is lost.
LEMMA PeersAside ==
    ASSUME TypeOK, NEW c \in Channels, synced, ~Lost,
           Channel(c), ~Attach(c), ~Setup(c), ~SetupWrite(c), ~Detach(c), ~Shutdown(c)
    PROVE  /\ UNCHANGED <<peers_, active_, raced>> /\ pc[c] \notin Moving /\ pc'[c] \notin Moving
           /\ pc[c] \in Peers <=> pc'[c] \in Peers
<1>1. UNCHANGED <<peers_, active_, raced>>
  BY Zenon DEF Channel, Camera, Configure, MaskRead, MaskWrite, WriteRegister, MtuTooSmall,
     Unconfigure, ClearRegister, WriteNext, SetFrequency, CameraStart, CameraStop, syncVars
<1>2. \A p : PcTo(c, p) => pc'[c] = p
  BY Moves, Zenon DEF TypeOK
<1>3. CASE SetFrequency(c)
  <2>1. pc' = pc /\ pc[c] = "attach"
    BY <1>3, Zenon DEF SetFrequency, channelVars
  <2>2. QED
    BY <1>1, <2>1 DEF Moving, SettingUp, Peers
<1>4. CASE CameraStart(c)
  <2>1. pc[c] = "attached" /\ PcTo(c, "running")
    BY <1>4, Zenon DEF CameraStart, Access
  <2>2. pc'[c] = "running"
    BY <1>2, <2>1, Zenon
  <2>3. QED
    BY <1>1, <2>1, <2>2 DEF Moving, SettingUp, Peers
<1>5. CASE CameraStop(c)
  <2>1. pc[c] = "running" /\ PcTo(c, "detach")
    BY <1>5, Zenon DEF CameraStop, Access
  <2>2. pc'[c] = "detach"
    BY <1>2, <2>1, Zenon
  <2>3. QED
    BY <1>1, <2>1, <2>2 DEF Moving, SettingUp, Peers
<1>6. CASE Configure(c) \/ MtuTooSmall(c) \/ Unconfigure(c)
  <2>1. /\ pc[c] \in {"idle", "write", "detached"}
        /\ PcTo(c, "and_read") \/ PcTo(c, "idle") \/ PcTo(c, "clear_read")
    BY <1>6, Zenon DEF Configure, MtuTooSmall, Unconfigure, Fails
  <2>2. pc'[c] \in {"and_read", "idle", "clear_read"}
    BY <1>2, <2>1, Zenon
  <2>3. QED
    BY <1>1, <2>1, <2>2 DEF Moving, SettingUp, Peers
<1>7. CASE MaskRead(c) \/ MaskWrite(c)
  <2>1. /\ pc[c] \in {"and_read", "or_read", "clear_read", "and_write", "or_write", "clear_write"}
        /\ \/ PcTo(c, "and_write") \/ PcTo(c, "or_write") \/ PcTo(c, "clear_write")
           \/ PcTo(c, "idle") \/ PcTo(c, "write") \/ PcTo(c, "attach") \/ PcTo(c, "clear")
    <3>1. MaskRead(c) => \/ PcTo(c, "and_write") \/ PcTo(c, "or_write")
                         \/ PcTo(c, "clear_write") \/ PcTo(c, "idle")
      BY DEF MaskRead, Access, Fails
    <3>2. MaskWrite(c) => PcTo(c, "write") \/ PcTo(c, "attach") \/ PcTo(c, "clear")
                          \/ PcTo(c, "idle")
      BY DEF MaskWrite, Access, Fails
    <3>3. MaskRead(c) \/ MaskWrite(c) =>
              pc[c] \in {"and_read", "or_read", "clear_read", "and_write", "or_write",
                         "clear_write"}
      BY DEF MaskRead, MaskWrite
    <3>4. QED
      BY <1>7, <3>1, <3>2, <3>3, Zenon
  <2>2. pc'[c] \in {"and_write", "or_write", "clear_write", "idle", "write", "attach", "clear"}
    BY <1>2, <2>1, Zenon
  <2>3. QED
    BY <1>1, <2>1, <2>2 DEF Moving, SettingUp, Peers
<1>8. CASE WriteRegister(c) \/ ClearRegister(c)
  <2>1. pc[c] \in {"write", "clear"} /\ (PcTo(c, "or_read") \/ PcTo(c, "idle") \/ pc' = pc)
    BY <1>8, Zenon DEF WriteRegister, ClearRegister, WriteNext, Access, Fails
  <2>2. pc'[c] \in {"write", "clear", "or_read", "idle"}
    BY <1>2, <2>1, Zenon
  <2>3. QED
    BY <1>1, <2>1, <2>2 DEF Moving, SettingUp, Peers
<1>9. QED
  BY <1>3, <1>4, <1>5, <1>6, <1>7, <1>8, Zenon DEF Channel, Camera

LEMMA NextPeers ==
    ASSUME TypeOK, GuardInv, StepInv, SteadyInv, PeersInv, SessionAssumption, [Next]_vars
    PROVE  PeersInv'
<1>1. SUFFICES ASSUME NoFault' PROVE Listed' /\ (~raced' => OnePeer')
  BY Zenon DEF PeersInv, Listed
<1>2. NoFault /\ ~Lost
  BY <1>1, NoFaultStep, Zenon
<1>3. Listed /\ (~raced => OnePeer)
  BY <1>2, Zenon DEF PeersInv, Listed
<1>4. CASE HostStep \/ SetDelay \/ DelayWrite
  <2>1. UNCHANGED <<pc, peers_, active_, raced>>
    <3>1. HostStep => UNCHANGED <<pc, peers_, active_, raced>>
      BY HostMoves, Zenon DEF channelVars, syncVars
    <3>2. SetDelay \/ DelayWrite => UNCHANGED <<pc, peers_, active_, raced>>
      BY Zenon DEF SetDelay, DelayWrite
    <3>3. QED
      BY <1>4, <3>1, <3>2, Zenon
  <2>2. QED
    BY <1>3, <2>1, Zenon DEF Listed, OnePeer
<1>5. ASSUME NEW c \in Channels, Channel(c)
      PROVE  Listed' /\ (~raced' => OnePeer')
  <2>1. \A d \in Channels : d # c => pc'[d] = pc[d]
    BY <1>5, ChannelMoves, Zenon
  <2>2. synced
    BY <1>2, <1>5, ChannelMoves, Executed, Zenon
  <2>3. \A p : PcTo(c, p) => pc'[c] = p
    BY Moves, Zenon DEF TypeOK
  <2>4. peers_ \subseteq Channels /\ active_ \in BOOLEAN /\ raced \in BOOLEAN
    BY Zenon DEF TypeOK
  <2>5. CASE Attach(c)
    <3>1. /\ pc[c] = "attach" /\ peers_' = peers_ \cup {c} /\ UNCHANGED active_
          /\ raced' = (raced \/ (peers_ = {} /\ \E d \in Channels : pc[d] = "shutdown"))
      BY <2>5, Zenon DEF Attach
    <3>2. c \notin peers_
      BY <1>3, <3>1 DEF Listed, Peers, SettingUp
    <3>3. \/ peers_ = {} /\ pc'[c] = "setup"
          \/ peers_ # {} /\ pc'[c] = "attached"
      BY <2>3, <2>5, <3>2 DEF Attach
    <3>4. Listed'
      <4>1. \A d \in Channels : d # c => (d \in peers_' <=> d \in peers_)
        BY <3>1
      <4>2. c \in peers_' /\ pc'[c] \in Peers
        BY <3>1, <3>3 DEF Peers, SettingUp
      <4>3. QED
        BY <1>3, <2>1, <4>1, <4>2, Zenon DEF Listed
    <3>5. ASSUME ~raced' PROVE OnePeer'
      <4>1. OnePeer /\ (peers_ = {} => \A d \in Channels : pc[d] # "shutdown")
        BY <1>3, <2>4, <3>1, <3>5
      <4>2. peers_' # {}
        BY <3>1
      <4>3. CASE peers_ = {} /\ pc'[c] = "setup"
        <5>1. \A d \in Channels : pc[d] \notin Moving
          BY <1>3, <4>1, <4>3 DEF Listed, Peers, Moving
        <5>2. \A d \in Channels : d # c => pc'[d] \notin Moving
          BY <2>1, <5>1, Zenon
        <5>3. ~active_'
          BY <3>1, <4>1, <4>3, Zenon DEF OnePeer
        <5>4. \A d \in Channels : pc'[d] # "shutdown"
          BY <4>3, <5>2 DEF Moving
        <5>5. pc'[c] \in SettingUp
          BY <4>3 DEF SettingUp
        <5>6. QED
          BY <4>2, <5>2, <5>3, <5>4, <5>5, Zenon DEF OnePeer, Moving
      <4>4. CASE peers_ # {} /\ pc'[c] = "attached"
        <5>1. pc[c] \notin Moving /\ pc'[c] \notin Moving
          BY <3>1, <4>4 DEF Moving, SettingUp
        <5>2. \A d \in Channels : /\ pc'[d] \in Moving <=> pc[d] \in Moving
                                  /\ pc'[d] \in SettingUp <=> pc[d] \in SettingUp
                                  /\ pc'[d] = "shutdown" <=> pc[d] = "shutdown"
          BY <2>1, <5>1 DEF Moving
        <5>3. QED
          BY <3>1, <4>1, <4>2, <4>4, <5>2, Zenon DEF OnePeer, Moving
      <4>5. QED
        BY <3>3, <4>3, <4>4, Zenon
    <3>6. QED
      BY <3>4, <3>5, Zenon
  <2>6. CASE Setup(c)
    <3>1. pc[c] = "setup" /\ UNCHANGED <<peers_, active_, raced>>
          /\ (active_ => pc'[c] = "attached") /\ (~active_ => pc'[c] = "setup_write")
      BY <2>3, <2>6, Zenon DEF Setup
    <3>2. pc[c] \in Peers /\ pc'[c] \in Peers
      BY <3>1 DEF Peers, SettingUp
    <3>3. Listed'
      BY <1>3, <2>1, <3>1, <3>2, Zenon DEF Listed
    <3>4. ASSUME OnePeer PROVE OnePeer'
      <4>1. pc[c] \in SettingUp
        BY <3>1 DEF SettingUp
      <4>2. ~active_
        BY <3>4, <4>1, Zenon DEF OnePeer
      <4>3. pc'[c] \in SettingUp /\ pc'[c] # "shutdown" /\ pc[c] # "shutdown"
        BY <3>1, <4>2 DEF SettingUp
      <4>4. \A d \in Channels : /\ pc'[d] \in SettingUp <=> pc[d] \in SettingUp
                                /\ pc'[d] = "shutdown" <=> pc[d] = "shutdown"
        BY <2>1, <4>1, <4>3, Zenon
      <4>5. \A d \in Channels : pc'[d] \in Moving <=> pc[d] \in Moving
        BY <4>4 DEF Moving
      <4>6. QED
        BY <3>1, <3>4, <4>4, <4>5, Zenon DEF OnePeer, Moving
    <3>5. QED
      BY <1>3, <3>1, <3>3, <3>4, Zenon
  <2>7. CASE SetupWrite(c)
    <3>1. /\ pc[c] = "setup_write" /\ UNCHANGED <<peers_, raced>>
          /\ \/ pc'[c] = "attached" /\ active_' = TRUE
             \/ pc'[c] = "setup_write" /\ UNCHANGED active_
      BY <1>2, <2>2, <2>3, <2>7, Zenon DEF SetupWrite, Access
    <3>2. pc[c] \in Peers /\ pc'[c] \in Peers /\ pc[c] \in SettingUp
      BY <3>1 DEF Peers, SettingUp
    <3>3. Listed'
      BY <1>3, <2>1, <3>1, <3>2, Zenon DEF Listed
    <3>4. ASSUME OnePeer PROVE OnePeer'
      <4>1. CASE pc'[c] = "attached" /\ active_' = TRUE
        <5>1. \A d \in Channels : d # c => pc[d] \notin Moving
          BY <3>2, <3>4, Zenon DEF OnePeer, Moving
        <5>2. \A d \in Channels : pc'[d] \notin Moving
          <6>1. pc'[c] \notin Moving
            BY <4>1 DEF Moving, SettingUp
          <6>2. QED
            BY <2>1, <5>1, <6>1, Zenon
        <5>3. \A d \in Channels : pc'[d] \notin SettingUp /\ pc'[d] # "shutdown"
          BY <5>2 DEF Moving
        <5>4. peers_' # {}
          BY <1>3, <3>1, <3>2 DEF Listed
        <5>5. QED
          BY <4>1, <5>2, <5>3, <5>4, Zenon DEF OnePeer, Moving
      <4>2. CASE pc'[c] = "setup_write" /\ UNCHANGED active_
        <5>1. \A d \in Channels : pc'[d] = pc[d]
          BY <2>1, <3>1, <4>2, Zenon
        <5>2. QED
          BY <3>1, <3>4, <4>2, <5>1, Zenon DEF OnePeer
      <4>3. QED
        BY <3>1, <4>1, <4>2, Zenon
    <3>5. QED
      BY <1>3, <3>1, <3>3, <3>4, Zenon
  <2>8. CASE Detach(c)
    <3>1. /\ pc[c] = "detach" /\ peers_' = peers_ \ {c} /\ UNCHANGED <<active_, raced>>
          /\ pc'[c] = IF peers_' = {} THEN "shutdown" ELSE "detached"
      BY <2>3, <2>8, Zenon DEF Detach
    <3>2. Listed'
      <4>1. \A d \in Channels : d # c => (d \in peers_' <=> d \in peers_)
        BY <3>1
      <4>2. c \notin peers_' /\ pc'[c] \notin Peers
        BY <3>1 DEF Peers, SettingUp
      <4>3. QED
        BY <1>3, <2>1, <4>1, <4>2, Zenon DEF Listed
    <3>3. ASSUME OnePeer PROVE OnePeer'
      <4>1. c \in peers_
        BY <1>3, <3>1 DEF Listed, Peers
      <4>2. pc[c] \notin Moving
        BY <3>1 DEF Moving, SettingUp
      <4>3. \A d \in Channels : pc[d] # "shutdown"
        BY <3>3, <4>1 DEF OnePeer
      <4>4. CASE peers_' = {}
        <5>1. \A d \in Channels : d # c => pc[d] \notin SettingUp
          BY <1>3, <3>1, <4>4 DEF Listed, Peers
        <5>2. pc[c] \notin SettingUp
          BY <3>1 DEF SettingUp
        <5>3. active_
          BY <3>3, <4>1, <5>1, <5>2 DEF OnePeer
        <5>4. \A d \in Channels : d # c => pc'[d] \notin SettingUp /\ pc'[d] # "shutdown"
          BY <2>1, <4>3, <5>1, Zenon
        <5>5. pc'[c] = "shutdown" /\ pc'[c] \notin SettingUp
          BY <3>1, <4>4 DEF SettingUp
        <5>6. \A d \in Channels : pc'[d] \in Moving => d = c
          BY <5>4, <5>5 DEF Moving
        <5>7. QED
          BY <3>1, <4>4, <5>3, <5>4, <5>5, <5>6, Zenon DEF OnePeer, Moving
      <4>5. CASE peers_' # {}
        <5>1. pc'[c] \notin Moving
          BY <3>1, <4>5 DEF Moving, SettingUp
        <5>2. \A d \in Channels : /\ pc'[d] \in Moving <=> pc[d] \in Moving
                                  /\ pc'[d] \in SettingUp <=> pc[d] \in SettingUp
                                  /\ pc'[d] = "shutdown" <=> pc[d] = "shutdown"
          BY <2>1, <4>2, <5>1 DEF Moving
        <5>3. peers_ # {}
          BY <4>1
        <5>4. QED
          BY <3>1, <3>3, <4>3, <4>5, <5>2, <5>3, Zenon DEF OnePeer, Moving
      <4>6. QED
        BY <4>4, <4>5, Zenon
    <3>4. QED
      BY <1>3, <3>1, <3>2, <3>3, Zenon
  <2>9. CASE Shutdown(c)
    <3>1. /\ pc[c] = "shutdown" /\ UNCHANGED <<peers_, raced>> /\ pc'[c] = "detached"
          /\ ~active_'
      <4>1. pc[c] = "shutdown" /\ UNCHANGED <<peers_, raced>>
        BY <2>9, Zenon DEF Shutdown
      <4>2. PcTo(c, "detached") /\ (active_' = FALSE \/ (~active_ /\ active_' = active_))
        BY <1>2, <2>2, <2>9, Zenon DEF Shutdown, Access
      <4>3. ~active_'
        BY <4>2
      <4>4. pc'[c] = "detached"
        BY <2>3, <4>2, Zenon
      <4>5. QED
        BY <4>1, <4>3, <4>4, Zenon
    <3>2. pc[c] \notin Peers /\ pc'[c] \notin Peers /\ pc'[c] \notin Moving /\ pc[c] \in Moving
      BY <3>1 DEF Peers, SettingUp, Moving
    <3>3. Listed'
      BY <1>3, <2>1, <3>1, <3>2, Zenon DEF Listed
    <3>4. ASSUME OnePeer PROVE OnePeer'
      <4>1. peers_ = {}
        BY <3>1, <3>4, Zenon DEF OnePeer
      <4>2. \A d \in Channels : d # c => pc[d] \notin Moving
        BY <3>2, <3>4, Zenon DEF OnePeer, Moving
      <4>3. \A d \in Channels : pc'[d] \notin Moving
        BY <2>1, <3>2, <4>2, Zenon
      <4>4. \A d \in Channels : pc'[d] \notin SettingUp /\ pc'[d] # "shutdown"
        BY <4>3 DEF Moving
      <4>5. QED
        BY <3>1, <4>1, <4>3, <4>4, Zenon DEF OnePeer, Moving
    <3>5. QED
      BY <1>3, <3>1, <3>3, <3>4, Zenon
  <2>10. CASE ~Attach(c) /\ ~Setup(c) /\ ~SetupWrite(c) /\ ~Detach(c) /\ ~Shutdown(c)
    <3>1. /\ UNCHANGED <<peers_, active_, raced>> /\ pc[c] \notin Moving /\ pc'[c] \notin Moving
          /\ pc[c] \in Peers <=> pc'[c] \in Peers
      BY <1>2, <1>5, <2>2, <2>10, PeersAside, Zenon
    <3>2. (Listed => Listed') /\ (OnePeer => OnePeer')
      BY <2>1, <3>1, PeersKept, Zenon
    <3>3. QED
      BY <1>3, <3>1, <3>2, Zenon
  <2>11. QED
    BY <2>5, <2>6, <2>7, <2>8, <2>9, <2>10, Zenon
<1>6. QED
  BY <1>4, <1>5, StepCases, Zenon

-----------------------------------------------------------------------------
(* The theorems. *)

LEMMA InitSession == SessionAssumption /\ Init => SessionInv
<1>1. SUFFICES ASSUME SessionAssumption, Init PROVE SessionInv
  OBVIOUS
<1>2. \A c \in Channels : pc[c] = "idle" /\ step[c] = 1
  BY <1>1 DEF Init
<1>3. step["main"] = 1 /\ main = "idle" /\ synced = FALSE /\ mask = {}
  BY <1>1 DEF Init
<1>4. TypeOK
  <2>1. 0 \in 0..MaxEvents /\ 0 \in 0..MaxRounds /\ 0 \in Delays /\ 0 \in 0..MaxStarts
        /\ 0 \in 0..MaxResets /\ 0 \in 0..MaxSets /\ 0 \in 0..MaxFaults /\ 1 \in 1..4
    BY <1>1 DEF SessionAssumption
  <2>2. HostTypes
    BY <1>1, <2>1 DEF Init, HostTypes
  <2>3. ChannelTypes
    BY <1>1, <2>1 DEF Init, ChannelTypes, ChannelStates
  <2>4. SyncTypes
    BY <1>1, <2>1 DEF Init, SyncTypes
  <2>5. DeviceTypes
    BY <1>1, <2>1 DEF Init, DeviceTypes, Blank, VsyncOff
  <2>6. CountTypes
    BY <1>1, <2>1 DEF Init, CountTypes
  <2>7. SequenceTypes
    BY <1>1 DEF Init, SequenceTypes
  <2>8. QED
    BY <2>2, <2>3, <2>4, <2>5, <2>6, <2>7, TypeGroups, Zenon
<1>5. GuardInv
  <2>1. None # "main" /\ \A c \in Channels : c # None /\ c # "main"
    BY <1>1 DEF SessionAssumption
  <2>2. lock = None /\ mutex_ = None
    BY <1>1 DEF Init
  <2>3. QED
    BY <1>2, <1>3, <2>1, <2>2 DEF GuardInv, Quiet, Writing
<1>6. StepInv
  BY <1>2, <1>3 DEF StepInv
<1>7. PortsInv /\ TornInv
  <2>1. own = {} /\ torn = FALSE
    BY <1>1 DEF Init
  <2>2. \A c \in Channels : ~Sure(c)
    BY <1>3, <2>1 DEF Sure
  <2>3. \A c \in Channels : pc[c] \notin Writing
    BY <1>2 DEF Writing
  <2>4. QED
    BY <1>2, <2>1, <2>2, <2>3 DEF PortsInv, TornInv
<1>8. SteadyInv
  <2>1. ~started_
    BY <1>1 DEF Init
  <2>2. QED
    BY <1>3, <2>1 DEF SteadyInv
<1>9. FrequencyInv /\ VsyncInv
  <2>1. active_ = FALSE /\ vsync.on = FALSE
    BY <1>1 DEF Init, VsyncOff
  <2>2. QED
    BY <1>2, <1>3, <2>1 DEF FrequencyInv, VsyncInv, VsyncIdle, VsyncSetup, VsyncDelay
<1>10. TransmitsConfigured
  BY <1>3, Zenon DEF TransmitsConfigured
<1>11. PeersInv
  <2>1. peers_ = {} /\ active_ = FALSE
    BY <1>1 DEF Init
  <2>2. \A c \in Channels : pc[c] \notin SettingUp /\ pc[c] # "shutdown" /\ pc[c] \notin Peers
    BY <1>2 DEF SettingUp, Peers
  <2>3. \A c \in Channels : pc[c] \notin SettingUp \cup {"shutdown"}
    BY <2>2
  <2>4. Listed
    BY <2>1, <2>2 DEF Listed
  <2>5. OnePeer
    BY <2>1, <2>2, <2>3 DEF OnePeer
  <2>6. QED
    BY <2>4, <2>5, Zenon DEF PeersInv
<1>12. QED
  BY <1>4, <1>5, <1>6, <1>7, <1>8, <1>9, <1>10, <1>11, Zenon DEF SessionInv

LEMMA NextSession == SessionAssumption /\ SessionInv /\ [Next]_vars => SessionInv'
<1>1. SUFFICES ASSUME SessionAssumption, SessionInv, [Next]_vars PROVE SessionInv'
  OBVIOUS
<1>2. /\ TypeOK /\ GuardInv /\ StepInv /\ PortsInv /\ TornInv /\ SteadyInv
      /\ FrequencyInv /\ VsyncInv /\ PeersInv /\ TransmitsConfigured
  BY <1>1, Zenon DEF SessionInv
<1>3. TypeOK'
  BY <1>1, <1>2, NextType, Zenon
<1>4. GuardInv'
  BY <1>1, <1>2, NextGuard, Zenon
<1>5. StepInv'
  BY <1>1, <1>2, NextStep, Zenon
<1>6. PortsInv' /\ TornInv' /\ TransmitsConfigured'
  BY <1>1, <1>2, NextPorts, NextTorn, NextTransmits, Zenon
<1>7. SteadyInv'
  BY <1>1, <1>2, NextSteady, Zenon
<1>8. FrequencyInv'
  BY <1>1, <1>2, NextFrequency, Zenon
<1>9. VsyncInv'
  BY <1>1, <1>2, <1>4, NextVsync, Zenon
<1>10. PeersInv'
  BY <1>1, <1>2, NextPeers, Zenon
<1>11. QED
  BY <1>3, <1>4, <1>5, <1>6, <1>7, <1>8, <1>9, <1>10, Zenon DEF SessionInv

\* What the host and the channels know of the device stays true through every
\* restart, lost access and interleaving.
THEOREM SessionInvariant == Spec => []SessionInv
<1>1. Init => SessionInv
  BY SessionAssumption, InitSession
<1>2. SessionInv /\ [Next]_vars => SessionInv'
  BY SessionAssumption, NextSession
<1>3. QED
  BY <1>1, <1>2, PTL DEF Spec

\* A port transmits only with all its registers from one configuration of its
\* DataChannel, unless a restarted device has executed the retry of an access
\* and the channel has not begun to configure it since; and without a fault
\* VSYNC runs as the PtpSynchronizer says, for every peer: with any number of
\* channels, restarts and given up accesses.
THEOREM DeviceIsAsConfigured == Spec => []DeviceAsConfigured
<1>1. SessionInv => DeviceAsConfigured
  <2>1. SUFFICES ASSUME SessionInv PROVE DeviceAsConfigured
    OBVIOUS
  <2>2. TypeOK /\ GuardInv /\ TransmitsConfigured /\ VsyncInv /\ PeersInv
    BY <2>1, Zenon DEF SessionInv
  <2>3. count.faults + count.resets = 0 => NoFault
    <3>1. count.faults \in Nat /\ count.resets \in Nat
      BY <2>2 DEF TypeOK
    <3>2. QED
      BY <3>1 DEF NoFault
  <2>4. ASSUME NoFault, mutex_ = None
        PROVE  /\ vsync.on = active_
               /\ vsync.on => vsync.frequency = frequency_ /\ vsync.delay = delay_ns_
    BY <2>2, <2>4, Zenon DEF VsyncInv, VsyncIdle
  <2>5. ASSUME NoFault, mutex_ = None, peers_ # {}, \A c \in Channels : pc[c] # "setup", ~raced
        PROVE  vsync.on
    <3>1. OnePeer
      BY <2>2, <2>5, Zenon DEF PeersInv
    <3>2. \A c \in Channels : pc[c] # "setup_write"
      <4>1. \A c \in Channels : c # None
        BY SessionAssumption DEF SessionAssumption
      <4>2. QED
        BY <2>2, <2>5, <4>1, Zenon DEF GuardInv
    <3>3. \A c \in Channels : pc[c] \notin SettingUp
      BY <2>5, <3>2 DEF SettingUp
    <3>4. active_
      BY <2>5, <3>1, <3>3, Zenon DEF OnePeer
    <3>5. QED
      BY <2>4, <2>5, <3>4, Zenon
  <2>6. VsyncAsSet
    BY <2>3, <2>4, <2>5, Zenon DEF VsyncAsSet
  <2>7. QED
    BY <2>2, <2>6, Zenon DEF DeviceAsConfigured
<1>2. QED
  BY <1>1, SessionInvariant, PTL

\* and_uint32 and or_uint32 of one DataChannel never change the DP_VP_MASK bit
\* of another: lock() covers the read and the write, and after a restart the
\* device refuses the write, but for its retry.
THEOREM BitsAreOwn == Spec => OnlyOwnBit
<1> DEFINE A == mask' # mask =>
                  \/ mask' = {} /\ ~synced'
                  \/ \E c \in Channels :
                        /\ pc[c] # pc'[c]
                        /\ mask \ {c} = mask' \ {c} \/ (torn /\ adopted' /\ lock = c)
<1>1. SessionInv /\ [Next]_vars => A
  <2>1. SUFFICES ASSUME SessionInv, [Next]_vars, mask' # mask PROVE A
    BY Zenon
  <2>2. TypeOK /\ PortsInv /\ StepInv /\ GuardInv /\ TornInv
    BY <2>1, Zenon DEF SessionInv
  <2>3. CASE HostStep \/ SetDelay \/ DelayWrite
    <3>1. DeviceCleared /\ synced' = FALSE
      BY <2>1, <2>2, <2>3, HostDevice, Zenon
    <3>2. mask' = {} /\ ~synced'
      BY <3>1, Zenon DEF DeviceCleared
    <3>3. QED
      BY <3>2, Zenon
  <2>4. ASSUME NEW c \in Channels, Channel(c) PROVE A
    <3>1. MaskWrite(c)
      <4>1. Configure(c) => mask' = mask
        BY Zenon DEF Configure, deviceVars
      <4>2. QED
        BY <2>1, <2>2, <2>4, <4>1, RestMoves, MaskReads, RegisterWrites, Zenon
           DEF Channel, Camera, Rest
    <3>2. /\ Executes /\ mask' = NewMask(c) /\ lock = c
          /\ own' = IF pc[c] = "and_write" THEN own \cup {c} ELSE own
          /\ pc[c] \in Writing /\ pc'[c] \notin Writing
      BY <2>1, <2>2, <3>1, MaskWrites, Zenon
    <3>3. pc[c] # pc'[c]
      BY <3>2, Zenon
    <3>4. CASE torn
      <4>1. SequenceTypes
        BY <2>2, TypeGroups, Zenon
      <4>2. adopted'
        BY <2>2, <3>2, <3>4, <4>1, TornWrite, Zenon
      <4>3. QED
        BY <3>2, <3>3, <3>4, <4>2, Zenon
    <3>5. CASE ~torn
      <4>1. seen[c] = mask
        BY <2>2, <3>2, <3>5, Zenon DEF PortsInv
      <4>2. mask \ {c} = mask' \ {c}
        BY <3>2, <4>1 DEF NewMask
      <4>3. QED
        BY <3>3, <4>2, Zenon
    <3>6. QED
      BY <3>4, <3>5, Zenon
  <2>5. QED
    BY <2>1, <2>3, <2>4, StepCases, Zenon
<1>2. QED
  BY <1>1, SessionInvariant, PTL DEF Spec, OnlyOwnBit

=============================================================================
