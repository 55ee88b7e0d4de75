------------------------------- MODULE Session -------------------------------
(***************************************************************************)
(* A program's session with one HSB device: Hololink::start, stop and      *)
(* reset with configure_hsb and the async event thread; the DataChannels   *)
(* that configure and unconfigure their virtual port under lock(); and the *)
(* PtpSynchronizer the cameras on those channels share.                    *)
(*                                                                         *)
(* The main thread starts, resets and stops the session while no channel   *)
(* is being configured, as the applications do; every channel is driven by *)
(* a thread of its own (BaseReceiverOp::start and stop with the camera's   *)
(* start and stop). The device may restart at any moment, and any control  *)
(* plane access may be given up, executed or not.                          *)
(***************************************************************************)
EXTENDS Integers, Sequences

CONSTANTS
    Channels,
    None,
    Frequencies,   \* VSYNC frequencies a camera may ask for, not 0
    Delays,        \* VSYNC delays, with 0
    MaxStarts,     \* bound: start() calls
    MaxResets,     \* bound: reset() calls
    MaxRounds,     \* bound: configurations of all channels
    MaxSets,       \* bound: set_delay() calls
    MaxFaults,     \* bound: accesses repeated or given up, and restarts of the device
    MaxTrouble,    \* bound: resets, set_delay() calls and faults together
    MaxEvents      \* bound: event packets

ASSUME SessionAssumption ==
    /\ {None, "main"} \cap Channels = {} /\ None # "main"
    /\ 0 \notin Frequencies /\ 0 \in Delays
    /\ \A n \in {MaxStarts, MaxResets, MaxRounds, MaxSets, MaxFaults, MaxTrouble, MaxEvents} :
          n \in Nat

VARIABLES
    \* Hololink
    main,        \* the main thread
    started_,
    configured,  \* history: configure_hsb has completed since start()
    async,       \* the async event thread
    socket,      \* async_event_socket_
    events,      \* event packets in it
    lock,        \* Hololink::lock(), held by a channel
    \* DataChannel and camera, by channel
    pc,
    step,        \* next register
    seen,        \* DP_VP_MASK as and_uint32 or or_uint32 read it
    round,       \* number of its configuration
    \* PtpSynchronizer
    peers_,
    mutex_,
    active_,
    frequency_,
    delay_ns_,
    raced,       \* history: the first peer attached before the last one's shutdown()
    \* the device
    synced,      \* it expects the sequence number the host sends next
    adopted,     \* history: out of step, it took the number of a retry
    mask,        \* DP_VP_MASK: the channels that transmit
    reg,         \* channel -> register -> configuration it belongs to, 0: cleared
    vsync,       \* VSYNC_CONTROL, VSYNC_FREQUENCY, VSYNC_DELAY
    own,         \* history: the channels that cleared their bit since it was cleared
    torn,        \* history: it was cleared since lock's holder read DP_VP_MASK
    eagle,       \* the board is a Leopard Eagle
    \* history
    count        \* what has happened so far, for the bounds

hostVars == <<started_, configured, async, socket, events>>
channelVars == <<lock, pc, step, seen, round>>
syncVars == <<peers_, mutex_, active_, frequency_, delay_ns_, raced>>
sequence == <<synced, adopted>>
deviceVars == <<mask, reg, vsync, own, torn>>
vars == <<main, hostVars, channelVars, syncVars, sequence, deviceVars, eagle, count>>

\* The registers of a virtual port, in two groups: the buffer length and the
\* host's addresses (configure_common); the queue pair, key and pages of
\* configure_roce or the 1722B configuration of configure_coe.
Registers == {"common", "queue"}
ConfigureOrder == <<"common", "queue">>

\* unconfigure.
ClearOrder == <<"queue", "common">>

\* PtpSynchronizer::setup and set_delay.
SetupOrder == <<"off", "frequency", "delay", "on">>
DelayOrder == <<"off", "delay", "on">>

ChannelStates == {"idle", "and_read", "and_write", "write", "or_read", "or_write",
    "attach", "setup", "setup_write", "attached", "running", "detach", "shutdown", "detached",
    "clear_read", "clear_write", "clear"}

TypeOK ==
    /\ main \in {"idle", "start_version", "start_registers", "run", "reset_trigger", "reset_find",
                 "reset_version", "reset_registers", "delay", "close", "join"}
    /\ started_ \in BOOLEAN /\ configured \in BOOLEAN
    /\ async \in {"none", "spawned", "call", "blocked", "woken", "deliver", "done", "terminated"}
    /\ socket \in {"none", "open", "shut", "closed"}
    /\ events \in 0..MaxEvents
    /\ lock \in Channels \cup {None}
    /\ pc \in [Channels -> ChannelStates]
    /\ step \in [Channels \cup {"main"} -> 1..4]
    /\ seen \in [Channels -> SUBSET Channels]
    /\ round \in [Channels -> 0..MaxRounds]
    /\ peers_ \subseteq Channels
    /\ mutex_ \in Channels \cup {None, "main"}
    /\ active_ \in BOOLEAN
    /\ frequency_ \in Frequencies \cup {0} /\ delay_ns_ \in Delays
    /\ raced \in BOOLEAN
    /\ synced \in BOOLEAN /\ adopted \in BOOLEAN
    /\ mask \subseteq Channels
    /\ own \subseteq Channels /\ torn \in BOOLEAN
    /\ reg \in [Channels -> [Registers -> 0..MaxRounds]]
    /\ vsync \in [on : BOOLEAN, frequency : Frequencies \cup {0}, delay : Delays]
    /\ eagle \in BOOLEAN
    /\ count \in [starts : 0..MaxStarts, resets : 0..MaxResets, rounds : 0..MaxRounds,
                  sets : 0..MaxSets, faults : 0..MaxFaults]

Blank == [c \in Channels |-> [r \in Registers |-> 0]]
VsyncOff == [on |-> FALSE, frequency |-> 0, delay |-> 0]

Init ==
    /\ main = "idle" /\ started_ = FALSE /\ configured = FALSE
    /\ async = "none" /\ socket = "none" /\ events = 0
    /\ lock = None
    /\ pc = [c \in Channels |-> "idle"] /\ step = [c \in Channels \cup {"main"} |-> 1]
    /\ seen = [c \in Channels |-> {}] /\ round = [c \in Channels |-> 0]
    /\ peers_ = {} /\ mutex_ = None /\ active_ = FALSE
    /\ frequency_ = 0 /\ delay_ns_ = 0 /\ raced = FALSE
    /\ synced = FALSE /\ adopted = FALSE
    /\ own = {} /\ torn = FALSE
    /\ mask = {} /\ reg = Blank /\ vsync = VsyncOff
    /\ eagle \in BOOLEAN
    /\ count = [starts |-> 0, resets |-> 0, rounds |-> 0, sets |-> 0, faults |-> 0]

-----------------------------------------------------------------------------
(* A control plane access: its first request is checked, a repeated one is *)
(* not.                                                                    *)

Room == count.faults + count.resets + count.sets < MaxTrouble

\* A request or its reply is lost.
Lost == /\ count.faults < MaxFaults /\ Room
        /\ count' = [count EXCEPT !.faults = @ + 1]

\* The device executes a request it does not check, and follows its number.
Adopts == synced' = TRUE /\ adopted' = (adopted \/ ~synced)

\* Mutant: the device does not check the sequence number.
Access_Unchecked(Effect, NoEffect, Ok, Throws) ==
    \/ Effect /\ Ok /\ UNCHANGED <<sequence, count>>
    \/ Lost /\ Throws /\ NoEffect /\ synced' = FALSE /\ UNCHANGED adopted

\* It is executed and answered; or refused, when the device's sequence number
\* is not the host's; or repeated and executed, and then answered or given up;
\* or given up before any request was executed, and then the host's sequence
\* number has moved on alone.
Access(Effect, NoEffect, Ok, Throws) ==
    \/ synced /\ Effect /\ Ok /\ UNCHANGED <<sequence, count>>
    \/ ~synced /\ NoEffect /\ Throws /\ UNCHANGED <<sequence, count>>
    \/ Lost /\ (Ok \/ Throws) /\ Effect /\ Adopts
    \/ Lost /\ Throws /\ NoEffect /\ synced' = FALSE /\ UNCHANGED adopted

SameDevice == UNCHANGED deviceVars

-----------------------------------------------------------------------------
(* Hololink: the main thread.                                              *)

MainTo(p) == main' = p
Quiet == \A c \in Channels : pc[c] = "idle"

(* start(), already started: return at once. *)
StartAgain ==
    /\ main = "idle" /\ started_
    /\ MainTo("run")
    /\ UNCHANGED <<hostVars, channelVars, syncVars, sequence, deviceVars, eagle, count>>

(* start(): started_ is set, the sockets opened and the thread spawned     *)
(* before configure_hsb.                                                   *)
Start ==
    /\ main = "idle" /\ ~started_
    /\ count.starts < MaxStarts
    /\ count' = [count EXCEPT !.starts = @ + 1]
    /\ started_' = TRUE /\ configured' = FALSE
    /\ socket' = "open" /\ events' = 0
    /\ async' = "spawned"
    /\ MainTo("start_version")
    /\ UNCHANGED <<channelVars, syncVars, sequence, deviceVars, eagle>>

\* The end of start() and of reset().
Configured == MainTo("run") /\ configured' = TRUE

(* configure_hsb: the version is read without a sequence check, which      *)
(* brings the device's sequence number in step. An exception leaves        *)
(* started_ set.                                                           *)
ConfigureVersion ==
    /\ main \in {"start_version", "reset_version"}
    /\ \/ /\ synced' = TRUE
          /\ MainTo(IF main = "start_version" THEN "start_registers" ELSE "reset_registers")
          /\ UNCHANGED count
       \/ /\ Lost
          /\ MainTo("idle")
          /\ synced' \in BOOLEAN
    /\ UNCHANGED <<adopted, hostVars, channelVars, syncVars, deviceVars, eagle>>

(* configure_hsb: PTP and event registers, the null sequence.              *)
ConfigureRegisters ==
    /\ main \in {"start_registers", "reset_registers"}
    /\ Access(SameDevice, SameDevice, Configured, MainTo("idle") /\ UNCHANGED configured)
    /\ UNCHANGED <<started_, async, socket, events, channelVars, syncVars, eagle>>

DeviceCleared ==
    /\ mask' = {} /\ reg' = Blank /\ vsync' = VsyncOff
    /\ own' = {} /\ torn' = (lock # None) /\ adopted' = FALSE

(* reset() -> trigger_reset: two writes,                                   *)
Reset ==
    /\ main = "run" /\ Quiet
    /\ count.resets < MaxResets /\ Room
    /\ Access(SameDevice, SameDevice, MainTo("reset_trigger"), MainTo("idle"))
    /\ UNCHANGED <<hostVars, channelVars, syncVars, eagle>>

(* then one that is checked and not repeated, and whose error is ignored.  *)
TriggerReset ==
    /\ main = "reset_trigger" /\ count.resets < MaxResets
    /\ count' = [count EXCEPT !.resets = @ + 1]
    /\ synced' = FALSE
    /\ \/ synced /\ DeviceCleared
       \/ SameDevice /\ UNCHANGED adopted
    /\ MainTo("reset_find")
    /\ UNCHANGED <<hostVars, channelVars, syncVars, eagle>>

(* Enumerator::find_channel, seed_arp: found, or an exception after 30 s.  *)
FindChannel ==
    /\ main = "reset_find"
    /\ MainTo("reset_version") \/ MainTo("idle")
    /\ UNCHANGED <<hostVars, channelVars, syncVars, sequence, deviceVars, eagle, count>>

\* Mutant: the socket is closed without shutdown().
Stop_NoShutdown ==
    /\ main \in {"run", "idle"} /\ started_ /\ Quiet
    /\ MainTo("close")
    /\ UNCHANGED <<hostVars, channelVars, syncVars, sequence, deviceVars, eagle, count>>

(* stop(), also from the destructor: wake the thread up,                   *)
Stop ==
    /\ main \in {"run", "idle"} /\ started_ /\ Quiet
    /\ socket' = "shut"
    /\ async' = IF async = "blocked" THEN "woken" ELSE async
    /\ MainTo("close")
    /\ UNCHANGED <<started_, configured, events, channelVars, syncVars, sequence, deviceVars, eagle,
                   count>>

(* close the socket,                                                       *)
StopClose ==
    /\ main = "close"
    /\ socket' = "closed"
    /\ MainTo("join")
    /\ UNCHANGED <<started_, configured, async, events, channelVars, syncVars, sequence,
                   deviceVars, eagle, count>>

(* and join it.                                                            *)
StopJoin ==
    /\ main = "join" /\ async = "done"
    /\ async' = "none" /\ socket' = "none"
    /\ started_' = FALSE
    /\ MainTo("idle")
    /\ UNCHANGED <<configured, events, channelVars, syncVars, sequence, deviceVars, eagle, count>>

-----------------------------------------------------------------------------
(* async_event_thread.                                                     *)

AsyncTo(p) ==
    /\ async' = p
    /\ UNCHANGED <<main, started_, configured, socket, channelVars, syncVars, sequence, deviceVars,
                   eagle, count>>

(* The thread reads the descriptor once, when it begins.                   *)
AsyncBegin ==
    /\ async = "spawned"
    /\ AsyncTo(IF socket \in {"open", "shut"} THEN "call" ELSE "terminated")
    /\ UNCHANGED events

(* recvfrom() is called: it may block, or it finds the socket shut down,   *)
(* or fails on a closed descriptor, and then the thread throws.            *)
AsyncRecv ==
    /\ async = "call"
    /\ AsyncTo(CASE socket = "open" -> "blocked"
                 [] socket = "shut" -> "woken"
                 [] OTHER -> "terminated")
    /\ UNCHANGED events

\* Mutant: a recvfrom() that returns 0 is taken for a packet.
AsyncEvent_Empty ==
    /\ async \in {"blocked", "woken"}
    /\ events' = events - 1
    /\ AsyncTo("deliver")

(* It returns a packet,                                                    *)
AsyncEvent ==
    /\ async \in {"blocked", "woken"} /\ events > 0
    /\ events' = events - 1
    /\ AsyncTo("deliver")

(* or 0 after shutdown(); close() alone does not end it.                   *)
AsyncShutdown ==
    /\ async = "woken" /\ events = 0
    /\ AsyncTo("done")
    /\ UNCHANGED events

(* The listeners, copied under their mutex, are called one by one.         *)
AsyncDeliver ==
    /\ async = "deliver"
    /\ AsyncTo("call")
    /\ UNCHANGED events
-----------------------------------------------------------------------------
(* DataChannel: the thread of channel c.                                   *)

PcTo(c, p) == pc' = [pc EXCEPT ![c] = p]

\* An exception leaves the operator's start() or stop(); guards are released.
Fails(c) == PcTo(c, "idle")

(* configure_roce or configure_coe, its arguments accepted.                *)
Configure(c) ==
    /\ main = "run" /\ pc[c] = "idle" /\ count.rounds < MaxRounds
    /\ count' = [count EXCEPT !.rounds = @ + 1]
    /\ round' = [round EXCEPT ![c] = count'.rounds]
    /\ PcTo(c, "and_read")
    /\ UNCHANGED <<main, hostVars, lock, step, seen, syncVars, sequence, deviceVars, eagle>>

\* Mutant: the mask is read and written without lock().
MaskRead_NoLock(c) ==
    /\ pc[c] \in {"and_read", "or_read", "clear_read"}
    /\ Access(SameDevice, SameDevice,
              /\ seen' = [seen EXCEPT ![c] = mask]
              /\ PcTo(c, CASE pc[c] = "and_read" -> "and_write"
                           [] pc[c] = "or_read" -> "or_write"
                           [] OTHER -> "clear_write"),
              Fails(c) /\ UNCHANGED seen)
    /\ UNCHANGED <<main, hostVars, lock, step, round, syncVars, eagle>>

(* and_uint32, or_uint32 of DP_VP_MASK: take lock() and read,              *)
MaskRead(c) ==
    /\ pc[c] \in {"and_read", "or_read", "clear_read"}
    /\ lock = None
    /\ Access(SameDevice, SameDevice,
              /\ lock' = c
              /\ seen' = [seen EXCEPT ![c] = mask]
              /\ PcTo(c, CASE pc[c] = "and_read" -> "and_write"
                           [] pc[c] = "or_read" -> "or_write"
                           [] OTHER -> "clear_write"),
              Fails(c) /\ UNCHANGED <<lock, seen>>)
    /\ UNCHANGED <<main, hostVars, step, round, syncVars, eagle>>

(* then write and release it.                                              *)
MaskWrite(c) ==
    /\ pc[c] \in {"and_write", "or_write", "clear_write"}
    /\ lock' = None /\ torn' = FALSE
    /\ Access(/\ mask' = IF pc[c] = "or_write" THEN seen[c] \cup {c} ELSE seen[c] \ {c}
              /\ own' = IF pc[c] = "and_write" THEN own \cup {c} ELSE own
              /\ UNCHANGED <<reg, vsync>>,
              UNCHANGED <<mask, reg, vsync, own>>,
              PcTo(c, CASE pc[c] = "and_write" -> "write"
                        [] pc[c] = "or_write" -> "attach"
                        [] OTHER -> "clear"),
              Fails(c))
    /\ seen' = [seen EXCEPT ![c] = {}]
    /\ UNCHANGED <<main, hostVars, step, round, syncVars, eagle>>

\* Steps of a sequence of writes; an exception leaves it.
Rewind(t) == step' = [step EXCEPT ![t] = 1]

Advance(t, order) == step' = [step EXCEPT ![t] = IF @ = Len(order) THEN 1 ELSE @ + 1]

\* Write the next register of order, then go to state done.
WriteNext(c, order, value, done) ==
    /\ Access(/\ reg' = [reg EXCEPT ![c][order[step[c]]] = value]
              /\ UNCHANGED <<mask, vsync, own, torn>>,
              SameDevice,
              /\ Advance(c, order)
              /\ IF step[c] = Len(order) THEN PcTo(c, done) ELSE UNCHANGED pc,
              Fails(c) /\ Rewind(c))
    /\ UNCHANGED <<main, hostVars, lock, seen, round, syncVars, eagle>>

(* configure_common and the rest of configure_roce or configure_coe.       *)
WriteRegister(c) ==
    /\ pc[c] = "write"
    /\ WriteNext(c, ConfigureOrder, round[c], "or_read")

(* compute_payload_size: the MTU is too small.                             *)
MtuTooSmall(c) ==
    /\ pc[c] = "write" /\ step[c] = 1
    /\ Fails(c)
    /\ UNCHANGED <<main, hostVars, lock, step, seen, round, syncVars, sequence, deviceVars, eagle,
                   count>>

(* unconfigure: nothing is cleared on a Leopard Eagle.                     *)
Unconfigure(c) ==
    /\ pc[c] = "detached"
    /\ PcTo(c, IF eagle THEN "idle" ELSE "clear_read")
    /\ UNCHANGED <<main, hostVars, lock, step, seen, round, syncVars, sequence, deviceVars, eagle,
                   count>>

ClearRegister(c) ==
    /\ pc[c] = "clear"
    /\ WriteNext(c, ClearOrder, 0, "idle")

-----------------------------------------------------------------------------
(* Synchronizer and PtpSynchronizer: the cameras' threads.                 *)

(* ptp_pps_output(f) -> set_frequency: only the first one counts.          *)
SetFrequency(c) ==
    /\ pc[c] = "attach" /\ frequency_ = 0
    /\ \E f \in Frequencies : frequency_' = f
    /\ UNCHANGED <<main, hostVars, channelVars, peers_, mutex_, active_, delay_ns_, raced, sequence,
                   deviceVars, eagle, count>>

(* attach: peers_mutex_ covers the list only. A peer that is still in it   *)
(* throws.                                                                 *)
Attach(c) ==
    /\ pc[c] = "attach" /\ frequency_ # 0
    /\ peers_' = peers_ \cup {c}
    /\ raced' = (raced \/ (peers_ = {} /\ \E d \in Channels : pc[d] = "shutdown"))
    /\ PcTo(c, CASE c \in peers_ -> "idle" [] peers_ = {} -> "setup" [] OTHER -> "attached")
    /\ UNCHANGED <<main, hostVars, lock, step, seen, round, mutex_, active_, frequency_, delay_ns_,
                   sequence, deviceVars, eagle, count>>

(* setup: take mutex_; nothing to do when active_.                         *)
Setup(c) ==
    /\ pc[c] = "setup" /\ mutex_ = None
    /\ mutex_' = IF active_ THEN None ELSE c
    /\ PcTo(c, IF active_ THEN "attached" ELSE "setup_write")
    /\ UNCHANGED <<main, hostVars, lock, step, seen, round, peers_, active_, frequency_, delay_ns_,
                   raced, sequence, deviceVars, eagle, count>>

\* The effect of one VSYNC write.
VsyncWrite(what) ==
    /\ vsync' = CASE what = "off" -> [vsync EXCEPT !.on = FALSE]
                  [] what = "on" -> [vsync EXCEPT !.on = TRUE]
                  [] what = "frequency" -> [vsync EXCEPT !.frequency = frequency_]
                  [] what = "delay" -> [vsync EXCEPT !.delay = delay_ns_]
    /\ UNCHANGED <<mask, reg, own, torn>>

SetupWrite(c) ==
    /\ pc[c] = "setup_write"
    /\ Access(VsyncWrite(SetupOrder[step[c]]), SameDevice,
              /\ Advance(c, SetupOrder)
              /\ IF step[c] = Len(SetupOrder)
                 THEN PcTo(c, "attached") /\ active_' = TRUE /\ mutex_' = None
                 ELSE UNCHANGED <<pc, active_, mutex_>>,
              Fails(c) /\ Rewind(c) /\ mutex_' = None /\ UNCHANGED active_)
    /\ UNCHANGED <<main, hostVars, lock, seen, round, peers_, frequency_, delay_ns_, raced, eagle>>

(* The camera's start, after attach, and its stop, before detach: register *)
(* accesses, polled until the sensor has changed its state or for 30 times.*)
CameraStart(c) ==
    /\ pc[c] = "attached"
    /\ Access(SameDevice, SameDevice, PcTo(c, "running"), Fails(c))
    /\ UNCHANGED <<main, hostVars, lock, step, seen, round, syncVars, eagle>>

CameraStop(c) ==
    /\ main = "run" /\ pc[c] = "running"
    /\ Access(SameDevice, SameDevice, PcTo(c, "detach"), Fails(c))
    /\ UNCHANGED <<main, hostVars, lock, step, seen, round, syncVars, eagle>>

(* detach: peers_mutex_ covers the list only.                              *)
Detach(c) ==
    /\ pc[c] = "detach"
    /\ peers_' = peers_ \ {c}
    /\ PcTo(c, IF peers_' = {} THEN "shutdown" ELSE "detached")
    /\ UNCHANGED <<main, hostVars, lock, step, seen, round, mutex_, active_, frequency_, delay_ns_,
                   raced, sequence, deviceVars, eagle, count>>

(* shutdown, under mutex_; nothing to do when not active_.                 *)
Shutdown(c) ==
    /\ pc[c] = "shutdown" /\ mutex_ = None
    /\ \/ /\ ~active_
          /\ PcTo(c, "detached")
          /\ SameDevice /\ UNCHANGED <<active_, sequence, count>>
       \/ /\ active_
          /\ Access(VsyncWrite("off"), SameDevice,
                    PcTo(c, "detached") /\ active_' = FALSE,
                    Fails(c) /\ UNCHANGED active_)
    /\ UNCHANGED <<main, hostVars, lock, step, seen, round, peers_, mutex_, frequency_, delay_ns_,
                   raced, eagle>>

\* Mutant: an active synchronizer is not told the new delay.
SetDelay_NotWritten ==
    /\ main = "run" /\ mutex_ = None
    /\ count.sets < MaxSets /\ Room
    /\ count' = [count EXCEPT !.sets = @ + 1]
    /\ \E d \in Delays : delay_ns_' = d
    /\ UNCHANGED <<main, mutex_, step, hostVars, lock, pc, seen, round, peers_, active_,
                   frequency_, raced, sequence, deviceVars, eagle>>

(* set_delay by the application: rewrite the registers when active_.       *)
SetDelay ==
    /\ main = "run" /\ mutex_ = None
    /\ count.sets < MaxSets /\ Room
    /\ count' = [count EXCEPT !.sets = @ + 1]
    /\ \E d \in Delays : delay_ns_' = d
    /\ mutex_' = IF active_ THEN "main" ELSE None
    /\ MainTo(IF active_ THEN "delay" ELSE "run")
    /\ UNCHANGED <<hostVars, lock, pc, step, seen, round, peers_, active_, frequency_, raced,
                   sequence, deviceVars, eagle>>

DelayWrite ==
    /\ main = "delay"
    /\ Access(VsyncWrite(DelayOrder[step["main"]]), SameDevice,
              /\ Advance("main", DelayOrder)
              /\ IF step["main"] = Len(DelayOrder)
                 THEN MainTo("run") /\ mutex_' = None
                 ELSE UNCHANGED <<main, mutex_>>,
              Rewind("main") /\ MainTo("run") /\ mutex_' = None)
    /\ UNCHANGED <<hostVars, lock, pc, seen, round, peers_, active_, frequency_, delay_ns_, raced,
                   eagle>>

-----------------------------------------------------------------------------
(* The device.                                                             *)

Restart ==
    /\ count.faults < MaxFaults /\ Room
    /\ count' = [count EXCEPT !.faults = @ + 1]
    /\ synced' = FALSE
    /\ DeviceCleared
    /\ UNCHANGED <<main, hostVars, channelVars, syncVars, eagle>>

(* An event packet, to the port configure_hsb has set.                     *)
SendEvent ==
    /\ configured /\ socket = "open"
    /\ events < MaxEvents
    /\ events' = events + 1
    /\ UNCHANGED <<main, started_, configured, async, socket, channelVars, syncVars, sequence,
                   deviceVars, eagle, count>>

-----------------------------------------------------------------------------
Alive == async # "terminated"

Main == StartAgain \/ Start \/ ConfigureVersion \/ ConfigureRegisters \/ Reset \/ TriggerReset
        \/ FindChannel \/ Stop \/ StopClose \/ StopJoin \/ SetDelay \/ DelayWrite
Async == AsyncBegin \/ AsyncRecv \/ AsyncEvent \/ AsyncShutdown \/ AsyncDeliver
Camera(c) == SetFrequency(c) \/ Attach(c) \/ Setup(c) \/ SetupWrite(c)
             \/ CameraStart(c) \/ CameraStop(c) \/ Detach(c) \/ Shutdown(c)
Channel(c) == Configure(c) \/ MaskRead(c) \/ MaskWrite(c) \/ WriteRegister(c) \/ MtuTooSmall(c)
              \/ Unconfigure(c) \/ ClearRegister(c) \/ Camera(c)

(* An exception that leaves async_event_thread ends the program.           *)
Next ==
    \/ Alive /\ (Main \/ Async \/ \E c \in Channels : Channel(c))
    \/ Restart \/ SendEvent

(* Threads are scheduled: the event thread runs, and stop() goes on.       *)
Spec ==
    /\ Init /\ [][Next]_vars
    /\ WF_vars(Alive /\ Async)
    /\ WF_vars(StopClose) /\ WF_vars(StopJoin)

-----------------------------------------------------------------------------
(* Properties.                                                             *)

\* A port whose DP_VP_MASK bit is set has all its registers from one
\* configuration: whatever restarts, lost accesses, exceptions and other
\* channels come between the writes, the device never transmits with an
\* incomplete or a mixed destination. The one exception: a device that has
\* restarted executes the unchecked retry of an access and is in step again;
\* then operations that began before the restart go on, and only the ports
\* whose channel has begun to configure them since are sure to be complete.
TransmitsConfigured ==
    \A c \in mask : c \in own \/ ~adopted =>
        \E g \in 1..MaxRounds : \A r \in Registers : reg[c][r] = g

\* and_uint32 and or_uint32 of one channel never change the bit of another:
\* a bit changes when its own thread writes the mask, or with the device; or
\* when the device restarted after the mask was read, and executes the
\* unchecked retry of the write.
OnlyOwnBit ==
    [][mask' # mask =>
          \/ mask' = {} /\ ~synced'
          \/ \E c \in Channels :
                /\ pc[c] # pc'[c]
                /\ mask \ {c} = mask' \ {c} \/ (torn /\ adopted' /\ lock = c)]_vars

\* While nothing is lost and the device keeps running, active_ says whether
\* VSYNC is on, and VSYNC runs with the frequency and the delay last set,
\* however attach, detach and set_delay interleave; and it runs for every peer
\* whose setup() is done, unless it attached between detach() and shutdown()
\* of the last peer before it: then setup() finds active_ and shutdown()
\* comes after it.
VsyncAsSet ==
    count.faults + count.resets = 0 /\ mutex_ = None =>
        /\ vsync.on = active_
        /\ vsync.on => vsync.frequency = frequency_ /\ vsync.delay = delay_ns_
        /\ peers_ # {} /\ (\A c \in Channels : pc[c] # "setup") => vsync.on \/ raced

\* The device does what the host configured, no more and no less.
DeviceAsConfigured == TypeOK /\ TransmitsConfigured /\ VsyncAsSet

\* stop() returns: shutdown() ends a recvfrom() in progress. (Or the event
\* thread has ended the program: stop() closes the socket while the thread may
\* be in a callback, and the recvfrom() that follows throws.)
StopReturns == main = "join" ~> (main = "idle" \/ ~Alive)
=============================================================================
