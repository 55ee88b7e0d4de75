----------------------------- MODULE Reconnect -----------------------------
(***************************************************************************)
(* How an application finds a device, brings it up, notices that it is     *)
(* gone and finds it again: Device, SensorFactory and HsbController        *)
(* (hsb_controller.py) on the callbacks of ReactorEnumerator and the       *)
(* alarms of Reactor.                                                      *)
(*                                                                         *)
(* The reactor's thread runs one callback at a time. What a callback still *)
(* has to do is the stack `todo`; each element is a call that the          *)
(* application's threads may run between, since Python changes threads     *)
(* between statements and the device calls release the GIL. register_ip    *)
(* and unregister_ip keep the GIL while they wait for the enumerator's     *)
(* lock_.                                                                  *)
(***************************************************************************)
EXTENDS Naturals, Sequences, FiniteSets, SequencesExt

CONSTANTS
    Controllers,  \* one SensorFactory and its HsbController for each data channel
    Dynamic,      \* those that start and stop while the reactor runs, and tap in two steps;
                  \* the others have started, and a tap of theirs changes nothing
    None,
    MaxOrphans,   \* bound: alarms of a controller that it has lost the handle of
    MaxFaults     \* bound: failures of the device, late frames

States == {"NOT_FOUND", "RESET", "CONNECTED", "RUN"}

ASSUME ReconnectAssumption ==
    /\ None \notin Controllers \cup States /\ Dynamic \subseteq Controllers
    /\ MaxOrphans \in Nat /\ MaxFaults \in Nat

VARIABLES
    \* Device
    state, primary, connected, ptpAlarm, settled,
    \* SensorFactory, HsbController, by controller
    sensors,
    watching,     \* the alarm of _watchdog waits
    orphans,      \* controller -> watchdog alarms that wait, and no handle refers to
    linked, running,
    \* Reactor, ReactorEnumerator
    expired,      \* controller -> watchdog alarms taken from alarms_, not called yet
    todo, held, registered, crashed,
    \* the application's thread of each controller
    app,
    \* the device and the network
    up, configured, faults,
    queued,       \* enumeration messages from before the device restarted
    \* history
    failed,       \* the device failed since the host reset it
    leftover      \* controllers that were told CONNECTED when the device was lost again

deviceVars == <<state, primary, connected, ptpAlarm, settled>>
alarmVars == <<watching, orphans>>
factoryVars == <<sensors, alarmVars, linked, running>>
reactorVars == <<expired, todo, held, registered, crashed>>
worldVars == <<up, configured, queued, faults, failed>>
vars == <<deviceVars, factoryVars, reactorVars, app, worldVars, leftover>>

Task == [op : {"enumerated", "advance"}, c : Controllers, fresh : BOOLEAN]
   \cup [op : {"device_state"}, c : Controllers, st : States]
   \cup [op : {"controller_lost"}, c : Controllers]
   \cup [op : {"check_ptp", "clear", "unlock"}]

AppPcs == {"new", "register", "up", "cancelled", "stopping", "unregister", "stopped"}

Init ==
    /\ state = None /\ primary = None /\ connected = {}
    /\ ptpAlarm = "none" /\ settled = FALSE
    /\ sensors = {} /\ watching = {} /\ orphans = [c \in Controllers |-> 0]
    /\ linked = {} /\ running = {}
    /\ expired = [c \in Controllers |-> 0] /\ todo = <<>>
    /\ held = FALSE /\ registered = Controllers \ Dynamic /\ crashed = FALSE
    /\ app = [c \in Controllers |-> IF c \in Dynamic THEN "new" ELSE "up"]
    /\ up = TRUE /\ configured = {} /\ queued = {} /\ faults = 0
    /\ failed = FALSE /\ leftover = {}

TypeOK ==
    /\ state \in States \cup {None} /\ primary \in Controllers \cup {None}
    /\ connected \subseteq Controllers
    /\ ptpAlarm \in {"none", "waits", "expired"} /\ settled \in BOOLEAN
    /\ sensors \subseteq Controllers /\ configured \subseteq Controllers
    /\ watching \subseteq Controllers /\ orphans \in [Controllers -> 0..MaxOrphans]
    /\ linked \subseteq Controllers /\ running \subseteq Controllers
    /\ expired \in [Controllers -> 0..(MaxOrphans + 1)]
    /\ todo \in Seq(Task)
    /\ held \in BOOLEAN /\ registered \subseteq Controllers /\ crashed \in BOOLEAN
    /\ app \in [Controllers -> AppPcs]
    /\ up \in BOOLEAN /\ queued \subseteq Controllers /\ faults \in 0..MaxFaults
    /\ failed \in BOOLEAN /\ leftover \subseteq sensors

-----------------------------------------------------------------------------
(* The reactor's thread in Python code. *)

\* A thread that waits inside register_ip or unregister_ip has the GIL.
HasGil(c) == app[c] \in {"register", "unregister"}
GilFree == \A c \in Controllers : ~HasGil(c)

\* The callback's next call is t.
Runs(t) == ~crashed /\ GilFree /\ todo # <<>> /\ Head(todo) = t

\* The calls that replace the one at the head, or that an alarm's callback begins with.
Continue(calls) == todo' = calls \o (IF todo = <<>> THEN <<>> ELSE Tail(todo))

(* An exception that nobody catches leaves Reactor::run and ends the      *)
(* process.                                                                *)
Raise ==
    /\ crashed' = TRUE
    /\ UNCHANGED <<deviceVars, factoryVars, expired, todo, held, registered, app, worldVars,
                   leftover>>

\* Nothing is left of the alarms run() took, nor any callback.
AtRest == ~crashed /\ todo = <<>> /\ ptpAlarm # "expired" /\ \A c \in Controllers : expired[c] = 0

\* Mutant: nothing is cancelled.
Cancel_Nothing(c) == UNCHANGED <<watching, orphans>>

\* cancel_alarm(_watchdog).
Cancel(c) == watching' = watching \ {c} /\ UNCHANGED orphans

\* _watchdog = add_alarm_s(...).
Watch(c) ==
    /\ watching' = watching \cup {c}
    /\ orphans' = IF c \in watching THEN [orphans EXCEPT ![c] = @ + 1] ELSE orphans

Notify(order, st) == [i \in DOMAIN order |-> [op |-> "device_state", c |-> order[i], st |-> st]]

(* Device.goto: the controllers are told in the order of a set. None of    *)
(* them does anything for RESET.                                           *)
Goto(st, then) ==
    /\ state' = st
    /\ \E order \in SetToSeqs(connected) : Continue(Notify(order, st) \o then)

(* Device.lost. *)
Lost(then) ==
    /\ ptpAlarm' = IF ptpAlarm = "waits" THEN "none" ELSE ptpAlarm
    /\ Goto("NOT_FOUND", <<[op |-> "clear"]>> \o then)

\* The end of Device.lost.
Clear ==
    /\ Runs([op |-> "clear"])
    /\ connected' = {}
    /\ Continue(<<>>)
    /\ UNCHANGED <<state, primary, ptpAlarm, settled, factoryVars, expired, held,
                   registered, crashed, app, worldVars, leftover>>

-----------------------------------------------------------------------------
(* Enumeration. *)

\* A message of c: one that was queued, or a new one.
Message(c, fresh) ==
    IF fresh THEN up /\ UNCHANGED queued ELSE c \in queued /\ queued' = queued \ {c}

\* Mutant: the callbacks are called without lock_.
TakeBootp_Unlocked(c, fresh) ==
    /\ AtRest
    /\ c \in registered /\ Message(c, fresh)
    /\ todo' = <<[op |-> "enumerated", c |-> c, fresh |-> fresh], [op |-> "unlock"]>>
    /\ UNCHANGED <<deviceVars, factoryVars, expired, held, registered, crashed, app, up, configured, faults,
                   failed, leftover>>

(* ReactorEnumerator::fd_callback: lock_ is held until the callbacks have  *)
(* returned. A message that no controller registered for is dropped.       *)
TakeBootp(c, fresh) ==
    /\ AtRest
    /\ Message(c, fresh)
    /\ IF c \in registered
       THEN /\ todo' = <<[op |-> "enumerated", c |-> c, fresh |-> fresh], [op |-> "unlock"]>>
            /\ held' = TRUE
       ELSE UNCHANGED <<todo, held>>
    /\ UNCHANGED <<deviceVars, factoryVars, expired, registered, crashed, app, up, configured, faults, failed,
                   leftover>>

(* The end of fd_callback, without the GIL. *)
Unlock ==
    /\ ~crashed /\ todo # <<>> /\ Head(todo) = [op |-> "unlock"]
    /\ held' = FALSE
    /\ Continue(<<>>)
    /\ UNCHANGED <<deviceVars, factoryVars, expired, registered, crashed, app, worldVars, leftover>>

\* Mutant: a controller that comes late is not told the state.
Enumerated_Untold(c, fresh) ==
    /\ Runs([op |-> "enumerated", c |-> c, fresh |-> fresh])
    /\ c \notin connected
    /\ state' = IF state = None THEN "NOT_FOUND" ELSE state
    /\ primary' = IF state = None THEN c ELSE primary
    /\ Continue(<<[op |-> "advance", c |-> c, fresh |-> fresh]>>)
    /\ UNCHANGED <<connected, ptpAlarm, settled, factoryVars, expired, held, registered, crashed, app,
                   worldVars, leftover>>

(* SensorFactory._enumerated, Device.get_device, and the first lines of    *)
(* Device.enumerated: a controller the device does not know is told the    *)
(* state.                                                                  *)
Enumerated(c, fresh) ==
    /\ Runs([op |-> "enumerated", c |-> c, fresh |-> fresh])
    /\ c \notin connected
    /\ state' = IF state = None THEN "NOT_FOUND" ELSE state
    /\ primary' = IF state = None THEN c ELSE primary
    /\ Continue(<<[op |-> "device_state", c |-> c, st |-> state'],
                  [op |-> "advance", c |-> c, fresh |-> fresh]>>)
    /\ UNCHANGED <<connected, ptpAlarm, settled, factoryVars, expired, held, registered, crashed, app,
                   worldVars, leftover>>

\* The rest of Device.enumerated.
Advances(c, fresh) ==
    \/ Runs([op |-> "enumerated", c |-> c, fresh |-> fresh]) /\ c \in connected
    \/ Runs([op |-> "advance", c |-> c, fresh |-> fresh])

MayReset(c) == state = "NOT_FOUND" /\ c = primary

\* The device restarts: nothing is configured.
Restart == up' = FALSE /\ configured' = {}

(* NOT_FOUND: start the device and reset it. The time of the reset is read *)
(* before; the last write gets no answer and takes 0.1 s on top of the     *)
(* 0.1 s that trigger_reset sleeps, unless the device answers it. The      *)
(* messages that came meanwhile are queued.                                *)
ResetDevice(c, fresh) ==
    /\ Advances(c, fresh) /\ MayReset(c) /\ up
    /\ connected' = connected \cup {c}
    /\ state' = "RESET"
    /\ Continue(<<>>)
    /\ settled' \in BOOLEAN
    /\ Restart /\ failed' = FALSE
    /\ queued' \in {queued \cup new : new \in SUBSET registered}
    /\ UNCHANGED <<primary, ptpAlarm, factoryVars, expired, held, registered,
                   crashed, app, faults, leftover>>

(* RESET: an enumeration message 0.2 s after the reset. *)
Configure(c, fresh) ==
    /\ Advances(c, fresh) /\ ~MayReset(c)
    /\ state = "RESET" /\ settled /\ up
    /\ connected' = connected \cup {c}
    /\ state' = "CONNECTED"
    /\ \E order \in SetToSeqs(connected') : Continue(Notify(order, "CONNECTED") \o <<[op |-> "check_ptp"]>>)
    /\ settled' = FALSE
    /\ UNCHANGED <<primary, ptpAlarm, factoryVars, expired, held, registered, crashed, app,
                   worldVars, leftover>>

(* The device does not answer, in either: nobody catches the exception. *)
AdvanceFails(c, fresh) ==
    /\ Advances(c, fresh) /\ ~up
    /\ MayReset(c) \/ (state = "RESET" /\ settled)
    /\ Raise

(* Nothing to do for this message. *)
Ignore(c, fresh) ==
    /\ Advances(c, fresh) /\ ~MayReset(c)
    /\ ~(state = "RESET" /\ settled)
    /\ connected' = connected \cup {c}
    /\ Continue(<<>>)
    /\ UNCHANGED <<state, primary, ptpAlarm, settled, factoryVars, expired, held, registered,
                   crashed, app, worldVars, leftover>>

-----------------------------------------------------------------------------
(* SensorFactory.device_state. *)

Told(c, st) == Runs([op |-> "device_state", c |-> c, st |-> st])

(* CONNECTED: found. *)
Found(c) ==
    /\ Told(c, "CONNECTED") /\ c \notin sensors /\ up
    /\ sensors' = sensors \cup {c}
    /\ configured' = configured \cup {c}
    /\ linked' = linked \cup {c}
    /\ leftover' = IF state = "CONNECTED" THEN leftover ELSE leftover \cup {c}
    /\ Continue(<<>>)
    /\ UNCHANGED <<deviceVars, alarmVars, running, expired, held, registered, crashed, app, up, queued,
                   faults, failed>>

(* found: the device does not answer. *)
FoundFails(c) ==
    /\ Told(c, "CONNECTED") /\ c \notin sensors /\ ~up
    /\ Lost(<<>>)
    /\ UNCHANGED <<primary, connected, settled, factoryVars, expired, held, registered, crashed,
                   app, worldVars, leftover>>

\* Mutant: the watchdog starts with the first frame.
Run_Unwatched(c) ==
    /\ Told(c, "RUN") /\ c \in sensors
    /\ running' = running \cup {c}
    /\ Continue(<<>>)
    /\ UNCHANGED <<deviceVars, sensors, alarmVars, linked, expired, held, registered, crashed, app,
                   worldVars, leftover>>

(* RUN: run. *)
Run(c) ==
    /\ Told(c, "RUN") /\ c \in sensors
    /\ Watch(c)
    /\ running' = running \cup {c}
    /\ Continue(<<>>)
    /\ UNCHANGED <<deviceVars, sensors, linked, expired, held, registered, crashed, app, worldVars, leftover>>

(* The assertions of CONNECTED and RUN. *)
AssertionError(c) ==
    /\ \/ Told(c, "CONNECTED") /\ c \in sensors
       \/ Told(c, "RUN") /\ c \notin sensors
    /\ Raise

(* The network receiver, which found() and run() call outside the try, finds *)
(* that the device does not answer.                                        *)
ReceiverFails(c) ==
    /\ \/ Told(c, "CONNECTED") /\ c \notin sensors
       \/ Told(c, "RUN") /\ c \in sensors
    /\ ~up
    /\ Raise

(* NOT_FOUND: HsbController is not told. *)
NotFound(c) ==
    /\ Told(c, "NOT_FOUND")
    /\ sensors' = sensors \ {c} /\ leftover' = leftover \ {c}
    /\ Cancel(c)
    /\ Continue(<<>>)
    /\ UNCHANGED <<deviceVars, linked, running, expired, held, registered, crashed, app, worldVars>>

(* RESET: nothing. *)
Resetting(c) ==
    /\ Told(c, "RESET")
    /\ Continue(<<>>)
    /\ UNCHANGED <<deviceVars, factoryVars, expired, held, registered, crashed, app, worldVars, leftover>>

-----------------------------------------------------------------------------
(* Device.check_ptp. *)

\* Called by enumerated(), or by run() for the alarm.
ChecksPtp ==
    \/ Runs([op |-> "check_ptp"])
    \/ ~crashed /\ GilFree /\ todo = <<>> /\ ptpAlarm = "expired"

(* The device was lost before the alarm came. *)
NoLongerConnected ==
    /\ ChecksPtp /\ state # "CONNECTED"
    /\ ptpAlarm' = "none"
    /\ Continue(<<>>)
    /\ UNCHANGED <<state, primary, connected, settled, factoryVars, expired, held, registered,
                   crashed, app, worldVars, leftover>>

(* The device does not answer. *)
PtpFails ==
    /\ ChecksPtp /\ state = "CONNECTED" /\ ~up
    /\ ptpAlarm' = "none"
    /\ Goto("NOT_FOUND", <<[op |-> "clear"]>>)
    /\ UNCHANGED <<primary, connected, settled, factoryVars, expired, held, registered, crashed,
                   app, worldVars, leftover>>

(* Synchronized, or given up after 30 s: ready. *)
Ready ==
    /\ ChecksPtp /\ state = "CONNECTED" /\ up
    /\ ptpAlarm' = "none"
    /\ Goto("RUN", <<>>)
    /\ UNCHANGED <<primary, connected, settled, factoryVars, expired, held, registered, crashed,
                   app, worldVars, leftover>>

\* Mutant: one poll only.
PollAgain_Once ==
    /\ ChecksPtp /\ state = "CONNECTED" /\ up
    /\ ptpAlarm' = "none"
    /\ Continue(<<>>)
    /\ UNCHANGED <<state, primary, connected, settled, factoryVars, expired, held, registered, crashed,
                   app, worldVars, leftover>>

(* Not synchronized yet. *)
PollAgain ==
    /\ ChecksPtp /\ state = "CONNECTED" /\ up
    /\ ptpAlarm' = "waits"
    /\ Continue(<<>>)
    /\ UNCHANGED <<state, primary, connected, settled, factoryVars, expired, held, registered, crashed,
                   app, worldVars, leftover>>

-----------------------------------------------------------------------------
(* Watchdogs. *)

\* Frames of c come.
Flowing(c) == up /\ c \in configured /\ c \in running

\* No tap comes in 0.5 s.
SilentOnes ==
    {c \in Controllers : ~Flowing(c) \/ app[c] \in {"stopping", "unregister", "stopped"}}

(* Reactor::run takes the alarms that are due from alarms_: take[c] of the *)
(* orphans, those of _watchdog of the controllers in current, because no   *)
(* frame came or one came too late, and the one of check_ptp. A cancel     *)
(* that comes now is too late.                                             *)
Expire(take, current, ptp) ==
    /\ AtRest
    /\ ptp \/ current # {} \/ \E c \in Controllers : take[c] > 0
    /\ \A c \in Controllers : take[c] <= orphans[c]
    /\ ptp => ptpAlarm = "waits"
    /\ \/ current \subseteq SilentOnes /\ UNCHANGED faults
       \/ ~(current \subseteq SilentOnes) /\ faults < MaxFaults /\ faults' = faults + 1
    /\ ptpAlarm' = IF ptp THEN "expired" ELSE ptpAlarm
    /\ expired' = [c \in Controllers |-> IF c \in current THEN take[c] + 1 ELSE take[c]]
    /\ orphans' = [c \in Controllers |-> orphans[c] - take[c]]
    /\ watching' = watching \ current
    /\ UNCHANGED <<state, primary, connected, settled, sensors, linked, running, todo, held, registered,
                   crashed, app, up, configured, queued, failed, leftover>>

\* All alarms there are, but for the watchdogs that are tapped.
ExpireAll == Expire(orphans, watching \cap SilentOnes, ptpAlarm = "waits")

\* run() calls a watchdog it took.
WatchdogFires(c) ==
    /\ ~crashed /\ GilFree /\ todo = <<>> /\ expired[c] > 0
    /\ expired' = [expired EXCEPT ![c] = @ - 1]

\* Mutant: only HsbController is told.
WatchdogTimeout_Local(c) ==
    /\ WatchdogFires(c)
    /\ Cancel(c)
    /\ sensors' = sensors \ {c} /\ leftover' = leftover \ {c}
    /\ Continue(<<[op |-> "controller_lost", c |-> c]>>)
    /\ UNCHANGED <<deviceVars, linked, running, held, registered, crashed, app, worldVars>>

(* SensorFactory.watchdog_timeout. *)
WatchdogTimeout(c) ==
    /\ WatchdogFires(c)
    /\ Cancel(c)
    /\ sensors' = sensors \ {c} /\ leftover' = leftover \ {c}
    /\ Lost(<<[op |-> "controller_lost", c |-> c]>>)
    /\ UNCHANGED <<primary, connected, settled, linked, running, held, registered,
                   crashed, app, worldVars>>

(* HsbController.lost. *)
ControllerLost(c) ==
    /\ Runs([op |-> "controller_lost", c |-> c])
    /\ linked' = linked \ {c} /\ running' = running \ {c}
    /\ Continue(<<>>)
    /\ UNCHANGED <<deviceVars, sensors, alarmVars, expired, held, registered, crashed, app, worldVars,
                   leftover>>

-----------------------------------------------------------------------------
(* The application's threads. *)

AppStep(c, from, to) ==
    /\ ~crashed /\ GilFree /\ app[c] = from
    /\ app' = [app EXCEPT ![c] = to]

(* A frame came: HsbController.get_next_frame calls SensorFactory.tap,     *)
(* which cancels the watchdog,                                             *)
Tap(c) ==
    /\ c \in Dynamic /\ AppStep(c, "up", "cancelled")
    /\ c \in linked /\ Flowing(c) /\ orphans[c] < MaxOrphans
    /\ Cancel(c)
    /\ UNCHANGED <<deviceVars, sensors, linked, running, reactorVars, worldVars, leftover>>

(* and starts another. *)
TapAdd(c) ==
    /\ AppStep(c, "cancelled", "up")
    /\ Watch(c)
    /\ UNCHANGED <<deviceVars, sensors, linked, running, reactorVars, worldVars, leftover>>

(* SensorFactory.start: register_ip is called. *)
Start(c) ==
    /\ c \in Dynamic /\ AppStep(c, "new", "register")
    /\ UNCHANGED <<deviceVars, factoryVars, reactorVars, worldVars, leftover>>

(* SensorFactory.stop: cancel_alarm, *)
Stop(c) ==
    /\ c \in Dynamic /\ AppStep(c, "up", "stopping")
    /\ Cancel(c)
    /\ UNCHANGED <<deviceVars, sensors, linked, running, reactorVars, worldVars, leftover>>

(* then unregister_ip. *)
Unregister(c) ==
    /\ AppStep(c, "stopping", "unregister")
    /\ UNCHANGED <<deviceVars, factoryVars, reactorVars, worldVars, leftover>>

(* register_ip and unregister_ip have lock_, and return. *)
EnumeratorReturns(c) ==
    /\ ~crashed /\ HasGil(c) /\ ~held
    /\ registered' = IF app[c] = "register" THEN registered \cup {c} ELSE registered \ {c}
    /\ app' = [app EXCEPT ![c] = IF @ = "register" THEN "up" ELSE "stopped"]
    /\ UNCHANGED <<deviceVars, factoryVars, expired, todo, held, crashed, worldVars, leftover>>

-----------------------------------------------------------------------------
(* The device, the network and the time. *)

DeviceUp ==
    /\ ~up /\ ~crashed
    /\ up' = TRUE
    /\ UNCHANGED <<deviceVars, factoryVars, reactorVars, app, configured, queued, faults, failed,
                   leftover>>

(* The device fails, and comes back reset. *)
DeviceFails ==
    /\ up /\ ~crashed /\ faults < MaxFaults
    /\ faults' = faults + 1
    /\ Restart /\ failed' = TRUE
    /\ UNCHANGED <<deviceVars, factoryVars, reactorVars, app, queued, leftover>>

(* 0.2 s after _reset_time. A reactor that is idle has read its socket by  *)
(* then.                                                                   *)
Settle ==
    /\ state = "RESET" /\ ~settled /\ ~crashed
    /\ todo # <<>> \/ queued = {}
    /\ settled' = TRUE
    /\ UNCHANGED <<state, primary, connected, ptpAlarm, factoryVars, reactorVars, app, worldVars, leftover>>

-----------------------------------------------------------------------------
DeviceState(c) ==
    \/ Found(c) \/ FoundFails(c) \/ Run(c) \/ ReceiverFails(c) \/ AssertionError(c)
    \/ NotFound(c) \/ Resetting(c)

Callback ==
    \/ \E c \in Controllers, fresh \in BOOLEAN :
          \/ Enumerated(c, fresh) \/ ResetDevice(c, fresh) \/ Configure(c, fresh)
          \/ AdvanceFails(c, fresh) \/ Ignore(c, fresh)
    \/ \E c \in Controllers : DeviceState(c) \/ WatchdogTimeout(c) \/ ControllerLost(c)
    \/ NoLongerConnected \/ PtpFails \/ Ready \/ PollAgain
    \/ Clear \/ Unlock

ReactorNext ==
    \/ \E c \in Controllers, fresh \in BOOLEAN : TakeBootp(c, fresh)
    \/ \E take \in [Controllers -> 0..MaxOrphans], current \in SUBSET watching, ptp \in BOOLEAN :
          Expire(take, current, ptp)
    \/ Callback

AppNext(c) == TapAdd(c) \/ Unregister(c) \/ EnumeratorReturns(c)

World == DeviceUp \/ DeviceFails \/ Settle

Next ==
    \/ ReactorNext
    \/ \E c \in Controllers : AppNext(c) \/ Tap(c) \/ Start(c) \/ Stop(c)
    \/ World

(* run() serves its socket and its alarms in turn; threads get the GIL and *)
(* lock_ when they are free; a device that is up keeps enumerating; it     *)
(* synchronizes, or check_ptp gives up after 30 s.                         *)
Fairness ==
    /\ WF_vars(Callback) /\ SF_vars(Ready) /\ SF_vars(ExpireAll)
    /\ \A c \in Controllers : SF_vars(TakeBootp(c, TRUE))
    /\ SF_vars(\E c \in Controllers : TakeBootp(c, FALSE))
    /\ \A c \in Dynamic : WF_vars(AppNext(c))
    /\ WF_vars(DeviceUp) /\ WF_vars(Settle)

SafetySpec == Init /\ [][Next]_vars

Spec == SafetySpec /\ Fairness

-----------------------------------------------------------------------------
(* The device is in CONNECTED or RUN only with a sensor for every          *)
(* controller it knows, and that sensor was configured on the device since *)
(* the last reset the host made, whatever was lost and enumerated in       *)
(* between. The exception is a found() that failed inside goto(): lost()   *)
(* runs inside it, and the controllers goto() had not told yet still find. *)
SensorsConfigured ==
    AtRest /\ state \in {"CONNECTED", "RUN"} =>
        \A c \in connected : c \in sensors /\ (failed \/ c \in leftover \/ c \in configured)

(* A controller that runs is watched: outside of tap(), a watchdog alarm   *)
(* of it waits, however tap() on the application's thread and the          *)
(* reactor's callbacks interleave.                                         *)
Watched ==
    AtRest /\ state = "RUN" =>
        \A c \in connected : app[c] = "up" => c \in watching \/ orphans[c] > 0

(* Connected controllers have a configured sensor and a watchdog.          *)
ControllersReady == TypeOK /\ SensorsConfigured /\ Watched

(* Once unregister_ip() has returned the callback is neither running nor   *)
(* called again: fd_callback keeps lock_ for as long as its callbacks run. *)
NoCallbackAfterUnregister ==
    \A i \in DOMAIN todo :
        todo[i].op \in {"enumerated", "advance"} => app[todo[i].c] # "stopped"

\* A thread waits for lock_ with the GIL, the reactor for the GIL with lock_.
GilDeadlock == held /\ ~GilFree

Ended == crashed \/ GilDeadlock

(* A device that is lost is found again: as long as the controller that    *)
(* found it first stays registered, the device comes back to RUN again and *)
(* again, whatever was lost or came late before.                           *)
RunsAgain == []<>(Ended \/ primary \notin registered \/ state = "RUN")

(* A device that restarted behind the host's back is noticed: no           *)
(* controller stays in RUN with a device that is not configured for it.    *)
LossNoticed ==
    \A c \in Controllers :
        (state = "RUN" /\ c \in connected /\ c \notin configured)
            ~> (Ended \/ state # "RUN" \/ app[c] \in {"stopping", "unregister", "stopped"})
=============================================================================
