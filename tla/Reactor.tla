------------------------------ MODULE Reactor ------------------------------
(***************************************************************************)
(* hololink::core::Reactor: one thread that sleeps in poll() until an      *)
(* alarm is due, a file descriptor is ready, or another thread writes to   *)
(* the wakeup pipe, and calls the callbacks. Alarms and descriptors are    *)
(* added and removed by any thread, also by the callbacks.                 *)
(*                                                                         *)
(* Time is a number of ticks; poll() counts in milliseconds of             *)
(* TicksPerMs ticks. A critical section of lock_ is one step, but for the  *)
(* write to the wakeup pipe at its end, which blocks when the pipe is full.*)
(***************************************************************************)
EXTENDS Integers, Sequences, FiniteSets, SequencesExt

CONSTANTS
    Threads,     \* threads that use the reactor
    R,           \* the reactor's own thread
    NoThread,
    Fds,
    TicksPerMs,
    PipeCapacity,  \* 8192 messages of 8 bytes in a Linux pipe
    ReadSize,      \* 128 messages: buffer[1024]
    MaxTime,       \* bound: the clock
    MaxOps         \* bound: operations of all threads

ReactorConstants ==
    /\ R \notin Threads /\ NoThread \notin Threads \cup {R}
    /\ TicksPerMs \in Nat \ {0} /\ PipeCapacity \in Nat \ {0} /\ ReadSize \in Nat \ {0}
    /\ MaxTime \in Nat \ {0} /\ MaxOps \in Nat

ASSUME ReactorAssumption == ReactorConstants

VARIABLES
    now,
    lock_,          \* the thread that holds it, while it writes to the pipe
    alarms_,        \* entries, sorted
    alarms_added_,
    fd_callbacks_,  \* descriptors that have a callback
    pipe,           \* messages in the wakeup pipe
    ready,          \* descriptors with something to read
    running_,
    loop,           \* the reactor's thread in run()
    actor,          \* thread -> the operation it is in
    \* history
    ops,            \* operations so far
    before,         \* sequence number -> entries that waited when it was taken
    fired,          \* entries called
    cancelled,      \* entries cancelled before they were due
    stopping        \* stop() has returned

sharedVars == <<lock_, alarms_, alarms_added_, fd_callbacks_, pipe>>
historyVars == <<ops, before, fired, cancelled, stopping>>
reactorState == <<now, sharedVars, ready, running_, loop, actor, historyVars>>

Actors == Threads \cup {R}

\* Alarms that wait, in alarms_ or already taken from it.
Waiting == ToSet(alarms_) \cup ToSet(loop.expired)
Ids == 0..MaxOps

\* An AlarmEntry: its sequence number, when, and whether it is stop_impl.
Entry == [id : Ids, when : 0..MaxTime, stop : BOOLEAN]

Forever == -1

\* run(): where it is, when poll() wakes up, the descriptors and the alarms it has collected.
Loop == [pc : {"timeout", "fds", "poll", "dispatch", "run", "callback", "done"},
         deadline : {Forever} \cup (0..MaxTime), fds : SUBSET Fds, expired : Seq(Entry)]

IdleActor == [pc |-> "idle", entry |-> [id |-> 0, when |-> 0, stop |-> FALSE]]
NewLoop == [pc |-> "timeout", deadline |-> Forever, fds |-> {}, expired |-> <<>>]

ReactorInit ==
    /\ now = 1
    /\ lock_ = NoThread
    /\ alarms_ = <<>> /\ alarms_added_ = 0
    /\ fd_callbacks_ = {} /\ pipe = 0 /\ ready = {}
    /\ running_ = TRUE
    /\ loop = NewLoop
    /\ actor = [t \in Actors |-> IdleActor]
    /\ ops = 0 /\ before = [i \in Ids |-> {}]
    /\ fired = {} /\ cancelled = {} /\ stopping = FALSE

ReactorTypeOK ==
    /\ now \in 0..MaxTime
    /\ lock_ \in Actors \cup {NoThread}
    /\ alarms_ \in Seq(Entry)
    /\ \A i, j \in DOMAIN alarms_ : i # j => alarms_[i].id # alarms_[j].id
    /\ alarms_added_ \in 0..MaxOps
    /\ fd_callbacks_ \subseteq Fds /\ ready \subseteq Fds
    /\ pipe \in 0..PipeCapacity
    /\ running_ \in BOOLEAN
    /\ loop \in Loop
    /\ actor \in [Actors -> [pc : {"idle", "push", "wake"}, entry : Entry]]

-----------------------------------------------------------------------------
(* Operations, of another thread or of a callback. *)

\* Mutant: entries of the same time are not kept in the order they were added.
Precedes_ByTime(a, b) == a.when < b.when

\* The order of the alarms: time, then sequence.
Precedes(a, b) == a.when < b.when \/ (a.when = b.when /\ a.id < b.id)

\* push_back and std::sort: what the sorted alarms can become.
Sorted(alarms, e) ==
    {InsertAt(alarms, n + 1, e) : n \in
        {n \in 0..Len(alarms) : \A i \in DOMAIN alarms : Precedes(alarms[i], e) <=> i <= n}}

\* A callback runs on the reactor's thread. Nobody uses a reactor that ended.
MayBegin(t) ==
    /\ actor[t].pc = "idle"
    /\ t = R => loop.pc = "callback"
    /\ loop.pc # "done" /\ ops < MaxOps
    /\ ops' = ops + 1

\* Mutant: the sequence number is read but not taken.
AddAlarm_NotTaken(t) ==
    /\ MayBegin(t)
    /\ \E when \in {0} \cup (now + 1)..MaxTime, stop \in BOOLEAN :
          /\ stop => when = 0
          /\ actor' = [actor EXCEPT ![t] = [pc |-> "push",
                          entry |-> [id |-> Len(alarms_), when |-> when, stop |-> stop]]]
    /\ before' = [before EXCEPT ![alarms_added_] = Waiting]
    /\ UNCHANGED <<now, sharedVars, ready, running_, loop, fired, cancelled, stopping>>

(* add_alarm, add_alarm_s, add_callback (when = 0) and stop: the sequence  *)
(* number is taken before lock_.                                           *)
AddAlarm(t) ==
    /\ MayBegin(t)
    /\ \E when \in {0} \cup (now + 1)..MaxTime, stop \in BOOLEAN :
          /\ stop => when = 0
          /\ actor' = [actor EXCEPT ![t] = [pc |-> "push",
                          entry |-> [id |-> alarms_added_, when |-> when, stop |-> stop]]]
    /\ alarms_added_' = alarms_added_ + 1
    /\ before' = [before EXCEPT ![alarms_added_] = Waiting]
    /\ UNCHANGED <<now, lock_, alarms_, fd_callbacks_, pipe, ready, running_, loop, fired,
                   cancelled, stopping>>

(* add_alarm: under lock_. *)
Push(t) ==
    /\ actor[t].pc = "push" /\ lock_ = NoThread
    /\ lock_' = t
    /\ alarms_' \in Sorted(alarms_, actor[t].entry)
    /\ actor' = [actor EXCEPT ![t].pc = "wake"]
    /\ stopping' = (stopping \/ actor[t].entry.stop)
    /\ UNCHANGED <<now, alarms_added_, fd_callbacks_, pipe, ready, running_, loop, ops, before,
                   fired, cancelled>>

\* cancel_alarm(e) has returned; stop_impl has no handle.
Cancelled(e) ==
    /\ ~e.stop
    /\ cancelled' = IF e.when > now THEN cancelled \cup {e} ELSE cancelled

(* cancel_alarm: an entry that is still in alarms_ is removed, *)
CancelAlarm(t) ==
    /\ MayBegin(t) /\ lock_ = NoThread
    /\ \E i \in DOMAIN alarms_ :
          /\ alarms_' = RemoveAt(alarms_, i)
          /\ Cancelled(alarms_[i])
    /\ lock_' = t
    /\ actor' = [actor EXCEPT ![t].pc = "wake"]
    /\ UNCHANGED <<now, alarms_added_, fd_callbacks_, pipe, ready, running_, loop, before, fired,
                   stopping>>

(* one that the loop has already taken is not found, and will be called. *)
CancelLate(t) ==
    /\ MayBegin(t) /\ lock_ = NoThread
    /\ \E e \in ToSet(loop.expired) : Cancelled(e)
    /\ UNCHANGED <<now, sharedVars, ready, running_, loop, actor, before, fired, stopping>>

(* add_fd_callback and remove_fd_callback. *)
ChangeFd(t) ==
    /\ MayBegin(t) /\ lock_ = NoThread
    /\ \E fd \in Fds : fd_callbacks_' \in {fd_callbacks_ \cup {fd}, fd_callbacks_ \ {fd}}
    /\ lock_' = t
    /\ actor' = [actor EXCEPT ![t].pc = "wake"]
    /\ UNCHANGED <<now, alarms_, alarms_added_, pipe, ready, running_, loop, before, fired,
                   cancelled, stopping>>

\* Mutant: nothing is written to the pipe.
Wakeup_Missing(t) ==
    /\ actor[t].pc = "wake"
    /\ lock_' = NoThread
    /\ actor' = [actor EXCEPT ![t] = IdleActor]
    /\ UNCHANGED <<now, alarms_, alarms_added_, fd_callbacks_, pipe, ready, running_, loop,
                   historyVars>>

(* wakeup: the write blocks, under lock_, when the pipe is full. Only the  *)
(* loop empties it, and takes lock_ on its way there.                      *)
Wakeup(t) ==
    /\ actor[t].pc = "wake" /\ pipe < PipeCapacity
    /\ pipe' = pipe + 1
    /\ lock_' = NoThread
    /\ actor' = [actor EXCEPT ![t] = IdleActor]
    /\ UNCHANGED <<now, alarms_, alarms_added_, fd_callbacks_, ready, running_, loop,
                   historyVars>>

Finish(t) == Push(t) \/ Wakeup(t)
Begin(t) == AddAlarm(t) \/ CancelAlarm(t) \/ CancelLate(t) \/ ChangeFd(t)

-----------------------------------------------------------------------------
(* The reactor's thread: run. *)

\* timespec_diff_ms and poll count whole milliseconds, rounded down here. The
\* code truncates the difference of the nanoseconds toward zero, which rounds up
\* when it is negative: the loop then wakes up less than a millisecond late, as
\* it may anyway, for Poll need not be taken when the deadline is reached.
Deadline(when) ==
    IF when <= now THEN now ELSE now + ((when - now) \div TicksPerMs) * TicksPerMs

(* The time of the first alarm decides how long to sleep. *)
Timeout ==
    /\ loop.pc = "timeout" /\ lock_ = NoThread
    /\ loop' = [loop EXCEPT !.pc = "fds",
                   !.deadline = IF alarms_ = <<>> THEN Forever ELSE Deadline(alarms_[1].when)]
    /\ UNCHANGED <<now, sharedVars, ready, running_, actor, historyVars>>

(* The descriptors to wait for. *)
BuildFds ==
    /\ loop.pc = "fds" /\ lock_ = NoThread
    /\ loop' = [loop EXCEPT !.pc = "poll", !.fds = fd_callbacks_]
    /\ UNCHANGED <<now, sharedVars, ready, running_, actor, historyVars>>

(* poll returns: fds becomes the ready ones, and the pipe is read. *)
Poll ==
    /\ loop.pc = "poll"
    /\ \/ pipe > 0
       \/ loop.fds \cap ready # {}
       \/ loop.deadline # Forever /\ loop.deadline <= now
    /\ pipe' = IF pipe > ReadSize THEN pipe - ReadSize ELSE 0
    /\ loop' = [loop EXCEPT !.pc = "dispatch", !.fds = @ \cap ready]
    /\ UNCHANGED <<now, lock_, alarms_, alarms_added_, fd_callbacks_, ready, running_, actor,
                   historyVars>>

(* The callback of a ready descriptor, if it still has one, reads it.      *)
Dispatch ==
    /\ loop.pc = "dispatch" /\ lock_ = NoThread
    /\ \E fd \in loop.fds :
          /\ loop' = [loop EXCEPT !.fds = @ \ {fd}]
          /\ ready' = IF fd \in fd_callbacks_ THEN ready \ {fd} ELSE ready
    /\ UNCHANGED <<now, sharedVars, running_, actor, historyVars>>

\* Mutant: what is due within the millisecond counts as due.
Due_Rounded(e) == e.when < now + TicksPerMs

Due(e) == e.when <= now

(* Alarms that are due are moved to `expired`. *)
TakeExpired ==
    /\ loop.pc = "dispatch" /\ loop.fds = {} /\ lock_ = NoThread
    /\ \E n \in 0..Len(alarms_) :
          /\ \A i \in 1..n : Due(alarms_[i])
          /\ n < Len(alarms_) => ~Due(alarms_[n + 1])
          /\ loop' = [loop EXCEPT !.pc = "run", !.deadline = Forever,
                                  !.expired = SubSeq(alarms_, 1, n)]
          /\ alarms_' = SubSeq(alarms_, n + 1, Len(alarms_))
    /\ UNCHANGED <<now, lock_, alarms_added_, fd_callbacks_, pipe, ready, running_, actor,
                   historyVars>>

(* The first of them is called, without lock_; stop_impl clears running_. *)
Fire ==
    LET e == Head(loop.expired) IN
    /\ loop.pc = "run" /\ loop.expired # <<>>
    /\ loop' = [loop EXCEPT !.pc = "callback", !.expired = Tail(@)]
    /\ fired' = fired \cup {e}
    /\ running_' = (running_ /\ ~e.stop)
    /\ UNCHANGED <<now, sharedVars, ready, actor, ops, before, cancelled, stopping>>

\* Mutant: the callback returns into the loop without looking for the next.
CallbackReturns_DropsRest ==
    /\ loop.pc = "callback" /\ actor[R].pc = "idle"
    /\ loop' = [loop EXCEPT !.pc = "run", !.expired = <<>>]
    /\ UNCHANGED <<now, sharedVars, ready, running_, actor, historyVars>>

CallbackReturns ==
    /\ loop.pc = "callback" /\ actor[R].pc = "idle"
    /\ loop' = [loop EXCEPT !.pc = "run"]
    /\ UNCHANGED <<now, sharedVars, ready, running_, actor, historyVars>>

(* while (running_.load()). *)
Again ==
    /\ loop.pc = "run" /\ loop.expired = <<>>
    /\ loop' = [NewLoop EXCEPT !.pc = IF running_ THEN "timeout" ELSE "done"]
    /\ UNCHANGED <<now, sharedVars, ready, running_, actor, historyVars>>

run == Timeout \/ BuildFds \/ Poll \/ Dispatch \/ TakeExpired \/ Fire \/ CallbackReturns \/ Again

-----------------------------------------------------------------------------
Tick ==
    /\ now < MaxTime
    /\ now' = now + 1
    /\ UNCHANGED <<sharedVars, ready, running_, loop, actor, historyVars>>

Data ==
    /\ \E fd \in Fds \ ready : ready' = ready \cup {fd}
    /\ UNCHANGED <<now, sharedVars, running_, loop, actor, historyVars>>

ReactorNextStep == Tick \/ Data \/ run \/ \E t \in Actors : Begin(t) \/ Finish(t)

ReactorSafety == ReactorInit /\ [][ReactorNextStep]_reactorState

(* Threads that are not blocked run, time passes, callbacks return. *)
ReactorSpec ==
    /\ ReactorSafety
    /\ WF_reactorState(Tick) /\ WF_reactorState(run)
    /\ \A t \in Actors : WF_reactorState(Finish(t))

-----------------------------------------------------------------------------
(* Properties. *)

\* test_reactor_multiple_alarms, "multiple alarms firing in correct order":
\* an alarm is not called while one that is due no later and was there before
\* it still waits, whichever threads added them and however their calls
\* overlap with the loop.
InOrder ==
    \A f \in fired : \A e \in before[f.id] \cap Waiting : e.when > f.when

\* test_reactor_cancel_alarm: an alarm whose cancel_alarm returns before the
\* alarm is due is not called, by a loop that is about to collect the alarms
\* neither.
CancelledInTime == cancelled \cap fired = {}

\* Alarms are called in order, and not after they were cancelled in time.
AlarmsCorrect == ReactorTypeOK /\ InOrder /\ CancelledInTime

\* A thread is in wakeup(), which it calls with lock_ held, and the pipe is
\* full; the loop, which alone could empty it, is not in poll() and needs lock_
\* before it gets there again, or is that thread, in a callback. The reactor
\* hangs if it stays so.
Jammed == pipe = PipeCapacity /\ lock_ # NoThread /\ loop.pc # "poll"

\* Nothing is lost between the moment the loop decides how long to sleep and
\* poll(): every alarm is called or cancelled, unless the reactor stops.
AlarmsFire ==
    \A i \in Ids :
        (\E e \in Waiting : e.id = i) ~> (~running_ \/ ~\E e \in Waiting : e.id = i)

\* A descriptor that is ready is read, also one that is added while the loop
\* sleeps, unless its callback is removed or the reactor stops.
FdsServed ==
    \A fd \in Fds :
        (fd \in fd_callbacks_ /\ fd \in ready) ~>
            (~running_ \/ fd \notin fd_callbacks_ \/ fd \notin ready)

\* The loop forgets neither an alarm nor a descriptor, unless the reactor hangs
\* on a full pipe, for ever.
NothingForgotten == []<>~Jammed => AlarmsFire /\ FdsServed

\* The thread ends after stop(), called from any thread or from a callback,
\* unless the reactor hangs on a full pipe.
StopEnds == []<>~Jammed => (stopping ~> loop.pc = "done")
=============================================================================
