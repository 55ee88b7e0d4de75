----------------------------- MODULE ControlPlane -----------------------------
(***************************************************************************)
(* Hololink's control plane: write_uint32 and read_uint32 of the host,     *)
(* retried over a network that loses and delays packets, and the HSB       *)
(* device's ECB handler (control_listen of the emulator).                  *)
(*                                                                         *)
(* The threads of a program share its Hololink object: execute_mutex_,     *)
(* sequence_ and the control socket. A call writes or reads the registers  *)
(* 1..Words; a written value is the number of the call that writes it.     *)
(* Each direction of the network is a lossy queue; time is abstracted to   *)
(* "receive_control timed out", which may happen at any moment.            *)
(***************************************************************************)
EXTENDS Integers, Sequences

CONSTANTS
    Threads,
    None,
    Words,         \* registers written or read by a multi-word call
    SeqMod,        \* 2^16 in the code
    MaxTries,      \* bound: sends per request (timeout_s / retry_s)
    MaxCalls       \* bound: calls of all threads

ASSUME ControlAssumption ==
    /\ None \notin Threads
    /\ Words \in Nat \ {0} /\ SeqMod \in Nat \ {0}
    /\ MaxTries \in Nat \ {0} /\ MaxCalls \in Nat

VARIABLES
    \* the host
    sequence_,      \* the next sequence number
    execute_mutex_, \* the thread that holds it
    block_enable_,  \* multi-word calls are sent as one request
    started,        \* configure_hsb has read the version register
    call,           \* thread -> the call in progress, or the last one
    \* the network
    requests,       \* requests on their way, oldest first
    replies,        \* replies on their way or in the socket
    \* the device
    next_sequence,
    reg,            \* register -> the call that wrote it
    \* history
    calls,          \* number of calls so far
    executed,       \* <<call, word>> of every write the device executed
    held,           \* thread -> word -> values the register had during the call
    gave_up         \* a call of this session timed out

hostVars == <<sequence_, execute_mutex_, started, call>>
netVars == <<requests, replies>>
deviceVars == <<next_sequence, reg>>
vars == <<hostVars, block_enable_, netVars, deviceVars, calls, executed, held, gave_up>>

SeqNums == 0..(SeqMod - 1)
Registers == 1..Words

\* get_hsb_ip_version at session start, read_uint32 of one register, of
\* several, write_uint32 of WriteData.
Kinds == {"start", "read1", "read", "write"}

\* SUCCESS, a TransactionError, a TimeoutError or false.
Codes == {"none", "ok", "fault", "timeout"}

Call == [pc : {"idle", "send", "wait"}, kind : Kinds, retry : BOOLEAN, check : BOOLEAN,
         words : SUBSET Registers, sequence : SeqNums, tries : 0..MaxTries, id : 0..MaxCalls,
         values : [Registers -> 0..MaxCalls], code : Codes]
Request == [sequence : SeqNums, check : BOOLEAN, write : BOOLEAN, words : SUBSET Registers,
            id : 0..MaxCalls]
Reply == [sequence : SeqNums, ok : BOOLEAN, words : SUBSET Registers,
          values : [Registers -> 0..MaxCalls]]

TypeOK ==
    /\ sequence_ \in SeqNums
    /\ execute_mutex_ \in Threads \cup {None}
    /\ started \in BOOLEAN /\ block_enable_ \in BOOLEAN
    /\ call \in [Threads -> Call]
    /\ requests \in Seq(Request) /\ replies \in Seq(Reply)
    /\ next_sequence \in SeqNums /\ reg \in [Registers -> 0..MaxCalls]
    /\ calls \in 0..MaxCalls
    /\ executed \in SUBSET ((1..MaxCalls) \X Registers)
    /\ held \in [Threads -> [Registers -> SUBSET (0..MaxCalls)]]
    /\ gave_up \in BOOLEAN

\* 0x100 in the code.
FirstSequence == 0

NoCall == [pc |-> "idle", kind |-> "start", retry |-> TRUE, check |-> FALSE, words |-> {},
           sequence |-> 0, tries |-> 0, id |-> 0, values |-> [r \in Registers |-> 0],
           code |-> "none"]

(* The device may have been in use before; block_enable_ is a parameter of *)
(* the Hololink object.                                                    *)
Init ==
    /\ sequence_ = FirstSequence
    /\ execute_mutex_ = None
    /\ started = FALSE /\ block_enable_ \in BOOLEAN
    /\ call = [t \in Threads |-> NoCall]
    /\ requests = <<>> /\ replies = <<>>
    /\ next_sequence \in SeqNums
    /\ reg = [r \in Registers |-> 0]
    /\ calls = 0 /\ executed = {}
    /\ held = [t \in Threads |-> [r \in Registers |-> {}]]
    /\ gave_up = FALSE

-----------------------------------------------------------------------------
(* The host. *)

Block(kind) == block_enable_ /\ kind \in {"read", "write"}

\* The registers one request of a call covers when those in todo are left.
Batch(kind, todo) ==
    IF Block(kind) THEN todo ELSE {CHOOSE r \in todo : \A q \in todo : r <= q}

\* Mutant: the sequence number does not wrap.
NextSequence_NoWrap == sequence_' = sequence_ + 1

NextSequence == sequence_' = (sequence_ + 1) % SeqMod

\* Mutant: execute_mutex_ is not taken.
Begin_NoMutex(t, kind, retry, check) ==
    /\ call[t].pc = "idle"
    /\ calls < MaxCalls
    /\ calls' = calls + 1
    /\ execute_mutex_' = t
    /\ NextSequence
    /\ call' = [call EXCEPT ![t] =
          [pc |-> "send", kind |-> kind, retry |-> retry, check |-> check,
           words |-> IF kind \in {"start", "read1"} THEN {1} ELSE Registers,
           sequence |-> sequence_, tries |-> 0, id |-> calls',
           values |-> [r \in Registers |-> 0], code |-> "none"]]
    /\ held' = [held EXCEPT ![t] = [r \in Registers |-> {reg[r]}]]
    /\ UNCHANGED <<started, netVars, deviceVars, executed>>

\* Take execute_mutex_ and the first sequence number. words is what is still
\* to be transferred.
Begin(t, kind, retry, check) ==
    /\ call[t].pc = "idle" /\ execute_mutex_ = None
    /\ calls < MaxCalls
    /\ calls' = calls + 1
    /\ execute_mutex_' = t
    /\ NextSequence
    /\ call' = [call EXCEPT ![t] =
          [pc |-> "send", kind |-> kind, retry |-> retry, check |-> check,
           words |-> IF kind \in {"start", "read1"} THEN {1} ELSE Registers,
           sequence |-> sequence_, tries |-> 0, id |-> calls',
           values |-> [r \in Registers |-> 0], code |-> "none"]]
    /\ held' = [held EXCEPT ![t] = [r \in Registers |-> {reg[r]}]]
    /\ UNCHANGED <<started, netVars, deviceVars, executed>>

(* configure_hsb: the version is read without a sequence check. *)
Start(t) ==
    /\ ~started
    /\ Begin(t, "start", TRUE, FALSE)
    /\ gave_up' = FALSE

Write(t) ==
    /\ started
    /\ \E retry \in BOOLEAN : Begin(t, "write", retry, TRUE)
    /\ UNCHANGED gave_up

Read(t) ==
    /\ started
    /\ \E kind \in {"read1", "read"} : Begin(t, kind, TRUE, TRUE)
    /\ UNCHANGED gave_up

\* The request a call sends next.
Packet(c) == [sequence |-> c.sequence, check |-> c.check, write |-> c.kind = "write",
              words |-> Batch(c.kind, c.words), id |-> c.id]

(* execute: send_control. *)
Send(t) ==
    LET c == call[t] IN
    /\ c.pc = "send"
    /\ requests' = Append(requests, Packet(c))
    /\ call' = [call EXCEPT ![t].pc = "wait", ![t].tries = @ + 1]
    /\ UNCHANGED <<sequence_, execute_mutex_, started, replies, deviceVars, calls, executed,
                   held, gave_up>>

\* Return from the call and release execute_mutex_.
Return(t, c) ==
    /\ call' = [call EXCEPT ![t] = c]
    /\ execute_mutex_' = None

\* receive_control: the oldest reply in the socket is read.
ReceiveControl(t) ==
    /\ call[t].pc = "wait" /\ replies # <<>>
    /\ replies' = Tail(replies)

\* Mutant: any reply is accepted.
Matches_Any(t, m) == TRUE

\* The reply is to the request in hand: only the sequence number is compared.
Matches(t, m) == m.sequence = call[t].sequence

(* execute: a reply with another sequence number is dropped. *)
ReceiveStale(t) ==
    /\ ReceiveControl(t)
    /\ ~Matches(t, Head(replies))
    /\ UNCHANGED <<hostVars, requests, deviceVars, calls, executed, held, gave_up>>

(* RESPONSE_SUCCESS: the next word with a sequence number of its own, or   *)
(* the end of the call.                                                    *)
ReceiveOk(t) ==
    LET c == call[t]
        m == Head(replies)
        todo == c.words \ m.words
        values == [r \in Registers |-> IF r \in m.words THEN m.values[r] ELSE c.values[r]]
    IN
    /\ ReceiveControl(t)
    /\ Matches(t, m) /\ m.ok
    /\ \/ /\ todo # {}
          /\ NextSequence
          /\ call' = [call EXCEPT ![t] = [c EXCEPT !.pc = "send", !.words = todo,
                         !.sequence = sequence_, !.tries = 0, !.values = values]]
          /\ UNCHANGED <<execute_mutex_, started>>
       \/ /\ todo = {}
          /\ Return(t, [c EXCEPT !.pc = "idle", !.words = {}, !.values = values, !.code = "ok"])
          /\ started' = TRUE
          /\ UNCHANGED sequence_
    /\ UNCHANGED <<requests, deviceVars, calls, executed, held, gave_up>>

(* bad_write_response, bad_read_response: TransactionError. *)
ReceiveFault(t) ==
    /\ ReceiveControl(t)
    /\ Matches(t, Head(replies)) /\ ~Head(replies).ok
    /\ Return(t, [call[t] EXCEPT !.pc = "idle", !.code = "fault"])
    /\ UNCHANGED <<sequence_, started, requests, deviceVars, calls, executed, held, gave_up>>

\* Mutant: a retry is checked like the first attempt.
RetryCheck_Keeps(c) == c.check

\* A retried request carries the same sequence number and is not checked;
\* read_uint32_block_ sends its first packet again.
RetryCheck(c) == c.check /\ c.kind = "read" /\ block_enable_

\* Timeout::retry allows another attempt; its clock is counted in attempts.
TimeoutRetry(c) == c.tries < MaxTries

(* receive_control timed out, and a retry was asked for and is allowed. *)
Retry(t) ==
    LET c == call[t] IN
    /\ c.pc = "wait" /\ c.retry
    /\ TimeoutRetry(c)
    /\ call' = [call EXCEPT ![t].pc = "send", ![t].check = RetryCheck(c)]
    /\ UNCHANGED <<sequence_, execute_mutex_, started, netVars, deviceVars, calls, executed,
                   held, gave_up>>

\* Mutant: no error once the retries are used up.
GiveUp_NotAfterRetries(t) ==
    /\ call[t].pc = "wait" /\ ~call[t].retry
    /\ Return(t, [call[t] EXCEPT !.pc = "idle", !.code = "timeout"])
    /\ gave_up' = TRUE
    /\ UNCHANGED <<sequence_, started, netVars, deviceVars, calls, executed, held>>

(* It timed out and there is no time left, or no retry was asked for. *)
GiveUp(t) ==
    /\ call[t].pc = "wait"
    /\ Return(t, [call[t] EXCEPT !.pc = "idle", !.code = "timeout"])
    /\ gave_up' = TRUE
    /\ UNCHANGED <<sequence_, started, netVars, deviceVars, calls, executed, held>>

-----------------------------------------------------------------------------
(* The network. *)

LoseRequest ==
    /\ requests # <<>>
    /\ requests' = Tail(requests)
    /\ UNCHANGED <<hostVars, replies, deviceVars, calls, executed, held, gave_up>>

LoseReply ==
    /\ replies # <<>>
    /\ replies' = Tail(replies)
    /\ UNCHANGED <<hostVars, requests, deviceVars, calls, executed, held, gave_up>>

-----------------------------------------------------------------------------
(* The device: control_listen. *)

\* handle_reply_message.
SendReply(m, ok) ==
    /\ requests' = Tail(requests)
    /\ replies' = Append(replies,
          [sequence |-> m.sequence, ok |-> ok, words |-> m.words, values |-> reg'])

(* A checked request with an unexpected sequence number is refused. *)
DeviceRefuse ==
    LET m == Head(requests) IN
    /\ requests # <<>>
    /\ m.check /\ m.sequence # next_sequence
    /\ UNCHANGED deviceVars
    /\ SendReply(m, FALSE)
    /\ UNCHANGED <<hostVars, calls, executed, held, gave_up>>

\* handle_write_message and handle_read_message: the registers afterwards.
Stored(m) == [r \in Registers |-> IF m.write /\ r \in m.words THEN m.id ELSE reg[r]]

\* Mutant: next_sequence is counted instead of following the request.
DeviceExecute_Counts ==
    LET m == Head(requests) IN
    /\ requests # <<>>
    /\ m.check => m.sequence = next_sequence
    /\ next_sequence' = (next_sequence + 1) % SeqMod
    /\ reg' = Stored(m)
    /\ SendReply(m, TRUE)
    /\ executed' = executed \cup (IF m.write THEN {m.id} \X m.words ELSE {})
    /\ held' = [t \in Threads |-> [r \in Registers |-> held[t][r] \cup {reg'[r]}]]
    /\ UNCHANGED <<hostVars, calls, gave_up>>

(* Everything else is executed; next_sequence follows the request. *)
DeviceExecute ==
    LET m == Head(requests) IN
    /\ requests # <<>>
    /\ m.check => m.sequence = next_sequence
    /\ next_sequence' = (m.sequence + 1) % SeqMod
    /\ reg' = Stored(m)
    /\ SendReply(m, TRUE)
    /\ executed' = executed \cup (IF m.write THEN {m.id} \X m.words ELSE {})
    /\ held' = [t \in Threads |-> [r \in Registers |-> held[t][r] \cup {reg'[r]}]]
    /\ UNCHANGED <<hostVars, calls, gave_up>>

-----------------------------------------------------------------------------
Device == DeviceRefuse \/ DeviceExecute
Network == LoseRequest \/ LoseReply
Proceed(t) ==
    /\ Send(t) \/ ReceiveStale(t) \/ ReceiveOk(t) \/ ReceiveFault(t) \/ Retry(t) \/ GiveUp(t)
    /\ UNCHANGED block_enable_
Host(t) == Start(t) \/ Write(t) \/ Read(t) \/ Proceed(t)

Next ==
    /\ Device \/ Network \/ \E t \in Threads : Host(t)
    /\ UNCHANGED block_enable_

(* select() returns when the deadline passes, so a call always proceeds. *)
SafetySpec == Init /\ [][Next]_vars
Spec == SafetySpec /\ \A t \in Threads : WF_vars(Proceed(t))

-----------------------------------------------------------------------------
(* Properties. *)

\* No call of the session was given up.
Clean == started /\ ~gave_up

\* A write_uint32 that returns true has been executed by the device, every
\* word of it: the reply that ends a call is a reply to that call, whatever
\* replies to earlier calls and earlier attempts are still in the socket.
AckedMeansExecuted ==
    \A t \in Threads :
        call[t].kind = "write" /\ call[t].code = "ok" => {call[t].id} \X Registers \subseteq executed

\* What read_uint32 returns was in the register at some moment of the call,
\* however often the call was retried.
FreshRead ==
    \A t \in Threads :
        call[t].code = "ok" /\ call[t].kind \in {"read", "read1"} =>
            \A r \in (IF call[t].kind = "read" THEN Registers ELSE {1}) :
                call[t].values[r] \in held[t][r]

\* The threads of one program see each other's multi-word writes whole, also
\* when they are sent word by word: execute_mutex_ covers all the words.
WholeReads ==
    \A t \in Threads :
        call[t].code = "ok" /\ call[t].kind = "read" /\ Clean =>
            \A r, q \in Registers : call[t].values[r] = call[t].values[q]

\* What a call that succeeds reports is true.
CallsCorrect == TypeOK /\ AckedMeansExecuted /\ FreshRead /\ WholeReads

\* Between calls, with nothing on its way to the device, the program's
\* sequence number is the one the device expects, after any number of lost
\* and repeated requests.
SequenceAgreement ==
    Clean /\ execute_mutex_ = None /\ requests = <<>> => next_sequence = sequence_

\* test_hololink_acks.py, "Show that we can retry a lost read reply": a lost
\* packet alone never turns into a sequence-check fault, except in a block
\* read that was repeated: read_uint32_block_ sends its checked packet again
\* although the device may have executed it.
NoSpuriousFault ==
    \A t \in Threads :
        call[t].code = "fault" /\ Clean =>
            call[t].kind = "read" /\ block_enable_ /\ call[t].tries > 1

\* Host and device stay in step through every loss and every retry.
InStep == SequenceAgreement /\ NoSpuriousFault

\* Every call returns, whatever is lost.
CallReturns == \A t \in Threads : (call[t].pc # "idle") ~> (call[t].pc = "idle")
=============================================================================
