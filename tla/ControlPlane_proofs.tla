------------------------- MODULE ControlPlane_proofs -------------------------
(***************************************************************************)
(* Proofs about ControlPlane. A reply is matched to a request by its       *)
(* 16-bit sequence number alone, so what a call reports can only be true   *)
(* while no packet is still on its way when its number is given out again, *)
(* 65536 requests later (NotReused). Under that assumption about the       *)
(* network, and for any number of threads, words, calls and retries, a     *)
(* call that succeeds reports the truth and host and device stay in step.  *)
(* A session of fewer requests than there are numbers satisfies the        *)
(* assumption by itself (FirstLapIsSafe).                                  *)
(***************************************************************************)
EXTENDS ControlPlane, FiniteSets, FiniteSetTheorems, TLAPS, WellFoundedInduction

\* No packet on its way carries the number the next request will get.
NotReused ==
    /\ \A i \in 1..Len(requests) : requests[i].sequence # sequence_
    /\ \A i \in 1..Len(replies) : replies[i].sequence # sequence_

-----------------------------------------------------------------------------
(* Queues. *)

Popped(s, t) == Len(t) = Len(s) - 1 /\ \A i \in 1..Len(t) : t[i] = s[i + 1]
Pushed(s, t, e) ==
    /\ Len(t) = Len(s) + 1
    /\ \A i \in 1..Len(s) : t[i] = s[i]
    /\ t[Len(s) + 1] = e

\* The tail of a sequence.
LEMMA TailFacts ==
    ASSUME NEW S, NEW s \in Seq(S), s # <<>>
    PROVE  /\ Tail(s) \in Seq(S) /\ Popped(s, Tail(s)) /\ Head(s) = s[1] /\ Head(s) \in S
           /\ 1 \in 1..Len(s) /\ \A i \in 1..Len(Tail(s)) : i + 1 \in 1..Len(s) /\ 1 < i + 1
<1>1. Len(s) \in Nat \ {0}
  OBVIOUS
<1>2. Tail(s) \in Seq(S) /\ Len(Tail(s)) = Len(s) - 1
  BY <1>1
<1>3. \A i \in 1..Len(Tail(s)) : Tail(s)[i] = s[i + 1]
  BY <1>1, <1>2
<1>4. Head(s) = s[1] /\ Head(s) \in S /\ 1 \in 1..Len(s)
  BY <1>1
<1>5. \A i \in 1..Len(Tail(s)) : i + 1 \in 1..Len(s) /\ 1 < i + 1
  BY <1>1, <1>2
<1>6. QED
  BY <1>2, <1>3, <1>4, <1>5 DEF Popped

\* A sequence with an element added.
LEMMA AppendFacts ==
    ASSUME NEW S, NEW s \in Seq(S), NEW e \in S
    PROVE  /\ Append(s, e) \in Seq(S) /\ Pushed(s, Append(s, e), e)
           /\ \A i \in 1..Len(Append(s, e)) : i \in 1..Len(s) \/ i = Len(s) + 1
           /\ \A i \in 1..Len(s) : i # Len(s) + 1
<1>1. Len(s) \in Nat
  OBVIOUS
<1>2. Append(s, e) \in Seq(S) /\ Len(Append(s, e)) = Len(s) + 1
  OBVIOUS
<1>3. (\A i \in 1..Len(s) : Append(s, e)[i] = s[i]) /\ Append(s, e)[Len(s) + 1] = e
  BY <1>1
<1>4. \A i \in 1..Len(Append(s, e)) : i \in 1..Len(s) \/ i = Len(s) + 1
  BY <1>1, <1>2
<1>5. \A i \in 1..Len(s) : i # Len(s) + 1
  BY <1>1
<1>6. QED
  BY <1>2, <1>3, <1>4, <1>5 DEF Pushed

\* A set of registers that is not empty has a smallest one.
LEMMA SmallestRegister ==
    ASSUME NEW todo \in SUBSET Registers, todo # {}
    PROVE  (CHOOSE r \in todo : \A q \in todo : r <= q) \in todo
<1> DEFINE Less == OpToRel(<, Nat)
<1>1. todo \subseteq Nat
  BY ControlAssumption DEF Registers
<1>2. IsWellFoundedOn(Less, Nat)
  BY NatLessThanWellFounded, Zenon
<1>3. PICK x \in todo : \A y \in todo : ~(<<y, x>> \in Less)
  <2> HIDE DEF Less
  <2>1. QED
    BY <1>1, <1>2, WFMin, Zenon
<1>4. \A y \in todo : <<y, x>> \in Less <=> y < x
  BY <1>1 DEF OpToRel
<1>5. \A y \in todo : ~(y < x)
  BY <1>3, <1>4, Zenon
<1>6. \A q \in todo : x <= q
  BY <1>1, <1>5
<1>7. QED
  BY <1>6

\* A request covers registers that are left.
LEMMA BatchFacts ==
    ASSUME NEW kind, NEW todo \in SUBSET Registers, todo # {}
    PROVE  Batch(kind, todo) \subseteq todo
<1>1. CASE Block(kind)
  BY <1>1, Zenon DEF Batch
<1>2. CASE ~Block(kind)
  BY <1>2, SmallestRegister, Zenon DEF Batch
<1>3. QED
  BY <1>1, <1>2, Zenon

-----------------------------------------------------------------------------
(* What the steps do to the calls. *)

Busy(t) == call[t].pc # "idle"

\* A call in progress has registers left to transfer and an attempt left.
CallInv ==
    /\ \A t \in Threads : /\ call[t].pc = "send" => call[t].tries < MaxTries
                          /\ Busy(t) => call[t].id # 0 /\ call[t].words # {}
    /\ \A i \in 1..Len(requests) : requests[i].id # 0

\* The call of one thread becomes c, the others stay.
Becomes(t, c) ==
    /\ call' \in [Threads -> Call] /\ call'[t] = c
    /\ \A u \in Threads : u # t => call'[u] = call[u]

Begun(kind, retry, check) ==
    [pc |-> "send", kind |-> kind, retry |-> retry, check |-> check,
     words |-> IF kind \in {"start", "read1"} THEN {1} ELSE Registers,
     sequence |-> sequence_, tries |-> 0, id |-> calls + 1,
     values |-> [r \in Registers |-> 0], code |-> "none"]
Merged(c, m) == [r \in Registers |-> IF r \in m.words THEN m.values[r] ELSE c.values[r]]
Sent(c) == [c EXCEPT !.pc = "wait", !.tries = @ + 1]
More(c, m) == [c EXCEPT !.pc = "send", !.words = c.words \ m.words, !.sequence = sequence_,
                        !.tries = 0, !.values = Merged(c, m)]
Last(c, m) == [c EXCEPT !.pc = "idle", !.words = {}, !.values = Merged(c, m), !.code = "ok"]
Faulted(c) == [c EXCEPT !.pc = "idle", !.code = "fault"]
Retried(c) == [c EXCEPT !.pc = "send", !.check = RetryCheck(c)]
TimedOut(c) == [c EXCEPT !.pc = "idle", !.code = "timeout"]

\* The parts of a call.
LEMMA CallTypes ==
    ASSUME NEW c \in Call
    PROVE  /\ c.pc \in {"idle", "send", "wait"} /\ c.kind \in Kinds /\ c.retry \in BOOLEAN
           /\ c.check \in BOOLEAN /\ c.words \in SUBSET Registers /\ c.sequence \in SeqNums
           /\ c.tries \in 0..MaxTries /\ c.id \in 0..MaxCalls
           /\ c.values \in [Registers -> 0..MaxCalls] /\ c.code \in Codes
  BY DEF Call

\* The state's parts.
LEMMA StateTypes ==
    ASSUME TypeOK
    PROVE  /\ sequence_ \in SeqNums /\ next_sequence \in SeqNums
           /\ \A t \in Threads : call[t] \in Call
           /\ requests \in Seq(Request) /\ replies \in Seq(Reply)
           /\ \A i \in 1..Len(requests) : requests[i] \in Request
           /\ \A i \in 1..Len(replies) : replies[i] \in Reply
           /\ reg \in [Registers -> 0..MaxCalls] /\ calls \in 0..MaxCalls
           /\ block_enable_ \in BOOLEAN /\ started \in BOOLEAN /\ gave_up \in BOOLEAN
<1>1. /\ sequence_ \in SeqNums /\ next_sequence \in SeqNums /\ call \in [Threads -> Call]
      /\ requests \in Seq(Request) /\ replies \in Seq(Reply)
      /\ reg \in [Registers -> 0..MaxCalls] /\ calls \in 0..MaxCalls
      /\ block_enable_ \in BOOLEAN /\ started \in BOOLEAN /\ gave_up \in BOOLEAN
  BY Zenon DEF TypeOK
<1>2. \A t \in Threads : call[t] \in Call
  BY <1>1, Zenon
<1>3. \A i \in 1..Len(requests) : requests[i] \in Request
  BY <1>1
<1>4. \A i \in 1..Len(replies) : replies[i] \in Reply
  BY <1>1
<1>5. QED
  BY <1>1, <1>2, <1>3, <1>4, Zenon

\* Replacing the call of one thread.
LEMMA BecomesFacts ==
    ASSUME TypeOK, NEW t \in Threads, NEW c \in Call, call' = [call EXCEPT ![t] = c]
    PROVE  Becomes(t, c)
<1>1. call \in [Threads -> Call]
  BY Zenon DEF TypeOK
<1>2. QED
  BY <1>1 DEF Becomes

\* The fields of what a call becomes.
LEMMA CallForms ==
    ASSUME NEW c \in Call
    PROVE  /\ /\ Sent(c).pc = "wait" /\ Sent(c).tries = c.tries + 1
              /\ Sent(c).kind = c.kind /\ Sent(c).words = c.words /\ Sent(c).id = c.id
              /\ Sent(c).sequence = c.sequence /\ Sent(c).values = c.values
              /\ Sent(c).code = c.code /\ Sent(c).check = c.check
           /\ /\ Faulted(c).pc = "idle" /\ Faulted(c).tries = c.tries
              /\ Faulted(c).kind = c.kind /\ Faulted(c).words = c.words /\ Faulted(c).id = c.id
              /\ Faulted(c).sequence = c.sequence /\ Faulted(c).values = c.values
              /\ Faulted(c).code = "fault" /\ Faulted(c).check = c.check
           /\ /\ TimedOut(c).pc = "idle" /\ TimedOut(c).tries = c.tries
              /\ TimedOut(c).kind = c.kind /\ TimedOut(c).words = c.words /\ TimedOut(c).id = c.id
              /\ TimedOut(c).sequence = c.sequence /\ TimedOut(c).values = c.values
              /\ TimedOut(c).code = "timeout" /\ TimedOut(c).check = c.check
           /\ /\ Retried(c).pc = "send" /\ Retried(c).tries = c.tries
              /\ Retried(c).kind = c.kind /\ Retried(c).words = c.words /\ Retried(c).id = c.id
              /\ Retried(c).sequence = c.sequence /\ Retried(c).values = c.values
              /\ Retried(c).code = c.code /\ Retried(c).check = RetryCheck(c)
<1>1. /\ Sent(c).pc = "wait" /\ Sent(c).tries = c.tries + 1
      /\ Sent(c).kind = c.kind /\ Sent(c).words = c.words /\ Sent(c).id = c.id
      /\ Sent(c).sequence = c.sequence /\ Sent(c).values = c.values
      /\ Sent(c).code = c.code /\ Sent(c).check = c.check
  BY DEF Sent, Call
<1>2. /\ Faulted(c).pc = "idle" /\ Faulted(c).tries = c.tries
      /\ Faulted(c).kind = c.kind /\ Faulted(c).words = c.words /\ Faulted(c).id = c.id
      /\ Faulted(c).sequence = c.sequence /\ Faulted(c).values = c.values
      /\ Faulted(c).code = "fault" /\ Faulted(c).check = c.check
  BY DEF Faulted, Call
<1>3. /\ TimedOut(c).pc = "idle" /\ TimedOut(c).tries = c.tries
      /\ TimedOut(c).kind = c.kind /\ TimedOut(c).words = c.words /\ TimedOut(c).id = c.id
      /\ TimedOut(c).sequence = c.sequence /\ TimedOut(c).values = c.values
      /\ TimedOut(c).code = "timeout" /\ TimedOut(c).check = c.check
  BY DEF TimedOut, Call
<1>4. /\ Retried(c).pc = "send" /\ Retried(c).tries = c.tries
      /\ Retried(c).kind = c.kind /\ Retried(c).words = c.words /\ Retried(c).id = c.id
      /\ Retried(c).sequence = c.sequence /\ Retried(c).values = c.values
      /\ Retried(c).code = c.code /\ Retried(c).check = RetryCheck(c)
  BY DEF Retried, Call
<1>5. QED
  BY <1>1, <1>2, <1>3, <1>4, Zenon

\* The same for the end of a request.
LEMMA ReplyForms ==
    ASSUME NEW c \in Call, NEW m \in Reply
    PROVE  /\ /\ More(c, m).pc = "send" /\ More(c, m).tries = 0 /\ More(c, m).kind = c.kind
              /\ More(c, m).words = c.words \ m.words /\ More(c, m).id = c.id
              /\ More(c, m).sequence = sequence_ /\ More(c, m).values = Merged(c, m)
              /\ More(c, m).code = c.code /\ More(c, m).check = c.check
           /\ /\ Last(c, m).pc = "idle" /\ Last(c, m).tries = c.tries /\ Last(c, m).kind = c.kind
              /\ Last(c, m).words = {} /\ Last(c, m).id = c.id
              /\ Last(c, m).sequence = c.sequence /\ Last(c, m).values = Merged(c, m)
              /\ Last(c, m).code = "ok" /\ Last(c, m).check = c.check
<1>1. /\ More(c, m).pc = "send" /\ More(c, m).tries = 0 /\ More(c, m).kind = c.kind
      /\ More(c, m).words = c.words \ m.words /\ More(c, m).id = c.id
      /\ More(c, m).sequence = sequence_ /\ More(c, m).values = Merged(c, m)
      /\ More(c, m).code = c.code /\ More(c, m).check = c.check
  BY DEF More, Call
<1>2. /\ Last(c, m).pc = "idle" /\ Last(c, m).tries = c.tries /\ Last(c, m).kind = c.kind
      /\ Last(c, m).words = {} /\ Last(c, m).id = c.id
      /\ Last(c, m).sequence = c.sequence /\ Last(c, m).values = Merged(c, m)
      /\ Last(c, m).code = "ok" /\ Last(c, m).check = c.check
  BY DEF Last, Call
<1>3. QED
  BY <1>1, <1>2, Zenon

\* They are calls.
LEMMA FormTypes ==
    ASSUME TypeOK, NEW c \in Call
    PROVE  /\ c.tries < MaxTries => Sent(c) \in Call
           /\ Faulted(c) \in Call /\ TimedOut(c) \in Call /\ Retried(c) \in Call
           /\ \A m \in Reply : /\ More(c, m) \in Call /\ Last(c, m) \in Call
                               /\ Merged(c, m) \in [Registers -> 0..MaxCalls]
<1>1. /\ c.pc \in {"idle", "send", "wait"} /\ c.kind \in Kinds /\ c.retry \in BOOLEAN
      /\ c.check \in BOOLEAN /\ c.words \in SUBSET Registers /\ c.sequence \in SeqNums
      /\ c.tries \in 0..MaxTries /\ c.id \in 0..MaxCalls
      /\ c.values \in [Registers -> 0..MaxCalls] /\ c.code \in Codes
  BY CallTypes
<1>2. c.tries < MaxTries => Sent(c) \in Call
  <2>1. c.tries < MaxTries => c.tries + 1 \in 0..MaxTries
    BY <1>1, ControlAssumption
  <2>2. QED
    BY <2>1 DEF Sent, Call
<1>3. Faulted(c) \in Call /\ TimedOut(c) \in Call
  BY DEF Faulted, TimedOut, Call, Codes
<1>4. Retried(c) \in Call
  <2>1. RetryCheck(c) \in BOOLEAN
    BY Zenon DEF RetryCheck
  <2>2. QED
    BY <2>1 DEF Retried, Call
<1>5. ASSUME NEW m \in Reply
      PROVE  More(c, m) \in Call /\ Last(c, m) \in Call /\ Merged(c, m) \in [Registers -> 0..MaxCalls]
  <2>1. m.values \in [Registers -> 0..MaxCalls]
    BY DEF Reply
  <2>2. Merged(c, m) \in [Registers -> 0..MaxCalls]
    BY <1>1, <2>1 DEF Merged
  <2>3. c.words \ m.words \in SUBSET Registers /\ {} \in SUBSET Registers
    BY <1>1, Zenon
  <2>4. sequence_ \in SeqNums
    BY StateTypes, Zenon
  <2>5. 0 \in 0..MaxTries
    BY ControlAssumption
  <2>6. More(c, m) \in Call
    BY <2>2, <2>3, <2>4, <2>5 DEF More, Call
  <2>7. Last(c, m) \in Call
    BY <2>2, <2>3 DEF Last, Call, Codes
  <2>8. QED
    BY <2>2, <2>6, <2>7
<1>6. QED
  BY <1>2, <1>3, <1>4, <1>5, Zenon

\* Read, write and the start of a session, with the fields of the new call.
BeginStep(t) ==
    /\ call' \in [Threads -> Call] /\ \A u \in Threads : u # t => call'[u] = call[u]
    /\ call[t].pc = "idle" /\ execute_mutex_ = None /\ execute_mutex_' = t
    /\ call'[t].pc = "send" /\ call'[t].sequence = sequence_ /\ call'[t].tries = 0
    /\ call'[t].id = calls + 1 /\ call'[t].code = "none" /\ call'[t].words # {}
    /\ call'[t].kind \in {"read", "write"} => call'[t].words = Registers
    /\ call'[t].kind = "read1" => call'[t].words = {1}
    /\ IF started THEN call'[t].kind # "start" /\ gave_up' = gave_up
       ELSE call'[t].kind = "start" /\ call'[t].check = FALSE /\ gave_up' = FALSE
    /\ sequence_' = (sequence_ + 1) % SeqMod
    /\ calls < MaxCalls /\ calls' = calls + 1
    /\ held' = [held EXCEPT ![t] = [r \in Registers |-> {reg[r]}]]
    /\ UNCHANGED <<started, block_enable_, requests, replies, next_sequence, reg, executed>>

\* Begin makes that step.
LEMMA BeginFacts ==
    ASSUME TypeOK, NEW t \in Threads, Start(t) \/ Write(t) \/ Read(t), UNCHANGED block_enable_
    PROVE  BeginStep(t)
<1>1. PICK kind \in Kinds, retry \in BOOLEAN, check \in BOOLEAN :
          /\ Begin(t, kind, retry, check)
          /\ IF started THEN kind # "start" /\ gave_up' = gave_up
             ELSE kind = "start" /\ check = FALSE /\ gave_up' = FALSE
  <2>1. "start" \in Kinds /\ "write" \in Kinds /\ "read1" \in Kinds /\ "read" \in Kinds
        /\ "write" # "start" /\ "read1" # "start" /\ "read" # "start"
    BY DEF Kinds
  <2>2. CASE Start(t)
    BY <2>1, <2>2, Zenon DEF Start
  <2>3. CASE Write(t)
    <3>1. PICK retry \in BOOLEAN : Begin(t, "write", retry, TRUE)
      BY <2>3, Zenon DEF Write
    <3>2. started /\ gave_up' = gave_up
      BY <2>3, Zenon DEF Write
    <3>3. QED
      BY <2>1, <3>1, <3>2, Zenon
  <2>4. CASE Read(t)
    <3>1. PICK kind \in {"read1", "read"} : Begin(t, kind, TRUE, TRUE)
      BY <2>4, Zenon DEF Read
    <3>2. started /\ gave_up' = gave_up
      BY <2>4, Zenon DEF Read
    <3>3. kind \in Kinds /\ kind # "start"
      BY <2>1, <3>1, Zenon
    <3>4. QED
      BY <3>1, <3>2, <3>3, Zenon
  <2>5. QED
    BY <2>2, <2>3, <2>4, Zenon
<1> DEFINE c == Begun(kind, retry, check)
<1>2. /\ call[t].pc = "idle" /\ execute_mutex_ = None /\ execute_mutex_' = t
      /\ calls < MaxCalls /\ calls' = calls + 1 /\ sequence_' = (sequence_ + 1) % SeqMod
      /\ held' = [held EXCEPT ![t] = [r \in Registers |-> {reg[r]}]]
      /\ UNCHANGED <<started, requests, replies, next_sequence, reg, executed>>
  BY <1>1, Zenon DEF Begin, NextSequence, netVars, deviceVars
<1>3. call' = [call EXCEPT ![t] = c]
  BY <1>1, <1>2 DEF Begin, Begun
<1>4. /\ sequence_ \in SeqNums /\ calls \in 0..MaxCalls
  BY StateTypes, Zenon
<1>5. calls + 1 \in 0..MaxCalls /\ 0 \in 0..MaxTries /\ 0 \in 0..MaxCalls /\ 1 \in Registers
  BY <1>2, <1>4, ControlAssumption DEF Registers
<1>6. (IF kind \in {"start", "read1"} THEN {1} ELSE Registers) \in SUBSET Registers
  BY <1>5, Zenon
<1>7. [r \in Registers |-> 0] \in [Registers -> 0..MaxCalls]
  BY <1>5
<1>8. c \in Call
  BY <1>1, <1>4, <1>5, <1>6, <1>7 DEF Begun, Call, Codes
<1>9. /\ c.pc = "send" /\ c.sequence = sequence_ /\ c.tries = 0
      /\ c.id = calls + 1 /\ c.code = "none" /\ c.kind = kind /\ c.check = check
      /\ c.words = IF kind \in {"start", "read1"} THEN {1} ELSE Registers
  BY DEF Begun
<1>10. c.words # {}
  BY <1>5, <1>9, Zenon
<1>11. /\ c.kind \in {"read", "write"} => c.words = Registers
       /\ c.kind = "read1" => c.words = {1}
  BY <1>9
<1>12. Becomes(t, c)
  BY <1>3, <1>8, BecomesFacts, Zenon
<1> HIDE DEF c
<1>13. QED
  BY <1>1, <1>2, <1>9, <1>10, <1>11, <1>12, Zenon DEF BeginStep, Becomes

\* What the other steps do, with the fields of the call they change.
Changed(t) == call' \in [Threads -> Call] /\ \A u \in Threads : u # t => call'[u] = call[u]
Keeps(t) ==
    /\ call'[t].kind = call[t].kind /\ call'[t].words = call[t].words
    /\ call'[t].id = call[t].id /\ call'[t].sequence = call[t].sequence
    /\ call'[t].values = call[t].values
deviceUnchanged ==
    UNCHANGED <<block_enable_, next_sequence, reg, calls, executed, held>>

SendStep(t) ==
    /\ Changed(t) /\ Keeps(t)
    /\ call[t].pc = "send" /\ call'[t].pc = "wait" /\ call'[t].tries = call[t].tries + 1
    /\ call'[t].code = call[t].code /\ call'[t].check = call[t].check
    /\ requests' = Append(requests, Packet(call[t]))
    /\ UNCHANGED <<sequence_, execute_mutex_, started, replies, gave_up>> /\ deviceUnchanged

\* The reply that is read.
Answered(t, m) ==
    /\ replies # <<>> /\ m = Head(replies) /\ replies' = Tail(replies)
    /\ call[t].pc = "wait" /\ m.sequence = call[t].sequence

MoreStep(t) ==
    \E m \in Reply :
        /\ Answered(t, m) /\ m.ok
        /\ Changed(t) /\ call'[t].pc = "send" /\ call'[t].tries = 0
        /\ call'[t].kind = call[t].kind /\ call'[t].words = call[t].words \ m.words
        /\ call'[t].words # {} /\ call'[t].id = call[t].id /\ call'[t].sequence = sequence_
        /\ call'[t].values = Merged(call[t], m)
        /\ call'[t].code = call[t].code /\ call'[t].check = call[t].check
        /\ sequence_' = (sequence_ + 1) % SeqMod
        /\ UNCHANGED <<execute_mutex_, started, requests, gave_up>> /\ deviceUnchanged

LastStep(t) ==
    \E m \in Reply :
        /\ Answered(t, m) /\ m.ok
        /\ Changed(t) /\ call'[t].pc = "idle" /\ call'[t].kind = call[t].kind
        /\ call[t].words \subseteq m.words /\ call'[t].words = {} /\ call'[t].id = call[t].id
        /\ call'[t].values = Merged(call[t], m) /\ call'[t].code = "ok"
        /\ call'[t].check = call[t].check
        /\ execute_mutex_' = None /\ started' = TRUE
        /\ UNCHANGED <<sequence_, requests, gave_up>> /\ deviceUnchanged

FaultStep(t) ==
    \E m \in Reply :
        /\ Answered(t, m) /\ ~m.ok
        /\ Changed(t) /\ Keeps(t) /\ call'[t].pc = "idle" /\ call'[t].code = "fault"
        /\ call'[t].check = call[t].check /\ call'[t].tries = call[t].tries
        /\ execute_mutex_' = None
        /\ UNCHANGED <<sequence_, started, requests, gave_up>> /\ deviceUnchanged

RetryStep(t) ==
    /\ Changed(t) /\ Keeps(t)
    /\ call[t].pc = "wait" /\ call'[t].pc = "send" /\ call'[t].tries = call[t].tries
    /\ call[t].tries < MaxTries
    /\ call'[t].code = call[t].code /\ call'[t].check = RetryCheck(call[t])
    /\ UNCHANGED <<sequence_, execute_mutex_, started, requests, replies, gave_up>>
    /\ deviceUnchanged

GiveUpStep(t) ==
    /\ Changed(t) /\ Keeps(t) /\ call[t].pc = "wait" /\ call'[t].pc = "idle"
    /\ call'[t].code = "timeout" /\ call'[t].check = call[t].check
    /\ execute_mutex_' = None /\ gave_up' = TRUE
    /\ UNCHANGED <<sequence_, started, requests, replies>> /\ deviceUnchanged

ReplyGone ==
    /\ replies # <<>> /\ replies' = Tail(replies)
    /\ UNCHANGED <<sequence_, execute_mutex_, started, call, requests, gave_up>> /\ deviceUnchanged

RequestGone ==
    /\ requests # <<>> /\ requests' = Tail(requests)
    /\ UNCHANGED <<sequence_, execute_mutex_, started, call, replies, gave_up>> /\ deviceUnchanged

ReplyTo(m, ok) == [sequence |-> m.sequence, ok |-> ok, words |-> m.words, values |-> reg']

RefuseStep ==
    \E m \in Request :
        /\ requests # <<>> /\ m = Head(requests) /\ requests' = Tail(requests)
        /\ m.check /\ m.sequence # next_sequence
        /\ replies' = Append(replies, ReplyTo(m, FALSE))
        /\ UNCHANGED <<sequence_, execute_mutex_, started, call, gave_up>> /\ deviceUnchanged

ExecuteStep ==
    \E m \in Request :
        /\ requests # <<>> /\ m = Head(requests) /\ requests' = Tail(requests)
        /\ m.check => m.sequence = next_sequence
        /\ next_sequence' = (m.sequence + 1) % SeqMod
        /\ replies' = Append(replies, ReplyTo(m, TRUE))
        /\ reg' = Stored(m)
        /\ executed' = executed \cup (IF m.write THEN {m.id} \X m.words ELSE {})
        /\ held' = [t \in Threads |-> [r \in Registers |-> held[t][r] \cup {reg'[r]}]]
        /\ UNCHANGED <<sequence_, execute_mutex_, started, call, gave_up, calls, block_enable_>>

\* Every step is one of these.
LEMMA StepCases ==
    ASSUME TypeOK, CallInv, [Next]_vars
    PROVE  \/ UNCHANGED vars \/ ReplyGone \/ RequestGone \/ RefuseStep \/ ExecuteStep
           \/ \E t \in Threads : \/ BeginStep(t) \/ SendStep(t) \/ MoreStep(t) \/ LastStep(t)
                                 \/ FaultStep(t) \/ RetryStep(t) \/ GiveUpStep(t)
<1>1. requests \in Seq(Request) /\ replies \in Seq(Reply)
  BY StateTypes, Zenon
<1>2. /\ requests # <<>> => Head(requests) \in Request
      /\ replies # <<>> => Head(replies) \in Reply
  BY <1>1, TailFacts
<1>3. CASE DeviceRefuse /\ UNCHANGED block_enable_
  <2>1. RefuseStep
    BY <1>2, <1>3, Zenon DEF DeviceRefuse, SendReply, RefuseStep, ReplyTo, deviceVars, hostVars,
                             deviceUnchanged
  <2>2. QED
    BY <2>1, Zenon
<1>4. CASE DeviceExecute /\ UNCHANGED block_enable_
  <2>1. ExecuteStep
    BY <1>2, <1>4, Zenon DEF DeviceExecute, SendReply, ExecuteStep, ReplyTo, hostVars
  <2>2. QED
    BY <2>1, Zenon
<1>5. CASE Network /\ UNCHANGED block_enable_
  <2>1. ReplyGone \/ RequestGone
    BY <1>5, Zenon DEF Network, LoseRequest, LoseReply, ReplyGone, RequestGone, deviceVars,
                       hostVars, deviceUnchanged
  <2>2. QED
    BY <2>1, Zenon
<1>6. ASSUME NEW t \in Threads, Host(t), UNCHANGED block_enable_
      PROVE  \/ ReplyGone \/ BeginStep(t) \/ SendStep(t) \/ MoreStep(t) \/ LastStep(t)
             \/ FaultStep(t) \/ RetryStep(t) \/ GiveUpStep(t)
  <2> DEFINE c == call[t]
  <2>1. c \in Call
    BY StateTypes, Zenon
  <2> HIDE DEF c
  <2>2. CASE Start(t) \/ Write(t) \/ Read(t)
    BY <1>6, <2>2, BeginFacts, Zenon
  <2>3. CASE Send(t)
    <3>1. /\ c.pc = "send" /\ requests' = Append(requests, Packet(c))
          /\ UNCHANGED <<sequence_, execute_mutex_, started, replies, next_sequence, reg, calls,
                         executed, held, gave_up>>
      BY <2>3, Zenon DEF Send, deviceVars, c
    <3>2. call' = [call EXCEPT ![t] = Sent(c)]
      BY <2>3 DEF Send, Sent, c
    <3>3. c.tries < MaxTries
      BY <3>1, Zenon DEF CallInv, c
    <3>4. Sent(c) \in Call
      BY <2>1, <3>3, FormTypes, Zenon
    <3>5. Becomes(t, Sent(c))
      BY <3>2, <3>4, BecomesFacts, Zenon
    <3>6. /\ Sent(c).pc = "wait" /\ Sent(c).tries = c.tries + 1
          /\ Sent(c).kind = c.kind /\ Sent(c).words = c.words /\ Sent(c).id = c.id
          /\ Sent(c).sequence = c.sequence /\ Sent(c).values = c.values
          /\ Sent(c).code = c.code /\ Sent(c).check = c.check
      BY <2>1, CallForms, Zenon
    <3>7. call'[t] = Sent(c) /\ Changed(t)
      BY <3>5, Zenon DEF Becomes, Changed
    <3>8. SendStep(t)
      BY <1>6, <3>1, <3>6, <3>7, Zenon DEF SendStep, Keeps, deviceUnchanged, c
    <3>9. QED
      BY <3>8, Zenon
  <2>4. CASE ReceiveStale(t)
    <3>1. ReplyGone
      BY <1>6, <2>4, Zenon DEF ReceiveStale, ReceiveControl, ReplyGone, hostVars, deviceVars,
                               deviceUnchanged
    <3>2. QED
      BY <3>1, Zenon
  <2>5. CASE ReceiveOk(t)
    <3> DEFINE m == Head(replies)
    <3>1. /\ c.pc = "wait" /\ replies # <<>> /\ replies' = Tail(replies)
          /\ m.sequence = c.sequence /\ m.ok
          /\ UNCHANGED <<requests, next_sequence, reg, calls, executed, held, gave_up>>
      BY <2>5, Zenon DEF ReceiveOk, ReceiveControl, Matches, deviceVars, c
    <3>2. m \in Reply
      BY <1>2, <3>1, Zenon
    <3>3. \/ /\ c.words \ m.words # {} /\ sequence_' = (sequence_ + 1) % SeqMod
             /\ call' = [call EXCEPT ![t] = More(c, m)]
             /\ UNCHANGED <<execute_mutex_, started>>
          \/ /\ c.words \ m.words = {} /\ call' = [call EXCEPT ![t] = Last(c, m)]
             /\ execute_mutex_' = None /\ started' = TRUE /\ UNCHANGED sequence_
      BY <2>5, Zenon DEF ReceiveOk, Return, NextSequence, More, Last, Merged, c
    <3> HIDE DEF m
    <3>4. CASE c.words \ m.words # {} /\ call' = [call EXCEPT ![t] = More(c, m)]
      <4>1. Becomes(t, More(c, m))
        BY <2>1, <3>2, <3>4, FormTypes, BecomesFacts, Zenon
      <4>2. /\ More(c, m).pc = "send" /\ More(c, m).tries = 0 /\ More(c, m).kind = c.kind
            /\ More(c, m).words = c.words \ m.words /\ More(c, m).id = c.id
            /\ More(c, m).sequence = sequence_ /\ More(c, m).values = Merged(c, m)
            /\ More(c, m).code = c.code /\ More(c, m).check = c.check
        BY <2>1, <3>2, ReplyForms
      <4>3. sequence_' = (sequence_ + 1) % SeqMod /\ UNCHANGED <<execute_mutex_, started>>
        BY <3>3, <3>4, Zenon
      <4>4. call'[t] = More(c, m) /\ Changed(t)
        BY <4>1, Zenon DEF Becomes, Changed
      <4>5. Answered(t, m) /\ deviceUnchanged
        BY <1>6, <3>1, Zenon DEF Answered, deviceUnchanged, c, m
      <4>6. MoreStep(t)
        BY <3>1, <3>2, <3>4, <4>2, <4>3, <4>4, <4>5, Zenon DEF MoreStep, c
      <4>7. QED
        BY <4>6, Zenon
    <3>5. CASE c.words \ m.words = {} /\ call' = [call EXCEPT ![t] = Last(c, m)]
      <4>1. Becomes(t, Last(c, m))
        BY <2>1, <3>2, <3>5, FormTypes, BecomesFacts, Zenon
      <4>2. execute_mutex_' = None /\ started' = TRUE /\ UNCHANGED sequence_
        BY <3>3, <3>5, Zenon
      <4>3. c.words \subseteq m.words
        BY <3>5, Zenon
      <4>4. /\ Last(c, m).pc = "idle" /\ Last(c, m).kind = c.kind
            /\ Last(c, m).words = {} /\ Last(c, m).id = c.id
            /\ Last(c, m).values = Merged(c, m)
            /\ Last(c, m).code = "ok" /\ Last(c, m).check = c.check
        BY <2>1, <3>2, ReplyForms
      <4>5. call'[t] = Last(c, m) /\ Changed(t)
        BY <4>1, Zenon DEF Becomes, Changed
      <4>6. Answered(t, m) /\ deviceUnchanged
        BY <1>6, <3>1, Zenon DEF Answered, deviceUnchanged, c, m
      <4>7. LastStep(t)
        BY <3>1, <3>2, <4>2, <4>3, <4>4, <4>5, <4>6, Zenon DEF LastStep, c
      <4>8. QED
        BY <4>7, Zenon
    <3>6. QED
      BY <3>3, <3>4, <3>5, Zenon
  <2>6. CASE ReceiveFault(t)
    <3>1. /\ c.pc = "wait" /\ replies # <<>> /\ replies' = Tail(replies)
          /\ Head(replies).sequence = c.sequence /\ ~Head(replies).ok
          /\ call' = [call EXCEPT ![t] = Faulted(c)] /\ execute_mutex_' = None
          /\ UNCHANGED <<sequence_, started, requests, next_sequence, reg, calls, executed, held,
                         gave_up>>
      BY <2>6, Zenon DEF ReceiveFault, ReceiveControl, Matches, Return, Faulted, deviceVars, c
    <3>2. Becomes(t, Faulted(c))
      BY <2>1, <3>1, FormTypes, BecomesFacts, Zenon
    <3>3. /\ Faulted(c).pc = "idle" /\ Faulted(c).tries = c.tries
          /\ Faulted(c).kind = c.kind /\ Faulted(c).words = c.words /\ Faulted(c).id = c.id
          /\ Faulted(c).sequence = c.sequence /\ Faulted(c).values = c.values
          /\ Faulted(c).code = "fault" /\ Faulted(c).check = c.check
      BY <2>1, CallForms, Zenon
    <3>4. call'[t] = Faulted(c) /\ Changed(t)
      BY <3>2, Zenon DEF Becomes, Changed
    <3>5. Answered(t, Head(replies)) /\ deviceUnchanged /\ Head(replies) \in Reply
      BY <1>2, <1>6, <3>1, Zenon DEF Answered, deviceUnchanged, c
    <3>6. Keeps(t)
      BY <3>3, <3>4, Zenon DEF Keeps, c
    <3>7. FaultStep(t)
      BY <3>1, <3>3, <3>4, <3>5, <3>6, Zenon DEF FaultStep, c
    <3>8. QED
      BY <3>7, Zenon
  <2>7. CASE Retry(t)
    <3>1. /\ c.pc = "wait" /\ c.tries < MaxTries
          /\ UNCHANGED <<sequence_, execute_mutex_, started, requests, replies, next_sequence,
                         reg, calls, executed, held, gave_up>>
      BY <2>7, Zenon DEF Retry, TimeoutRetry, netVars, deviceVars, c
    <3>2. call' = [call EXCEPT ![t] = Retried(c)]
      BY <2>7 DEF Retry, Retried, c
    <3>3. Becomes(t, Retried(c))
      BY <2>1, <3>2, FormTypes, BecomesFacts, Zenon
    <3>4. /\ Retried(c).pc = "send" /\ Retried(c).tries = c.tries
          /\ Retried(c).kind = c.kind /\ Retried(c).words = c.words /\ Retried(c).id = c.id
          /\ Retried(c).sequence = c.sequence /\ Retried(c).values = c.values
          /\ Retried(c).code = c.code /\ Retried(c).check = RetryCheck(c)
      BY <2>1, CallForms, Zenon
    <3>5. call'[t] = Retried(c) /\ Changed(t)
      BY <3>3, Zenon DEF Becomes, Changed
    <3>6. RetryStep(t)
      BY <1>6, <3>1, <3>4, <3>5, Zenon DEF RetryStep, Keeps, deviceUnchanged, c
    <3>7. QED
      BY <3>6, Zenon
  <2>8. CASE GiveUp(t)
    <3>1. /\ c.pc = "wait" /\ call' = [call EXCEPT ![t] = TimedOut(c)] /\ execute_mutex_' = None
          /\ gave_up' = TRUE
          /\ UNCHANGED <<sequence_, started, requests, replies, next_sequence, reg, calls, executed,
                         held>>
      BY <2>8, Zenon DEF GiveUp, Return, TimedOut, netVars, deviceVars, c
    <3>2. Becomes(t, TimedOut(c))
      BY <2>1, <3>1, FormTypes, BecomesFacts, Zenon
    <3>3. /\ TimedOut(c).pc = "idle" /\ TimedOut(c).kind = c.kind
          /\ TimedOut(c).words = c.words /\ TimedOut(c).id = c.id
          /\ TimedOut(c).sequence = c.sequence /\ TimedOut(c).values = c.values
          /\ TimedOut(c).code = "timeout" /\ TimedOut(c).check = c.check
      BY <2>1, CallForms, Zenon
    <3>4. call'[t] = TimedOut(c) /\ Changed(t)
      BY <3>2, Zenon DEF Becomes, Changed
    <3>5. GiveUpStep(t)
      BY <1>6, <3>1, <3>3, <3>4, Zenon DEF GiveUpStep, Keeps, deviceUnchanged, c
    <3>6. QED
      BY <3>5, Zenon
  <2>9. QED
    BY <1>6, <2>2, <2>3, <2>4, <2>5, <2>6, <2>7, <2>8, Zenon DEF Host, Proceed
<1>7. QED
  BY <1>3, <1>4, <1>5, <1>6, Zenon DEF Next, Device

-----------------------------------------------------------------------------
(* Types. *)

\* The fields of messages.
LEMMA MessageTypes ==
    /\ \A m \in Request : /\ m.sequence \in SeqNums /\ m.check \in BOOLEAN /\ m.write \in BOOLEAN
                          /\ m.words \in SUBSET Registers /\ m.id \in 0..MaxCalls
    /\ \A m \in Reply : /\ m.sequence \in SeqNums /\ m.ok \in BOOLEAN
                        /\ m.words \in SUBSET Registers /\ m.values \in [Registers -> 0..MaxCalls]
  BY DEF Request, Reply

\* Sequence numbers stay in their range.
LEMMA SequenceTypes == \A s \in SeqNums : (s + 1) % SeqMod \in SeqNums
  BY ControlAssumption DEF SeqNums

\* A call sends requests.
LEMMA PacketTypes ==
    ASSUME NEW c \in Call, c.words # {}
    PROVE  /\ Packet(c) \in Request /\ Packet(c).sequence = c.sequence /\ Packet(c).id = c.id
           /\ Packet(c).write = (c.kind = "write") /\ Packet(c).words = Batch(c.kind, c.words)
           /\ Packet(c).check = c.check
<1>1. c.check \in BOOLEAN /\ c.words \in SUBSET Registers /\ c.sequence \in SeqNums /\ c.id \in 0..MaxCalls
  BY CallTypes, Zenon
<1>2. Batch(c.kind, c.words) \in SUBSET Registers
  <2>1. Batch(c.kind, c.words) \subseteq c.words
    BY <1>1, BatchFacts
  <2>2. QED
    BY <1>1, <2>1, Zenon
<1>3. (c.kind = "write") \in BOOLEAN
  BY Zenon
<1>4. QED
  BY <1>1, <1>2, <1>3 DEF Packet, Request

\* The device answers with replies.
LEMMA ReplyTypes ==
    ASSUME NEW m \in Request, NEW ok \in BOOLEAN, reg' \in [Registers -> 0..MaxCalls]
    PROVE  /\ ReplyTo(m, ok) \in Reply /\ ReplyTo(m, ok).sequence = m.sequence
           /\ ReplyTo(m, ok).ok = ok /\ ReplyTo(m, ok).words = m.words
           /\ ReplyTo(m, ok).values = reg'
<1>1. m.sequence \in SeqNums /\ m.words \in SUBSET Registers
  BY MessageTypes, Zenon
<1>2. QED
  BY <1>1 DEF ReplyTo, Reply

\* The registers after a request.
LEMMA StoredTypes ==
    ASSUME TypeOK, NEW m \in Request
    PROVE  /\ Stored(m) \in [Registers -> 0..MaxCalls]
           /\ \A r \in Registers : Stored(m)[r] = IF m.write /\ r \in m.words THEN m.id ELSE reg[r]
<1>1. m.id \in 0..MaxCalls /\ reg \in [Registers -> 0..MaxCalls]
  BY MessageTypes, StateTypes, Zenon
<1>2. QED
  BY <1>1 DEF Stored

\* Every step keeps the types.
LEMMA NextType == TypeOK /\ CallInv /\ [Next]_vars => TypeOK'
<1>1. SUFFICES ASSUME TypeOK, CallInv, [Next]_vars PROVE TypeOK'
  OBVIOUS
<1>2. /\ sequence_ \in SeqNums /\ next_sequence \in SeqNums
      /\ execute_mutex_ \in Threads \cup {None}
      /\ call \in [Threads -> Call]
      /\ requests \in Seq(Request) /\ replies \in Seq(Reply)
      /\ reg \in [Registers -> 0..MaxCalls] /\ calls \in 0..MaxCalls
      /\ executed \in SUBSET ((1..MaxCalls) \X Registers)
      /\ held \in [Threads -> [Registers -> SUBSET (0..MaxCalls)]]
      /\ block_enable_ \in BOOLEAN /\ started \in BOOLEAN /\ gave_up \in BOOLEAN
  BY <1>1, Zenon DEF TypeOK
<1>3. (sequence_ + 1) % SeqMod \in SeqNums
  BY <1>2, SequenceTypes, Zenon
<1>4. /\ requests # <<>> => Tail(requests) \in Seq(Request) /\ Head(requests) = requests[1]
                            /\ 1 \in 1..Len(requests)
      /\ replies # <<>> => Tail(replies) \in Seq(Reply)
  BY <1>2, TailFacts
<1>5. CASE UNCHANGED vars
  BY <1>2, <1>5, Zenon DEF vars, hostVars, netVars, deviceVars, TypeOK
<1>6. CASE ReplyGone
  BY <1>2, <1>4, <1>6, Zenon DEF ReplyGone, deviceUnchanged, TypeOK
<1>7. CASE RequestGone
  BY <1>2, <1>4, <1>7, Zenon DEF RequestGone, deviceUnchanged, TypeOK
<1>8. CASE RefuseStep
  <2>1. PICK m \in Request :
          /\ requests # <<>> /\ requests' = Tail(requests)
          /\ replies' = Append(replies, ReplyTo(m, FALSE))
          /\ UNCHANGED <<sequence_, execute_mutex_, started, call, gave_up>> /\ deviceUnchanged
    BY <1>8, Zenon DEF RefuseStep
  <2>2. reg' \in [Registers -> 0..MaxCalls]
    BY <1>2, <2>1, Zenon DEF deviceUnchanged
  <2>3. ReplyTo(m, FALSE) \in Reply
    BY <2>2, ReplyTypes
  <2>4. replies' \in Seq(Reply)
    BY <1>2, <2>1, <2>3, AppendFacts
  <2>5. QED
    BY <1>2, <1>4, <2>1, <2>4, Zenon DEF deviceUnchanged, TypeOK
<1>9. CASE ExecuteStep
  <2>1. PICK m \in Request :
          /\ requests # <<>> /\ m = Head(requests) /\ requests' = Tail(requests)
          /\ next_sequence' = (m.sequence + 1) % SeqMod
          /\ replies' = Append(replies, ReplyTo(m, TRUE))
          /\ reg' = Stored(m)
          /\ executed' = executed \cup (IF m.write THEN {m.id} \X m.words ELSE {})
          /\ held' = [t \in Threads |-> [r \in Registers |-> held[t][r] \cup {reg'[r]}]]
          /\ UNCHANGED <<sequence_, execute_mutex_, started, call, gave_up, calls, block_enable_>>
    BY <1>9, Zenon DEF ExecuteStep
  <2>2. reg' \in [Registers -> 0..MaxCalls]
    BY <1>1, <2>1, StoredTypes, Zenon
  <2>3. replies' \in Seq(Reply)
    <3>1. ReplyTo(m, TRUE) \in Reply
      BY <2>2, ReplyTypes
    <3>2. QED
      BY <1>2, <2>1, <3>1, AppendFacts
  <2>4. next_sequence' \in SeqNums
    BY <2>1, MessageTypes, SequenceTypes, Zenon
  <2>5. executed' \in SUBSET ((1..MaxCalls) \X Registers)
    <3>1. m.id # 0 /\ m.id \in 0..MaxCalls /\ m.words \in SUBSET Registers
      BY <1>1, <1>4, <2>1, MessageTypes, Zenon DEF CallInv
    <3>2. m.id \in 1..MaxCalls
      BY <3>1, ControlAssumption
    <3>3. {m.id} \X m.words \subseteq (1..MaxCalls) \X Registers
      BY <3>1, <3>2
    <3>4. QED
      BY <1>2, <2>1, <3>3, Zenon
  <2>6. held' \in [Threads -> [Registers -> SUBSET (0..MaxCalls)]]
    <3>1. ASSUME NEW t \in Threads, NEW r \in Registers
          PROVE  held[t][r] \cup {reg'[r]} \in SUBSET (0..MaxCalls)
      <4>1. held[t][r] \in SUBSET (0..MaxCalls) /\ reg'[r] \in 0..MaxCalls
        BY <1>2, <2>2, Zenon
      <4>2. QED
        BY <4>1, Zenon
    <3>2. QED
      BY <2>1, <3>1
  <2>7. QED
    BY <1>2, <1>4, <2>1, <2>2, <2>3, <2>4, <2>5, <2>6, Zenon DEF TypeOK
<1>10. ASSUME NEW t \in Threads, BeginStep(t) PROVE TypeOK'
  <2>1. /\ call' \in [Threads -> Call] /\ execute_mutex_' = t
        /\ gave_up' = gave_up \/ gave_up' = FALSE
        /\ sequence_' = (sequence_ + 1) % SeqMod /\ calls < MaxCalls /\ calls' = calls + 1
        /\ held' = [held EXCEPT ![t] = [r \in Registers |-> {reg[r]}]]
        /\ UNCHANGED <<started, block_enable_, requests, replies, next_sequence, reg, executed>>
    BY <1>10, Zenon DEF BeginStep
  <2>2. calls' \in 0..MaxCalls
    BY <1>2, <2>1, ControlAssumption
  <2>3. [r \in Registers |-> {reg[r]}] \in [Registers -> SUBSET (0..MaxCalls)]
    BY <1>2
  <2>4. held' \in [Threads -> [Registers -> SUBSET (0..MaxCalls)]]
    BY <1>2, <2>1, <2>3
  <2>5. gave_up' \in BOOLEAN /\ execute_mutex_' \in Threads \cup {None}
    BY <1>2, <1>10, <2>1, Zenon
  <2>6. QED
    BY <1>2, <1>3, <2>1, <2>2, <2>4, <2>5, Zenon DEF TypeOK
<1>11. ASSUME NEW t \in Threads, SendStep(t) PROVE TypeOK'
  <2>1. /\ call' \in [Threads -> Call] /\ requests' = Append(requests, Packet(call[t]))
        /\ call[t].pc = "send"
        /\ UNCHANGED <<sequence_, execute_mutex_, started, replies, gave_up>> /\ deviceUnchanged
    BY <1>11, Zenon DEF SendStep, Changed
  <2>2. call[t] \in Call
    BY <1>2, <1>11, Zenon
  <2>3. call[t].words # {}
    <3>1. call[t].pc # "idle"
      BY <2>1
    <3>2. QED
      BY <1>1, <1>11, <3>1, Zenon DEF CallInv, Busy
  <2>4. Packet(call[t]) \in Request
    BY <2>2, <2>3, PacketTypes, Zenon
  <2>5. requests' \in Seq(Request)
    BY <1>2, <2>1, <2>4, AppendFacts
  <2>6. QED
    BY <1>2, <2>1, <2>5, Zenon DEF deviceUnchanged, TypeOK
<1>12. ASSUME NEW t \in Threads,
              MoreStep(t) \/ LastStep(t) \/ FaultStep(t) \/ RetryStep(t) \/ GiveUpStep(t)
       PROVE  TypeOK'
  <2>1. /\ call' \in [Threads -> Call]
        /\ UNCHANGED requests /\ deviceUnchanged
    BY <1>12, Zenon DEF MoreStep, LastStep, FaultStep, RetryStep, GiveUpStep, Changed
  <2>2. sequence_' = sequence_ \/ sequence_' = (sequence_ + 1) % SeqMod
    BY <1>12, Zenon DEF MoreStep, LastStep, FaultStep, RetryStep, GiveUpStep
  <2>3. execute_mutex_' = execute_mutex_ \/ execute_mutex_' = None
    BY <1>12, Zenon DEF MoreStep, LastStep, FaultStep, RetryStep, GiveUpStep
  <2>4. started' = started \/ started' = TRUE
    BY <1>12, Zenon DEF MoreStep, LastStep, FaultStep, RetryStep, GiveUpStep
  <2>5. gave_up' = gave_up \/ gave_up' = TRUE
    BY <1>12, Zenon DEF MoreStep, LastStep, FaultStep, RetryStep, GiveUpStep
  <2>6. replies' = replies \/ (replies # <<>> /\ replies' = Tail(replies))
    BY <1>12, Zenon DEF MoreStep, LastStep, FaultStep, RetryStep, GiveUpStep, Answered
  <2>7. /\ sequence_' \in SeqNums /\ execute_mutex_' \in Threads \cup {None}
        /\ started' \in BOOLEAN /\ gave_up' \in BOOLEAN
    BY <1>2, <1>3, <2>2, <2>3, <2>4, <2>5, Zenon
  <2>8. replies' \in Seq(Reply)
    BY <1>2, <1>4, <2>6, Zenon
  <2>9. QED
    BY <1>2, <2>1, <2>7, <2>8, Zenon DEF deviceUnchanged, TypeOK
<1>13. QED
  BY <1>1, <1>5, <1>6, <1>7, <1>8, <1>9, <1>10, <1>11, <1>12, StepCases, Zenon

\* Where the messages of a queue come from.
PoppedFrom(s, t) == \A i \in 1..Len(t) : i + 1 \in 1..Len(s) /\ t[i] = s[i + 1]
PushedFrom(s, t, e) ==
    \A i \in 1..Len(t) : \/ i \in 1..Len(s) /\ t[i] = s[i]
                         \/ i = Len(s) + 1 /\ t[i] = e

\* The queues of the network.
LEMMA QueueForms ==
    ASSUME TypeOK
    PROVE  /\ requests # <<>> => /\ PoppedFrom(requests, Tail(requests))
                                 /\ Head(requests) = requests[1] /\ 1 \in 1..Len(requests)
           /\ replies # <<>> => /\ PoppedFrom(replies, Tail(replies))
                                /\ Head(replies) = replies[1] /\ 1 \in 1..Len(replies)
           /\ \A m \in Request : PushedFrom(requests, Append(requests, m), m)
           /\ \A m \in Reply : PushedFrom(replies, Append(replies, m), m)
<1>1. requests \in Seq(Request) /\ replies \in Seq(Reply)
  BY StateTypes, Zenon
<1>2. ASSUME NEW S, NEW s \in Seq(S), s # <<>>
      PROVE  PoppedFrom(s, Tail(s)) /\ Head(s) = s[1] /\ 1 \in 1..Len(s)
  BY <1>2, TailFacts, Zenon DEF Popped, PoppedFrom
<1>3. ASSUME NEW S, NEW s \in Seq(S), NEW e \in S
      PROVE  PushedFrom(s, Append(s, e), e)
  <2>1. /\ \A i \in 1..Len(s) : Append(s, e)[i] = s[i]
        /\ Append(s, e)[Len(s) + 1] = e
        /\ \A i \in 1..Len(Append(s, e)) : i \in 1..Len(s) \/ i = Len(s) + 1
    BY <1>3, AppendFacts DEF Pushed
  <2>2. ASSUME NEW i \in 1..Len(Append(s, e))
        PROVE  \/ i \in 1..Len(s) /\ Append(s, e)[i] = s[i]
               \/ i = Len(s) + 1 /\ Append(s, e)[i] = e
    BY <2>1, <2>2
  <2>3. QED
    BY <2>2, Zenon DEF PushedFrom
<1>4. requests # <<>> => /\ PoppedFrom(requests, Tail(requests))
                         /\ Head(requests) = requests[1] /\ 1 \in 1..Len(requests)
  BY <1>1, <1>2, Zenon
<1>5. replies # <<>> => /\ PoppedFrom(replies, Tail(replies))
                        /\ Head(replies) = replies[1] /\ 1 \in 1..Len(replies)
  BY <1>1, <1>2, Zenon
<1>6. \A m \in Request : PushedFrom(requests, Append(requests, m), m)
  BY <1>1, <1>3, Zenon
<1>7. \A m \in Reply : PushedFrom(replies, Append(replies, m), m)
  BY <1>1, <1>3, Zenon
<1>8. QED
  BY <1>4, <1>5, <1>6, <1>7, Zenon

\* Every step keeps CallInv.
LEMMA NextCall == TypeOK /\ CallInv /\ [Next]_vars => CallInv'
<1>1. SUFFICES ASSUME TypeOK, CallInv, [Next]_vars PROVE CallInv'
  OBVIOUS
<1>2. /\ \A u \in Threads : /\ call[u].pc = "send" => call[u].tries < MaxTries
                            /\ call[u].pc # "idle" => call[u].id # 0 /\ call[u].words # {}
      /\ \A i \in 1..Len(requests) : requests[i].id # 0
  BY <1>1, Zenon DEF CallInv, Busy
<1>3. /\ requests # <<>> => PoppedFrom(requests, Tail(requests))
      /\ \A m \in Request : PushedFrom(requests, Append(requests, m), m)
  BY <1>1, QueueForms, Zenon
<1>4. "send" # "idle" /\ "wait" # "idle" /\ "wait" # "send"
  OBVIOUS
<1>5. ASSUME UNCHANGED call, requests' = requests \/ (requests # <<>> /\ requests' = Tail(requests))
      PROVE  CallInv'
  <2>1. \A i \in 1..Len(requests') : requests'[i].id # 0
    BY <1>2, <1>3, <1>5, Zenon DEF PoppedFrom
  <2>2. QED
    BY <1>2, <1>5, <2>1, Zenon DEF CallInv, Busy
<1>6. CASE UNCHANGED vars \/ ReplyGone \/ RequestGone \/ RefuseStep \/ ExecuteStep
  <2>1. UNCHANGED call
    BY <1>6, Zenon DEF vars, hostVars, ReplyGone, RequestGone, RefuseStep, ExecuteStep
  <2>2. requests' = requests \/ (requests # <<>> /\ requests' = Tail(requests))
    BY <1>6, Zenon DEF vars, netVars, ReplyGone, RequestGone, RefuseStep, ExecuteStep
  <2>3. QED
    BY <1>5, <2>1, <2>2, Zenon
<1>7. ASSUME NEW t \in Threads, UNCHANGED requests,
             \A u \in Threads : u # t => call'[u] = call[u],
             call'[t].pc = "send" => call'[t].tries < MaxTries,
             call'[t].pc # "idle" => call'[t].id # 0 /\ call'[t].words # {}
      PROVE  CallInv'
  BY <1>2, <1>7, Zenon DEF CallInv, Busy
<1>8. ASSUME NEW t \in Threads, BeginStep(t) PROVE CallInv'
  <2>1. /\ \A u \in Threads : u # t => call'[u] = call[u]
        /\ UNCHANGED requests /\ call'[t].tries = 0 /\ call'[t].id = calls + 1
        /\ call'[t].words # {}
    BY <1>8, Zenon DEF BeginStep
  <2>2. calls \in 0..MaxCalls
    BY <1>1, StateTypes, Zenon
  <2>3. calls + 1 # 0
    BY <2>2
  <2>4. 0 < MaxTries
    BY ControlAssumption
  <2>5. QED
    BY <1>7, <1>8, <2>1, <2>3, <2>4, Zenon
<1>9. ASSUME NEW t \in Threads, SendStep(t) PROVE CallInv'
  <2>1. /\ \A u \in Threads : u # t => call'[u] = call[u]
        /\ call[t].pc = "send" /\ call'[t].pc = "wait" /\ call'[t].words = call[t].words
        /\ call'[t].id = call[t].id
        /\ requests' = Append(requests, Packet(call[t]))
    BY <1>9, Zenon DEF SendStep, Changed, Keeps
  <2>2. call[t].id # 0 /\ call[t].words # {} /\ call[t] \in Call
    BY <1>1, <1>2, <1>4, <1>9, <2>1, StateTypes, Zenon
  <2>3. Packet(call[t]) \in Request /\ Packet(call[t]).id = call[t].id
    BY <2>2, PacketTypes, Zenon
  <2>4. \A i \in 1..Len(requests') : requests'[i].id # 0
    BY <1>2, <1>3, <2>1, <2>2, <2>3, Zenon DEF PushedFrom
  <2>5. QED
    BY <1>2, <1>4, <1>9, <2>1, <2>2, <2>4, Zenon DEF CallInv, Busy
<1>10. ASSUME NEW t \in Threads, MoreStep(t) PROVE CallInv'
  <2>1. /\ \A u \in Threads : u # t => call'[u] = call[u]
        /\ UNCHANGED requests /\ call[t].pc = "wait" /\ call'[t].tries = 0
        /\ call'[t].words # {} /\ call'[t].id = call[t].id
    BY <1>10, Zenon DEF MoreStep, Changed, Answered
  <2>2. 0 < MaxTries
    BY ControlAssumption
  <2>3. QED
    BY <1>2, <1>4, <1>7, <1>10, <2>1, <2>2, Zenon
<1>11. ASSUME NEW t \in Threads, RetryStep(t) PROVE CallInv'
  <2>1. /\ \A u \in Threads : u # t => call'[u] = call[u]
        /\ UNCHANGED requests /\ call[t].pc = "wait" /\ call'[t].tries = call[t].tries
        /\ call[t].tries < MaxTries
        /\ call'[t].words = call[t].words /\ call'[t].id = call[t].id
    BY <1>11, Zenon DEF RetryStep, Changed, Keeps
  <2>2. QED
    BY <1>2, <1>4, <1>7, <1>11, <2>1, Zenon
<1>12. ASSUME NEW t \in Threads, LastStep(t) \/ FaultStep(t) \/ GiveUpStep(t) PROVE CallInv'
  <2>1. /\ \A u \in Threads : u # t => call'[u] = call[u]
        /\ UNCHANGED requests /\ call'[t].pc = "idle"
    BY <1>12, Zenon DEF LastStep, FaultStep, GiveUpStep, Changed
  <2>2. QED
    BY <1>4, <1>7, <1>12, <2>1, Zenon
<1>13. QED
  BY <1>1, <1>6, <1>8, <1>9, <1>10, <1>11, <1>12, StepCases, Zenon

\* The initial state.
LEMMA InitTypes == Init => TypeOK /\ CallInv
<1>1. SUFFICES ASSUME Init PROVE TypeOK /\ CallInv
  OBVIOUS
<1>2. /\ 0 \in 0..MaxTries /\ 0 \in 0..MaxCalls /\ 0 \in SeqNums
      /\ {} \in SUBSET ((1..MaxCalls) \X Registers) /\ FirstSequence \in SeqNums
  BY ControlAssumption DEF SeqNums, FirstSequence
<1>3. NoCall \in Call /\ NoCall.pc = "idle"
  BY <1>2 DEF NoCall, Call, Kinds, Codes
<1>4. call = [t \in Threads |-> NoCall] /\ requests = <<>> /\ replies = <<>>
  BY <1>1, Zenon DEF Init
<1>5. call \in [Threads -> Call] /\ \A t \in Threads : call[t].pc = "idle"
  BY <1>3, <1>4
<1>6. requests \in Seq(Request) /\ replies \in Seq(Reply) /\ Len(requests) = 0
  BY <1>4
<1>7. /\ reg \in [Registers -> 0..MaxCalls]
      /\ held \in [Threads -> [Registers -> SUBSET (0..MaxCalls)]]
  BY <1>1, <1>2 DEF Init
<1>8. TypeOK
  BY <1>1, <1>2, <1>5, <1>6, <1>7, Zenon DEF Init, TypeOK
<1>9. CallInv
  <2>1. \A i \in 1..Len(requests) : FALSE
    BY <1>6
  <2>2. "send" # "idle"
    OBVIOUS
  <2>3. QED
    BY <1>5, <2>1, <2>2, Zenon DEF CallInv, Busy
<1>10. QED
  BY <1>8, <1>9

\* The control plane's variables keep their types, whatever is lost.
THEOREM ControlTypes == SafetySpec => [](TypeOK /\ CallInv)
  BY InitTypes, NextType, NextCall, PTL DEF SafetySpec

-----------------------------------------------------------------------------
(* One call at a time. *)

After(s) == (s + 1) % SeqMod

\* execute_mutex_ is held for the whole call, and sequence_ is the number
\* after the one in use.
MutexInv == \A t \in Threads : Busy(t) => execute_mutex_ = t /\ sequence_ = After(call[t].sequence)

\* Only the holder of execute_mutex_ is in a call.
LEMMA OneCall ==
    ASSUME MutexInv
    PROVE  /\ \A t, u \in Threads : call[t].pc # "idle" /\ u # t => call[u].pc = "idle"
           /\ execute_mutex_ = None => \A u \in Threads : call[u].pc = "idle"
<1>1. \A t \in Threads : call[t].pc # "idle" => execute_mutex_ = t
  BY Zenon DEF MutexInv, Busy
<1>2. \A t \in Threads : t # None
  BY ControlAssumption, Zenon
<1>3. QED
  BY <1>1, <1>2, Zenon

\* What is idle after a step of a call.
LEMMA OthersIdle ==
    ASSUME TypeOK, CallInv, MutexInv, NEW t \in Threads,
           \/ BeginStep(t) \/ SendStep(t) \/ MoreStep(t) \/ LastStep(t)
           \/ FaultStep(t) \/ RetryStep(t) \/ GiveUpStep(t)
    PROVE  /\ \A u \in Threads : u # t => call'[u].pc = "idle" /\ call'[u] = call[u]
           /\ LastStep(t) \/ FaultStep(t) \/ GiveUpStep(t) => \A u \in Threads : call'[u].pc = "idle"
<1>1. /\ \A v, u \in Threads : call[v].pc # "idle" /\ u # v => call[u].pc = "idle"
      /\ execute_mutex_ = None => \A u \in Threads : call[u].pc = "idle"
  BY OneCall, Zenon
<1>2. "send" # "idle" /\ "wait" # "idle"
  OBVIOUS
<1>3. \A u \in Threads : u # t => call'[u] = call[u]
  BY Zenon DEF BeginStep, SendStep, MoreStep, LastStep, FaultStep, RetryStep, GiveUpStep, Changed
<1>4. call[t].pc # "idle" \/ execute_mutex_ = None
  <2>1. call[t].pc \in {"send", "wait"} \/ execute_mutex_ = None
    BY Zenon DEF BeginStep, SendStep, MoreStep, LastStep, FaultStep, RetryStep, GiveUpStep, Answered
  <2>2. QED
    BY <1>2, <2>1, Zenon
<1>5. \A u \in Threads : u # t => call[u].pc = "idle"
  BY <1>1, <1>4, Zenon
<1>6. \A u \in Threads : u # t => call'[u].pc = "idle"
  BY <1>3, <1>5, Zenon
<1>7. LastStep(t) \/ FaultStep(t) \/ GiveUpStep(t) => call'[t].pc = "idle"
  BY Zenon DEF LastStep, FaultStep, GiveUpStep
<1>8. QED
  BY <1>3, <1>6, <1>7, Zenon

\* Every step keeps MutexInv.
LEMMA NextMutex == TypeOK /\ CallInv /\ MutexInv /\ [Next]_vars => MutexInv'
<1>1. SUFFICES ASSUME TypeOK, CallInv, MutexInv, [Next]_vars PROVE MutexInv'
  OBVIOUS
<1>2. "send" # "idle" /\ "wait" # "idle"
  OBVIOUS
<1>3. \A u \in Threads : call[u].pc # "idle" => execute_mutex_ = u /\ sequence_ = After(call[u].sequence)
  BY <1>1, Zenon DEF MutexInv, Busy
<1>4. CASE UNCHANGED vars \/ ReplyGone \/ RequestGone \/ RefuseStep \/ ExecuteStep
  <2>1. UNCHANGED <<call, execute_mutex_, sequence_>>
    BY <1>4, Zenon DEF vars, hostVars, ReplyGone, RequestGone, RefuseStep, ExecuteStep
  <2>2. QED
    BY <1>3, <2>1, Zenon DEF MutexInv, Busy, After
<1>5. ASSUME NEW t \in Threads,
             \A u \in Threads : u # t => call'[u].pc = "idle",
             execute_mutex_' = t, sequence_' = (call'[t].sequence + 1) % SeqMod
      PROVE  MutexInv'
  BY <1>5, Zenon DEF MutexInv, Busy, After
<1>6. ASSUME NEW t \in Threads, BeginStep(t) \/ MoreStep(t) PROVE MutexInv'
  <2>1. \A u \in Threads : u # t => call'[u].pc = "idle"
    BY <1>1, <1>6, OthersIdle, Zenon
  <2>2. call'[t].sequence = sequence_ /\ sequence_' = (sequence_ + 1) % SeqMod
    BY <1>6, Zenon DEF BeginStep, MoreStep
  <2>3. execute_mutex_' = t
    BY <1>2, <1>3, <1>6, Zenon DEF BeginStep, MoreStep, Answered
  <2>4. QED
    BY <1>5, <2>1, <2>2, <2>3, Zenon
<1>7. ASSUME NEW t \in Threads, SendStep(t) \/ RetryStep(t) PROVE MutexInv'
  <2>1. \A u \in Threads : u # t => call'[u].pc = "idle"
    BY <1>1, <1>7, OthersIdle, Zenon
  <2>2. /\ call'[t].sequence = call[t].sequence /\ call[t].pc # "idle"
        /\ sequence_' = sequence_ /\ execute_mutex_' = execute_mutex_
    BY <1>2, <1>7, Zenon DEF SendStep, RetryStep, Keeps
  <2>3. QED
    BY <1>3, <1>5, <1>7, <2>1, <2>2, Zenon DEF After
<1>8. ASSUME NEW t \in Threads, LastStep(t) \/ FaultStep(t) \/ GiveUpStep(t) PROVE MutexInv'
  <2>1. \A u \in Threads : call'[u].pc = "idle"
    BY <1>1, <1>8, OthersIdle, Zenon
  <2>2. QED
    BY <2>1, Zenon DEF MutexInv, Busy
<1>9. QED
  BY <1>1, <1>4, <1>6, <1>7, <1>8, StepCases, Zenon

-----------------------------------------------------------------------------
(* A reply answers the request with its number. *)

\* Where the messages come from in a step that only takes from a queue.
Fewer(s, t) == \A i \in 1..Len(t) : \E j \in 1..Len(s) : t[i] = s[j]

\* A queue after one message is gone, or none.
LEMMA FewerFacts ==
    ASSUME TypeOK
    PROVE  /\ requests' = requests \/ (requests # <<>> /\ requests' = Tail(requests))
                  => Fewer(requests, requests')
           /\ replies' = replies \/ (replies # <<>> /\ replies' = Tail(replies))
                  => Fewer(replies, replies')
<1>1. /\ requests # <<>> => PoppedFrom(requests, Tail(requests))
      /\ replies # <<>> => PoppedFrom(replies, Tail(replies))
  BY QueueForms, Zenon
<1>2. ASSUME requests' = requests \/ (requests # <<>> /\ requests' = Tail(requests))
      PROVE  Fewer(requests, requests')
  BY <1>1, <1>2, Zenon DEF Fewer, PoppedFrom
<1>3. ASSUME replies' = replies \/ (replies # <<>> /\ replies' = Tail(replies))
      PROVE  Fewer(replies, replies')
  BY <1>1, <1>3, Zenon DEF Fewer, PoppedFrom
<1>4. QED
  BY <1>2, <1>3, Zenon

Own(t, m) ==
    /\ m.id = call[t].id /\ m.write = (call[t].kind = "write")
    /\ m.words = Batch(call[t].kind, call[t].words)
Answers(t, m) ==
    IF call[t].kind = "write" THEN {call[t].id} \X m.words \subseteq executed
    ELSE \A r \in m.words : m.values[r] \in held[t][r]

OwnRequests(t) ==
    \A i \in 1..Len(requests) : requests[i].sequence = call[t].sequence => Own(t, requests[i])
OwnReplies(t) ==
    \A i \in 1..Len(replies) :
        replies[i].sequence = call[t].sequence /\ replies[i].ok => Answers(t, replies[i])

\* The messages that carry the number of the call in progress belong to it:
\* the requests ask for what it wants, the replies say what the device did.
OwnInv == \A t \in Threads : Busy(t) => OwnRequests(t) /\ OwnReplies(t)

\* What a step of the device does, with the request it takes.
Handles(m, ok) ==
    /\ requests # <<>> /\ m = requests[1] /\ 1 \in 1..Len(requests)
    /\ requests' = Tail(requests) /\ PoppedFrom(requests, requests')
    /\ PushedFrom(replies, replies', ReplyTo(m, ok))
    /\ ReplyTo(m, ok).sequence = m.sequence /\ ReplyTo(m, ok).ok = ok
    /\ ReplyTo(m, ok).words = m.words /\ ReplyTo(m, ok).values = reg'

\* The device's steps take the oldest request and add a reply.
LEMMA DeviceFacts ==
    ASSUME TypeOK, CallInv, [Next]_vars
    PROVE  /\ RefuseStep => \E m \in Request : /\ Handles(m, FALSE) /\ m.check
                                               /\ m.sequence # next_sequence
           /\ ExecuteStep => \E m \in Request :
                 /\ Handles(m, TRUE) /\ (m.check => m.sequence = next_sequence)
                 /\ next_sequence' = After(m.sequence)
                 /\ \A r \in Registers : reg'[r] = IF m.write /\ r \in m.words THEN m.id ELSE reg[r]
                 /\ executed \subseteq executed' /\ (m.write => {m.id} \X m.words \subseteq executed')
                 /\ \A t \in Threads : \A r \in Registers :
                       reg'[r] \in held'[t][r] /\ held[t][r] \subseteq held'[t][r]
<1>1. requests # <<>> => /\ PoppedFrom(requests, Tail(requests))
                         /\ Head(requests) = requests[1] /\ 1 \in 1..Len(requests)
  BY QueueForms, Zenon
<1>2. \A m \in Reply : PushedFrom(replies, Append(replies, m), m)
  BY QueueForms, Zenon
<1>3. reg' \in [Registers -> 0..MaxCalls]
  <2>1. TypeOK'
    BY NextType, Zenon
  <2>2. QED
    BY <2>1, Zenon DEF TypeOK
<1>4. ASSUME NEW m \in Request, NEW ok \in BOOLEAN, requests # <<>>, m = Head(requests),
             requests' = Tail(requests), replies' = Append(replies, ReplyTo(m, ok))
      PROVE  Handles(m, ok)
  <2>1. /\ ReplyTo(m, ok) \in Reply /\ ReplyTo(m, ok).sequence = m.sequence
        /\ ReplyTo(m, ok).ok = ok /\ ReplyTo(m, ok).words = m.words
        /\ ReplyTo(m, ok).values = reg'
    BY <1>3, <1>4, ReplyTypes
  <2>2. PushedFrom(replies, replies', ReplyTo(m, ok))
    BY <1>2, <1>4, <2>1, Zenon
  <2>3. QED
    BY <1>1, <1>4, <2>1, <2>2, Zenon DEF Handles
<1>5. ASSUME RefuseStep
      PROVE  \E m \in Request : Handles(m, FALSE) /\ m.check /\ m.sequence # next_sequence
  <2>1. PICK m \in Request :
        /\ requests # <<>> /\ m = Head(requests) /\ requests' = Tail(requests)
        /\ m.check /\ m.sequence # next_sequence
        /\ replies' = Append(replies, ReplyTo(m, FALSE))
    BY <1>5, Zenon DEF RefuseStep
  <2>2. Handles(m, FALSE)
    BY <1>4, <2>1
  <2>3. QED
    BY <2>1, <2>2, Zenon
<1>6. ASSUME ExecuteStep
      PROVE  \E m \in Request :
                 /\ Handles(m, TRUE) /\ (m.check => m.sequence = next_sequence)
                 /\ next_sequence' = After(m.sequence)
                 /\ \A r \in Registers : reg'[r] = IF m.write /\ r \in m.words THEN m.id ELSE reg[r]
                 /\ executed \subseteq executed' /\ (m.write => {m.id} \X m.words \subseteq executed')
                 /\ \A t \in Threads : \A r \in Registers :
                       reg'[r] \in held'[t][r] /\ held[t][r] \subseteq held'[t][r]
  <2>1. PICK m \in Request :
        /\ requests # <<>> /\ m = Head(requests) /\ requests' = Tail(requests)
        /\ m.check => m.sequence = next_sequence
        /\ next_sequence' = (m.sequence + 1) % SeqMod
        /\ replies' = Append(replies, ReplyTo(m, TRUE))
        /\ reg' = Stored(m)
        /\ executed' = executed \cup (IF m.write THEN {m.id} \X m.words ELSE {})
        /\ held' = [t \in Threads |-> [r \in Registers |-> held[t][r] \cup {reg'[r]}]]
    BY <1>6, Zenon DEF ExecuteStep
  <2>2. Handles(m, TRUE)
    BY <1>4, <2>1
  <2>3. \A r \in Registers : reg'[r] = IF m.write /\ r \in m.words THEN m.id ELSE reg[r]
    BY <2>1, StoredTypes, Zenon
  <2>4. executed \subseteq executed' /\ (m.write => {m.id} \X m.words \subseteq executed')
    <3>1. executed \subseteq executed'
      BY <2>1, Zenon
    <3>2. m.write => {m.id} \X m.words \subseteq executed'
      BY <2>1, Zenon
    <3>3. QED
      BY <3>1, <3>2, Zenon
  <2>5. ASSUME NEW t \in Threads, NEW r \in Registers
        PROVE  reg'[r] \in held'[t][r] /\ held[t][r] \subseteq held'[t][r]
    <3>1. held'[t][r] = held[t][r] \cup {reg'[r]}
      BY <2>1, <2>5, Zenon
    <3>2. QED
      BY <3>1, Zenon
  <2>6. QED
    BY <2>1, <2>2, <2>3, <2>4, <2>5, Zenon DEF After
<1>7. QED
  BY <1>5, <1>6, Zenon

\* Every step keeps OwnInv: a number that is given out is on no message.
LEMMA NextOwn ==
    TypeOK /\ CallInv /\ MutexInv /\ OwnInv /\ NotReused /\ [Next]_vars => OwnInv'
<1>1. SUFFICES ASSUME TypeOK, CallInv, MutexInv, OwnInv, NotReused, [Next]_vars PROVE OwnInv'
  OBVIOUS
<1>2. "send" # "idle" /\ "wait" # "idle"
  OBVIOUS
<1>3. \A u \in Threads : call[u].pc # "idle" => OwnRequests(u) /\ OwnReplies(u)
  BY <1>1, Zenon DEF OwnInv, Busy
<1>4. /\ \A i \in 1..Len(requests) : requests[i].sequence # sequence_
      /\ \A i \in 1..Len(replies) : replies[i].sequence # sequence_
  BY <1>1, Zenon DEF NotReused
<1>5. ASSUME NEW u \in Threads, UNCHANGED block_enable_, call'[u].id = call[u].id,
             call'[u].kind = call[u].kind, call'[u].words = call[u].words,
             call'[u].sequence = call[u].sequence
      PROVE  /\ \A m : Own(u, m) => Own(u, m)'
             /\ OwnRequests(u) /\ Fewer(requests, requests') => OwnRequests(u)'
             /\ UNCHANGED <<executed, held>> => \A m : Answers(u, m) => Answers(u, m)'
             /\ UNCHANGED <<executed, held>> /\ OwnReplies(u) /\ Fewer(replies, replies')
                    => OwnReplies(u)'
  <2>1. \A m : Own(u, m) => Own(u, m)'
    BY <1>5, Zenon DEF Own, Batch, Block
  <2>2. UNCHANGED <<executed, held>> => \A m : Answers(u, m) => Answers(u, m)'
    BY <1>5, Zenon DEF Answers
  <2>3. OwnRequests(u) /\ Fewer(requests, requests') => OwnRequests(u)'
    BY <1>5, <2>1, Zenon DEF OwnRequests, Fewer
  <2>4. UNCHANGED <<executed, held>> /\ OwnReplies(u) /\ Fewer(replies, replies') => OwnReplies(u)'
    BY <1>5, <2>2, Zenon DEF OwnReplies, Fewer
  <2>5. QED
    BY <2>1, <2>2, <2>3, <2>4, Zenon
<1>6. ASSUME requests' = requests \/ (requests # <<>> /\ requests' = Tail(requests))
      PROVE  Fewer(requests, requests')
  BY <1>1, <1>6, FewerFacts, Zenon
<1>7. ASSUME replies' = replies \/ (replies # <<>> /\ replies' = Tail(replies))
      PROVE  Fewer(replies, replies')
  BY <1>1, <1>7, FewerFacts, Zenon
<1>8. CASE UNCHANGED vars \/ ReplyGone \/ RequestGone
  <2>1. UNCHANGED <<call, block_enable_, executed, held>>
    BY <1>8, Zenon DEF vars, hostVars, ReplyGone, RequestGone, deviceUnchanged
  <2>2. Fewer(requests, requests') /\ Fewer(replies, replies')
    BY <1>6, <1>7, <1>8, Zenon DEF vars, netVars, ReplyGone, RequestGone
  <2>3. QED
    BY <1>3, <1>5, <2>1, <2>2, Zenon DEF OwnInv, Busy
<1>9. ASSUME RefuseStep PROVE OwnInv'
  <2>1. PICK m \in Request : Handles(m, FALSE)
    BY <1>1, <1>9, DeviceFacts, Zenon
  <2>2. UNCHANGED <<call, block_enable_, executed, held>>
    BY <1>9, Zenon DEF RefuseStep, deviceUnchanged
  <2>3. PushedFrom(replies, replies', ReplyTo(m, FALSE)) /\ ReplyTo(m, FALSE).ok = FALSE
    BY <2>1, Zenon DEF Handles
  <2>4. Fewer(requests, requests')
    BY <1>6, <2>1, Zenon DEF Handles
  <2>5. ASSUME NEW u \in Threads, call[u].pc # "idle" PROVE OwnRequests(u)' /\ OwnReplies(u)'
    <3>1. OwnRequests(u)' /\ \A n : Answers(u, n) => Answers(u, n)'
      BY <1>3, <1>5, <2>2, <2>4, <2>5, Zenon
    <3>2. OwnReplies(u)'
      BY <1>3, <2>2, <2>3, <2>5, <3>1, Zenon DEF OwnReplies, PushedFrom
    <3>3. QED
      BY <3>1, <3>2, Zenon
  <2>6. QED
    BY <2>2, <2>5, Zenon DEF OwnInv, Busy
<1>10. ASSUME ExecuteStep PROVE OwnInv'
  <2>1. PICK m \in Request :
           /\ Handles(m, TRUE)
           /\ executed \subseteq executed' /\ (m.write => {m.id} \X m.words \subseteq executed')
           /\ \A t \in Threads : \A r \in Registers :
                 reg'[r] \in held'[t][r] /\ held[t][r] \subseteq held'[t][r]
    BY <1>1, <1>10, DeviceFacts, Zenon
  <2>2. UNCHANGED <<call, block_enable_>>
    BY <1>10, Zenon DEF ExecuteStep
  <2> DEFINE n == ReplyTo(m, TRUE)
  <2>3. /\ PushedFrom(replies, replies', n) /\ m = requests[1] /\ 1 \in 1..Len(requests)
        /\ n.sequence = m.sequence /\ n.words = m.words /\ n.values = reg'
    BY <2>1, Zenon DEF Handles
  <2> HIDE DEF n
  <2>4. Fewer(requests, requests')
    BY <1>6, <2>1, Zenon DEF Handles
  <2>5. \A i \in 1..Len(replies) : replies[i].words \subseteq Registers
    BY <1>1, StateTypes, MessageTypes, Zenon
  <2>6. m.words \subseteq Registers
    BY MessageTypes, Zenon
  <2>7. ASSUME NEW u \in Threads, call[u].pc # "idle" PROVE OwnRequests(u)' /\ OwnReplies(u)'
    <3>1. OwnRequests(u)' /\ OwnRequests(u) /\ OwnReplies(u)
      BY <1>3, <1>5, <2>2, <2>4, <2>7, Zenon
    <3>2. ASSUME NEW i \in 1..Len(replies), replies[i].sequence = call[u].sequence, replies[i].ok
          PROVE  /\ call[u].kind = "write" => {call[u].id} \X replies[i].words \subseteq executed'
                 /\ call[u].kind # "write" => \A r \in replies[i].words : replies[i].values[r] \in held'[u][r]
      <4>1. Answers(u, replies[i])
        BY <3>1, <3>2, Zenon DEF OwnReplies
      <4>2. QED
        BY <2>1, <2>5, <2>7, <3>2, <4>1, Zenon DEF Answers
    <3>3. ASSUME m.sequence = call[u].sequence
          PROVE  /\ call[u].kind = "write" => {call[u].id} \X n.words \subseteq executed'
                 /\ call[u].kind # "write" => \A r \in n.words : n.values[r] \in held'[u][r]
      <4>1. m.id = call[u].id /\ m.write = (call[u].kind = "write")
        BY <2>3, <3>1, <3>3, Zenon DEF OwnRequests, Own
      <4>2. call[u].kind = "write" => {call[u].id} \X n.words \subseteq executed'
        BY <2>1, <2>3, <4>1, Zenon
      <4>3. \A r \in n.words : n.values[r] \in held'[u][r]
        BY <2>1, <2>3, <2>6, <2>7, Zenon
      <4>4. QED
        BY <4>2, <4>3, Zenon
    <3>4. ASSUME NEW i \in 1..Len(replies'), replies'[i].sequence = call[u].sequence, replies'[i].ok
          PROVE  /\ call[u].kind = "write" => {call[u].id} \X replies'[i].words \subseteq executed'
                 /\ call[u].kind # "write" => \A r \in replies'[i].words : replies'[i].values[r] \in held'[u][r]
      <4>1. CASE i \in 1..Len(replies) /\ replies'[i] = replies[i]
        BY <3>2, <3>4, <4>1, Zenon
      <4>2. CASE replies'[i] = n
        BY <2>3, <3>3, <3>4, <4>2, Zenon
      <4>3. QED
        BY <2>3, <3>4, <4>1, <4>2, Zenon DEF PushedFrom
    <3>5. OwnReplies(u)'
      BY <2>2, <3>4, Zenon DEF OwnReplies, Answers
    <3>6. QED
      BY <3>1, <3>5, Zenon
  <2>8. QED
    BY <2>2, <2>7, Zenon DEF OwnInv, Busy
<1>11. ASSUME NEW t \in Threads,
              \A u \in Threads : u # t => call'[u].pc = "idle",
              call'[t].pc # "idle" => OwnRequests(t)' /\ OwnReplies(t)'
       PROVE  OwnInv'
  BY <1>11, Zenon DEF OwnInv, Busy
<1>12. ASSUME NEW t \in Threads, BeginStep(t) \/ MoreStep(t) PROVE OwnInv'
  <2>1. \A u \in Threads : u # t => call'[u].pc = "idle"
    BY <1>1, <1>12, OthersIdle, Zenon
  <2>2. call'[t].sequence = sequence_
    BY <1>12, Zenon DEF BeginStep, MoreStep
  <2>3. Fewer(requests, requests') /\ Fewer(replies, replies')
    BY <1>6, <1>7, <1>12, Zenon DEF BeginStep, MoreStep, Answered
  <2>4. OwnRequests(t)'
    BY <1>4, <2>2, <2>3, Zenon DEF OwnRequests, Fewer
  <2>5. OwnReplies(t)'
    BY <1>4, <2>2, <2>3, Zenon DEF OwnReplies, Fewer
  <2>6. QED
    BY <1>11, <2>1, <2>4, <2>5, Zenon
<1>13. ASSUME NEW t \in Threads, SendStep(t) PROVE OwnInv'
  <2>1. \A u \in Threads : u # t => call'[u].pc = "idle"
    BY <1>1, <1>13, OthersIdle, Zenon
  <2>2. /\ Keeps(t) /\ UNCHANGED <<block_enable_, executed, held, replies>>
        /\ call[t].pc = "send" /\ requests' = Append(requests, Packet(call[t]))
    BY <1>13, Zenon DEF SendStep, deviceUnchanged
  <2>3. call[t] \in Call /\ call[t].words # {}
    BY <1>1, <1>2, <2>2, StateTypes, Zenon DEF CallInv, Busy
  <2>4. /\ Packet(call[t]) \in Request /\ Packet(call[t]).id = call[t].id
        /\ Packet(call[t]).write = (call[t].kind = "write")
        /\ Packet(call[t]).words = Batch(call[t].kind, call[t].words)
    BY <2>3, PacketTypes
  <2>5. PushedFrom(requests, requests', Packet(call[t])) /\ Fewer(replies, replies')
    BY <1>1, <1>7, <2>2, <2>4, QueueForms, Zenon
  <2>6. Own(t, Packet(call[t]))
    BY <2>4, Zenon DEF Own
  <2>7. OwnRequests(t) /\ OwnReplies(t)
    BY <1>2, <1>3, <2>2, Zenon
  <2>8. OwnReplies(t)' /\ \A m : Own(t, m) => Own(t, m)'
    BY <1>5, <2>2, <2>5, <2>7, Zenon DEF Keeps
  <2>9. OwnRequests(t)'
    BY <2>2, <2>5, <2>6, <2>7, <2>8, Zenon DEF OwnRequests, PushedFrom, Keeps
  <2>10. QED
    BY <1>11, <2>1, <2>8, <2>9, Zenon
<1>14. ASSUME NEW t \in Threads, RetryStep(t) PROVE OwnInv'
  <2>1. \A u \in Threads : u # t => call'[u].pc = "idle"
    BY <1>1, <1>14, OthersIdle, Zenon
  <2>2. /\ Keeps(t) /\ UNCHANGED <<block_enable_, executed, held, requests, replies>>
        /\ call[t].pc = "wait"
    BY <1>14, Zenon DEF RetryStep, deviceUnchanged
  <2>3. OwnRequests(t) /\ OwnReplies(t) /\ Fewer(requests, requests') /\ Fewer(replies, replies')
    BY <1>2, <1>3, <1>6, <1>7, <2>2, Zenon
  <2>4. OwnRequests(t)' /\ OwnReplies(t)'
    BY <1>5, <2>2, <2>3, Zenon DEF Keeps
  <2>5. QED
    BY <1>11, <2>1, <2>4, Zenon
<1>15. ASSUME NEW t \in Threads, LastStep(t) \/ FaultStep(t) \/ GiveUpStep(t) PROVE OwnInv'
  <2>1. \A u \in Threads : call'[u].pc = "idle"
    BY <1>1, <1>15, OthersIdle, Zenon
  <2>2. QED
    BY <2>1, Zenon DEF OwnInv, Busy
<1>16. QED
  BY <1>1, <1>8, <1>9, <1>10, <1>12, <1>13, <1>14, <1>15, StepCases, Zenon

-----------------------------------------------------------------------------
(* What a call has done so far. *)

Done(t) ==
    /\ call[t].kind = "write" => {call[t].id} \X (Registers \ call[t].words) \subseteq executed
    /\ call[t].kind = "read" =>
          \A r \in Registers \ call[t].words : call[t].values[r] \in held[t][r]
    /\ call[t].kind = "read1" /\ 1 \notin call[t].words => call[t].values[1] \in held[t][1]
    /\ call[t].code = "ok" => call[t].words = {}

\* The words a call has been answered for are written, or were read while
\* the call was in progress; a call that succeeds has none left.
DoneInv == \A t \in Threads : Done(t)

\* DoneInv is what a successful call promises.
LEMMA DoneMeans == DoneInv => AckedMeansExecuted /\ FreshRead
<1>1. SUFFICES ASSUME DoneInv PROVE AckedMeansExecuted /\ FreshRead
  OBVIOUS
<1>2. ASSUME NEW t \in Threads, call[t].code = "ok"
      PROVE  /\ call[t].kind = "write" => {call[t].id} \X Registers \subseteq executed
             /\ call[t].kind = "read" => \A r \in Registers : call[t].values[r] \in held[t][r]
             /\ call[t].kind = "read1" => call[t].values[1] \in held[t][1]
  <2>1. Done(t)
    BY <1>1, <1>2, Zenon DEF DoneInv
  <2>2. call[t].words = {}
    BY <1>2, <2>1, Zenon DEF Done
  <2>3. Registers \ call[t].words = Registers /\ 1 \notin call[t].words
    BY <2>2
  <2>4. QED
    BY <2>1, <2>3, Zenon DEF Done
<1>3. AckedMeansExecuted
  BY <1>2, Zenon DEF AckedMeansExecuted
<1>4. "read" # "read1"
  OBVIOUS
<1>5. ASSUME NEW t \in Threads, call[t].code = "ok", call[t].kind \in {"read", "read1"},
             NEW r \in (IF call[t].kind = "read" THEN Registers ELSE {1})
      PROVE  call[t].values[r] \in held[t][r]
  <2>1. CASE call[t].kind = "read"
    BY <1>2, <1>5, <2>1, Zenon
  <2>2. CASE call[t].kind = "read1"
    <3>1. r = 1
      BY <1>4, <1>5, <2>2, Zenon
    <3>2. QED
      BY <1>2, <1>5, <2>2, <3>1, Zenon
  <2>3. QED
    BY <1>5, <2>1, <2>2, Zenon
<1>6. QED
  BY <1>3, <1>5, Zenon DEF FreshRead

\* A reply that answers a request completes its words.
LEMMA MergeDone ==
    ASSUME TypeOK, CallInv, OwnInv, DoneInv, NEW t \in Threads, NEW m \in Reply,
           Answered(t, m), m.ok
    PROVE  /\ call[t].code # "ok"
           /\ call[t].kind = "write" =>
                 {call[t].id} \X (Registers \ (call[t].words \ m.words)) \subseteq executed
           /\ call[t].kind = "read" => \A r \in Registers \ (call[t].words \ m.words) :
                 Merged(call[t], m)[r] \in held[t][r]
           /\ call[t].kind = "read1" /\ 1 \notin call[t].words \ m.words =>
                 Merged(call[t], m)[1] \in held[t][1]
<1>1. "wait" # "idle" /\ "read" # "write" /\ "read1" # "write"
  OBVIOUS
<1>2. Done(t) /\ call[t] \in Call
  BY StateTypes, Zenon DEF DoneInv
<1>3. call[t].pc = "wait" /\ m.sequence = call[t].sequence /\ replies # <<>> /\ m = Head(replies)
  BY Zenon DEF Answered
<1>4. m = replies[1] /\ 1 \in 1..Len(replies)
  BY <1>3, QueueForms, Zenon
<1>5. Answers(t, m)
  BY <1>1, <1>3, <1>4, Zenon DEF OwnInv, OwnReplies, Busy
<1>6. call[t].words # {}
  BY <1>1, <1>3, Zenon DEF CallInv, Busy
<1>7. call[t].code # "ok"
  BY <1>2, <1>6, Zenon DEF Done
<1>8. \A r \in Registers : Merged(call[t], m)[r] = IF r \in m.words THEN m.values[r] ELSE call[t].values[r]
  BY Zenon DEF Merged
<1>9. ASSUME call[t].kind = "write"
      PROVE  {call[t].id} \X (Registers \ (call[t].words \ m.words)) \subseteq executed
  <2>1. {call[t].id} \X m.words \subseteq executed
    BY <1>5, <1>9, Zenon DEF Answers
  <2>2. {call[t].id} \X (Registers \ call[t].words) \subseteq executed
    BY <1>2, <1>9, Zenon DEF Done
  <2>3. QED
    BY <2>1, <2>2
<1>10. ASSUME call[t].kind = "read", NEW r \in Registers \ (call[t].words \ m.words)
       PROVE  Merged(call[t], m)[r] \in held[t][r]
  <2>1. \A q \in m.words : m.values[q] \in held[t][q]
    BY <1>1, <1>5, <1>10, Zenon DEF Answers
  <2>2. \A q \in Registers \ call[t].words : call[t].values[q] \in held[t][q]
    BY <1>2, <1>10, Zenon DEF Done
  <2>3. QED
    BY <1>8, <1>10, <2>1, <2>2, Zenon
<1>11. ASSUME call[t].kind = "read1", 1 \notin call[t].words \ m.words
       PROVE  Merged(call[t], m)[1] \in held[t][1]
  <2>1. \A q \in m.words : m.values[q] \in held[t][q]
    BY <1>1, <1>5, <1>11, Zenon DEF Answers
  <2>2. 1 \notin call[t].words => call[t].values[1] \in held[t][1]
    BY <1>2, <1>11, Zenon DEF Done
  <2>3. 1 \in Registers
    BY ControlAssumption DEF Registers
  <2>4. QED
    BY <1>8, <1>11, <2>1, <2>2, <2>3, Zenon
<1>12. QED
  BY <1>7, <1>9, <1>10, <1>11, Zenon

\* Every step keeps DoneInv.
LEMMA NextDone ==
    TypeOK /\ CallInv /\ MutexInv /\ OwnInv /\ DoneInv /\ [Next]_vars => DoneInv'
<1>1. SUFFICES ASSUME TypeOK, CallInv, MutexInv, OwnInv, DoneInv, [Next]_vars PROVE DoneInv'
  OBVIOUS
<1>2. \A u \in Threads : Done(u)
  BY <1>1, Zenon DEF DoneInv
<1>3. ASSUME NEW u \in Threads, UNCHANGED <<executed, held>>,
             call'[u].kind = call[u].kind, call'[u].id = call[u].id,
             call'[u].words = call[u].words, call'[u].values = call[u].values,
             call'[u].code = "ok" => call[u].code = "ok"
      PROVE  Done(u)'
  BY <1>2, <1>3, Zenon DEF Done
<1>4. CASE UNCHANGED vars \/ ReplyGone \/ RequestGone \/ RefuseStep
  <2>1. UNCHANGED <<call, executed, held>>
    BY <1>4, Zenon DEF vars, hostVars, ReplyGone, RequestGone, RefuseStep, deviceUnchanged
  <2>2. QED
    BY <1>3, <2>1, Zenon DEF DoneInv
<1>5. ASSUME ExecuteStep PROVE DoneInv'
  <2>1. /\ executed \subseteq executed'
        /\ \A t \in Threads : \A r \in Registers : held[t][r] \subseteq held'[t][r]
    BY <1>1, <1>5, DeviceFacts, Zenon
  <2>2. UNCHANGED call
    BY <1>5, Zenon DEF ExecuteStep
  <2>3. 1 \in Registers
    BY ControlAssumption DEF Registers
  <2>4. ASSUME NEW u \in Threads PROVE Done(u)'
    <3>1. Done(u)
      BY <1>2, Zenon
    <3>2. (call[u].kind = "write" => {call[u].id} \X (Registers \ call[u].words) \subseteq executed)'
      BY <2>1, <2>2, <3>1, Zenon DEF Done
    <3>3. (call[u].kind = "read" =>
              \A r \in Registers \ call[u].words : call[u].values[r] \in held[u][r])'
      BY <2>1, <2>2, <2>4, <3>1, Zenon DEF Done
    <3>4. (call[u].kind = "read1" /\ 1 \notin call[u].words => call[u].values[1] \in held[u][1])'
      BY <2>1, <2>2, <2>3, <2>4, <3>1, Zenon DEF Done
    <3>5. (call[u].code = "ok" => call[u].words = {})'
      BY <2>2, <3>1, Zenon DEF Done
    <3>6. QED
      BY <3>2, <3>3, <3>4, <3>5, Zenon DEF Done
  <2>5. QED
    BY <2>4, Zenon DEF DoneInv
<1>6. ASSUME NEW t \in Threads, UNCHANGED <<executed, held>>,
             \A u \in Threads : u # t => call'[u] = call[u], Done(t)'
      PROVE  DoneInv'
  BY <1>3, <1>6, Zenon DEF DoneInv
<1>7. ASSUME NEW t \in Threads, BeginStep(t) PROVE DoneInv'
  <2>1. /\ \A u \in Threads : u # t => call'[u] = call[u]
        /\ held' = [held EXCEPT ![t] = [r \in Registers |-> {reg[r]}]] /\ UNCHANGED executed
        /\ call'[t].code = "none"
        /\ call'[t].kind \in {"read", "write"} => call'[t].words = Registers
        /\ call'[t].kind = "read1" => call'[t].words = {1}
    BY <1>7, Zenon DEF BeginStep
  <2>2. DOMAIN held = Threads
    BY <1>1, Zenon DEF TypeOK
  <2>3. \A u \in Threads : u # t => held'[u] = held[u]
    BY <2>1, <2>2, Zenon
  <2>4. "none" # "ok" /\ Registers \ Registers = {}
    OBVIOUS
  <2>5. ASSUME NEW u \in Threads, u # t PROVE Done(u)'
    <3>1. call'[u] = call[u] /\ held'[u] = held[u] /\ executed' = executed
      BY <2>1, <2>3, <2>5, Zenon
    <3>2. QED
      BY <1>2, <2>5, <3>1, Zenon DEF Done
  <2>6. Done(t)'
    <3>1. call'[t].kind = "write" => {call'[t].id} \X (Registers \ call'[t].words) \subseteq executed'
      BY <2>1, <2>4
    <3>2. call'[t].kind = "read" =>
              \A r \in Registers \ call'[t].words : call'[t].values[r] \in held'[t][r]
      BY <2>1, <2>4, Zenon
    <3>3. call'[t].kind = "read1" => 1 \in call'[t].words
      BY <2>1, Zenon
    <3>4. QED
      BY <2>1, <2>4, <3>1, <3>2, <3>3, Zenon DEF Done
  <2>7. QED
    BY <2>5, <2>6, Zenon DEF DoneInv
<1>8. ASSUME NEW t \in Threads, MoreStep(t) \/ LastStep(t) PROVE DoneInv'
  <2>1. /\ \A u \in Threads : u # t => call'[u] = call[u]
        /\ UNCHANGED <<executed, held>>
    BY <1>8, Zenon DEF MoreStep, LastStep, Changed, deviceUnchanged
  <2>2. PICK m \in Reply :
           /\ Answered(t, m) /\ m.ok
           /\ call'[t].kind = call[t].kind /\ call'[t].id = call[t].id
           /\ call'[t].values = Merged(call[t], m)
           /\ \/ call'[t].words = call[t].words \ m.words /\ call'[t].code = call[t].code
              \/ call[t].words \subseteq m.words /\ call'[t].words = {}
    BY <1>8, Zenon DEF MoreStep, LastStep
  <2>3. call'[t].words = call[t].words \ m.words
    BY <2>2
  <2>4. /\ call[t].code # "ok"
        /\ call[t].kind = "write" =>
                 {call[t].id} \X (Registers \ (call[t].words \ m.words)) \subseteq executed
        /\ call[t].kind = "read" => \A r \in Registers \ (call[t].words \ m.words) :
                 Merged(call[t], m)[r] \in held[t][r]
        /\ call[t].kind = "read1" /\ 1 \notin call[t].words \ m.words =>
                 Merged(call[t], m)[1] \in held[t][1]
    BY <1>1, <1>8, <2>2, MergeDone, Zenon
  <2>5. call'[t].code = "ok" => call'[t].words = {}
    BY <2>2, <2>4, Zenon
  <2>6. Done(t)'
    <3>1. (call[t].kind = "write" => {call[t].id} \X (Registers \ call[t].words) \subseteq executed)'
      BY <2>1, <2>2, <2>3, <2>4, Zenon
    <3>2. (call[t].kind = "read" =>
              \A r \in Registers \ call[t].words : call[t].values[r] \in held[t][r])'
      BY <2>1, <2>2, <2>3, <2>4, Zenon
    <3>3. (call[t].kind = "read1" /\ 1 \notin call[t].words => call[t].values[1] \in held[t][1])'
      BY <2>1, <2>2, <2>3, <2>4, Zenon
    <3>4. QED
      BY <2>5, <3>1, <3>2, <3>3, Zenon DEF Done
  <2>7. QED
    BY <1>6, <2>1, <2>6, Zenon
<1>9. ASSUME NEW t \in Threads, SendStep(t) \/ RetryStep(t) \/ FaultStep(t) \/ GiveUpStep(t)
      PROVE  DoneInv'
  <2>1. /\ \A u \in Threads : u # t => call'[u] = call[u]
        /\ UNCHANGED <<executed, held>> /\ Keeps(t)
    BY <1>9, Zenon DEF SendStep, RetryStep, FaultStep, GiveUpStep, Changed, deviceUnchanged
  <2>2. "fault" # "ok" /\ "timeout" # "ok"
    OBVIOUS
  <2>3. call'[t].code = "ok" => call[t].code = "ok"
    BY <1>9, <2>2, Zenon DEF SendStep, RetryStep, FaultStep, GiveUpStep
  <2>4. Done(t)'
    BY <1>3, <2>1, <2>3, Zenon DEF Keeps
  <2>5. QED
    BY <1>6, <2>1, <2>4, Zenon
<1>10. QED
  BY <1>1, <1>4, <1>5, <1>7, <1>8, <1>9, StepCases, Zenon

-----------------------------------------------------------------------------
(* Attempts. *)

Tries(t) ==
    /\ call[t].pc # "idle" => call[t].code = "none"
    /\ call[t].pc = "wait" => call[t].tries > 0
    /\ call[t].pc # "idle" /\ call[t].tries = 0 =>
          \A i \in 1..Len(requests) : requests[i].sequence # call[t].sequence
    /\ call[t].pc = "send" /\ call[t].tries > 0 /\ call[t].check =>
          call[t].kind = "read" /\ block_enable_

\* A request that was not sent yet is not on its way, and only a block read
\* repeats one that the device checks.
TriesInv == \A t \in Threads : Tries(t)

\* Every step keeps TriesInv.
LEMMA NextTries ==
    TypeOK /\ CallInv /\ MutexInv /\ TriesInv /\ NotReused /\ [Next]_vars => TriesInv'
<1>1. SUFFICES ASSUME TypeOK, CallInv, MutexInv, TriesInv, NotReused, [Next]_vars PROVE TriesInv'
  OBVIOUS
<1>2. "send" # "idle" /\ "wait" # "idle" /\ "send" # "wait"
  OBVIOUS
<1>3. \A u \in Threads : Tries(u)
  BY <1>1, Zenon DEF TriesInv
<1>4. ASSUME requests' = requests \/ (requests # <<>> /\ requests' = Tail(requests))
      PROVE  Fewer(requests, requests')
  BY <1>1, <1>4, FewerFacts, Zenon
<1>5. CASE UNCHANGED vars \/ ReplyGone \/ RequestGone \/ RefuseStep \/ ExecuteStep
  <2>1. UNCHANGED <<call, block_enable_>>
    BY <1>5, Zenon DEF vars, hostVars, ReplyGone, RequestGone, RefuseStep, ExecuteStep, deviceUnchanged
  <2>2. Fewer(requests, requests')
    BY <1>4, <1>5, Zenon DEF vars, netVars, ReplyGone, RequestGone, RefuseStep, ExecuteStep
  <2>3. QED
    BY <1>3, <2>1, <2>2, Zenon DEF TriesInv, Tries, Fewer
<1>6. ASSUME NEW t \in Threads, \A u \in Threads : u # t => call'[u].pc = "idle", Tries(t)'
      PROVE  TriesInv'
  BY <1>2, <1>6, Zenon DEF TriesInv, Tries
<1>7. ASSUME NEW t \in Threads, BeginStep(t) \/ MoreStep(t) PROVE TriesInv'
  <2>1. \A u \in Threads : u # t => call'[u].pc = "idle"
    BY <1>1, <1>7, OthersIdle, Zenon
  <2>2. call'[t].pc = "send" /\ call'[t].tries = 0 /\ call'[t].sequence = sequence_ /\ requests' = requests
    BY <1>7, Zenon DEF BeginStep, MoreStep
  <2>3. ~(call'[t].tries > 0)
    BY <2>2
  <2>4. \A i \in 1..Len(requests) : requests[i].sequence # sequence_
    BY <1>1, Zenon DEF NotReused
  <2>5. call'[t].code = "none"
    BY <1>2, <1>3, <1>7, Zenon DEF BeginStep, MoreStep, Answered, Tries
  <2>6. Tries(t)'
    BY <1>2, <2>2, <2>3, <2>4, <2>5, Zenon DEF Tries
  <2>7. QED
    BY <1>6, <2>1, <2>6, Zenon
<1>8. ASSUME NEW t \in Threads, SendStep(t) PROVE TriesInv'
  <2>1. \A u \in Threads : u # t => call'[u].pc = "idle"
    BY <1>1, <1>8, OthersIdle, Zenon
  <2>2. call'[t].pc = "wait" /\ call'[t].tries = call[t].tries + 1
    BY <1>8, Zenon DEF SendStep
  <2>3. call[t].tries \in 0..MaxTries
    BY <1>1, <1>8, StateTypes, CallTypes, Zenon
  <2>4. call'[t].tries > 0 /\ call'[t].tries # 0
    BY <2>2, <2>3
  <2>5. call'[t].code = "none"
    BY <1>2, <1>3, <1>8, Zenon DEF SendStep, Tries
  <2>6. Tries(t)'
    BY <1>2, <2>2, <2>4, <2>5, Zenon DEF Tries
  <2>7. QED
    BY <1>6, <2>1, <2>6, Zenon
<1>9. ASSUME NEW t \in Threads, RetryStep(t) PROVE TriesInv'
  <2>1. \A u \in Threads : u # t => call'[u].pc = "idle"
    BY <1>1, <1>9, OthersIdle, Zenon
  <2>2. /\ call[t].pc = "wait" /\ call'[t].pc = "send" /\ call'[t].tries = call[t].tries
        /\ call'[t].check = RetryCheck(call[t]) /\ call'[t].kind = call[t].kind
        /\ UNCHANGED block_enable_
    BY <1>9, Zenon DEF RetryStep, Keeps, deviceUnchanged
  <2>3. call[t].tries > 0 /\ call[t].tries \in 0..MaxTries
    BY <1>1, <1>3, <1>9, <2>2, StateTypes, CallTypes, Zenon DEF Tries
  <2>4. call'[t].tries # 0
    BY <2>2, <2>3
  <2>5. call'[t].code = "none"
    BY <1>2, <1>3, <1>9, Zenon DEF RetryStep, Tries
  <2>6. Tries(t)'
    BY <1>2, <2>2, <2>4, <2>5, Zenon DEF Tries, RetryCheck
  <2>7. QED
    BY <1>6, <2>1, <2>6, Zenon
<1>10. ASSUME NEW t \in Threads, LastStep(t) \/ FaultStep(t) \/ GiveUpStep(t) PROVE TriesInv'
  <2>1. \A u \in Threads : call'[u].pc = "idle"
    BY <1>1, <1>10, OthersIdle, Zenon
  <2>2. QED
    BY <1>2, <2>1, Zenon DEF TriesInv, Tries
<1>11. QED
  BY <1>1, <1>5, <1>7, <1>8, <1>9, <1>10, StepCases, Zenon

-----------------------------------------------------------------------------
(* Before the session has started. *)

Same == \A r, q \in Registers : reg[r] = reg[q]

\* Until configure_hsb has read the version, only unchecked reads are sent.
UnstartedInv ==
    ~started =>
        /\ \A i \in 1..Len(requests) : ~requests[i].check /\ ~requests[i].write
        /\ \A i \in 1..Len(replies) : replies[i].ok
        /\ \A t \in Threads : call[t].kind = "start" /\ call[t].code # "fault" /\ ~call[t].check
        /\ Same

\* Every step keeps UnstartedInv.
LEMMA NextUnstarted == TypeOK /\ CallInv /\ UnstartedInv /\ [Next]_vars => UnstartedInv'
<1>1. SUFFICES ASSUME TypeOK, CallInv, UnstartedInv, [Next]_vars, ~started' PROVE UnstartedInv'
  BY Zenon DEF UnstartedInv
<1>2. ~started
  <2>1. ASSUME NEW t \in Threads,
               \/ BeginStep(t) \/ SendStep(t) \/ MoreStep(t) \/ LastStep(t)
               \/ FaultStep(t) \/ RetryStep(t) \/ GiveUpStep(t)
        PROVE  started' = started \/ started' = TRUE
    BY <2>1, Zenon DEF BeginStep, SendStep, MoreStep, LastStep, FaultStep, RetryStep, GiveUpStep
  <2>2. ASSUME UNCHANGED vars \/ ReplyGone \/ RequestGone \/ RefuseStep \/ ExecuteStep
        PROVE  started' = started
    BY <2>2, Zenon DEF vars, hostVars, ReplyGone, RequestGone, RefuseStep, ExecuteStep
  <2>3. QED
    BY <1>1, <2>1, <2>2, StepCases, Zenon
<1>3. /\ \A i \in 1..Len(requests) : ~requests[i].check /\ ~requests[i].write
      /\ \A i \in 1..Len(replies) : replies[i].ok
      /\ \A t \in Threads : call[t].kind = "start" /\ call[t].code # "fault" /\ ~call[t].check
      /\ Same
  BY <1>1, <1>2, Zenon DEF UnstartedInv
<1>4. ASSUME requests' = requests \/ (requests # <<>> /\ requests' = Tail(requests))
      PROVE  Fewer(requests, requests')
  BY <1>1, <1>4, FewerFacts, Zenon
<1>5. ASSUME replies' = replies \/ (replies # <<>> /\ replies' = Tail(replies))
      PROVE  Fewer(replies, replies')
  BY <1>1, <1>5, FewerFacts, Zenon
<1>6. ASSUME Fewer(requests, requests'), Fewer(replies, replies'), UNCHANGED reg,
             \A t \in Threads : call'[t].kind = "start" /\ call'[t].code # "fault" /\ ~call'[t].check
      PROVE  UnstartedInv'
  BY <1>3, <1>6, Zenon DEF UnstartedInv, Fewer, Same
<1>7. CASE UNCHANGED vars \/ ReplyGone \/ RequestGone
  <2>1. UNCHANGED <<call, reg>>
    BY <1>7, Zenon DEF vars, hostVars, deviceVars, ReplyGone, RequestGone, deviceUnchanged
  <2>2. Fewer(requests, requests') /\ Fewer(replies, replies')
    BY <1>4, <1>5, <1>7, Zenon DEF vars, netVars, ReplyGone, RequestGone
  <2>3. QED
    BY <1>3, <1>6, <2>1, <2>2, Zenon
<1>8. ASSUME RefuseStep PROVE UnstartedInv'
  <2>1. PICK m \in Request : Handles(m, FALSE) /\ m.check
    BY <1>1, <1>8, DeviceFacts, Zenon
  <2>2. QED
    BY <1>3, <2>1, Zenon DEF Handles
<1>9. ASSUME ExecuteStep PROVE UnstartedInv'
  <2>1. PICK m \in Request :
           /\ Handles(m, TRUE)
           /\ \A r \in Registers : reg'[r] = IF m.write /\ r \in m.words THEN m.id ELSE reg[r]
    BY <1>1, <1>9, DeviceFacts, Zenon
  <2>2. /\ ~m.write /\ Fewer(requests, requests') /\ UNCHANGED call
        /\ PushedFrom(replies, replies', ReplyTo(m, TRUE)) /\ ReplyTo(m, TRUE).ok = TRUE
    BY <1>3, <1>4, <1>9, <2>1, Zenon DEF Handles, ExecuteStep
  <2>3. \A r \in Registers : reg'[r] = reg[r]
    BY <2>1, <2>2, Zenon
  <2>4. Same'
    BY <1>3, <2>3, Zenon DEF Same
  <2>5. \A i \in 1..Len(replies') : replies'[i].ok
    BY <1>3, <2>2, Zenon DEF PushedFrom
  <2>6. QED
    BY <1>3, <2>2, <2>4, <2>5, Zenon DEF UnstartedInv, Fewer
<1>10. ASSUME NEW t \in Threads, BeginStep(t) \/ MoreStep(t) \/ RetryStep(t) \/ GiveUpStep(t)
       PROVE  UnstartedInv'
  <2>1. /\ \A u \in Threads : u # t => call'[u] = call[u]
        /\ UNCHANGED reg
    BY <1>10, Zenon DEF BeginStep, MoreStep, RetryStep, GiveUpStep, Changed, deviceUnchanged
  <2>2. Fewer(requests, requests') /\ Fewer(replies, replies')
    BY <1>4, <1>5, <1>10, Zenon DEF BeginStep, MoreStep, RetryStep, GiveUpStep, Answered
  <2>3. "none" # "fault" /\ "timeout" # "fault"
    OBVIOUS
  <2>4. call'[t].kind = "start" /\ call'[t].code # "fault" /\ ~call'[t].check
    BY <1>2, <1>3, <1>10, <2>3, Zenon DEF BeginStep, MoreStep, RetryStep, GiveUpStep, Keeps, RetryCheck
  <2>5. QED
    BY <1>3, <1>6, <2>1, <2>2, <2>4, Zenon
<1>11. ASSUME NEW t \in Threads, SendStep(t) PROVE UnstartedInv'
  <2>1. /\ \A u \in Threads : u # t => call'[u] = call[u]
        /\ UNCHANGED <<reg, replies>> /\ call[t].pc = "send"
        /\ requests' = Append(requests, Packet(call[t]))
        /\ call'[t].kind = call[t].kind /\ call'[t].code = call[t].code
        /\ call'[t].check = call[t].check
    BY <1>11, Zenon DEF SendStep, Changed, Keeps, deviceUnchanged
  <2>2. "send" # "idle" /\ "start" # "write"
    OBVIOUS
  <2>3. call[t] \in Call /\ call[t].words # {}
    BY <1>1, <2>1, <2>2, StateTypes, Zenon DEF CallInv, Busy
  <2>4. /\ Packet(call[t]) \in Request /\ Packet(call[t]).write = (call[t].kind = "write")
        /\ Packet(call[t]).check = call[t].check
    BY <2>3, PacketTypes
  <2>5. PushedFrom(requests, requests', Packet(call[t]))
    BY <1>1, <2>1, <2>4, QueueForms, Zenon
  <2>6. ~Packet(call[t]).check /\ ~Packet(call[t]).write
    BY <1>3, <2>2, <2>4, Zenon
  <2>7. \A i \in 1..Len(requests') : ~requests'[i].check /\ ~requests'[i].write
    BY <1>3, <2>5, <2>6, Zenon DEF PushedFrom
  <2>8. \A u \in Threads : call'[u].kind = "start" /\ call'[u].code # "fault" /\ ~call'[u].check
    BY <1>3, <2>1, Zenon
  <2>9. QED
    BY <1>3, <2>1, <2>7, <2>8, Zenon DEF UnstartedInv, Same
<1>12. ASSUME NEW t \in Threads, LastStep(t) PROVE UnstartedInv'
  BY <1>1, <1>12, Zenon DEF LastStep
<1>13. ASSUME NEW t \in Threads, FaultStep(t) PROVE UnstartedInv'
  <2>1. PICK m \in Reply : Answered(t, m) /\ ~m.ok
    BY <1>13, Zenon DEF FaultStep
  <2>2. m = replies[1] /\ 1 \in 1..Len(replies)
    BY <1>1, <2>1, QueueForms, Zenon DEF Answered
  <2>3. QED
    BY <1>3, <2>1, <2>2, Zenon
<1>14. QED
  BY <1>1, <1>7, <1>8, <1>9, <1>10, <1>11, <1>12, <1>13, StepCases, Zenon

-----------------------------------------------------------------------------
(* Host and device in step. *)

\* A block read that was sent more than once.
BlockRead(t) == call[t].kind = "read" /\ block_enable_ /\ call[t].tries > 1

\* Executing the request (again) would change no register.
Idem(m) == m.write => \A r \in m.words : reg[r] = m.id

\* Nothing is left but requests whose number the device has moved past.
Rest ==
    /\ next_sequence = sequence_ /\ Same
    /\ \A i \in 1..Len(requests) : After(requests[i].sequence) = sequence_ /\ Idem(requests[i])

\* The device has not seen the request in hand: it expects it, and what is
\* ahead of it on its way changes nothing.
NoReply(t) == \A i \in 1..Len(replies) : replies[i].sequence # call[t].sequence
Ordered(t) ==
    \A i, j \in 1..Len(requests) : i < j /\ requests[i].sequence = call[t].sequence =>
        /\ requests[j].sequence = call[t].sequence
        /\ requests[j].check => BlockRead(t)
Expected(t) ==
    started => /\ next_sequence = call[t].sequence
               /\ \A i \in 1..Len(requests) : requests[i].sequence # call[t].sequence =>
                     After(requests[i].sequence) = call[t].sequence /\ Idem(requests[i])
Pending(t) == NoReply(t) /\ Ordered(t) /\ Expected(t)

\* The device has executed it: what is left on its way are repetitions.
Repeats(t) ==
    \A i \in 1..Len(requests) : /\ requests[i].sequence = call[t].sequence
                                /\ requests[i].check => BlockRead(t)
                                /\ Idem(requests[i])
Faults(t) ==
    \A i \in 1..Len(replies) :
        replies[i].sequence = call[t].sequence /\ ~replies[i].ok => BlockRead(t)
Written(t) ==
    call[t].kind = "write" => \A r \in Batch(call[t].kind, call[t].words) : reg[r] = call[t].id
Handled(t) ==
    /\ call[t].tries > 0 /\ next_sequence = sequence_
    /\ Repeats(t) /\ Faults(t) /\ Written(t)

\* Unless a call was given up, the device is at rest between calls, and has
\* seen the request of the call in progress or will.
StepInv ==
    ~gave_up => /\ started /\ execute_mutex_ = None => Rest
                /\ \A t \in Threads : Busy(t) => Pending(t) \/ Handled(t)

\* What a reply shows is still so.
Shows(t, m) == IF call[t].kind = "write" THEN \A r \in m.words : reg[r] = call[t].id
               ELSE m.values = reg
Shown(t) ==
    \A i \in 1..Len(replies) :
        replies[i].sequence = call[t].sequence /\ replies[i].ok => Shows(t, replies[i])
Whole(t) ==
    /\ call[t].kind = "write" => \A r \in Registers \ call[t].words : reg[r] = call[t].id
    /\ call[t].kind # "write" => Same
    /\ call[t].kind = "read" => \A r \in Registers \ call[t].words : call[t].values[r] = reg[r]
    /\ Shown(t)
WholeRead(t) ==
    call[t].code = "ok" /\ call[t].kind = "read" =>
        \A r, q \in Registers : call[t].values[r] = call[t].values[q]
BlockFault(t) == call[t].code = "fault" => BlockRead(t)

\* No other write comes between the words of a call.
WholeInv ==
    Clean => \A t \in Threads : WholeRead(t) /\ BlockFault(t) /\ (Busy(t) => Whole(t))

\* WholeInv and StepInv say what a session without a lost call promises.
LEMMA StepMeans == StepInv /\ WholeInv => WholeReads /\ NoSpuriousFault /\ SequenceAgreement
<1>1. SUFFICES ASSUME StepInv, WholeInv PROVE WholeReads /\ NoSpuriousFault /\ SequenceAgreement
  OBVIOUS
<1>2. WholeReads
  BY <1>1, Zenon DEF WholeInv, WholeReads, WholeRead
<1>3. NoSpuriousFault
  BY <1>1, Zenon DEF WholeInv, NoSpuriousFault, BlockFault, BlockRead
<1>4. SequenceAgreement
  BY <1>1, Zenon DEF StepInv, SequenceAgreement, Clean, Rest
<1>5. QED
  BY <1>2, <1>3, <1>4, Zenon

\* The order of the requests that are left, and of one that is added.
LEMMA RequestOrder ==
    ASSUME TypeOK, TypeOK'
    PROVE  /\ PoppedFrom(requests, requests') =>
                 /\ \A i, j \in 1..Len(requests') : i < j => i + 1 < j + 1
                 /\ \A i \in 1..Len(requests') : 1 < i + 1
           /\ \A e : PushedFrom(requests, requests', e) =>
                 \A i, j \in 1..Len(requests') : i < j =>
                     /\ i \in 1..Len(requests) /\ requests'[i] = requests[i]
                     /\ \/ j \in 1..Len(requests) /\ requests'[j] = requests[j]
                        \/ requests'[j] = e
<1>1. requests \in Seq(Request) /\ requests' \in Seq(Request)
  BY Zenon DEF TypeOK
<1>2. Len(requests) \in Nat /\ Len(requests') \in Nat
  BY <1>1
<1>3. \A i, j \in 1..Len(requests') : i < j => i + 1 < j + 1
  BY <1>2
<1>4. \A i \in 1..Len(requests') : 1 < i + 1
  BY <1>2
<1>5. ASSUME NEW e, PushedFrom(requests, requests', e), NEW i \in 1..Len(requests'),
             NEW j \in 1..Len(requests'), i < j
      PROVE  /\ i \in 1..Len(requests) /\ requests'[i] = requests[i]
             /\ \/ j \in 1..Len(requests) /\ requests'[j] = requests[j]
                \/ requests'[j] = e
  <2>1. /\ \/ i \in 1..Len(requests) /\ requests'[i] = requests[i]
           \/ i = Len(requests) + 1 /\ requests'[i] = e
        /\ \/ j \in 1..Len(requests) /\ requests'[j] = requests[j]
           \/ j = Len(requests) + 1 /\ requests'[j] = e
    BY <1>5, Zenon DEF PushedFrom
  <2>2. j \in 1..Len(requests) \/ j = Len(requests) + 1
    BY <2>1, Zenon
  <2>3. i # Len(requests) + 1
    BY <1>2, <1>5, <2>2
  <2>4. QED
    BY <2>1, <2>3, Zenon
<1>6. QED
  BY <1>3, <1>4, <1>5, Zenon

\* A request that changes nothing.
LEMMA IdemKeeps ==
    ASSUME TypeOK, TypeOK', NEW m \in Request, Idem(m) \/ ~m.write,
           \A r \in Registers : reg'[r] = IF m.write /\ r \in m.words THEN m.id ELSE reg[r]
    PROVE  reg' = reg
<1>1. reg \in [Registers -> 0..MaxCalls] /\ reg' \in [Registers -> 0..MaxCalls]
  BY Zenon DEF TypeOK
<1>2. \A r \in Registers : reg'[r] = reg[r]
  BY Zenon DEF Idem
<1>3. QED
  BY <1>1, <1>2

\* Steps that leave the call's request, the registers and the numbers alone.
RequestKept(t) ==
    /\ call'[t].kind = call[t].kind /\ call'[t].words = call[t].words
    /\ call'[t].id = call[t].id /\ call'[t].sequence = call[t].sequence
    /\ (call[t].tries > 0 => call'[t].tries > 0) /\ (call[t].tries > 1 => call'[t].tries > 1)
    /\ UNCHANGED <<block_enable_, reg>>

\* What such a step keeps, part by part.
LEMMA KeptParts ==
    ASSUME TypeOK, TypeOK', NEW t \in Threads, RequestKept(t)
    PROVE  /\ BlockRead(t) => BlockRead(t)'
           /\ \A m : Idem(m) => Idem(m)'
           /\ \A m : Shows(t, m) => Shows(t, m)'
           /\ Same => Same'
           /\ Written(t) => Written(t)'
           /\ Fewer(replies, replies') =>
                 (NoReply(t) => NoReply(t)') /\ (Faults(t) => Faults(t)') /\ (Shown(t) => Shown(t)')
           /\ Fewer(requests, requests') => (Repeats(t) => Repeats(t)')
           /\ Fewer(requests, requests') /\ UNCHANGED <<next_sequence, started>> =>
                 (Expected(t) => Expected(t)')
           /\ UNCHANGED requests \/ PoppedFrom(requests, requests') => (Ordered(t) => Ordered(t)')
<1>1. BlockRead(t) => BlockRead(t)'
  BY Zenon DEF RequestKept, BlockRead
<1>2. \A m : Idem(m) => Idem(m)'
  BY Zenon DEF RequestKept, Idem
<1>3. \A m : Shows(t, m) => Shows(t, m)'
  BY Zenon DEF RequestKept, Shows
<1>4. Same => Same'
  BY Zenon DEF RequestKept, Same
<1>5. Written(t) => Written(t)'
  BY Zenon DEF RequestKept, Written, Batch, Block
<1>6. ASSUME Fewer(replies, replies')
      PROVE  (NoReply(t) => NoReply(t)') /\ (Faults(t) => Faults(t)') /\ (Shown(t) => Shown(t)')
  <2>1. call'[t].sequence = call[t].sequence
    BY Zenon DEF RequestKept
  <2>2. NoReply(t) => NoReply(t)'
    BY <1>6, <2>1, Zenon DEF NoReply, Fewer
  <2>3. Faults(t) => Faults(t)'
    BY <1>1, <1>6, <2>1, Zenon DEF Faults, Fewer
  <2>4. Shown(t) => Shown(t)'
    BY <1>3, <1>6, <2>1, Zenon DEF Shown, Fewer
  <2>5. QED
    BY <2>2, <2>3, <2>4, Zenon
<1>7. ASSUME Fewer(requests, requests') PROVE Repeats(t) => Repeats(t)'
  <2>1. call'[t].sequence = call[t].sequence
    BY Zenon DEF RequestKept
  <2>2. QED
    BY <1>1, <1>2, <1>7, <2>1, Zenon DEF Repeats, Fewer
<1>8. ASSUME Fewer(requests, requests'), UNCHANGED <<next_sequence, started>>
      PROVE  Expected(t) => Expected(t)'
  <2>1. call'[t].sequence = call[t].sequence
    BY Zenon DEF RequestKept
  <2>2. QED
    BY <1>2, <1>8, <2>1, Zenon DEF Expected, Fewer, After
<1>9. ASSUME UNCHANGED requests \/ PoppedFrom(requests, requests'), Ordered(t) PROVE Ordered(t)'
  <2>1. call'[t].sequence = call[t].sequence
    BY Zenon DEF RequestKept
  <2>2. CASE UNCHANGED requests
    BY <1>1, <1>9, <2>1, <2>2, Zenon DEF Ordered
  <2>3. CASE PoppedFrom(requests, requests')
    <3>1. \A i, j \in 1..Len(requests') : i < j => i + 1 < j + 1
      BY <2>3, RequestOrder, Zenon
    <3>2. QED
      BY <1>1, <1>9, <2>1, <2>3, <3>1, Zenon DEF Ordered, PoppedFrom
  <2>4. QED
    BY <1>9, <2>2, <2>3, Zenon
<1>10. QED
  BY <1>1, <1>2, <1>3, <1>4, <1>5, <1>6, <1>7, <1>8, <1>9, Zenon

StepBase ==
    /\ TypeOK /\ CallInv /\ MutexInv /\ OwnInv /\ TriesInv /\ UnstartedInv
    /\ StepInv /\ WholeInv /\ NotReused

\* What is to be shown for a step of thread t.
LEMMA HostConclude ==
    ASSUME StepBase, NEW t \in Threads, UNCHANGED block_enable_,
           \A u \in Threads : u # t => call'[u].pc = "idle" /\ call'[u] = call[u]
    PROVE  /\ execute_mutex_' # None /\ (~gave_up' => Pending(t)' \/ Handled(t)') => StepInv'
           /\ call'[t].pc = "idle" /\ (~gave_up' /\ started' => Rest') => StepInv'
           /\ (Clean' => Clean /\ WholeRead(t)' /\ BlockFault(t)' /\ (call'[t].pc # "idle" => Whole(t)'))
                 => WholeInv'
<1>1. execute_mutex_' # None /\ (~gave_up' => Pending(t)' \/ Handled(t)') => StepInv'
  BY Zenon DEF StepInv, Busy
<1>2. call'[t].pc = "idle" /\ (~gave_up' /\ started' => Rest') => StepInv'
  BY Zenon DEF StepInv, Busy
<1>3. ASSUME Clean, NEW u \in Threads, u # t PROVE WholeRead(u)' /\ BlockFault(u)'
  <2>1. WholeRead(u) /\ BlockFault(u) /\ call'[u] = call[u]
    BY <1>3, Zenon DEF StepBase, WholeInv
  <2>2. QED
    BY <2>1, Zenon DEF WholeRead, BlockFault, BlockRead
<1>4. (Clean' => Clean /\ WholeRead(t)' /\ BlockFault(t)' /\ (call'[t].pc # "idle" => Whole(t)'))
          => WholeInv'
  BY <1>3, Zenon DEF WholeInv, Busy
<1>5. QED
  BY <1>1, <1>2, <1>4, Zenon

\* What the invariants say of the call in progress.
LEMMA InCall ==
    ASSUME StepBase, NEW t \in Threads, call[t].pc # "idle"
    PROVE  /\ execute_mutex_ = t /\ execute_mutex_ # None
           /\ sequence_ = After(call[t].sequence)
           /\ Tries(t) /\ OwnRequests(t)
           /\ ~gave_up => Pending(t) \/ Handled(t)
           /\ Clean => WholeRead(t) /\ BlockFault(t) /\ Whole(t)
           /\ ~started => call[t].kind = "start"
<1>1. execute_mutex_ = t /\ sequence_ = After(call[t].sequence)
  BY Zenon DEF StepBase, MutexInv, Busy
<1>2. execute_mutex_ # None
  BY <1>1, ControlAssumption, Zenon
<1>3. Tries(t) /\ OwnRequests(t) /\ (~started => call[t].kind = "start")
  BY Zenon DEF StepBase, TriesInv, OwnInv, Busy, UnstartedInv
<1>4. /\ ~gave_up => Pending(t) \/ Handled(t)
      /\ Clean => WholeRead(t) /\ BlockFault(t) /\ Whole(t)
  BY Zenon DEF StepBase, StepInv, WholeInv, Busy
<1>5. QED
  BY <1>1, <1>2, <1>3, <1>4, Zenon

\* A call begins at rest, or is the session's first.
LEMMA BeginInStep ==
    ASSUME StepBase, NEW t \in Threads, BeginStep(t) PROVE StepInv' /\ WholeInv'
<1>1. \A u \in Threads : u # t => call'[u].pc = "idle" /\ call'[u] = call[u]
  BY OthersIdle, Zenon DEF StepBase
<1>2. /\ execute_mutex_ = None /\ execute_mutex_' = t
      /\ call'[t].pc = "send" /\ call'[t].sequence = sequence_ /\ call'[t].code = "none"
      /\ call'[t].kind \in {"read", "write"} => call'[t].words = Registers
      /\ started => gave_up' = gave_up
      /\ UNCHANGED <<started, block_enable_, requests, replies, next_sequence, reg>>
  BY Zenon DEF BeginStep
<1>3. /\ \A i \in 1..Len(requests) : requests[i].sequence # sequence_
      /\ \A i \in 1..Len(replies) : replies[i].sequence # sequence_
  BY Zenon DEF StepBase, NotReused
<1>4. ASSUME started, ~gave_up' PROVE ~gave_up /\ Rest
  <2>1. gave_up' = gave_up
    BY <1>2, <1>4, Zenon
  <2>2. ~gave_up
    BY <1>4, <2>1
  <2>3. QED
    BY <1>2, <1>4, <2>2, Zenon DEF StepBase, StepInv
<1>5. ASSUME ~gave_up' PROVE Pending(t)'
  <2>1. NoReply(t)' /\ Ordered(t)'
    BY <1>2, <1>3, Zenon DEF NoReply, Ordered
  <2>2. Expected(t)'
    BY <1>2, <1>4, <1>5, Zenon DEF Expected, Rest, After, Idem
  <2>3. QED
    BY <2>1, <2>2, Zenon DEF Pending
<1>6. t # None
  BY ControlAssumption, Zenon
<1>7. StepInv'
  BY <1>1, <1>2, <1>5, <1>6, HostConclude, Zenon
<1>8. ASSUME Clean'
      PROVE  Clean /\ WholeRead(t)' /\ BlockFault(t)' /\ (call'[t].pc # "idle" => Whole(t)')
  <2>1. started /\ ~gave_up /\ ~gave_up'
    <3>1. started' /\ ~gave_up' /\ started' = started
      BY <1>2, <1>8, Zenon DEF Clean
    <3>2. started
      BY <3>1
    <3>3. QED
      BY <1>4, <3>1, <3>2, Zenon
  <2>2. Same
    BY <1>4, <2>1, Zenon DEF Rest
  <2>3. "none" # "ok" /\ "none" # "fault" /\ Registers \ Registers = {}
    OBVIOUS
  <2>4. WholeRead(t)' /\ BlockFault(t)'
    BY <1>2, <2>3, Zenon DEF WholeRead, BlockFault
  <2>5. Shown(t)' /\ Same'
    BY <1>2, <1>3, <2>2, Zenon DEF Shown, Same
  <2>6. (call[t].kind = "write" => \A r \in Registers \ call[t].words : reg[r] = call[t].id)'
    BY <1>2, <2>3, Zenon
  <2>7. (call[t].kind = "read" => \A r \in Registers \ call[t].words : call[t].values[r] = reg[r])'
    BY <1>2, <2>3, Zenon
  <2>8. Whole(t)'
    BY <2>5, <2>6, <2>7, Zenon DEF Whole
  <2>9. QED
    BY <2>1, <2>4, <2>8, Zenon DEF Clean
<1>9. WholeInv'
  BY <1>1, <1>2, <1>8, HostConclude, Zenon
<1>10. QED
  BY <1>7, <1>9, Zenon

\* Sending it, once or again, adds a request of the call.
LEMMA SendInStep ==
    ASSUME StepBase, TypeOK', NEW t \in Threads, SendStep(t) PROVE StepInv' /\ WholeInv'
<1>1. \A u \in Threads : u # t => call'[u].pc = "idle" /\ call'[u] = call[u]
  BY OthersIdle, Zenon DEF StepBase
<1>2. "send" # "idle" /\ TypeOK
  BY Zenon DEF StepBase
<1>3. /\ Keeps(t) /\ call[t].pc = "send" /\ call'[t].tries = call[t].tries + 1
      /\ call'[t].code = call[t].code /\ requests' = Append(requests, Packet(call[t]))
      /\ UNCHANGED <<sequence_, execute_mutex_, started, replies, gave_up>>
      /\ UNCHANGED <<block_enable_, next_sequence, reg>>
  BY Zenon DEF SendStep, deviceUnchanged
<1>4. /\ execute_mutex_ # None /\ Tries(t)
      /\ ~gave_up => Pending(t) \/ Handled(t)
      /\ Clean => WholeRead(t) /\ BlockFault(t) /\ Whole(t)
  BY <1>2, <1>3, InCall, Zenon
<1>5. call[t] \in Call /\ call[t].words # {}
  BY <1>2, <1>3, StateTypes, Zenon DEF StepBase, CallInv, Busy
<1>6. call[t].tries \in 0..MaxTries
  BY <1>5, CallTypes, Zenon
<1>7. /\ call[t].tries > 0 \/ call[t].tries = 0
      /\ call'[t].tries > 0 /\ (call[t].tries > 0 => call'[t].tries > 1)
      /\ (call[t].tries > 1 => call'[t].tries > 1)
  BY <1>3, <1>6
<1>8. RequestKept(t) /\ Fewer(replies, replies')
  BY <1>2, <1>3, <1>7, FewerFacts, Zenon DEF RequestKept, Keeps
<1> DEFINE p == Packet(call[t])
<1>9. /\ p \in Request /\ p.id = call[t].id /\ p.sequence = call[t].sequence
      /\ p.write = (call[t].kind = "write")
      /\ p.words = Batch(call[t].kind, call[t].words) /\ p.check = call[t].check
  BY <1>5, PacketTypes
<1>10. requests' = Append(requests, p)
  BY <1>3, Zenon
<1> HIDE DEF p
<1>11. PushedFrom(requests, requests', p)
  BY <1>2, <1>9, <1>10, QueueForms, Zenon
<1>12. p.check /\ call[t].tries > 0 => BlockRead(t)'
  BY <1>3, <1>4, <1>7, <1>9, Zenon DEF Tries, BlockRead, Keeps
<1>13. /\ BlockRead(t) => BlockRead(t)'
       /\ \A m : Idem(m) => Idem(m)'
       /\ Written(t) => Written(t)'
       /\ (NoReply(t) => NoReply(t)') /\ (Faults(t) => Faults(t)') /\ (Shown(t) => Shown(t)')
       /\ Same => Same'
  BY <1>2, <1>8, KeptParts, Zenon
<1>14. call'[t].sequence = call[t].sequence
  BY <1>3, Zenon DEF Keeps
<1>15. ASSUME Pending(t) PROVE Pending(t)'
  <2>1. NoReply(t)'
    BY <1>13, <1>15, Zenon DEF Pending
  <2>2. ASSUME NEW i \in 1..Len(requests'), NEW j \in 1..Len(requests'), i < j,
               requests'[i].sequence = call[t].sequence
        PROVE  requests'[j].sequence = call[t].sequence /\ (requests'[j].check => BlockRead(t)')
    <3>1. /\ i \in 1..Len(requests) /\ requests'[i] = requests[i]
          /\ \/ j \in 1..Len(requests) /\ requests'[j] = requests[j]
             \/ requests'[j] = p
      BY <1>2, <1>11, <2>2, RequestOrder, Zenon
    <3>2. CASE j \in 1..Len(requests) /\ requests'[j] = requests[j]
      BY <1>13, <1>15, <2>2, <3>1, <3>2, Zenon DEF Pending, Ordered
    <3>3. CASE requests'[j] = p
      <4>1. requests[i].sequence = call[t].sequence
        BY <2>2, <3>1, Zenon
      <4>2. call[t].tries > 0
        BY <1>2, <1>3, <1>4, <1>7, <3>1, <4>1, Zenon DEF Tries
      <4>3. QED
        BY <1>9, <1>12, <3>3, <4>2, Zenon
    <3>4. QED
      BY <3>1, <3>2, <3>3, Zenon
  <2>3. Ordered(t)'
    BY <1>14, <2>2, Zenon DEF Ordered
  <2>4. ASSUME NEW i \in 1..Len(requests'), started, requests'[i].sequence # call[t].sequence
        PROVE  After(requests'[i].sequence) = call[t].sequence /\ Idem(requests[i])'
    <3>1. i \in 1..Len(requests) /\ requests'[i] = requests[i]
      BY <1>9, <1>11, <2>4, Zenon DEF PushedFrom
    <3>2. After(requests[i].sequence) = call[t].sequence /\ Idem(requests[i])
      BY <1>15, <2>4, <3>1, Zenon DEF Pending, Expected
    <3>3. QED
      BY <1>13, <3>1, <3>2, Zenon
  <2>5. Expected(t)'
    BY <1>3, <1>14, <1>15, <2>4, Zenon DEF Pending, Expected, After
  <2>6. QED
    BY <2>1, <2>3, <2>5, Zenon DEF Pending
<1>16. ASSUME Handled(t) PROVE Handled(t)'
  <2>1. Idem(p)
    BY <1>9, <1>16, Zenon DEF Handled, Written, Idem
  <2>2. p.check => BlockRead(t)'
    BY <1>12, <1>16, Zenon DEF Handled
  <2>3. Repeats(t)'
    BY <1>9, <1>11, <1>13, <1>14, <1>16, <2>1, <2>2, Zenon DEF Handled, Repeats, PushedFrom
  <2>4. QED
    BY <1>3, <1>7, <1>13, <1>16, <2>3, Zenon DEF Handled
<1>17. StepInv'
  BY <1>1, <1>3, <1>4, <1>15, <1>16, HostConclude, Zenon
<1>18. ASSUME Clean' PROVE Clean /\ WholeRead(t)' /\ BlockFault(t)' /\ Whole(t)'
  <2>1. Clean
    BY <1>3, <1>18, Zenon DEF Clean
  <2>2. WholeRead(t)' /\ BlockFault(t)'
    BY <1>3, <1>4, <1>13, <2>1, Zenon DEF WholeRead, BlockFault, Keeps
  <2>3. Whole(t)'
    BY <1>3, <1>4, <1>13, <2>1, Zenon DEF Whole, Keeps
  <2>4. QED
    BY <2>1, <2>2, <2>3, Zenon
<1>19. WholeInv'
  BY <1>1, <1>3, <1>18, HostConclude, Zenon
<1>20. QED
  BY <1>17, <1>19, Zenon

\* Losing a message and timing out for a retry.
LEMMA FrameInStep ==
    ASSUME StepBase, TypeOK', Fewer(replies, replies'), Fewer(requests, requests'),
           UNCHANGED requests \/ PoppedFrom(requests, requests'),
           UNCHANGED <<sequence_, execute_mutex_, started, gave_up, next_sequence, reg, block_enable_>>,
           \A u \in Threads : /\ RequestKept(u) /\ call'[u].values = call[u].values
                              /\ call'[u].code = call[u].code
                              /\ call'[u].pc # "idle" => call[u].pc # "idle"
    PROVE  StepInv' /\ WholeInv'
<1>1. TypeOK
  BY Zenon DEF StepBase
<1>2. ASSUME NEW u \in Threads
      PROVE  /\ BlockRead(u) => BlockRead(u)'
             /\ \A m : Idem(m) => Idem(m)'
             /\ Same => Same'
             /\ (NoReply(u) => NoReply(u)') /\ (Faults(u) => Faults(u)') /\ (Shown(u) => Shown(u)')
             /\ (Repeats(u) => Repeats(u)') /\ (Expected(u) => Expected(u)')
             /\ (Ordered(u) => Ordered(u)') /\ (Written(u) => Written(u)')
             /\ call'[u].kind = call[u].kind /\ call'[u].words = call[u].words
             /\ call'[u].id = call[u].id /\ (call[u].tries > 0 => call'[u].tries > 0)
  <2>1. RequestKept(u)
    BY <1>2, Zenon
  <2>2. /\ BlockRead(u) => BlockRead(u)'
        /\ \A m : Idem(m) => Idem(m)'
        /\ Same => Same'
        /\ (NoReply(u) => NoReply(u)') /\ (Faults(u) => Faults(u)') /\ (Shown(u) => Shown(u)')
        /\ (Repeats(u) => Repeats(u)') /\ (Expected(u) => Expected(u)')
        /\ (Ordered(u) => Ordered(u)') /\ (Written(u) => Written(u)')
    BY <1>1, <1>2, <2>1, KeptParts, Zenon
  <2>3. QED
    BY <2>1, <2>2, Zenon DEF RequestKept
<1>3. Rest => Rest'
  <2>1. \A m : Idem(m) => Idem(m)'
    BY Zenon DEF Idem
  <2>2. Same => Same'
    BY Zenon DEF Same
  <2>3. ASSUME \A i \in 1..Len(requests) : After(requests[i].sequence) = sequence_ /\ Idem(requests[i])
        PROVE  (\A i \in 1..Len(requests) : After(requests[i].sequence) = sequence_ /\ Idem(requests[i]))'
    BY <2>1, <2>3, Zenon DEF Fewer, After
  <2>4. QED
    BY <2>2, <2>3, Zenon DEF Rest
<1>4. ASSUME NEW u \in Threads PROVE (Pending(u) => Pending(u)') /\ (Handled(u) => Handled(u)')
  <2>1. Pending(u) => Pending(u)'
    BY <1>2, <1>4, Zenon DEF Pending
  <2>2. Handled(u) => Handled(u)'
    BY <1>2, <1>4, Zenon DEF Handled
  <2>3. QED
    BY <2>1, <2>2, Zenon
<1>5. StepInv'
  <2>1. StepInv
    BY Zenon DEF StepBase
  <2>2. QED
    BY <1>3, <1>4, <2>1, Zenon DEF StepInv, Busy
<1>6. ASSUME NEW u \in Threads
      PROVE  /\ WholeRead(u) => WholeRead(u)'
             /\ BlockFault(u) => BlockFault(u)'
             /\ Whole(u) => Whole(u)'
  <2>1. /\ call'[u].values = call[u].values /\ call'[u].code = call[u].code
        /\ call'[u].kind = call[u].kind
    BY <1>2, <1>6, Zenon
  <2>2. WholeRead(u) => WholeRead(u)'
    BY <2>1, Zenon DEF WholeRead
  <2>3. BlockFault(u) => BlockFault(u)'
    BY <1>2, <1>6, <2>1, Zenon DEF BlockFault
  <2>4. Whole(u) => Whole(u)'
    BY <1>2, <1>6, <2>1, Zenon DEF Whole
  <2>5. QED
    BY <2>2, <2>3, <2>4, Zenon
<1>7. WholeInv'
  <2>1. WholeInv /\ (Clean' => Clean)
    BY Zenon DEF StepBase, Clean
  <2>2. QED
    BY <1>6, <2>1, Zenon DEF WholeInv, Busy
<1>8. QED
  BY <1>5, <1>7, Zenon

\* The steps of that kind.
LEMMA NetworkInStep ==
    ASSUME StepBase, TypeOK',
           \/ UNCHANGED vars \/ ReplyGone \/ RequestGone \/ \E t \in Threads : RetryStep(t)
    PROVE  StepInv' /\ WholeInv'
<1>1. TypeOK
  BY Zenon DEF StepBase
<1>2. /\ requests' = requests \/ (requests # <<>> /\ requests' = Tail(requests))
      /\ replies' = replies \/ (replies # <<>> /\ replies' = Tail(replies))
      /\ UNCHANGED <<sequence_, execute_mutex_, started, gave_up, next_sequence, reg, block_enable_>>
  BY Zenon DEF vars, hostVars, netVars, deviceVars, ReplyGone, RequestGone, RetryStep, deviceUnchanged
<1>3. Fewer(requests, requests') /\ Fewer(replies, replies')
  BY <1>1, <1>2, FewerFacts, Zenon
<1>4. UNCHANGED requests \/ PoppedFrom(requests, requests')
  BY <1>1, <1>2, QueueForms, Zenon
<1>5. "wait" # "idle"
  OBVIOUS
<1>6. ASSUME NEW u \in Threads
      PROVE  /\ RequestKept(u) /\ call'[u].values = call[u].values /\ call'[u].code = call[u].code
             /\ call'[u].pc # "idle" => call[u].pc # "idle"
  <2>1. CASE call'[u] = call[u]
    BY <1>2, <2>1, Zenon DEF RequestKept
  <2>2. CASE RetryStep(u)
    BY <1>2, <1>5, <2>2, Zenon DEF RetryStep, Keeps, RequestKept
  <2>3. call'[u] = call[u] \/ RetryStep(u)
    BY <1>6, Zenon DEF vars, hostVars, ReplyGone, RequestGone, RetryStep, Changed
  <2>4. QED
    BY <2>1, <2>2, <2>3, Zenon
<1>7. QED
  BY <1>2, <1>3, <1>4, <1>6, FrameInStep, Zenon

\* The reply that is read shows that the device has executed the request.
LEMMA AnsweredFacts ==
    ASSUME StepBase, NEW t \in Threads, NEW m \in Reply, Answered(t, m)
    PROVE  /\ call[t].pc # "idle"
           /\ ~gave_up => Handled(t)
           /\ ~gave_up /\ Same => Rest
           /\ ~gave_up /\ ~m.ok => BlockRead(t)
           /\ Clean /\ m.ok => Shows(t, m)
           /\ ~started => m.ok
           /\ Fewer(replies, replies')
<1>1. "wait" # "idle" /\ TypeOK
  BY Zenon DEF StepBase
<1>2. /\ replies # <<>> /\ m = Head(replies) /\ replies' = Tail(replies)
      /\ call[t].pc = "wait" /\ m.sequence = call[t].sequence
  BY Zenon DEF Answered
<1>3. m = replies[1] /\ 1 \in 1..Len(replies)
  BY <1>1, <1>2, QueueForms, Zenon
<1>4. call[t].pc # "idle"
  BY <1>1, <1>2, Zenon
<1>5. /\ ~gave_up => Pending(t) \/ Handled(t)
      /\ Clean => Whole(t)
      /\ sequence_ = After(call[t].sequence)
  BY <1>4, InCall, Zenon
<1>6. ~NoReply(t)
  BY <1>2, <1>3, Zenon DEF NoReply
<1>7. ~gave_up => Handled(t)
  BY <1>5, <1>6, Zenon DEF Pending
<1>8. ~gave_up /\ Same => Rest
  BY <1>5, <1>7, Zenon DEF Handled, Repeats, Rest
<1>9. ~gave_up /\ ~m.ok => BlockRead(t)
  BY <1>2, <1>3, <1>7, Zenon DEF Handled, Faults
<1>10. Clean /\ m.ok => Shows(t, m)
  BY <1>2, <1>3, <1>5, Zenon DEF Whole, Shown
<1>11. ~started => m.ok
  BY <1>3, Zenon DEF StepBase, UnstartedInv
<1>12. Fewer(replies, replies')
  BY <1>1, <1>2, FewerFacts, Zenon
<1>13. QED
  BY <1>4, <1>7, <1>8, <1>9, <1>10, <1>11, <1>12, Zenon

\* The next word.
LEMMA MoreInStep ==
    ASSUME StepBase, NEW t \in Threads, MoreStep(t) PROVE StepInv' /\ WholeInv'
<1>1. \A u \in Threads : u # t => call'[u].pc = "idle" /\ call'[u] = call[u]
  BY OthersIdle, Zenon DEF StepBase
<1>2. PICK m \in Reply :
        /\ Answered(t, m) /\ m.ok
        /\ call'[t].kind = call[t].kind /\ call'[t].words = call[t].words \ m.words
        /\ call'[t].id = call[t].id /\ call'[t].sequence = sequence_
        /\ call'[t].values = Merged(call[t], m) /\ call'[t].code = call[t].code
        /\ UNCHANGED <<execute_mutex_, started, requests, gave_up>>
        /\ UNCHANGED <<block_enable_, next_sequence, reg>>
  BY Zenon DEF MoreStep, deviceUnchanged
<1>3. /\ call[t].pc # "idle"
      /\ ~gave_up => Handled(t)
      /\ Clean => Shows(t, m)
      /\ Fewer(replies, replies')
  BY <1>2, AnsweredFacts, Zenon
<1>4. /\ execute_mutex_ # None /\ sequence_ = After(call[t].sequence) /\ Tries(t)
      /\ Clean => WholeRead(t) /\ BlockFault(t) /\ Whole(t)
  BY <1>3, InCall, Zenon
<1>5. /\ \A i \in 1..Len(requests) : requests[i].sequence # sequence_
      /\ \A i \in 1..Len(replies) : replies[i].sequence # sequence_
  BY Zenon DEF StepBase, NotReused
<1>6. ASSUME ~gave_up PROVE Pending(t)'
  <2>1. NoReply(t)' /\ Ordered(t)'
    BY <1>2, <1>3, <1>5, Zenon DEF NoReply, Ordered, Fewer
  <2>2. /\ next_sequence = sequence_
        /\ \A i \in 1..Len(requests) : After(requests[i].sequence) = sequence_ /\ Idem(requests[i])
    BY <1>3, <1>4, <1>6, Zenon DEF Handled, Repeats
  <2>3. \A n : Idem(n) => Idem(n)'
    BY <1>2, Zenon DEF Idem
  <2>4. Expected(t)'
    BY <1>2, <2>2, <2>3, Zenon DEF Expected, After
  <2>5. QED
    BY <2>1, <2>4, Zenon DEF Pending
<1>7. StepInv'
  BY <1>1, <1>2, <1>4, <1>6, HostConclude, Zenon
<1>8. ASSUME Clean' PROVE Clean /\ WholeRead(t)' /\ BlockFault(t)' /\ Whole(t)'
  <2>1. Clean
    BY <1>2, <1>8, Zenon DEF Clean
  <2>2. Shows(t, m) /\ Whole(t) /\ WholeRead(t) /\ BlockFault(t)
    BY <1>3, <1>4, <2>1, Zenon
  <2>3. \A r \in Registers : Merged(call[t], m)[r] = IF r \in m.words THEN m.values[r] ELSE call[t].values[r]
    BY Zenon DEF Merged
  <2>4. "read" # "write"
    OBVIOUS
  <2>5. (call[t].kind = "write" => \A r \in Registers \ call[t].words : reg[r] = call[t].id)'
    BY <1>2, <2>2, Zenon DEF Whole, Shows
  <2>6. ASSUME call[t].kind = "read", NEW r \in Registers \ (call[t].words \ m.words)
        PROVE  Merged(call[t], m)[r] = reg[r]
    <3>1. m.values = reg
      BY <2>2, <2>4, <2>6, Zenon DEF Shows
    <3>2. r \notin m.words => call[t].values[r] = reg[r]
      BY <2>2, <2>6, Zenon DEF Whole
    <3>3. CASE r \in m.words
      <4>1. Merged(call[t], m)[r] = m.values[r]
        BY <2>3, <2>6, <3>3, Zenon
      <4>2. QED
        BY <3>1, <4>1, Zenon
    <3>4. CASE r \notin m.words
      BY <2>3, <2>6, <3>2, <3>4, Zenon
    <3>5. QED
      BY <3>3, <3>4, Zenon
  <2>7. (call[t].kind = "read" => \A r \in Registers \ call[t].words : call[t].values[r] = reg[r])'
    BY <1>2, <2>6, Zenon
  <2>8. (call[t].kind # "write" => Same)'
    BY <1>2, <2>2, Zenon DEF Whole, Same
  <2>9. Shown(t)'
    BY <1>2, <1>3, <1>5, Zenon DEF Shown, Fewer
  <2>10. Whole(t)'
    BY <2>5, <2>7, <2>8, <2>9, Zenon DEF Whole
  <2>11. "none" # "ok" /\ "none" # "fault"
    OBVIOUS
  <2>12. WholeRead(t)' /\ BlockFault(t)'
    BY <1>2, <1>3, <1>4, <2>11, Zenon DEF WholeRead, BlockFault, Tries
  <2>13. QED
    BY <2>1, <2>10, <2>12, Zenon
<1>9. WholeInv'
  BY <1>1, <1>2, <1>8, HostConclude, Zenon
<1>10. QED
  BY <1>7, <1>9, Zenon

\* The end of a call that succeeds.
LEMMA LastInStep ==
    ASSUME StepBase, NEW t \in Threads, LastStep(t) PROVE StepInv' /\ WholeInv'
<1>1. \A u \in Threads : u # t => call'[u].pc = "idle" /\ call'[u] = call[u]
  BY OthersIdle, Zenon DEF StepBase
<1>2. PICK m \in Reply :
        /\ Answered(t, m) /\ m.ok /\ call[t].words \subseteq m.words
        /\ call'[t].pc = "idle" /\ call'[t].kind = call[t].kind
        /\ call'[t].values = Merged(call[t], m) /\ call'[t].code = "ok"
        /\ started' = TRUE /\ UNCHANGED <<sequence_, requests, gave_up>>
        /\ UNCHANGED <<block_enable_, next_sequence, reg>>
  BY Zenon DEF LastStep, deviceUnchanged
<1>3. /\ call[t].pc # "idle"
      /\ ~gave_up /\ Same => Rest
      /\ Clean => Shows(t, m)
  BY <1>2, AnsweredFacts, Zenon
<1>4. Clean => Whole(t)
  BY <1>3, InCall, Zenon
<1>5. ASSUME ~gave_up PROVE Same
  <2>1. CASE ~started
    BY <2>1, Zenon DEF StepBase, UnstartedInv
  <2>2. CASE started /\ call[t].kind # "write"
    BY <1>4, <1>5, <2>2, Zenon DEF Clean, Whole
  <2>3. CASE started /\ call[t].kind = "write"
    <3>1. \A r \in Registers : reg[r] = call[t].id
      <4>1. Whole(t) /\ Shows(t, m)
        BY <1>3, <1>4, <1>5, <2>3, Zenon DEF Clean
      <4>2. \A r \in Registers \ call[t].words : reg[r] = call[t].id
        BY <2>3, <4>1, Zenon DEF Whole
      <4>3. \A r \in m.words : reg[r] = call[t].id
        BY <2>3, <4>1, Zenon DEF Shows
      <4>4. QED
        BY <1>2, <4>2, <4>3, Zenon
    <3>2. QED
      BY <3>1, Zenon DEF Same
  <2>4. QED
    BY <2>1, <2>2, <2>3, Zenon
<1>6. ASSUME ~gave_up' PROVE Rest'
  <2>1. ~gave_up
    BY <1>2, <1>6
  <2>2. Rest
    BY <1>3, <1>5, <2>1, Zenon
  <2>3. QED
    BY <1>2, <2>2, Zenon DEF Rest, Same, Idem, After
<1>7. StepInv'
  BY <1>1, <1>2, <1>6, HostConclude, Zenon
<1>8. "ok" # "fault" /\ "start" # "read" /\ "read" # "write"
  OBVIOUS
<1>9. BlockFault(t)'
  BY <1>2, <1>8, Zenon DEF BlockFault
<1>10. CASE ~started
  <2>1. \A u \in Threads : call[u].kind = "start" /\ call[u].code # "fault"
    BY <1>10, Zenon DEF StepBase, UnstartedInv
  <2>2. ASSUME NEW u \in Threads PROVE WholeRead(u)' /\ BlockFault(u)' /\ call'[u].pc = "idle"
    <3>1. CASE u = t
      BY <1>2, <1>8, <1>9, <2>1, <2>2, <3>1, Zenon DEF WholeRead
    <3>2. CASE u # t
      BY <1>1, <1>8, <2>1, <2>2, <3>2, Zenon DEF WholeRead, BlockFault
    <3>3. QED
      BY <3>1, <3>2, Zenon
  <2>3. WholeInv'
    BY <2>2, Zenon DEF WholeInv, Busy
  <2>4. QED
    BY <1>7, <2>3, Zenon
<1>11. CASE started
  <2>1. ASSUME Clean' PROVE Clean
    <3>1. ~gave_up
      BY <1>2, <2>1 DEF Clean
    <3>2. QED
      BY <1>11, <3>1, Zenon DEF Clean
  <2>2. ASSUME Clean PROVE WholeRead(t)'
    <3>1. Whole(t) /\ Shows(t, m)
      BY <1>3, <1>4, <2>2, Zenon
    <3>2. ASSUME call[t].kind = "read" PROVE \A r \in Registers : Merged(call[t], m)[r] = reg[r]
      <4>1. m.values = reg
        BY <1>8, <3>1, <3>2, Zenon DEF Shows
      <4>2. \A r \in Registers \ call[t].words : call[t].values[r] = reg[r]
        BY <3>1, <3>2, Zenon DEF Whole
      <4>3. ASSUME NEW r \in Registers PROVE Merged(call[t], m)[r] = reg[r]
        <5>1. Merged(call[t], m)[r] = IF r \in m.words THEN m.values[r] ELSE call[t].values[r]
          BY <4>3, Zenon DEF Merged
        <5>2. CASE r \in m.words
          <6>1. Merged(call[t], m)[r] = m.values[r]
            BY <5>1, <5>2, Zenon
          <6>2. QED
            BY <4>1, <6>1, Zenon
        <5>3. CASE r \notin m.words
          BY <1>2, <4>2, <4>3, <5>1, <5>3, Zenon
        <5>4. QED
          BY <5>2, <5>3, Zenon
      <4>4. QED
        BY <4>3, Zenon
    <3>3. call[t].kind = "read" => Same
      BY <1>8, <3>1, Zenon DEF Whole
    <3>4. ASSUME call[t].kind = "read", NEW r \in Registers, NEW q \in Registers
          PROVE  call'[t].values[r] = call'[t].values[q]
      <4>1. Merged(call[t], m)[r] = reg[r] /\ Merged(call[t], m)[q] = reg[q] /\ reg[r] = reg[q]
        BY <3>2, <3>3, <3>4, Zenon DEF Same
      <4>2. QED
        BY <1>2, <4>1, Zenon
    <3>5. QED
      BY <1>2, <3>4, Zenon DEF WholeRead
  <2>3. WholeInv'
    BY <1>1, <1>2, <1>9, <2>1, <2>2, HostConclude, Zenon
  <2>4. QED
    BY <1>7, <2>3, Zenon
<1>12. QED
  BY <1>10, <1>11, Zenon

\* A fault, only of a block read that was repeated, and giving up.
LEMMA FaultInStep ==
    ASSUME StepBase, NEW t \in Threads, FaultStep(t) \/ GiveUpStep(t) PROVE StepInv' /\ WholeInv'
<1>1. \A u \in Threads : u # t => call'[u].pc = "idle" /\ call'[u] = call[u]
  BY OthersIdle, Zenon DEF StepBase
<1>2. call'[t].pc = "idle" /\ UNCHANGED block_enable_
  BY Zenon DEF FaultStep, GiveUpStep, deviceUnchanged
<1>3. CASE GiveUpStep(t)
  <2>1. gave_up'
    BY <1>3, Zenon DEF GiveUpStep
  <2>2. QED
    BY <2>1, Zenon DEF StepInv, WholeInv, Clean
<1>4. CASE FaultStep(t)
  <2>1. PICK m \in Reply :
          /\ Answered(t, m) /\ ~m.ok /\ Keeps(t)
          /\ call'[t].code = "fault" /\ call'[t].tries = call[t].tries
          /\ UNCHANGED <<sequence_, started, requests, gave_up>>
          /\ UNCHANGED <<block_enable_, next_sequence, reg>>
    BY <1>4, Zenon DEF FaultStep, deviceUnchanged
  <2>2. /\ call[t].pc # "idle" /\ started
        /\ ~gave_up /\ Same => Rest
        /\ ~gave_up => BlockRead(t)
    BY <2>1, AnsweredFacts, Zenon
  <2>3. Clean => Whole(t)
    BY <2>2, InCall, Zenon
  <2>4. "read" # "write" /\ "fault" # "ok"
    OBVIOUS
  <2>5. ~gave_up => Rest
    BY <2>2, <2>3, <2>4, Zenon DEF Whole, Clean, BlockRead
  <2>6. ~gave_up' => Rest'
    BY <2>1, <2>5, Zenon DEF Rest, Same, Idem, After
  <2>7. StepInv'
    BY <1>1, <1>2, <2>6, HostConclude, Zenon
  <2>8. Clean' => Clean
    BY <2>1, Zenon DEF Clean
  <2>9. Clean => BlockFault(t)'
    BY <2>1, <2>2, Zenon DEF Clean, BlockFault, BlockRead, Keeps
  <2>10. WholeRead(t)'
    BY <2>1, <2>4, Zenon DEF WholeRead
  <2>11. WholeInv'
    BY <1>1, <1>2, <2>8, <2>9, <2>10, HostConclude, Zenon
  <2>12. QED
    BY <2>7, <2>11, Zenon
<1>5. QED
  BY <1>3, <1>4, Zenon

\* A refused request: only the repetition of a block read is refused.
LEMMA RefuseInStep ==
    ASSUME StepBase, TypeOK', [Next]_vars, RefuseStep PROVE StepInv' /\ WholeInv'
<1>1. TypeOK /\ CallInv /\ StepInv /\ WholeInv
  BY Zenon DEF StepBase
<1>2. PICK m \in Request : Handles(m, FALSE) /\ m.check /\ m.sequence # next_sequence
  BY <1>1, DeviceFacts, Zenon
<1> DEFINE e == ReplyTo(m, FALSE)
<1>3. /\ m = requests[1] /\ 1 \in 1..Len(requests) /\ PoppedFrom(requests, requests')
      /\ requests # <<>> /\ requests' = Tail(requests)
      /\ PushedFrom(replies, replies', e) /\ e.sequence = m.sequence /\ e.ok = FALSE
  BY <1>2, Zenon DEF Handles
<1> HIDE DEF e
<1>4. /\ UNCHANGED <<sequence_, execute_mutex_, started, call, gave_up>>
      /\ UNCHANGED <<block_enable_, next_sequence, reg>>
  BY Zenon DEF RefuseStep, deviceUnchanged
<1>5. Fewer(requests, requests')
  BY <1>1, <1>3, FewerFacts, Zenon
<1>6. started
  BY <1>2, <1>3, Zenon DEF StepBase, UnstartedInv
<1>7. ASSUME NEW u \in Threads
      PROVE  /\ BlockRead(u) => BlockRead(u)'
             /\ \A n : Idem(n) => Idem(n)'
             /\ \A n : Shows(u, n) => Shows(u, n)'
             /\ (Repeats(u) => Repeats(u)') /\ (Expected(u) => Expected(u)')
             /\ (Ordered(u) => Ordered(u)') /\ (Written(u) => Written(u)')
  <2>1. RequestKept(u)
    BY <1>4, Zenon DEF RequestKept
  <2>2. QED
    BY <1>1, <1>3, <1>4, <1>5, <1>7, <2>1, KeptParts, Zenon
<1>8. ASSUME NEW u \in Threads, Pending(u) PROVE Pending(u)'
  <2>1. next_sequence = call[u].sequence
    BY <1>6, <1>8, Zenon DEF Pending, Expected
  <2>2. e.sequence # call[u].sequence
    BY <1>2, <1>3, <2>1, Zenon
  <2>3. NoReply(u)'
    BY <1>3, <1>4, <1>8, <2>2, Zenon DEF Pending, NoReply, PushedFrom
  <2>4. QED
    BY <1>7, <1>8, <2>3, Zenon DEF Pending
<1>9. ASSUME NEW u \in Threads, Handled(u) PROVE Handled(u)'
  <2>1. BlockRead(u)'
    BY <1>2, <1>3, <1>7, <1>9, Zenon DEF Handled, Repeats
  <2>2. Faults(u)'
    BY <2>1, Zenon DEF Faults
  <2>3. QED
    BY <1>4, <1>7, <1>9, <2>2, Zenon DEF Handled
<1>10. Rest => Rest'
  <2>1. \A n : Idem(n) => Idem(n)'
    BY <1>4, Zenon DEF Idem
  <2>2. QED
    BY <1>4, <1>5, <2>1, Zenon DEF Rest, Same, Fewer, After
<1>11. StepInv'
  BY <1>1, <1>4, <1>8, <1>9, <1>10, Zenon DEF StepInv, Busy
<1>12. ASSUME NEW u \in Threads
       PROVE  /\ WholeRead(u) => WholeRead(u)'
              /\ BlockFault(u) => BlockFault(u)'
              /\ Whole(u) => Whole(u)'
  <2>1. WholeRead(u) => WholeRead(u)'
    BY <1>4, Zenon DEF WholeRead
  <2>2. BlockFault(u) => BlockFault(u)'
    BY <1>4, <1>7, <1>12, Zenon DEF BlockFault
  <2>3. Shown(u) => Shown(u)'
    BY <1>3, <1>4, <1>7, <1>12, Zenon DEF Shown, PushedFrom
  <2>4. Whole(u) => Whole(u)'
    BY <1>4, <2>3, Zenon DEF Whole, Same
  <2>5. QED
    BY <2>1, <2>2, <2>4, Zenon
<1>13. WholeInv'
  BY <1>1, <1>4, <1>12, Zenon DEF WholeInv, Busy, Clean
<1>14. QED
  BY <1>11, <1>13, Zenon

\* An executed request: the one in hand, or one that changes nothing.
LEMMA ExecuteInStep ==
    ASSUME StepBase, TypeOK', [Next]_vars, ExecuteStep PROVE StepInv' /\ WholeInv'
<1>1. TypeOK /\ CallInv /\ StepInv /\ WholeInv
  BY Zenon DEF StepBase
<1>2. PICK m \in Request :
        /\ Handles(m, TRUE) /\ next_sequence' = After(m.sequence)
        /\ \A r \in Registers : reg'[r] = IF m.write /\ r \in m.words THEN m.id ELSE reg[r]
  BY <1>1, DeviceFacts, Zenon
<1> DEFINE e == ReplyTo(m, TRUE)
<1>3. /\ m = requests[1] /\ 1 \in 1..Len(requests) /\ PoppedFrom(requests, requests')
      /\ requests # <<>> /\ requests' = Tail(requests)
      /\ PushedFrom(replies, replies', e) /\ e.sequence = m.sequence /\ e.ok = TRUE
      /\ e.words = m.words /\ e.values = reg'
  BY <1>2, Zenon DEF Handles
<1> HIDE DEF e
<1>4. UNCHANGED <<sequence_, execute_mutex_, started, call, gave_up, block_enable_>>
  BY Zenon DEF ExecuteStep
<1>5. Fewer(requests, requests')
  BY <1>1, <1>3, FewerFacts, Zenon
<1>6. ASSUME Idem(m) \/ ~m.write PROVE reg' = reg
  BY <1>1, <1>2, <1>6, IdemKeeps, Zenon
<1>7. ASSUME reg' = reg, NEW u \in Threads
      PROVE  /\ BlockRead(u) => BlockRead(u)'
             /\ \A n : Idem(n) => Idem(n)'
             /\ \A n : Shows(u, n) => Shows(u, n)'
             /\ (Repeats(u) => Repeats(u)')
             /\ (Ordered(u) => Ordered(u)') /\ (Written(u) => Written(u)')
  <2>1. RequestKept(u)
    BY <1>4, <1>7, Zenon DEF RequestKept
  <2>2. QED
    BY <1>1, <1>3, <1>5, <1>7, <2>1, KeptParts, Zenon
<1>8. ASSUME Rest PROVE Rest'
  <2>1. After(m.sequence) = sequence_ /\ Idem(m)
    BY <1>3, <1>8, Zenon DEF Rest
  <2>2. reg' = reg
    BY <1>6, <2>1, Zenon
  <2>3. \A n : Idem(n) => Idem(n)'
    BY <2>2, Zenon DEF Idem
  <2>4. next_sequence' = sequence_'
    BY <1>2, <1>4, <2>1, Zenon
  <2>5. Same'
    BY <1>8, <2>2, Zenon DEF Rest, Same
  <2>6. QED
    BY <1>4, <1>5, <1>8, <2>3, <2>4, <2>5, Zenon DEF Rest, Fewer, After
<1>9. ASSUME NEW u \in Threads, Handled(u), call[u].pc # "idle"
      PROVE  reg' = reg /\ m.sequence = call[u].sequence /\ Handled(u)'
  <2>1. m.sequence = call[u].sequence /\ Idem(m)
    BY <1>3, <1>9, Zenon DEF Handled, Repeats
  <2>2. reg' = reg
    BY <1>6, <2>1, Zenon
  <2>3. sequence_ = After(call[u].sequence)
    BY <1>9, InCall, Zenon
  <2>4. next_sequence' = sequence_'
    BY <1>2, <1>4, <2>1, <2>3, Zenon
  <2>5. Faults(u)'
    BY <1>3, <1>4, <1>7, <1>9, <2>2, Zenon DEF Handled, Faults, PushedFrom
  <2>6. Handled(u)'
    BY <1>4, <1>7, <1>9, <2>2, <2>4, <2>5, Zenon DEF Handled
  <2>7. QED
    BY <2>1, <2>2, <2>6, Zenon
<1>10. ASSUME NEW u \in Threads, Pending(u), call[u].pc # "idle", m.sequence # call[u].sequence
       PROVE  reg' = reg /\ Pending(u)'
  <2>1. started => After(m.sequence) = call[u].sequence /\ Idem(m)
    BY <1>3, <1>10, Zenon DEF Pending, Expected
  <2>2. ~started => ~m.write
    BY <1>3, Zenon DEF StepBase, UnstartedInv
  <2>3. reg' = reg
    BY <1>6, <2>1, <2>2, Zenon
  <2>4. NoReply(u)'
    BY <1>3, <1>4, <1>10, Zenon DEF Pending, NoReply, PushedFrom
  <2>5. Ordered(u)' /\ \A n : Idem(n) => Idem(n)'
    BY <1>7, <1>10, <2>3, Zenon DEF Pending
  <2>6. Expected(u)'
    BY <1>2, <1>4, <1>5, <1>10, <2>1, <2>5, Zenon DEF Pending, Expected, Fewer, After
  <2>7. QED
    BY <2>3, <2>4, <2>5, <2>6, Zenon DEF Pending
<1>11. ASSUME NEW u \in Threads, Pending(u), call[u].pc # "idle", m.sequence = call[u].sequence
       PROVE  Handled(u)'
  <2>1. Tries(u) /\ OwnRequests(u) /\ sequence_ = After(call[u].sequence)
    BY <1>11, InCall, Zenon
  <2>2. call[u].tries # 0
    BY <1>3, <1>11, <2>1, Zenon DEF Tries
  <2>3. call[u].tries \in 0..MaxTries
    BY <1>1, <1>11, StateTypes, CallTypes, Zenon
  <2>4. call[u].tries > 0
    BY <2>2, <2>3
  <2>5. next_sequence' = sequence_'
    BY <1>2, <1>4, <1>11, <2>1, Zenon
  <2>6. Own(u, m) /\ m.words \subseteq Registers
    BY <1>3, <1>11, <2>1, MessageTypes, Zenon DEF OwnRequests
  <2>7. m.write => \A r \in m.words : reg'[r] = m.id
    BY <1>2, <2>6, Zenon
  <2>8. Written(u)'
    BY <1>4, <2>6, <2>7, Zenon DEF Written, Own, Batch, Block
  <2>9. \A i \in 1..Len(requests') : 1 < i + 1
    BY <1>1, <1>3, RequestOrder, Zenon
  <2>10. ASSUME NEW i \in 1..Len(requests')
         PROVE  /\ requests'[i].sequence = call[u].sequence
                /\ requests'[i].check => BlockRead(u)
                /\ requests'[i].id = m.id /\ requests'[i].write = m.write
                /\ requests'[i].words = m.words
    <3>1. i + 1 \in 1..Len(requests) /\ requests'[i] = requests[i + 1] /\ 1 < i + 1
      BY <1>3, <2>9, <2>10, Zenon DEF PoppedFrom
    <3>2. requests[i + 1].sequence = call[u].sequence /\ (requests[i + 1].check => BlockRead(u))
      BY <1>3, <1>11, <3>1, Zenon DEF Pending, Ordered
    <3>3. Own(u, requests[i + 1])
      BY <2>1, <3>1, <3>2, Zenon DEF OwnRequests
    <3>4. QED
      BY <2>6, <3>1, <3>2, <3>3, Zenon DEF Own
  <2>11. BlockRead(u) => BlockRead(u)'
    BY <1>4, Zenon DEF BlockRead
  <2>12. Repeats(u)'
    BY <1>4, <2>7, <2>10, <2>11, Zenon DEF Repeats, Idem
  <2>13. Faults(u)'
    BY <1>3, <1>4, <1>11, Zenon DEF Pending, NoReply, Faults, PushedFrom
  <2>14. QED
    BY <1>4, <2>4, <2>5, <2>8, <2>12, <2>13, Zenon DEF Handled
<1>12. StepInv'
  <2>1. ASSUME ~gave_up, NEW u \in Threads, call[u].pc # "idle" PROVE Pending(u)' \/ Handled(u)'
    <3>1. Pending(u) \/ Handled(u)
      BY <2>1, InCall, Zenon
    <3>2. QED
      BY <1>9, <1>10, <1>11, <2>1, <3>1, Zenon
  <2>2. QED
    BY <1>1, <1>4, <1>8, <2>1, Zenon DEF StepInv, Busy
<1>13. ASSUME NEW u \in Threads
       PROVE  (WholeRead(u) => WholeRead(u)') /\ (BlockFault(u) => BlockFault(u)')
  BY <1>4, <1>13, Zenon DEF WholeRead, BlockFault, BlockRead
<1>14. ASSUME NEW u \in Threads, Clean, call[u].pc # "idle" PROVE Whole(u)'
  <2>1. Whole(u) /\ OwnRequests(u) /\ (Pending(u) \/ Handled(u))
    BY <1>14, InCall, Zenon DEF Clean
  <2>2. CASE m.sequence # call[u].sequence
    <3>1. reg' = reg
      BY <1>9, <1>10, <1>14, <2>1, <2>2, Zenon
    <3>2. \A n : Shows(u, n) => Shows(u, n)'
      BY <1>7, <1>14, <3>1, Zenon
    <3>3. Shown(u)'
      BY <1>3, <1>4, <2>1, <2>2, <3>2, Zenon DEF Whole, Shown, PushedFrom
    <3>4. QED
      BY <1>4, <2>1, <3>1, <3>3, Zenon DEF Whole, Same
  <2>3. CASE m.sequence = call[u].sequence /\ call[u].kind # "write"
    <3>1. ~m.write
      BY <1>3, <2>1, <2>3, Zenon DEF OwnRequests, Own
    <3>2. reg' = reg
      BY <1>6, <3>1, Zenon
    <3>3. \A n : Shows(u, n) => Shows(u, n)'
      BY <1>7, <1>14, <3>2, Zenon
    <3>4. ASSUME NEW i \in 1..Len(replies'), replies'[i].sequence = call[u].sequence, replies'[i].ok
          PROVE  replies'[i].values = reg'
      <4>1. CASE i \in 1..Len(replies) /\ replies'[i] = replies[i]
        BY <2>1, <2>3, <3>2, <3>4, <4>1, Zenon DEF Whole, Shown, Shows
      <4>2. CASE replies'[i] = e
        BY <1>3, <4>2, Zenon
      <4>3. QED
        BY <1>3, <3>4, <4>1, <4>2, Zenon DEF PushedFrom
    <3>5. Shown(u)'
      BY <1>4, <2>3, <3>4, Zenon DEF Shown, Shows
    <3>6. QED
      BY <1>4, <2>1, <3>2, <3>5, Zenon DEF Whole, Same
  <2>4. CASE m.sequence = call[u].sequence /\ call[u].kind = "write"
    <3>1. m.id = call[u].id /\ m.write
      BY <1>3, <2>1, <2>4, Zenon DEF OwnRequests, Own
    <3>2. \A r \in Registers : reg[r] = call[u].id => reg'[r] = call[u].id
      BY <1>2, <3>1, Zenon
    <3>3. \A r \in m.words : reg'[r] = call[u].id
      BY <1>2, <3>1, MessageTypes, Zenon
    <3>4. ASSUME NEW i \in 1..Len(replies'), replies'[i].sequence = call[u].sequence, replies'[i].ok
          PROVE  \A r \in replies'[i].words : reg'[r] = call[u].id
      <4>1. CASE i \in 1..Len(replies) /\ replies'[i] = replies[i]
        <5>1. \A r \in replies[i].words : reg[r] = call[u].id
          BY <2>1, <2>4, <3>4, <4>1, Zenon DEF Whole, Shown, Shows
        <5>2. replies[i].words \subseteq Registers
          BY <1>1, <4>1, StateTypes, MessageTypes, Zenon
        <5>3. QED
          BY <3>2, <4>1, <5>1, <5>2, Zenon
      <4>2. CASE replies'[i] = e
        BY <1>3, <3>3, <4>2, Zenon
      <4>3. QED
        BY <1>3, <3>4, <4>1, <4>2, Zenon DEF PushedFrom
    <3>5. Shown(u)'
      BY <1>4, <2>4, <3>4, Zenon DEF Shown, Shows
    <3>6. "read" # "write"
      OBVIOUS
    <3>7. QED
      BY <1>4, <2>1, <2>4, <3>2, <3>5, <3>6, Zenon DEF Whole
  <2>5. QED
    BY <2>2, <2>3, <2>4, Zenon
<1>15. WholeInv'
  BY <1>1, <1>4, <1>13, <1>14, Zenon DEF WholeInv, Busy, Clean
<1>16. QED
  BY <1>12, <1>15, Zenon

-----------------------------------------------------------------------------
(* The theorems. *)

ControlInv ==
    /\ TypeOK /\ CallInv /\ MutexInv /\ OwnInv /\ DoneInv /\ TriesInv /\ UnstartedInv
    /\ StepInv /\ WholeInv

\* Every step keeps the invariant as long as no number is given out again
\* while a packet carries it.
LEMMA NextControl == ControlInv /\ NotReused /\ [Next]_vars => ControlInv'
<1>1. SUFFICES ASSUME ControlInv, NotReused, [Next]_vars PROVE ControlInv'
  OBVIOUS
<1>2. TypeOK' /\ CallInv' /\ MutexInv' /\ OwnInv' /\ DoneInv' /\ TriesInv' /\ UnstartedInv'
  BY <1>1, NextType, NextCall, NextMutex, NextOwn, NextDone, NextTries, NextUnstarted, Zenon
     DEF ControlInv
<1>3. StepBase
  BY <1>1, Zenon DEF ControlInv, StepBase
<1>4. StepInv' /\ WholeInv'
  <2>1. \/ UNCHANGED vars \/ ReplyGone \/ RequestGone \/ RefuseStep \/ ExecuteStep
        \/ \E t \in Threads : \/ BeginStep(t) \/ SendStep(t) \/ MoreStep(t) \/ LastStep(t)
                              \/ FaultStep(t) \/ RetryStep(t) \/ GiveUpStep(t)
    BY <1>1, StepCases, Zenon DEF ControlInv
  <2>2. QED
    BY <1>1, <1>2, <1>3, <2>1, NetworkInStep, RefuseInStep, ExecuteInStep, BeginInStep,
       SendInStep, MoreInStep, LastInStep, FaultInStep, Zenon
<1>5. QED
  BY <1>2, <1>4, Zenon DEF ControlInv

\* The initial state satisfies it.
LEMMA InitControl == Init => ControlInv
<1>1. SUFFICES ASSUME Init PROVE ControlInv
  OBVIOUS
<1>2. TypeOK /\ CallInv
  BY <1>1, InitTypes, Zenon
<1>3. /\ execute_mutex_ = None /\ started = FALSE
      /\ call = [t \in Threads |-> NoCall] /\ requests = <<>> /\ replies = <<>>
      /\ reg = [r \in Registers |-> 0]
  BY <1>1, Zenon DEF Init
<1>4. /\ NoCall.pc = "idle" /\ NoCall.kind = "start" /\ NoCall.code = "none"
      /\ NoCall.check = FALSE
  BY DEF NoCall
<1>5. \A t \in Threads : call[t] = NoCall
  BY <1>3, Zenon
<1>6. Len(requests) = 0 /\ Len(replies) = 0
  BY <1>3
<1>7. 1..Len(requests) = {} /\ 1..Len(replies) = {}
  BY <1>6
<1>8. Same
  BY <1>3, Zenon DEF Same
<1>9. /\ "start" # "write" /\ "start" # "read" /\ "start" # "read1" /\ "none" # "ok"
      /\ "none" # "fault" /\ "idle" # "wait" /\ "idle" # "send"
  OBVIOUS
<1>10. MutexInv /\ OwnInv /\ StepInv
  BY <1>3, <1>4, <1>5, Zenon DEF MutexInv, OwnInv, StepInv, Busy
<1>11. DoneInv /\ TriesInv
  BY <1>4, <1>5, <1>9, Zenon DEF DoneInv, Done, TriesInv, Tries
<1>12. UnstartedInv
  BY <1>4, <1>5, <1>7, <1>8, <1>9, Zenon DEF UnstartedInv
<1>13. WholeInv
  BY <1>3, Zenon DEF WholeInv, Clean
<1>14. QED
  BY <1>2, <1>10, <1>11, <1>12, <1>13, Zenon DEF ControlInv

\* Host, network and device satisfy the invariant while no sequence number
\* is given out again before the packets that carry it are gone.
THEOREM ControlInvariant == SafetySpec /\ []NotReused => []ControlInv
  BY InitControl, NextControl, PTL DEF SafetySpec

\* A write_uint32 that returns true was executed by the device, every word
\* of it, and a read_uint32 returns values the registers had during the call,
\* whole unless a call was given up: for any number of threads, words and
\* retries and any loss or delay of packets.
THEOREM CallsAreCorrect == SafetySpec /\ []NotReused => []CallsCorrect
<1>1. ControlInv => CallsCorrect
  BY DoneMeans, StepMeans, Zenon DEF ControlInv, CallsCorrect
<1>2. QED
  BY <1>1, ControlInvariant, PTL

\* The sequence numbers of host and device agree whenever nothing is on its
\* way, and no loss turns into a sequence fault but that of a block read.
THEOREM HostAndDeviceInStep == SafetySpec /\ []NotReused => []InStep
<1>1. ControlInv => InStep
  BY StepMeans, Zenon DEF ControlInv, InStep
<1>2. QED
  BY <1>1, ControlInvariant, PTL

-----------------------------------------------------------------------------
(* The first lap of the sequence numbers. *)

\* All the requests of the run get different numbers.
OneLap == MaxCalls * Words < SeqMod

\* A reply with the number of the call in progress names the words it asked for.
ReplyWords(t) ==
    \A i \in 1..Len(replies) :
        replies[i].sequence = call[t].sequence => replies[i].words = Batch(call[t].kind, call[t].words)
Counted(t) ==
    /\ call[t].sequence < sequence_ /\ ReplyWords(t)
    /\ sequence_ + Cardinality(call[t].words) <= calls * Words + 1

\* In the first lap every message carries an earlier number than the next
\* one, and a call uses up at most one number for each of its words.
LapInv ==
    /\ \A i \in 1..Len(requests) : requests[i].sequence < sequence_
    /\ \A i \in 1..Len(replies) : replies[i].sequence < sequence_
    /\ sequence_ <= calls * Words
    /\ \A t \in Threads : Busy(t) => Counted(t)

\* Sets of registers are finite, and a reply takes some of those left.
LEMMA WordCounts ==
    /\ \A s \in SUBSET Registers : Cardinality(s) \in Nat /\ Cardinality(s) <= Words
    /\ \A s \in SUBSET Registers : s # {} => Cardinality(s) > 0
    /\ \A s \in SUBSET Registers : \A kind : s # {} =>
          Cardinality(s \ Batch(kind, s)) + 1 <= Cardinality(s)
<1>1. IsFiniteSet(Registers) /\ Cardinality(Registers) = Words
  <2>1. Words \in Nat /\ Words > 0
    BY ControlAssumption
  <2>2. IsFiniteSet(1..Words) /\ Cardinality(1..Words) = IF 1 > Words THEN 0 ELSE Words - 1 + 1
    BY <2>1, FS_Interval
  <2>3. QED
    BY <2>1, <2>2 DEF Registers
<1>2. ASSUME NEW s \in SUBSET Registers
      PROVE  IsFiniteSet(s) /\ Cardinality(s) \in Nat /\ Cardinality(s) <= Words
  <2>1. IsFiniteSet(s) /\ Cardinality(s) <= Cardinality(Registers)
    BY <1>1, FS_Subset, Zenon
  <2>2. Cardinality(s) \in Nat
    BY <2>1, FS_CardinalityType, Zenon
  <2>3. QED
    BY <1>1, <2>1, <2>2, Zenon
<1>3. ASSUME NEW s \in SUBSET Registers, s # {} PROVE Cardinality(s) > 0
  <2>1. Cardinality(s) \in Nat /\ Cardinality(s) # 0
    BY <1>2, <1>3, FS_EmptySet, Zenon
  <2>2. QED
    BY <2>1
<1>4. ASSUME NEW s \in SUBSET Registers, NEW kind, s # {}
      PROVE  Cardinality(s \ Batch(kind, s)) + 1 <= Cardinality(s)
  <2>1. Batch(kind, s) \subseteq s
    BY <1>4, BatchFacts
  <2>2. Batch(kind, s) # {}
    BY <1>4, Zenon DEF Batch
  <2> DEFINE d == s \ Batch(kind, s)
  <2>3. d \in SUBSET s /\ d # s /\ d \in SUBSET Registers
    BY <2>1, <2>2, Zenon
  <2> HIDE DEF d
  <2>4. Cardinality(d) <= Cardinality(s) /\ Cardinality(s) # Cardinality(d)
    BY <1>2, <1>4, <2>3, FS_Subset
  <2>5. Cardinality(d) \in Nat /\ Cardinality(s) \in Nat
    BY <1>2, <1>4, <2>3, Zenon
  <2>6. Cardinality(d) + 1 <= Cardinality(s)
    BY <2>4, <2>5
  <2>7. QED
    BY <2>6, Zenon DEF d
<1>5. QED
  BY <1>2, <1>3, <1>4, Zenon

\* The numbers do not wrap.
LEMMA NoWrap ==
    ASSUME OneLap, TypeOK
    PROVE  /\ sequence_ \in Nat /\ calls \in Nat /\ calls * Words \in Nat
           /\ calls <= MaxCalls /\ (calls + 1) * Words = calls * Words + Words
           /\ sequence_ + 1 <= calls * Words => (sequence_ + 1) % SeqMod = sequence_ + 1
           /\ calls < MaxCalls /\ sequence_ <= calls * Words =>
                 (sequence_ + 1) % SeqMod = sequence_ + 1
<1>1. sequence_ \in SeqNums /\ calls \in 0..MaxCalls
  BY StateTypes, Zenon
<1>2. Words \in Nat /\ Words > 0 /\ MaxCalls \in Nat /\ SeqMod \in Nat /\ SeqMod > 0
  BY ControlAssumption
<1>3. sequence_ \in Nat /\ calls \in Nat /\ calls <= MaxCalls
  BY <1>1, <1>2 DEF SeqNums
<1>4. \A a, b \in Nat : a * b \in Nat /\ (a + 1) * b = a * b + b
  OBVIOUS
<1>5. \A a, b, c \in Nat : a <= b => a * c <= b * c
  OBVIOUS
<1>6. calls * Words \in Nat /\ MaxCalls * Words \in Nat /\ calls * Words <= MaxCalls * Words
      /\ (calls + 1) * Words = calls * Words + Words
  BY <1>2, <1>3, <1>4, <1>5
<1>7. MaxCalls * Words < SeqMod
  BY Zenon DEF OneLap
<1>8. \A x \in Nat : x < SeqMod => x % SeqMod = x
  BY <1>2
<1>9. sequence_ + 1 <= calls * Words => (sequence_ + 1) % SeqMod = sequence_ + 1
  <2>1. sequence_ + 1 <= calls * Words => sequence_ + 1 < SeqMod
    BY <1>2, <1>3, <1>6, <1>7
  <2>2. QED
    BY <1>3, <1>8, <2>1
<1>10. ASSUME calls < MaxCalls, sequence_ <= calls * Words
       PROVE  (sequence_ + 1) % SeqMod = sequence_ + 1
  <2>1. calls + 1 <= MaxCalls /\ calls + 1 \in Nat
    BY <1>2, <1>3, <1>10
  <2>2. (calls + 1) * Words <= MaxCalls * Words
    BY <1>2, <1>5, <2>1
  <2>3. sequence_ + 1 < SeqMod
    BY <1>2, <1>3, <1>6, <1>7, <1>10, <2>2
  <2>4. QED
    BY <1>3, <1>8, <2>3
<1>11. QED
  BY <1>3, <1>6, <1>9, <1>10, Zenon

\* In the first lap no number is on its way when it is given out.
LEMMA LapMeans == TypeOK /\ LapInv => NotReused
<1>1. SUFFICES ASSUME TypeOK, LapInv PROVE NotReused
  OBVIOUS
<1>2. sequence_ \in SeqNums
  BY <1>1, StateTypes, Zenon
<1>3. sequence_ \in Nat
  BY <1>2, ControlAssumption DEF SeqNums
<1>4. \A x : x < sequence_ => x # sequence_
  BY <1>3
<1>5. QED
  BY <1>1, <1>4, Zenon DEF LapInv, NotReused

\* Every step keeps LapInv.
LEMMA NextLap == OneLap /\ ControlInv /\ LapInv /\ [Next]_vars => LapInv'
<1>1. SUFFICES ASSUME OneLap, ControlInv, LapInv, [Next]_vars PROVE LapInv'
  OBVIOUS
<1>2. TypeOK /\ CallInv /\ MutexInv /\ OwnInv
  BY <1>1, Zenon DEF ControlInv
<1>3. /\ \A i \in 1..Len(requests) : requests[i].sequence < sequence_
      /\ \A i \in 1..Len(replies) : replies[i].sequence < sequence_
      /\ sequence_ <= calls * Words
      /\ \A u \in Threads : call[u].pc # "idle" => Counted(u)
  BY <1>1, Zenon DEF LapInv, Busy
<1>4. "send" # "idle" /\ "wait" # "idle"
  OBVIOUS
<1>5. ASSUME requests' = requests \/ (requests # <<>> /\ requests' = Tail(requests))
      PROVE  Fewer(requests, requests')
  BY <1>2, <1>5, FewerFacts, Zenon
<1>6. ASSUME replies' = replies \/ (replies # <<>> /\ replies' = Tail(replies))
      PROVE  Fewer(replies, replies')
  BY <1>2, <1>6, FewerFacts, Zenon
<1>7. ASSUME NEW u \in Threads, Counted(u), UNCHANGED <<sequence_, calls, block_enable_>>,
             call'[u].sequence = call[u].sequence, call'[u].kind = call[u].kind,
             call'[u].words = call[u].words, Fewer(replies, replies') \/ ReplyWords(u)'
      PROVE  Counted(u)'
  <2>1. ReplyWords(u)'
    BY <1>7, Zenon DEF Counted, ReplyWords, Fewer, Batch, Block
  <2>2. QED
    BY <1>7, <2>1, Zenon DEF Counted
<1>8. CASE UNCHANGED vars \/ ReplyGone \/ RequestGone
  <2>1. UNCHANGED <<call, sequence_, calls, block_enable_>>
    BY <1>8, Zenon DEF vars, hostVars, ReplyGone, RequestGone, deviceUnchanged
  <2>2. Fewer(requests, requests') /\ Fewer(replies, replies')
    BY <1>5, <1>6, <1>8, Zenon DEF vars, netVars, ReplyGone, RequestGone
  <2>3. \A u \in Threads : call[u].pc # "idle" => Counted(u)'
    BY <1>3, <1>7, <2>1, <2>2, Zenon
  <2>4. QED
    BY <1>3, <2>1, <2>2, <2>3, Zenon DEF LapInv, Busy, Fewer
<1>9. CASE RefuseStep \/ ExecuteStep
  <2>1. PICK m \in Request, ok \in BOOLEAN : Handles(m, ok)
    BY <1>1, <1>2, <1>9, DeviceFacts, Zenon
  <2>2. UNCHANGED <<call, sequence_, calls, block_enable_>>
    BY <1>9, Zenon DEF RefuseStep, ExecuteStep, deviceUnchanged
  <2> DEFINE e == ReplyTo(m, ok)
  <2>3. /\ m = requests[1] /\ 1 \in 1..Len(requests)
        /\ requests # <<>> /\ requests' = Tail(requests)
        /\ PushedFrom(replies, replies', e) /\ e.sequence = m.sequence /\ e.words = m.words
    BY <2>1, Zenon DEF Handles
  <2> HIDE DEF e
  <2>4. Fewer(requests, requests')
    BY <1>5, <2>3, Zenon
  <2>5. e.sequence < sequence_
    BY <1>3, <2>3, Zenon
  <2>6. \A i \in 1..Len(replies') : replies'[i].sequence < sequence_
    BY <1>3, <2>3, <2>5, Zenon DEF PushedFrom
  <2>7. ASSUME NEW u \in Threads, call[u].pc # "idle" PROVE Counted(u)'
    <3>1. Counted(u) /\ OwnRequests(u)
      BY <1>2, <1>3, <2>7, Zenon DEF OwnInv, Busy
    <3>2. e.sequence = call[u].sequence => e.words = Batch(call[u].kind, call[u].words)
      BY <2>3, <3>1, Zenon DEF OwnRequests, Own
    <3>3. \A i \in 1..Len(replies') : replies'[i].sequence = call[u].sequence =>
              replies'[i].words = Batch(call[u].kind, call[u].words)
      BY <2>3, <3>1, <3>2, Zenon DEF Counted, ReplyWords, PushedFrom
    <3>4. ReplyWords(u)'
      BY <2>2, <3>3, Zenon DEF ReplyWords, Batch, Block
    <3>5. QED
      BY <1>7, <2>2, <2>7, <3>1, <3>4, Zenon
  <2>8. QED
    BY <1>3, <2>2, <2>4, <2>6, <2>7, Zenon DEF LapInv, Busy, Fewer
<1>10. ASSUME NEW t \in Threads, RetryStep(t) PROVE LapInv'
  <2>1. /\ UNCHANGED <<sequence_, calls, block_enable_, requests, replies>> /\ Keeps(t)
        /\ call[t].pc = "wait"
    BY <1>10, Zenon DEF RetryStep, deviceUnchanged
  <2>2. \A u \in Threads : u # t => call'[u].pc = "idle"
    BY <1>2, <1>10, OthersIdle, Zenon
  <2>3. Counted(t)'
    BY <1>3, <1>4, <1>6, <1>7, <1>10, <2>1, Zenon DEF Keeps
  <2>4. QED
    BY <1>3, <2>1, <2>2, <2>3, Zenon DEF LapInv, Busy
<1>11. ASSUME NEW t \in Threads, SendStep(t) PROVE LapInv'
  <2>1. /\ UNCHANGED <<sequence_, calls, block_enable_, replies>> /\ Keeps(t)
        /\ call[t].pc = "send" /\ requests' = Append(requests, Packet(call[t]))
    BY <1>11, Zenon DEF SendStep, deviceUnchanged
  <2>2. \A u \in Threads : u # t => call'[u].pc = "idle"
    BY <1>2, <1>11, OthersIdle, Zenon
  <2>3. Counted(t) /\ Counted(t)'
    BY <1>3, <1>4, <1>6, <1>7, <1>11, <2>1, Zenon DEF Keeps
  <2>4. call[t] \in Call /\ call[t].words # {}
    BY <1>2, <1>4, <2>1, StateTypes, Zenon DEF CallInv, Busy
  <2>5. Packet(call[t]) \in Request /\ Packet(call[t]).sequence = call[t].sequence
    BY <2>4, PacketTypes
  <2>6. PushedFrom(requests, requests', Packet(call[t]))
    BY <1>2, <2>1, <2>5, QueueForms, Zenon
  <2>7. \A i \in 1..Len(requests') : requests'[i].sequence < sequence_
    BY <1>3, <2>3, <2>5, <2>6, Zenon DEF PushedFrom, Counted
  <2>8. QED
    BY <1>3, <2>1, <2>2, <2>3, <2>7, Zenon DEF LapInv, Busy
<1>12. ASSUME NEW t \in Threads, LastStep(t) \/ FaultStep(t) \/ GiveUpStep(t) PROVE LapInv'
  <2>1. \A u \in Threads : call'[u].pc = "idle"
    BY <1>2, <1>12, OthersIdle, Zenon
  <2>2. UNCHANGED <<sequence_, calls>>
    BY <1>12, Zenon DEF LastStep, FaultStep, GiveUpStep, deviceUnchanged
  <2>3. Fewer(requests, requests') /\ Fewer(replies, replies')
    BY <1>5, <1>6, <1>12, Zenon DEF LastStep, FaultStep, GiveUpStep, Answered
  <2>4. QED
    BY <1>3, <2>1, <2>2, <2>3, Zenon DEF LapInv, Busy, Fewer
<1>13. /\ sequence_ \in Nat /\ calls \in Nat /\ calls * Words \in Nat
       /\ (calls + 1) * Words = calls * Words + Words /\ Words \in Nat
       /\ sequence_ + 1 <= calls * Words => (sequence_ + 1) % SeqMod = sequence_ + 1
       /\ calls < MaxCalls /\ sequence_ <= calls * Words => (sequence_ + 1) % SeqMod = sequence_ + 1
  BY <1>1, <1>2, NoWrap, ControlAssumption
<1>14. ASSUME NEW t \in Threads, BeginStep(t) \/ MoreStep(t), sequence_' = sequence_ + 1,
              sequence_ + 1 + Cardinality(call'[t].words) <= calls' * Words + 1,
              sequence_ + 1 <= calls' * Words
       PROVE  LapInv'
  <2>1. \A u \in Threads : u # t => call'[u].pc = "idle"
    BY <1>2, <1>14, OthersIdle, Zenon
  <2>2. Fewer(requests, requests') /\ Fewer(replies, replies') /\ call'[t].sequence = sequence_
    BY <1>5, <1>6, <1>14, Zenon DEF BeginStep, MoreStep, Answered
  <2>3. NotReused
    BY <1>1, <1>2, LapMeans, Zenon
  <2>4. ReplyWords(t)'
    BY <2>2, <2>3, Zenon DEF ReplyWords, NotReused, Fewer
  <2>5. sequence_ < sequence_'
    BY <1>13, <1>14
  <2>6. Counted(t)'
    BY <1>14, <2>2, <2>4, <2>5, Zenon DEF Counted
  <2>7. /\ \A i \in 1..Len(requests) : requests[i].sequence \in Nat
        /\ \A i \in 1..Len(replies) : replies[i].sequence \in Nat
    <3>1. /\ \A i \in 1..Len(requests) : requests[i].sequence \in SeqNums
          /\ \A i \in 1..Len(replies) : replies[i].sequence \in SeqNums
      BY <1>2, StateTypes, MessageTypes, Zenon
    <3>2. SeqNums \subseteq Nat
      BY ControlAssumption DEF SeqNums
    <3>3. QED
      BY <3>1, <3>2, Zenon
  <2>8. \A x \in Nat : x < sequence_ => x < sequence_'
    BY <1>13, <1>14
  <2>9. \A i \in 1..Len(requests') : requests'[i].sequence < sequence_'
    BY <1>3, <2>2, <2>7, <2>8, Zenon DEF Fewer
  <2>10. \A i \in 1..Len(replies') : replies'[i].sequence < sequence_'
    BY <1>3, <2>2, <2>7, <2>8, Zenon DEF Fewer
  <2>11. sequence_' <= calls' * Words
    BY <1>14
  <2>12. QED
    BY <2>1, <2>6, <2>9, <2>10, <2>11, Zenon DEF LapInv, Busy
<1>15. ASSUME NEW t \in Threads, BeginStep(t) PROVE LapInv'
  <2>1. /\ call' \in [Threads -> Call] /\ calls < MaxCalls /\ calls' = calls + 1
        /\ sequence_' = (sequence_ + 1) % SeqMod
    BY <1>15, Zenon DEF BeginStep
  <2>2. call'[t].words \in SUBSET Registers
    BY <1>15, <2>1, CallTypes, Zenon
  <2>3. Cardinality(call'[t].words) \in Nat /\ Cardinality(call'[t].words) <= Words
    BY <2>2, WordCounts, Zenon
  <2>4. sequence_' = sequence_ + 1
    BY <1>3, <1>13, <2>1, Zenon
  <2>5. calls' * Words = calls * Words + Words
    BY <1>13, <2>1, Zenon
  <2>6. Words > 0
    BY ControlAssumption
  <2>7. /\ sequence_ + 1 + Cardinality(call'[t].words) <= calls' * Words + 1
        /\ sequence_ + 1 <= calls' * Words
    BY <1>3, <1>13, <2>3, <2>5, <2>6
  <2>8. QED
    BY <1>14, <1>15, <2>4, <2>7, Zenon
<1>16. ASSUME NEW t \in Threads, MoreStep(t) PROVE LapInv'
  <2>1. PICK m \in Reply :
          /\ Answered(t, m) /\ call'[t].words = call[t].words \ m.words /\ call'[t].words # {}
          /\ sequence_' = (sequence_ + 1) % SeqMod /\ calls' = calls
    BY <1>16, Zenon DEF MoreStep, deviceUnchanged
  <2>2. call[t].pc # "idle" /\ m.sequence = call[t].sequence /\ m = replies[1] /\ 1 \in 1..Len(replies)
    BY <1>2, <1>4, <2>1, QueueForms, Zenon DEF Answered
  <2>3. Counted(t) /\ call[t].words \in SUBSET Registers /\ call[t].words # {}
    BY <1>2, <1>3, <1>16, <2>2, StateTypes, CallTypes, Zenon DEF CallInv, Busy
  <2>4. m.words = Batch(call[t].kind, call[t].words)
    BY <2>2, <2>3, Zenon DEF Counted, ReplyWords
  <2> DEFINE a == Cardinality(call[t].words)
             b == Cardinality(call'[t].words)
  <2>5. call'[t].words \in SUBSET Registers
    BY <2>1, <2>3, Zenon
  <2>6. b + 1 <= a
    BY <2>1, <2>3, <2>4, WordCounts, Zenon
  <2>7. a \in Nat /\ b \in Nat /\ b > 0
    BY <2>1, <2>3, <2>5, WordCounts, Zenon
  <2>8. sequence_ + a <= calls * Words + 1
    BY <2>3, Zenon DEF Counted
  <2> HIDE DEF a, b
  <2>9. sequence_ + 1 + b <= calls * Words + 1 /\ sequence_ + 1 <= calls * Words
    BY <1>13, <2>6, <2>7, <2>8
  <2>10. sequence_' = sequence_ + 1
    BY <1>13, <2>1, <2>9, Zenon
  <2>11. QED
    BY <1>14, <1>16, <2>1, <2>9, <2>10, Zenon DEF b
<1>17. QED
  BY <1>1, <1>2, <1>8, <1>9, <1>10, <1>11, <1>12, <1>15, <1>16, StepCases, Zenon

\* In the first lap nothing has to be assumed of the network: a session of
\* fewer requests than there are sequence numbers reports the truth and stays
\* in step whatever is lost and however long a packet is delayed.
THEOREM FirstLapIsSafe ==
    ASSUME OneLap PROVE SafetySpec => [](NotReused /\ CallsCorrect /\ InStep)
<1>1. Init => ControlInv /\ LapInv
  <2>1. SUFFICES ASSUME Init PROVE ControlInv /\ LapInv
    OBVIOUS
  <2>2. ControlInv
    BY <2>1, InitControl, Zenon
  <2>3. requests = <<>> /\ replies = <<>> /\ sequence_ = 0 /\ calls = 0
    BY <2>1, Zenon DEF Init, FirstSequence
  <2>4. Len(requests) = 0 /\ Len(replies) = 0 /\ sequence_ <= calls * Words
    BY <2>3, ControlAssumption
  <2>5. 1..Len(requests) = {} /\ 1..Len(replies) = {}
    BY <2>4
  <2>6. execute_mutex_ = None
    BY <2>1, Zenon DEF Init
  <2>7. \A t \in Threads : call[t].pc = "idle"
    BY <2>2, <2>6, OneCall, Zenon DEF ControlInv
  <2>8. LapInv
    BY <2>4, <2>5, <2>7, Zenon DEF LapInv, Busy
  <2>9. QED
    BY <2>2, <2>8, Zenon
<1>2. ControlInv /\ LapInv /\ [Next]_vars => (ControlInv /\ LapInv)'
  <2>1. ControlInv /\ LapInv => NotReused
    BY LapMeans, Zenon DEF ControlInv
  <2>2. QED
    BY <2>1, NextControl, NextLap, Zenon
<1>3. ControlInv /\ LapInv => NotReused /\ CallsCorrect /\ InStep
  BY LapMeans, DoneMeans, StepMeans, Zenon DEF ControlInv, CallsCorrect, InStep
<1>4. QED
  BY <1>1, <1>2, <1>3, PTL DEF SafetySpec
=============================================================================
