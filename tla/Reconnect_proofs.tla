------------------------- MODULE Reconnect_proofs -------------------------
(***************************************************************************)
(* Proofs about Reconnect, for any set of controllers.                     *)
(*                                                                         *)
(* The state of the device alone says little while a callback runs: goto() *)
(* still has to tell some of the controllers, lost() may interrupt it, and *)
(* a controller that comes late is told the state before it is one of the  *)
(* connected. The invariant relates the device, the sensors and the        *)
(* watchdogs to the calls that are left on the stack `todo`.               *)
(***************************************************************************)
EXTENDS Reconnect, Reactor, FiniteSetTheorems, TLAPS

-----------------------------------------------------------------------------
(* The invariant. *)

\* The call t tells c the state st.
IsNote(t, c, st) == t.op = "device_state" /\ t.c = c /\ t.st = st
Noted(c, st) == \E i \in DOMAIN todo : IsNote(todo[i], c, st)

\* c was told the state and is about to become one of the connected.
Joins(c) == todo # <<>> /\ todo[1].op = "advance" /\ todo[1].c = c

\* Calls of enumerated() come at the end of fd_callback's, which has lock_.
EndInv ==
    /\ \A i \in DOMAIN todo :
          /\ todo[i].op \in {"enumerated", "advance", "check_ptp"} =>
                i + 1 = Len(todo) /\ todo[Len(todo)].op = "unlock"
          /\ todo[i].op = "unlock" => i = Len(todo)
    /\ held <=> \E i \in DOMAIN todo : todo[i].op = "unlock"

\* A state that is still to be told is the state the device is in, but for
\* the rest of a goto() inside which the device was lost.
TellInv ==
    \A i \in DOMAIN todo : todo[i].op = "device_state" =>
        /\ todo[i].st # "CONNECTED" => state = todo[i].st
        /\ todo[i].st = "CONNECTED" => state \in {"CONNECTED", "NOT_FOUND"}
        /\ todo[i].st \in {"CONNECTED", "RUN"} /\ state = todo[i].st =>
              \/ todo[i].c \in connected
              \/ i < Len(todo) /\ todo[i + 1].op = "advance" /\ todo[i + 1].c = todo[i].c

\* A controller is told RUN once.
OnceInv ==
    \A i, j \in DOMAIN todo : \A c \in Controllers :
        IsNote(todo[i], c, "RUN") /\ IsNote(todo[j], c, "RUN") => i = j

\* lost() tells everyone before it forgets them.
LostInv ==
    \A i \in DOMAIN todo : todo[i].op = "clear" =>
        /\ state = "NOT_FOUND"
        /\ \A j \in 1..(i - 1) : todo[j].op = "device_state" /\ todo[j].st = "NOT_FOUND"
        /\ \A c \in connected \cap sensors : \E j \in 1..(i - 1) : IsNote(todo[j], c, "NOT_FOUND")

\* Only a controller that is not connected joins, after it was told the
\* state, unless the device was lost meanwhile.
JoinInv ==
    \A i \in DOMAIN todo : todo[i].op = "advance" =>
        /\ todo[i].c \notin connected
        /\ i = 1 \/ state = "NOT_FOUND" \/ (todo[i - 1].op = "device_state" /\ todo[i - 1].c = todo[i].c)

\* Nothing is done for a controller that is not registered yet or any more.
AppInv ==
    /\ \A c \in Controllers :
          /\ app[c] \in {"new", "register"} => c \notin registered /\ c \notin connected
          /\ app[c] = "stopped" => c \notin registered
    /\ \A i \in DOMAIN todo : todo[i].op \in {"enumerated", "advance"} =>
          app[todo[i].c] \notin {"new", "register", "stopped"}

\* The sensor of c exists and was configured, unless the device failed or was
\* lost inside goto().
Good(c) == c \in sensors /\ (failed \/ c \in leftover \/ c \in configured)

SensorsInv ==
    /\ state \in {"CONNECTED", "RUN"} =>
          /\ \A c \in connected : Good(c) \/ Noted(c, "CONNECTED")
          /\ \A c \in Controllers : Joins(c) => Good(c)
    /\ \A c \in sensors : c \in connected \/ c \in leftover \/ Joins(c)

\* A controller that runs has a watchdog, in alarms_ or taken from it.
WatchInv ==
    state = "RUN" =>
        \A c \in Controllers : (c \in connected \/ Joins(c)) /\ app[c] = "up" =>
            c \in watching \/ orphans[c] > 0 \/ expired[c] > 0 \/ Noted(c, "RUN")

\* c was told RUN, and will be told NOT_FOUND before it is told RUN again.
Ran(c) == \/ state = "RUN" /\ (c \in connected \/ Joins(c)) /\ ~Noted(c, "RUN")
          \/ Noted(c, "NOT_FOUND")

\* A handle is overwritten once for each tap(), by tap() or by run().
OrphansInv ==
    \A c \in Controllers :
        /\ app[c] = "cancelled" => orphans[c] < MaxOrphans /\ (c \in watching => Ran(c))
        /\ c \in watching => orphans[c] < MaxOrphans \/ Ran(c)

\* What the callback still has to do.
StackInv == EndInv /\ TellInv /\ OnceInv /\ LostInv /\ JoinInv

ReconnectInv ==
    /\ TypeOK /\ IsFiniteSet(connected)
    /\ StackInv /\ AppInv /\ SensorsInv /\ WatchInv /\ OrphansInv

-----------------------------------------------------------------------------
(* The stack of calls. *)

\* What is at the head of the stack was replaced by calls.
LEMMA Continued ==
    ASSUME todo \in Seq(Task), NEW calls \in Seq(Task), Continue(calls),
           NEW k \in {0, 1}, k = IF todo = <<>> THEN 0 ELSE 1
    PROVE  /\ todo' \in Seq(Task) /\ Len(todo) \in Nat /\ Len(calls) \in Nat
           /\ k <= Len(todo)
           /\ Len(todo') = Len(calls) + Len(todo) - k
           /\ \A i \in 1..Len(calls) : todo'[i] = calls[i]
           /\ \A i \in (Len(calls) + 1)..Len(todo') : todo'[i] = todo[i - Len(calls) + k]
<1>1. PICK rest : rest = IF todo = <<>> THEN <<>> ELSE Tail(todo)
  OBVIOUS
<1>2. CASE todo = <<>>
  <2>1. rest = <<>> /\ Len(todo) = 0 /\ k = 0
    BY <1>1, <1>2
  <2>2. todo' = calls \o <<>>
    BY <1>1, <2>1 DEF Continue
  <2>3. calls \o <<>> = calls
    OBVIOUS
  <2> QED
    BY <2>1, <2>2, <2>3
<1>3. CASE todo # <<>>
  <2>1. rest \in Seq(Task) /\ Len(rest) = Len(todo) - 1 /\ k = 1 /\ Len(todo) > 0
    BY <1>1, <1>3
  <2>2. \A i \in 1..Len(rest) : rest[i] = todo[i + 1]
    BY <1>1, <1>3
  <2>3. todo' = calls \o rest
    BY <1>1 DEF Continue
  <2>4. /\ calls \o rest \in Seq(Task) /\ Len(calls \o rest) = Len(calls) + Len(rest)
        /\ \A i \in 1..Len(calls) : (calls \o rest)[i] = calls[i]
        /\ \A i \in (Len(calls) + 1)..(Len(calls) + Len(rest)) :
              (calls \o rest)[i] = rest[i - Len(calls)]
    BY <2>1
  <2>5. ASSUME NEW i \in (Len(calls) + 1)..(Len(calls) + Len(rest))
        PROVE  (calls \o rest)[i] = todo[i - Len(calls) + 1]
    <3>1. i - Len(calls) \in 1..Len(rest)
      BY <2>1
    <3>2. rest[i - Len(calls)] = todo[i - Len(calls) + 1]
      BY <2>2, <3>1
    <3> QED
      BY <2>4, <3>2
  <2> QED
    BY <2>1, <2>3, <2>4, <2>5
<1> QED
  BY <1>2, <1>3

\* The call at the head returned.
LEMMA Popped ==
    ASSUME todo \in Seq(Task), todo # <<>>, Continue(<<>>)
    PROVE  /\ todo' \in Seq(Task) /\ Len(todo) \in Nat \ {0}
           /\ Len(todo') = Len(todo) - 1
           /\ Head(todo) = todo[1]
           /\ DOMAIN todo = 1..Len(todo) /\ DOMAIN todo' = 1..(Len(todo) - 1)
           /\ \A i \in 1..(Len(todo) - 1) : todo'[i] = todo[i + 1]
           /\ \A i \in 2..Len(todo) : todo[i] = todo'[i - 1]
<1>1. todo' = <<>> \o Tail(todo)
  BY DEF Continue
<1>2. <<>> \o Tail(todo) = Tail(todo) /\ Tail(todo) \in Seq(Task)
  OBVIOUS
<1>3. todo' = Tail(todo)
  BY <1>1, <1>2
<1>4. /\ Len(todo) \in Nat \ {0} /\ Len(Tail(todo)) = Len(todo) - 1
      /\ Head(todo) = todo[1]
      /\ DOMAIN todo = 1..Len(todo) /\ DOMAIN Tail(todo) = 1..(Len(todo) - 1)
      /\ \A i \in 1..(Len(todo) - 1) : Tail(todo)[i] = todo[i + 1]
  OBVIOUS
<1>5. ASSUME NEW i \in 2..Len(todo) PROVE todo[i] = Tail(todo)[i - 1]
  <2>1. i - 1 \in 1..(Len(todo) - 1) /\ (i - 1) + 1 = i
    BY <1>4
  <2> QED
    BY <1>4, <2>1
<1> QED
  BY <1>2, <1>3, <1>4, <1>5

\* An order of a finite set has each of its members once.
LEMMA OrderOfSet ==
    ASSUME NEW S, IsFiniteSet(S), NEW order \in SetToSeqs(S)
    PROVE  /\ Cardinality(S) \in Nat
           /\ order \in [1..Cardinality(S) -> S]
           /\ \A i, j \in 1..Cardinality(S) : order[i] = order[j] => i = j
           /\ \A x \in S : \E i \in 1..Cardinality(S) : order[i] = x
<1>1. Cardinality(S) \in Nat
  BY FS_CardinalityType
<1>2. PICK n \in Nat : n = Cardinality(S)
  BY <1>1
<1>3. order \in [1..n -> S] /\ \A i, j \in 1..n : i # j => order[i] # order[j]
  BY <1>2 DEF SetToSeqs
<1>4. order \in Injection(1..n, S)
  BY <1>3 DEF Injection, IsInjective
<1>5. IsFiniteSet(1..n) /\ Cardinality(1..n) = n
  BY FS_Interval
<1>6. order \in Surjection(1..n, S)
  BY <1>2, <1>4, <1>5, FS_Injection
<1>7. \A x \in S : \E i \in 1..n : order[i] = x
  BY <1>6 DEF Surjection
<1> QED
  BY <1>1, <1>2, <1>3, <1>7

\* The first n calls tell st to each member of S once, and the calls in then follow.
Tells(calls, n, S, st, then) ==
    /\ calls \in Seq(Task) /\ Len(calls) = n + Len(then)
    /\ \A i \in 1..n : \E c \in S : IsNote(calls[i], c, st)
    /\ \A i, j \in 1..n : calls[i].c = calls[j].c => i = j
    /\ \A c \in S : \E i \in 1..n : IsNote(calls[i], c, st)
    /\ \A i \in 1..Len(then) : calls[n + i] = then[i]

\* goto() tells each of the connected once, and the rest follows.
LEMMA GotoCalls ==
    ASSUME NEW S, IsFiniteSet(S), S \subseteq Controllers,
           NEW st \in States, NEW then \in Seq(Task), NEW order \in SetToSeqs(S)
    PROVE  \E n \in Nat : Tells(Notify(order, st) \o then, n, S, st, then)
<1>1. PICK n \in Nat : n = Cardinality(S)
  BY OrderOfSet
<1>2. /\ order \in [1..n -> S]
      /\ \A i, j \in 1..n : order[i] = order[j] => i = j
      /\ \A x \in S : \E i \in 1..n : order[i] = x
  BY <1>1, OrderOfSet
<1>3. PICK notes : notes = Notify(order, st)
  OBVIOUS
<1>4. notes = [i \in 1..n |-> [op |-> "device_state", c |-> order[i], st |-> st]]
  BY <1>2, <1>3 DEF Notify
<1>5. \A i \in 1..n : [op |-> "device_state", c |-> order[i], st |-> st] \in Task
  BY <1>2 DEF Task
<1>6. notes \in Seq(Task) /\ Len(notes) = n
  BY <1>4, <1>5
<1>7. \A i \in 1..n : IsNote(notes[i], order[i], st)
  BY <1>4 DEF IsNote
<1>8. /\ notes \o then \in Seq(Task) /\ Len(notes \o then) = n + Len(then)
      /\ \A i \in 1..n : (notes \o then)[i] = notes[i]
      /\ \A i \in 1..Len(then) : (notes \o then)[n + i] = then[i]
  BY <1>6
<1>9. \A i \in 1..n : \E c \in S : IsNote((notes \o then)[i], c, st)
  BY <1>2, <1>7, <1>8
<1>10. \A i, j \in 1..n : (notes \o then)[i].c = (notes \o then)[j].c => i = j
  BY <1>2, <1>7, <1>8 DEF IsNote
<1>11. \A c \in S : \E i \in 1..n : IsNote((notes \o then)[i], c, st)
  BY <1>2, <1>7, <1>8
<1>12. Tells(notes \o then, n, S, st, then)
  BY <1>8, <1>9, <1>10, <1>11 DEF Tells
<1> QED
  BY <1>3, <1>12

\* A callback that returns leaves the end of fd_callback at the end.
LEMMA PopEnd ==
    ASSUME todo \in Seq(Task), EndInv, OnceInv, todo # <<>>, Continue(<<>>),
           held' <=> (held /\ todo[1].op # "unlock")
    PROVE  todo' \in Seq(Task) /\ EndInv' /\ OnceInv'
<1>1. PICK n \in Nat \ {0} : n = Len(todo)
  BY Popped
<1>2. /\ todo' \in Seq(Task) /\ Len(todo') = n - 1
      /\ DOMAIN todo = 1..n /\ DOMAIN todo' = 1..(n - 1)
      /\ \A i \in 1..(n - 1) : todo'[i] = todo[i + 1]
      /\ \A i \in 2..n : todo[i] = todo'[i - 1]
  BY <1>1, Popped
<1>a. \A i \in 1..n :
         /\ todo[i].op \in {"enumerated", "advance", "check_ptp"} => i + 1 = n /\ todo[n].op = "unlock"
         /\ todo[i].op = "unlock" => i = n
  BY <1>1, <1>2 DEF EndInv
<1>3. ASSUME NEW i \in 1..(n - 1)
      PROVE  /\ todo'[i].op \in {"enumerated", "advance", "check_ptp"} =>
                   i + 1 = n - 1 /\ todo'[n - 1].op = "unlock"
             /\ todo'[i].op = "unlock" => i = n - 1
  <2>1. i + 1 \in 1..n /\ todo'[i] = todo[i + 1]
    BY <1>2
  <2>2. CASE todo'[i].op \in {"enumerated", "advance", "check_ptp"}
    <3>1. i + 1 + 1 = n /\ todo[n].op = "unlock"
      BY <1>a, <2>1, <2>2
    <3>2. n - 1 \in 1..(n - 1) /\ todo'[n - 1] = todo[n]
      BY <1>2, <3>1
    <3> QED
      BY <2>2, <3>1, <3>2
  <2>3. CASE todo'[i].op = "unlock"
    BY <1>a, <2>1, <2>3
  <2> QED
    BY <2>2, <2>3
<1>4. held' <=> \E i \in 1..(n - 1) : todo'[i].op = "unlock"
  <2>1. ASSUME held' PROVE \E i \in 1..(n - 1) : todo'[i].op = "unlock"
    <3>1. PICK i \in 1..n : todo[i].op = "unlock"
      BY <1>2, <2>1 DEF EndInv
    <3>2. i # 1
      BY <2>1, <3>1
    <3>3. i - 1 \in 1..(n - 1) /\ todo[i] = todo'[i - 1]
      BY <1>2, <3>2
    <3> QED
      BY <3>1, <3>3
  <2>2. ASSUME NEW i \in 1..(n - 1), todo'[i].op = "unlock" PROVE held'
    <3>1. i + 1 \in 1..n /\ todo[i + 1].op = "unlock"
      BY <1>2, <2>2
    <3>2. held
      BY <1>2, <3>1 DEF EndInv
    <3>3. todo[1].op = "unlock" => 1 = n
      BY <1>a
    <3>4. todo[1].op # "unlock"
      BY <3>1, <3>3
    <3> QED
      BY <3>2, <3>4
  <2> QED
    BY <2>1, <2>2
<1>5. EndInv'
  BY <1>2, <1>3, <1>4 DEF EndInv
<1>6. OnceInv'
  <2>1. SUFFICES ASSUME NEW i \in 1..(n - 1), NEW j \in 1..(n - 1), NEW c \in Controllers,
                        IsNote(todo'[i], c, "RUN"), IsNote(todo'[j], c, "RUN")
                 PROVE  i = j
    BY <1>2 DEF OnceInv, IsNote
  <2>2. i + 1 \in 1..n /\ j + 1 \in 1..n /\ todo'[i] = todo[i + 1] /\ todo'[j] = todo[j + 1]
    BY <1>2
  <2>3. i + 1 = j + 1
    BY <1>2, <2>1, <2>2 DEF OnceInv
  <2> QED
    BY <2>3
<1> QED
  BY <1>2, <1>5, <1>6

\* Only the controller that was told is not to be told any more.
LEMMA PopNotes ==
    ASSUME todo \in Seq(Task), todo # <<>>, Continue(<<>>), NEW c, NEW st
    PROVE  /\ Noted(c, st)' => Noted(c, st)
           /\ Noted(c, st) => Noted(c, st)' \/ IsNote(todo[1], c, st)
<1>1. PICK n \in Nat \ {0} : n = Len(todo)
  BY Popped
<1>2. /\ DOMAIN todo = 1..n /\ DOMAIN todo' = 1..(n - 1)
      /\ \A i \in 1..(n - 1) : todo'[i] = todo[i + 1]
      /\ \A i \in 2..n : todo[i] = todo'[i - 1]
  BY <1>1, Popped
<1>3. ASSUME NEW i \in 1..(n - 1), IsNote(todo'[i], c, st) PROVE Noted(c, st)
  <2>1. i + 1 \in 1..n /\ IsNote(todo[i + 1], c, st)
    BY <1>2, <1>3
  <2> QED
    BY <1>2, <2>1 DEF Noted
<1>4. ASSUME NEW i \in 1..n, IsNote(todo[i], c, st), i # 1 PROVE \E j \in 1..(n - 1) : IsNote(todo'[j], c, st)
  <2>1. i - 1 \in 1..(n - 1) /\ IsNote(todo'[i - 1], c, st)
    BY <1>2, <1>4
  <2> QED
    BY <2>1
<1>5. Noted(c, st)' <=> \E j \in 1..(n - 1) : IsNote(todo'[j], c, st)
  BY <1>2 DEF Noted, IsNote
<1> QED
  BY <1>2, <1>3, <1>4, <1>5 DEF Noted

\* After the last call of fd_callback's callbacks only lock_ is to be released.
LEMMA PopLast ==
    ASSUME todo \in Seq(Task), EndInv, todo # <<>>, Continue(<<>>),
           todo[1].op \in {"enumerated", "advance", "check_ptp", "unlock"}
    PROVE  /\ \A i \in DOMAIN todo' : todo'[i].op = "unlock"
           /\ \A c, st : ~Noted(c, st) /\ ~Noted(c, st)'
           /\ \A c : ~Joins(c)'
           /\ TellInv' /\ LostInv' /\ JoinInv'
<1>1. PICK n \in Nat \ {0} : n = Len(todo)
  BY Popped
<1>2. /\ DOMAIN todo = 1..n /\ DOMAIN todo' = 1..(n - 1) /\ todo' \in Seq(Task) /\ Len(todo') = n - 1
      /\ \A i \in 1..(n - 1) : todo'[i] = todo[i + 1]
  BY <1>1, Popped
<1>3. n \in {1, 2} /\ (n = 2 => todo[2].op = "unlock")
  BY <1>1, <1>2 DEF EndInv
<1>4. \A i \in 1..(n - 1) : todo'[i].op = "unlock"
  BY <1>2, <1>3
<1>5. \A i \in 1..n : todo[i].op # "device_state"
  BY <1>3
<1>6. \A c, st : ~Noted(c, st) /\ ~Noted(c, st)'
  BY <1>2, <1>4, <1>5 DEF Noted, IsNote
<1>7. todo' # <<>> => 1 \in 1..(n - 1)
  BY <1>2
<1>8. \A c : ~Joins(c)'
  BY <1>4, <1>7 DEF Joins
<1>9. TellInv' /\ LostInv' /\ JoinInv'
  BY <1>2, <1>4 DEF TellInv, LostInv, JoinInv
<1> QED
  BY <1>2, <1>4, <1>6, <1>8, <1>9

\* A call that returns in the middle of a callback.
LEMMA PopMiddle ==
    ASSUME todo \in Seq(Task), TellInv, JoinInv, todo # <<>>, Continue(<<>>), UNCHANGED <<state, connected>>
    PROVE  TellInv' /\ JoinInv'
<1>1. PICK n \in Nat \ {0} : n = Len(todo)
  BY Popped
<1>2. /\ DOMAIN todo = 1..n /\ DOMAIN todo' = 1..(n - 1) /\ Len(todo') = n - 1
      /\ \A i \in 1..(n - 1) : todo'[i] = todo[i + 1]
  BY <1>1, Popped
<1>3. TellInv'
  <2>1. SUFFICES ASSUME NEW i \in 1..(n - 1), todo'[i].op = "device_state"
                 PROVE  /\ todo'[i].st # "CONNECTED" => state = todo'[i].st
                        /\ todo'[i].st = "CONNECTED" => state \in {"CONNECTED", "NOT_FOUND"}
                        /\ todo'[i].st \in {"CONNECTED", "RUN"} /\ state = todo'[i].st =>
                              \/ todo'[i].c \in connected
                              \/ i < n - 1 /\ todo'[i + 1].op = "advance" /\ todo'[i + 1].c = todo'[i].c
    BY <1>2 DEF TellInv
  <2>2. i + 1 \in 1..n /\ todo'[i] = todo[i + 1]
    BY <1>2
  <2>3. i + 1 < n => todo'[i + 1] = todo[(i + 1) + 1]
    BY <1>2
  <2> QED
    BY <1>1, <1>2, <2>1, <2>2, <2>3 DEF TellInv
<1>4. JoinInv'
  <2>1. SUFFICES ASSUME NEW i \in 1..(n - 1), todo'[i].op = "advance"
                 PROVE  /\ todo'[i].c \notin connected
                        /\ \/ i = 1 \/ state = "NOT_FOUND"
                           \/ todo'[i - 1].op = "device_state" /\ todo'[i - 1].c = todo'[i].c
    BY <1>2 DEF JoinInv
  <2>2. i + 1 \in 1..n /\ todo'[i] = todo[i + 1] /\ i + 1 # 1 /\ (i + 1) - 1 = i
    BY <1>2
  <2>3. /\ todo[i + 1].c \notin connected
        /\ state = "NOT_FOUND" \/ (todo[i].op = "device_state" /\ todo[i].c = todo[i + 1].c)
    BY <1>2, <2>1, <2>2 DEF JoinInv
  <2>4. i # 1 => todo'[i - 1] = todo[i]
    BY <1>2
  <2> QED
    BY <2>2, <2>3, <2>4
<1> QED
  BY <1>3, <1>4

\* lost() is never inside what it interrupts: unless NOT_FOUND was told, no
\* call of it is left.
LEMMA PopNoClear ==
    ASSUME todo \in Seq(Task), LostInv, todo # <<>>, Continue(<<>>),
           ~(todo[1].op = "device_state" /\ todo[1].st = "NOT_FOUND")
    PROVE  (\A i \in DOMAIN todo' : todo'[i].op # "clear") /\ LostInv'
<1>1. PICK n \in Nat \ {0} : n = Len(todo)
  BY Popped
<1>2. /\ DOMAIN todo = 1..n /\ DOMAIN todo' = 1..(n - 1)
      /\ \A i \in 1..(n - 1) : todo'[i] = todo[i + 1]
  BY <1>1, Popped
<1>3. ASSUME NEW i \in 1..(n - 1), todo'[i].op = "clear" PROVE FALSE
  <2>1. i + 1 \in 1..n /\ todo[i + 1].op = "clear" /\ 1 \in 1..((i + 1) - 1)
    BY <1>2, <1>3
  <2> QED
    BY <1>2, <2>1 DEF LostInv
<1> QED
  BY <1>2, <1>3 DEF LostInv

\* Who joins next was told the state, or the device was lost.
LEMMA PopJoins ==
    ASSUME todo \in Seq(Task), JoinInv, todo # <<>>, Continue(<<>>), NEW c, Joins(c)'
    PROVE  /\ c \notin connected
           /\ state = "NOT_FOUND" \/ (todo[1].op = "device_state" /\ todo[1].c = c)
<1>1. PICK n \in Nat \ {0} : n = Len(todo)
  BY Popped
<1>2. /\ DOMAIN todo = 1..n /\ Len(todo') = n - 1 /\ todo' \in Seq(Task)
      /\ \A i \in 1..(n - 1) : todo'[i] = todo[i + 1]
  BY <1>1, Popped
<1>3. n > 1 /\ todo'[1] = todo[2] /\ todo'[1].op = "advance" /\ todo'[1].c = c
  BY <1>2 DEF Joins
<1>4. 2 \in 1..n /\ 2 # 1 /\ 2 - 1 = 1
  BY <1>3
<1> QED
  BY <1>2, <1>3, <1>4 DEF JoinInv

\* Nothing of the stack changes.
LEMMA SameStack ==
    ASSUME StackInv, UNCHANGED <<todo, state, connected, sensors, held>>
    PROVE  /\ StackInv'
           /\ \A c, st : Noted(c, st)' <=> Noted(c, st)
           /\ \A c : Joins(c)' <=> Joins(c)
<1>1. EndInv' /\ OnceInv'
  BY DEF StackInv, EndInv, OnceInv, IsNote
<1>2. TellInv' /\ JoinInv'
  BY DEF StackInv, TellInv, JoinInv
<1>3. LostInv'
  BY DEF StackInv, LostInv, IsNote
<1>4. \A c, st : Noted(c, st)' <=> Noted(c, st)
  BY DEF Noted, IsNote
<1>5. \A c : Joins(c)' <=> Joins(c)
  BY DEF Joins
<1> QED
  BY <1>1, <1>2, <1>3, <1>4, <1>5 DEF StackInv

\* What a call is about.
LEMMA TaskTypes ==
    ASSUME todo \in Seq(Task), NEW i \in DOMAIN todo
    PROVE  /\ todo[i].op \in {"enumerated", "advance", "device_state", "controller_lost"} => todo[i].c \in Controllers
           /\ todo[i].op = "device_state" => todo[i].st \in States
<1>1. todo[i] \in Task
  OBVIOUS
<1> QED
  BY <1>1 DEF Task

-----------------------------------------------------------------------------
(* The initial state, and steps that leave the stack alone. *)

LEMMA ReconnectInit == Init => ReconnectInv
<1> SUFFICES ASSUME Init PROVE ReconnectInv
  OBVIOUS
<1>1. todo = <<>> /\ todo \in Seq(Task)
  BY DEF Init
<1>a. /\ orphans \in [Controllers -> 0..MaxOrphans] /\ expired \in [Controllers -> 0..(MaxOrphans + 1)]
      /\ faults \in 0..MaxFaults
  BY ReconnectAssumption DEF Init
<1>b. app \in [Controllers -> AppPcs]
  BY DEF Init, AppPcs
<1>2. TypeOK
  BY <1>1, <1>a, <1>b DEF Init, TypeOK
<1>3. IsFiniteSet(connected)
  BY FS_EmptySet DEF Init
<1>4. StackInv
  BY <1>1 DEF Init, StackInv, EndInv, TellInv, OnceInv, LostInv, JoinInv
<1>5. AppInv
  BY <1>1, ReconnectAssumption DEF Init, AppInv
<1>6. SensorsInv /\ WatchInv
  BY <1>1, ReconnectAssumption DEF Init, SensorsInv, WatchInv, States
<1>7. OrphansInv
  BY DEF Init, OrphansInv
<1> QED
  BY <1>2, <1>3, <1>4, <1>5, <1>6, <1>7 DEF ReconnectInv

\* Steps of the device and of the time, and an exception.
LEMMA WorldStep ==
    ASSUME ReconnectInv, World \/ Raise
    PROVE  ReconnectInv'
<1>1. /\ UNCHANGED <<todo, state, connected, sensors, held, app, registered, leftover, watching, orphans, expired>>
      /\ \A c : Good(c) => Good(c)'
  BY DEF World, DeviceUp, DeviceFails, Settle, Raise, Restart, deviceVars, factoryVars, alarmVars, reactorVars,
         worldVars, Good
<1>2. TypeOK'
  <2> USE DEF ReconnectInv, TypeOK, deviceVars, factoryVars, alarmVars, reactorVars, worldVars
  <2>1. CASE DeviceUp
    BY <2>1 DEF DeviceUp
  <2>2. CASE DeviceFails
    <3>1. faults' \in 0..MaxFaults
      BY <2>2, ReconnectAssumption DEF DeviceFails
    <3> QED
      BY <2>2, <3>1 DEF DeviceFails, Restart
  <2>3. CASE Settle
    BY <2>3 DEF Settle
  <2>4. CASE Raise
    BY <2>4 DEF Raise
  <2> QED
    BY <2>1, <2>2, <2>3, <2>4 DEF World
<1>3. StackInv' /\ (\A c, st : Noted(c, st)' <=> Noted(c, st)) /\ (\A c : Joins(c)' <=> Joins(c))
  BY <1>1, SameStack DEF ReconnectInv
<1>4. IsFiniteSet(connected)' /\ AppInv'
  BY <1>1 DEF ReconnectInv, AppInv
<1>5. SensorsInv'
  BY <1>1, <1>3 DEF ReconnectInv, SensorsInv
<1>6. WatchInv'
  BY <1>1, <1>3 DEF ReconnectInv, WatchInv
<1>7. OrphansInv'
  BY <1>1, <1>3 DEF ReconnectInv, OrphansInv, Ran
<1> QED
  BY <1>2, <1>3, <1>4, <1>5, <1>6, <1>7 DEF ReconnectInv

\* An application that starts or stops and waits for the enumerator.
LEMMA StartStep ==
    ASSUME ReconnectInv, NEW c \in Controllers, Start(c) \/ Stop(c) \/ Unregister(c)
    PROVE  ReconnectInv'
<1> USE DEF ReconnectInv
<1>0. /\ UNCHANGED <<todo, state, connected, sensors, held, registered, leftover, orphans, expired,
                     failed, configured>>
      /\ watching' \subseteq watching /\ watching \ {c} \subseteq watching'
  BY DEF Start, Stop, Unregister, Cancel, deviceVars, factoryVars, alarmVars, reactorVars, worldVars
<1>1. PICK from, to \in AppPcs :
            /\ <<from, to>> \in {<<"new", "register">>, <<"up", "stopping">>, <<"stopping", "unregister">>}
            /\ app[c] = from /\ app' = [app EXCEPT ![c] = to]
  BY DEF Start, Stop, Unregister, AppStep, AppPcs
<1>2. TypeOK'
  BY <1>0, <1>1 DEF TypeOK, Start, Stop, Unregister, deviceVars, factoryVars, alarmVars, reactorVars, worldVars
<1>3. StackInv' /\ (\A d, st : Noted(d, st)' <=> Noted(d, st)) /\ (\A d : Joins(d)' <=> Joins(d))
  BY <1>0, SameStack
<1>4. \A i \in DOMAIN todo : todo[i].op \in {"enumerated", "advance"} => todo[i].c \in Controllers
  BY TaskTypes DEF TypeOK
<1>5. IsFiniteSet(connected)'
  BY <1>0
<1>6. AppInv'
  BY <1>0, <1>1, <1>4 DEF AppInv, TypeOK
<1>7. SensorsInv'
  BY <1>0, <1>3 DEF SensorsInv, Good
<1>8. WatchInv'
  BY <1>0, <1>1, <1>3 DEF WatchInv, TypeOK
<1>9. OrphansInv'
  BY <1>0, <1>1, <1>3 DEF OrphansInv, Ran, TypeOK
<1> QED
  BY <1>2, <1>3, <1>5, <1>6, <1>7, <1>8, <1>9

\* register_ip and unregister_ip return when fd_callback has released lock_.
LEMMA EnumeratorStep ==
    ASSUME ReconnectInv, NEW c \in Controllers, EnumeratorReturns(c)
    PROVE  ReconnectInv'
<1> USE DEF ReconnectInv
<1>0. /\ UNCHANGED <<todo, state, connected, sensors, held, watching, leftover, orphans, expired,
                     failed, configured>>
      /\ ~held
  BY DEF EnumeratorReturns, deviceVars, factoryVars, alarmVars, worldVars
<1>1. \/ app[c] = "register" /\ app' = [app EXCEPT ![c] = "up"] /\ registered' = registered \cup {c}
      \/ app[c] = "unregister" /\ app' = [app EXCEPT ![c] = "stopped"] /\ registered' = registered \ {c}
  BY DEF EnumeratorReturns, HasGil, TypeOK
<1>2. TypeOK'
  BY <1>0, <1>1 DEF TypeOK, AppPcs, EnumeratorReturns, deviceVars, factoryVars, alarmVars, worldVars
<1>3. StackInv' /\ (\A d, st : Noted(d, st)' <=> Noted(d, st)) /\ (\A d : Joins(d)' <=> Joins(d))
  BY <1>0, SameStack
<1>4. \A i \in DOMAIN todo : todo[i].op \notin {"enumerated", "advance"}
  BY <1>0 DEF StackInv, EndInv, TypeOK
<1>5. IsFiniteSet(connected)'
  BY <1>0
<1>6. AppInv'
  BY <1>0, <1>1, <1>4 DEF AppInv, TypeOK
<1>7. SensorsInv'
  BY <1>0, <1>3 DEF SensorsInv, Good
<1>8. \A d : ~Joins(d)
  BY <1>4 DEF Joins, TypeOK
<1>9. app[c] = "register" => c \notin connected
  BY DEF AppInv
<1>10. WatchInv'
  BY <1>0, <1>1, <1>3, <1>8, <1>9 DEF WatchInv, TypeOK
<1>11. OrphansInv'
  BY <1>0, <1>1, <1>3 DEF OrphansInv, Ran, TypeOK
<1> QED
  BY <1>2, <1>3, <1>5, <1>6, <1>7, <1>10, <1>11

\* tap() cancels the watchdog.
LEMMA TapStep ==
    ASSUME ReconnectInv, NEW c \in Controllers, Tap(c)
    PROVE  ReconnectInv'
<1> USE DEF ReconnectInv
<1>0. /\ UNCHANGED <<todo, state, connected, sensors, held, registered, leftover, orphans, expired,
                     failed, configured>>
      /\ watching' = watching \ {c} /\ orphans[c] < MaxOrphans
      /\ app[c] = "up" /\ app' = [app EXCEPT ![c] = "cancelled"]
  BY DEF Tap, AppStep, Cancel, deviceVars, reactorVars, worldVars
<1>2. TypeOK'
  BY <1>0 DEF TypeOK, AppPcs, Tap, deviceVars, reactorVars, worldVars
<1>3. StackInv' /\ (\A d, st : Noted(d, st)' <=> Noted(d, st)) /\ (\A d : Joins(d)' <=> Joins(d))
  BY <1>0, SameStack
<1>4. \A i \in DOMAIN todo : todo[i].op \in {"enumerated", "advance"} => todo[i].c \in Controllers
  BY TaskTypes DEF TypeOK
<1>5. IsFiniteSet(connected)'
  BY <1>0
<1>6. AppInv'
  BY <1>0, <1>4 DEF AppInv, TypeOK
<1>7. SensorsInv'
  BY <1>0, <1>3 DEF SensorsInv, Good
<1>8. WatchInv'
  BY <1>0, <1>3 DEF WatchInv, TypeOK
<1>9. OrphansInv'
  BY <1>0, <1>3 DEF OrphansInv, Ran, TypeOK
<1> QED
  BY <1>2, <1>3, <1>5, <1>6, <1>7, <1>8, <1>9

\* tap() starts another one. run() may have started one in between, whose
\* handle is lost.
LEMMA TapAddStep ==
    ASSUME ReconnectInv, NEW c \in Controllers, TapAdd(c)
    PROVE  ReconnectInv'
<1> USE DEF ReconnectInv
<1>0. /\ UNCHANGED <<todo, state, connected, sensors, held, registered, leftover, expired,
                     failed, configured>>
      /\ watching' = watching \cup {c}
      /\ app[c] = "cancelled" /\ app' = [app EXCEPT ![c] = "up"]
  BY DEF TapAdd, AppStep, Watch, deviceVars, reactorVars, worldVars
<1>1. orphans' = IF c \in watching THEN [orphans EXCEPT ![c] = orphans[c] + 1] ELSE orphans
  BY DEF TapAdd, Watch
<1>a. orphans[c] < MaxOrphans /\ (c \in watching => Ran(c))
  BY <1>0 DEF OrphansInv
<1>b. orphans' \in [Controllers -> 0..MaxOrphans]
  BY <1>1, <1>a, ReconnectAssumption DEF TypeOK
<1>2. TypeOK'
  BY <1>0, <1>b DEF TypeOK, AppPcs, TapAdd, deviceVars, reactorVars, worldVars
<1>3. StackInv' /\ (\A d, st : Noted(d, st)' <=> Noted(d, st)) /\ (\A d : Joins(d)' <=> Joins(d))
  BY <1>0, SameStack
<1>4. \A i \in DOMAIN todo : todo[i].op \in {"enumerated", "advance"} => todo[i].c \in Controllers
  BY TaskTypes DEF TypeOK
<1>5. IsFiniteSet(connected)'
  BY <1>0
<1>6. AppInv'
  BY <1>0, <1>4 DEF AppInv, TypeOK
<1>7. SensorsInv'
  BY <1>0, <1>3 DEF SensorsInv, Good
<1>8. \A d \in Controllers : d # c => orphans'[d] = orphans[d] /\ app'[d] = app[d]
  BY <1>0, <1>1 DEF TypeOK
<1>9. WatchInv'
  BY <1>0, <1>3, <1>8 DEF WatchInv, TypeOK
<1>10. \A d : Ran(d)' <=> Ran(d)
  BY <1>0, <1>3 DEF Ran
<1>11. OrphansInv'
  <2> SUFFICES ASSUME NEW d \in Controllers
               PROVE  /\ app'[d] = "cancelled" => orphans'[d] < MaxOrphans /\ (d \in watching' => Ran(d)')
                      /\ d \in watching' => orphans'[d] < MaxOrphans \/ Ran(d)'
    BY DEF OrphansInv
  <2>1. CASE d = c
    BY <2>1, <1>0, <1>1, <1>a, <1>10 DEF TypeOK
  <2>2. CASE d # c
    BY <2>2, <1>0, <1>8, <1>10 DEF OrphansInv
  <2> QED
    BY <2>1, <2>2
<1> QED
  BY <1>2, <1>3, <1>5, <1>6, <1>7, <1>9, <1>11

\* run() takes alarms: a watchdog that no longer waits is called next.
LEMMA ExpireStep ==
    ASSUME ReconnectInv, NEW take \in [Controllers -> 0..MaxOrphans], NEW current \in SUBSET watching,
           NEW ptp \in BOOLEAN, Expire(take, current, ptp)
    PROVE  ReconnectInv'
<1> USE DEF ReconnectInv
<1>0. /\ UNCHANGED <<todo, state, connected, sensors, held, registered, leftover, app,
                     failed, configured>>
      /\ watching' = watching \ current
  BY DEF Expire
<1>1. \A d \in Controllers :
         /\ expired[d] = 0 /\ take[d] <= orphans[d]
         /\ take[d] \in Nat /\ orphans[d] \in Nat
         /\ orphans'[d] = orphans[d] - take[d]
         /\ expired'[d] = IF d \in current THEN take[d] + 1 ELSE take[d]
  BY ReconnectAssumption DEF Expire, AtRest, TypeOK
<1>a. orphans' \in [Controllers -> 0..MaxOrphans] /\ expired' \in [Controllers -> 0..(MaxOrphans + 1)]
  <2>1. ASSUME NEW d \in Controllers
        PROVE  /\ orphans[d] - take[d] \in 0..MaxOrphans
               /\ (IF d \in current THEN take[d] + 1 ELSE take[d]) \in 0..(MaxOrphans + 1)
    BY <1>1, ReconnectAssumption DEF TypeOK
  <2> QED
    BY <2>1 DEF Expire
<1>b. faults' \in 0..MaxFaults /\ ptpAlarm' \in {"none", "waits", "expired"}
  BY ReconnectAssumption DEF Expire, TypeOK
<1>2. TypeOK'
  BY <1>0, <1>a, <1>b DEF TypeOK, Expire
<1>3. StackInv' /\ (\A d, st : Noted(d, st)' <=> Noted(d, st)) /\ (\A d : Joins(d)' <=> Joins(d))
  BY <1>0, SameStack
<1>4. IsFiniteSet(connected)' /\ AppInv'
  BY <1>0 DEF AppInv
<1>5. SensorsInv'
  BY <1>0, <1>3 DEF SensorsInv, Good
<1>6. WatchInv'
  BY <1>0, <1>1, <1>3 DEF WatchInv
<1>7. \A d : Ran(d)' <=> Ran(d)
  BY <1>0, <1>3 DEF Ran
<1>8. OrphansInv'
  BY <1>0, <1>1, <1>7, ReconnectAssumption DEF OrphansInv
<1> QED
  BY <1>2, <1>3, <1>4, <1>5, <1>6, <1>8

-----------------------------------------------------------------------------
(* Calls that return. *)

\* The threads of the application are not concerned.
LEMMA PopApp ==
    ASSUME todo \in Seq(Task), todo # <<>>, Continue(<<>>), AppInv, UNCHANGED <<app, registered>>,
           \A d \in Controllers : d \in connected' => app[d] \notin {"new", "register"}
    PROVE  AppInv'
<1>1. PICK n \in Nat \ {0} : n = Len(todo)
  BY Popped
<1>2. /\ DOMAIN todo = 1..n /\ DOMAIN todo' = 1..(n - 1)
      /\ \A i \in 1..(n - 1) : todo'[i] = todo[i + 1]
  BY <1>1, Popped
<1>3. ASSUME NEW i \in 1..(n - 1), todo'[i].op \in {"enumerated", "advance"}
      PROVE  app[todo'[i].c] \notin {"new", "register", "stopped"}
  <2>1. i + 1 \in 1..n /\ todo'[i] = todo[i + 1]
    BY <1>2
  <2> QED
    BY <1>2, <1>3, <2>1 DEF AppInv
<1> QED
  BY <1>2, <1>3 DEF AppInv

\* The call at the head runs.
LEMMA HeadRuns ==
    ASSUME todo \in Seq(Task), NEW t, Runs(t)
    PROVE  todo # <<>> /\ todo[1] = t /\ 1 \in DOMAIN todo
<1>1. todo # <<>> /\ Head(todo) = t
  BY DEF Runs
<1>2. Head(todo) = todo[1] /\ 1 \in DOMAIN todo
  BY <1>1
<1> QED
  BY <1>1, <1>2

\* The end of lost(): all that had a sensor were told.
LEMMA ClearStep == ASSUME ReconnectInv, Clear PROVE ReconnectInv'
<1> USE DEF ReconnectInv
<1>0. /\ todo # <<>> /\ todo[1].op = "clear" /\ 1 \in DOMAIN todo /\ todo \in Seq(Task) /\ Continue(<<>>)
      /\ connected' = {}
      /\ UNCHANGED <<state, sensors, held, app, registered, leftover, watching, orphans, expired, failed, configured>>
  BY HeadRuns DEF Clear, TypeOK, factoryVars, alarmVars, worldVars
<1>1. state = "NOT_FOUND" /\ connected \cap sensors = {}
  BY <1>0 DEF StackInv, LostInv
<1>2. todo' \in Seq(Task) /\ EndInv' /\ OnceInv'
  BY <1>0, PopEnd DEF StackInv
<1>3. TypeOK'
  BY <1>0, <1>2 DEF TypeOK, Clear, factoryVars, alarmVars, worldVars
<1>4. IsFiniteSet(connected)'
  BY <1>0, FS_EmptySet
<1>5. LostInv'
  BY <1>0, PopNoClear DEF StackInv
<1>6. TellInv' /\ JoinInv'
  <2>1. PICK n \in Nat \ {0} : n = Len(todo)
    BY <1>0, Popped
  <2>2. /\ DOMAIN todo = 1..n /\ DOMAIN todo' = 1..(n - 1)
        /\ \A i \in 1..(n - 1) : todo'[i] = todo[i + 1]
    BY <1>0, <2>1, Popped
  <2>3. JoinInv'
    BY <1>0, <1>1 DEF JoinInv
  <2>4. ASSUME NEW i \in 1..(n - 1), todo'[i].op = "device_state"
        PROVE  /\ todo'[i].st # "CONNECTED" => "NOT_FOUND" = todo'[i].st
               /\ todo'[i].st # "RUN"
    <3>1. i + 1 \in 1..n /\ todo'[i] = todo[i + 1]
      BY <2>2
    <3> QED
      BY <1>1, <2>2, <2>4, <3>1 DEF StackInv, TellInv
  <2>5. TellInv'
    BY <1>0, <1>1, <2>2, <2>4 DEF TellInv
  <2> QED
    BY <2>3, <2>5
<1>7. AppInv'
  BY <1>0, PopApp
<1>8. SensorsInv' /\ WatchInv'
  BY <1>0, <1>1 DEF SensorsInv, WatchInv, Joins
<1>9. \A d : Noted(d, "NOT_FOUND") => Noted(d, "NOT_FOUND")'
  BY <1>0, PopNotes DEF IsNote
<1>10. OrphansInv'
  BY <1>0, <1>1, <1>9 DEF OrphansInv, Ran
<1> QED
  BY <1>2, <1>3, <1>4, <1>5, <1>6, <1>7, <1>8, <1>10 DEF StackInv

\* fd_callback releases lock_.
LEMMA UnlockStep == ASSUME ReconnectInv, Unlock PROVE ReconnectInv'
<1> USE DEF ReconnectInv
<1>0. /\ todo # <<>> /\ todo[1].op = "unlock" /\ todo \in Seq(Task) /\ Continue(<<>>) /\ held' = FALSE
      /\ UNCHANGED <<state, connected, sensors, app, registered, leftover, watching, orphans, expired, failed,
                     configured>>
  BY DEF Unlock, TypeOK, deviceVars, factoryVars, alarmVars, worldVars
<1>1. todo' \in Seq(Task) /\ EndInv' /\ OnceInv'
  BY <1>0, PopEnd DEF StackInv
<1>2. /\ \A c, st : ~Noted(c, st) /\ ~Noted(c, st)'
      /\ \A c : ~Joins(c)'
      /\ TellInv' /\ LostInv' /\ JoinInv'
  BY <1>0, PopLast DEF StackInv
<1>3. TypeOK'
  BY <1>0, <1>1 DEF TypeOK, Unlock, deviceVars, factoryVars, alarmVars, worldVars
<1>4. AppInv'
  BY <1>0, PopApp DEF AppInv
<1>5. \A c : ~Joins(c)
  BY <1>0 DEF Joins
<1>6. SensorsInv'
  BY <1>0, <1>2, <1>5 DEF SensorsInv, Good
<1>7. WatchInv' /\ OrphansInv'
  BY <1>0, <1>2, <1>5 DEF WatchInv, OrphansInv, Ran
<1> QED
  BY <1>0, <1>1, <1>2, <1>3, <1>4, <1>6, <1>7 DEF StackInv

\* A sensor that is found. After the device was lost again it stays in the
\* factory.
LEMMA FoundStep == ASSUME ReconnectInv, NEW c \in Controllers, Found(c) PROVE ReconnectInv'
<1> USE DEF ReconnectInv
<1>0. /\ todo # <<>> /\ IsNote(todo[1], c, "CONNECTED") /\ 1 \in DOMAIN todo /\ todo \in Seq(Task) /\ Continue(<<>>)
      /\ sensors' = sensors \cup {c} /\ configured' = configured \cup {c} /\ c \notin sensors
      /\ leftover' = IF state = "CONNECTED" THEN leftover ELSE leftover \cup {c}
      /\ UNCHANGED <<state, connected, held, app, registered, watching, orphans, expired, failed>>
  BY HeadRuns DEF Found, Told, TypeOK, IsNote, deviceVars, alarmVars
<1>a. todo[1].op = "device_state" /\ todo[1].st = "CONNECTED" /\ todo[1].c = c
  BY <1>0 DEF IsNote
<1>1. state \in {"CONNECTED", "NOT_FOUND"}
  BY <1>0, <1>a DEF StackInv, TellInv
<1>2. todo' \in Seq(Task) /\ EndInv' /\ OnceInv'
  BY <1>0, <1>a, PopEnd DEF StackInv
<1>3. TellInv' /\ JoinInv'
  BY <1>0, PopMiddle DEF StackInv
<1>4. LostInv'
  BY <1>0, <1>a, PopNoClear DEF StackInv
<1>5. TypeOK'
  BY <1>0, <1>2 DEF TypeOK, Found, deviceVars, alarmVars
<1>6. AppInv'
  BY <1>0, PopApp DEF AppInv
<1>7. \A d : ~Joins(d)
  BY <1>a DEF Joins
<1>8. \A d : Noted(d, "NOT_FOUND") => Noted(d, "NOT_FOUND")'
  BY <1>0, <1>a, PopNotes DEF IsNote
<1>9. \A d : Noted(d, "CONNECTED") => Noted(d, "CONNECTED")' \/ d = c
  BY <1>0, <1>a, PopNotes DEF IsNote
<1>10. \A d : Joins(d)' => state = "NOT_FOUND" \/ d = c
  BY <1>0, <1>a, PopJoins DEF StackInv
<1>11. SensorsInv'
  <2>1. ASSUME state = "CONNECTED" PROVE Good(c)'
    BY <1>0 DEF Good
  <2>2. \A d : Good(d) => Good(d)'
    BY <1>0 DEF Good
  <2>3. \A d \in sensors' : d \in connected \/ d \in leftover' \/ Joins(d)'
    <3>1. c \in connected \/ c \in leftover' \/ Joins(c)'
      <4>1. CASE state = "CONNECTED"
        <5>1. c \in connected \/ (1 < Len(todo) /\ todo[1 + 1].op = "advance" /\ todo[1 + 1].c = c)
          BY <1>0, <1>a, <4>1 DEF StackInv, TellInv
        <5>2. ASSUME 1 < Len(todo), todo[1 + 1].op = "advance", todo[1 + 1].c = c PROVE Joins(c)'
          <6>1. 1 \in 1..(Len(todo) - 1) /\ todo'[1] = todo[1 + 1] /\ Len(todo') > 0
            BY <1>0, <5>2, Popped
          <6>2. todo' # <<>>
            BY <6>1
          <6> QED
            BY <5>2, <6>1, <6>2 DEF Joins
        <5> QED
          BY <5>1, <5>2
      <4>2. CASE state # "CONNECTED"
        BY <1>0, <4>2
      <4> QED
        BY <4>1, <4>2
    <3> QED
      BY <1>0, <1>7, <3>1 DEF SensorsInv
  <2> QED
    BY <1>0, <1>1, <1>9, <1>10, <2>1, <2>2, <2>3 DEF SensorsInv
<1>12. WatchInv'
  BY <1>0, <1>1 DEF WatchInv
<1>13. OrphansInv'
  BY <1>0, <1>1, <1>8 DEF OrphansInv, Ran
<1> QED
  BY <1>0, <1>2, <1>3, <1>4, <1>5, <1>6, <1>11, <1>12, <1>13 DEF StackInv

\* A controller that runs starts its watchdog. It is told so once, thus the
\* watchdog whose handle is lost is at most the one of a tap().
LEMMA RunStep == ASSUME ReconnectInv, NEW c \in Controllers, Run(c) PROVE ReconnectInv'
<1> USE DEF ReconnectInv
<1>0. /\ todo # <<>> /\ IsNote(todo[1], c, "RUN") /\ 1 \in DOMAIN todo /\ todo \in Seq(Task) /\ Continue(<<>>)
      /\ c \in sensors /\ watching' = watching \cup {c}
      /\ UNCHANGED <<state, connected, sensors, held, app, registered, leftover, expired, failed, configured>>
  BY HeadRuns DEF Run, Told, TypeOK, IsNote, Watch, deviceVars, worldVars
<1>a. todo[1].op = "device_state" /\ todo[1].st = "RUN" /\ todo[1].c = c
  BY <1>0 DEF IsNote
<1>b. orphans' = IF c \in watching THEN [orphans EXCEPT ![c] = orphans[c] + 1] ELSE orphans
  BY DEF Run, Watch
<1>1. /\ state = "RUN"
      /\ c \in connected \/ (1 < Len(todo) /\ todo[1 + 1].op = "advance" /\ todo[1 + 1].c = c)
  BY <1>0, <1>a DEF StackInv, TellInv
<1>c. Noted(c, "RUN") /\ \A d : ~Noted(d, "NOT_FOUND")
  BY <1>0, <1>1 DEF StackInv, TellInv, Noted, IsNote
<1>d. c \in watching => orphans[c] < MaxOrphans /\ app[c] # "cancelled"
  BY <1>1, <1>c DEF OrphansInv, Ran
<1>2. todo' \in Seq(Task) /\ EndInv' /\ OnceInv'
  BY <1>0, <1>a, PopEnd DEF StackInv
<1>3. TellInv' /\ JoinInv'
  BY <1>0, PopMiddle DEF StackInv
<1>4. LostInv'
  BY <1>0, <1>a, PopNoClear DEF StackInv
<1>e. orphans' \in [Controllers -> 0..MaxOrphans]
  BY <1>b, <1>d, ReconnectAssumption DEF TypeOK
<1>5. TypeOK'
  BY <1>0, <1>2, <1>e DEF TypeOK, Run, deviceVars, worldVars
<1>6. AppInv'
  BY <1>0, PopApp DEF AppInv
<1>7. \A d : ~Joins(d)
  BY <1>a DEF Joins
<1>8. \A d : Noted(d, "CONNECTED") => Noted(d, "CONNECTED")'
  BY <1>0, <1>a, PopNotes DEF IsNote
<1>9. \A d : /\ Noted(d, "RUN") => Noted(d, "RUN")' \/ d = c
             /\ Noted(d, "RUN")' => Noted(d, "RUN")
  BY <1>0, <1>a, PopNotes DEF IsNote
<1>10. \A d : Joins(d)' => d = c /\ d \notin connected
  BY <1>0, <1>1, <1>a, PopJoins DEF StackInv
<1>11. c \in connected \/ Joins(c)'
  <2>1. ASSUME 1 < Len(todo), todo[1 + 1].op = "advance", todo[1 + 1].c = c PROVE Joins(c)'
    <3>1. 1 \in 1..(Len(todo) - 1) /\ todo'[1] = todo[1 + 1] /\ Len(todo') > 0
      BY <1>0, <2>1, Popped
    <3>2. todo' # <<>>
      BY <3>1
    <3> QED
      BY <2>1, <3>1, <3>2 DEF Joins
  <2> QED
    BY <1>1, <2>1
<1>12. ~Noted(c, "RUN")'
  <2>1. SUFFICES ASSUME NEW i \in DOMAIN todo', IsNote(todo'[i], c, "RUN") PROVE FALSE
    BY DEF Noted, IsNote
  <2>2. i + 1 \in DOMAIN todo /\ todo'[i] = todo[i + 1] /\ i + 1 # 1
    BY <1>0, Popped
  <2> QED
    BY <1>0, <2>1, <2>2 DEF StackInv, OnceInv
<1>13. SensorsInv'
  <2>1. \A d : Good(d) => Good(d)'
    BY <1>0 DEF Good
  <2>2. c \notin connected => Good(c)
    BY <1>0, <1>7 DEF SensorsInv, Good
  <2> QED
    BY <1>0, <1>1, <1>7, <1>8, <1>10, <2>1, <2>2 DEF SensorsInv
<1>14. \A d \in Controllers : d # c => orphans'[d] = orphans[d]
  BY <1>b DEF TypeOK
<1>15. WatchInv'
  BY <1>0, <1>1, <1>9, <1>10, <1>14 DEF WatchInv
<1>16. OrphansInv'
  <2> SUFFICES ASSUME NEW d \in Controllers
               PROVE  /\ app[d] = "cancelled" => orphans'[d] < MaxOrphans /\ (d \in watching' => Ran(d)')
                      /\ d \in watching' => orphans'[d] < MaxOrphans \/ Ran(d)'
    BY <1>0 DEF OrphansInv
  <2>1. CASE d = c
    <3>1. Ran(c)'
      BY <1>0, <1>1, <1>11, <1>12 DEF Ran
    <3>2. app[c] = "cancelled" => orphans'[c] < MaxOrphans
      BY <1>b, <1>d DEF OrphansInv
    <3> QED
      BY <2>1, <3>1, <3>2
  <2>2. CASE d # c
    <3>1. Ran(d) => Ran(d)'
      BY <1>0, <1>1, <1>7, <1>9, <1>c DEF Ran
    <3> QED
      BY <1>0, <1>14, <2>2, <3>1 DEF OrphansInv
  <2> QED
    BY <2>1, <2>2
<1> QED
  BY <1>0, <1>2, <1>3, <1>4, <1>5, <1>6, <1>13, <1>15, <1>16 DEF StackInv

\* A controller that is told NOT_FOUND forgets its sensor and its watchdog.
LEMMA NotFoundStep == ASSUME ReconnectInv, NEW c \in Controllers, NotFound(c) PROVE ReconnectInv'
<1> USE DEF ReconnectInv
<1>0. /\ todo # <<>> /\ IsNote(todo[1], c, "NOT_FOUND") /\ 1 \in DOMAIN todo /\ todo \in Seq(Task) /\ Continue(<<>>)
      /\ sensors' = sensors \ {c} /\ leftover' = leftover \ {c} /\ watching' = watching \ {c}
      /\ UNCHANGED <<state, connected, held, app, registered, orphans, expired, failed, configured>>
  BY HeadRuns DEF NotFound, Told, TypeOK, IsNote, Cancel, deviceVars, worldVars
<1>a. todo[1].op = "device_state" /\ todo[1].st = "NOT_FOUND" /\ todo[1].c = c
  BY <1>0 DEF IsNote
<1>1. state = "NOT_FOUND"
  BY <1>0, <1>a DEF StackInv, TellInv
<1>2. todo' \in Seq(Task) /\ EndInv' /\ OnceInv'
  BY <1>0, <1>a, PopEnd DEF StackInv
<1>3. TellInv' /\ JoinInv'
  BY <1>0, PopMiddle DEF StackInv
<1>4. LostInv'
  <2>1. PICK n \in Nat \ {0} : n = Len(todo)
    BY <1>0, Popped
  <2>2. /\ DOMAIN todo = 1..n /\ DOMAIN todo' = 1..(n - 1)
        /\ \A i \in 1..(n - 1) : todo'[i] = todo[i + 1]
        /\ \A i \in 2..n : todo[i] = todo'[i - 1]
    BY <1>0, <2>1, Popped
  <2>3. SUFFICES ASSUME NEW i \in 1..(n - 1), todo'[i].op = "clear"
                 PROVE  /\ \A j \in 1..(i - 1) : todo'[j].op = "device_state" /\ todo'[j].st = "NOT_FOUND"
                        /\ \A d \in connected \cap (sensors \ {c}) :
                              \E j \in 1..(i - 1) : IsNote(todo'[j], d, "NOT_FOUND")
    BY <1>0, <1>1, <2>2 DEF LostInv, IsNote
  <2>4. i + 1 \in 1..n /\ todo[i + 1].op = "clear" /\ (i + 1) - 1 = i
    BY <2>2, <2>3
  <2>5. /\ \A j \in 1..i : todo[j].op = "device_state" /\ todo[j].st = "NOT_FOUND"
        /\ \A d \in connected \cap sensors : \E j \in 1..i : IsNote(todo[j], d, "NOT_FOUND")
    BY <2>2, <2>4 DEF StackInv, LostInv
  <2>6. ASSUME NEW j \in 1..(i - 1) PROVE todo'[j].op = "device_state" /\ todo'[j].st = "NOT_FOUND"
    <3>1. j + 1 \in 1..i /\ todo'[j] = todo[j + 1]
      BY <2>2
    <3> QED
      BY <2>5, <3>1
  <2>7. ASSUME NEW d \in connected \cap (sensors \ {c})
        PROVE  \E j \in 1..(i - 1) : IsNote(todo'[j], d, "NOT_FOUND")
    <3>1. PICK j \in 1..i : IsNote(todo[j], d, "NOT_FOUND")
      BY <2>5
    <3>2. j # 1
      BY <1>a, <3>1 DEF IsNote
    <3>3. j - 1 \in 1..(i - 1) /\ todo[j] = todo'[j - 1]
      BY <2>2, <3>2
    <3> QED
      BY <3>1, <3>3
  <2> QED
    BY <2>6, <2>7
<1>5. TypeOK'
  BY <1>0, <1>2 DEF TypeOK, NotFound, deviceVars, worldVars
<1>6. AppInv'
  BY <1>0, PopApp DEF AppInv
<1>7. \A d : ~Joins(d)
  BY <1>a DEF Joins
<1>8. \A d : Noted(d, "NOT_FOUND") => Noted(d, "NOT_FOUND")' \/ d = c
  BY <1>0, <1>a, PopNotes DEF IsNote
<1>9. SensorsInv' /\ WatchInv'
  BY <1>0, <1>1, <1>7 DEF SensorsInv, WatchInv
<1>10. OrphansInv'
  BY <1>0, <1>1, <1>8 DEF OrphansInv, Ran
<1> QED
  BY <1>0, <1>2, <1>3, <1>4, <1>5, <1>6, <1>9, <1>10 DEF StackInv

\* Nothing is done for RESET; HsbController forgets its link.
LEMMA ReturnStep ==
    ASSUME ReconnectInv, NEW c \in Controllers, Resetting(c) \/ ControllerLost(c)
    PROVE  ReconnectInv'
<1> USE DEF ReconnectInv
<1>0. /\ todo # <<>> /\ 1 \in DOMAIN todo /\ todo \in Seq(Task) /\ Continue(<<>>)
      /\ IsNote(todo[1], c, "RESET") \/ todo[1].op = "controller_lost"
      /\ UNCHANGED <<state, connected, sensors, held, app, registered, leftover, watching, orphans, expired, failed,
                     configured>>
  BY HeadRuns DEF Resetting, ControllerLost, Told, TypeOK, IsNote, deviceVars, factoryVars, alarmVars, worldVars
<1>1. todo[1].op = "device_state" => todo[1].st = "RESET" /\ state = "RESET"
  BY <1>0 DEF StackInv, TellInv, IsNote
<1>a. todo[1].op \in {"device_state", "controller_lost"}
  BY <1>0 DEF IsNote
<1>2. todo' \in Seq(Task) /\ EndInv' /\ OnceInv'
  BY <1>0, <1>a, PopEnd DEF StackInv
<1>3. TellInv' /\ JoinInv'
  BY <1>0, PopMiddle DEF StackInv
<1>4. LostInv'
  BY <1>0, <1>1, PopNoClear DEF StackInv
<1>5. TypeOK'
  BY <1>0, <1>2 DEF TypeOK, Resetting, ControllerLost, deviceVars, factoryVars, alarmVars, worldVars
<1>6. AppInv'
  BY <1>0, PopApp DEF AppInv
<1>7. \A d : ~Joins(d)
  BY <1>a DEF Joins
<1>8. ASSUME NEW d, NEW st \in {"CONNECTED", "RUN", "NOT_FOUND"} PROVE Noted(d, st)' <=> Noted(d, st)
  BY <1>0, <1>1, PopNotes DEF IsNote
<1>9. \A d : Joins(d)' => state \in {"NOT_FOUND", "RESET"}
  BY <1>0, <1>1, PopJoins DEF StackInv
<1>10. SensorsInv'
  BY <1>0, <1>7, <1>8, <1>9 DEF SensorsInv, Good
<1>11. WatchInv'
  BY <1>0, <1>7, <1>8, <1>9 DEF WatchInv
<1>12. OrphansInv'
  BY <1>0, <1>7, <1>8, <1>9 DEF OrphansInv, Ran
<1> QED
  BY <1>0, <1>2, <1>3, <1>4, <1>5, <1>6, <1>10, <1>11, <1>12 DEF StackInv

\* Who enumerates is at the head of fd_callback's calls.
LEMMA AdvanceHead ==
    ASSUME ReconnectInv, NEW c \in Controllers, NEW fresh \in BOOLEAN, Advances(c, fresh)
    PROVE  /\ todo # <<>> /\ 1 \in DOMAIN todo /\ todo \in Seq(Task)
           /\ todo[1].c = c /\ app[c] \notin {"new", "register"}
           /\ \/ todo[1].op = "enumerated" /\ c \in connected
              \/ todo[1].op = "advance" /\ Joins(c)
           /\ \A d : Joins(d) => d = c
<1>1. /\ todo # <<>> /\ 1 \in DOMAIN todo /\ todo \in Seq(Task)
      /\ todo[1].c = c
      /\ (todo[1].op = "enumerated" /\ c \in connected) \/ todo[1].op = "advance"
  BY HeadRuns DEF Advances, ReconnectInv, TypeOK
<1>2. app[c] \notin {"new", "register"}
  BY <1>1 DEF ReconnectInv, AppInv
<1> QED
  BY <1>1, <1>2 DEF Joins

\* The device is reset. The controller becomes one of the connected.
LEMMA ResetStep ==
    ASSUME ReconnectInv, NEW c \in Controllers, NEW fresh \in BOOLEAN, ResetDevice(c, fresh)
    PROVE  ReconnectInv'
<1> USE DEF ReconnectInv
<1>0. /\ Advances(c, fresh) /\ Continue(<<>>) /\ state = "NOT_FOUND" /\ state' = "RESET"
      /\ connected' = connected \cup {c}
      /\ UNCHANGED <<sensors, held, app, registered, leftover, watching, orphans, expired>>
  BY DEF ResetDevice, MayReset, factoryVars, alarmVars
<1>1. /\ todo # <<>> /\ 1 \in DOMAIN todo /\ todo \in Seq(Task)
      /\ todo[1].c = c /\ app[c] \notin {"new", "register"}
      /\ todo[1].op \in {"enumerated", "advance"}
      /\ \A d : Joins(d) => d = c
  BY <1>0, AdvanceHead
<1>2. todo' \in Seq(Task) /\ EndInv' /\ OnceInv'
  BY <1>0, <1>1, PopEnd DEF StackInv
<1>3. /\ \A d, st : ~Noted(d, st) /\ ~Noted(d, st)'
      /\ \A d : ~Joins(d)'
      /\ TellInv' /\ LostInv' /\ JoinInv'
  BY <1>0, <1>1, PopLast DEF StackInv
<1>4. queued' \subseteq Controllers
  BY DEF ResetDevice, TypeOK
<1>5. TypeOK'
  BY <1>0, <1>2, <1>4 DEF TypeOK, ResetDevice, Restart, States, factoryVars, alarmVars
<1>6. IsFiniteSet(connected)'
  BY <1>0, FS_AddElement
<1>7. AppInv'
  BY <1>0, <1>1, PopApp DEF AppInv
<1>8. SensorsInv' /\ WatchInv'
  BY <1>0, <1>1 DEF SensorsInv, WatchInv
<1>9. OrphansInv'
  BY <1>0, <1>3 DEF OrphansInv, Ran
<1> QED
  BY <1>2, <1>3, <1>5, <1>6, <1>7, <1>8, <1>9 DEF StackInv

\* A message for which there is nothing to do: the controller becomes one of
\* the connected.
LEMMA IgnoreStep ==
    ASSUME ReconnectInv, NEW c \in Controllers, NEW fresh \in BOOLEAN, Ignore(c, fresh)
    PROVE  ReconnectInv'
<1> USE DEF ReconnectInv
<1>0. /\ Advances(c, fresh) /\ Continue(<<>>)
      /\ connected' = connected \cup {c}
      /\ UNCHANGED <<state, sensors, held, app, registered, leftover, watching, orphans, expired, failed, configured>>
  BY DEF Ignore, factoryVars, alarmVars, worldVars
<1>1. /\ todo # <<>> /\ 1 \in DOMAIN todo /\ todo \in Seq(Task)
      /\ todo[1].c = c /\ app[c] \notin {"new", "register"}
      /\ todo[1].op \in {"enumerated", "advance"}
      /\ c \in connected \/ Joins(c)
      /\ \A d : Joins(d) => d = c
  BY <1>0, AdvanceHead
<1>2. todo' \in Seq(Task) /\ EndInv' /\ OnceInv'
  BY <1>0, <1>1, PopEnd DEF StackInv
<1>3. /\ \A d, st : ~Noted(d, st) /\ ~Noted(d, st)'
      /\ \A d : ~Joins(d)'
      /\ TellInv' /\ LostInv' /\ JoinInv'
  BY <1>0, <1>1, PopLast DEF StackInv
<1>4. TypeOK'
  BY <1>0, <1>2 DEF TypeOK, Ignore, factoryVars, alarmVars, worldVars
<1>5. IsFiniteSet(connected)'
  BY <1>0, FS_AddElement
<1>6. AppInv'
  BY <1>0, <1>1, PopApp DEF AppInv
<1>7. SensorsInv'
  BY <1>0, <1>1, <1>3 DEF SensorsInv, Good
<1>8. WatchInv'
  BY <1>0, <1>1, <1>3 DEF WatchInv
<1>9. OrphansInv'
  BY <1>0, <1>1, <1>3 DEF OrphansInv, Ran
<1> QED
  BY <1>2, <1>3, <1>4, <1>5, <1>6, <1>7, <1>8, <1>9 DEF StackInv

\* check_ptp() that changes no state: called by enumerated() or by run().
LEMMA PollStep == ASSUME ReconnectInv, NoLongerConnected \/ PollAgain PROVE ReconnectInv'
<1> USE DEF ReconnectInv
<1>0. /\ ChecksPtp /\ Continue(<<>>) /\ todo \in Seq(Task)
      /\ UNCHANGED <<state, connected, sensors, held, app, registered, leftover, watching, orphans, expired, failed,
                     configured>>
  BY DEF NoLongerConnected, PollAgain, TypeOK, factoryVars, alarmVars, worldVars
<1>a. \A d : ~Joins(d)
  BY <1>0, HeadRuns DEF ChecksPtp, Joins
<1>1. CASE todo # <<>>
  <2>1. todo[1].op = "check_ptp" /\ 1 \in DOMAIN todo
    BY <1>0, <1>1, HeadRuns DEF ChecksPtp
  <2>2. todo' \in Seq(Task) /\ EndInv' /\ OnceInv'
    BY <1>0, <1>1, <2>1, PopEnd DEF StackInv
  <2>3. /\ \A d, st : ~Noted(d, st) /\ ~Noted(d, st)'
        /\ \A d : ~Joins(d)'
        /\ TellInv' /\ LostInv' /\ JoinInv'
    BY <1>0, <1>1, <2>1, PopLast DEF StackInv
  <2>4. TypeOK'
    BY <1>0, <2>2 DEF TypeOK, NoLongerConnected, PollAgain, factoryVars, alarmVars, worldVars
  <2>5. AppInv'
    BY <1>0, <1>1, PopApp DEF AppInv
  <2>6. SensorsInv'
    BY <1>0, <1>a, <2>3 DEF SensorsInv, Good
  <2>7. WatchInv' /\ OrphansInv'
    BY <1>0, <1>a, <2>3 DEF WatchInv, OrphansInv, Ran
  <2> QED
    BY <1>0, <2>2, <2>3, <2>4, <2>5, <2>6, <2>7 DEF StackInv
<1>2. CASE todo = <<>>
  <2>1. todo' = <<>> \o <<>>
    BY <1>0, <1>2 DEF Continue
  <2>2. todo' = todo
    BY <1>2, <2>1
  <2>3. TypeOK'
    BY <1>0, <2>2 DEF TypeOK, NoLongerConnected, PollAgain, factoryVars, alarmVars, worldVars
  <2>4. StackInv' /\ (\A d, st : Noted(d, st)' <=> Noted(d, st)) /\ (\A d : Joins(d)' <=> Joins(d))
    BY <1>0, <2>2, SameStack
  <2>5. AppInv'
    BY <1>0, <2>2 DEF AppInv
  <2>6. SensorsInv'
    BY <1>0, <2>4 DEF SensorsInv, Good
  <2>7. WatchInv' /\ OrphansInv'
    BY <1>0, <2>4 DEF WatchInv, OrphansInv, Ran
  <2> QED
    BY <1>0, <2>3, <2>4, <2>5, <2>6, <2>7
<1> QED
  BY <1>1, <1>2

-----------------------------------------------------------------------------
(* Calls that call. *)

\* The stack after goto(): its notes, what follows them, the rest of the stack before.
Stacked(stack, n, S, st, then, k) ==
    /\ Len(stack) = n + Len(then) + Len(todo) - k
    /\ \A i \in 1..n : \E c \in S : IsNote(stack[i], c, st)
    /\ \A i, j \in 1..n : stack[i].c = stack[j].c => i = j
    /\ \A c \in S : \E i \in 1..n : IsNote(stack[i], c, st)
    /\ \A i \in 1..Len(then) : stack[n + i] = then[i]
    /\ \A i \in (n + Len(then) + 1)..Len(stack) : stack[i] = todo[i - (n + Len(then)) + k]

LEMMA GotoStack ==
    ASSUME todo \in Seq(Task), NEW S, IsFiniteSet(S), S \subseteq Controllers,
           NEW st \in States, NEW then \in Seq(Task), NEW order \in SetToSeqs(S),
           Continue(Notify(order, st) \o then), NEW k \in {0, 1}, k = IF todo = <<>> THEN 0 ELSE 1
    PROVE  /\ todo' \in Seq(Task) /\ Len(todo) \in Nat /\ k <= Len(todo)
           /\ \E n \in Nat : Stacked(todo', n, S, st, then, k)
<1> DEFINE calls == Notify(order, st) \o then
<1>1. PICK n \in Nat : Tells(calls, n, S, st, then)
  BY GotoCalls
<1>3. Continue(calls)
  OBVIOUS
<1> HIDE DEF calls
<1>2. /\ calls \in Seq(Task) /\ Len(calls) = n + Len(then)
      /\ \A i \in 1..n : \E c \in S : IsNote(calls[i], c, st)
      /\ \A i, j \in 1..n : calls[i].c = calls[j].c => i = j
      /\ \A c \in S : \E i \in 1..n : IsNote(calls[i], c, st)
      /\ \A i \in 1..Len(then) : calls[n + i] = then[i]
  BY <1>1 DEF Tells
<1>4. /\ todo' \in Seq(Task) /\ Len(todo) \in Nat /\ k <= Len(todo)
      /\ Len(todo') = Len(calls) + Len(todo) - k
      /\ \A i \in 1..Len(calls) : todo'[i] = calls[i]
      /\ \A i \in (Len(calls) + 1)..Len(todo') : todo'[i] = todo[i - Len(calls) + k]
  BY <1>2, <1>3, Continued
<1>5. Len(then) \in Nat
  OBVIOUS
<1>6. \A i \in 1..n : todo'[i] = calls[i]
  BY <1>2, <1>4, <1>5
<1>7. \A i \in 1..Len(then) : todo'[n + i] = calls[n + i]
  <2> TAKE i \in 1..Len(then)
  <2>1. n + i \in 1..Len(calls)
    BY <1>2, <1>5
  <2> QED
    BY <1>4, <2>1
<1>8. /\ Len(todo') = n + Len(then) + Len(todo) - k
      /\ \A i \in 1..n : \E c \in S : IsNote(todo'[i], c, st)
      /\ \A i, j \in 1..n : todo'[i].c = todo'[j].c => i = j
      /\ \A c \in S : \E i \in 1..n : IsNote(todo'[i], c, st)
  BY <1>2, <1>4, <1>6
<1>9. \A i \in 1..Len(then) : todo'[n + i] = then[i]
  BY <1>2, <1>7
<1>10. \A i \in (n + Len(then) + 1)..Len(todo') : todo'[i] = todo[i - (n + Len(then)) + k]
  BY <1>2, <1>4
<1>11. Stacked(todo', n, S, st, then, k)
  BY <1>8, <1>9, <1>10 DEF Stacked
<1> QED
  BY <1>4, <1>11

\* lost() puts its calls before those it interrupts.
LEMMA LostStack ==
    ASSUME ReconnectInv, NEW then \in Seq(Task),
           \A i \in 1..Len(then) : then[i].op = "controller_lost",
           Goto("NOT_FOUND", <<[op |-> "clear"]>> \o then),
           UNCHANGED <<connected, held>>, sensors' \subseteq sensors,
           todo # <<>> => todo[1].op \notin {"unlock", "enumerated", "advance"},
           \A i \in 2..Len(todo) : /\ todo[i].op # "clear"
                                   /\ todo[i].op = "device_state" => todo[i].st \in {"CONNECTED", "NOT_FOUND"}
    PROVE  /\ todo' \in Seq(Task) /\ StackInv'
           /\ \A c \in connected : Noted(c, "NOT_FOUND")'
           /\ \A c : Noted(c, "NOT_FOUND") /\ ~IsNote(todo[1], c, "NOT_FOUND") => Noted(c, "NOT_FOUND")'
           /\ \A c : ~Joins(c)'
           /\ \A i \in DOMAIN todo' : todo'[i].op \in {"enumerated", "advance"} =>
                 \E j \in DOMAIN todo : todo'[i] = todo[j]
<1>1. PICK order \in SetToSeqs(connected) :
            Continue(Notify(order, "NOT_FOUND") \o (<<[op |-> "clear"]>> \o then))
  BY DEF Goto
<1>2. PICK after : after = <<[op |-> "clear"]>> \o then
  OBVIOUS
<1>3. [op |-> "clear"] \in Task
  BY DEF Task
<1>4. /\ after \in Seq(Task) /\ Len(after) = Len(then) + 1 /\ after[1] = [op |-> "clear"]
      /\ \A i \in 2..Len(after) : after[i] = then[i - 1]
  BY <1>2, <1>3
<1>5. PICK k \in {0, 1} : k = IF todo = <<>> THEN 0 ELSE 1
  OBVIOUS
<1>6. "NOT_FOUND" \in States /\ todo \in Seq(Task) /\ connected \subseteq Controllers /\ IsFiniteSet(connected)
  BY DEF States, ReconnectInv, TypeOK
<1>7. Continue(Notify(order, "NOT_FOUND") \o after)
  BY <1>1, <1>2
<1>8. /\ todo' \in Seq(Task) /\ Len(todo) \in Nat /\ k <= Len(todo)
      /\ \E n \in Nat : Stacked(todo', n, connected, "NOT_FOUND", after, k)
  BY <1>1, <1>4, <1>5, <1>6, <1>7, GotoStack
<1>9. PICK n \in Nat :
            /\ Len(todo') = n + Len(after) + Len(todo) - k
            /\ \A i \in 1..n : \E c \in connected : IsNote(todo'[i], c, "NOT_FOUND")
            /\ \A c \in connected : \E i \in 1..n : IsNote(todo'[i], c, "NOT_FOUND")
            /\ \A i \in 1..Len(after) : todo'[n + i] = after[i]
            /\ \A i \in (n + Len(after) + 1)..Len(todo') : todo'[i] = todo[i - (n + Len(after)) + k]
  BY <1>8 DEF Stacked
<1>10. PICK m \in Nat : m = n + Len(after)
  BY <1>4, <1>9
<1>11. PICK len \in Nat : len = Len(todo)
  BY <1>8
<1>12. /\ m > n /\ Len(todo') = m + len - k /\ DOMAIN todo' = 1..(m + len - k) /\ DOMAIN todo = 1..len
       /\ \A i \in (m + 1)..(m + len - k) : i - m + k \in (k + 1)..len /\ todo'[i] = todo[i - m + k]
       /\ \A j \in (k + 1)..len : j + m - k \in (m + 1)..(m + len - k) /\ todo'[j + m - k] = todo[j]
  <2>1. m > n /\ Len(todo') = m + len - k /\ DOMAIN todo' = 1..(m + len - k) /\ DOMAIN todo = 1..len
    BY <1>4, <1>6, <1>8, <1>9, <1>10, <1>11
  <2>2. \A i \in (m + 1)..(m + len - k) : i - m + k \in (k + 1)..len /\ todo'[i] = todo[i - m + k]
    <3>1. \A i \in (m + 1)..Len(todo') : todo'[i] = todo[i - m + k]
      BY <1>9, <1>10
    <3>2. \A i \in (m + 1)..(m + len - k) : i - m + k \in (k + 1)..len
      OBVIOUS
    <3> QED
      BY <2>1, <3>1, <3>2
  <2>3. ASSUME NEW j \in (k + 1)..len PROVE j + m - k \in (m + 1)..(m + len - k) /\ todo'[j + m - k] = todo[j]
    <3>1. j + m - k \in (m + 1)..(m + len - k) /\ (j + m - k) - m + k = j
      OBVIOUS
    <3> QED
      BY <2>2, <3>1
  <2> QED
    BY <2>1, <2>2, <2>3
<1>13. /\ \A i \in 1..n : todo'[i].op = "device_state" /\ todo'[i].st = "NOT_FOUND"
       /\ n + 1 \in 1..(m + len - k) /\ todo'[n + 1].op = "clear"
       /\ \A i \in (n + 2)..m : todo'[i].op = "controller_lost"
  <2>1. \A i \in 1..n : todo'[i].op = "device_state" /\ todo'[i].st = "NOT_FOUND"
    BY <1>9 DEF IsNote
  <2>2. n + 1 \in 1..(m + len - k)
    BY <1>4, <1>5, <1>8, <1>10, <1>11
  <2>3. todo'[n + 1].op = "clear"
    BY <1>4, <1>9
  <2>4. ASSUME NEW i \in (n + 2)..m PROVE todo'[i].op = "controller_lost"
    <3>1. i - n \in 2..Len(after) /\ n + (i - n) = i
      BY <1>4, <1>10
    <3>2. todo'[i] = after[i - n]
      BY <1>4, <1>9, <3>1
    <3>3. (i - n) - 1 \in 1..Len(then) /\ after[i - n] = then[(i - n) - 1]
      BY <1>4, <3>1
    <3> QED
      BY <3>2, <3>3
  <2> QED
    BY <2>1, <2>2, <2>3, <2>4
<1>14. \A j \in (k + 1)..len : j \in 1..len /\ todo[j].op # "clear"
                              /\ (todo[j].op = "device_state" => todo[j].st \in {"CONNECTED", "NOT_FOUND"})
  BY <1>5, <1>11, <1>6
<1>15. \A i \in 1..(m + len - k) :
          \/ i \in 1..n /\ todo'[i].op = "device_state" /\ todo'[i].st = "NOT_FOUND"
          \/ i = n + 1 /\ todo'[i].op = "clear"
          \/ todo'[i].op = "controller_lost"
          \/ i \in (m + 1)..(m + len - k)
  <2> TAKE i \in 1..(m + len - k)
  <2>1. i \in 1..n \/ i = n + 1 \/ i \in (n + 2)..m \/ i \in (m + 1)..(m + len - k)
    BY <1>12
  <2> QED
    BY <1>13, <2>1
<1>16. state' = "NOT_FOUND"
  BY DEF Goto
<1>17. EndInv'
  <2>1. ASSUME NEW i \in 1..(m + len - k)
        PROVE  /\ todo'[i].op \in {"enumerated", "advance", "check_ptp"} =>
                     i + 1 = m + len - k /\ todo'[m + len - k].op = "unlock"
               /\ todo'[i].op = "unlock" => i = m + len - k
    <3>1. CASE i \in (m + 1)..(m + len - k)
      <4>0. i - m + k \in (k + 1)..len /\ todo'[i] = todo[i - m + k]
        BY <1>12, <3>1
      <4>1. i - m + k \in 1..len /\ todo'[i] = todo[i - m + k]
        BY <4>0
      <4>2. /\ todo[i - m + k].op \in {"enumerated", "advance", "check_ptp"} =>
                  i - m + k + 1 = len /\ todo[len].op = "unlock"
            /\ todo[i - m + k].op = "unlock" => i - m + k = len
        BY <1>11, <1>12, <4>1 DEF ReconnectInv, StackInv, EndInv
      <4>3. ASSUME i - m + k + 1 = len PROVE len \in (k + 1)..len /\ todo'[len + m - k] = todo[len]
        <5>1. len \in (k + 1)..len
          BY <3>1, <4>3
        <5> QED
          BY <1>12, <5>1
      <4>4. len + m - k = m + len - k
        OBVIOUS
      <4> QED
        BY <4>1, <4>2, <4>3, <4>4
    <3>2. CASE i \notin (m + 1)..(m + len - k)
      BY <1>15, <3>2
    <3> QED
      BY <3>1, <3>2
  <2>2. (\E i \in 1..(m + len - k) : todo'[i].op = "unlock") <=> \E j \in 1..len : todo[j].op = "unlock"
    <3>1. ASSUME NEW i \in 1..(m + len - k), todo'[i].op = "unlock" PROVE \E j \in 1..len : todo[j].op = "unlock"
      <4>0. i \in (m + 1)..(m + len - k)
        BY <1>15, <3>1
      <4>1. i - m + k \in (k + 1)..len /\ todo'[i] = todo[i - m + k]
        BY <1>12, <4>0
      <4>2. i - m + k \in 1..len
        BY <4>1
      <4> QED
        BY <3>1, <4>1, <4>2
    <3>2. ASSUME NEW j \in 1..len, todo[j].op = "unlock"
          PROVE  \E i \in 1..(m + len - k) : todo'[i].op = "unlock"
      <4>0. j # 1 \/ k = 0
        BY <1>5, <3>2
      <4>1. j \in (k + 1)..len
        BY <4>0
      <4>2. j + m - k \in 1..(m + len - k) /\ todo'[j + m - k] = todo[j]
        BY <1>12, <4>1
      <4> QED
        BY <3>2, <4>2
    <3> QED
      BY <3>1, <3>2
  <2>3. held <=> \E j \in 1..len : todo[j].op = "unlock"
    BY <1>12 DEF ReconnectInv, StackInv, EndInv
  <2> QED
    BY <1>12, <2>1, <2>2, <2>3 DEF EndInv
<1>18. ASSUME NEW i \in 1..(m + len - k), todo'[i].op = "device_state"
       PROVE  todo'[i].st \in {"CONNECTED", "NOT_FOUND"}
  <2>1. CASE i \in (m + 1)..(m + len - k)
    <3>1. i - m + k \in (k + 1)..len /\ todo'[i] = todo[i - m + k]
      BY <1>12, <2>1
    <3> QED
      BY <1>14, <1>18, <3>1
  <2> QED
    BY <1>15, <1>18, <2>1
<1>19. TellInv' /\ OnceInv'
  BY <1>12, <1>16, <1>18 DEF TellInv, OnceInv, IsNote
<1>20. ASSUME NEW i \in 1..(m + len - k), todo'[i].op = "clear" PROVE i = n + 1
  <2>1. ASSUME i \in (m + 1)..(m + len - k) PROVE FALSE
    <3>1. i - m + k \in (k + 1)..len /\ todo'[i] = todo[i - m + k]
      BY <1>12, <2>1
    <3> QED
      BY <1>14, <1>20, <3>1
  <2> QED
    BY <1>15, <1>20, <2>1
<1>21. LostInv'
  <2>1. \A j \in 1..((n + 1) - 1) : todo'[j].op = "device_state" /\ todo'[j].st = "NOT_FOUND"
    BY <1>13
  <2>2. \A c \in connected : \E j \in 1..((n + 1) - 1) : IsNote(todo'[j], c, "NOT_FOUND")
    BY <1>9
  <2>3. ASSUME NEW i \in 1..(m + len - k), todo'[i].op = "clear"
        PROVE  /\ \A j \in 1..(i - 1) : todo'[j].op = "device_state" /\ todo'[j].st = "NOT_FOUND"
               /\ \A c \in connected : \E j \in 1..(i - 1) : IsNote(todo'[j], c, "NOT_FOUND")
    BY <1>20, <2>1, <2>2, <2>3
  <2> QED
    BY <1>12, <1>16, <2>3 DEF LostInv, IsNote
<1>22. ASSUME NEW i \in 1..(m + len - k), todo'[i].op \in {"enumerated", "advance"}
       PROVE  \E j \in 1..len : todo'[i] = todo[j]
  <2>0. i \in (m + 1)..(m + len - k)
    BY <1>15, <1>22
  <2>1. i - m + k \in (k + 1)..len /\ todo'[i] = todo[i - m + k]
    BY <1>12, <2>0
  <2>2. i - m + k \in 1..len
    BY <2>1
  <2> QED
    BY <2>1, <2>2
<1>23. JoinInv'
  <2>1. ASSUME NEW i \in 1..(m + len - k), todo'[i].op = "advance" PROVE todo'[i].c \notin connected
    <3>1. PICK j \in 1..len : todo'[i] = todo[j]
      BY <1>22, <2>1
    <3> QED
      BY <1>12, <2>1, <3>1 DEF ReconnectInv, StackInv, JoinInv
  <2> QED
    BY <1>12, <1>16, <2>1 DEF JoinInv
<1>24. \A c \in connected : Noted(c, "NOT_FOUND")'
  <2>1. \A i \in 1..n : i \in DOMAIN todo'
    BY <1>12, <1>13
  <2> QED
    BY <1>9, <2>1 DEF Noted, IsNote
<1>25. ASSUME NEW c, Noted(c, "NOT_FOUND"), ~IsNote(todo[1], c, "NOT_FOUND") PROVE Noted(c, "NOT_FOUND")'
  <2>1. PICK j \in 1..len : IsNote(todo[j], c, "NOT_FOUND")
    BY <1>12, <1>25 DEF Noted
  <2>2. j # 1
    BY <1>25, <2>1
  <2>3. j \in (k + 1)..len
    BY <1>5, <2>2
  <2>4. j + m - k \in DOMAIN todo' /\ IsNote(todo'[j + m - k], c, "NOT_FOUND")
    BY <1>12, <2>1, <2>3
  <2>5. \E i \in DOMAIN todo' : IsNote(todo'[i], c, "NOT_FOUND")
    BY <2>4
  <2> QED
    BY <2>5 DEF Noted, IsNote
<1>26. \A c : ~Joins(c)'
  <2>1. 1 \in 1..n \/ 1 = n + 1
    OBVIOUS
  <2>2. todo'[1].op \in {"device_state", "clear"}
    BY <1>13, <2>1
  <2> QED
    BY <2>2 DEF Joins
<1> QED
  BY <1>8, <1>12, <1>17, <1>19, <1>21, <1>22, <1>23, <1>24, <1>25, <1>26 DEF StackInv

\* goto() tells CONNECTED or RUN at the end of enumerated() or when the alarm of
\* check_ptp() is called: nothing else is left to be told.
LEMMA TellStack ==
    ASSUME todo \in Seq(Task), EndInv, NEW S, IsFiniteSet(S), S \subseteq Controllers, connected' = S,
           NEW st \in {"CONNECTED", "RUN"}, state' = st,
           NEW then \in Seq(Task), NEW order \in SetToSeqs(S),
           Continue(Notify(order, st) \o then), UNCHANGED held,
           todo # <<>> => todo[1].op \in {"enumerated", "advance", "check_ptp"},
           then = <<>> \/ (Len(then) = 1 /\ then[1].op = "check_ptp" /\ todo # <<>>)
    PROVE  /\ todo' \in Seq(Task) /\ StackInv'
           /\ \A c, s : ~Noted(c, s)
           /\ \A c \in S : Noted(c, st)'
           /\ \A c, s : Noted(c, s)' => s = st
           /\ \A c : ~Joins(c)'
           /\ \A i \in DOMAIN todo' : todo'[i].op \notin {"enumerated", "advance"}
<1>1. PICK k \in {0, 1} : k = IF todo = <<>> THEN 0 ELSE 1
  OBVIOUS
<1>2. st \in States
  BY DEF States
<1>3. /\ todo' \in Seq(Task) /\ Len(todo) \in Nat /\ k <= Len(todo)
      /\ \E n \in Nat : Stacked(todo', n, S, st, then, k)
  BY <1>1, <1>2, GotoStack
<1>4. PICK n \in Nat : Stacked(todo', n, S, st, then, k)
  BY <1>3
<1>5. PICK t \in {0, 1} : t = Len(then) /\ (t = 1 => then[1].op = "check_ptp" /\ todo # <<>>)
  OBVIOUS
<1>6. PICK u \in {0, 1} : /\ u = Len(todo) - k
                          /\ u = 1 => k = 1 /\ Len(todo) = 2 /\ todo[2].op = "unlock"
                          /\ todo # <<>> => u = 1
  <2>1. CASE todo = <<>>
    BY <1>1, <2>1
  <2>2. CASE todo # <<>>
    <3>1. 1 \in DOMAIN todo
      BY <2>2
    <3>2. 1 + 1 = Len(todo) /\ todo[Len(todo)].op = "unlock"
      BY <2>2, <3>1 DEF EndInv
    <3>3. Len(todo) = 2 /\ k = 1
      BY <1>1, <2>2, <3>2
    <3>4. todo[2].op = "unlock" /\ 1 = Len(todo) - k
      BY <3>2, <3>3
    <3> QED
      BY <3>3, <3>4
  <2> QED
    BY <2>1, <2>2
<1>7. /\ \A i \in 1..n : \E c \in S : IsNote(todo'[i], c, st)
      /\ \A i, j \in 1..n : todo'[i].c = todo'[j].c => i = j
      /\ \A c \in S : \E i \in 1..n : IsNote(todo'[i], c, st)
  BY <1>4 DEF Stacked
<1>8. Len(todo') = n + t + u /\ DOMAIN todo' = 1..(n + t + u)
  <2>1. Len(todo') = n + Len(then) + Len(todo) - k
    BY <1>4 DEF Stacked
  <2> QED
    BY <1>3, <1>5, <1>6, <2>1
<1>9. t = 1 => todo'[n + 1].op = "check_ptp"
  <2>1. \A i \in 1..Len(then) : todo'[n + i] = then[i]
    BY <1>4 DEF Stacked
  <2> QED
    BY <1>5, <2>1
<1>10. u = 1 => todo'[n + t + 1].op = "unlock"
  <2>1. \A i \in (n + t + 1)..(n + t + u) : todo'[i] = todo[i - (n + t) + k]
    BY <1>4, <1>5, <1>8 DEF Stacked
  <2>2. ASSUME u = 1 PROVE todo'[n + t + 1].op = "unlock"
    <3>1. n + t + 1 \in (n + t + 1)..(n + t + u)
      BY <2>2
    <3>2. (n + t + 1) - (n + t) + k = 2 /\ todo[2].op = "unlock"
      BY <1>6, <2>2
    <3>3. todo'[n + t + 1] = todo[(n + t + 1) - (n + t) + k]
      BY <2>1, <3>1
    <3> QED
      BY <3>2, <3>3
  <2> QED
    BY <2>2
<1>11. \A i \in 1..(n + t + u) :
          \/ i \in 1..n /\ todo'[i].op = "device_state" /\ todo'[i].st = st /\ todo'[i].c \in S
          \/ i = n + 1 /\ t = 1 /\ todo'[i].op = "check_ptp"
          \/ i = n + t + 1 /\ u = 1 /\ todo'[i].op = "unlock"
  <2> TAKE i \in 1..(n + t + u)
  <2>1. i \in 1..n \/ (i = n + 1 /\ t = 1) \/ (i = n + t + 1 /\ u = 1)
    OBVIOUS
  <2> QED
    BY <1>7, <1>9, <1>10, <2>1 DEF IsNote
<1>12. t = 1 => u = 1
  BY <1>5, <1>6
<1>13. held <=> u = 1
  <2>1. u = 1 => k + u = 2 /\ todo[2].op = "unlock" /\ Len(todo) = 2
    BY <1>6
  <2>2. u = 0 => todo = <<>>
    BY <1>6
  <2> QED
    BY <2>1, <2>2 DEF EndInv
<1>14. EndInv'
  <2>1. ASSUME NEW i \in 1..(n + t + u)
        PROVE  /\ todo'[i].op \in {"enumerated", "advance", "check_ptp"} =>
                     i + 1 = n + t + u /\ todo'[n + t + u].op = "unlock"
               /\ todo'[i].op = "unlock" => i = n + t + u
    <3>1. CASE i = n + 1 /\ t = 1 /\ todo'[i].op = "check_ptp"
      <4>1. u = 1 /\ n + t + u = n + t + 1 /\ i + 1 = n + t + u
        BY <1>12, <3>1
      <4> QED
        BY <1>10, <3>1, <4>1
    <3> QED
      BY <1>11, <3>1
  <2>2. held' <=> \E i \in 1..(n + t + u) : todo'[i].op = "unlock"
    <3>1. ASSUME u = 1 PROVE \E i \in 1..(n + t + u) : todo'[i].op = "unlock"
      <4>1. n + t + 1 \in 1..(n + t + u)
        BY <3>1
      <4> QED
        BY <1>10, <3>1, <4>1
    <3>2. ASSUME NEW i \in 1..(n + t + u), todo'[i].op = "unlock" PROVE u = 1
      BY <1>11, <3>2
    <3> QED
      BY <1>13, <3>1, <3>2
  <2> QED
    BY <1>8, <2>1, <2>2 DEF EndInv
<1>15. TellInv' /\ LostInv' /\ JoinInv'
  BY <1>8, <1>11 DEF TellInv, LostInv, JoinInv
<1>16. OnceInv'
  <2>1. ASSUME NEW i \in 1..(n + t + u), NEW j \in 1..(n + t + u),
               todo'[i].op = "device_state", todo'[j].op = "device_state", todo'[i].c = todo'[j].c
        PROVE  i = j
    <3>1. i \in 1..n /\ j \in 1..n
      BY <1>11, <2>1
    <3> QED
      BY <1>7, <2>1, <3>1
  <2> QED
    BY <1>8, <2>1 DEF OnceInv, IsNote
<1>17. \A c, s : ~Noted(c, s)
  <2>1. Len(todo) \in {0, 2} /\ (Len(todo) = 2 => todo[1].op # "device_state" /\ todo[2].op # "device_state")
    BY <1>1, <1>6
  <2>2. \A i \in DOMAIN todo : todo[i].op # "device_state"
    BY <2>1
  <2> QED
    BY <2>2 DEF Noted, IsNote
<1>18. \A c \in S : Noted(c, st)'
  <2>1. \A i \in 1..n : i \in DOMAIN todo'
    BY <1>8
  <2> QED
    BY <1>7, <2>1 DEF Noted, IsNote
<1>19. \A c, s : Noted(c, s)' => s = st
  BY <1>8, <1>11 DEF Noted, IsNote
<1>20. \A i \in DOMAIN todo' : todo'[i].op \notin {"enumerated", "advance"}
  BY <1>8, <1>11
<1>21. \A c : ~Joins(c)'
  <2>1. todo' # <<>> => 1 \in DOMAIN todo'
    BY <1>3
  <2> QED
    BY <1>20, <2>1 DEF Joins
<1> QED
  BY <1>3, <1>14, <1>15, <1>16, <1>17, <1>18, <1>19, <1>20, <1>21 DEF StackInv

\* fd_callback takes a message: lock_ is held until its callbacks return.
LEMMA BootpStep ==
    ASSUME ReconnectInv, NEW c \in Controllers, NEW fresh \in BOOLEAN, TakeBootp(c, fresh)
    PROVE  ReconnectInv'
<1> USE DEF ReconnectInv
<1>0. /\ todo = <<>>
      /\ UNCHANGED <<state, connected, sensors, app, registered, leftover, watching, orphans, expired, failed,
                     configured>>
  BY DEF TakeBootp, AtRest, deviceVars, factoryVars, alarmVars
<1>1. queued' \subseteq Controllers
  BY DEF TakeBootp, Message, TypeOK
<1>2. CASE c \in registered
  <2>1. PICK a, b : a = [op |-> "enumerated", c |-> c, fresh |-> fresh] /\ b = [op |-> "unlock"]
    OBVIOUS
  <2>2. a \in Task /\ b \in Task /\ a.op = "enumerated" /\ a.c = c /\ b.op = "unlock"
    BY <2>1 DEF Task
  <2>3. todo' = <<a, b>> /\ held' = TRUE
    BY <1>2, <2>1 DEF TakeBootp
  <2>4. /\ todo' \in Seq(Task) /\ DOMAIN todo' = 1..2 /\ Len(todo') = 2
        /\ todo'[1].op = "enumerated" /\ todo'[1].c = c /\ todo'[2].op = "unlock"
    BY <2>2, <2>3
  <2>5. \A i \in 1..2 : i = 1 \/ i = 2
    OBVIOUS
  <2>6. TypeOK'
    BY <1>0, <1>1, <2>3, <2>4 DEF TypeOK, TakeBootp, deviceVars, factoryVars, alarmVars
  <2>7. EndInv'
    BY <2>3, <2>4, <2>5 DEF EndInv
  <2>8. TellInv' /\ OnceInv' /\ LostInv' /\ JoinInv'
    BY <2>4, <2>5 DEF TellInv, OnceInv, LostInv, JoinInv, IsNote
  <2>9. \A d, s : ~Noted(d, s) /\ ~Noted(d, s)'
    BY <1>0, <2>4, <2>5 DEF Noted, IsNote
  <2>10. \A d : ~Joins(d) /\ ~Joins(d)'
    BY <1>0, <2>4 DEF Joins
  <2>11. app[c] \notin {"new", "register", "stopped"}
    BY <1>2 DEF AppInv
  <2>12. AppInv'
    BY <1>0, <2>4, <2>5, <2>11 DEF AppInv
  <2>13. SensorsInv'
    BY <1>0, <2>9, <2>10 DEF SensorsInv, Good
  <2>14. WatchInv' /\ OrphansInv'
    BY <1>0, <2>9, <2>10 DEF WatchInv, OrphansInv, Ran
  <2> QED
    BY <1>0, <2>6, <2>7, <2>8, <2>12, <2>13, <2>14 DEF StackInv
<1>3. CASE c \notin registered
  <2>1. UNCHANGED <<todo, held>>
    BY <1>3 DEF TakeBootp
  <2>2. TypeOK'
    BY <1>0, <1>1, <2>1 DEF TypeOK, TakeBootp, deviceVars, factoryVars, alarmVars
  <2>3. StackInv' /\ (\A d, st : Noted(d, st)' <=> Noted(d, st)) /\ (\A d : Joins(d)' <=> Joins(d))
    BY <1>0, <2>1, SameStack
  <2>4. AppInv'
    BY <1>0, <2>1 DEF AppInv
  <2>5. SensorsInv'
    BY <1>0, <2>3 DEF SensorsInv, Good
  <2>6. WatchInv' /\ OrphansInv'
    BY <1>0, <2>3 DEF WatchInv, OrphansInv, Ran
  <2> QED
    BY <1>0, <2>2, <2>3, <2>4, <2>5, <2>6
<1> QED
  BY <1>2, <1>3

\* A controller that the device does not know is told the state before it joins.
LEMMA EnumeratedStep ==
    ASSUME ReconnectInv, NEW c \in Controllers, NEW fresh \in BOOLEAN, Enumerated(c, fresh)
    PROVE  ReconnectInv'
<1> USE DEF ReconnectInv
<1>0. /\ Runs([op |-> "enumerated", c |-> c, fresh |-> fresh]) /\ todo \in Seq(Task) /\ c \notin connected
      /\ UNCHANGED <<connected, sensors, held, app, registered, leftover, watching, orphans, expired, failed,
                     configured>>
  BY DEF Enumerated, TypeOK, factoryVars, alarmVars, worldVars
<1>1. todo # <<>> /\ 1 \in DOMAIN todo /\ todo[1].op = "enumerated" /\ todo[1].c = c
  BY <1>0, HeadRuns
<1>2. 1 + 1 = Len(todo) /\ todo[Len(todo)].op = "unlock"
  BY <1>1 DEF StackInv, EndInv
<1>3. Len(todo) = 2 /\ DOMAIN todo = 1..2
  BY <1>0, <1>2
<1>4. todo[2].op = "unlock"
  BY <1>2, <1>3
<1>5. PICK st : st = state'
  OBVIOUS
<1>6. st = (IF state = None THEN "NOT_FOUND" ELSE state) /\ st \in States
  BY <1>5, ReconnectAssumption DEF Enumerated, TypeOK, States
<1>7. st # "NOT_FOUND" => st = state
  BY <1>6
<1>8. PICK a, b : /\ a = [op |-> "device_state", c |-> c, st |-> st]
                  /\ b = [op |-> "advance", c |-> c, fresh |-> fresh]
  OBVIOUS
<1>9. /\ a \in Task /\ b \in Task /\ a.op = "device_state" /\ a.c = c /\ a.st = st
      /\ b.op = "advance" /\ b.c = c
  BY <1>6, <1>8 DEF Task
<1>10. PICK calls : calls = <<a, b>>
  OBVIOUS
<1>11. calls \in Seq(Task) /\ Len(calls) = 2 /\ calls[1] = a /\ calls[2] = b
  BY <1>9, <1>10
<1>12. Continue(calls)
  BY <1>5, <1>8, <1>10 DEF Enumerated
<1>13. PICK k \in {0, 1} : k = 1
  OBVIOUS
<1>14. k = IF todo = <<>> THEN 0 ELSE 1
  BY <1>1, <1>13
<1>15. /\ todo' \in Seq(Task)
       /\ Len(todo') = Len(calls) + Len(todo) - k
       /\ \A i \in 1..Len(calls) : todo'[i] = calls[i]
       /\ \A i \in (Len(calls) + 1)..Len(todo') : todo'[i] = todo[i - Len(calls) + k]
  BY <1>0, <1>11, <1>12, <1>14, Continued
<1>16. Len(todo') = 3 /\ DOMAIN todo' = 1..3 /\ todo'[1] = a /\ todo'[2] = b
  BY <1>3, <1>11, <1>13, <1>15
<1>17. todo'[3] = todo[2]
  <2>1. 3 \in (Len(calls) + 1)..Len(todo') /\ 3 - Len(calls) + k = 2
    BY <1>11, <1>13, <1>16
  <2>2. todo'[3] = todo[3 - Len(calls) + k]
    BY <1>15, <2>1
  <2> QED
    BY <2>1, <2>2
<1>18. /\ todo'[1].op = "device_state" /\ todo'[1].c = c /\ todo'[1].st = st
       /\ todo'[2].op = "advance" /\ todo'[2].c = c /\ todo'[3].op = "unlock"
  BY <1>4, <1>9, <1>16, <1>17
<1>19. \A i \in 1..3 : i = 1 \/ i = 2 \/ i = 3
  OBVIOUS
<1>20. TypeOK'
  <2>1. state' \in States \cup {None} /\ primary' \in Controllers \cup {None}
    BY <1>5, <1>6 DEF Enumerated, TypeOK
  <2> QED
    BY <1>0, <1>15, <2>1 DEF TypeOK, Enumerated, factoryVars, alarmVars, worldVars
<1>21. held' <=> \E i \in 1..3 : todo'[i].op = "unlock"
  <2>1. held
    BY <1>3, <1>4 DEF StackInv, EndInv
  <2> QED
    BY <1>0, <1>18, <2>1
<1>22. EndInv'
  BY <1>16, <1>18, <1>19, <1>21 DEF EndInv
<1>23. TellInv'
  BY <1>5, <1>16, <1>18, <1>19, <1>6 DEF TellInv, States
<1>24. OnceInv' /\ LostInv'
  BY <1>16, <1>18, <1>19 DEF OnceInv, LostInv, IsNote
<1>25. JoinInv'
  BY <1>0, <1>16, <1>18, <1>19 DEF JoinInv
<1>26. \A d, s : ~Noted(d, s)
  BY <1>1, <1>3, <1>4 DEF Noted, IsNote
<1>27. \A d, s : Noted(d, s)' => d = c /\ s = st
  BY <1>16, <1>18, <1>19 DEF Noted, IsNote
<1>28. \A d : ~Joins(d) /\ ~Joins(d)'
  BY <1>1, <1>18 DEF Joins
<1>29. AppInv'
  BY <1>0, <1>1, <1>16, <1>18, <1>19 DEF AppInv
<1>30. SensorsInv'
  BY <1>0, <1>5, <1>7, <1>26, <1>28 DEF SensorsInv, Good
<1>31. WatchInv'
  BY <1>0, <1>5, <1>7, <1>26, <1>28 DEF WatchInv
<1>32. \A d : Ran(d) => Ran(d)'
  <2>1. state = "RUN" => st = "RUN"
    BY <1>6, ReconnectAssumption DEF States
  <2> QED
    BY <1>0, <1>5, <2>1, <1>26, <1>27, <1>28 DEF Ran
<1>33. OrphansInv'
  BY <1>0, <1>32 DEF OrphansInv
<1> QED
  BY <1>0, <1>20, <1>22, <1>23, <1>24, <1>25, <1>29, <1>30, <1>31, <1>33 DEF StackInv

\* The device is configured and everyone is told CONNECTED.
LEMMA ConfigureStep ==
    ASSUME ReconnectInv, NEW c \in Controllers, NEW fresh \in BOOLEAN, Configure(c, fresh)
    PROVE  ReconnectInv'
<1> USE DEF ReconnectInv
<1>0. /\ Advances(c, fresh) /\ state = "RESET" /\ state' = "CONNECTED"
      /\ connected' = connected \cup {c}
      /\ UNCHANGED <<sensors, held, app, registered, leftover, watching, orphans, expired, failed, configured>>
  BY DEF Configure, factoryVars, alarmVars, worldVars
<1>1. /\ todo # <<>> /\ 1 \in DOMAIN todo /\ todo \in Seq(Task)
      /\ todo[1].c = c /\ app[c] \notin {"new", "register"}
      /\ todo[1].op \in {"enumerated", "advance"}
      /\ \A d : Joins(d) => d = c
  BY <1>0, AdvanceHead
<1>2. PICK S : S = connected'
  OBVIOUS
<1>3. S = connected \cup {c} /\ IsFiniteSet(S) /\ S \subseteq Controllers
  BY <1>0, <1>2, FS_AddElement DEF TypeOK
<1>4. PICK then : then = <<[op |-> "check_ptp"]>>
  OBVIOUS
<1>5. [op |-> "check_ptp"] \in Task
  BY DEF Task
<1>6. then \in Seq(Task) /\ Len(then) = 1 /\ then[1].op = "check_ptp"
  BY <1>4, <1>5
<1>7. PICK order \in SetToSeqs(S) : Continue(Notify(order, "CONNECTED") \o then)
  BY <1>2, <1>4 DEF Configure
<1>8. EndInv
  BY DEF StackInv
<1>9. PICK st \in {"CONNECTED", "RUN"} : st = "CONNECTED"
  OBVIOUS
<1>10. Continue(Notify(order, st) \o then) /\ state' = st
  BY <1>0, <1>7, <1>9
<1>11. /\ todo' \in Seq(Task) /\ StackInv'
       /\ \A d, s : ~Noted(d, s)
       /\ \A d \in S : Noted(d, st)'
       /\ \A d : ~Joins(d)'
       /\ \A i \in DOMAIN todo' : todo'[i].op \notin {"enumerated", "advance"}
  BY <1>0, <1>1, <1>2, <1>3, <1>6, <1>7, <1>8, <1>10, TellStack
<1>12. TypeOK'
  BY <1>0, <1>2, <1>3, <1>11 DEF TypeOK, Configure, States, factoryVars, alarmVars, worldVars
<1>13. IsFiniteSet(connected)'
  BY <1>2, <1>3
<1>14. AppInv'
  BY <1>0, <1>1, <1>11 DEF AppInv
<1>15. SensorsInv'
  BY <1>0, <1>1, <1>2, <1>9, <1>11 DEF SensorsInv
<1>16. WatchInv'
  BY <1>0 DEF WatchInv
<1>17. OrphansInv'
  BY <1>0, <1>11 DEF OrphansInv, Ran
<1> QED
  BY <1>11, <1>12, <1>13, <1>14, <1>15, <1>16, <1>17

\* check_ptp() is called by run() or is the last call of enumerated().
LEMMA PtpHead ==
    ASSUME ReconnectInv, ChecksPtp
    PROVE  /\ todo \in Seq(Task) /\ (todo # <<>> => todo[1].op = "check_ptp")
           /\ \A d : ~Joins(d)
<1>1. todo \in Seq(Task) /\ (todo # <<>> => todo[1].op = "check_ptp")
  BY HeadRuns DEF ChecksPtp, ReconnectInv, TypeOK
<1> QED
  BY <1>1 DEF Joins

\* The device is synchronized and everyone is told RUN.
LEMMA ReadyStep == ASSUME ReconnectInv, Ready PROVE ReconnectInv'
<1> USE DEF ReconnectInv
<1>0. /\ ChecksPtp /\ state = "CONNECTED" /\ state' = "RUN"
      /\ UNCHANGED <<connected, sensors, held, app, registered, leftover, watching, orphans, expired, failed,
                     configured>>
  BY DEF Ready, Goto, factoryVars, alarmVars, worldVars
<1>1. /\ todo \in Seq(Task) /\ (todo # <<>> => todo[1].op = "check_ptp")
      /\ \A d : ~Joins(d)
  BY <1>0, PtpHead
<1>2. PICK S : S = connected'
  OBVIOUS
<1>3. S = connected /\ IsFiniteSet(S) /\ S \subseteq Controllers
  BY <1>0, <1>2 DEF TypeOK
<1>4. PICK then : then = <<>>
  OBVIOUS
<1>e. then \in Seq(Task)
  BY <1>4
<1>5. PICK st \in {"CONNECTED", "RUN"} : st = "RUN"
  OBVIOUS
<1>6. PICK order \in SetToSeqs(S) : Continue(Notify(order, st) \o then)
  BY <1>3, <1>4, <1>5 DEF Ready, Goto
<1>7. EndInv /\ state' = st
  BY <1>0, <1>5 DEF StackInv
<1>8. /\ todo' \in Seq(Task) /\ StackInv'
      /\ \A d, s : ~Noted(d, s)
      /\ \A d \in S : Noted(d, st)'
      /\ \A d : ~Joins(d)'
      /\ \A i \in DOMAIN todo' : todo'[i].op \notin {"enumerated", "advance"}
  BY <1>0, <1>1, <1>2, <1>3, <1>4, <1>e, <1>6, <1>7, TellStack
<1>9. TypeOK'
  BY <1>0, <1>8 DEF TypeOK, Ready, States, factoryVars, alarmVars, worldVars
<1>10. AppInv'
  BY <1>0, <1>8 DEF AppInv
<1>11. SensorsInv'
  BY <1>0, <1>1, <1>8 DEF SensorsInv, Good
<1>12. WatchInv'
  BY <1>0, <1>3, <1>5, <1>8 DEF WatchInv
<1>13. OrphansInv'
  BY <1>0, <1>8 DEF OrphansInv, Ran
<1> QED
  BY <1>0, <1>8, <1>9, <1>10, <1>11, <1>12, <1>13

\* A device that is lost has no sensor of a controller that is not to be told.
LEMMA LostState ==
    ASSUME ReconnectInv, TypeOK', StackInv', state' = "NOT_FOUND",
           UNCHANGED <<connected, app, registered, orphans>>,
           watching' \subseteq watching, sensors' \subseteq sensors,
           \A d \in sensors' : d \in leftover => d \in leftover',
           \A d : ~Joins(d),
           \A d \in connected : Noted(d, "NOT_FOUND")',
           \A d : Noted(d, "NOT_FOUND") => Noted(d, "NOT_FOUND")',
           \A i \in DOMAIN todo' : todo'[i].op \in {"enumerated", "advance"} =>
                 \E j \in DOMAIN todo : todo'[i] = todo[j]
    PROVE  ReconnectInv'
<1> USE DEF ReconnectInv
<1>1. AppInv'
  BY DEF AppInv
<1>2. SensorsInv' /\ WatchInv'
  BY DEF SensorsInv, WatchInv
<1>3. \A d : Ran(d) => Ran(d)'
  BY DEF Ran
<1>4. OrphansInv'
  BY <1>3 DEF OrphansInv
<1> QED
  BY <1>1, <1>2, <1>4

\* found() fails inside goto(), and lost() runs inside it.
LEMMA FoundFailsStep ==
    ASSUME ReconnectInv, NEW c \in Controllers, FoundFails(c)
    PROVE  ReconnectInv'
<1> USE DEF ReconnectInv
<1>0. /\ Goto("NOT_FOUND", <<[op |-> "clear"]>> \o <<>>)
      /\ UNCHANGED <<connected, sensors, held, app, registered, leftover, watching, orphans, expired, failed,
                     configured>>
  BY DEF FoundFails, Lost, factoryVars, alarmVars, worldVars
<1>1. todo # <<>> /\ 1 \in DOMAIN todo /\ todo \in Seq(Task) /\ IsNote(todo[1], c, "CONNECTED")
  BY HeadRuns DEF FoundFails, Told, TypeOK, IsNote
<1>2. todo[1].op = "device_state" /\ todo[1].st = "CONNECTED"
  BY <1>1 DEF IsNote
<1>3. state \in {"CONNECTED", "NOT_FOUND"}
  BY <1>1, <1>2 DEF StackInv, TellInv
<1>4. ASSUME NEW i \in 2..Len(todo)
      PROVE  /\ todo[i].op # "clear"
             /\ todo[i].op = "device_state" => todo[i].st \in {"CONNECTED", "NOT_FOUND"}
  <2>1. i \in DOMAIN todo /\ 1 \in 1..(i - 1)
    BY <1>1
  <2>2. todo[i].op # "clear"
    BY <1>2, <2>1 DEF StackInv, LostInv
  <2>3. todo[i].op = "device_state" => todo[i].st \in {"CONNECTED", "NOT_FOUND"}
    BY <1>3, <2>1 DEF StackInv, TellInv
  <2> QED
    BY <2>2, <2>3
<1>5. PICK then : then = <<>>
  OBVIOUS
<1>e. then \in Seq(Task)
  BY <1>5
<1>6. Goto("NOT_FOUND", <<[op |-> "clear"]>> \o then) /\ \A i \in 1..Len(then) : then[i].op = "controller_lost"
  BY <1>0, <1>5
<1>7. /\ todo' \in Seq(Task) /\ StackInv'
      /\ \A d \in connected : Noted(d, "NOT_FOUND")'
      /\ \A d : Noted(d, "NOT_FOUND") /\ ~IsNote(todo[1], d, "NOT_FOUND") => Noted(d, "NOT_FOUND")'
      /\ \A i \in DOMAIN todo' : todo'[i].op \in {"enumerated", "advance"} =>
            \E j \in DOMAIN todo : todo'[i] = todo[j]
  BY <1>0, <1>2, <1>4, <1>e, <1>6, LostStack
<1>8. \A d : ~IsNote(todo[1], d, "NOT_FOUND") /\ ~Joins(d)
  BY <1>2 DEF IsNote, Joins
<1>9. state' = "NOT_FOUND"
  BY <1>0 DEF Goto
<1>10. TypeOK'
  BY <1>0, <1>7, <1>9 DEF TypeOK, FoundFails, Lost, States, factoryVars, alarmVars, worldVars
<1> QED
  BY <1>0, <1>7, <1>8, <1>9, <1>10, LostState

\* check_ptp() fails.
LEMMA PtpFailsStep == ASSUME ReconnectInv, PtpFails PROVE ReconnectInv'
<1> USE DEF ReconnectInv
<1>0. /\ ChecksPtp /\ Goto("NOT_FOUND", <<[op |-> "clear"]>>)
      /\ UNCHANGED <<connected, sensors, held, app, registered, leftover, watching, orphans, expired, failed,
                     configured>>
  BY DEF PtpFails, factoryVars, alarmVars, worldVars
<1>1. /\ todo \in Seq(Task) /\ (todo # <<>> => todo[1].op = "check_ptp")
      /\ \A d : ~Joins(d)
  BY <1>0, PtpHead
<1>2. \A i \in 2..Len(todo) : todo[i].op = "unlock"
  <2> TAKE i \in 2..Len(todo)
  <2>1. 1 \in DOMAIN todo /\ todo # <<>> /\ i \in DOMAIN todo
    BY <1>1
  <2>2. 1 + 1 = Len(todo) /\ todo[Len(todo)].op = "unlock"
    BY <1>1, <2>1 DEF StackInv, EndInv
  <2>3. Len(todo) = 2
    BY <1>1, <2>2
  <2>4. i = Len(todo)
    BY <2>3
  <2> QED
    BY <2>2, <2>4
<1>3. PICK then : then = <<>>
  OBVIOUS
<1>e. then \in Seq(Task)
  BY <1>3
<1>4. [op |-> "clear"] \in Task
  BY DEF Task
<1>5. <<[op |-> "clear"]>> \o then = <<[op |-> "clear"]>>
  BY <1>3, <1>4
<1>6. Goto("NOT_FOUND", <<[op |-> "clear"]>> \o then) /\ \A i \in 1..Len(then) : then[i].op = "controller_lost"
  BY <1>0, <1>3, <1>5
<1>7. /\ todo' \in Seq(Task) /\ StackInv'
      /\ \A d \in connected : Noted(d, "NOT_FOUND")'
      /\ \A d : Noted(d, "NOT_FOUND") /\ ~IsNote(todo[1], d, "NOT_FOUND") => Noted(d, "NOT_FOUND")'
      /\ \A i \in DOMAIN todo' : todo'[i].op \in {"enumerated", "advance"} =>
            \E j \in DOMAIN todo : todo'[i] = todo[j]
  BY <1>0, <1>1, <1>2, <1>e, <1>6, LostStack
<1>8. \A d : Noted(d, "NOT_FOUND") => ~IsNote(todo[1], d, "NOT_FOUND")
  BY <1>1 DEF IsNote, Noted
<1>9. state' = "NOT_FOUND"
  BY <1>0 DEF Goto
<1>10. TypeOK'
  BY <1>0, <1>7, <1>9 DEF TypeOK, PtpFails, States, factoryVars, alarmVars, worldVars
<1> QED
  BY <1>0, <1>1, <1>7, <1>8, <1>9, <1>10, LostState

\* A watchdog is called: its controller's sensor is gone, and the device is lost.
LEMMA WatchdogStep ==
    ASSUME ReconnectInv, NEW c \in Controllers, WatchdogTimeout(c)
    PROVE  ReconnectInv'
<1> USE DEF ReconnectInv
<1>0. /\ todo = <<>> /\ todo \in Seq(Task) /\ expired[c] > 0 /\ expired' = [expired EXCEPT ![c] = expired[c] - 1]
      /\ Goto("NOT_FOUND", <<[op |-> "clear"]>> \o <<[op |-> "controller_lost", c |-> c]>>)
      /\ sensors' = sensors \ {c} /\ leftover' = leftover \ {c} /\ watching' = watching \ {c}
      /\ UNCHANGED <<connected, held, app, registered, orphans, failed, configured>>
  BY DEF WatchdogTimeout, WatchdogFires, Lost, Cancel, TypeOK, worldVars
<1>1. PICK then : then = <<[op |-> "controller_lost", c |-> c]>>
  OBVIOUS
<1>2. [op |-> "controller_lost", c |-> c] \in Task
  BY DEF Task
<1>3. then \in Seq(Task) /\ \A i \in 1..Len(then) : then[i].op = "controller_lost"
  BY <1>1, <1>2
<1>4. Goto("NOT_FOUND", <<[op |-> "clear"]>> \o then)
  BY <1>0, <1>1
<1>5. sensors' \subseteq sensors /\ \A i \in 2..Len(todo) : FALSE
  BY <1>0
<1>6. /\ todo' \in Seq(Task) /\ StackInv'
      /\ \A d \in connected : Noted(d, "NOT_FOUND")'
      /\ \A i \in DOMAIN todo' : todo'[i].op \in {"enumerated", "advance"} =>
            \E j \in DOMAIN todo : todo'[i] = todo[j]
  BY <1>0, <1>3, <1>4, <1>5, LostStack
<1>7. \A d : ~Noted(d, "NOT_FOUND") /\ ~Joins(d)
  BY <1>0 DEF Noted, Joins
<1>8. state' = "NOT_FOUND"
  BY <1>0 DEF Goto
<1>9. expired' \in [Controllers -> 0..(MaxOrphans + 1)]
  BY <1>0, ReconnectAssumption DEF TypeOK
<1>10. TypeOK'
  BY <1>0, <1>6, <1>8, <1>9 DEF TypeOK, WatchdogTimeout, Lost, States, worldVars
<1> QED
  BY <1>0, <1>6, <1>7, <1>8, <1>10, LostState

-----------------------------------------------------------------------------
(* Every step preserves the invariant. *)

LEMMA CallbackStep == ASSUME ReconnectInv, Callback PROVE ReconnectInv'
<1>1. ASSUME NEW c \in Controllers, NEW fresh \in BOOLEAN,
             \/ Enumerated(c, fresh) \/ ResetDevice(c, fresh) \/ Configure(c, fresh)
             \/ AdvanceFails(c, fresh) \/ Ignore(c, fresh)
      PROVE  ReconnectInv'
  <2>1. AdvanceFails(c, fresh) => Raise
    BY DEF AdvanceFails
  <2> QED
    BY <1>1, <2>1, EnumeratedStep, ResetStep, ConfigureStep, IgnoreStep, WorldStep
<1>2. ASSUME NEW c \in Controllers, DeviceState(c) PROVE ReconnectInv'
  <2>1. AssertionError(c) \/ ReceiverFails(c) => Raise
    BY DEF AssertionError, ReceiverFails
  <2>2. \/ Found(c) \/ FoundFails(c) \/ Run(c) \/ ReceiverFails(c) \/ AssertionError(c)
        \/ NotFound(c) \/ Resetting(c)
    BY <1>2 DEF DeviceState
  <2> QED
    BY <2>1, <2>2, FoundStep, FoundFailsStep, RunStep, NotFoundStep, ReturnStep, WorldStep
<1>3. ASSUME NEW c \in Controllers, WatchdogTimeout(c) \/ ControllerLost(c) PROVE ReconnectInv'
  BY <1>3, WatchdogStep, ReturnStep
<1>4. CASE NoLongerConnected \/ PtpFails \/ Ready \/ PollAgain \/ Clear \/ Unlock
  BY <1>4, PollStep, PtpFailsStep, ReadyStep, ClearStep, UnlockStep
<1> QED
  BY <1>1, <1>2, <1>3, <1>4 DEF Callback

LEMMA StutterStep == ASSUME ReconnectInv, UNCHANGED vars PROVE ReconnectInv'
<1> USE DEF ReconnectInv
<1>1. UNCHANGED <<todo, state, connected, sensors, held, app, registered, leftover, watching, orphans, expired,
                  failed, configured>>
  BY DEF vars, deviceVars, factoryVars, alarmVars, reactorVars, worldVars
<1>2. TypeOK'
  BY DEF TypeOK, vars, deviceVars, factoryVars, alarmVars, reactorVars, worldVars
<1>3. StackInv' /\ (\A d, st : Noted(d, st)' <=> Noted(d, st)) /\ (\A d : Joins(d)' <=> Joins(d))
  BY <1>1, SameStack
<1>4. AppInv' /\ IsFiniteSet(connected)'
  BY <1>1 DEF AppInv
<1>5. SensorsInv'
  BY <1>1, <1>3 DEF SensorsInv, Good
<1>6. WatchInv' /\ OrphansInv'
  BY <1>1, <1>3 DEF WatchInv, OrphansInv, Ran
<1> QED
  BY <1>2, <1>3, <1>4, <1>5, <1>6

LEMMA ReconnectStep == ReconnectInv /\ [Next]_vars => ReconnectInv'
<1> SUFFICES ASSUME ReconnectInv, [Next]_vars PROVE ReconnectInv'
  OBVIOUS
<1>1. CASE ReactorNext
  <2>1. ASSUME NEW c \in Controllers, NEW fresh \in BOOLEAN, TakeBootp(c, fresh) PROVE ReconnectInv'
    BY <2>1, BootpStep
  <2>2. ASSUME NEW take \in [Controllers -> 0..MaxOrphans], NEW current \in SUBSET watching,
               NEW ptp \in BOOLEAN, Expire(take, current, ptp)
        PROVE  ReconnectInv'
    BY <2>2, ExpireStep
  <2> QED
    BY <1>1, <2>1, <2>2, CallbackStep DEF ReactorNext
<1>2. ASSUME NEW c \in Controllers, AppNext(c) \/ Tap(c) \/ Start(c) \/ Stop(c) PROVE ReconnectInv'
  <2>1. TapAdd(c) \/ Unregister(c) \/ EnumeratorReturns(c) \/ Tap(c) \/ Start(c) \/ Stop(c)
    BY <1>2 DEF AppNext
  <2> QED
    BY <2>1, TapAddStep, StartStep, EnumeratorStep, TapStep
<1>3. CASE World
  BY <1>3, WorldStep
<1>4. CASE UNCHANGED vars
  BY <1>4, StutterStep
<1> QED
  BY <1>1, <1>2, <1>3, <1>4 DEF Next

\* The invariant says what holds between callbacks.
LEMMA ReconnectInvCorrect == ReconnectInv => ControllersReady /\ NoCallbackAfterUnregister
<1> SUFFICES ASSUME ReconnectInv PROVE ControllersReady /\ NoCallbackAfterUnregister
  OBVIOUS
<1> USE DEF ReconnectInv
<1>1. ASSUME AtRest
      PROVE  (\A c, s : ~Noted(c, s)) /\ (\A c \in Controllers : expired[c] = 0)
  BY <1>1 DEF AtRest, Noted
<1>2. SensorsConfigured
  BY <1>1 DEF SensorsConfigured, SensorsInv, Good
<1>3. Watched
  BY <1>1 DEF Watched, WatchInv, TypeOK
<1>4. NoCallbackAfterUnregister
  BY DEF NoCallbackAfterUnregister, AppInv
<1> QED
  BY <1>2, <1>3, <1>4 DEF ControllersReady

(* What the callbacks of the device, the sensor factories and the         *)
(* enumerator still have to do agrees with the state they left behind, at  *)
(* every call: a device that is lost inside goto() included.               *)
THEOREM ReconnectInvariant == SafetySpec => []ReconnectInv
<1> QED
  BY ReconnectInit, ReconnectStep, PTL DEF SafetySpec

(* However the device fails, comes back and is lost inside goto(), and     *)
(* however tap() and the reactor's callbacks interleave: between callbacks *)
(* a device in CONNECTED or RUN has a configured sensor for every          *)
(* controller it knows, and in RUN each of them is watched.                *)
THEOREM ControllersAreReady == SafetySpec => []ControllersReady
<1> QED
  BY ReconnectInit, ReconnectStep, ReconnectInvCorrect, PTL DEF SafetySpec

(* When unregister_ip() has returned no callback of that controller runs   *)
(* or will run: fd_callback keeps lock_ until its callbacks return.        *)
THEOREM NoCallbackOnceUnregistered == SafetySpec => []NoCallbackAfterUnregister
<1> QED
  BY ReconnectInit, ReconnectStep, ReconnectInvCorrect, PTL DEF SafetySpec

-----------------------------------------------------------------------------
(***************************************************************************)
(* The alarms of Reactor, which the watchdogs above and check_ptp() are,   *)
(* for any number of threads and operations.                               *)
(*                                                                         *)
(* A thread takes its sequence number before lock_, so an alarm may be     *)
(* pushed long after one with a larger number. The invariant follows every *)
(* alarm from there to where it is called or cancelled: its number is its  *)
(* own (NumbersInv, PendingInv), it is in one place (PlaceInv), the lists  *)
(* are sorted (SortedInv), and none that came before is left behind one    *)
(* that was taken or called (AlarmOrderInv).                               *)
(***************************************************************************)

\* e is at some place of s.
Among(s, e) == \E i \in DOMAIN s : s[i] = e

\* Alarms that have a sequence number and are, or were, in alarms_; the
\* alarms of threads between taking a number and lock_.
Past == fired \cup cancelled
Known(e) == Among(alarms_, e) \/ Among(loop.expired, e) \/ e \in Past
Pending(t) == actor[t].pc = "push"

\* Sequence numbers are handed out once, in order.
NumbersInv ==
    /\ ops \in 0..MaxOps /\ alarms_added_ <= ops
    /\ Past \subseteq Entry /\ before \in [Ids -> SUBSET Entry]
    /\ \A e : Known(e) => e.id < alarms_added_
    /\ \A i \in Ids : \A e \in before[i] : e.id < i /\ e.id < alarms_added_

\* A number that was taken before lock_ is nobody else's.
PendingInv ==
    \A t \in Actors : Pending(t) =>
        /\ actor[t].entry.id < alarms_added_
        /\ \A e : Known(e) => e.id # actor[t].entry.id
        /\ \A i \in Ids : \A e \in before[i] : e.id # actor[t].entry.id
        /\ \A u \in Actors \ {t} : Pending(u) => actor[u].entry.id # actor[t].entry.id

\* An alarm is in one place.
PlaceInv ==
    /\ \A i, j \in DOMAIN loop.expired : i # j => loop.expired[i].id # loop.expired[j].id
    /\ \A e, f : Among(alarms_, e) /\ Among(loop.expired, f) => e.id # f.id
    /\ \A e, f : (Among(alarms_, e) \/ Among(loop.expired, e)) /\ f \in Past => e.id # f.id
    /\ \A e \in cancelled, f \in fired : e.id # f.id

\* Both lists are sorted, and what was taken from alarms_ was due.
Ascends(s) == \A i, j \in DOMAIN s : i < j => Precedes(s[i], s[j])
SortedInv ==
    /\ Ascends(alarms_) /\ Ascends(loop.expired)
    /\ \A e : Among(loop.expired, e) => e.when <= now

\* No alarm that was there before f, and is due no later, is left behind f.
Behind(f, s) == \A e \in before[f.id] : Among(s, e) => e.when > f.when
AlarmOrderInv ==
    /\ \A f \in fired : Behind(f, alarms_) /\ Behind(f, loop.expired)
    /\ \A f : Among(loop.expired, f) => Behind(f, alarms_)

ReactorInv == ReactorTypeOK /\ NumbersInv /\ PendingInv /\ PlaceInv /\ SortedInv /\ AlarmOrderInv

-----------------------------------------------------------------------------
(* Lists of alarms. *)

\* r is s with e put between the first n and the others.
Insertion(S, r, s, n, e) ==
    /\ r \in Seq(S) /\ Len(r) = Len(s) + 1 /\ r[n + 1] = e
    /\ \A i \in 1..n : r[i] = s[i]
    /\ \A i \in (n + 2)..(Len(s) + 1) : r[i] = s[i - 1]

LEMMA Inserted ==
    ASSUME NEW S, NEW s \in Seq(S), NEW e \in S, NEW n \in 0..Len(s), NEW m, m = n + 1,
           NEW r, r = InsertAt(s, m, e)
    PROVE  Insertion(S, r, s, n, e)
<1>2. PICK a, b : a = SubSeq(s, 1, n) /\ b = SubSeq(s, m, Len(s))
  OBVIOUS
<1>3. r = (a \o <<e>>) \o b
  <2>1. m - 1 = n
    OBVIOUS
  <2> QED
    BY <1>2, <2>1 DEF InsertAt
<1>4. a \in Seq(S) /\ Len(a) = n /\ \A i \in 1..n : a[i] = s[i]
  BY <1>2
<1>5. b \in Seq(S) /\ Len(b) = Len(s) - n /\ \A i \in 1..(Len(s) - n) : b[i] = s[i + n]
  BY <1>2
<1>6. PICK c : c = a \o <<e>>
  OBVIOUS
<1>7. c \in Seq(S) /\ Len(c) = n + 1 /\ c[n + 1] = e /\ \A i \in 1..n : c[i] = s[i]
  BY <1>4, <1>6
<1>8. r = c \o b
  BY <1>3, <1>6
<1>9. /\ r \in Seq(S) /\ Len(r) = Len(s) + 1
      /\ \A i \in 1..(n + 1) : r[i] = c[i]
      /\ \A i \in (n + 2)..(Len(s) + 1) : r[i] = b[i - (n + 1)]
  <2>0. c \in Seq(S) /\ b \in Seq(S)
    BY <1>5, <1>7
  <2>1. c \o b \in Seq(S) /\ Len(c \o b) = Len(c) + Len(b)
    BY <2>0
  <2>2. /\ \A i \in 1..Len(c) : r[i] = c[i]
        /\ \A i \in (Len(c) + 1)..(Len(c) + Len(b)) : r[i] = b[i - Len(c)]
    BY <1>8, <2>0
  <2>3. Len(c) + Len(b) = Len(s) + 1 /\ Len(c) + 1 = n + 2
    BY <1>5, <1>7
  <2> QED
    BY <1>7, <1>8, <2>1, <2>2, <2>3
<1>10. ASSUME NEW i \in (n + 2)..(Len(s) + 1) PROVE r[i] = s[i - 1]
  <2>1. i - (n + 1) \in 1..(Len(s) - n) /\ (i - (n + 1)) + n = i - 1
    OBVIOUS
  <2> QED
    BY <1>5, <1>9, <2>1
<1> QED
  BY <1>7, <1>9, <1>10 DEF Insertion

\* r is s without its n-th element.
Removal(S, r, s, n) ==
    /\ r \in Seq(S) /\ Len(r) = Len(s) - 1
    /\ \A i \in 1..(n - 1) : r[i] = s[i]
    /\ \A i \in n..(Len(s) - 1) : r[i] = s[i + 1]

LEMMA Removed ==
    ASSUME NEW S, NEW s \in Seq(S), NEW n \in 1..Len(s), NEW r, r = RemoveAt(s, n)
    PROVE  Removal(S, r, s, n)
<1>1. PICK a, b : a = SubSeq(s, 1, n - 1) /\ b = SubSeq(s, n + 1, Len(s))
  OBVIOUS
<1>2. r = a \o b
  BY <1>1 DEF RemoveAt
<1>3. a \in Seq(S) /\ Len(a) = n - 1 /\ \A i \in 1..(n - 1) : a[i] = s[i]
  BY <1>1
<1>4. b \in Seq(S) /\ Len(b) = Len(s) - n /\ \A i \in 1..(Len(s) - n) : b[i] = s[i + n]
  BY <1>1
<1>5. /\ r \in Seq(S) /\ Len(r) = Len(s) - 1
      /\ \A i \in 1..(n - 1) : r[i] = a[i]
      /\ \A i \in n..(Len(s) - 1) : r[i] = b[i - (n - 1)]
  BY <1>2, <1>3, <1>4
<1>6. ASSUME NEW i \in n..(Len(s) - 1) PROVE r[i] = s[i + 1]
  <2>1. i - (n - 1) \in 1..(Len(s) - n) /\ (i - (n - 1)) + n = i + 1
    OBVIOUS
  <2> QED
    BY <1>4, <1>5, <2>1
<1> QED
  BY <1>3, <1>5, <1>6 DEF Removal

\* The alarms that wait are those at some place of either list.
LEMMA WaitingPlaces == \A e : e \in Waiting <=> Among(alarms_, e) \/ Among(loop.expired, e)
BY DEF Waiting, ToSet, Among

-----------------------------------------------------------------------------
(* Steps that leave the alarms where they are. *)

LEMMA ReactorInitial == ASSUME ReactorConstants, ReactorInit PROVE ReactorInv
<1> USE DEF ReactorConstants, ReactorInit
<1>1. alarms_ = <<>> /\ loop.expired = <<>> /\ fired = {} /\ cancelled = {} /\ \A i \in Ids : before[i] = {}
  BY DEF NewLoop
<1>2. <<>> \in Seq(Entry)
  OBVIOUS
<1>3. loop \in Loop
  BY <1>2 DEF NewLoop, Loop, Forever
<1>4. 0 \in 0..MaxOps /\ 0 \in 0..MaxTime /\ 1 \in 0..MaxTime /\ 0 \in 0..PipeCapacity
  OBVIOUS
<1>5. IdleActor \in [pc : {"idle", "push", "wake"}, entry : Entry]
  BY <1>4 DEF IdleActor, Entry, Ids
<1>6. \A e : ~Among(alarms_, e) /\ ~Among(loop.expired, e) /\ ~Known(e)
  BY <1>1 DEF Among, Known, Past
<1>7. ReactorTypeOK
  BY <1>1, <1>2, <1>3, <1>4, <1>5 DEF ReactorTypeOK
<1>8. NumbersInv
  BY <1>1, <1>4, <1>6 DEF NumbersInv, Past
<1>9. PendingInv
  BY DEF PendingInv, Pending, IdleActor
<1>10. PlaceInv /\ SortedInv /\ AlarmOrderInv
  BY <1>1, <1>6 DEF PlaceInv, SortedInv, AlarmOrderInv, Ascends, Past
<1> QED
  BY <1>7, <1>8, <1>9, <1>10 DEF ReactorInv

\* The alarms stay where they are, and no thread takes a number.
LEMMA AlarmsStay ==
    ASSUME ReactorConstants, ReactorInv, ReactorTypeOK',
           UNCHANGED <<alarms_, fired, cancelled, before, alarms_added_>>, loop'.expired = loop.expired,
           now' >= now, ops' \in 0..MaxOps, ops' >= ops,
           \A t \in Actors : Pending(t)' => Pending(t) /\ actor'[t].entry = actor[t].entry
    PROVE  ReactorInv'
<1> USE DEF ReactorInv
<1>1. /\ \A e : Among(alarms_, e)' <=> Among(alarms_, e)
      /\ \A e : Among(loop.expired, e)' <=> Among(loop.expired, e)
      /\ \A e : Known(e)' <=> Known(e)
      /\ Past' = Past
  BY DEF Known, Past, Among
<1>2. NumbersInv'
  <2>1. alarms_added_ <= ops'
    BY DEF ReactorConstants, ReactorTypeOK, NumbersInv
  <2> QED
    BY <1>1, <2>1 DEF NumbersInv, Ids, Entry
<1>3. PendingInv'
  BY <1>1 DEF PendingInv, Ids, Actors
<1>4. PlaceInv'
  BY <1>1 DEF PlaceInv
<1>5. SortedInv'
  <2>1. \A e : Among(loop.expired, e) => e.when <= now'
    <3> SUFFICES ASSUME NEW e, Among(loop.expired, e) PROVE e.when <= now'
      OBVIOUS
    <3>1. e \in Entry
      BY DEF Among, ReactorTypeOK, Loop
    <3>2. e.when \in Int /\ now \in Int /\ now' \in Int
      BY <3>1 DEF Entry, ReactorTypeOK
    <3> QED
      BY <3>2 DEF SortedInv
  <2> QED
    BY <1>1, <2>1 DEF SortedInv, Ascends, Precedes
<1>6. AlarmOrderInv'
  BY <1>1 DEF AlarmOrderInv, Behind
<1> QED
  BY <1>2, <1>3, <1>4, <1>5, <1>6

\* Rounding down to milliseconds never gets past the alarm.
LEMMA DeadlineType ==
    ASSUME ReactorConstants, now \in 0..MaxTime, NEW when \in 0..MaxTime
    PROVE  Deadline(when) \in 0..MaxTime
<1> USE DEF ReactorConstants
<1>1. CASE when <= now
  BY <1>1 DEF Deadline
<1>2. CASE when > now
  <2>1. PICK d \in Nat : d = when - now
    BY <1>2
  <2>2. PICK q : q = d \div TicksPerMs
    OBVIOUS
  <2>3. q \in Nat /\ q * TicksPerMs <= d /\ q * TicksPerMs \in Nat
    BY <2>1, <2>2
  <2>4. Deadline(when) = now + q * TicksPerMs
    BY <1>2, <2>1, <2>2 DEF Deadline
  <2> QED
    BY <2>1, <2>3, <2>4
<1> QED
  BY <1>1, <1>2

\* Steps of the loop, of the clock and of the descriptors.
LEMMA LoopStep ==
    ASSUME ReactorConstants, ReactorInv,
           \/ Tick \/ Data \/ Timeout \/ BuildFds \/ Poll \/ Dispatch
           \/ CallbackReturns \/ Again \/ UNCHANGED reactorState
    PROVE  ReactorInv'
<1>0. /\ UNCHANGED <<alarms_, fired, cancelled, before, alarms_added_, ops, actor, lock_, fd_callbacks_>>
      /\ ReactorTypeOK
  BY DEF ReactorInv, Tick, Data, Timeout, BuildFds, Poll, Dispatch, CallbackReturns, Again,
         reactorState, sharedVars, historyVars
<1> USE DEF ReactorTypeOK
<1>1. now' \in 0..MaxTime /\ now' >= now
  BY <1>0 DEF Tick, Data, Timeout, BuildFds, Poll, Dispatch, CallbackReturns, Again,
         reactorState, ReactorConstants
<1>2. pipe' \in 0..PipeCapacity
  <2>1. CASE Poll
    BY <1>0, <2>1 DEF Poll, ReactorConstants
  <2> QED
    BY <1>0, <2>1 DEF Tick, Data, Timeout, BuildFds, Dispatch, CallbackReturns, Again,
           reactorState, sharedVars
<1>3. ready' \subseteq Fds /\ running_' \in BOOLEAN
  BY <1>0 DEF Tick, Data, Timeout, BuildFds, Poll, Dispatch, CallbackReturns, Again, reactorState
<1>4. loop' \in Loop /\ loop'.expired = loop.expired
  <2> USE DEF Loop
  <2>1. CASE UNCHANGED loop
    BY <1>0, <2>1
  <2>2. CASE Timeout
    <3>1. PICK d : d = IF alarms_ = <<>> THEN Forever ELSE Deadline(alarms_[1].when)
      OBVIOUS
    <3>2. ASSUME alarms_ # <<>> PROVE Deadline(alarms_[1].when) \in 0..MaxTime
      <4>1. alarms_ \in Seq(Entry) /\ now \in 0..MaxTime
        BY <1>0
      <4>2. alarms_[1] \in Entry
        BY <3>2, <4>1
      <4>3. alarms_[1].when \in 0..MaxTime
        BY <4>2 DEF Entry
      <4> QED
        BY <4>1, <4>3, DeadlineType
    <3>3. d \in {Forever} \cup (0..MaxTime)
      BY <3>1, <3>2
    <3>4. loop' = [loop EXCEPT !.pc = "fds", !.deadline = d]
      BY <1>0, <2>2, <3>1 DEF Timeout
    <3> QED
      BY <1>0, <3>3, <3>4
  <2>3. CASE BuildFds
    BY <1>0, <2>3 DEF BuildFds
  <2>4. CASE Poll
    BY <1>0, <2>4 DEF Poll
  <2>5. CASE Dispatch
    BY <1>0, <2>5 DEF Dispatch
  <2>6. CASE CallbackReturns
    BY <1>0, <2>6 DEF CallbackReturns
  <2>7. CASE Again
    <3>1. loop' = [NewLoop EXCEPT !.pc = IF running_ THEN "timeout" ELSE "done"] /\ loop.expired = <<>>
      BY <1>0, <2>7 DEF Again
    <3>2. <<>> \in Seq(Entry)
      OBVIOUS
    <3> QED
      BY <3>1, <3>2 DEF NewLoop
  <2> QED
    BY <1>0, <2>1, <2>2, <2>3, <2>4, <2>5, <2>6, <2>7 DEF Tick, Data, reactorState
<1>5. ReactorTypeOK'
  BY <1>0, <1>1, <1>2, <1>3, <1>4 DEF Actors, Entry, Ids
<1>6. ops' \in 0..MaxOps /\ ops' >= ops
  BY <1>0 DEF ReactorInv, NumbersInv
<1>7. \A t \in Actors : Pending(t)' => Pending(t) /\ actor'[t].entry = actor[t].entry
  BY <1>0 DEF Pending
<1> QED
  BY <1>0, <1>1, <1>4, <1>5, <1>6, <1>7, AlarmsStay

\* An operation begins.
LEMMA Begins ==
    ASSUME ReactorConstants, ReactorInv, NEW t \in Actors, MayBegin(t)
    PROVE  /\ ops < MaxOps /\ ops \in Nat /\ ops' = ops + 1 /\ ops' \in 0..MaxOps /\ ops' >= ops
           /\ alarms_added_ \in Nat /\ alarms_added_ <= ops
           /\ ~Pending(t)
BY DEF ReactorConstants, ReactorInv, NumbersInv, MayBegin, Pending, ReactorTypeOK

\* Operations that move no alarm.
LEMMA OtherOperation ==
    ASSUME ReactorConstants, ReactorInv, NEW t \in Actors,
           CancelLate(t) \/ ChangeFd(t) \/ Wakeup(t)
    PROVE  ReactorInv'
<1> USE DEF ReactorTypeOK
<1>0. /\ UNCHANGED <<alarms_, fired, before, alarms_added_, loop, now, ready, running_>> /\ ReactorTypeOK
  BY DEF ReactorInv, CancelLate, ChangeFd, Wakeup, sharedVars, historyVars
<1>1. cancelled' = cancelled
  <2>1. ASSUME NEW e \in ToSet(loop.expired), Cancelled(e) PROVE cancelled' = cancelled
    <3>1. Among(loop.expired, e)
      BY <2>1 DEF ToSet, Among
    <3>2. e.when <= now
      BY <3>1 DEF ReactorInv, SortedInv
    <3>3. e \in Entry
      BY <1>0, <3>1 DEF Among, Loop
    <3>4. ~(e.when > now)
      BY <1>0, <3>2, <3>3 DEF Entry
    <3> QED
      BY <2>1, <3>4 DEF Cancelled
  <2> QED
    BY <2>1 DEF CancelLate, ChangeFd, Wakeup, historyVars
<1>2. ops' \in 0..MaxOps /\ ops' >= ops
  <2>1. CASE CancelLate(t) \/ ChangeFd(t)
    BY <2>1, Begins DEF CancelLate, ChangeFd
  <2>2. CASE Wakeup(t)
    BY <2>2 DEF Wakeup, historyVars, ReactorInv, NumbersInv
  <2> QED
    BY <2>1, <2>2
<1>3. IdleActor \in [pc : {"idle", "push", "wake"}, entry : Entry]
  <2>1. 0 \in 0..MaxOps /\ 0 \in 0..MaxTime
    BY DEF ReactorConstants
  <2> QED
    BY <2>1 DEF IdleActor, Entry, Ids
<1>4. /\ actor' \in [Actors -> [pc : {"idle", "push", "wake"}, entry : Entry]]
      /\ \A u \in Actors : Pending(u)' => Pending(u) /\ actor'[u].entry = actor[u].entry
  <2>1. CASE UNCHANGED actor
    BY <1>0, <2>1 DEF Pending
  <2>2. CASE actor' = [actor EXCEPT ![t].pc = "wake"]
    BY <1>0, <2>2 DEF Pending
  <2>3. CASE actor' = [actor EXCEPT ![t] = IdleActor]
    <3>1. actor' \in [Actors -> [pc : {"idle", "push", "wake"}, entry : Entry]]
      BY <1>0, <1>3, <2>3
    <3>2. IdleActor.pc = "idle"
      BY DEF IdleActor
    <3> QED
      BY <1>0, <2>3, <3>1, <3>2 DEF Pending
  <2> QED
    BY <2>1, <2>2, <2>3 DEF CancelLate, ChangeFd, Wakeup
<1>5. lock_' \in Actors \cup {NoThread} /\ fd_callbacks_' \subseteq Fds /\ pipe' \in 0..PipeCapacity
  <2>1. CASE CancelLate(t)
    BY <1>0, <2>1 DEF CancelLate, sharedVars
  <2>2. CASE ChangeFd(t)
    BY <1>0, <2>2 DEF ChangeFd
  <2>3. CASE Wakeup(t)
    BY <1>0, <2>3 DEF Wakeup, ReactorConstants
  <2> QED
    BY <2>1, <2>2, <2>3
<1>6. ReactorTypeOK'
  BY <1>0, <1>4, <1>5 DEF Actors, Entry, Ids, Loop
<1>7. now' >= now
  BY <1>0
<1> QED
  BY <1>0, <1>1, <1>2, <1>4, <1>6, <1>7, AlarmsStay

-----------------------------------------------------------------------------
(* Steps that move alarms. *)

LEMMA KnownEntries ==
    ASSUME ReactorConstants, ReactorInv
    PROVE  /\ \A e : Known(e) => e \in Entry /\ e.id \in 0..MaxOps /\ e.when \in Nat
           /\ \A t \in Actors : actor[t].entry \in Entry /\ actor[t].entry.id \in 0..MaxOps
                                   /\ actor[t].entry.when \in Nat
           /\ \A i \in Ids : \A e \in before[i] : e.id \in 0..MaxOps /\ e.when \in Nat
<1>1. ASSUME NEW e \in Entry PROVE e.id \in 0..MaxOps /\ e.when \in Nat
  BY DEF Entry, Ids, ReactorConstants
<1>2. ASSUME NEW e, Known(e) PROVE e \in Entry
  <2>1. alarms_ \in Seq(Entry) /\ loop.expired \in Seq(Entry) /\ Past \subseteq Entry
    BY DEF ReactorInv, ReactorTypeOK, Loop, NumbersInv
  <2>2. \A s \in Seq(Entry) : \A i \in DOMAIN s : s[i] \in Entry
    OBVIOUS
  <2> QED
    BY <1>2, <2>1, <2>2 DEF Known, Among
<1>3. \A t \in Actors : actor[t].entry \in Entry
  BY DEF ReactorInv, ReactorTypeOK
<1>4. \A i \in Ids : \A e \in before[i] : e \in Entry
  BY DEF ReactorInv, NumbersInv
<1> QED
  BY <1>1, <1>2, <1>3, <1>4

\* A thread takes a sequence number: nobody else has it, and what waits has a
\* smaller one.
LEMMA AddAlarmStep ==
    ASSUME ReactorConstants, ReactorInv, NEW t \in Actors, AddAlarm(t)
    PROVE  ReactorInv'
<1> USE DEF ReactorInv
<1>0. /\ UNCHANGED <<now, lock_, alarms_, fd_callbacks_, pipe, ready, running_, loop, fired, cancelled>>
      /\ MayBegin(t)
  BY DEF AddAlarm
<1>a. /\ ops < MaxOps /\ ops \in Nat /\ ops' = ops + 1 /\ ops' \in 0..MaxOps
      /\ alarms_added_ \in Nat /\ alarms_added_ <= ops /\ MaxOps \in Nat
  BY <1>0, Begins DEF ReactorConstants
<1>1. PICK n \in 0..MaxOps : n = alarms_added_ /\ n < MaxOps /\ n <= ops
  BY <1>a
<1>2. alarms_added_' = n + 1 /\ n + 1 \in 0..MaxOps /\ ops' = ops + 1 /\ ops' \in 0..MaxOps /\ n + 1 <= ops'
  BY <1>1, <1>a DEF AddAlarm
<1>3. PICK x \in Entry : x.id = n /\ actor' = [actor EXCEPT ![t] = [pc |-> "push", entry |-> x]]
  <2>1. PICK when \in {0} \cup (now + 1)..MaxTime, stop \in BOOLEAN :
            actor' = [actor EXCEPT ![t] = [pc |-> "push",
                          entry |-> [id |-> alarms_added_, when |-> when, stop |-> stop]]]
    BY DEF AddAlarm
  <2>2. when \in 0..MaxTime
    BY DEF ReactorTypeOK, ReactorConstants
  <2>3. [id |-> n, when |-> when, stop |-> stop] \in Entry
    BY <1>1, <2>2 DEF Entry, Ids
  <2> QED
    BY <1>1, <2>1, <2>3
<1>4. /\ actor' \in [Actors -> [pc : {"idle", "push", "wake"}, entry : Entry]]
      /\ \A u \in Actors : actor'[u].entry = (IF u = t THEN x ELSE actor[u].entry)
      /\ \A u \in Actors : u # t => (Pending(u)' <=> Pending(u))
  BY <1>3 DEF ReactorTypeOK, Pending
<1>5. ReactorTypeOK'
  BY <1>0, <1>2, <1>4 DEF ReactorTypeOK, Actors, Entry, Ids, Loop
<1>6. /\ \A e : Among(alarms_, e)' <=> Among(alarms_, e)
      /\ \A e : Among(loop.expired, e)' <=> Among(loop.expired, e)
      /\ \A e : Known(e)' <=> Known(e)
      /\ Past' = Past
  BY <1>0 DEF Known, Past, Among
<1>7. /\ \A e : Known(e) => e \in Entry /\ e.id \in 0..MaxOps
      /\ \A i \in Ids : \A e \in before[i] : e.id \in 0..MaxOps
      /\ \A u \in Actors : actor[u].entry.id \in 0..MaxOps
  BY KnownEntries
<1>8. /\ before' \in [Ids -> SUBSET Entry]
      /\ \A i \in Ids : i # n => before'[i] = before[i]
      /\ \A e \in before'[n] : Known(e)
  <2>1. Waiting \subseteq Entry /\ \A e \in Waiting : Known(e)
    BY <1>7, WaitingPlaces DEF Known
  <2>2. before' = [before EXCEPT ![n] = Waiting] /\ n \in Ids /\ before \in [Ids -> SUBSET Entry]
    BY <1>1 DEF AddAlarm, Ids, NumbersInv
  <2>3. before'[n] = Waiting
    BY <2>2
  <2>4. before' \in [Ids -> SUBSET Entry] /\ \A i \in Ids : i # n => before'[i] = before[i]
    BY <2>1, <2>2
  <2> QED
    BY <2>1, <2>3, <2>4
<1>9. \A e : Known(e) => e.id < n
  BY <1>1 DEF NumbersInv
<1>10. \A i \in Ids : \A e \in before'[i] : e.id < i /\ e.id < n
  BY <1>1, <1>8, <1>9 DEF NumbersInv
<1>11. NumbersInv'
  <2>1. \A e : Known(e) => e.id < n + 1
    BY <1>7, <1>9
  <2>2. \A i \in Ids : \A e \in before'[i] : e.id < i /\ e.id < n + 1
    <3> SUFFICES ASSUME NEW i \in Ids, NEW e \in before'[i] PROVE e.id < n + 1
      BY <1>10
    <3>1. e.id \in 0..MaxOps
      BY <1>7, <1>8
    <3> QED
      BY <1>10, <3>1
  <2> QED
    BY <1>2, <1>6, <1>8, <2>1, <2>2 DEF NumbersInv, Ids, Entry
<1>12. ASSUME NEW u \in Actors, Pending(u)'
       PROVE  /\ actor'[u].entry.id < n + 1
              /\ \A e : Known(e) => e.id # actor'[u].entry.id
              /\ \A i \in Ids : \A e \in before'[i] : e.id # actor'[u].entry.id
              /\ \A v \in Actors \ {u} : Pending(v)' => actor'[v].entry.id # actor'[u].entry.id
  <2>1. \A v \in Actors : v # t /\ Pending(v)' => actor'[v].entry.id < n /\ actor'[v].entry = actor[v].entry
    BY <1>1, <1>4 DEF PendingInv
  <2>2. CASE u = t
    <3>1. actor'[u].entry.id = n
      BY <1>3, <1>4, <2>2
    <3>2. \A v \in Actors \ {u} : Pending(v)' => actor'[v].entry.id # n
      BY <1>7, <2>1, <2>2
    <3>3. \A e : Known(e) => e.id # n
      BY <1>7, <1>9
    <3>4. \A i \in Ids : \A e \in before'[i] : e.id # n
      BY <1>7, <1>8, <1>10
    <3> QED
      BY <3>1, <3>2, <3>3, <3>4
  <2>3. CASE u # t
    <3>1. Pending(u) /\ actor'[u].entry = actor[u].entry /\ actor[u].entry.id < n
      BY <1>4, <1>12, <2>1, <2>3
    <3>2. actor[u].entry.id < n + 1 /\ actor[u].entry.id # n
      BY <1>7, <3>1
    <3>3. \A v \in Actors \ {u} : Pending(v)' => actor'[v].entry.id # actor[u].entry.id
      BY <1>3, <1>4, <3>1, <3>2 DEF PendingInv
    <3>4. \A e : Known(e) => e.id # actor[u].entry.id
      BY <3>1 DEF PendingInv
    <3>5. \A i \in Ids : \A e \in before'[i] : e.id # actor[u].entry.id
      BY <1>8, <3>1, <3>4 DEF PendingInv
    <3> QED
      BY <3>1, <3>2, <3>3, <3>4, <3>5
  <2> QED
    BY <2>2, <2>3
<1>13. PendingInv'
  BY <1>2, <1>6, <1>12 DEF PendingInv, Ids, Actors
<1>14. PlaceInv' /\ SortedInv'
  BY <1>0, <1>6 DEF PlaceInv, SortedInv, Ascends, Precedes
<1>15. AlarmOrderInv'
  <2>1. \A f : Known(f) => before'[f.id] = before[f.id]
    BY <1>7, <1>8, <1>9 DEF Ids
  <2>2. \A f : f \in fired \/ Among(loop.expired, f) => Known(f)
    BY DEF Known, Past
  <2> QED
    BY <1>0, <1>6, <2>1, <2>2 DEF AlarmOrderInv, Behind
<1> QED
  BY <1>5, <1>11, <1>13, <1>14, <1>15

\* Two alarms with different numbers are ordered.
LEMMA TotalOrder ==
    ASSUME NEW a, NEW b, a.id \in Nat, b.id \in Nat, a.when \in Nat, b.when \in Nat, a.id # b.id,
           ~Precedes(a, b)
    PROVE  Precedes(b, a)
BY DEF Precedes

\* An alarm is put where it belongs.
LEMMA PushedAlarm ==
    ASSUME NEW s \in Seq(Entry), NEW x \in Entry, ReactorConstants, NEW r \in Sorted(s, x),
           Ascends(s), \A i, j \in DOMAIN s : i # j => s[i].id # s[j].id,
           \A i \in DOMAIN s : s[i].id # x.id
    PROVE  /\ r \in Seq(Entry) /\ Ascends(r)
           /\ \A i, j \in DOMAIN r : i # j => r[i].id # r[j].id
           /\ \A e : Among(r, e) <=> Among(s, e) \/ e = x
<1>1. PICK n \in 0..Len(s) : /\ r = InsertAt(s, n + 1, x)
                             /\ \A i \in DOMAIN s : Precedes(s[i], x) <=> i <= n
  BY DEF Sorted
<1>2. PICK l \in Nat : l = Len(s) /\ DOMAIN s = 1..l /\ n \in 0..l
  OBVIOUS
<1>3. /\ r \in Seq(Entry) /\ Len(r) = l + 1 /\ r[n + 1] = x
      /\ \A i \in 1..n : r[i] = s[i]
      /\ \A i \in (n + 2)..(l + 1) : r[i] = s[i - 1]
  <2>0. PICK m : m = n + 1
    OBVIOUS
  <2>1. r = InsertAt(s, m, x)
    BY <1>1, <2>0
  <2>2. Insertion(Entry, r, s, n, x)
    BY <2>0, <2>1, Inserted
  <2> QED
    BY <1>2, <2>2 DEF Insertion
<1>4. DOMAIN r = 1..(l + 1)
  BY <1>3
<1>5. \A i \in 1..l : /\ s[i] \in Entry /\ s[i].id # x.id
                      /\ i <= n => Precedes(s[i], x)
                      /\ i > n => Precedes(x, s[i])
  <2> TAKE i \in 1..l
  <2>1. s[i] \in Entry /\ s[i].id # x.id
    BY <1>2
  <2>2. s[i].id \in Nat /\ s[i].when \in Nat /\ x.id \in Nat /\ x.when \in Nat
    BY <2>1 DEF Entry, Ids, ReactorConstants
  <2>3. i > n => ~Precedes(s[i], x)
    BY <1>1, <1>2
  <2> QED
    BY <1>1, <1>2, <2>1, <2>2, <2>3, TotalOrder
<1>6. \A i \in 1..(l + 1) :
         \/ i \in 1..n /\ i \in 1..l /\ r[i] = s[i]
         \/ i = n + 1 /\ r[i] = x
         \/ i \in (n + 2)..(l + 1) /\ i - 1 \in 1..l /\ i - 1 > n /\ r[i] = s[i - 1]
  BY <1>2, <1>3
<1>7. ASSUME NEW i \in 1..(l + 1), NEW j \in 1..(l + 1), i < j
      PROVE  Precedes(r[i], r[j]) /\ r[i].id # r[j].id
  <2>1. \A a, b \in 1..l : a < b => Precedes(s[a], s[b]) /\ s[a].id # s[b].id
    BY <1>2 DEF Ascends
  <2>2. CASE i \in 1..n
    <3>1. i \in 1..l /\ r[i] = s[i] /\ Precedes(s[i], x) /\ s[i].id # x.id
      BY <1>5, <1>6, <2>2
    <3>2. CASE j \in 1..n
      BY <1>6, <1>7, <2>1, <3>1, <3>2
    <3>3. CASE j = n + 1
      BY <1>3, <3>1, <3>3
    <3>4. CASE j \in (n + 2)..(l + 1)
      <4>1. j - 1 \in 1..l /\ r[j] = s[j - 1] /\ i < j - 1
        BY <1>6, <2>2, <3>4
      <4> QED
        BY <2>1, <3>1, <4>1
    <3> QED
      BY <1>6, <3>2, <3>3, <3>4
  <2>3. CASE i = n + 1
    <3>1. j - 1 \in 1..l /\ j - 1 > n /\ r[j] = s[j - 1]
      BY <1>6, <1>7, <2>3
    <3> QED
      BY <1>3, <1>5, <2>3, <3>1
  <2>4. CASE i \in (n + 2)..(l + 1)
    <3>1. i - 1 \in 1..l /\ r[i] = s[i - 1] /\ j - 1 \in 1..l /\ r[j] = s[j - 1] /\ i - 1 < j - 1
      BY <1>6, <1>7, <2>4
    <3> QED
      BY <2>1, <3>1
  <2> QED
    BY <1>6, <2>2, <2>3, <2>4
<1>8. Ascends(r)
  BY <1>4, <1>7 DEF Ascends
<1>9. ASSUME NEW i \in 1..(l + 1), NEW j \in 1..(l + 1), i # j PROVE r[i].id # r[j].id
  <2>1. i < j \/ j < i
    BY <1>9
  <2> QED
    BY <1>7, <2>1
<1>10. ASSUME NEW e, Among(r, e) PROVE Among(s, e) \/ e = x
  BY <1>2, <1>4, <1>6, <1>10 DEF Among
<1>11. ASSUME NEW e, Among(s, e) PROVE Among(r, e)
  <2>1. PICK i \in 1..l : s[i] = e
    BY <1>2, <1>11 DEF Among
  <2>2. CASE i <= n
    <3>1. i \in 1..n /\ i \in 1..(l + 1)
      BY <1>2, <2>2
    <3> QED
      BY <1>3, <1>4, <2>1, <3>1 DEF Among
  <2>3. CASE i > n
    <3>1. i + 1 \in (n + 2)..(l + 1) /\ (i + 1) - 1 = i
      BY <1>2, <2>3
    <3>2. i + 1 \in 1..(l + 1) /\ r[i + 1] = s[i]
      BY <1>2, <1>3, <3>1
    <3> QED
      BY <1>4, <2>1, <3>2 DEF Among
  <2> QED
    BY <1>2, <2>2, <2>3
<1>12. Among(r, x)
  <2>1. n + 1 \in 1..(l + 1)
    BY <1>2
  <2> QED
    BY <1>3, <1>4, <2>1 DEF Among
<1> QED
  BY <1>3, <1>4, <1>8, <1>9, <1>10, <1>11, <1>12

\* add_alarm() has lock_: the alarm is nobody's predecessor that was called.
LEMMA PushStep ==
    ASSUME ReactorConstants, ReactorInv, NEW t \in Actors, Push(t)
    PROVE  ReactorInv'
<1> USE DEF ReactorInv
<1>0. /\ UNCHANGED <<now, alarms_added_, fd_callbacks_, pipe, ready, running_, loop, ops, before, fired, cancelled>>
      /\ Pending(t) /\ lock_' = t /\ actor' = [actor EXCEPT ![t].pc = "wake"]
  BY DEF Push, Pending
<1>1. PICK x \in Entry : x = actor[t].entry
  BY DEF ReactorTypeOK
<1>2. /\ x.id < alarms_added_
      /\ \A e : Known(e) => e.id # x.id
      /\ \A i \in Ids : \A e \in before[i] : e.id # x.id
  BY <1>0, <1>1 DEF PendingInv
<1>3. PICK r : r = alarms_'
  OBVIOUS
<1>4. alarms_ \in Seq(Entry) /\ r \in Sorted(alarms_, x)
  BY <1>1, <1>3 DEF Push, ReactorTypeOK
<1>5. \A i \in DOMAIN alarms_ : alarms_[i].id # x.id
  BY <1>2 DEF Known, Among
<1>6. Ascends(alarms_) /\ \A i, j \in DOMAIN alarms_ : i # j => alarms_[i].id # alarms_[j].id
  BY DEF SortedInv, ReactorTypeOK
<1>7. /\ r \in Seq(Entry) /\ Ascends(r)
      /\ \A i, j \in DOMAIN r : i # j => r[i].id # r[j].id
      /\ \A e : Among(r, e) <=> Among(alarms_, e) \/ e = x
  BY <1>4, <1>5, <1>6, PushedAlarm
<1>8. /\ actor' \in [Actors -> [pc : {"idle", "push", "wake"}, entry : Entry]]
      /\ \A u \in Actors : Pending(u)' => u # t /\ Pending(u) /\ actor'[u].entry = actor[u].entry
  BY <1>0 DEF ReactorTypeOK, Pending
<1>9. ReactorTypeOK'
  BY <1>0, <1>3, <1>7, <1>8 DEF ReactorTypeOK, Actors, Entry, Ids, Loop
<1>10. /\ \A e : Among(alarms_, e)' <=> Among(alarms_, e) \/ e = x
       /\ \A e : Among(loop.expired, e)' <=> Among(loop.expired, e)
       /\ \A e : Known(e)' <=> Known(e) \/ e = x
       /\ Past' = Past
  <2>1. \A e : Among(alarms_, e)' <=> Among(alarms_, e) \/ e = x
    BY <1>3, <1>7 DEF Among
  <2>2. Past' = Past /\ \A e : Among(loop.expired, e)' <=> Among(loop.expired, e)
    BY <1>0 DEF Past, Among
  <2> QED
    BY <2>1, <2>2 DEF Known
<1>11. NumbersInv'
  BY <1>0, <1>2, <1>10 DEF NumbersInv, Ids, Entry
<1>12. PendingInv'
  <2>1. ASSUME NEW u \in Actors, Pending(u)'
        PROVE  /\ actor'[u].entry.id < alarms_added_
               /\ \A e : Known(e) \/ e = x => e.id # actor'[u].entry.id
               /\ \A i \in Ids : \A e \in before[i] : e.id # actor'[u].entry.id
               /\ \A v \in Actors \ {u} : Pending(v)' => actor'[v].entry.id # actor'[u].entry.id
    <3>1. u # t /\ Pending(u) /\ actor'[u].entry = actor[u].entry
      BY <1>8, <2>1
    <3>2. x.id # actor[u].entry.id
      BY <1>0, <1>1, <3>1 DEF PendingInv
    <3>3. \A v \in Actors \ {u} : Pending(v)' => actor'[v].entry.id # actor[u].entry.id
      BY <1>8, <3>1 DEF PendingInv
    <3> QED
      BY <3>1, <3>2, <3>3 DEF PendingInv
  <2> QED
    BY <1>0, <1>10, <2>1 DEF PendingInv, Ids, Actors
<1>13. PlaceInv'
  <2>1. \A e : Among(loop.expired, e) \/ e \in Past => e.id # x.id
    BY <1>2 DEF Known
  <2> QED
    BY <1>0, <1>10, <2>1 DEF PlaceInv
<1>14. SortedInv'
  <2>1. Ascends(alarms_)'
    BY <1>3, <1>7 DEF Ascends, Precedes
  <2>2. Ascends(loop.expired)'
    BY <1>0 DEF SortedInv, Ascends, Precedes
  <2> QED
    BY <1>0, <1>10, <2>1, <2>2 DEF SortedInv
<1>15. AlarmOrderInv'
  <2>1. \A f : f \in fired \/ Among(loop.expired, f) => Known(f) /\ f.id \in Ids
    BY KnownEntries DEF Known, Past, Ids
  <2>2. \A f : f \in fired \/ Among(loop.expired, f) => \A e \in before[f.id] : e # x
    BY <1>2, <2>1
  <2> QED
    BY <1>0, <1>10, <2>2 DEF AlarmOrderInv, Behind
<1> QED
  BY <1>9, <1>11, <1>12, <1>13, <1>14, <1>15

\* Some of the alarms of s, in the same order: r[i] is s[f[i]].
Sublist(r, s, f) ==
    /\ DOMAIN r \subseteq Int /\ DOMAIN s \subseteq Int
    /\ \A i \in DOMAIN r : f[i] \in DOMAIN s /\ r[i] = s[f[i]]
    /\ \A i, j \in DOMAIN r : i < j => f[i] < f[j]

Distinct(s) == \A i, j \in DOMAIN s : i # j => s[i].id # s[j].id

LEMMA SublistKeeps ==
    ASSUME NEW r, NEW s, NEW f, Sublist(r, s, f), Ascends(s), Distinct(s)
    PROVE  /\ Ascends(r) /\ Distinct(r)
           /\ \A e : Among(r, e) => Among(s, e)
<1> USE DEF Sublist
<1>1. Ascends(r)
  BY DEF Ascends
<1>2. ASSUME NEW i \in DOMAIN r, NEW j \in DOMAIN r, i # j PROVE r[i].id # r[j].id
  <2>1. i < j \/ j < i
    BY <1>2
  <2>2. f[i] # f[j] /\ f[i] \in DOMAIN s /\ f[j] \in DOMAIN s
    BY <2>1
  <2> QED
    BY <2>2 DEF Distinct
<1>3. \A e : Among(r, e) => Among(s, e)
  BY DEF Among
<1> QED
  BY <1>1, <1>2, <1>3 DEF Distinct

\* cancel_alarm() takes an alarm out of alarms_.
LEMMA CancelStep ==
    ASSUME ReactorConstants, ReactorInv, NEW t \in Actors, CancelAlarm(t)
    PROVE  ReactorInv'
<1> USE DEF ReactorInv
<1>0. /\ UNCHANGED <<now, alarms_added_, fd_callbacks_, pipe, ready, running_, loop, before, fired>>
      /\ MayBegin(t) /\ lock_' = t /\ actor' = [actor EXCEPT ![t].pc = "wake"]
  BY DEF CancelAlarm
<1>1. PICK k \in DOMAIN alarms_ : alarms_' = RemoveAt(alarms_, k) /\ Cancelled(alarms_[k])
  BY DEF CancelAlarm
<1>2. PICK l \in Nat : l = Len(alarms_) /\ DOMAIN alarms_ = 1..l /\ k \in 1..l /\ alarms_ \in Seq(Entry)
  BY DEF ReactorTypeOK
<1>3. PICK r : r = alarms_'
  OBVIOUS
<1>4. Removal(Entry, r, alarms_, k)
  <2>1. r = RemoveAt(alarms_, k) /\ k \in 1..Len(alarms_) /\ alarms_ \in Seq(Entry)
    BY <1>1, <1>2, <1>3
  <2> QED
    BY <2>1, Removed
<1>5. PICK f : f = [i \in 1..(l - 1) |-> IF i < k THEN i ELSE i + 1]
  OBVIOUS
<1>6. r \in Seq(Entry) /\ DOMAIN r = 1..(l - 1) /\ Sublist(r, alarms_, f) /\ \A i \in DOMAIN r : f[i] # k
  <2>1. r \in Seq(Entry) /\ DOMAIN r = 1..(l - 1)
    BY <1>2, <1>4 DEF Removal
  <2>2. ASSUME NEW i \in 1..(l - 1) PROVE f[i] \in 1..l /\ f[i] # k /\ r[i] = alarms_[f[i]]
    <3>1. CASE i < k
      <4>1. i \in 1..(k - 1) /\ f[i] = i
        BY <1>2, <1>5, <3>1
      <4> QED
        BY <1>2, <1>4, <4>1 DEF Removal
    <3>2. CASE i >= k
      <4>1. i \in k..(Len(alarms_) - 1) /\ f[i] = i + 1
        BY <1>2, <1>5, <3>2
      <4> QED
        BY <1>2, <1>4, <4>1 DEF Removal
    <3> QED
      BY <1>2, <3>1, <3>2
  <2>3. \A i, j \in 1..(l - 1) : i < j => f[i] < f[j]
    BY <1>2, <1>5
  <2>4. DOMAIN r \subseteq Int /\ DOMAIN alarms_ \subseteq Int
    BY <1>2, <2>1
  <2>5. \A i \in DOMAIN r : f[i] \in DOMAIN alarms_ /\ f[i] # k /\ r[i] = alarms_[f[i]]
    BY <1>2, <2>1, <2>2
  <2>6. \A i, j \in DOMAIN r : i < j => f[i] < f[j]
    BY <2>1, <2>3
  <2>7. Sublist(r, alarms_, f)
    BY <2>4, <2>5, <2>6 DEF Sublist
  <2> QED
    BY <2>1, <2>5, <2>7
<1>7. Ascends(alarms_) /\ Distinct(alarms_)
  BY DEF SortedInv, ReactorTypeOK, Distinct
<1>8. Ascends(r) /\ Distinct(r) /\ \A e : Among(r, e) => Among(alarms_, e)
  BY <1>6, <1>7, SublistKeeps
<1>9. PICK c : c = alarms_[k]
  OBVIOUS
<1>10. \A e : Among(r, e) => e.id # c.id
  BY <1>6, <1>7, <1>9 DEF Among, Sublist, Distinct
<1>11. Among(alarms_, c) /\ c \in Entry
  BY <1>2, <1>9 DEF Among
<1>12. cancelled \subseteq cancelled' /\ cancelled' \subseteq cancelled \cup {c}
  BY <1>1, <1>9 DEF Cancelled
<1>13. /\ actor' \in [Actors -> [pc : {"idle", "push", "wake"}, entry : Entry]]
       /\ \A u \in Actors : Pending(u)' => Pending(u) /\ actor'[u].entry = actor[u].entry
  BY <1>0 DEF ReactorTypeOK, Pending
<1>14. ReactorTypeOK'
  BY <1>0, <1>3, <1>6, <1>8, <1>13 DEF ReactorTypeOK, Actors, Entry, Ids, Loop, Distinct
<1>15. /\ \A e : Among(alarms_, e)' => Among(alarms_, e) /\ e.id # c.id
       /\ \A e : Among(loop.expired, e)' <=> Among(loop.expired, e)
       /\ \A e : Known(e)' => Known(e)
       /\ Past' \subseteq Past \cup {c}
  <2>1. \A e : Among(alarms_, e)' => Among(alarms_, e) /\ e.id # c.id
    BY <1>3, <1>8, <1>10 DEF Among
  <2>2. Past' \subseteq Past \cup {c} /\ \A e : Among(loop.expired, e)' <=> Among(loop.expired, e)
    BY <1>0, <1>12 DEF Past, Among
  <2> QED
    BY <1>11, <2>1, <2>2 DEF Known
<1>16. NumbersInv'
  <2>1. ops' \in 0..MaxOps /\ alarms_added_ <= ops'
    BY <1>0, Begins
  <2>2. Past' \subseteq Entry
    BY <1>11, <1>15 DEF NumbersInv
  <2> QED
    BY <1>0, <1>15, <2>1, <2>2 DEF NumbersInv, Ids, Entry
<1>17. PendingInv'
  BY <1>0, <1>13, <1>15 DEF PendingInv, Ids, Actors
<1>18. PlaceInv'
  <2>1. \A e : Among(loop.expired, e) \/ e \in fired => e.id # c.id
    BY <1>11 DEF PlaceInv, Past
  <2>2. \A e \in cancelled', f1 \in fired : e.id # f1.id
    BY <1>12, <2>1 DEF PlaceInv
  <2> QED
    BY <1>0, <1>15, <2>1, <2>2 DEF PlaceInv
<1>19. SortedInv'
  <2>1. Ascends(alarms_)'
    BY <1>3, <1>8 DEF Ascends, Precedes
  <2>2. Ascends(loop.expired)'
    BY <1>0 DEF SortedInv, Ascends, Precedes
  <2> QED
    BY <1>0, <1>15, <2>1, <2>2 DEF SortedInv
<1>20. AlarmOrderInv'
  BY <1>0, <1>15 DEF AlarmOrderInv, Behind
<1> QED
  BY <1>14, <1>16, <1>17, <1>18, <1>19, <1>20

\* An alarm that comes later, and has the smaller number, is due later.
LEMMA LaterAlarm ==
    ASSUME NEW a, NEW b, a.id \in Nat, b.id \in Nat, a.when \in Nat, b.when \in Nat,
           Precedes(a, b), b.id < a.id
    PROVE  b.when > a.when
BY DEF Precedes

\* The loop takes the alarms that are due: they come before those it leaves.
LEMMA TakeStep == ASSUME ReactorConstants, ReactorInv, TakeExpired PROVE ReactorInv'
<1> USE DEF ReactorInv
<1>0. UNCHANGED <<now, lock_, alarms_added_, fd_callbacks_, pipe, ready, running_, actor,
                  ops, before, fired, cancelled>>
  BY DEF TakeExpired, historyVars
<1>1. PICK n \in 0..Len(alarms_) :
            /\ \A i \in 1..n : Due(alarms_[i])
            /\ loop' = [loop EXCEPT !.pc = "run", !.deadline = Forever, !.expired = SubSeq(alarms_, 1, n)]
            /\ alarms_' = SubSeq(alarms_, n + 1, Len(alarms_))
  BY DEF TakeExpired
<1>2. PICK l \in Nat : l = Len(alarms_) /\ DOMAIN alarms_ = 1..l /\ n \in 0..l /\ alarms_ \in Seq(Entry)
  BY DEF ReactorTypeOK
<1>3. PICK x, r : x = SubSeq(alarms_, 1, n) /\ r = alarms_'
  OBVIOUS
<1>4. loop' \in Loop /\ loop'.expired = x /\ x \in Seq(Entry) /\ DOMAIN x = 1..n
      /\ \A i \in 1..n : x[i] = alarms_[i]
  <2>1. x \in Seq(Entry) /\ Len(x) = n /\ \A i \in 1..n : x[i] = alarms_[i]
    BY <1>2, <1>3
  <2>2. DOMAIN x = 1..n
    BY <2>1
  <2>3. loop \in Loop /\ loop' = [loop EXCEPT !.pc = "run", !.deadline = Forever, !.expired = x]
    BY <1>1, <1>3 DEF ReactorTypeOK
  <2>4. loop' \in Loop /\ loop'.expired = x
    BY <2>1, <2>3 DEF Loop
  <2> QED
    BY <2>1, <2>2, <2>4
<1>5. r \in Seq(Entry) /\ DOMAIN r = 1..(l - n) /\ \A i \in 1..(l - n) : r[i] = alarms_[i + n]
  <2>1. r = SubSeq(alarms_, n + 1, l)
    BY <1>1, <1>2, <1>3
  <2>2. r \in Seq(Entry) /\ Len(r) = l - n /\ \A i \in 1..(l - n) : r[i] = alarms_[i + n]
    BY <1>2, <2>1
  <2> QED
    BY <2>2
<1>6. Ascends(alarms_) /\ Distinct(alarms_)
  BY DEF SortedInv, ReactorTypeOK, Distinct
<1>7. Ascends(x) /\ Distinct(x) /\ \A e : Among(x, e) => Among(alarms_, e)
  <2>1. PICK f : f = [i \in 1..n |-> i]
    OBVIOUS
  <2>2. Sublist(x, alarms_, f)
    BY <1>2, <1>4, <2>1 DEF Sublist
  <2> QED
    BY <1>6, <2>2, SublistKeeps
<1>8. Ascends(r) /\ Distinct(r) /\ \A e : Among(r, e) => Among(alarms_, e)
  <2>1. PICK f : f = [i \in 1..(l - n) |-> i + n]
    OBVIOUS
  <2>2. Sublist(r, alarms_, f)
    BY <1>2, <1>5, <2>1 DEF Sublist
  <2> QED
    BY <1>6, <2>2, SublistKeeps
<1>9. ASSUME NEW a, NEW b, Among(x, a), Among(r, b) PROVE Precedes(a, b) /\ a.id # b.id
  <2>1. PICK i \in 1..n : a = alarms_[i]
    BY <1>4, <1>9 DEF Among
  <2>2. PICK j \in 1..(l - n) : b = alarms_[j + n]
    BY <1>5, <1>9 DEF Among
  <2>3. i \in 1..l /\ j + n \in 1..l /\ i < j + n
    BY <1>2
  <2> QED
    BY <1>2, <1>6, <2>1, <2>2, <2>3 DEF Ascends, Distinct
<1>10. \A e : Among(x, e) => e.when <= now
  BY <1>1, <1>4 DEF Among, Due
<1>11. /\ \A e : Among(alarms_, e)' <=> Among(r, e)
       /\ \A e : Among(loop.expired, e)' <=> Among(x, e)
       /\ \A e : Known(e)' => Known(e)
       /\ Past' = Past
  <2>1. \A e : Among(alarms_, e)' <=> Among(r, e)
    BY <1>3 DEF Among
  <2>2. Past' = Past /\ \A e : Among(loop.expired, e)' <=> Among(x, e)
    BY <1>0, <1>4 DEF Past, Among
  <2> QED
    BY <1>7, <1>8, <2>1, <2>2 DEF Known
<1>12. ReactorTypeOK'
  BY <1>0, <1>3, <1>4, <1>5, <1>8 DEF ReactorTypeOK, Actors, Entry, Ids, Distinct
<1>13. NumbersInv'
  BY <1>0, <1>11 DEF NumbersInv, Ids, Entry
<1>14. \A t \in Actors : (Pending(t)' <=> Pending(t)) /\ actor'[t] = actor[t]
  BY <1>0 DEF Pending
<1>15. PendingInv'
  BY <1>0, <1>11, <1>14 DEF PendingInv, Ids, Actors
<1>16. PlaceInv'
  <2>1. \A i, j \in DOMAIN loop'.expired : i # j => loop'.expired[i].id # loop'.expired[j].id
    BY <1>4, <1>7 DEF Distinct
  <2>2. \A e, f : Among(r, e) /\ Among(x, f) => e.id # f.id
    BY <1>9
  <2>3. \A e, f : (Among(r, e) \/ Among(x, e)) /\ f \in Past => e.id # f.id
    BY <1>7, <1>8 DEF PlaceInv
  <2> QED
    BY <1>0, <1>11, <2>1, <2>2, <2>3 DEF PlaceInv
<1>17. SortedInv'
  <2>1. Ascends(alarms_)'
    BY <1>3, <1>8 DEF Ascends, Precedes
  <2>2. Ascends(loop.expired)'
    BY <1>4, <1>7 DEF Ascends, Precedes
  <2> QED
    BY <1>0, <1>10, <1>11, <2>1, <2>2 DEF SortedInv
<1>18. AlarmOrderInv'
  <2>1. ASSUME NEW f, Among(x, f), NEW e \in before[f.id], Among(r, e) PROVE e.when > f.when
    <3>1. Known(f) /\ Known(e)
      BY <1>7, <1>8, <2>1 DEF Known
    <3>2. f.id \in 0..MaxOps /\ f.when \in Nat /\ e.id \in 0..MaxOps /\ e.when \in Nat
      BY <3>1, KnownEntries
    <3>3. e.id < f.id
      BY <2>1, <3>2 DEF NumbersInv, Ids
    <3>4. Precedes(f, e)
      BY <1>9, <2>1
    <3> QED
      BY <3>2, <3>3, <3>4, LaterAlarm
  <2>2. \A f \in fired : \A e \in before[f.id] : Among(r, e) \/ Among(x, e) => e.when > f.when
    BY <1>7, <1>8 DEF AlarmOrderInv, Behind
  <2> QED
    BY <1>0, <1>11, <2>1, <2>2 DEF AlarmOrderInv, Behind
<1> QED
  BY <1>12, <1>13, <1>15, <1>16, <1>17, <1>18

\* The first of the alarms taken is called.
LEMMA FireStep == ASSUME ReactorConstants, ReactorInv, Fire PROVE ReactorInv'
<1> USE DEF ReactorInv
<1>0. UNCHANGED <<now, alarms_, lock_, alarms_added_, fd_callbacks_, pipe, ready, actor,
                  ops, before, cancelled>>
  BY DEF Fire, sharedVars
<1>1. PICK s, x, c : s = loop.expired /\ x = Tail(s) /\ c = Head(s)
  OBVIOUS
<1>2. PICK l \in Nat \ {0} : l = Len(s) /\ DOMAIN s = 1..l /\ s \in Seq(Entry) /\ s # <<>>
  <2>1. s \in Seq(Entry) /\ s # <<>>
    BY <1>1 DEF Fire, ReactorTypeOK, Loop
  <2> QED
    BY <2>1
<1>3. c = s[1] /\ c \in Entry /\ x \in Seq(Entry) /\ DOMAIN x = 1..(l - 1)
      /\ \A i \in 1..(l - 1) : x[i] = s[i + 1]
  BY <1>1, <1>2
<1>4. loop' \in Loop /\ loop'.expired = x /\ fired' = fired \cup {c} /\ running_' \in BOOLEAN
  <2>1. loop \in Loop /\ loop' = [loop EXCEPT !.pc = "callback", !.expired = x]
    BY <1>1 DEF Fire, ReactorTypeOK
  <2>2. fired' = fired \cup {c}
    BY <1>1 DEF Fire
  <2>3. running_' \in BOOLEAN
    BY DEF Fire
  <2> QED
    BY <1>3, <2>1, <2>2, <2>3 DEF Loop
<1>5. Ascends(s) /\ Distinct(s)
  BY <1>1 DEF SortedInv, PlaceInv, Distinct
<1>6. Ascends(x) /\ Distinct(x) /\ \A e : Among(x, e) => Among(s, e)
  <2>1. PICK f : f = [i \in 1..(l - 1) |-> i + 1]
    OBVIOUS
  <2>2. Sublist(x, s, f)
    BY <1>2, <1>3, <2>1 DEF Sublist
  <2> QED
    BY <1>5, <2>2, SublistKeeps
<1>7. ASSUME NEW e, Among(x, e) PROVE Precedes(c, e) /\ c.id # e.id
  <2>1. PICK i \in 1..(l - 1) : e = s[i + 1]
    BY <1>3, <1>7 DEF Among
  <2>2. 1 \in 1..l /\ i + 1 \in 1..l /\ 1 < i + 1
    BY <1>2
  <2> QED
    BY <1>2, <1>3, <1>5, <2>1, <2>2 DEF Ascends, Distinct
<1>8. Among(loop.expired, c) /\ \A e : Among(s, e) <=> Among(loop.expired, e)
  BY <1>1, <1>2, <1>3 DEF Among
<1>9. /\ \A e : Among(alarms_, e)' <=> Among(alarms_, e)
      /\ \A e : Among(loop.expired, e)' <=> Among(x, e)
      /\ \A e : Known(e)' => Known(e)
      /\ Past' = Past \cup {c}
  <2>1. \A e : Among(alarms_, e)' <=> Among(alarms_, e)
    BY <1>0 DEF Among
  <2>2. Past' = Past \cup {c} /\ \A e : Among(loop.expired, e)' <=> Among(x, e)
    BY <1>0, <1>4 DEF Past, Among
  <2> QED
    BY <1>6, <1>8, <2>1, <2>2 DEF Known
<1>10. ReactorTypeOK'
  BY <1>0, <1>4 DEF ReactorTypeOK, Actors, Entry, Ids
<1>11. NumbersInv'
  <2>1. Past' \subseteq Entry
    BY <1>3, <1>9 DEF NumbersInv
  <2> QED
    BY <1>0, <1>9, <2>1 DEF NumbersInv, Ids, Entry
<1>12. \A t \in Actors : (Pending(t)' <=> Pending(t)) /\ actor'[t] = actor[t]
  BY <1>0 DEF Pending
<1>13. PendingInv'
  BY <1>0, <1>9, <1>12 DEF PendingInv, Ids, Actors
<1>14. PlaceInv'
  <2>1. \A i, j \in DOMAIN loop'.expired : i # j => loop'.expired[i].id # loop'.expired[j].id
    BY <1>4, <1>6 DEF Distinct
  <2>2. \A e, f : Among(alarms_, e) /\ Among(x, f) => e.id # f.id
    BY <1>6, <1>8 DEF PlaceInv
  <2>3. \A e, f : (Among(alarms_, e) \/ Among(x, e)) /\ f \in Past \cup {c} => e.id # f.id
    BY <1>6, <1>7, <1>8 DEF PlaceInv
  <2>4. \A e \in cancelled, f \in fired \cup {c} : e.id # f.id
    BY <1>8 DEF PlaceInv, Past
  <2> QED
    BY <1>0, <1>4, <1>9, <2>1, <2>2, <2>3, <2>4 DEF PlaceInv
<1>15. SortedInv'
  <2>1. Ascends(alarms_)'
    BY <1>0 DEF SortedInv, Ascends, Precedes
  <2>2. Ascends(loop.expired)'
    BY <1>4, <1>6 DEF Ascends, Precedes
  <2>3. \A e : Among(x, e) => e.when <= now
    BY <1>6, <1>8 DEF SortedInv
  <2> QED
    BY <1>0, <1>9, <2>1, <2>2, <2>3 DEF SortedInv
<1>16. AlarmOrderInv'
  <2>1. ASSUME NEW e \in before[c.id], Among(x, e) PROVE e.when > c.when
    <3>1. Known(c) /\ Known(e)
      BY <1>6, <1>8, <2>1 DEF Known
    <3>2. c.id \in 0..MaxOps /\ c.when \in Nat /\ e.id \in 0..MaxOps /\ e.when \in Nat
      BY <3>1, KnownEntries
    <3>3. e.id < c.id
      BY <2>1, <3>2 DEF NumbersInv, Ids
    <3>4. Precedes(c, e)
      BY <1>7, <2>1
    <3> QED
      BY <3>2, <3>3, <3>4, LaterAlarm
  <2>2. \A e \in before[c.id] : Among(alarms_, e) => e.when > c.when
    BY <1>8 DEF AlarmOrderInv, Behind
  <2>3. \A f \in fired : \A e \in before[f.id] : Among(alarms_, e) \/ Among(x, e) => e.when > f.when
    BY <1>6, <1>8 DEF AlarmOrderInv, Behind
  <2>4. \A f : Among(x, f) => \A e \in before[f.id] : Among(alarms_, e) => e.when > f.when
    BY <1>6, <1>8 DEF AlarmOrderInv, Behind
  <2> QED
    BY <1>0, <1>4, <1>9, <2>1, <2>2, <2>3, <2>4 DEF AlarmOrderInv, Behind
<1> QED
  BY <1>10, <1>11, <1>13, <1>14, <1>15, <1>16

-----------------------------------------------------------------------------
(* Every step preserves the invariant. *)

LEMMA ReactorStep ==
    ASSUME ReactorConstants, ReactorInv, [ReactorNextStep]_reactorState
    PROVE  ReactorInv'
<1>1. CASE run
  BY <1>1, LoopStep, TakeStep, FireStep DEF run
<1>2. ASSUME NEW t \in Actors, Begin(t) \/ Finish(t) PROVE ReactorInv'
  <2>1. \/ AddAlarm(t) \/ CancelAlarm(t) \/ CancelLate(t) \/ ChangeFd(t)
        \/ Push(t) \/ Wakeup(t)
    BY <1>2 DEF Begin, Finish
  <2> QED
    BY <2>1, AddAlarmStep, CancelStep, OtherOperation, PushStep
<1>3. CASE Tick \/ Data \/ UNCHANGED reactorState
  BY <1>3, LoopStep
<1> QED
  BY <1>1, <1>2, <1>3 DEF ReactorNextStep

LEMMA ReactorInvCorrect == ReactorInv => AlarmsCorrect
<1> SUFFICES ASSUME ReactorInv PROVE AlarmsCorrect
  OBVIOUS
<1> USE DEF ReactorInv
<1>1. InOrder
  BY WaitingPlaces DEF InOrder, AlarmOrderInv, Behind
<1>2. CancelledInTime
  BY DEF CancelledInTime, PlaceInv
<1> QED
  BY <1>1, <1>2 DEF AlarmsCorrect

(* Whatever threads and callbacks add and cancel while the loop runs: an   *)
(* alarm is not called while one that was there before it and is due no    *)
(* later still waits, and one that cancel_alarm() found before it was due  *)
(* is not called.                                                          *)
THEOREM AlarmsAreCorrect == ReactorSafety => []AlarmsCorrect
<1>1. ReactorInit => ReactorInv
  BY ReactorAssumption, ReactorInitial
<1>2. ReactorInv /\ [ReactorNextStep]_reactorState => ReactorInv'
  BY ReactorAssumption, ReactorStep
<1>3. ReactorInv => AlarmsCorrect
  BY ReactorInvCorrect
<1> QED
  BY <1>1, <1>2, <1>3, PTL DEF ReactorSafety
=============================================================================
