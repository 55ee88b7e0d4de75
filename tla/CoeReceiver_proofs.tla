------------------------- MODULE CoeReceiver_proofs -------------------------
(***************************************************************************)
(* Proofs about CoeReceiver: the three buffers never alias, the receiver   *)
(* thread never writes to a buffer that is still being copied, and the     *)
(* newest complete frame is never lost.                                    *)
(***************************************************************************)
EXTENDS CoeReceiver, TLAPS

\* Before run() has set up its pointers no frame has been signalled.
StartupInv ==
    recvPc = "startup" =>
        /\ ~ready /\ frame_count = 0 /\ stream = <<>>
        /\ appPc \notin {"exchange", "assign", "copy", "record"}

\* event_ captures every copy from a buffer that the application no longer
\* works on, and cuEventSynchronize waits for those from the receiver's one.
Captured(b, n) == \A i \in 1..Len(stream) : stream[i] = b => i <= n

CopiesCaptured ==
    Running => /\ Captured(available, recorded)
               /\ appPc # "record" => Captured(Held, recorded)
               /\ recvPc = "signal" => Captured(receiving, recorded)
               /\ recvPc = "sync" => Captured(receiving, awaited)
               /\ recvPc \in {"recv", "blocked", "memset"} => Captured(receiving, 0)

Inv == TypeOK /\ StartupInv /\ BuffersDisjoint /\ CopiesCaptured /\ NewestReachable

-----------------------------------------------------------------------------
\* The initial state satisfies the invariant.
LEMMA InitInv == Init => Inv
  <1> SUFFICES ASSUME Init PROVE Inv
      OBVIOUS
  <1>1. TypeOK
    <2>1. stream \in Seq(Buffers) /\ Len(stream) = 0
        BY DEF Init
    <2>2. Slots \in Nat /\ 1 \in 1..Slots
        BY CoeAssumption
    <2>3. next \in [frame : Nat, slot : 1..Slots]
        BY <2>2 DEF Init
    <2>4. mem \in [Buffers -> [1..Slots -> Int]] /\ meta \in [Buffers -> Metadata]
        BY DEF Init, Junk, Metadata
    <2>5. recorded \in 0..Len(stream) /\ awaited \in 0..recorded
        BY <2>1 DEF Init
    <2>6. /\ traffic \in BOOLEAN /\ socket \in BOOLEAN /\ ready \in BOOLEAN /\ exit \in BOOLEAN
          /\ recvPc \in RecvPcs /\ appPc \in AppPcs
          /\ receiving \in Buffers /\ frame_count \in Nat /\ ended \in Nat
          /\ available \in Buffers \cup {NULL} /\ busy \in Buffers \cup {NULL}
          /\ got \in Buffers \cup {NULL} /\ out \in Nat /\ delivered \in SUBSET Nat
        BY DEF Init, RecvPcs, AppPcs
    <2> QED  BY <2>1, <2>3, <2>4, <2>5, <2>6 DEF TypeOK
  <1>2. StartupInv
      BY DEF Init, StartupInv
  <1> QED  BY <1>1, <1>2 DEF Init, Inv, BuffersDisjoint, CopiesCaptured, NewestReachable, Running

\* A tail drops the first element.
LEMMA TailFacts ==
    ASSUME NEW S, NEW s \in Seq(S), s # <<>>
    PROVE  /\ Tail(s) \in Seq(S) /\ Len(s) \in Nat \ {0} /\ Len(Tail(s)) = Len(s) - 1
           /\ \A i \in 1..Len(Tail(s)) : Tail(s)[i] = s[i + 1]
  OBVIOUS

\* An append adds a last element.
LEMMA AppendFacts ==
    ASSUME NEW S, NEW s \in Seq(S), NEW e \in S
    PROVE  /\ Append(s, e) \in Seq(S) /\ Len(Append(s, e)) = Len(s) + 1
           /\ \A i \in 1..Len(s) : Append(s, e)[i] = s[i]
           /\ Append(s, e)[Len(s) + 1] = e
  OBVIOUS

\* Nothing is signalled before run() has set up its pointers.
LEMMA StartupStep ==
    ASSUME TypeOK, StartupInv, [Next]_vars
    PROVE  StartupInv'
  <1>1. CASE LosePacket
      BY <1>1 DEF LosePacket, StartupInv, TypeOK, deviceVars, recvVars, appVars, cudaVars
  <1>2. CASE ForeignPacket
      BY <1>2 DEF ForeignPacket, StartupInv, TypeOK, deviceVars, recvVars, appVars, cudaVars
  <1>3. CASE RecvStartup
      BY <1>3 DEF RecvStartup, StartupInv, TypeOK, deviceVars, recvVars, appVars, cudaVars
  <1>4. CASE RecvCall
      BY <1>4 DEF RecvCall, StartupInv, TypeOK, deviceVars, recvVars, appVars, cudaVars
  <1>5. CASE RecvForeign
      BY <1>5 DEF RecvForeign, StartupInv, TypeOK, deviceVars, recvVars, appVars, cudaVars
  <1>6. CASE RecvTimeout
      BY <1>6 DEF RecvTimeout, StartupInv, TypeOK, deviceVars, recvVars, appVars, cudaVars
  <1>7. CASE RecvError
      BY <1>7 DEF RecvError, StartupInv, TypeOK, deviceVars, recvVars, appVars, cudaVars
  <1>8. CASE RecvPacket
      BY <1>8 DEF RecvPacket, StartupInv, TypeOK, deviceVars, recvVars, appVars, cudaVars
  <1>9. CASE RecvFrameEnd
      BY <1>9 DEF RecvFrameEnd, StartupInv, TypeOK, deviceVars, recvVars, appVars, cudaVars
  <1>10. CASE Signal
      BY <1>10 DEF Signal, StartupInv, TypeOK, deviceVars, recvVars, appVars, cudaVars
  <1>11. CASE SignalSync
      BY <1>11 DEF SignalSync, StartupInv, TypeOK, deviceVars, recvVars, appVars, cudaVars
  <1>12. CASE RecvMemset
      BY <1>12 DEF RecvMemset, StartupInv, TypeOK, deviceVars, recvVars, appVars, cudaVars
  <1>13. CASE RecvExit
      BY <1>13 DEF RecvExit, StartupInv, TypeOK, deviceVars, recvVars, appVars, cudaVars
  <1>14. CASE RecvFree
      BY <1>14 DEF RecvFree, StartupInv, TypeOK, deviceVars, recvVars, appVars, cudaVars
  <1>15. CASE AppCall
      BY <1>15 DEF AppCall, StartupInv, TypeOK, deviceVars, recvVars, appVars, cudaVars
  <1>16. CASE AppWaitReady
      BY <1>16 DEF AppWaitReady, StartupInv, TypeOK, deviceVars, recvVars, appVars, cudaVars
  <1>17. CASE AppWaitTimeout
      BY <1>17 DEF AppWaitTimeout, StartupInv, TypeOK, deviceVars, recvVars, appVars, cudaVars
  <1>18. CASE AppExchange
      BY <1>18 DEF AppExchange, StartupInv, TypeOK, deviceVars, recvVars, appVars, cudaVars
  <1>19. CASE AppAssign
      BY <1>19 DEF AppAssign, StartupInv, TypeOK, deviceVars, recvVars, appVars, cudaVars
  <1>20. CASE AppCopy
      BY <1>20 DEF AppCopy, StartupInv, TypeOK, deviceVars, recvVars, appVars, cudaVars
  <1>21. CASE AppRecord
      BY <1>21 DEF AppRecord, StartupInv, TypeOK, deviceVars, recvVars, appVars, cudaVars
  <1>22. CASE AppStop
      BY <1>22 DEF AppStop, StartupInv, TypeOK, deviceVars, recvVars, appVars, cudaVars
  <1>23. CASE AppClose
      BY <1>23 DEF AppClose, StartupInv, TypeOK, deviceVars, recvVars, appVars, cudaVars
  <1>24. CASE AppJoin
      BY <1>24 DEF AppJoin, StartupInv, TypeOK, deviceVars, recvVars, appVars, cudaVars
  <1>25. CASE CopyDone
      BY <1>25 DEF CopyDone, StartupInv, TypeOK, deviceVars, recvVars, appVars, cudaVars
  <1>26. CASE UNCHANGED vars
      BY <1>26 DEF vars, StartupInv, TypeOK, deviceVars, recvVars, appVars, cudaVars
  <1> QED
      BY <1>1, <1>2, <1>3, <1>4, <1>5, <1>6, <1>7, <1>8, <1>9, <1>10, <1>11, <1>12, <1>13,
         <1>14, <1>15, <1>16, <1>17, <1>18, <1>19, <1>20, <1>21, <1>22, <1>23, <1>24,
         <1>25, <1>26
         DEF Next, Receiver, GetNextFrame

\* Every step permutes the three pointers.
LEMMA DisjointStep ==
    ASSUME TypeOK, StartupInv, BuffersDisjoint, [Next]_vars
    PROVE  BuffersDisjoint'
  <1>1. CASE LosePacket
      BY <1>1 DEF LosePacket, StartupInv, TypeOK, BuffersDisjoint, Running, Held,
         deviceVars, recvVars, appVars, cudaVars
  <1>2. CASE ForeignPacket
      BY <1>2 DEF ForeignPacket, StartupInv, TypeOK, BuffersDisjoint, Running, Held,
         deviceVars, recvVars, appVars, cudaVars
  <1>3. CASE RecvStartup
    <2>1. PICK b, a \in Buffers : /\ b # receiving /\ a # receiving /\ a # b
                                   /\ busy' = b /\ available' = a
        BY <1>3 DEF RecvStartup
    <2>2. Buffers = {receiving, a, b}
        BY <2>1, CoeAssumption DEF TypeOK
    <2>3. receiving' = receiving /\ Held' = b
        BY <1>3, <2>1 DEF RecvStartup, StartupInv, Held, appVars
    <2> QED  BY <2>1, <2>2, <2>3 DEF BuffersDisjoint
  <1>4. CASE RecvCall
      BY <1>4 DEF RecvCall, StartupInv, TypeOK, BuffersDisjoint, Running, Held,
         deviceVars, recvVars, appVars, cudaVars
  <1>5. CASE RecvForeign
      BY <1>5 DEF RecvForeign, StartupInv, TypeOK, BuffersDisjoint, Running, Held,
         deviceVars, recvVars, appVars, cudaVars
  <1>6. CASE RecvTimeout
      BY <1>6 DEF RecvTimeout, StartupInv, TypeOK, BuffersDisjoint, Running, Held,
         deviceVars, recvVars, appVars, cudaVars
  <1>7. CASE RecvError
      BY <1>7 DEF RecvError, StartupInv, TypeOK, BuffersDisjoint, Running, Held,
         deviceVars, recvVars, appVars, cudaVars
  <1>8. CASE RecvPacket
      BY <1>8 DEF RecvPacket, StartupInv, TypeOK, BuffersDisjoint, Running, Held,
         deviceVars, recvVars, appVars, cudaVars
  <1>9. CASE RecvFrameEnd
      BY <1>9 DEF RecvFrameEnd, StartupInv, TypeOK, BuffersDisjoint, Running, Held,
         deviceVars, recvVars, appVars, cudaVars
  <1>10. CASE Signal
      BY <1>10 DEF Signal, StartupInv, TypeOK, BuffersDisjoint, Running, Held, deviceVars,
         recvVars, appVars, cudaVars
  <1>11. CASE SignalSync
      BY <1>11 DEF SignalSync, StartupInv, TypeOK, BuffersDisjoint, Running, Held,
         deviceVars, recvVars, appVars, cudaVars
  <1>12. CASE RecvMemset
      BY <1>12 DEF RecvMemset, StartupInv, TypeOK, BuffersDisjoint, Running, Held,
         deviceVars, recvVars, appVars, cudaVars
  <1>13. CASE RecvExit
      BY <1>13 DEF RecvExit, StartupInv, TypeOK, BuffersDisjoint, Running, Held,
         deviceVars, recvVars, appVars, cudaVars
  <1>14. CASE RecvFree
      BY <1>14 DEF RecvFree, StartupInv, TypeOK, BuffersDisjoint, Running, Held,
         deviceVars, recvVars, appVars, cudaVars
  <1>15. CASE AppCall
      BY <1>15 DEF AppCall, StartupInv, TypeOK, BuffersDisjoint, Running, Held,
         deviceVars, recvVars, appVars, cudaVars
  <1>16. CASE AppWaitReady
      BY <1>16 DEF AppWaitReady, StartupInv, TypeOK, BuffersDisjoint, Running, Held,
         deviceVars, recvVars, appVars, cudaVars
  <1>17. CASE AppWaitTimeout
      BY <1>17 DEF AppWaitTimeout, StartupInv, TypeOK, BuffersDisjoint, Running, Held,
         deviceVars, recvVars, appVars, cudaVars
  <1>18. CASE AppExchange
      BY <1>18 DEF AppExchange, StartupInv, TypeOK, BuffersDisjoint, Running, Held,
         deviceVars, recvVars, appVars, cudaVars
  <1>19. CASE AppAssign
      BY <1>19 DEF AppAssign, StartupInv, TypeOK, BuffersDisjoint, Running, Held,
         deviceVars, recvVars, appVars, cudaVars
  <1>20. CASE AppCopy
      BY <1>20 DEF AppCopy, StartupInv, TypeOK, BuffersDisjoint, Running, Held,
         deviceVars, recvVars, appVars, cudaVars
  <1>21. CASE AppRecord
      BY <1>21 DEF AppRecord, StartupInv, TypeOK, BuffersDisjoint, Running, Held,
         deviceVars, recvVars, appVars, cudaVars
  <1>22. CASE AppStop
      BY <1>22 DEF AppStop, StartupInv, TypeOK, BuffersDisjoint, Running, Held,
         deviceVars, recvVars, appVars, cudaVars
  <1>23. CASE AppClose
      BY <1>23 DEF AppClose, StartupInv, TypeOK, BuffersDisjoint, Running, Held,
         deviceVars, recvVars, appVars, cudaVars
  <1>24. CASE AppJoin
      BY <1>24 DEF AppJoin, StartupInv, TypeOK, BuffersDisjoint, Running, Held,
         deviceVars, recvVars, appVars, cudaVars
  <1>25. CASE CopyDone
      BY <1>25 DEF CopyDone, StartupInv, TypeOK, BuffersDisjoint, Running, Held,
         deviceVars, recvVars, appVars, cudaVars
  <1>26. CASE UNCHANGED vars
      BY <1>26 DEF vars, StartupInv, TypeOK, BuffersDisjoint, Running, Held, deviceVars,
         recvVars, appVars, cudaVars
  <1> QED
      BY <1>1, <1>2, <1>3, <1>4, <1>5, <1>6, <1>7, <1>8, <1>9, <1>10, <1>11, <1>12, <1>13,
         <1>14, <1>15, <1>16, <1>17, <1>18, <1>19, <1>20, <1>21, <1>22, <1>23, <1>24,
         <1>25, <1>26
         DEF Next, Receiver, GetNextFrame

\* The newest frame stays within reach.
LEMMA NewestStep ==
    ASSUME TypeOK, StartupInv, BuffersDisjoint, NewestReachable, [Next]_vars
    PROVE  NewestReachable'
  <1>1. CASE LosePacket
      BY <1>1 DEF LosePacket, StartupInv, TypeOK, BuffersDisjoint, NewestReachable,
         Running, Held, deviceVars, recvVars, appVars, cudaVars
  <1>2. CASE ForeignPacket
      BY <1>2 DEF ForeignPacket, StartupInv, TypeOK, BuffersDisjoint, NewestReachable,
         Running, Held, deviceVars, recvVars, appVars, cudaVars
  <1>3. CASE RecvStartup
      BY <1>3 DEF RecvStartup, StartupInv, TypeOK, BuffersDisjoint, NewestReachable,
         Running, Held, deviceVars, recvVars, appVars, cudaVars
  <1>4. CASE RecvCall
      BY <1>4 DEF RecvCall, StartupInv, TypeOK, BuffersDisjoint, NewestReachable, Running,
         Held, deviceVars, recvVars, appVars, cudaVars
  <1>5. CASE RecvForeign
      BY <1>5 DEF RecvForeign, StartupInv, TypeOK, BuffersDisjoint, NewestReachable,
         Running, Held, deviceVars, recvVars, appVars, cudaVars
  <1>6. CASE RecvTimeout
      BY <1>6 DEF RecvTimeout, StartupInv, TypeOK, BuffersDisjoint, NewestReachable,
         Running, Held, deviceVars, recvVars, appVars, cudaVars
  <1>7. CASE RecvError
      BY <1>7 DEF RecvError, StartupInv, TypeOK, BuffersDisjoint, NewestReachable,
         Running, Held, deviceVars, recvVars, appVars, cudaVars
  <1>8. CASE RecvPacket
      BY <1>8 DEF RecvPacket, StartupInv, TypeOK, BuffersDisjoint, NewestReachable,
         Running, Held, deviceVars, recvVars, appVars, cudaVars
  <1>9. CASE RecvFrameEnd
      BY <1>9 DEF RecvFrameEnd, StartupInv, TypeOK, BuffersDisjoint, NewestReachable,
         Running, Held, deviceVars, recvVars, appVars, cudaVars
  <1>10. CASE Signal
      BY <1>10 DEF Signal, StartupInv, TypeOK, BuffersDisjoint, NewestReachable, Running,
         Held, deviceVars, recvVars, appVars, cudaVars
  <1>11. CASE SignalSync
      BY <1>11 DEF SignalSync, StartupInv, TypeOK, BuffersDisjoint, NewestReachable,
         Running, Held, deviceVars, recvVars, appVars, cudaVars
  <1>12. CASE RecvMemset
      BY <1>12 DEF RecvMemset, StartupInv, TypeOK, BuffersDisjoint, NewestReachable,
         Running, Held, deviceVars, recvVars, appVars, cudaVars
  <1>13. CASE RecvExit
      BY <1>13 DEF RecvExit, StartupInv, TypeOK, BuffersDisjoint, NewestReachable,
         Running, Held, deviceVars, recvVars, appVars, cudaVars
  <1>14. CASE RecvFree
      BY <1>14 DEF RecvFree, StartupInv, TypeOK, BuffersDisjoint, NewestReachable,
         Running, Held, deviceVars, recvVars, appVars, cudaVars
  <1>15. CASE AppCall
      BY <1>15 DEF AppCall, StartupInv, TypeOK, BuffersDisjoint, NewestReachable, Running,
         Held, deviceVars, recvVars, appVars, cudaVars
  <1>16. CASE AppWaitReady
      BY <1>16 DEF AppWaitReady, StartupInv, TypeOK, BuffersDisjoint, NewestReachable,
         Running, Held, deviceVars, recvVars, appVars, cudaVars
  <1>17. CASE AppWaitTimeout
      BY <1>17 DEF AppWaitTimeout, StartupInv, TypeOK, BuffersDisjoint, NewestReachable,
         Running, Held, deviceVars, recvVars, appVars, cudaVars
  <1>18. CASE AppExchange
      BY <1>18 DEF AppExchange, StartupInv, TypeOK, BuffersDisjoint, NewestReachable,
         Running, Held, deviceVars, recvVars, appVars, cudaVars
  <1>19. CASE AppAssign
    <2>1. Running => got \in Buffers /\ got # NULL
        BY <1>19, CoeAssumption DEF AppAssign, BuffersDisjoint, Held
    <2>2. Running' => Running /\ Held' = Held /\ appPc' = "copy"
        BY <1>19, <2>1 DEF AppAssign, Running, Held, recvVars
    <2> QED  BY <1>19, <2>2 DEF AppAssign, NewestReachable, recvVars, Running
  <1>20. CASE AppCopy
      BY <1>20 DEF AppCopy, StartupInv, TypeOK, BuffersDisjoint, NewestReachable, Running,
         Held, deviceVars, recvVars, appVars, cudaVars
  <1>21. CASE AppRecord
      BY <1>21 DEF AppRecord, StartupInv, TypeOK, BuffersDisjoint, NewestReachable,
         Running, Held, deviceVars, recvVars, appVars, cudaVars
  <1>22. CASE AppStop
      BY <1>22 DEF AppStop, StartupInv, TypeOK, BuffersDisjoint, NewestReachable, Running,
         Held, deviceVars, recvVars, appVars, cudaVars
  <1>23. CASE AppClose
      BY <1>23 DEF AppClose, StartupInv, TypeOK, BuffersDisjoint, NewestReachable,
         Running, Held, deviceVars, recvVars, appVars, cudaVars
  <1>24. CASE AppJoin
      BY <1>24 DEF AppJoin, StartupInv, TypeOK, BuffersDisjoint, NewestReachable, Running,
         Held, deviceVars, recvVars, appVars, cudaVars
  <1>25. CASE CopyDone
      BY <1>25 DEF CopyDone, StartupInv, TypeOK, BuffersDisjoint, NewestReachable,
         Running, Held, deviceVars, recvVars, appVars, cudaVars
  <1>26. CASE UNCHANGED vars
      BY <1>26 DEF vars, StartupInv, TypeOK, BuffersDisjoint, NewestReachable, Running,
         Held, deviceVars, recvVars, appVars, cudaVars
  <1> QED
      BY <1>1, <1>2, <1>3, <1>4, <1>5, <1>6, <1>7, <1>8, <1>9, <1>10, <1>11, <1>12, <1>13,
         <1>14, <1>15, <1>16, <1>17, <1>18, <1>19, <1>20, <1>21, <1>22, <1>23, <1>24,
         <1>25, <1>26
         DEF Next, Receiver, GetNextFrame

\* event_ keeps capturing the copies of the buffers that change hands.
LEMMA CapturedStep ==
    ASSUME TypeOK, StartupInv, BuffersDisjoint, CopiesCaptured, [Next]_vars
    PROVE  CopiesCaptured'
  <1>1. CASE LosePacket
      BY <1>1 DEF LosePacket, CopiesCaptured, Captured, Running, Held, BuffersDisjoint,
         StartupInv, TypeOK, deviceVars, recvVars, appVars, cudaVars
  <1>2. CASE ForeignPacket
      BY <1>2 DEF ForeignPacket, CopiesCaptured, Captured, Running, Held, BuffersDisjoint,
         StartupInv, TypeOK, deviceVars, recvVars, appVars, cudaVars
  <1>3. CASE RecvStartup
      BY <1>3 DEF RecvStartup, CopiesCaptured, Captured, Running, Held, BuffersDisjoint,
         StartupInv, TypeOK, deviceVars, recvVars, appVars, cudaVars
  <1>4. CASE RecvCall
      BY <1>4 DEF RecvCall, CopiesCaptured, Captured, Running, Held, BuffersDisjoint,
         StartupInv, TypeOK, deviceVars, recvVars, appVars, cudaVars
  <1>5. CASE RecvForeign
      BY <1>5 DEF RecvForeign, CopiesCaptured, Captured, Running, Held, BuffersDisjoint,
         StartupInv, TypeOK, deviceVars, recvVars, appVars, cudaVars
  <1>6. CASE RecvTimeout
      BY <1>6 DEF RecvTimeout, CopiesCaptured, Captured, Running, Held, BuffersDisjoint,
         StartupInv, TypeOK, deviceVars, recvVars, appVars, cudaVars
  <1>7. CASE RecvError
      BY <1>7 DEF RecvError, CopiesCaptured, Captured, Running, Held, BuffersDisjoint,
         StartupInv, TypeOK, deviceVars, recvVars, appVars, cudaVars
  <1>8. CASE RecvPacket
      BY <1>8 DEF RecvPacket, CopiesCaptured, Captured, Running, Held, BuffersDisjoint,
         StartupInv, TypeOK, deviceVars, recvVars, appVars, cudaVars
  <1>9. CASE RecvFrameEnd
      BY <1>9 DEF RecvFrameEnd, CopiesCaptured, Captured, Running, Held, BuffersDisjoint,
         StartupInv, TypeOK, deviceVars, recvVars, appVars, cudaVars
  <1>10. CASE Signal
      BY <1>10 DEF Signal, CopiesCaptured, Captured, Running, Held, BuffersDisjoint,
         StartupInv, TypeOK, deviceVars, recvVars, appVars, cudaVars
  <1>11. CASE SignalSync
      BY <1>11 DEF SignalSync, CopiesCaptured, Captured, Running, Held, BuffersDisjoint,
         StartupInv, TypeOK, deviceVars, recvVars, appVars, cudaVars
  <1>12. CASE RecvMemset
      BY <1>12 DEF RecvMemset, CopiesCaptured, Captured, Running, Held, BuffersDisjoint,
         StartupInv, TypeOK, deviceVars, recvVars, appVars, cudaVars
  <1>13. CASE RecvExit
      BY <1>13 DEF RecvExit, CopiesCaptured, Captured, Running, Held, BuffersDisjoint,
         StartupInv, TypeOK, deviceVars, recvVars, appVars, cudaVars
  <1>14. CASE RecvFree
      BY <1>14 DEF RecvFree, CopiesCaptured, Captured, Running, Held, BuffersDisjoint,
         StartupInv, TypeOK, deviceVars, recvVars, appVars, cudaVars
  <1>15. CASE AppCall
      BY <1>15 DEF AppCall, CopiesCaptured, Captured, Running, Held, BuffersDisjoint,
         StartupInv, TypeOK, deviceVars, recvVars, appVars, cudaVars
  <1>16. CASE AppWaitReady
      BY <1>16 DEF AppWaitReady, CopiesCaptured, Captured, Running, Held, BuffersDisjoint,
         StartupInv, TypeOK, deviceVars, recvVars, appVars, cudaVars
  <1>17. CASE AppWaitTimeout
      BY <1>17 DEF AppWaitTimeout, CopiesCaptured, Captured, Running, Held,
         BuffersDisjoint, StartupInv, TypeOK, deviceVars, recvVars, appVars, cudaVars
  <1>18. CASE AppExchange
      BY <1>18 DEF AppExchange, CopiesCaptured, Captured, Running, Held, BuffersDisjoint,
         StartupInv, TypeOK, deviceVars, recvVars, appVars, cudaVars
  <1>19. CASE AppAssign
      BY <1>19 DEF AppAssign, CopiesCaptured, Captured, Running, Held, BuffersDisjoint,
         StartupInv, TypeOK, deviceVars, recvVars, appVars, cudaVars
  <1>20. CASE AppCopy
    <2>1. stream' = Append(stream, busy) /\ stream \in Seq(Buffers) /\ busy \in Buffers
        BY <1>20 DEF AppCopy, TypeOK
    <2>2. \A i \in 1..Len(stream)' :
            (i \in 1..Len(stream) /\ stream'[i] = stream[i]) \/ stream'[i] = busy
        BY <2>1, AppendFacts
    <2>3. ASSUME NEW b, NEW n, Captured(b, n), b # busy
          PROVE  Captured(b, n)'
        BY <2>2, <2>3 DEF Captured
    <2>4. Running => available # busy /\ receiving # busy
        BY <1>20 DEF AppCopy, BuffersDisjoint, Held
    <2>5. /\ Running' = Running /\ available' = available /\ receiving' = receiving
          /\ recorded' = recorded /\ awaited' = awaited /\ recvPc' = recvPc /\ appPc' = "record"
        BY <1>20 DEF AppCopy, Running, recvVars
    <2>6. SUFFICES ASSUME Running PROVE CopiesCaptured'
        BY <2>5 DEF CopiesCaptured
    <2>7. Captured(available, recorded)'
        BY <2>3, <2>4, <2>5, <2>6 DEF CopiesCaptured, Captured
    <2>8. /\ recvPc = "signal" => Captured(receiving, recorded)'
          /\ recvPc = "sync" => Captured(receiving, awaited)'
          /\ recvPc \in {"recv", "blocked", "memset"} => Captured(receiving, 0)'
        BY <2>3, <2>4, <2>5, <2>6 DEF CopiesCaptured, Captured
    <2> QED  BY <2>5, <2>7, <2>8 DEF CopiesCaptured
  <1>21. CASE AppRecord
      BY <1>21 DEF AppRecord, CopiesCaptured, Captured, Running, Held, BuffersDisjoint,
         StartupInv, TypeOK, deviceVars, recvVars, appVars, cudaVars
  <1>22. CASE AppStop
      BY <1>22 DEF AppStop, CopiesCaptured, Captured, Running, Held, BuffersDisjoint,
         StartupInv, TypeOK, deviceVars, recvVars, appVars, cudaVars
  <1>23. CASE AppClose
      BY <1>23 DEF AppClose, CopiesCaptured, Captured, Running, Held, BuffersDisjoint,
         StartupInv, TypeOK, deviceVars, recvVars, appVars, cudaVars
  <1>24. CASE AppJoin
      BY <1>24 DEF AppJoin, CopiesCaptured, Captured, Running, Held, BuffersDisjoint,
         StartupInv, TypeOK, deviceVars, recvVars, appVars, cudaVars
  <1>25. CASE CopyDone
    <2>1. /\ stream' = Tail(stream) /\ stream \in Seq(Buffers) /\ stream # <<>>
          /\ recorded \in Nat /\ awaited \in Nat
        BY <1>25 DEF CopyDone, TypeOK
    <2>2. /\ Len(stream) \in Nat /\ Len(stream)' = Len(stream) - 1
          /\ \A i \in 1..Len(stream)' : stream'[i] = stream[i + 1]
        BY <2>1, TailFacts
    <2>3. ASSUME NEW b, NEW n \in Nat, Captured(b, n)
          PROVE  Captured(b, IF n > 0 THEN n - 1 ELSE 0)'
        BY <2>2, <2>3 DEF Captured
    <2>4. /\ recorded' = IF recorded > 0 THEN recorded - 1 ELSE 0
          /\ awaited' = IF awaited > 0 THEN awaited - 1 ELSE 0
          /\ Running' = Running /\ available' = available /\ receiving' = receiving
          /\ Held' = Held /\ recvPc' = recvPc /\ appPc' = appPc
        BY <1>25 DEF CopyDone, Running, Held, recvVars, appVars
    <2>5. SUFFICES ASSUME Running PROVE CopiesCaptured'
        BY <2>4 DEF CopiesCaptured
    <2>6. /\ Captured(available, recorded)'
          /\ appPc # "record" => Captured(Held, recorded)'
          /\ recvPc = "signal" => Captured(receiving, recorded)'
        BY <2>1, <2>3, <2>4, <2>5 DEF CopiesCaptured, Captured
    <2>7. /\ recvPc = "sync" => Captured(receiving, awaited)'
          /\ recvPc \in {"recv", "blocked", "memset"} => Captured(receiving, 0)'
        BY <2>1, <2>3, <2>4, <2>5 DEF CopiesCaptured, Captured
    <2> QED  BY <2>4, <2>6, <2>7 DEF CopiesCaptured
  <1>26. CASE UNCHANGED vars
      BY <1>26 DEF vars, CopiesCaptured, Captured, Running, Held, BuffersDisjoint,
         StartupInv, TypeOK, deviceVars, recvVars, appVars, cudaVars
  <1> QED
      BY <1>1, <1>2, <1>3, <1>4, <1>5, <1>6, <1>7, <1>8, <1>9, <1>10, <1>11, <1>12, <1>13,
         <1>14, <1>15, <1>16, <1>17, <1>18, <1>19, <1>20, <1>21, <1>22, <1>23, <1>24,
         <1>25, <1>26
         DEF Next, Receiver, GetNextFrame

\* The packet after a packet is one of the same or of the next frame.
LEMMA AfterType ==
    ASSUME NEW p \in [frame : Nat, slot : 1..Slots]
    PROVE  After(p) \in [frame : Nat, slot : 1..Slots]
  <1>1. Slots \in Nat \ {0}
      BY CoeAssumption
  <1>2. CASE p.slot < Slots
      BY <1>1, <1>2 DEF After
  <1>3. CASE ~(p.slot < Slots)
      BY <1>1, <1>3 DEF After
  <1> QED  BY <1>2, <1>3

\* The memcpy of a payload keeps the buffers' type.
LEMMA StoreType == ASSUME TypeOK, Store PROVE mem' \in [Buffers -> [1..Slots -> Int]]
  BY DEF TypeOK, Store

\* Types are preserved; a pointer that comes back from available_
\* is never null while run() is in its loop.
LEMMA TypeStep ==
    ASSUME TypeOK, BuffersDisjoint, [Next]_vars
    PROVE  TypeOK'
  <1>1. CASE LosePacket
    <2>1. next' \in [frame : Nat, slot : 1..Slots]
        BY <1>1, AfterType DEF LosePacket, TypeOK
    <2> QED  BY <1>1, <2>1 DEF LosePacket, TypeOK, recvVars, appVars, cudaVars
  <1>2. CASE ForeignPacket
      BY <1>2 DEF ForeignPacket, TypeOK, RecvPcs, AppPcs, deviceVars, recvVars, appVars, cudaVars
  <1>3. CASE RecvStartup
      BY <1>3 DEF RecvStartup, TypeOK, RecvPcs, AppPcs, deviceVars, recvVars, appVars, cudaVars
  <1>4. CASE RecvCall
      BY <1>4 DEF RecvCall, TypeOK, RecvPcs, AppPcs, deviceVars, recvVars, appVars, cudaVars
  <1>5. CASE RecvForeign
      BY <1>5 DEF RecvForeign, TypeOK, RecvPcs, AppPcs, deviceVars, recvVars, appVars, cudaVars
  <1>6. CASE RecvTimeout
      BY <1>6 DEF RecvTimeout, TypeOK, RecvPcs, AppPcs, deviceVars, recvVars, appVars, cudaVars
  <1>7. CASE RecvError
      BY <1>7 DEF RecvError, TypeOK, RecvPcs, AppPcs, deviceVars, recvVars, appVars, cudaVars
  <1>8. CASE RecvPacket
    <2>1. next' \in [frame : Nat, slot : 1..Slots]
        BY <1>8, AfterType DEF RecvPacket, TypeOK
    <2>2. mem' \in [Buffers -> [1..Slots -> Int]]
        BY <1>8, StoreType DEF RecvPacket
    <2> QED  BY <1>8, <2>1, <2>2 DEF RecvPacket, TypeOK, RecvPcs, appVars, cudaVars
  <1>9. CASE RecvFrameEnd
    <2>1. next' \in [frame : Nat, slot : 1..Slots]
        BY <1>9, AfterType DEF RecvFrameEnd, TypeOK
    <2>2. mem' \in [Buffers -> [1..Slots -> Int]]
        BY <1>9, StoreType DEF RecvFrameEnd
    <2>3. frame_count' \in Nat /\ ended' \in Nat /\ meta' \in [Buffers -> Metadata]
        BY <1>9 DEF RecvFrameEnd, TypeOK, Metadata
    <2>4. available' \in Buffers /\ receiving' \in Buffers
        BY <1>9 DEF RecvFrameEnd, BuffersDisjoint, Running, TypeOK
    <2> QED  BY <1>9, <2>1, <2>2, <2>3, <2>4 DEF RecvFrameEnd, TypeOK, RecvPcs, appVars, cudaVars
  <1>10. CASE Signal
      BY <1>10 DEF Signal, TypeOK, RecvPcs, AppPcs, deviceVars, recvVars, appVars, cudaVars
  <1>11. CASE SignalSync
      BY <1>11 DEF SignalSync, TypeOK, RecvPcs, AppPcs, deviceVars, recvVars, appVars, cudaVars
  <1>12. CASE RecvMemset
    <2>1. mem' \in [Buffers -> [1..Slots -> Int]]
        BY <1>12 DEF RecvMemset, TypeOK, Missing
    <2> QED  BY <1>12, <2>1 DEF RecvMemset, TypeOK, RecvPcs, deviceVars, appVars, cudaVars
  <1>13. CASE RecvExit
      BY <1>13 DEF RecvExit, TypeOK, RecvPcs, AppPcs, deviceVars, recvVars, appVars, cudaVars
  <1>14. CASE RecvFree
      BY <1>14 DEF RecvFree, TypeOK, RecvPcs, AppPcs, deviceVars, recvVars, appVars, cudaVars
  <1>15. CASE AppCall
      BY <1>15 DEF AppCall, TypeOK, RecvPcs, AppPcs, deviceVars, recvVars, appVars, cudaVars
  <1>16. CASE AppWaitReady
      BY <1>16 DEF AppWaitReady, TypeOK, RecvPcs, AppPcs, deviceVars, recvVars, appVars, cudaVars
  <1>17. CASE AppWaitTimeout
      BY <1>17 DEF AppWaitTimeout, TypeOK, RecvPcs, AppPcs, deviceVars, recvVars, appVars, cudaVars
  <1>18. CASE AppExchange
      BY <1>18 DEF AppExchange, TypeOK, RecvPcs, AppPcs, deviceVars, recvVars, appVars, cudaVars
  <1>19. CASE AppAssign
      BY <1>19 DEF AppAssign, TypeOK, RecvPcs, AppPcs, deviceVars, recvVars, appVars, cudaVars
  <1>20. CASE AppCopy
      BY <1>20 DEF AppCopy, TypeOK, RecvPcs, AppPcs, deviceVars, recvVars, appVars, cudaVars
  <1>21. CASE AppRecord
    <2>1. recorded' \in 0..Len(stream)' /\ awaited' \in 0..recorded' /\ stream' \in Seq(Buffers)
        BY <1>21 DEF AppRecord, TypeOK
    <2>2. meta[busy].count \in Nat
        BY <1>21 DEF AppRecord, TypeOK, Metadata
    <2>3. out' \in Nat /\ delivered' \in SUBSET Nat
        BY <1>21, <2>2 DEF AppRecord, TypeOK
    <2> QED  BY <1>21, <2>1, <2>3 DEF AppRecord, TypeOK, AppPcs, deviceVars, recvVars
  <1>22. CASE AppStop
      BY <1>22 DEF AppStop, TypeOK, RecvPcs, AppPcs, deviceVars, recvVars, appVars, cudaVars
  <1>23. CASE AppClose
      BY <1>23 DEF AppClose, TypeOK, RecvPcs, AppPcs, deviceVars, recvVars, appVars, cudaVars
  <1>24. CASE AppJoin
      BY <1>24 DEF AppJoin, TypeOK, RecvPcs, AppPcs, deviceVars, recvVars, appVars, cudaVars
  <1>25. CASE CopyDone
      BY <1>25 DEF CopyDone, TypeOK, RecvPcs, AppPcs, deviceVars, recvVars, appVars, cudaVars
  <1>26. CASE UNCHANGED vars
      BY <1>26 DEF vars, TypeOK, RecvPcs, AppPcs, deviceVars, recvVars, appVars, cudaVars
  <1> QED
      BY <1>1, <1>2, <1>3, <1>4, <1>5, <1>6, <1>7, <1>8, <1>9, <1>10, <1>11, <1>12, <1>13,
         <1>14, <1>15, <1>16, <1>17, <1>18, <1>19, <1>20, <1>21, <1>22, <1>23, <1>24,
         <1>25, <1>26
         DEF Next, Receiver, GetNextFrame

-----------------------------------------------------------------------------
(* The invariant is inductive, and each of its parts is a theorem. *)

\* The conjunction of the five parts holds in every reachable state.
THEOREM CoeInvariant == SafetySpec => []Inv
  <1>1. Init => Inv
      BY InitInv
  <1>2. Inv /\ [Next]_vars => Inv'
      BY TypeStep, StartupStep, DisjointStep, CapturedStep, NewestStep DEF Inv
  <1> QED  BY <1>1, <1>2, PTL DEF SafetySpec

\* Every variable of the CoE receiver keeps its type: in particular the
\* pointer that run() gets back from available_.exchange is never null.
THEOREM CoeTypeCorrect == SafetySpec => []TypeOK
  <1>1. Inv => TypeOK
      BY DEF Inv
  <1> QED  BY <1>1, CoeInvariant, PTL

\* Receiver thread and application never share one of the three buffers of
\* LinuxCoeReceiver, for every number of frames and of packets per frame.
THEOREM CoeBuffersDisjoint == SafetySpec => []BuffersDisjoint
  <1>1. Inv => BuffersDisjoint
      BY DEF Inv
  <1> QED  BY <1>1, CoeInvariant, PTL

\* run() never receives into, or clears, a buffer whose copy to the GPU has
\* not finished: waiting for event_ in signal() is enough.
THEOREM CoeNoOverwrite == SafetySpec => []NoOverwriteInFlight
  <1>1. Inv => NoOverwriteInFlight
    <2> SUFFICES ASSUME Inv, recvPc \in {"recv", "blocked", "memset"}
                 PROVE  \A i \in 1..Len(stream) : stream[i] # receiving
        BY DEF NoOverwriteInFlight
    <2>1. Captured(receiving, 0)
        BY DEF Inv, CopiesCaptured, Running
    <2>2. Len(stream) \in Nat
        BY DEF Inv, TypeOK
    <2> QED  BY <2>1, <2>2 DEF Captured
  <1> QED  BY <1>1, CoeInvariant, PTL

\* The last complete frame is delivered or still reachable by the
\* application, whatever the interleaving of exchange, signal() and wait().
THEOREM CoeNewestReachable == SafetySpec => []NewestReachable
  <1>1. Inv => NewestReachable
      BY DEF Inv
  <1> QED  BY <1>1, CoeInvariant, PTL

\* The lock-free exchange of the three buffers is correct, for every number
\* of frames and of packets per frame.
THEOREM CoeExchangeCorrect == SafetySpec => []ExchangeCorrect
  <1>1. TypeOK /\ BuffersDisjoint /\ NoOverwriteInFlight /\ NewestReachable => ExchangeCorrect
      BY DEF ExchangeCorrect
  <1> QED  BY <1>1, CoeTypeCorrect, CoeBuffersDisjoint, CoeNoOverwrite, CoeNewestReachable, PTL

-----------------------------------------------------------------------------
(* No stale bytes. *)

\* The receiver's buffer is neither the one on offer nor the one the
\* application holds, also while run() returns.
ApartInv == receiving # available /\ receiving # Held

\* The bytes of a buffer whose frame is complete, or was never begun.
Clean(b) ==
    \A s \in 1..Slots :
        mem[b][s] \in {Missing, Junk} \cup ((meta[b].after + 1)..meta[b].frame)

\* The bytes of the frame that is being received.
PartOf(b) == \A s \in 1..Slots : mem[b][s] \in {Missing, Junk} \cup ((ended + 1)..next.frame)

StaleInv ==
    /\ next.frame > ended
    /\ \A b \in Buffers : b # receiving => Clean(b)
    /\ recvPc \in {"signal", "sync", "memset"} => Clean(receiving)
    /\ recvPc \in {"startup", "recv", "blocked"} => PartOf(receiving)

\* Steps that neither send, write, exchange buffers nor begin or end a frame.
Idle ==
    /\ UNCHANGED <<next, receiving, mem, meta, ended>>
    /\ \/ recvPc' = recvPc
       \/ recvPc \in {"startup", "recv", "blocked"} /\ recvPc' \in {"recv", "blocked", "exit"}
       \/ recvPc \in {"signal", "sync"} /\ recvPc' \in {"sync", "memset"}
       \/ recvPc' \in {"exit2", "done"}

LEMMA IdleSteps ==
    [Next]_vars => Idle \/ LosePacket \/ RecvPacket \/ RecvFrameEnd \/ RecvMemset
  <1>1. UNCHANGED vars \/ ForeignPacket \/ AppStop \/ AppClose \/ AppJoin \/ CopyDone
        \/ GetNextFrame => Idle
      BY Zenon DEF vars, deviceVars, recvVars, ForeignPacket, AppStop, AppClose, AppJoin, CopyDone,
         GetNextFrame, AppCall, AppWaitReady, AppWaitTimeout, AppExchange, AppAssign, AppCopy,
         AppRecord, Idle
  <1>2. RecvStartup \/ RecvCall \/ RecvForeign \/ RecvTimeout \/ RecvError => Idle
      BY Zenon DEF deviceVars, RecvStartup, RecvCall, RecvForeign, RecvTimeout, RecvError, Idle
  <1>3. Signal \/ SignalSync \/ RecvExit \/ RecvFree => Idle
      BY Zenon DEF deviceVars, Signal, SignalSync, RecvExit, RecvFree, Idle
  <1> QED  BY <1>1, <1>2, <1>3, Zenon DEF Next, Receiver

\* The receiver's buffer stays apart.
LEMMA ApartStep ==
    ASSUME Inv, ApartInv, [Next]_vars
    PROVE  ApartInv'
  <1>0. TypeOK /\ BuffersDisjoint /\ StartupInv
      BY DEF Inv
  <1>1. CASE UNCHANGED <<receiving, available, busy, appPc, got>>
      BY <1>1, Zenon DEF ApartInv, Held
  <1>2. CASE RecvStartup
    <2>1. appPc' # "assign" /\ receiving' = receiving /\ receiving # available' /\ receiving # busy'
        BY <1>0, <1>2, Zenon DEF RecvStartup, StartupInv, appVars
    <2> QED  BY <2>1, Zenon DEF ApartInv, Held
  <1>3. CASE RecvFrameEnd
    <2>1. receiving # available /\ available # Held
        BY <1>0, <1>3 DEF RecvFrameEnd, BuffersDisjoint, Running
    <2>2. receiving' = available /\ available' = receiving /\ Held' = Held
        BY <1>3, Zenon DEF RecvFrameEnd, appVars, Held
    <2> QED  BY <2>1, <2>2, Zenon DEF ApartInv
  <1>4. receiving \in Buffers /\ receiving # NULL
      BY <1>0, CoeAssumption DEF TypeOK
  <1>5. CASE RecvExit \/ RecvFree
    <2>1. /\ receiving' = receiving /\ UNCHANGED <<appPc, got>>
          /\ available' = available \/ available' = NULL
          /\ busy' = busy \/ busy' = NULL
        BY <1>5, Zenon DEF RecvExit, RecvFree, appVars
    <2> QED  BY <1>4, <2>1, Zenon DEF ApartInv, Held
  <1>6. CASE AppExchange
    <2>1. /\ Held = busy /\ Held' = available /\ available' = busy /\ receiving' = receiving
        BY <1>6 DEF AppExchange, Held, recvVars
    <2> QED  BY <2>1, Zenon DEF ApartInv
  <1>7. CASE AppAssign
    <2>1. Held = got /\ busy' = got /\ receiving' = receiving /\ available' = available
        BY <1>7, Zenon DEF AppAssign, Held, recvVars
    <2>2. appPc' # "assign"
        BY <1>7 DEF AppAssign
    <2> QED  BY <2>1, <2>2, Zenon DEF ApartInv, Held
  <1>8. CASE AppCall \/ AppWaitReady \/ AppWaitTimeout \/ AppCopy \/ AppRecord \/ AppStop \/ AppClose
             \/ AppJoin
    <2>1. appPc # "assign" /\ appPc' # "assign"
        BY <1>8 DEF AppCall, AppWaitReady, AppWaitTimeout, AppCopy, AppRecord, AppStop, AppClose,
                    AppJoin
    <2>2. UNCHANGED <<receiving, available, busy>>
        BY <1>8, Zenon DEF AppCall, AppWaitReady, AppWaitTimeout, AppCopy, AppRecord, AppStop,
                    AppClose, AppJoin, recvVars
    <2> QED  BY <2>1, <2>2, Zenon DEF ApartInv, Held
  <1>9. UNCHANGED vars \/ LosePacket \/ ForeignPacket \/ CopyDone =>
            UNCHANGED <<receiving, available, busy, appPc, got>>
      BY Zenon DEF vars, LosePacket, ForeignPacket, CopyDone, recvVars, appVars
  <1>10. RecvCall \/ RecvForeign \/ RecvTimeout \/ RecvError \/ RecvPacket \/ Signal \/ SignalSync
         \/ RecvMemset => UNCHANGED <<receiving, available, busy, appPc, got>>
      BY Zenon DEF RecvCall, RecvForeign, RecvTimeout, RecvError, RecvPacket, Signal, SignalSync,
                   RecvMemset, appVars
  <1> QED
      BY <1>1, <1>2, <1>3, <1>5, <1>6, <1>7, <1>8, <1>9, <1>10, Zenon DEF Next, Receiver, GetNextFrame

\* The packet after a packet is not of an earlier frame.
LEMMA AfterFrame ==
    ASSUME NEW p \in [frame : Nat, slot : 1..Slots]
    PROVE  /\ p.frame \in Nat /\ After(p).frame \in Nat /\ After(p).frame >= p.frame
           /\ p.slot = Slots => After(p).frame = p.frame + 1
  <1>1. Slots \in Nat \ {0}
      BY CoeAssumption
  <1>2. CASE p.slot < Slots
      BY <1>1, <1>2 DEF After
  <1>3. CASE ~(p.slot < Slots)
      BY <1>1, <1>3 DEF After
  <1> QED  BY <1>2, <1>3

\* Bytes of complete frames stay what they are, and a buffer that comes back
\* is cleared before it is filled.
LEMMA StaleStep ==
    ASSUME Inv, StaleInv, [Next]_vars
    PROVE  StaleInv'
  <1>0. /\ next \in [frame : Nat, slot : 1..Slots] /\ ended \in Nat /\ receiving \in Buffers
        /\ mem \in [Buffers -> [1..Slots -> Int]] /\ meta \in [Buffers -> Metadata]
        /\ frame_count \in Nat
      BY Zenon DEF Inv, TypeOK
  <1>1. /\ next.frame > ended
        /\ \A b \in Buffers : b # receiving => Clean(b)
        /\ recvPc \in {"signal", "sync", "memset"} => Clean(receiving)
        /\ recvPc \in {"startup", "recv", "blocked"} => PartOf(receiving)
      BY Zenon DEF StaleInv
  <1>2. /\ next.frame \in Nat /\ After(next).frame \in Nat /\ After(next).frame >= next.frame
        /\ next.slot = Slots => After(next).frame = next.frame + 1
        /\ next.slot \in 1..Slots
      BY <1>0, AfterFrame
  <1>3. CASE Idle
    <2>1. /\ recvPc' \in {"signal", "sync", "memset"} => recvPc \in {"signal", "sync", "memset"}
          /\ recvPc' \in {"startup", "recv", "blocked"} => recvPc \in {"startup", "recv", "blocked"}
        BY <1>3 DEF Idle
    <2>2. UNCHANGED <<next, receiving, mem, meta, ended>>
        BY <1>3, Zenon DEF Idle
    <2> QED  BY <1>1, <2>1, <2>2, Zenon DEF StaleInv, Clean, PartOf
  <1>4. CASE LosePacket
    <2>1. UNCHANGED <<recvPc, receiving, mem, meta, ended>> /\ next' = After(next)
        BY <1>4, Zenon DEF LosePacket, recvVars
    <2>2. (ended + 1)..next.frame \subseteq (ended + 1)..After(next).frame
          /\ After(next).frame > ended
        BY <1>0, <1>1, <1>2
    <2>3. PartOf(receiving) => PartOf(receiving)'
        BY <2>1, <2>2, Zenon DEF PartOf
    <2>4. \A b : Clean(b) => Clean(b)'
        BY <2>1, Zenon DEF Clean
    <2>5. Clean(receiving) => Clean(receiving)'
        BY <2>1, Zenon DEF Clean
    <2> QED  BY <1>1, <2>1, <2>2, <2>3, <2>4, <2>5, Zenon DEF StaleInv
  <1>5. ASSUME Store
        PROVE  /\ \A b \in Buffers : b # receiving => mem'[b] = mem[b]
               /\ mem'[receiving][next.slot] = next.frame
               /\ \A s \in 1..Slots : s # next.slot => mem'[receiving][s] = mem[receiving][s]
      BY <1>0, <1>2, <1>5 DEF Store
  <1>6. ASSUME Store, PartOf(receiving), NEW s \in 1..Slots
        PROVE  mem'[receiving][s] \in {Missing, Junk} \cup ((ended + 1)..next.frame)
    <2>1. next.frame \in (ended + 1)..next.frame
        BY <1>0, <1>1, <1>2
    <2> QED  BY <1>5, <1>6, <2>1, Zenon DEF PartOf
  <1>7. CASE RecvPacket
    <2>1. /\ recvPc = "blocked" /\ recvPc' = "recv" /\ Store /\ next' = After(next)
          /\ UNCHANGED <<receiving, meta, ended>>
        BY <1>7, Zenon DEF RecvPacket
    <2>2. PartOf(receiving)
        BY <1>1, <2>1
    <2>3. (ended + 1)..next.frame \subseteq (ended + 1)..After(next).frame
          /\ After(next).frame > ended
        BY <1>0, <1>1, <1>2
    <2>4. PartOf(receiving)'
        BY <1>6, <2>1, <2>2, <2>3, Zenon DEF PartOf
    <2>5. \A b \in Buffers : b # receiving => Clean(b)'
        BY <1>1, <1>5, <2>1, Zenon DEF Clean
    <2>6. recvPc' \notin {"signal", "sync", "memset"}
        BY <2>1
    <2> QED  BY <2>1, <2>3, <2>4, <2>5, <2>6, Zenon DEF StaleInv
  <1>8. CASE RecvFrameEnd
    <2>1. /\ recvPc = "blocked" /\ recvPc' = "signal" /\ Store /\ next' = After(next)
          /\ next.slot = Slots /\ ended' = next.frame
          /\ meta' = [meta EXCEPT ![receiving] =
                        [count |-> frame_count', frame |-> next.frame, after |-> ended]]
        BY <1>8, Zenon DEF RecvFrameEnd
    <2>2. PartOf(receiving)
        BY <1>1, <2>1
    <2>3. /\ meta'[receiving].frame = next.frame /\ meta'[receiving].after = ended
          /\ \A b \in Buffers : b # receiving => meta'[b] = meta[b]
        BY <1>0, <2>1
    <2>4. next'.frame > ended'
        BY <1>2, <2>1
    <2>5. ASSUME NEW b \in Buffers PROVE Clean(b)'
      <3>1. CASE b # receiving
          BY <1>1, <1>5, <2>1, <2>3, <3>1, Zenon DEF Clean
      <3>2. CASE b = receiving
        <4>1. \A s \in 1..Slots :
                  mem'[b][s] \in {Missing, Junk} \cup ((meta'[b].after + 1)..meta'[b].frame)
            BY <1>6, <2>1, <2>2, <2>3, <3>2, Zenon
        <4> QED  BY <4>1, Zenon DEF Clean
      <3> QED  BY <3>1, <3>2
    <2>6. receiving' \in Buffers
        BY <1>8 DEF RecvFrameEnd, Inv, BuffersDisjoint, Running, TypeOK
    <2>7. PICK r \in Buffers : r = receiving'
        BY <2>6
    <2>8. Clean(receiving)'
      <3>1. Clean(r)'
          BY <2>5
      <3> QED  BY <2>7, <3>1, Zenon DEF Clean
    <2>9. recvPc' \notin {"startup", "recv", "blocked"}
        BY <2>1
    <2> QED  BY <2>4, <2>5, <2>8, <2>9, Zenon DEF StaleInv
  <1>9. CASE RecvMemset
    <2>1. /\ recvPc' = "recv" /\ UNCHANGED <<next, receiving, meta, ended>>
          /\ mem' = [mem EXCEPT ![receiving] = [s \in 1..Slots |-> Missing]]
        BY <1>9, Zenon DEF RecvMemset, deviceVars
    <2>2. /\ \A b \in Buffers : b # receiving => mem'[b] = mem[b]
          /\ \A s \in 1..Slots : mem'[receiving][s] = Missing
        BY <1>0, <2>1
    <2>3. PartOf(receiving)'
        BY <2>1, <2>2, Zenon DEF PartOf
    <2>4. \A b \in Buffers : b # receiving => Clean(b)'
        BY <1>1, <2>1, <2>2, Zenon DEF Clean
    <2>5. recvPc' \notin {"signal", "sync", "memset"}
        BY <2>1
    <2> QED  BY <1>1, <2>1, <2>3, <2>4, <2>5, Zenon DEF StaleInv
  <1> QED  BY <1>3, <1>4, <1>7, <1>8, <1>9, IdleSteps, Zenon

\* A frame that LinuxCoeReceiver delivers never shows bytes of a frame that was
\* complete before it, for every number of frames and of packets per frame.
THEOREM CoeNoStaleBytes == SafetySpec => []NoStaleBytes
  <1>1. Init => Inv /\ ApartInv /\ StaleInv
    <2> SUFFICES ASSUME Init PROVE Inv /\ ApartInv /\ StaleInv
        OBVIOUS
    <2>1. Inv
        BY InitInv
    <2>2. ApartInv
        BY CoeAssumption DEF Init, ApartInv, Held
    <2>3. next.frame > ended /\ recvPc = "startup" /\ receiving \in Buffers
          /\ \A b \in Buffers, s \in 1..Slots : mem[b][s] = Junk
        BY DEF Init
    <2>4. StaleInv
        BY <2>3 DEF StaleInv, Clean, PartOf
    <2> QED  BY <2>1, <2>2, <2>4
  <1>2. Inv /\ ApartInv /\ StaleInv /\ [Next]_vars => ApartInv' /\ StaleInv'
      BY ApartStep, StaleStep
  <1>3. Inv /\ ApartInv /\ StaleInv => NoStaleBytes
    <2> SUFFICES ASSUME Inv, ApartInv, StaleInv, appPc = "copy", busy # NULL
                 PROVE  Clean(busy)
        BY Zenon DEF NoStaleBytes, Clean
    <2>1. busy \in Buffers
        BY DEF Inv, TypeOK
    <2>2. busy # receiving
        BY DEF ApartInv, Held
    <2> QED  BY <2>1, <2>2, Zenon DEF StaleInv
  <1> QED  BY <1>1, <1>2, <1>3, CoeInvariant, PTL DEF SafetySpec
=============================================================================
