------------------------------ MODULE NamedLock ------------------------------
(***************************************************************************)
(* hololink::NamedLock, which serialises the use of the device's I2C, SPI  *)
(* and UART controllers and of its reset between the threads of a program  *)
(* and between programs: a recursive mutex for the threads, lockf on a     *)
(* file for the programs.                                                  *)
(*                                                                         *)
(* A program is started again after a crash with all its threads outside   *)
(* of the lock.                                                            *)
(***************************************************************************)
EXTENDS Integers, FiniteSets

CONSTANTS
    Processes,
    Threads,
    ProcessOf,    \* thread -> its process
    Nobody,
    MaxDepth,     \* how deep calls to lock() are nested
    MaxFailures,  \* bound: lockf calls that fail
    MaxCrashes    \* bound: crashes

LockConstants ==
    /\ ProcessOf \in [Threads -> Processes]
    /\ Nobody \notin Threads /\ Nobody \notin Processes
    /\ MaxDepth \in Nat \ {0} /\ MaxFailures \in Nat /\ MaxCrashes \in Nat

ASSUME LockAssumption == LockConstants

VARIABLES
    owner,     \* process_mutex_: process -> the thread that owns it
    count,     \* process_mutex_: process -> how often the owner has locked it
    file,      \* the process that has the lock on the file
    pc,        \* thread -> where it is in lock() and unlock()
    levels,    \* thread -> lock() calls it has not undone
    failures, crashes

namedLockVars == <<owner, count, file, pc, levels, failures, crashes>>

LockTypeOK ==
    /\ owner \in [Processes -> Threads \cup {Nobody}]
    /\ count \in [Processes -> Nat]
    /\ file \in Processes \cup {Nobody}
    /\ pc \in [Threads -> {"out", "lockf", "in", "unlock"}]
    /\ levels \in [Threads -> 0..MaxDepth]
    /\ failures \in 0..MaxFailures /\ crashes \in 0..MaxCrashes

LockInit ==
    /\ owner = [p \in Processes |-> Nobody] /\ count = [p \in Processes |-> 0]
    /\ file = Nobody
    /\ pc = [t \in Threads |-> "out"] /\ levels = [t \in Threads |-> 0]
    /\ failures = 0 /\ crashes = 0

Outside(t) == IF levels[t] > 0 THEN "in" ELSE "out"

\* Mutant: lockf alone, without process_mutex_.
Lock_NoMutex(t) ==
    LET p == ProcessOf[t] IN
    /\ pc[t] = Outside(t) /\ levels[t] < MaxDepth
    /\ owner' = [owner EXCEPT ![p] = t]
    /\ count' = [count EXCEPT ![p] = @ + 1]
    /\ pc' = [pc EXCEPT ![t] = "lockf"]
    /\ UNCHANGED <<file, levels, failures, crashes>>

(* lock(): first process_mutex_.lock() ... *)
Lock(t) ==
    LET p == ProcessOf[t] IN
    /\ pc[t] = Outside(t) /\ levels[t] < MaxDepth
    /\ owner[p] \in {Nobody, t}
    /\ owner' = [owner EXCEPT ![p] = t]
    /\ count' = [count EXCEPT ![p] = @ + 1]
    /\ pc' = [pc EXCEPT ![t] = "lockf"]
    /\ UNCHANGED <<file, levels, failures, crashes>>

(* ... then lockf(F_LOCK). It waits for other processes only and does not  *)
(* count.                                                                  *)
LockfTaken(t) ==
    /\ pc[t] = "lockf"
    /\ file \in {Nobody, ProcessOf[t]}
    /\ file' = ProcessOf[t]
    /\ levels' = [levels EXCEPT ![t] = @ + 1]
    /\ pc' = [pc EXCEPT ![t] = "in"]
    /\ UNCHANGED <<owner, count, failures, crashes>>

(* lockf failed (a signal handler ran): lock() throws and process_mutex_   *)
(* stays locked.                                                           *)
LockfFails(t) ==
    /\ pc[t] = "lockf"
    /\ failures < MaxFailures
    /\ failures' = failures + 1
    /\ pc' = [pc EXCEPT ![t] = Outside(t)]
    /\ UNCHANGED <<owner, count, file, levels, crashes>>

\* Mutant: the lock on the file is kept.
Unlock_KeepsFile(t) ==
    /\ pc[t] = "in"
    /\ levels' = [levels EXCEPT ![t] = @ - 1]
    /\ pc' = [pc EXCEPT ![t] = "unlock"]
    /\ UNCHANGED <<owner, count, file, failures, crashes>>

(* unlock(): first lockf(F_ULOCK), which gives up the lock of the process  *)
(* however often it was taken ...                                          *)
Unlock(t) ==
    /\ pc[t] = "in"
    /\ levels' = [levels EXCEPT ![t] = @ - 1]
    /\ file' = IF file = ProcessOf[t] THEN Nobody ELSE file
    /\ pc' = [pc EXCEPT ![t] = "unlock"]
    /\ UNCHANGED <<owner, count, failures, crashes>>

(* ... then process_mutex_.unlock(). *)
MutexUnlock(t) ==
    LET p == ProcessOf[t] IN
    /\ pc[t] = "unlock"
    /\ count' = [count EXCEPT ![p] = @ - 1]
    /\ owner' = [owner EXCEPT ![p] = IF count'[p] = 0 THEN Nobody ELSE @]
    /\ pc' = [pc EXCEPT ![t] = Outside(t)]
    /\ UNCHANGED <<file, levels, failures, crashes>>

\* Mutant: a named semaphore, which outlives the program that holds it.
Crash_KeepsLock(p) ==
    /\ crashes < MaxCrashes
    /\ crashes' = crashes + 1
    /\ owner' = [owner EXCEPT ![p] = Nobody] /\ count' = [count EXCEPT ![p] = 0]
    /\ pc' = [t \in Threads |-> IF ProcessOf[t] = p THEN "out" ELSE pc[t]]
    /\ levels' = [t \in Threads |-> IF ProcessOf[t] = p THEN 0 ELSE levels[t]]
    /\ UNCHANGED <<file, failures>>

(* The program ends at any point; the kernel drops its lock on the file.   *)
Crash(p) ==
    /\ crashes < MaxCrashes
    /\ crashes' = crashes + 1
    /\ owner' = [owner EXCEPT ![p] = Nobody] /\ count' = [count EXCEPT ![p] = 0]
    /\ file' = IF file = p THEN Nobody ELSE file
    /\ pc' = [t \in Threads |-> IF ProcessOf[t] = p THEN "out" ELSE pc[t]]
    /\ levels' = [t \in Threads |-> IF ProcessOf[t] = p THEN 0 ELSE levels[t]]
    /\ UNCHANGED failures

-----------------------------------------------------------------------------
LockProceed(t) == LockfTaken(t) \/ LockfFails(t) \/ Unlock(t) \/ MutexUnlock(t)

LockNext ==
    \/ \E t \in Threads : Lock(t) \/ LockProceed(t)
    \/ \E p \in Processes : Crash(p)

(* A thread that has called lock() or unlock() is scheduled, and one that  *)
(* holds the lock releases it; nobody has to call lock().                  *)
LockSafety == LockInit /\ [][LockNext]_namedLockVars
LockSpec == LockSafety /\ \A t \in Threads : WF_namedLockVars(LockProceed(t))

-----------------------------------------------------------------------------
(* Properties. *)

\* named_lock.hpp: "Other threads and processes block until the lock is
\* completely released (all recursive levels unlocked)." No thread holds a
\* level of the lock while a thread of this or another program does, across
\* the two steps of lock(), the two of unlock(), failures and crashes.
MutualExclusion ==
    \A t, u \in Threads : levels[t] > 0 /\ levels[u] > 0 => t = u

\* The comment in the constructor: "if this program exits unexpectedly we
\* don't leave the lock held." When someone waits for the other programs,
\* the lock is given to someone again, whoever crashed while holding it.
LockHandedOn ==
    (\E t \in Threads : pc[t] = "lockf")
        ~> ((\E t \in Threads : levels[t] > 0) \/ (\A t \in Threads : pc[t] # "lockf"))
=============================================================================
