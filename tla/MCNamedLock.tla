----------------------------- MODULE MCNamedLock -----------------------------
(* Instances of NamedLock for TLC: a program with two threads and one with *)
(* one thread.                                                             *)
EXTENDS NamedLock

CONSTANTS p1, p2, t1, t2, t3

TwoPrograms == [t \in {t1, t2, t3} |-> IF t = t3 THEN p2 ELSE p1]
=============================================================================
