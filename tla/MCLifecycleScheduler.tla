----------------------- MODULE MCLifecycleScheduler -----------------------
(* Small instances of LifecycleScheduler for TLC.                          *)
EXTENDS LifecycleScheduler, TLC

CONSTANTS m1, m2, e1, e2, e3, c1, c2

(* Two events share a lane, so order and duplicates matter; a third one,   *)
(* when it exists, belongs to another lane that shares the signal stream.  *)
TwoLanes == [e \in Events |-> IF e = e3 THEN m2 ELSE m1]

Handlers == Permutations(Consumers)
=============================================================================
