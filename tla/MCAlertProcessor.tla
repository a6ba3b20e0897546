------------------------- MODULE MCAlertProcessor -------------------------
(* Small instances of AlertProcessor for TLC.                              *)
EXTENDS AlertProcessor, TLC

CONSTANTS w1, w2, o1, o2, stamp

(* Priority 1 is the most severe.  With two severities an event can be     *)
(* above, at or below an alert; with three a rotated alert can be rotated  *)
(* again.  Only triggered events are compared, so the other actions carry  *)
(* one severity, a low one: they end any alert.                            *)
KindsUpTo(n) ==
  [action : {"triggered"}, sev : 1..n]
    \cup [action : {"resolved", "closed"}, sev : {n}]

TwoSeverities == KindsUpTo(2)
ThreeSeverities == KindsUpTo(3)

(* The commands cannot be told apart by what CloseAlert compares. *)
EqualCommands == [o \in Commands |-> stamp]

WorkerSymmetry == Permutations(Workers)
CommandSymmetry == Permutations(Commands)
=============================================================================
