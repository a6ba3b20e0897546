-------------------------- MODULE MCAlertArchive --------------------------
(* Small instances of AlertArchive for TLC.                                *)
EXTENDS AlertArchive, TLC

CONSTANTS w1, w2, o1, stamp

(* A triggered event can be above, at or below an alert; the others end    *)
(* any alert.                                                              *)
TwoSeverities ==
  [action : {"triggered"}, sev : 1..2] \cup [action : {"resolved"}, sev : {2}]

Stamps == [o \in Commands |-> stamp]
=============================================================================
