----------------------------- MODULE MCCleaner -----------------------------
(* Small instances of Cleaner for TLC.                                     *)
EXTENDS Cleaner, TLC

CONSTANTS a, b, d, l1, l2

(* Two records of one lane and one of another. *)
ShortLanes == (l1 :> <<a, b>>) @@ (l2 :> <<d>>)

(* One record each: the lanes compete for a batch slot. *)
OneEach == (l1 :> <<a>>) @@ (l2 :> <<d>>)

(* Filter is SelectSeq with membership as its test. *)
ASSUME FilterIsSelectSeq ==
  \A l \in Lanes : \A S \in SUBSET Messages :
    Filter(LaneLog[l], S) = SelectSeq(LaneLog[l], LAMBDA m : m \in S)
=============================================================================
