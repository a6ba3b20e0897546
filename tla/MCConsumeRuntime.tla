------------------------- MODULE MCConsumeRuntime -------------------------
(* Small instances of ConsumeRuntime for TLC.                              *)
EXTENDS ConsumeRuntime, TLC

CONSTANTS a, b, c, d, l1, l2, k1

(* One lane holds a message without a key and then two of a key, the other *)
(* lane a third message of the key.                                        *)
TwoLanes == (l1 :> <<b, a, c>>) @@ (l2 :> <<d>>)
SharedKey == (a :> k1) @@ (b :> NoKey) @@ (c :> k1) @@ (d :> k1)

(* One message less, for the search of the liveness run. *)
ThreeMessages == (l1 :> <<a, b>>) @@ (l2 :> <<d>>)
ThreeKeys == (a :> k1) @@ (b :> k1) @@ (d :> NoKey)

(* Filter is SelectSeq with membership as its test. *)
ASSUME FilterIsSelectSeq ==
  \A l \in Lanes : \A S \in SUBSET Messages :
    Filter(LaneLog[l], S) = SelectSeq(LaneLog[l], LAMBDA m : m \in S)
=============================================================================
