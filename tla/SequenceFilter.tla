--------------------------- MODULE SequenceFilter ---------------------------
(***************************************************************************)
(* The part of a sequence that lies in a set, in the order of the          *)
(* sequence.  It equals SelectSeq with membership as its test; it is       *)
(* written out because the proofs about it unfold it, which the provers    *)
(* cannot do with SelectSeq.                                               *)
(***************************************************************************)
LOCAL INSTANCE Integers
LOCAL INSTANCE Sequences

Filter(s, S) ==
  LET F[i \in 0..Len(s)] ==
        IF i = 0 THEN <<>>
        ELSE IF s[i] \in S THEN Append(F[i - 1], s[i]) ELSE F[i - 1]
  IN  F[Len(s)]
=============================================================================
