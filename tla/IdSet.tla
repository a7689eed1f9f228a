------------------------------- MODULE IdSet -------------------------------
(***************************************************************************)
(* The view that the users of utils/segment_tree.h have of a SegmentTree:  *)
(* the set of the ids that were inserted, and the questions asked about    *)
(* it.  Module SegmentTree models the tree itself (the map from the first  *)
(* to the last id of each segment) and shows that its answers are these.   *)
(***************************************************************************)
EXTENDS Integers, FiniteSets

(* segments_.size(): a segment begins at an id whose predecessor is absent. *)
SegmentsCount(S) == Cardinality({x \in S : x - 1 \notin S})

(* The seeded defect "the number of segments is not looked at". *)
CompleteIgnoringGaps(S, n) == 1 \in S /\ n \in S

(* The negation of the loop conditions of WaitForFinAndFlyingMsg and of     *)
(* WaitForFlyingAck: one segment, which holds 1 and n.                      *)
Complete(S, n) ==
    /\ ~(SegmentsCount(S) > 1)
    /\ 1 \in S
    /\ n \in S
=============================================================================
