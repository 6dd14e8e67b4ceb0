----------------------------- MODULE MCSegment -----------------------------
(* Instances of SegmentOrder: trains of two classes and of two speeds.       *)
EXTENDS SegmentOrder

CONSTANTS f1, r1, r2, elsewhere

MCMaxSpeed == [t \in Trains |-> IF t = r1 THEN 1 ELSE 2]
=============================================================================
