------------------------ MODULE MCSegmentationHost ------------------------
(* SegmentationHost for TLC: two frames of one job, the second larger, and *)
(* a frame of another job.                                                 *)
EXTENDS SegmentationHost

CONSTANTS r1, r2, r3, j1, j2

MCJobOf == [r \in Requests |-> IF r = r3 THEN j2 ELSE j1]
===========================================================================
