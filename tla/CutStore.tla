------------------------------ MODULE CutStore ------------------------------
(***************************************************************************)
(* What promotion promises of the cut set kept for one cache key: it is    *)
(* replaced as a whole by the set of a later job, and never goes away or   *)
(* back, whatever crashes or fails.                                        *)
(***************************************************************************)
EXTENDS Naturals

CONSTANT MaxJobs       \* jobs that render cuts for the key, numbered from 1

VARIABLE current       \* the job whose cuts are kept, 0 for none

Init == current = 0

Publish == current' \in (current + 1) .. MaxJobs

Spec == Init /\ [][Publish]_current
=============================================================================
