--------------------------- MODULE MCCutPromotion ---------------------------
(* CutPromotion for TLC: two jobs, one thread beside the renderer, and      *)
(* either nothing else or a crash and an edited frame.                      *)
EXTENDS CutPromotion

CONSTANT o1

Edited  == [jobs |-> 2, edits |-> 1, scans |-> 0, reads |-> 0, crashes |-> 1]
Quietly == [jobs |-> 2, edits |-> 0, scans |-> 0, reads |-> 0, crashes |-> 0]

OnlyEdited == {Edited}
OnlyQuiet  == {Quietly}
=============================================================================
