---------------------------- MODULE MCCropEditor ----------------------------
EXTENDS CropEditor
MCVideos == {<<3, 2>>, <<2, 2>>}
MCAlphaBoxes == {<<0, 0, 1, 1>>, <<1, 1, 2, 2>>}
MCFramingSpecs == {[trim |-> FALSE, padding |-> 0, stretch |-> <<1, 1>>], [trim |-> TRUE, padding |-> 0, stretch |-> <<1, 1>>]}
MCRatios == {<<1, 1>>, <<2, 1>>}
MCResizes == {[width |-> 2, height |-> 3, mismatch |-> "cover"], [width |-> 2, height |-> 3, mismatch |-> "pad"], [width |-> 2, height |-> 0, mismatch |-> "keep"]}
MCPointers == {<<0, 0>>, <<-3, 1>>, <<2, -1>>, <<1, 2>>}
=============================================================================
