SPECIFICATION CropEditorSpec
CONSTANTS
    CropVideos <- MCVideos
    AlphaBoxes <- MCAlphaBoxes
    FramingSpecs <- MCFramingSpecs
    Ratios <- MCRatios
    Resizes <- MCResizes
    Rotations = {0, 90, 270}
    Pointers <- MCPointers
    MinFinal = 1
    MaxCropEdits = 5
INVARIANT LockedEditNeverFails
CHECK_DEADLOCK FALSE
