SPECIFICATION CutSpec
CONSTANTS
    Frames = {1, 2}
    MaxEdits = 2
    Nothing = Nothing
INVARIANT CutJobsCorrect
CHECK_DEADLOCK FALSE
