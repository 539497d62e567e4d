SPECIFICATION FairSpec
CONSTANTS
    None = None
    SourceIds = {s1}
    JobIds = {j1, j2}
    RequestIds = {s1, j1, j2}
    Settings = {v1}
PROPERTIES CancelIsAnswered PublishedIsShown
CHECK_DEADLOCK FALSE
