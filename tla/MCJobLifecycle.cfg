SPECIFICATION Spec
CONSTANTS
    None = None
    SourceIds = {s1, s2}
    JobIds = {j1, j2}
    RequestIds = {s1, s2, j1, j2}
    Settings = {v1, v2}
SYMMETRY Identities
CONSTRAINT Bounded
INVARIANTS TypeOK OneWorkerAtTheHost CurrentPreviewShowsSettings ShownOnlyIfCommitted TerminalIsOnItsWay JobIsForTheShownSource
PROPERTY ImplementsJobContext
CHECK_DEADLOCK FALSE
