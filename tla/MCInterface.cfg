SPECIFICATION InterfaceSpec
CONSTANTS
    MaxVersion = 3
    MaxInodes = 2
    MaxChecks = 2
    MaxStarts = 2
    FrameCount = 2
    MaxPlays = 2
    MaxLate = 1
    MaxPlaybackEdits = 3
    Windows <- MCWindows
    Marks <- MCMarks
    CutSets = {1, 2}
    FrameTotal <- MCFrameTotal
    CacheLimit = 2
    Framings = {1, 2}
    Crops = {0, 2}
    Keeps <- MCKeeps
    MaxStageEdits = 3
    CropVideos <- MCCropVideos
    AlphaBoxes <- MCAlphaBoxes
    FramingSpecs <- MCFramingSpecs
    Ratios <- MCRatios
    Resizes <- MCResizes
    Rotations = {0, 90, 270}
    Pointers <- MCPointers
    MinFinal = 1
    MaxCropEdits = 4
    Clips = {"long", "tiny", "blink"}
    ClipLength <- MCClipLength
    SourceFrame = 1
    Second = 8
    OutputRates = {2, 4}
    DefaultRate = 2
    MaxRate = 4
    MaxTimelineLoads = 2
    MaxTimelineEdits = 3
    Layouts <- MCLayouts
    DirectoryLimit = 2
    MaxBatches = 2
    MaxRewrites = 1
    FrameInputs <- MCFrameInputs
    MaxDelay = 2
    CanvasSizes <- MCCanvasSizes
    MinDimension = 2
    MaxFitEncodings = 3
    ScaleUnit = 4
    ByteLimits = {0, 1}
    Weights = {1, 2}
    Accelerators = {gpu}
    Cpu = cpu
    Nets = {n1, n2}
    DefaultNet = n1
    NoProvider = NoProvider
    MaxWeightFiles = 2
    MaxTampers = 1
    MaxTasks = 2
    MaxPicks = 1
INVARIANTS
    ResultStageCorrect FilmstripCorrect WebPFitCorrect ProvidersCorrect
PROPERTIES
    UpdateCorrect PlaybackCorrect CropEditorCorrect TimelineCorrect
CHECK_DEADLOCK FALSE
