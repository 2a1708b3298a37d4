SPECIFICATION FairSpec
CONSTANTS
    Contents = {d1, d2}
    Callers = {a1, a2}
    NumChunks = 1
    BatchSize = 1
    MaxAttempts = 1
    Short = {}
    Near <- NoneNear
    Blank = {d2}
    Modes = {"auto", "force"}
    None = None
    MaxCalls = 2
    MaxEntries = 2
    MaxFaults = 1
    MaxOutages = 0
    MaxPauses = 0
    MaxRequeues = 0
CHECK_DEADLOCK FALSE
INVARIANTS
    NoDocumentForgotten
    QueuedOnce
    CursorBehind
PROPERTIES
    StreamDrains
