SPECIFICATION FairSpec
CONSTANTS
    Contents = {d1, d2}
    Callers = {a1}
    NumChunks = 2
    BatchSize = 1
    MaxAttempts = 2
    Short = {}
    Near <- AllNear
    Blank = {}
    Modes = {"auto", "force", "skip"}
    None = None
    MaxCalls = 2
    MaxEntries = 0
    MaxFaults = 1
    MaxOutages = 1
    MaxPauses = 1
    MaxRequeues = 1
CHECK_DEADLOCK FALSE
INVARIANTS
    TypeOK
    VectorsHaveRows
    DoneHasRows
    NeverOvercharged
    AttemptsCounted
PROPERTIES
    PresentNeverSent
    JobsSettle
