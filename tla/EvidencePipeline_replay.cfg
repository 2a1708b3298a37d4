SPECIFICATION Spec
CONSTANTS
    Contents = {d1}
    Callers = {}
    NumChunks = 1
    BatchSize = 1
    MaxAttempts = 2
    Short = {}
    Near <- NoneNear
    Blank = {}
    Modes = {"auto"}
    None = None
    MaxCalls = 0
    MaxEntries = 1
    MaxFaults = 1
    MaxOutages = 0
    MaxPauses = 0
    MaxRequeues = 0
CHECK_DEADLOCK FALSE
INVARIANTS
    ReplaySafe
