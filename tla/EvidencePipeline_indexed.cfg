SPECIFICATION Spec
CONSTANTS
    Contents = {d1}
    Callers = {a1}
    NumChunks = 1
    BatchSize = 1
    MaxAttempts = 2
    Short = {}
    Near <- NoneNear
    Blank = {}
    Modes = {"auto"}
    None = None
    MaxCalls = 1
    MaxEntries = 0
    MaxFaults = 0
    MaxOutages = 1
    MaxPauses = 0
    MaxRequeues = 0
CHECK_DEADLOCK FALSE
INVARIANTS
    DoneIsSearchable
