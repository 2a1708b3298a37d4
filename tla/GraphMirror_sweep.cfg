SPECIFICATION Spec
CONSTANTS
    Entities = {e1}
    Claims = {}
    Docs = {}
    Clients = {p1}
    None = None
    CallKinds = {"entity"}
    Sections <- EntitySections
    MaxAttempts = 2
    ReplayBatch = 1
    MirrorBatch = 1
    MaxCalls = 1
    MaxFaults = 0
    MaxOutages = 0
    MaxDeletes = 0
PROPERTY SweepSpares
CHECK_DEADLOCK FALSE
