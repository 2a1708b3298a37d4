SPECIFICATION Spec
CONSTANTS
    Entities = {e1, e2}
    Claims = {}
    Docs = {}
    Clients = {p1, p2}
    None = None
    CallKinds = {"entity", "relationship"}
    Sections <- EntitySections
    MaxAttempts = 2
    ReplayBatch = 1
    MirrorBatch = 1
    MaxCalls = 2
    MaxFaults = 1
    MaxOutages = 1
    MaxDeletes = 0
SYMMETRY Symmetry
INVARIANTS
    TypeOK
    MirrorBacked
    NoLostEntity
    
PROPERTIES
    SettledRowsAreFinal
    MirrorRefines
CHECK_DEADLOCK FALSE
