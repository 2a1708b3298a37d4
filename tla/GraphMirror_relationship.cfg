SPECIFICATION Spec
CONSTANTS
    Entities = {e1, e2}
    Claims = {}
    Docs = {}
    Clients = {p1}
    None = None
    CallKinds = {"entity", "relationship"}
    Sections <- EntitySections
    MaxAttempts = 2
    ReplayBatch = 1
    MirrorBatch = 1
    MaxCalls = 3
    MaxFaults = 0
    MaxOutages = 1
    MaxDeletes = 0
INVARIANT RelationshipNeverLost
CHECK_DEADLOCK FALSE
