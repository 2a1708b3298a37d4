SPECIFICATION FairSpec
CONSTANTS
    Entities = {}
    Claims = {c1}
    Docs = {d1}
    Clients = {p1}
    None = None
    CallKinds = {"claim", "extract"}
    Sections <- AllSections
    MaxAttempts = 1
    ReplayBatch = 1
    MirrorBatch = 1
    MaxCalls = 1
    MaxFaults = 1
    MaxOutages = 0
    MaxDeletes = 1
PROPERTIES
    BackfillConverges
    OrphansGo
CHECK_DEADLOCK FALSE
