SPECIFICATION FairSpec
CONSTANTS
    Entities = {e1}
    Claims = {c1}
    Docs = {d1}
    Clients = {p1}
    None = None
    CallKinds = {"claim", "extract"}
    Sections <- ExtractSections
    MaxAttempts = 1
    ReplayBatch = 1
    MirrorBatch = 1
    MaxCalls = 1
    MaxFaults = 1
    MaxOutages = 0
    MaxDeletes = 1
INVARIANTS
    MirrorBacked
    NoLostEntity
PROPERTIES
    BackfillConverges
    PipelinesDrain
CHECK_DEADLOCK FALSE
