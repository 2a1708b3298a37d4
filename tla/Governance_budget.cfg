SPECIFICATION FairSpec
CONSTANTS
    Callers = {c1, c2}
    Monitors = {m1}
    Raisers = {c1, c2, m1}
    Keys = {"YELLOW", "RED", "KILL", "l3deny", "monitor"}
    MonitorKeys = {"monitor"}
    None = None
    Channels <- OneChannel
    MinRank = 2
    Retries = 1
    BatchLimit = 10
    BumpWindow = 1
    Gap <- ShortGap
    Kinds = {"tool_call", "crawl_page", "embedding_tokens"}
    Limit <- SmallLimit
    Tools = {"crawl_url", "hybrid_search", "run_component_action"}
    RedAllowed = {}
    KillAllowed = {}
    AdminTools = {"run_component_action"}
    CrawlTools = {"crawl_url"}
    TokenTools = {"hybrid_search"}
    Amounts = {7, 9}
    MaxRequests = 2
    MaxHours = 1
    MaxFaults = 1
    MaxSpends = 1
    MaxDays = 1
    MaxEvents = 1
CHECK_DEADLOCK FALSE
INVARIANTS
    TypeOK
    PostsAccounted
    SilenceExplained
    TwinsRaced
    TransitionTold
PROPERTIES
    
    DeliveryRefines
    NoticesSettle
