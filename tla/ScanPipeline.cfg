SPECIFICATION Spec
CONSTANTS
    Workers = {w1, w2}
    Log <- ReplayedLog
    Oversized = {}
    Verdicts <- AllVerdicts
    SourceAttempts = 2
    CallbackAttempts = 2
    MaxFaults = 3
    None = None
    InputTopic = "input"
    Region <- UsEast1
    CleanBuckets <- OnlyClean
    QuarantineBuckets = {}
    CallbackTopics <- OnlyBus
    Messages = {}
INVARIANTS
    TypeOK
    SourceOutlivesRetries
    NothingSilentlyDropped
    ReportedUrlResolves
