SPECIFICATION Spec
CONSTANTS
    Workers = {w1}
    Log <- SingleLog
    Oversized = {}
    Verdicts <- AllVerdicts
    SourceAttempts = 2
    CallbackAttempts = 2
    MaxFaults = 2
    None = None
    InputTopic = "input"
    Region <- UsEast1
    CleanBuckets <- OnlyClean
    QuarantineBuckets = {}
    CallbackTopics <- OnlyBus
    Messages = {}
INVARIANTS
    RepeatedCopyHasOneTarget
