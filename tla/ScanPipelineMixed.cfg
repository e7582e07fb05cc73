SPECIFICATION FairSpec
CONSTANTS
    Workers = {w1, w2}
    Log <- MixedLog
    Oversized <- BigUpload
    Verdicts <- OneVerdict
    SourceAttempts = 2
    CallbackAttempts = 2
    MaxFaults = 2
    None = None
    InputTopic = "input"
    Region <- UsEast1
    CleanBuckets <- OnlyClean
    QuarantineBuckets = {}
    CallbackTopics <- OnlyBus
    Messages <- AllMessages
INVARIANTS
    AcceptedRequestsAreComplete
PROPERTIES
    LeaseIsUsed
    BacklogDrains
