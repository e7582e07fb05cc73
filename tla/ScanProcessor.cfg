SPECIFICATION FairSpec
CONSTANTS
    Scans = {r1, r2}
    Pings = {}
    ScanConcurrency = 1
    SourceAttempts = 2
INVARIANTS
    TypeOK
    CleanMeansWholeBody
    ReceivedReplyDecides
    HoldsOnlyWhileScanning
PROPERTIES
    SlotsComeBack
