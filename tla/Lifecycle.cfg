SPECIFICATION FairSpecHealth
CONSTANTS
  MaxInFlight = 2
  Scans = {}
  Pings = {p}
INVARIANTS
  TypeOK
  ActiveRecordsKeepTheConsumer
  ExitZeroMeansDrained
  HealthyMeansServing
PROPERTIES
  LosingTheRaceIsNotFatal
  SignalEndsTheProcess
  LoopEndEndsTheProcess
  ProbesAreAnswered
