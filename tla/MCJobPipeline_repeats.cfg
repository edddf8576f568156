SPECIFICATION FairSpec
CONSTANTS
  Calls <- RepeatCalls
  Request <- Repeats
  Documents <- OneDocument
  Sha <- OneSha
  GlobalUsd = 3
  HardStopUsd = 3
  JobCapUsd = 1
  ConfirmAboveUsd = 1
  MaxSlots = 1
  Failures = {"PROVIDER_ERROR", "INVALID_BATCH_CARDINALITY"}
  Results <- RepeatResults
  MaxActual = 1
  CrashProne = {"c1"}
  NoCall = NoCall
  NoDocument = NoDocument
INVARIANTS
  SpendsOncePerWork
  OneSpendPerKey
  ChargedOnce
  ReportsWhatIsStored
  CachedIsValidated
PROPERTIES
  SpendIsRecorded
  ReservationsSettle
  EveryCallLeaves
