SPECIFICATION Spec
CONSTANTS
  Calls <- RepeatCalls
  Request <- Repeats
  Documents <- OneDocument
  Sha <- OneSha
  GlobalUsd = 3
  HardStopUsd = 3
  JobCapUsd = 1
  ConfirmAboveUsd = 1
  MaxSlots = 1
  Failures = {"PROVIDER_ERROR"}
  Results <- GoodResult
  MaxActual = 1
  CrashProne = {}
  NoCall = NoCall
  NoDocument = NoDocument
INVARIANT JobsNeverVanish
