SPECIFICATION Spec
CONSTANTS
  Calls <- TwinCalls
  Request <- Twins
  Documents <- TwoDocuments
  Sha <- SameSha
  GlobalUsd = 3
  HardStopUsd = 3
  JobCapUsd = 1
  ConfirmAboveUsd = 1
  MaxSlots = 1
  Failures = {"PROVIDER_ERROR"}
  Results <- TwinResults
  MaxActual = 1
  CrashProne = {}
  NoCall = NoCall
  NoDocument = NoDocument
INVARIANT ReturnedForItsDocument
