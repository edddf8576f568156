SPECIFICATION OperatedSpec
CONSTANTS
  Calls <- RetryCalls
  Request <- Retries
  Documents <- TwoDocuments
  Sha <- SameSha
  Deletable <- NoneDeleted
  GlobalUsd = 3
  HardStopUsd = 3
  JobCapUsd = 1
  ConfirmAboveUsd = 1
  MaxSlots = 1
  Failures = {"PROVIDER_ERROR"}
  Results <- EveryResult
  MaxActual = 1
  CrashProne = {}
  NoCall = NoCall
  NoDocument = NoDocument
PROPERTY TerminalIsFinal
