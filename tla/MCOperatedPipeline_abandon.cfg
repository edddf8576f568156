SPECIFICATION OperatedSpec
CONSTANTS
  Calls <- RetryCalls
  Request <- Retries
  Documents <- TwoDocuments
  Sha <- SameSha
  Deletable <- OneDeleted
  GlobalUsd = 3
  HardStopUsd = 3
  JobCapUsd = 1
  ConfirmAboveUsd = 1
  MaxSlots = 1
  Failures = {"PROVIDER_ERROR"}
  Results <- EveryResult
  MaxActual = 1
  CrashProne = {"c2"}
  NoCall = NoCall
  NoDocument = NoDocument
INVARIANT CompletedHasResult
PROPERTY AbandonedNeverStarts
PROPERTY SpendNeverForgotten
PROPERTY UnbilledOnlyIfTakenAway
