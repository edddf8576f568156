SPECIFICATION Spec
CONSTANTS
  Calls <- RivalCalls
  Request <- Rivals
  Documents <- OneDocument
  Sha <- OneSha
  GlobalUsd = 6
  HardStopUsd = 5
  JobCapUsd = 3
  ConfirmAboveUsd = 2
  MaxSlots = 1
  Failures = {"PROVIDER_ERROR"}
  Results <- GoodResult
  MaxActual = 3
  CrashProne = {"c1"}
  NoCall = NoCall
  NoDocument = NoDocument
INVARIANTS
  TypeOK
  WithinCeiling
  GpuSlotsBounded
PROPERTIES
  ImplementsAuthority
