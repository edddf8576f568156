SPECIFICATION FairSpec
CONSTANTS
  b1 = b1
  b2 = b2
  b3 = b3
  b4 = b4
  b5 = b5
  k1 = k1
  k2 = k2
  k3 = k3
  Batches <- MCBatches
  Items <- MCItems
  Asked <- MCAsked
  Containers = {k1, k2, k3}
  Build <- MCBuild
  Foreign = {k2}
  ForeignReplies <- MCForeignReplies
  ModelId = "m1"
  MaxBatchSize = 2
  NoBatch = NoBatch
INVARIANTS
  EachItemAnswered
  NoServerLeftBehind
PROPERTIES
  TakenBatchesEnd
