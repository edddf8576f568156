SPECIFICATION FairSpec
CONSTANTS
  u1 = u1
  u2 = u2
  u3 = u3
  p1 = p1
  i1 = i1
  i2 = i2
  i3 = i3
  Uploads <- MCUploads
  Asked <- MCAsked
  Projects <- MCProjects
  Ids <- MCIds
  LegacyIds = {i1}
  Unremovable = {i2}
  MaxIdAttempts = 2
  NoUpload = NoUpload
  NoId = NoId
INVARIANTS
  OneEntryPerId
  RowHasItsFile
  NoOrphanFiles
  SameBytesSameDocument
PROPERTIES
  EveryUploadAnswered
