SPECIFICATION Spec
CONSTANTS
  MaxPageNo = 3
  MaxItems = 3
  MaxTexts = 2
  Reports <- MCReports
  ReadingsOf <- MCReadingsOf
  SparseTextChars = 3
  MaxPages = 3
INVARIANTS
  RegionsSurvive
  TextStaysOnItsPage
  EvidenceCitesTheSource
  EmptySheetsOffered
