SPECIFICATION Spec
CONSTANTS
  Calls = {c1, c2, c3}
  Requests <- SomeRequests
  Releases <- SomeReleases
  Builds <- SomeBuilds
  WholePage = WholePage
  Unit = 4
  Slack = 1
  Scaled <- MCScaled
SYMMETRY CallSymmetry
INVARIANTS
  ServedAsAsked
  CompletedIsAnswered
  RegionShown
