SPECIFICATION FairSpec
CONSTANTS
  Calls <- MCCalls
  Request <- MCRequest
  Boreholes <- MCBoreholes
  Earlier <- MCEarlier
  Null = Null
  NoRow = NoRow
INVARIANTS
  WholeOrNothing
  GeometryIsLabelled
PROPERTIES
  UndisturbedRowAsReported
  EveryPersistEnds
