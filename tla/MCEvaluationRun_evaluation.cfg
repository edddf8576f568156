SPECIFICATION Spec
CONSTANTS
  ShortWords = {"t", "at", "sand", "ross", "ave"}
  ShortNumbers = {"1", "10"}
  Calls = {"c1", "c2", "c3"}
  Tool <- ToolOf
  RunId <- RunIdOf
  Cases <- SomeCases
  Pages = {85, 86}
  Expected <- ExpectedOf
  Readings <- SomeReadings
  Listed = {"t"}
INVARIANTS
  PrintedIsKept
  RecallRecounts
PROPERTIES
  OldArtifactsStay
