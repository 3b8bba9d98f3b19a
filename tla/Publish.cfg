SPECIFICATION FairSpec
CONSTANTS
  cell_py = cell_py
  declaration = declaration
  artifact = artifact
  blob = blob
  v1 = v1
  v2 = v2
  v3 = v3
  Absent = Absent
  Name <- MCName
  Core = {cell_py}
  Declaration = declaration
  Artifact = artifact
  Version = {v1, v2, v3}
  Garbled = {v3}
  Declares <- MCDeclares
  Pins <- MCPins
  MaxEdits = 2
  Original <- MCOriginal
INVARIANTS
  QuietPublishIsExact
  BoundaryIsClean
  PublishedSurvives
PROPERTIES
  PublishesAtOnce
  PublishEnds
CHECK_DEADLOCK FALSE
