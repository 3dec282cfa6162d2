SPECIFICATION AllSpec
CONSTANTS
  Namespaces = {m, n}
  Namespace = m
  NoNS = NoNS
  MaxDocs = 3
  MaxEdges = 3
  ForestDocs = 4
  ForestEdges = 6
  References <- AllReferences
INVARIANTS
  TypeOK
  AdoptionComplete
  VerdictCorrect
  ForestMatchesIncludes
  VisibilityMatchesReferences
PROPERTIES
  Termination
CHECK_DEADLOCK FALSE
