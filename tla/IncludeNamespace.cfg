SPECIFICATION Spec
CONSTANTS
  Namespaces = {m}
  NoNS = NoNS
  MaxDocs = 3
  MaxEdges = 3
  References <- AllReferences
INVARIANTS
  IncludesShareNamespace
CHECK_DEADLOCK FALSE
