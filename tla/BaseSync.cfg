SPECIFICATION FairSpec
CONSTANTS
  Commits = {0, 1, 2, 9}
  Root = 0
  Past <- MCPast
  Pin <- MCPin
  NoPin = "none"
  NoMerge = NoMerge
  Syncs = {s}
  Finishes = {f}
  Events = {"merge", "rewrite", "fetch", "edit", "commit", "fail"}
  MaxFaults = 1
INVARIANTS
  TypeOK
PROPERTIES
  ContractSpec
  Converges
CHECK_DEADLOCK FALSE
