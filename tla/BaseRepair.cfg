SPECIFICATION FairSpec
CONSTANTS
  Commits = {0, 1, 2, 9}
  Root = 0
  Past <- MCPast
  Pin <- MCPin
  NoPin = "none"
  NoMerge = NoMerge
  Syncs = {s}
  Finishes = {}
  Events = {"merge", "fetch"}
  MaxFaults = 0
PROPERTIES
  Repairs
CHECK_DEADLOCK FALSE
