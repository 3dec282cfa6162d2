SPECIFICATION Spec
CONSTANTS
  Runners = {p, q}
  Lease = 1
  Horizon = 2
  MaxCommits = 2
  Allowed <- PullCommands
  Humans = {"hand off", "triage", "close", "dismiss"}
PROPERTIES
  PullsPreserved
CHECK_DEADLOCK FALSE
