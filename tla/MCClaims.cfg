SPECIFICATION Spec
CONSTANTS
  Runners = {p, q}
  Lease = 1
  Horizon = 2
  MaxCommits = 3
  Allowed <- ClaimCommands
  Humans = {"dismiss"}
INVARIANTS
  TypeOK
  GrantsExclusive
  PublishedPreserved
PROPERTIES
  LockSpec
SYMMETRY RunnerSymmetry
CHECK_DEADLOCK FALSE
