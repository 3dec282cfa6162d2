SPECIFICATION FairResumeSpec
CONSTANTS
  p = p
  q = q
  Runners = {p, q}
  Lease = 1
  Horizon = 1
  MaxCommits = 3
  Allowed <- Commands
  Humans = {}
PROPERTIES
  WorkKept
  LabelHeldUntilRenewed
  ResumeConverges
  SyncConverges
CHECK_DEADLOCK FALSE
