SPECIFICATION RecoverySpec
CONSTANTS
  Issues = {1, 2}
  Primary = 2
  MaxCommit = 2
  Foreign = 9
  None = 8
  Finishers = {"finish"}
  Recoverers = {"recover"}
  Events = {"fail", "push", "commit", "void", "reopen", "dirty", "lock", "move", "primary"}
  MaxFaults = 2
INVARIANT TypeOK
INVARIANT MergedEvaluated
INVARIANT SuccessComplete
PROPERTY CleanupIsProven
PROPERTY Recovers
