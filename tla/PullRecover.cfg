SPECIFICATION FairSpec
CONSTANTS
  Issues = {1, 2}
  Primary = 2
  MaxCommit = 2
  Foreign = 9
  None = 8
  Finishers = {"finish"}
  Recoverers = {"recover"}
  Events = {"fail"}
  MaxFaults = 1
PROPERTY RecoverConverges
