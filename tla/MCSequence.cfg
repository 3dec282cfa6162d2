SPECIFICATION Spec
CONSTANTS
  Unbounded = Unbounded
  MaxWord = 5
  Programs <- InstancePrograms
INVARIANTS
  TypeOK
  NoStateLost
  MatchesGrammar
  FrontierDisjoint
  CodesMeanWhatTheySay
CHECK_DEADLOCK FALSE
