SPECIFICATION Spec
CONSTANTS
  Duration = 1
  Tolerance = 1
  FailureLimit = 1
  Controllers = {c1, c2}
  Runs = {r1, r2}
  Views <- MCViews
  Skews <- MCSkews
  Horizon = 1
  MaxComments = 4
  MaxEdits = 1
SYMMETRY Symmetry
CONSTRAINT OneChange
INVARIANT TypeOK
INVARIANT OneIssuedOutstanding
INVARIANT RecordedStands
INVARIANT AuthorityEarned
INVARIANT HandoffIsFinal
INVARIANT ReadableUnlessSpoilt
CHECK_DEADLOCK FALSE
