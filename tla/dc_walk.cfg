CONSTANTS
  Issue <- FourIssues
  PageSize = 2
  PageOverlap = 1
  Began = 2
  DateEarly = 1
  DateLate = 1
  MaxClock = 5
SPECIFICATION FairSpec
INVARIANTS TypeOK NothingSteppedOver WalkIsComplete
PROPERTY WalkEnds
CHECK_DEADLOCK FALSE
