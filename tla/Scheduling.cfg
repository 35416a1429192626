SPECIFICATION FairSpec
CONSTANTS
  Rows = {o1, o2, o3}
  MaxAsks = 1
  MaxCrash = 1
INVARIANTS TypeOK NoFork
PROPERTIES CancelEnds GoesOn PauseHolds RestLasts Followed
