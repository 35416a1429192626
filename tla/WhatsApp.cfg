SPECIFICATION FairSpec
CONSTANTS
  Texts = {s, t, u}
  MaxOpens = 4
  MaxCrash = 2
INVARIANTS TypeOK ShownAtMostTwice LossesAreBounded StrandedByFailure
PROPERTY QueuedLeaves
CHECK_DEADLOCK FALSE
