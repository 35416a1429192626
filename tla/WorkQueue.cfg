SPECIFICATION FairSpec
CONSTANTS
  Bridges = {"codex", "action"}
  Items = {1, 2, 3}
  Waiting = {1, 2}
  Refused = {1}
  Limit = 2
  Runs = {1, 2}
  MaxDry = 1
  MaxCrash = 1
INVARIANTS TypeOK NothingLost ReportsAreTrue
PROPERTIES  ImplementsLedger 
CHECK_DEADLOCK FALSE
