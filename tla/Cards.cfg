SPECIFICATION FairSpec
CONSTANTS
  Questions = {q}
  Requests = {r}
  Credentials = {g}
  MaxTries = 2
  MaxJobs = 2
  MaxCards = 1
  MaxCrash = 2
INVARIANTS TypeOK ClickIsHeard AnswersWereGiven GrantsWereGiven NothingForgotten NoOrphanRow
PROPERTY CredentialsSettle
CHECK_DEADLOCK FALSE
