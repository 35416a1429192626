SPECIFICATION Spec
CONSTANTS
  Questions = {q}
  Requests = {r}
  Credentials = {g}
  MaxTries = 2
  MaxCards = 1
  MaxJobs = 2
  MaxCrash = 1
INVARIANT RejectedWasPressed
CHECK_DEADLOCK FALSE
