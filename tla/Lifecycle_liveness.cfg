SPECIFICATION FairSpec
CONSTANTS
  NMsgs = 2
  Slots = {c1}
  None = None
  Classes = {"context", "task", "compact"}
  MaxTries = 1
  Backoff <- MCBackoff
  ClaimStuck = 1
  Ceiling = 2
  MaxPrompt = 2
  MaxCrash = 1
  StopCanFail = FALSE
PROPERTIES ClaimsResolve Settled
