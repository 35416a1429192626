SPECIFICATION FairSpec
CONSTANTS
  NMsgs = 2
  Slots = {c1}
  None = None
  Classes = {"chat", "context"}
  MaxTries = 1
  Backoff <- MCBackoff
  ClaimStuck = 1
  Ceiling = 2
  MaxPrompt = 1
  MaxCrash = 1
  StopCanFail = FALSE
PROPERTY Settled
