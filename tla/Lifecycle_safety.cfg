SPECIFICATION Spec
CONSTANTS
  NMsgs = 2
  Slots = {c1, c2}
  None = None
  Classes = {"chat", "context", "task", "clear", "compact", "onwake"}
  MaxTries = 1
  Backoff <- MCBackoff
  ClaimStuck = 1
  Ceiling = 2
  MaxPrompt = 2
  MaxCrash = 2
  StopCanFail = FALSE
SYMMETRY Symmetry
INVARIANTS TypeOK SingleContainer ResetAlone HeldStaysClaimed
PROPERTY ImplementsLedger
