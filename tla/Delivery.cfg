SPECIFICATION FairSpec
CONSTANTS
  Sessions = {s1, s2}
  NMsgs = 2
  None = None
  Kinds = {"sent", "barred", "unbridged"}
  MaxAttempts = 2
  MaxLost = 1
  MaxCrash = 1
INVARIANT TypeOK
PROPERTIES ImplementsOutbox InOrder Resolved
