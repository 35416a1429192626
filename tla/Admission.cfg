SPECIFICATION Spec
CONSTANTS
  Messages = {1, 2}
  Senders = {u, v}
  Known = {v}
  Agents = {1, 2}
  Calls = {c, d}
  MaxCrash = 1
INVARIANTS TypeOK ReplayArrives
PROPERTIES ImplementsGate DeniedStaysQuiet
CHECK_DEADLOCK FALSE
SYMMETRY CallSymmetry
