SPECIFICATION Spec
CONSTANTS
  Clients = {c1, c2}
  Early = {c1}
  Requests = {}
  Poll = poll
  Capacity = 8
  MaxVersion = 1
  MaxWork = 2
  PhaseOf <- Phases
  Presenting = {}
  Revealing = {}
  ThreeLies = FALSE
INVARIANT InSync
CHECK_DEADLOCK FALSE
