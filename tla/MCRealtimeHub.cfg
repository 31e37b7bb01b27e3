SPECIFICATION FairSpec
CONSTANTS
  Clients = {c1, c2}
  Early = {c1}
  Requests = {r1}
  Poll = poll
  Capacity = 4
  MaxVersion = 1
  MaxWork = 2
  PhaseOf <- Phases
  Presenting = {1}
  Revealing = {0}
  ThreeLies = TRUE
INVARIANTS HubTypeOK ClosedOnce AnnouncedToAll
PROPERTY WorkEnds
CHECK_DEADLOCK FALSE
