SPECIFICATION CSpec
CONSTANTS
  Players = {p1, p2, p3, p4}
  NoPlayer = NoPlayer
  MaxPlayers = 2
  MaxRounds = 2
  WriteTime = 1
  VoteTime = 1
  Expiration = 1
  MaxNow = 1
  Workers = {w1, w2}
  Ops = {"start", "next", "join", "story"}
  MaxRequests = 5
  Postgres = TRUE
  MaxStories = 3
  MaxVotes = 0
CONSTRAINTS FewBallots LongOrWide
SYMMETRY Symmetry
INVARIANTS
  CTypeOK
  RoundsChain
  OvershootBounded
  StoriesBounded
PROPERTIES
  CurrentNeverFallsBack
