SPECIFICATION CSpec
CONSTANTS
  Players = {p1, p2}
  NoPlayer = NoPlayer
  MaxPlayers = 2
  MaxRounds = 1
  WriteTime = 1
  VoteTime = 1
  Expiration = 1
  MaxNow = 1
  Workers = {w1, w2}
  Ops = {"leave", "start"}
  MaxRequests = 2
  Postgres = FALSE
  MaxStories = 9
  MaxVotes = 9
CONSTRAINT FewBallots
SYMMETRY Symmetry
INVARIANTS
  HostGoneRoomOver
