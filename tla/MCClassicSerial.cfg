SPECIFICATION SSpec
CONSTANTS
  Players = {p1, p2}
  NoPlayer = NoPlayer
  MaxPlayers = 2
  MaxRounds = 2
  WriteTime = 1
  VoteTime = 1
  Expiration = 1
  MaxNow = 2
  Workers = {w1}
  Ops = {"get", "join", "leave", "start", "pause", "next", "read", "story", "vote", "top"}
  MaxRequests = 1
  Postgres = FALSE
  MaxStories = 2
  MaxVotes = 1
CONSTRAINT FewBallots
SYMMETRY Symmetry
PROPERTIES
  ImplementsRoom
