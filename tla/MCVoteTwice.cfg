SPECIFICATION CSpec
CONSTANTS
  Players = {p1, p2}
  NoPlayer = NoPlayer
  MaxPlayers = 2
  MaxRounds = 1
  WriteTime = 1
  VoteTime = 1
  Expiration = 1
  MaxNow = 0
  Workers = {w1, w2}
  Ops = {"vote"}
  MaxRequests = 2
  Postgres = FALSE
  MaxStories = 2
  MaxVotes = 2
CONSTRAINT FewBallots
SYMMETRY Symmetry
INVARIANTS
  OneVoteEach
