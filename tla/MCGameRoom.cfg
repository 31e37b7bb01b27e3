SPECIFICATION FairSpec
CONSTANTS
  Players = {p1, p2}
  NoPlayer = NoPlayer
  MaxPlayers = 2
  ClassicRounds = 1
  ThreeLiesRounds = 2
  WriteTime = 1
  VoteTime = 1
  Expiration = 5
  MaxNow = 6
  Statements = {a}
  CountdownTime = 1
  RevealTime = 1
  CommentTime = 1
PROPERTIES
  PhaseEventuallyEnds
  RoomEventuallyOver
VIEW ButStamps
