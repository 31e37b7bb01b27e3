SPECIFICATION Spec
CONSTANTS
  Players = {p1, p2}
  NoPlayer = NoPlayer
  MaxPlayers = 2
  MaxRounds = 1
  Expiration = 3
  MaxNow = 3
  Statements = {a, b}
  CountdownTime = 1
  WriteTime = 1
  VoteTime = 1
  RevealTime = 1
  CommentTime = 1
SYMMETRY Symmetry
INVARIANTS
  TruthSetsTaken
