SPECIFICATION SSpec
CONSTANTS
  Players = {p1, p2}
  NoPlayer = NoPlayer
  MaxPlayers = 2
  MaxRounds = 2
  Expiration = 9
  MaxNow = 10
  Statements = {a, b}
  CountdownTime = 1
  WriteTime = 1
  VoteTime = 1
  RevealTime = 1
  CommentTime = 1
  Workers = {w1, w2}
  MaxRequests = 2
CONSTRAINTS Brisk OneTruth InPlay Finale Meant
SYMMETRY Symmetry
INVARIANTS
  WithinReach
