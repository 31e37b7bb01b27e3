SPECIFICATION Spec
CONSTANTS
  Players = {p1, p2, p3}
  NoPlayer = NoPlayer
  MaxPlayers = 3
  MaxRounds = 2
  Expiration = 9
  MaxNow = 9
  Statements = {a, b}
  CountdownTime = 1
  WriteTime = 1
  VoteTime = 1
  RevealTime = 1
  CommentTime = 1
CONSTRAINT ThirdPlaysOneRound
SYMMETRY Symmetry
INVARIANTS
  TypeOK
  RoundsInOrder
  PresentedInOrder
  ScoresMatchVotes
  RankedByPoints
  ActiveClockRuns
PROPERTIES
  OnePhaseAtATime
  EmptyWritingIsFinal
  LivesItsLife
