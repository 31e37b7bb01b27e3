SPECIFICATION Spec
CONSTANTS
  Players = {p1, p2, p3}
  NoPlayer = NoPlayer
  MaxPlayers = 3
  MaxRounds = 2
  WriteTime = 1
  VoteTime = 1
  Expiration = 2
  MaxNow = 3
CONSTRAINTS ThirdPlaysOneRound FewBallots
SYMMETRY Symmetry
VIEW ButStamps
INVARIANTS
  TypeOK
  RoundsInOrder
  StatusMatchesProgress
  ActiveClockRuns
  OneBallotEach
  MarkedStoryWins
PROPERTIES
  PhaseNeverRegresses
  PauseHolds
  ExpiredIsDead
  BallotsInPhase
  LivesItsLife
