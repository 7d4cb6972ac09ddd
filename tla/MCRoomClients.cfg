SPECIFICATION ClientsSpec
CONSTANTS
  NULL = NULL
  PlayerId = {kirby, dedede}
  ReactionTime = {300}
  Difficulty = {"EASY"}
  ClientInput = {"SOUTH", "EAST"}
  SecondsBeforeInputRequest = 1
  NoInputTimeout = 2
  OnePlayerInputOnlyTimeout = 1
  MaxAge = 3

SYMMETRY AnyPlayer

INVARIANT TypeOK
INVARIANT TickNeverThrows
INVARIANT TimersBelongToTheGame
INVARIANT InputsBelongToTheGame
INVARIANT ClientsFollowRoom
INVARIANT VerdictIsJustified
PROPERTY OneVerdictPerGame
PROPERTY RoomIsAMatch
