SPECIFICATION Spec
CONSTANTS
  NULL = NULL
  GAMEPLAY = GAMEPLAY
  PlayerId = {kirby, dedede}
  Address = {a1, a2}
  ReactionTime = {300}
  SecondsBeforeInputRequest = 0
  NoInputTimeout = 0
  OnePlayerInputOnlyTimeout = 0
  MaxAge = 1
  Difficulty = {"EASY", "MEDIUM"}
  ClientAction <- TurnReady
  Polite = TRUE
  MaxQueued = 2
  MaxJoins = 3

SYMMETRY Alike

INVARIANT TypeOK
INVARIANT SeatsAreReachable
INVARIANT OneSeatPerPlayer
INVARIANT NoOrphanRoom
INVARIANT MatchedByDifficulty
INVARIANT NothingForTheAbsent
PROPERTY NewcomersAreMatched
PROPERTY ActionsStayHome
PROPERTY DisconnectFreesSeats
