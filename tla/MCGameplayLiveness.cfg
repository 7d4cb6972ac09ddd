SPECIFICATION FairSpec
CONSTANTS
  NULL = NULL
  GAMEPLAY = GAMEPLAY
  PlayerId = {kirby, dedede}
  Address = {a1}
  ReactionTime = {300}
  SecondsBeforeInputRequest = 0
  NoInputTimeout = 0
  OnePlayerInputOnlyTimeout = 0
  MaxAge = 1
  Difficulty = {"EASY"}
  ClientAction <- TurnReady
  Polite = TRUE
  MaxQueued = 2
  MaxJoins = 1

PROPERTY EveryoneIsServed
