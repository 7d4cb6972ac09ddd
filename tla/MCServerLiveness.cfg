SPECIFICATION FairServerSpec
CONSTANTS
  NULL = NULL
  GAMEPLAY = GAMEPLAY
  PlayerId = {kirby, dedede}
  Address = {a1}
  ReactionTime = {300}
  SecondsBeforeInputRequest = 0
  NoInputTimeout = 0
  OnePlayerInputOnlyTimeout = 0
  MaxAge = 1
  Difficulty = {"EASY"}
  ClientAction <- TurnReady
  Polite = TRUE
  MaxQueued = 5
  MaxJoins = 1
  MaxDescriptors = 3
  MaxSaid = 1
  MaxGone = 1

PROPERTY JoinIsAnswered

\* The process may be killed.
CHECK_DEADLOCK FALSE
