SPECIFICATION FairSpec
CONSTANTS
  NULL = NULL
  PlayerId = {kirby, dedede}
  ReactionTime = {300}
  Difficulty = {"EASY"}
  ClientInput = {"SOUTH"}
  SecondsBeforeInputRequest = 1
  NoInputTimeout = 1
  OnePlayerInputOnlyTimeout = 1
  MaxAge = 2

PROPERTY RequestEnds
PROPERTY CountdownEnds
PROPERTY ReadyPlayersGetAGame
