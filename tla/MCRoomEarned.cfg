SPECIFICATION Spec
CONSTANTS
  NULL = NULL
  PlayerId = {kirby, dedede}
  ReactionTime = {300}
  Difficulty = {"MEDIUM"}
  ClientInput = {"SOUTH", "EAST"}
  SecondsBeforeInputRequest = 1
  NoInputTimeout = 2
  OnePlayerInputOnlyTimeout = 1
  MaxAge = 3

SYMMETRY AnyPlayer

INVARIANT WinsAreEarned
