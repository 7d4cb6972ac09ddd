SPECIFICATION ServerSpec
CONSTANTS
  NULL = NULL
  GAMEPLAY = GAMEPLAY
  PlayerId = {kirby, dedede}
  Address = {a1, a2}
  ReactionTime = {300}
  SecondsBeforeInputRequest = 0
  NoInputTimeout = 0
  OnePlayerInputOnlyTimeout = 0
  MaxAge = 1
  Difficulty = {"EASY"}
  ClientAction <- TurnReady
  Polite = TRUE
  MaxQueued = 5
  MaxJoins = 2
  MaxDescriptors = 3
  MaxSaid = 5
  MaxGone = 0

SYMMETRY Alike

INVARIANT ClientsGetWhatTheyAsked
INVARIANT ScreensFollowRooms

