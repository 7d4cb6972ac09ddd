SPECIFICATION Spec
CONSTANTS
  NULL = NULL
  ReactionTime = {250}
  Absurd <- NextNumber

INVARIANT MessagesAreRead
INVARIANT ActionsSurviveTheWire

\* One text is carried.
CHECK_DEADLOCK FALSE
