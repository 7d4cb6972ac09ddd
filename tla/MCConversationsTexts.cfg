SPECIFICATION Spec
CONSTANTS
  NULL = NULL
  PlayerId = {kirby}
  Pieces = 1
  Roomy = {kirby}
  MaxDescriptors = 1
  Blank <- Nothing
  Shown <- Append
  Text = {"SET_READY_STATE", "NOTIFY_CAN_PLAY"}
  MaxSaid = 2
  MaxPublished = 1
  MaxTraffic = 3

PROPERTY EveryTextIsDeserialized

CHECK_DEADLOCK FALSE
