SPECIFICATION FairSpec
CONSTANTS
  NULL = NULL
  PlayerId = {kirby, dedede}
  Pieces = 2
  Roomy = {kirby}
  MaxDescriptors = 3
  Blank <- Nothing
  Shown <- Append
  Text = {"SET_READY_STATE", "NOTIFY_CAN_PLAY"}
  MaxSaid = 2
  MaxPublished = 2
  MaxTraffic = 2

INVARIANT TypeOK
INVARIANT CallbacksAreOfClients
INVARIANT MessagesArriveInOrder
INVARIANT ActionsWereSaid
PROPERTY KeepsSessions
PROPERTY DepartureIsNoticed
PROPERTY EveryClientIsServed

\* The process may be killed.
CHECK_DEADLOCK FALSE
