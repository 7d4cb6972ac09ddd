------------------------------ MODULE Messages ------------------------------
(***************************************************************************)
(* The vocabulary the server's threads and the players exchange: the two   *)
(* seats of a room, the four buttons, the messages of                      *)
(* src/messages/PlayerActionMessages.h (player to server) and of           *)
(* src/messages/GameplayMessages.h (server to player).  A message is a     *)
(* record whose messageType names its class; nicknames and text are left   *)
(* out, no decision of the code depends on them.                           *)
(***************************************************************************)
EXTENDS Integers

CONSTANTS
  NULL,          \* std::nullopt
  ReactionTime   \* the values of timeToPress that clients report

Assignment == {"P1", "P2"}

GameplayInput == {"NORTH", "WEST", "EAST", "SOUTH"}

GameDifficulty == {"EASY", "MEDIUM", "HARD"}

(***************************************************************************)
(* timeToPress is an int of the client; std::nullopt is none of the values *)
(* an std::optional of the code holds.                                     *)
(***************************************************************************)
ASSUME NullAssumption ==
  /\ NULL \notin Assignment
  /\ NULL \notin GameplayInput
  /\ NULL \notin Int
  /\ ReactionTime \subseteq Int

-----------------------------------------------------------------------------
(* Player actions: the messages a room handles (JOIN_GAME and LEAVE_GAME   *)
(* are handled by the room manager, LEAVE_GAME by the room as well).       *)

JoinGame == [messageType: {"JOIN_GAME"}, gameDifficulty: GameDifficulty]

SetReadyState == [messageType: {"SET_READY_STATE"}, isReady: BOOLEAN]

NotifyCanPlay == [messageType: {"NOTIFY_CAN_PLAY"}]

PlayerInput == [messageType: {"PLAYER_INPUT"},
                inputPressed: GameplayInput,
                timeToPress: ReactionTime]

SetReplayReadyState == [messageType: {"SET_REPLAY_READY_STATE"},
                        isReadyToReplay: BOOLEAN]

LeaveGame == [messageType: {"LEAVE_GAME"}]

RoomActionMessage ==
  SetReadyState \cup NotifyCanPlay \cup PlayerInput
    \cup SetReplayReadyState \cup LeaveGame

PlayerActionMessage == RoomActionMessage \cup JoinGame

-----------------------------------------------------------------------------
(* Gameplay messages. *)

PlayerLobbyDTO == [assignment: Assignment, isReady: BOOLEAN]

PlayerGameResultDTO == [inputPressed: GameplayInput \cup {NULL},
                        timeToPress: ReactionTime \cup {NULL}]

GameResultDTO == [winningPlayer: Assignment \cup {NULL},
                  player: [Assignment -> PlayerGameResultDTO]]

GameOverType == {"GAME_OVER_EARLY_INPUT", "GAME_OVER_WRONG_INPUT",
                 "GAME_OVER_WIN", "GAME_OVER_DRAW"}

GameStartingType == {"ALL_READY_GAME_STARTING",
                     "ALL_REPLAY_READY_GAME_STARTING"}

RoomJoinedMessage ==
  [messageType: {"ROOM_JOINED"}, playerAssignment: Assignment,
   otherPlayer: PlayerLobbyDTO \cup {NULL}]

PlayerJoinedRoomMessage ==
  [messageType: {"PLAYER_JOINED_GAME"}, player: PlayerLobbyDTO]

PlayerLeftRoomMessage ==
  [messageType: {"PLAYER_LEFT_GAME"}, playerAssignment: Assignment]

PlayerReadyStateChangedMessage ==
  [messageType: {"PLAYER_READY_STATE_CHANGED"},
   playerAssignment: Assignment, isReady: BOOLEAN]

PlayerReplayReadyStateChangedMessage ==
  [messageType: {"PLAYER_REPLAY_READY_STATE_CHANGED"},
   playerAssignment: Assignment, isReadyToReplay: BOOLEAN]

GameStartingMessage == [messageType: GameStartingType]

GameExpectingInputMessage ==
  [messageType: {"GAME_EXPECTING_INPUT"}, expectedInput: GameplayInput]

GameOverMessage == [messageType: GameOverType, gameResult: GameResultDTO]

GameplayMessage ==
  RoomJoinedMessage \cup PlayerJoinedRoomMessage \cup PlayerLeftRoomMessage
    \cup PlayerReadyStateChangedMessage
    \cup PlayerReplayReadyStateChangedMessage
    \cup GameStartingMessage \cup GameExpectingInputMessage
    \cup GameOverMessage
=============================================================================
