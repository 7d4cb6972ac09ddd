---------------------------- MODULE RoomHandlers ----------------------------
(***************************************************************************)
(* A room (src/gameplay/Room/Room.cpp) and the operations on it, each as   *)
(* an operator from the room before the call to the room after it.  Only   *)
(* the game thread touches rooms, one call at a time, so a call is one     *)
(* step; modules that own rooms turn these operators into actions.         *)
(*                                                                         *)
(* Time.  A time point is stored as its age: GetTimeNow is 0 and Elapse    *)
(* makes every age grow.  One unit is any granule of the clock and the     *)
(* three limits are given in it.                                           *)
(*                                                                         *)
(* Output.  published is the sequence of messages the current call has     *)
(* handed to GameplayMessageBroker::publishGameplayMessage, with their     *)
(* addressee; Begin empties it before the next call.                       *)
(***************************************************************************)
EXTENDS Messages, Sequences

CONSTANTS
  PlayerId,                    \* ids of connected clients
  SecondsBeforeInputRequest,   \* RoomConfig::secondsBeforeInputRequest
  NoInputTimeout,              \* RoomConfig::noInputTimeout
  OnePlayerInputOnlyTimeout,   \* RoomConfig::onePlayerInputOnlyTimeout
  MaxAge                       \* bound: ages stop growing here

(***************************************************************************)
(* RoomConfig's limits are non-negative; an age stops growing only once it *)
(* is past every limit it is compared with.                                *)
(***************************************************************************)
ASSUME ConfigAssumption ==
  /\ SecondsBeforeInputRequest \in Nat
  /\ NoInputTimeout \in Nat
  /\ OnePlayerInputOnlyTimeout \in Nat
  /\ MaxAge \in Nat
  /\ MaxAge > SecondsBeforeInputRequest
  /\ MaxAge > NoInputTimeout
  /\ MaxAge > OnePlayerInputOnlyTimeout

Age == 0..MaxAge

GameplayState == {"WAITING_PLAYERS", "STARTED", "EXPECTING_INPUT", "OVER"}

Player == [id: PlayerId,
           isReady: BOOLEAN,
           canPlay: BOOLEAN,
           isReadyToReplay: BOOLEAN,
           inputPressed: GameplayInput \cup {NULL},
           timeToPress: ReactionTime \cup {NULL},
           inputPressedAtServerTime: Age \cup {NULL}]

Published == [to: PlayerId, message: GameplayMessage]

RoomState == [difficulty: GameDifficulty,
              gameplayState: GameplayState,
              players: [Assignment -> Player \cup {NULL}],
              expectedInput: GameplayInput,
              everyoneCanPlayAt: Age \cup {NULL},
              readyForInputAt: Age \cup {NULL},
              published: Seq(Published)]

ASSUME NoPlayerAssumption == NULL \notin Player

(* The zero value of the enum, what expectedInput = {} stores. *)
NoExpectedInput == "NORTH"

NewRoom(difficulty) ==
  [difficulty |-> difficulty,
   gameplayState |-> "WAITING_PLAYERS",
   players |-> [a \in Assignment |-> NULL],
   expectedInput |-> NoExpectedInput,
   everyoneCanPlayAt |-> NULL,
   readyForInputAt |-> NULL,
   published |-> << >>]

NewPlayer(id) ==
  [id |-> id, isReady |-> FALSE, canPlay |-> FALSE, isReadyToReplay |-> FALSE,
   inputPressed |-> NULL, timeToPress |-> NULL,
   inputPressedAtServerTime |-> NULL]

Begin(room) == [room EXCEPT !.published = << >>]

-----------------------------------------------------------------------------
(* Time *)

GetTimeNow == 0

GetSecondsSince(timePoint) == timePoint

-----------------------------------------------------------------------------
(* Queries *)

OtherAssignment(a) == IF a = "P1" THEN "P2" ELSE "P1"

IsSeated(room, a) == room.players[a] # NULL

IsFull(room) == \A a \in Assignment : IsSeated(room, a)

IsEmpty(room) == \A a \in Assignment : ~ IsSeated(room, a)

IsEveryoneReady(room) ==
  IsFull(room) /\ \A a \in Assignment : room.players[a].isReady

EveryoneCanPlay(room) ==
  IsFull(room) /\ \A a \in Assignment : room.players[a].canPlay

HasPlayed(room, a) == room.players[a].inputPressed # NULL

EveryonePlayed(room) ==
  IsFull(room) /\ \A a \in Assignment : HasPlayed(room, a)

NoOnePlayed(room) ==
  IsFull(room) /\ \A a \in Assignment : ~ HasPlayed(room, a)

EveryoneWantsToReplay(room) ==
  IsFull(room) /\ \A a \in Assignment : room.players[a].isReadyToReplay

SeatsOf(room, id) ==
  {a \in Assignment : IsSeated(room, a) /\ room.players[a].id = id}

HasPlayerWithId(room, id) == SeatsOf(room, id) # {}

(* The seat of the player a message is for: P1 is looked at first. *)
GetPlayerById(room, id) == IF "P1" \in SeatsOf(room, id) THEN "P1" ELSE "P2"

(* The seat a newcomer gets in a room that is not full. *)
GetAvailableAssignment(room) == IF IsSeated(room, "P1") THEN "P2" ELSE "P1"

(* The buttons a game may ask for. *)
GetRandomGameplayInput(difficulty) ==
  CASE difficulty = "EASY"   -> {"SOUTH"}
    [] difficulty = "MEDIUM" -> {"SOUTH", "EAST"}
    [] difficulty = "HARD"   -> GameplayInput

-----------------------------------------------------------------------------
(* Output *)

Publish(room, id, message) ==
  [room EXCEPT !.published = Append(@, [to |-> id, message |-> message])]

PublishToSeat(room, a, message) ==
  IF IsSeated(room, a) THEN Publish(room, room.players[a].id, message)
                       ELSE room

(* Mutation: "else if" for the second seat. *)
BroadcastToFirstSeated(room, message) ==
  PublishToSeat(room, IF IsSeated(room, "P1") THEN "P1" ELSE "P2", message)

BroadcastGameplayMessage(room, message) ==
  PublishToSeat(PublishToSeat(room, "P1", message), "P2", message)

BuildLobbyDTO(room, a) ==
  [assignment |-> a, isReady |-> room.players[a].isReady]

BuildGameResultDTO(room, winner) ==
  [winningPlayer |-> winner,
   player |-> [a \in Assignment |->
                 [inputPressed |-> room.players[a].inputPressed,
                  timeToPress |-> room.players[a].timeToPress]]]

GameOver(room, type, winner) ==
  BroadcastGameplayMessage(
    [room EXCEPT !.gameplayState = "OVER"],
    [messageType |-> type, gameResult |-> BuildGameResultDTO(room, winner)])

-----------------------------------------------------------------------------
(* tick() and the handlers it runs *)

HandleEveryoneReady(room) ==
  IF room.gameplayState # "WAITING_PLAYERS" \/ ~ IsEveryoneReady(room)
    THEN room
    ELSE BroadcastGameplayMessage(
           [room EXCEPT !.gameplayState = "STARTED"],
           [messageType |-> "ALL_READY_GAME_STARTING"])

(* Mutation: the countdown starts again at every tick. *)
RestartCountdown(room) == [room EXCEPT !.everyoneCanPlayAt = GetTimeNow]

(* everyoneCanPlayAt = getTimeNow(), the first time everyone can play. *)
StartCountdown(room) ==
  IF room.everyoneCanPlayAt # NULL
    THEN room
    ELSE [room EXCEPT !.everyoneCanPlayAt = GetTimeNow]

RequestInput(room, input) ==
  BroadcastGameplayMessage(
    [room EXCEPT !.gameplayState = "EXPECTING_INPUT",
                 !.readyForInputAt = GetTimeNow,
                 !.expectedInput = input],
    [messageType |-> "GAME_EXPECTING_INPUT", expectedInput |-> input])

HandleEveryoneCanPlay(room, input) ==
  IF room.gameplayState # "STARTED" \/ ~ EveryoneCanPlay(room)
    THEN room
    ELSE LET counting == StartCountdown(room)
         IN IF GetSecondsSince(counting.everyoneCanPlayAt)
                 >= SecondsBeforeInputRequest
              THEN RequestInput(counting, input)
              ELSE counting

(* Mutation: the grace period counts from the request, not from the press. *)
HandleOnePlayerPlayedSinceRequest(room) ==
  IF \/ room.gameplayState # "EXPECTING_INPUT"
     \/ EveryonePlayed(room)
     \/ NoOnePlayed(room)
    THEN room
    ELSE LET whoPlayed == IF HasPlayed(room, "P1") THEN "P1" ELSE "P2"
         IN IF room.players[whoPlayed].inputPressed # room.expectedInput
              THEN GameOver(room, "GAME_OVER_WRONG_INPUT",
                            OtherAssignment(whoPlayed))
            ELSE IF GetSecondsSince(room.readyForInputAt)
                      >= OnePlayerInputOnlyTimeout
              THEN GameOver(room, "GAME_OVER_WIN", whoPlayed)
            ELSE room

HandleOnePlayerPlayed(room) ==
  IF \/ room.gameplayState \notin {"STARTED", "EXPECTING_INPUT"}
     \/ EveryonePlayed(room)
     \/ NoOnePlayed(room)
    THEN room
    ELSE LET whoPlayed == IF HasPlayed(room, "P1") THEN "P1" ELSE "P2"
             whoDidNotPlay == OtherAssignment(whoPlayed)
             played == room.players[whoPlayed]
         IN IF room.gameplayState # "EXPECTING_INPUT"
              THEN GameOver(room, "GAME_OVER_EARLY_INPUT", whoDidNotPlay)
            ELSE IF played.inputPressed # room.expectedInput
              THEN GameOver(room, "GAME_OVER_WRONG_INPUT", whoDidNotPlay)
            ELSE IF GetSecondsSince(played.inputPressedAtServerTime)
                      >= OnePlayerInputOnlyTimeout
              THEN GameOver(room, "GAME_OVER_WIN", whoPlayed)
            ELSE room

(* Mutation: two presses at the same instant are forgotten. *)
HandleEveryonePlayedWithoutDraw(room) ==
  IF room.gameplayState # "EXPECTING_INPUT" \/ ~ EveryonePlayed(room)
    THEN room
    ELSE LET PressedAt(a) ==
               GetSecondsSince(room.players[a].inputPressedAtServerTime)
         IN CASE PressedAt("P1") > PressedAt("P2") ->
                   GameOver(room, "GAME_OVER_WIN", "P1")
              [] PressedAt("P2") > PressedAt("P1") ->
                   GameOver(room, "GAME_OVER_WIN", "P2")
              [] OTHER -> room

HandleEveryonePlayed(room) ==
  IF room.gameplayState # "EXPECTING_INPUT" \/ ~ EveryonePlayed(room)
    THEN room
    ELSE LET PressedAt(a) ==
               GetSecondsSince(room.players[a].inputPressedAtServerTime)
         IN CASE PressedAt("P1") > PressedAt("P2") ->
                   GameOver(room, "GAME_OVER_WIN", "P1")
              [] PressedAt("P2") > PressedAt("P1") ->
                   GameOver(room, "GAME_OVER_WIN", "P2")
              [] OTHER -> GameOver(room, "GAME_OVER_DRAW", NULL)

(* Mutation: the state stays EXPECTING_INPUT after the draw. *)
HandleTimeoutWithoutOver(room) ==
  IF /\ room.gameplayState = "EXPECTING_INPUT"
     /\ NoOnePlayed(room)
     /\ GetSecondsSince(room.readyForInputAt) >= NoInputTimeout
    THEN BroadcastGameplayMessage(
           room, [messageType |-> "GAME_OVER_DRAW",
                  gameResult |-> BuildGameResultDTO(room, NULL)])
    ELSE room

HandleTimeout(room) ==
  IF /\ room.gameplayState = "EXPECTING_INPUT"
     /\ NoOnePlayed(room)
     /\ GetSecondsSince(room.readyForInputAt) >= NoInputTimeout
    THEN GameOver(room, "GAME_OVER_DRAW", NULL)
    ELSE room

(* Mutation: the button of the last game is kept. *)
ResetToReplayKeepingInput(player) ==
  [player EXCEPT !.isReady = TRUE,
                 !.canPlay = FALSE,
                 !.isReadyToReplay = FALSE,
                 !.timeToPress = NULL]

ResetToReplay(player) ==
  [player EXCEPT !.isReady = TRUE,
                 !.canPlay = FALSE,
                 !.isReadyToReplay = FALSE,
                 !.inputPressed = NULL,
                 !.timeToPress = NULL]

ResetPlayers(room) ==
  [a \in Assignment |-> IF IsSeated(room, a) THEN ResetToReplay(room.players[a])
                                             ELSE NULL]

(* Mutation: the countdown of the last game is kept. *)
ResetRoundKeepingCountdown(room) ==
  [room EXCEPT !.players = ResetPlayers(room),
               !.expectedInput = NoExpectedInput,
               !.readyForInputAt = NULL]

(* Mutation: expectedInput is taken for an optional. *)
ResetRoundToNoInput(room) ==
  [room EXCEPT !.players = ResetPlayers(room),
               !.expectedInput = NULL,
               !.everyoneCanPlayAt = NULL,
               !.readyForInputAt = NULL]

(* The reset that handleReplay and removePlayer share. *)
ResetRound(room) ==
  [room EXCEPT !.players = ResetPlayers(room),
               !.expectedInput = NoExpectedInput,
               !.everyoneCanPlayAt = NULL,
               !.readyForInputAt = NULL]

(* Mutation: the players are not told that the rematch begins. *)
HandleReplaySilently(room) ==
  IF room.gameplayState # "OVER" \/ ~ EveryoneWantsToReplay(room)
    THEN room
    ELSE [ResetRound(room) EXCEPT !.gameplayState = "STARTED"]

HandleReplay(room) ==
  IF room.gameplayState # "OVER" \/ ~ EveryoneWantsToReplay(room)
    THEN room
    ELSE BroadcastGameplayMessage(
           [ResetRound(room) EXCEPT !.gameplayState = "STARTED"],
           [messageType |-> "ALL_REPLAY_READY_GAME_STARTING"])

(* Mutation: no case for OVER. *)
TickWithoutReplay(room, input) ==
  CASE room.gameplayState = "WAITING_PLAYERS" -> HandleEveryoneReady(room)
    [] room.gameplayState = "STARTED" ->
         HandleOnePlayerPlayed(HandleEveryoneCanPlay(room, input))
    [] room.gameplayState = "EXPECTING_INPUT" ->
         HandleTimeout(HandleEveryonePlayed(HandleOnePlayerPlayed(room)))
    [] OTHER -> room

(* input is the button getRandomGameplayInput draws if the tick asks for it. *)
Tick(room, input) ==
  CASE room.gameplayState = "WAITING_PLAYERS" -> HandleEveryoneReady(room)
    [] room.gameplayState = "STARTED" ->
         HandleOnePlayerPlayed(HandleEveryoneCanPlay(room, input))
    [] room.gameplayState = "EXPECTING_INPUT" ->
         HandleTimeout(HandleEveryonePlayed(HandleOnePlayerPlayed(room)))
    [] room.gameplayState = "OVER" -> HandleReplay(room)

-----------------------------------------------------------------------------
(* Joining and leaving *)

AddPlayer(room, id) ==
  IF IsFull(room)
    THEN room
    ELSE LET a == GetAvailableAssignment(room)
             other == OtherAssignment(a)
             seated == [room EXCEPT !.players[a] = NewPlayer(id)]
             otherDTO == IF IsSeated(room, other)
                           THEN BuildLobbyDTO(room, other) ELSE NULL
             joined == Publish(seated, id, [messageType |-> "ROOM_JOINED",
                                            playerAssignment |-> a,
                                            otherPlayer |-> otherDTO])
         IN PublishToSeat(joined, other,
                          [messageType |-> "PLAYER_JOINED_GAME",
                           player |-> BuildLobbyDTO(seated, a)])

(* Mutation: the game goes on without the player. *)
RemovePlayerMidGame(room, id) ==
  IF ~ HasPlayerWithId(room, id)
    THEN room
    ELSE LET a == GetPlayerById(room, id)
         IN BroadcastGameplayMessage(
              [ResetRound(room) EXCEPT !.players[a] = NULL],
              [messageType |-> "PLAYER_LEFT_GAME", playerAssignment |-> a])

(* Mutation: the departure is told before the seat is emptied. *)
RemovePlayerTellingIt(room, id) ==
  IF ~ HasPlayerWithId(room, id)
    THEN room
    ELSE LET a == GetPlayerById(room, id)
         IN [BroadcastGameplayMessage(
               ResetRound(room),
               [messageType |-> "PLAYER_LEFT_GAME", playerAssignment |-> a])
             EXCEPT !.players[a] = NULL,
                    !.gameplayState = "WAITING_PLAYERS"]

RemovePlayer(room, id) ==
  IF ~ HasPlayerWithId(room, id)
    THEN room
    ELSE LET a == GetPlayerById(room, id)
         IN BroadcastGameplayMessage(
              [ResetRound(room) EXCEPT !.players[a] = NULL,
                                       !.gameplayState = "WAITING_PLAYERS"],
              [messageType |-> "PLAYER_LEFT_GAME", playerAssignment |-> a])

-----------------------------------------------------------------------------
(* handlePlayerMessage and the handlers it runs; a is the seat of the player *)

HandlePlayerSetReadyStateMessage(room, a, message) ==
  IF room.gameplayState # "WAITING_PLAYERS"
    THEN room
    ELSE BroadcastGameplayMessage(
           [room EXCEPT !.players[a].isReady = message.isReady],
           [messageType |-> "PLAYER_READY_STATE_CHANGED",
            playerAssignment |-> a, isReady |-> message.isReady])

HandlePlayerNotifyCanPlayMessage(room, a) ==
  [room EXCEPT !.players[a].canPlay = TRUE]

HandlePlayerInputMessage(room, a, message) ==
  [room EXCEPT !.players[a].inputPressed = message.inputPressed,
               !.players[a].timeToPress = message.timeToPress,
               !.players[a].inputPressedAtServerTime = GetTimeNow]

HandlePlayerSetReplayReadyStateMessage(room, a, message) ==
  BroadcastGameplayMessage(
    [room EXCEPT !.players[a].isReadyToReplay = message.isReadyToReplay],
    [messageType |-> "PLAYER_REPLAY_READY_STATE_CHANGED",
     playerAssignment |-> a, isReadyToReplay |-> message.isReadyToReplay])

(* Mutation: whoever holds a callback of the room speaks for its player. *)
HandleAnyoneMessage(room, id, message) ==
  IF IsEmpty(room) \/ message.messageType # "SET_READY_STATE"
    THEN room
    ELSE HandlePlayerSetReadyStateMessage(
           room, IF IsSeated(room, "P1") THEN "P1" ELSE "P2", message)

HandlePlayerMessage(room, id, message) ==
  IF ~ HasPlayerWithId(room, id)
    THEN room
    ELSE LET a == GetPlayerById(room, id)
             type == message.messageType
         IN CASE type = "SET_READY_STATE" ->
                   HandlePlayerSetReadyStateMessage(room, a, message)
              [] type = "NOTIFY_CAN_PLAY" ->
                   HandlePlayerNotifyCanPlayMessage(room, a)
              [] type = "PLAYER_INPUT" ->
                   HandlePlayerInputMessage(room, a, message)
              [] type = "SET_REPLAY_READY_STATE" ->
                   HandlePlayerSetReplayReadyStateMessage(room, a, message)
              [] type = "LEAVE_GAME" -> RemovePlayer(room, id)
              [] OTHER -> room

-----------------------------------------------------------------------------
(* Elapse: one granule of time passes.  Ages saturate at MaxAge, past every  *)
(* limit; the later of two presses stops one short of it, so that which of   *)
(* two presses came first is never forgotten.                                *)

Older(age) == IF age = NULL \/ age = MaxAge THEN age ELSE age + 1

PressedLater(room, a) ==
  /\ IsFull(room)
  /\ LET mine == room.players[a].inputPressedAtServerTime
         theirs == room.players[OtherAssignment(a)].inputPressedAtServerTime
     IN mine # NULL /\ theirs # NULL /\ mine < theirs

OlderPress(room, a) ==
  LET pressed == room.players[a].inputPressedAtServerTime
  IN IF PressedLater(room, a) /\ pressed = MaxAge - 1 THEN pressed
                                                      ELSE Older(pressed)

Elapse(room) ==
  [room EXCEPT
     !.everyoneCanPlayAt = Older(@),
     !.readyForInputAt = Older(@),
     !.players = [a \in Assignment |->
                    IF IsSeated(room, a)
                      THEN [room.players[a] EXCEPT !.inputPressedAtServerTime =
                                                     OlderPress(room, a)]
                      ELSE NULL]]

-----------------------------------------------------------------------------
(* What may be said of a room *)

(* The messages of the last call, whoever they are for. *)
Outbox(r) == {r.published[i].message : i \in DOMAIN r.published}

(* Every optional that tick() takes the value of holds one. *)
ValuesAreHeld(r) ==
  /\ r.gameplayState # "WAITING_PLAYERS" => IsFull(r)
  /\ r.gameplayState = "EXPECTING_INPUT" => r.readyForInputAt # NULL
  /\ \A a \in Assignment :
       IsSeated(r, a) /\ HasPlayed(r, a) =>
         r.players[a].inputPressedAtServerTime # NULL

(* The timers of a room run only in the part of a game they time. *)
TimersFit(r) ==
  /\ r.everyoneCanPlayAt # NULL =>
       EveryoneCanPlay(r) /\ r.gameplayState # "WAITING_PLAYERS"
  /\ r.readyForInputAt # NULL =>
       /\ r.everyoneCanPlayAt # NULL
       /\ r.everyoneCanPlayAt >= r.readyForInputAt
       /\ r.gameplayState \in {"EXPECTING_INPUT", "OVER"}
=============================================================================
