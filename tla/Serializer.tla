----------------------------- MODULE Serializer -----------------------------
(***************************************************************************)
(* How messages become texts and texts become messages (Serializer.h).  A  *)
(* text is the JSON object it spells: a record from keys to values, where  *)
(* an enumerator is its number and an empty std::optional is null.         *)
(* Spelling, the order of keys and nicknames are left out.                 *)
(*                                                                         *)
(* The module is run on its own, as a wire that carries one text a step;   *)
(* Network takes of it that what does not parse is dropped.                *)
(***************************************************************************)
EXTENDS Messages

CONSTANT Absurd   \* a number that is no messageType of a player's

ASSUME AbsurdAssumption == Absurd \in Int \ (0..5)

(* Nothing is no sender, no action and no object of JSON. *)
ASSUME NothingSaidAssumption ==
  /\ NULL \notin {"server", "client"}
  /\ NULL \notin PlayerActionMessage
  /\ NULL \notin [assignment: {0, 1}, isReady: BOOLEAN]

VARIABLES
  sender,    \* who has sent
  message,   \* the message that was sent, or understood
  text       \* the text that carried it

vars == <<sender, message, text>>

-----------------------------------------------------------------------------
(* Enumerators as numbers *)

AssignmentNumber == [P1 |-> 0, P2 |-> 1]

InputNumber == [NORTH |-> 0, WEST |-> 1, EAST |-> 2, SOUTH |-> 3]

DifficultyNumber == [EASY |-> 0, MEDIUM |-> 1, HARD |-> 2]

GameplayNumber ==
  [ROOM_JOINED |-> 0, PLAYER_JOINED_GAME |-> 1, PLAYER_LEFT_GAME |-> 2,
   PLAYER_READY_STATE_CHANGED |-> 3, ALL_READY_GAME_STARTING |-> 4,
   GAME_EXPECTING_INPUT |-> 5, GAME_OVER_EARLY_INPUT |-> 6,
   GAME_OVER_WRONG_INPUT |-> 7, GAME_OVER_WIN |-> 8, GAME_OVER_DRAW |-> 9,
   PLAYER_REPLAY_READY_STATE_CHANGED |-> 10,
   ALL_REPLAY_READY_GAME_STARTING |-> 11]

ActionNumber ==
  [JOIN_GAME |-> 0, SET_READY_STATE |-> 1, NOTIFY_CAN_PLAY |-> 2,
   PLAYER_INPUT |-> 3, SET_REPLAY_READY_STATE |-> 4, LEAVE_GAME |-> 5]

OrNull(number, name) == IF name = NULL THEN NULL ELSE number[name]

Named(number, n) == CHOOSE name \in DOMAIN number : number[name] = n

-----------------------------------------------------------------------------
(* serializeGameplayMessage *)

LobbyText(player) ==
  [assignment |-> AssignmentNumber[player.assignment],
   isReady |-> player.isReady]

ResultText(assignment, player) ==
  [assignment |-> AssignmentNumber[assignment],
   inputPressed |-> OrNull(InputNumber, player.inputPressed),
   timeToPress |-> player.timeToPress]

(* Mutation: the two results are swapped, in every text. *)
SerializeGameResultSwapped(result) ==
  [winningPlayer |-> OrNull(AssignmentNumber, result.winningPlayer),
   player1 |-> ResultText("P1", result.player["P2"]),
   player2 |-> ResultText("P2", result.player["P1"])]

SerializeGameResult(result) ==
  [winningPlayer |-> OrNull(AssignmentNumber, result.winningPlayer),
   player1 |-> ResultText("P1", result.player["P1"]),
   player2 |-> ResultText("P2", result.player["P2"])]

(* The text of a field of a message. *)
FieldText(m, field) ==
  CASE field = "messageType" -> GameplayNumber[m.messageType]
    [] field = "playerAssignment" -> AssignmentNumber[m.playerAssignment]
    [] field = "otherPlayer" ->
         IF m.otherPlayer = NULL THEN NULL ELSE LobbyText(m.otherPlayer)
    [] field = "player" -> LobbyText(m.player)
    [] field = "expectedInput" -> InputNumber[m.expectedInput]
    [] field = "gameResult" -> SerializeGameResult(m.gameResult)
    [] OTHER -> m[field]

SerializeGameplayMessage(m) == [field \in DOMAIN m |-> FieldText(m, field)]

-----------------------------------------------------------------------------
(* deserializePlayerActionMessage; NULL where it throws *)

(* The fields that are read of each type, and their numbers. *)
FieldsOf(type) ==
  CASE type = "JOIN_GAME" -> {"nickname", "difficulty"}
    [] type = "SET_READY_STATE" -> {"isReady"}
    [] type = "SET_REPLAY_READY_STATE" -> {"isReadyToReplay"}
    [] type = "PLAYER_INPUT" -> {"inputPressed", "timeToPress"}
    [] OTHER -> {}

(* Mutation: copied from the handler of the other ready state. *)
SetReadyStateCopied(object) ==
  [messageType |-> "SET_READY_STATE", isReady |-> object.isReadyToReplay]

SetReplayReadyStateOf(object) ==
  [messageType |-> "SET_REPLAY_READY_STATE",
   isReadyToReplay |-> object.isReadyToReplay]

ActionOf(type, object) ==
  CASE type = "JOIN_GAME" ->
         [messageType |-> type,
          gameDifficulty |-> Named(DifficultyNumber, object.difficulty)]
    [] type = "SET_READY_STATE" ->
         [messageType |-> type, isReady |-> object.isReady]
    [] type = "SET_REPLAY_READY_STATE" -> SetReplayReadyStateOf(object)
    [] type = "PLAYER_INPUT" ->
         [messageType |-> type,
          inputPressed |-> Named(InputNumber, object.inputPressed),
          timeToPress |-> object.timeToPress]
    [] OTHER -> [messageType |-> type]

(* Other keys are not looked at. *)
DeserializePlayerActionMessage(object) ==
  LET type == Named(ActionNumber, object.messageType)
  IN IF /\ "messageType" \in DOMAIN object
        /\ \E name \in DOMAIN ActionNumber :
             ActionNumber[name] = object.messageType
        /\ FieldsOf(type) \subseteq DOMAIN object
       THEN ActionOf(type, object)
       ELSE NULL

-----------------------------------------------------------------------------
(* The texts that clients send: those of the tests                         *)
(* (tests/serializer/deserializePlayerActionMessage.cpp), and those of     *)
(* clients of another version, which know other types or other fields.     *)

ActionField(action, field) ==
  CASE field = "messageType" -> ActionNumber[action.messageType]
    [] field = "difficulty" -> DifficultyNumber[action.gameDifficulty]
    [] field = "nickname" -> "nickname"
    [] field = "inputPressed" -> InputNumber[action.inputPressed]
    [] OTHER -> action[field]

ActionText(action) ==
  [field \in FieldsOf(action.messageType) \cup {"messageType"} |->
     ActionField(action, field)]

ActionTexts == {ActionText(action) : action \in PlayerActionMessage}

Without(object, field) == [key \in DOMAIN object \ {field} |-> object[key]]

WithVersion(object) ==
  [key \in DOMAIN object \cup {"version"} |->
     IF key = "version" THEN 2 ELSE object[key]]

OtherTexts ==
  UNION {{Without(object, field) : field \in DOMAIN object}
           \cup {[object EXCEPT !.messageType = Absurd],
                 WithVersion(object)} : object \in ActionTexts}

-----------------------------------------------------------------------------

Init ==
  /\ sender = NULL
  /\ message = NULL
  /\ text = NULL

(* ConnectedClient::handleGameplayMessage *)
ServerSends(m) ==
  /\ sender' = "server"
  /\ message' = m
  /\ text' = SerializeGameplayMessage(m)

(* ConnectedClient::receiveFromNetwork *)
ClientSends(object) ==
  /\ sender' = "client"
  /\ message' = DeserializePlayerActionMessage(object)
  /\ text' = object

Next ==
  /\ sender = NULL
  /\ \/ \E m \in GameplayMessage : ServerSends(m)
     \/ \E object \in ActionTexts \cup OtherTexts : ClientSends(object)

(* Nothing is kept from one text to the next. *)
Spec == Init /\ [][Next]_vars

-----------------------------------------------------------------------------

(* Reading a text by its keys and by the numbers of the enumerators, as a  *)
(* client does: of which player a result is, its "assignment" says.        *)

OptionalRead(number, n) == IF n = NULL THEN NULL ELSE Named(number, n)

LobbyRead(object) ==
  [assignment |-> Named(AssignmentNumber, object.assignment),
   isReady |-> object.isReady]

ResultRead(object) ==
  [inputPressed |-> OptionalRead(InputNumber, object.inputPressed),
   timeToPress |-> object.timeToPress]

GameResultRead(object) ==
  [winningPlayer |-> OptionalRead(AssignmentNumber, object.winningPlayer),
   player |-> [assignment \in Assignment |->
     ResultRead(CHOOSE result \in {object.player1, object.player2} :
                  result.assignment = AssignmentNumber[assignment])]]

FieldRead(field, value) ==
  CASE field = "messageType" -> Named(GameplayNumber, value)
    [] field = "playerAssignment" -> Named(AssignmentNumber, value)
    [] field = "otherPlayer" -> IF value = NULL THEN NULL ELSE LobbyRead(value)
    [] field = "player" -> LobbyRead(value)
    [] field = "expectedInput" -> Named(InputNumber, value)
    [] field = "gameResult" -> GameResultRead(value)
    [] OTHER -> value

MessageRead(object) ==
  [field \in DOMAIN object |-> FieldRead(field, object[field])]

(* The two messages of a rematch: the tests want another text of them, see *)
(* RematchIsToldAsTested.                                                  *)
RematchType ==
  {"PLAYER_REPLAY_READY_STATE_CHANGED", "ALL_REPLAY_READY_GAME_STARTING"}

(***************************************************************************)
(* A client that reads the text of any message but those of a rematch gets *)
(* what serializeGameplayMessage was given: no field is dropped, none is   *)
(* written under the key of another one or with its value, and each result *)
(* is that of the player whose assignment it bears.                        *)
(***************************************************************************)
MessagesAreRead ==
  sender = "server" /\ message.messageType \notin RematchType =>
    MessageRead(text) = message

(***************************************************************************)
(* What a client asks is what the game thread is handed; a text of another *)
(* version is either understood by the fields this one knows, or dropped.  *)
(***************************************************************************)
ActionsSurviveTheWire ==
  sender = "client" =>
    \A action \in PlayerActionMessage :
      message = action <=>
        \A field \in DOMAIN ActionText(action) :
          field \in DOMAIN text /\ text[field] = ActionText(action)[field]

(***************************************************************************)
(* "GIVEN("A PlayerReplayReadyStateChangedMessage") [...] "messageType":6" *)
(* and the same text under "GIVEN("A AllReplayReadyGameStartingMessage")"  *)
(* (tests/serializer/serializeGameplayMessage.cpp:258 and :270): both are  *)
(* told with the type and the result of a game over.  The code tells them  *)
(* apart, with the types 10 and 11 and without a result.                   *)
(***************************************************************************)
RematchIsToldAsTested ==
  sender = "server" /\ message.messageType \in RematchType
    => text.messageType = 6 /\ "gameResult" \in DOMAIN text
=============================================================================
