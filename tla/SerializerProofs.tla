--------------------------- MODULE SerializerProofs ---------------------------
(***************************************************************************)
(* For all reaction times that clients report: the messages of the server  *)
(* are read back from their texts, and the actions of players survive the  *)
(* wire.  The argument: the numbers of the enumerators are distinct, each  *)
(* field is spelled on its own, under its own key, and every text a client *)
(* sends spells each field as its type.                                    *)
(***************************************************************************)
EXTENDS Serializer, TLAPS

-----------------------------------------------------------------------------
(* Numbers of enumerators *)

(* No two enumerators have one number. *)
Injective(number) ==
  \A x, y \in DOMAIN number : number[x] = number[y] => x = y

LEMMA NumbersTellApart ==
  /\ Injective(AssignmentNumber) /\ DOMAIN AssignmentNumber = Assignment
  /\ Injective(InputNumber) /\ DOMAIN InputNumber = GameplayInput
  /\ Injective(DifficultyNumber) /\ DOMAIN DifficultyNumber = GameDifficulty
  /\ Injective(ActionNumber)
  /\ Injective(GameplayNumber)
<1>1. Injective(AssignmentNumber) /\ DOMAIN AssignmentNumber = Assignment
  BY DEF Injective, AssignmentNumber, Assignment
<1>2. Injective(InputNumber) /\ DOMAIN InputNumber = GameplayInput
  BY DEF Injective, InputNumber, GameplayInput
<1>3. Injective(DifficultyNumber) /\ DOMAIN DifficultyNumber = GameDifficulty
  BY DEF Injective, DifficultyNumber, GameDifficulty
<1>4. Injective(ActionNumber)
  BY DEF Injective, ActionNumber
<1>5. Injective(GameplayNumber)
  BY DEF Injective, GameplayNumber
<1> QED
  BY <1>1, <1>2, <1>3, <1>4, <1>5

LEMMA NumbersAreNumbers ==
  /\ \A x \in Assignment : AssignmentNumber[x] \in {0, 1}
  /\ \A x \in GameplayInput : InputNumber[x] \in 0..3
  /\ \A x \in GameDifficulty : DifficultyNumber[x] \in 0..2
  /\ \A x \in DOMAIN ActionNumber : ActionNumber[x] \in 0..5
  BY DEF AssignmentNumber, Assignment, InputNumber, GameplayInput,
         DifficultyNumber, GameDifficulty, ActionNumber

(* An enumerator is found again by its number. *)
LEMMA NamedAgain ==
  ASSUME NEW number, Injective(number), NEW x \in DOMAIN number
  PROVE  Named(number, number[x]) = x
  BY DEF Named, Injective

(* An optional enumerator is found again by its number, or by nothing. *)
LEMMA OptionalAgain ==
  ASSUME NEW number, Injective(number), \A x \in DOMAIN number : number[x] \in Int,
         NEW a \in DOMAIN number \cup {NULL}
  PROVE  OptionalRead(number, OrNull(number, a)) = a
  BY NullAssumption, NamedAgain DEF OptionalRead, OrNull

-----------------------------------------------------------------------------
(* Messages of the server *)

LEMMA LobbyAgain ==
  ASSUME NEW p \in PlayerLobbyDTO
  PROVE  /\ LobbyText(p) # NULL
         /\ LobbyRead(LobbyText(p)) = p
<1>1. LobbyText(p) \in [assignment: {0, 1}, isReady: BOOLEAN]
  BY NumbersAreNumbers DEF LobbyText, PlayerLobbyDTO
<1>2. /\ LobbyText(p).assignment = AssignmentNumber[p.assignment]
      /\ LobbyText(p).isReady = p.isReady
  BY DEF LobbyText
<1>3. Named(AssignmentNumber, AssignmentNumber[p.assignment]) = p.assignment
  BY NamedAgain, NumbersTellApart DEF PlayerLobbyDTO
<1>4. LobbyRead(LobbyText(p)) = p
  BY <1>2, <1>3 DEF LobbyRead, PlayerLobbyDTO
<1> QED
  BY <1>1, <1>4, NothingSaidAssumption

LEMMA ResultAgain ==
  ASSUME NEW a, NEW p \in PlayerGameResultDTO
  PROVE  /\ ResultText(a, p).assignment = AssignmentNumber[a]
         /\ ResultRead(ResultText(a, p)) = p
<1>1. /\ ResultText(a, p).assignment = AssignmentNumber[a]
      /\ ResultText(a, p).inputPressed = OrNull(InputNumber, p.inputPressed)
      /\ ResultText(a, p).timeToPress = p.timeToPress
  BY DEF ResultText
<1>2. /\ p.inputPressed \in DOMAIN InputNumber \cup {NULL}
      /\ \A x \in DOMAIN InputNumber : InputNumber[x] \in Int
  BY NumbersTellApart, NumbersAreNumbers DEF PlayerGameResultDTO
<1>3. OptionalRead(InputNumber, OrNull(InputNumber, p.inputPressed)) = p.inputPressed
  BY <1>2, NumbersTellApart, OptionalAgain
<1> QED
  BY <1>1, <1>3 DEF ResultRead, PlayerGameResultDTO

(* The result of a player is the one that bears its assignment. *)
LEMMA GameResultAgain ==
  ASSUME NEW p \in GameResultDTO
  PROVE  GameResultRead(SerializeGameResult(p)) = p
<1> DEFINE of == [P1 |-> ResultText("P1", p.player["P1"]),
                  P2 |-> ResultText("P2", p.player["P2"])]
           found(a) == CHOOSE result \in {of["P1"], of["P2"]} :
                         result.assignment = AssignmentNumber[a]
<1>1. /\ p.player \in [Assignment -> PlayerGameResultDTO]
      /\ p.player["P1"] \in PlayerGameResultDTO
      /\ p.player["P2"] \in PlayerGameResultDTO
  BY DEF GameResultDTO, Assignment
<1>2. \A a \in Assignment :
        /\ of[a].assignment = AssignmentNumber[a]
        /\ ResultRead(of[a]) = p.player[a]
  <2>1. /\ of["P1"] = ResultText("P1", p.player["P1"])
        /\ of["P2"] = ResultText("P2", p.player["P2"])
    OBVIOUS
  <2> HIDE DEF of
  <2>2. /\ of["P1"].assignment = AssignmentNumber["P1"]
        /\ ResultRead(of["P1"]) = p.player["P1"]
    BY <1>1, <2>1, ResultAgain
  <2>3. /\ of["P2"].assignment = AssignmentNumber["P2"]
        /\ ResultRead(of["P2"]) = p.player["P2"]
    BY <1>1, <2>1, ResultAgain
  <2> QED
    BY <2>2, <2>3 DEF Assignment
<1>3. SerializeGameResult(p)
        = [winningPlayer |-> OrNull(AssignmentNumber, p.winningPlayer),
           player1 |-> of["P1"], player2 |-> of["P2"]]
  BY DEF SerializeGameResult
<1> HIDE DEF of
<1>4. \A a \in Assignment : found(a) = of[a]
  <2> SUFFICES ASSUME NEW a \in Assignment
               PROVE  found(a) = of[a]
    OBVIOUS
  <2>1. \A result \in {of["P1"], of["P2"]} :
          result.assignment = AssignmentNumber[a] => result = of[a]
    BY <1>2, NumbersTellApart DEF Assignment, Injective
  <2>2. /\ of[a] \in {of["P1"], of["P2"]}
        /\ of[a].assignment = AssignmentNumber[a]
    BY <1>2 DEF Assignment
  <2> QED
    BY <2>1, <2>2
<1>5. /\ SerializeGameResult(p).winningPlayer = OrNull(AssignmentNumber, p.winningPlayer)
      /\ SerializeGameResult(p).player1 = of["P1"]
      /\ SerializeGameResult(p).player2 = of["P2"]
  BY <1>3
<1>6. OptionalRead(AssignmentNumber, SerializeGameResult(p).winningPlayer)
        = p.winningPlayer
  <2>1. /\ p.winningPlayer \in DOMAIN AssignmentNumber \cup {NULL}
        /\ \A x \in DOMAIN AssignmentNumber : AssignmentNumber[x] \in Int
    BY NumbersTellApart, NumbersAreNumbers DEF GameResultDTO
  <2> QED
    BY <1>5, <2>1, NumbersTellApart, OptionalAgain
<1>7. GameResultRead(SerializeGameResult(p))
        = [winningPlayer |-> p.winningPlayer,
           player |-> [a \in Assignment |-> ResultRead(found(a))]]
  BY <1>5, <1>6 DEF GameResultRead
<1>8. [a \in Assignment |-> ResultRead(found(a))] = p.player
  <2>1. \A a \in Assignment : ResultRead(found(a)) = p.player[a]
    BY <1>2, <1>4
  <2> HIDE DEF found
  <2> QED
    BY <1>1, <2>1
<1> QED
  BY <1>7, <1>8 DEF GameResultDTO

(* A message whose fields are read back one by one is read back. *)
LEMMA ReadByFields ==
  ASSUME NEW m, m = [field \in DOMAIN m |-> m[field]],
         \A field \in DOMAIN m : FieldRead(field, FieldText(m, field)) = m[field]
  PROVE  MessageRead(SerializeGameplayMessage(m)) = m
<1>1. /\ DOMAIN SerializeGameplayMessage(m) = DOMAIN m
      /\ \A field \in DOMAIN m :
           SerializeGameplayMessage(m)[field] = FieldText(m, field)
  BY DEF SerializeGameplayMessage
<1>2. MessageRead(SerializeGameplayMessage(m)) = [field \in DOMAIN m |-> m[field]]
  BY <1>1 DEF MessageRead
<1> QED
  BY <1>2

(* The fields that several messages have. *)
LEMMA TypeAgain ==
  ASSUME NEW m \in GameplayMessage
  PROVE  FieldRead("messageType", FieldText(m, "messageType")) = m.messageType
<1>1. m.messageType \in DOMAIN GameplayNumber
  BY DEF GameplayMessage, RoomJoinedMessage, PlayerJoinedRoomMessage,
         PlayerLeftRoomMessage, PlayerReadyStateChangedMessage,
         PlayerReplayReadyStateChangedMessage, GameStartingMessage,
         GameExpectingInputMessage, GameOverMessage, GameplayNumber,
         GameStartingType, GameOverType
<1>2. FieldText(m, "messageType") = GameplayNumber[m.messageType]
  BY DEF FieldText
<1>3. Named(GameplayNumber, GameplayNumber[m.messageType]) = m.messageType
  BY <1>1, NamedAgain, NumbersTellApart
<1> QED
  BY <1>2, <1>3 DEF FieldRead

LEMMA PlayerAssignmentAgain ==
  ASSUME NEW m, m.playerAssignment \in Assignment
  PROVE  FieldRead("playerAssignment", FieldText(m, "playerAssignment"))
           = m.playerAssignment
<1>1. FieldText(m, "playerAssignment") = AssignmentNumber[m.playerAssignment]
  BY DEF FieldText
<1>2. Named(AssignmentNumber, AssignmentNumber[m.playerAssignment])
        = m.playerAssignment
  BY NamedAgain, NumbersTellApart
<1> QED
  BY <1>1, <1>2 DEF FieldRead

LEMMA ReadAgain ==
  ASSUME NEW m \in GameplayMessage
  PROVE  MessageRead(SerializeGameplayMessage(m)) = m
<1>1. CASE m \in RoomJoinedMessage
  <2>1. /\ m = [field \in DOMAIN m |-> m[field]]
        /\ DOMAIN m = {"messageType", "playerAssignment", "otherPlayer"}
        /\ m.playerAssignment \in Assignment
        /\ m.otherPlayer \in PlayerLobbyDTO \cup {NULL}
    BY <1>1 DEF RoomJoinedMessage
  <2>2. FieldText(m, "otherPlayer")
          = IF m.otherPlayer = NULL THEN NULL ELSE LobbyText(m.otherPlayer)
    BY DEF FieldText
  <2>3. \A value : FieldRead("otherPlayer", value)
                     = IF value = NULL THEN NULL ELSE LobbyRead(value)
    BY DEF FieldRead
  <2>4. FieldRead("otherPlayer", FieldText(m, "otherPlayer")) = m.otherPlayer
    BY <2>1, <2>2, <2>3, LobbyAgain
  <2> QED
    BY <2>1, <2>4, TypeAgain, PlayerAssignmentAgain, ReadByFields
<1>2. CASE m \in PlayerJoinedRoomMessage
  <2>1. /\ m = [field \in DOMAIN m |-> m[field]]
        /\ DOMAIN m = {"messageType", "player"}
        /\ m.player \in PlayerLobbyDTO
    BY <1>2 DEF PlayerJoinedRoomMessage
  <2>2. FieldText(m, "player") = LobbyText(m.player)
    BY DEF FieldText
  <2>3. \A value : FieldRead("player", value) = LobbyRead(value)
    BY DEF FieldRead
  <2>4. FieldRead("player", FieldText(m, "player")) = m.player
    BY <2>1, <2>2, <2>3, LobbyAgain
  <2> QED
    BY <2>1, <2>4, TypeAgain, ReadByFields
<1>3. CASE m \in PlayerLeftRoomMessage
  <2>1. /\ m = [field \in DOMAIN m |-> m[field]]
        /\ DOMAIN m = {"messageType", "playerAssignment"}
        /\ m.playerAssignment \in Assignment
    BY <1>3 DEF PlayerLeftRoomMessage
  <2> QED
    BY <2>1, TypeAgain, PlayerAssignmentAgain, ReadByFields
<1>4. CASE m \in PlayerReadyStateChangedMessage
  <2>1. /\ m = [field \in DOMAIN m |-> m[field]]
        /\ DOMAIN m = {"messageType", "playerAssignment", "isReady"}
        /\ m.playerAssignment \in Assignment
    BY <1>4 DEF PlayerReadyStateChangedMessage
  <2>2. FieldRead("isReady", FieldText(m, "isReady")) = m["isReady"]
    BY DEF FieldRead, FieldText
  <2> QED
    BY <2>1, <2>2, TypeAgain, PlayerAssignmentAgain, ReadByFields
<1>5. CASE m \in PlayerReplayReadyStateChangedMessage
  <2>1. /\ m = [field \in DOMAIN m |-> m[field]]
        /\ DOMAIN m = {"messageType", "playerAssignment", "isReadyToReplay"}
        /\ m.playerAssignment \in Assignment
    BY <1>5 DEF PlayerReplayReadyStateChangedMessage
  <2>2. FieldRead("isReadyToReplay", FieldText(m, "isReadyToReplay"))
          = m["isReadyToReplay"]
    BY DEF FieldRead, FieldText
  <2> QED
    BY <2>1, <2>2, TypeAgain, PlayerAssignmentAgain, ReadByFields
<1>6. CASE m \in GameStartingMessage
  <2>1. /\ m = [field \in DOMAIN m |-> m[field]]
        /\ DOMAIN m = {"messageType"}
    BY <1>6 DEF GameStartingMessage
  <2> QED
    BY <2>1, TypeAgain, ReadByFields
<1>7. CASE m \in GameExpectingInputMessage
  <2>1. /\ m = [field \in DOMAIN m |-> m[field]]
        /\ DOMAIN m = {"messageType", "expectedInput"}
        /\ m.expectedInput \in GameplayInput
    BY <1>7 DEF GameExpectingInputMessage
  <2>2. FieldText(m, "expectedInput") = InputNumber[m.expectedInput]
    BY DEF FieldText
  <2>3. Named(InputNumber, InputNumber[m.expectedInput]) = m.expectedInput
    BY <2>1, NamedAgain, NumbersTellApart
  <2>4. FieldRead("expectedInput", FieldText(m, "expectedInput")) = m.expectedInput
    BY <2>2, <2>3 DEF FieldRead
  <2> QED
    BY <2>1, <2>4, TypeAgain, ReadByFields
<1>8. CASE m \in GameOverMessage
  <2>1. /\ m = [field \in DOMAIN m |-> m[field]]
        /\ DOMAIN m = {"messageType", "gameResult"}
        /\ m.gameResult \in GameResultDTO
    BY <1>8 DEF GameOverMessage
  <2>2. FieldText(m, "gameResult") = SerializeGameResult(m.gameResult)
    BY DEF FieldText
  <2>3. \A value : FieldRead("gameResult", value) = GameResultRead(value)
    BY DEF FieldRead
  <2>4. FieldRead("gameResult", FieldText(m, "gameResult")) = m.gameResult
    BY <2>1, <2>2, <2>3, GameResultAgain
  <2> QED
    BY <2>1, <2>4, TypeAgain, ReadByFields
<1> QED
  BY <1>1, <1>2, <1>3, <1>4, <1>5, <1>6, <1>7, <1>8 DEF GameplayMessage

-----------------------------------------------------------------------------
(* Actions of players *)

(* What is read of the type of an action is a field of its class. *)
LEMMA ActionTypes ==
  ASSUME NEW action \in PlayerActionMessage
  PROVE  action.messageType \in DOMAIN ActionNumber
  BY DEF PlayerActionMessage, RoomActionMessage, SetReadyState, NotifyCanPlay,
         PlayerInput, SetReplayReadyState, LeaveGame, JoinGame, ActionNumber

LEMMA ActionOfItsType ==
  ASSUME NEW type \in DOMAIN ActionNumber, NEW object
  PROVE  ActionOf(type, object).messageType = type
<1>1. type \in {"JOIN_GAME", "SET_READY_STATE", "NOTIFY_CAN_PLAY", "PLAYER_INPUT",
                "SET_REPLAY_READY_STATE", "LEAVE_GAME"}
  BY DEF ActionNumber
<1> QED
  BY <1>1 DEF ActionOf, SetReplayReadyStateOf

(* An action is understood by its number and the fields of its type. *)
LEMMA Understood ==
  ASSUME NEW action \in PlayerActionMessage, NEW object
  PROVE  DeserializePlayerActionMessage(object) = action
           <=> /\ "messageType" \in DOMAIN object
               /\ object.messageType = ActionNumber[action.messageType]
               /\ FieldsOf(action.messageType) \subseteq DOMAIN object
               /\ ActionOf(action.messageType, object) = action
<1> DEFINE type == Named(ActionNumber, object.messageType)
           Parses == /\ "messageType" \in DOMAIN object
                     /\ \E name \in DOMAIN ActionNumber :
                          ActionNumber[name] = object.messageType
                     /\ FieldsOf(type) \subseteq DOMAIN object
<1>1. DeserializePlayerActionMessage(object)
        = IF Parses THEN ActionOf(type, object) ELSE NULL
  BY DEF DeserializePlayerActionMessage
<1>2. action # NULL
  BY NothingSaidAssumption
<1>3. \A name \in DOMAIN ActionNumber :
        ActionNumber[name] = object.messageType => type = name
  BY NamedAgain, NumbersTellApart
<1>4. action.messageType \in DOMAIN ActionNumber
  BY ActionTypes
<1> HIDE DEF type
<1>5. ASSUME DeserializePlayerActionMessage(object) = action
      PROVE  /\ Parses
             /\ type = action.messageType
             /\ ActionOf(type, object) = action
  <2>1. Parses /\ ActionOf(type, object) = action
    BY <1>1, <1>2, <1>5
  <2>2. type \in DOMAIN ActionNumber
    BY <1>3, <2>1
  <2> QED
    BY <2>1, <2>2, ActionOfItsType
<1>6. ASSUME DeserializePlayerActionMessage(object) = action
      PROVE  object.messageType = ActionNumber[action.messageType]
  <2>1. PICK name \in DOMAIN ActionNumber : ActionNumber[name] = object.messageType
    BY <1>5, <1>6
  <2>2. type = name
    BY <1>3, <2>1
  <2> QED
    BY <1>5, <1>6, <2>1, <2>2
<1>7. ASSUME /\ "messageType" \in DOMAIN object
             /\ object.messageType = ActionNumber[action.messageType]
             /\ FieldsOf(action.messageType) \subseteq DOMAIN object
             /\ ActionOf(action.messageType, object) = action
      PROVE  DeserializePlayerActionMessage(object) = action
  <2>1. type = action.messageType
    BY <1>3, <1>4, <1>7
  <2>2. Parses
    BY <1>4, <1>7, <2>1
  <2> QED
    BY <1>1, <1>7, <2>1, <2>2
<1> QED
  BY <1>5, <1>6, <1>7

(* Every field that is read is spelled as its type. *)
Legible(object) ==
  /\ "difficulty" \in DOMAIN object =>
       \E name \in GameDifficulty : object["difficulty"] = DifficultyNumber[name]
  /\ "inputPressed" \in DOMAIN object =>
       \E name \in GameplayInput : object["inputPressed"] = InputNumber[name]
  /\ "nickname" \in DOMAIN object => object["nickname"] = "nickname"

(* The fields of an action are the numbers of its text. *)
LEMMA FieldsAgree ==
  ASSUME NEW action \in PlayerActionMessage, NEW object, Legible(object),
         FieldsOf(action.messageType) \subseteq DOMAIN object
  PROVE  ActionOf(action.messageType, object) = action
           <=> \A field \in FieldsOf(action.messageType) :
                 object[field] = ActionField(action, field)
<1>1. CASE action \in JoinGame
  <2>1. /\ action.messageType = "JOIN_GAME"
        /\ action.gameDifficulty \in GameDifficulty
        /\ action = [messageType |-> "JOIN_GAME",
                     gameDifficulty |-> action.gameDifficulty]
    BY <1>1 DEF JoinGame
  <2>2. FieldsOf("JOIN_GAME") = {"nickname", "difficulty"}
    BY DEF FieldsOf
  <2>3. PICK name \in GameDifficulty : object["difficulty"] = DifficultyNumber[name]
    BY <2>1, <2>2 DEF Legible
  <2>4. Named(DifficultyNumber, object.difficulty) = name
    BY <2>3, NamedAgain, NumbersTellApart
  <2>5. ActionOf("JOIN_GAME", object)
          = [messageType |-> "JOIN_GAME", gameDifficulty |-> name]
    BY <2>4 DEF ActionOf
  <2>6. ActionOf("JOIN_GAME", object) = action <=> action.gameDifficulty = name
    BY <2>1, <2>5
  <2>7. action.gameDifficulty = name
          <=> object["difficulty"] = DifficultyNumber[action.gameDifficulty]
    BY <2>1, <2>3, NumbersTellApart DEF Injective
  <2>8. /\ ActionField(action, "difficulty") = DifficultyNumber[action.gameDifficulty]
        /\ ActionField(action, "nickname") = object["nickname"]
    BY <2>1, <2>2 DEF ActionField, Legible
  <2> QED
    BY <2>1, <2>2, <2>6, <2>7, <2>8
<1>2. CASE action \in PlayerInput
  <2>1. /\ action.messageType = "PLAYER_INPUT"
        /\ action.inputPressed \in GameplayInput
        /\ action = [messageType |-> "PLAYER_INPUT",
                     inputPressed |-> action.inputPressed,
                     timeToPress |-> action.timeToPress]
    BY <1>2 DEF PlayerInput
  <2>2. FieldsOf("PLAYER_INPUT") = {"inputPressed", "timeToPress"}
    BY DEF FieldsOf
  <2>3. PICK name \in GameplayInput : object["inputPressed"] = InputNumber[name]
    BY <2>1, <2>2 DEF Legible
  <2>4. Named(InputNumber, object.inputPressed) = name
    BY <2>3, NamedAgain, NumbersTellApart
  <2>5. ActionOf("PLAYER_INPUT", object)
          = [messageType |-> "PLAYER_INPUT", inputPressed |-> name,
             timeToPress |-> object["timeToPress"]]
    BY <2>4 DEF ActionOf
  <2>6. ActionOf("PLAYER_INPUT", object) = action
          <=> action.inputPressed = name /\ action.timeToPress = object["timeToPress"]
    BY <2>1, <2>5
  <2>7. action.inputPressed = name
          <=> object["inputPressed"] = InputNumber[action.inputPressed]
    BY <2>1, <2>3, NumbersTellApart DEF Injective
  <2>8. /\ ActionField(action, "inputPressed") = InputNumber[action.inputPressed]
        /\ ActionField(action, "timeToPress") = action["timeToPress"]
    BY DEF ActionField
  <2> QED
    BY <2>1, <2>2, <2>6, <2>7, <2>8
<1>3. CASE action \in SetReadyState
  <2>1. /\ action.messageType = "SET_READY_STATE"
        /\ action = [messageType |-> "SET_READY_STATE", isReady |-> action.isReady]
    BY <1>3 DEF SetReadyState
  <2>2. FieldsOf("SET_READY_STATE") = {"isReady"}
    BY DEF FieldsOf
  <2>3. ActionOf("SET_READY_STATE", object)
          = [messageType |-> "SET_READY_STATE", isReady |-> object["isReady"]]
    BY DEF ActionOf
  <2>4. ActionOf("SET_READY_STATE", object) = action
          <=> action.isReady = object["isReady"]
    BY <2>1, <2>3
  <2>5. ActionField(action, "isReady") = action["isReady"]
    BY DEF ActionField
  <2> QED
    BY <2>1, <2>2, <2>4, <2>5
<1>4. CASE action \in SetReplayReadyState
  <2>1. /\ action.messageType = "SET_REPLAY_READY_STATE"
        /\ action = [messageType |-> "SET_REPLAY_READY_STATE",
                     isReadyToReplay |-> action.isReadyToReplay]
    BY <1>4 DEF SetReplayReadyState
  <2>2. FieldsOf("SET_REPLAY_READY_STATE") = {"isReadyToReplay"}
    BY DEF FieldsOf
  <2>3. ActionOf("SET_REPLAY_READY_STATE", object)
          = [messageType |-> "SET_REPLAY_READY_STATE",
             isReadyToReplay |-> object["isReadyToReplay"]]
    BY DEF ActionOf, SetReplayReadyStateOf
  <2>4. ActionOf("SET_REPLAY_READY_STATE", object) = action
          <=> action.isReadyToReplay = object["isReadyToReplay"]
    BY <2>1, <2>3
  <2>5. ActionField(action, "isReadyToReplay") = action["isReadyToReplay"]
    BY DEF ActionField
  <2> QED
    BY <2>1, <2>2, <2>4, <2>5
<1>5. CASE action \in NotifyCanPlay \cup LeaveGame
  <2>1. /\ action.messageType \in {"NOTIFY_CAN_PLAY", "LEAVE_GAME"}
        /\ action = [messageType |-> action.messageType]
    BY <1>5 DEF NotifyCanPlay, LeaveGame
  <2>2. FieldsOf(action.messageType) = {}
    BY <2>1 DEF FieldsOf
  <2>3. ActionOf(action.messageType, object) = [messageType |-> action.messageType]
    BY <2>1 DEF ActionOf
  <2> QED
    BY <2>1, <2>2, <2>3
<1> QED
  BY <1>1, <1>2, <1>3, <1>4, <1>5 DEF PlayerActionMessage, RoomActionMessage

LEMMA ActionRead ==
  ASSUME NEW action \in PlayerActionMessage, NEW object, Legible(object)
  PROVE  DeserializePlayerActionMessage(object) = action
           <=> \A field \in DOMAIN ActionText(action) :
                 /\ field \in DOMAIN object
                 /\ object[field] = ActionText(action)[field]
<1>1. /\ DOMAIN ActionText(action) = FieldsOf(action.messageType) \cup {"messageType"}
      /\ \A field \in FieldsOf(action.messageType) \cup {"messageType"} :
           ActionText(action)[field] = ActionField(action, field)
  BY DEF ActionText
<1>2. ActionField(action, "messageType") = ActionNumber[action.messageType]
  BY DEF ActionField
<1>3. FieldsOf(action.messageType) \subseteq DOMAIN object =>
        (ActionOf(action.messageType, object) = action
           <=> \A field \in FieldsOf(action.messageType) :
                 object[field] = ActionField(action, field))
  BY FieldsAgree
<1>4. (\A field \in DOMAIN ActionText(action) :
         /\ field \in DOMAIN object
         /\ object[field] = ActionText(action)[field])
      <=> /\ "messageType" \in DOMAIN object
          /\ object["messageType"] = ActionNumber[action.messageType]
          /\ FieldsOf(action.messageType) \subseteq DOMAIN object
          /\ \A field \in FieldsOf(action.messageType) :
               object[field] = ActionField(action, field)
  BY <1>1, <1>2
<1> QED
  BY <1>3, <1>4, Understood

(* The texts of clients are legible, what they drop and what they add too. *)
LEMMA TextsAreLegible ==
  ASSUME NEW object \in ActionTexts \cup OtherTexts
  PROVE  Legible(object)
<1>1. ASSUME NEW action \in PlayerActionMessage
      PROVE  Legible(ActionText(action))
  <2> DEFINE spelled == ActionText(action)
  <2>1. /\ DOMAIN spelled = FieldsOf(action.messageType) \cup {"messageType"}
        /\ \A field \in DOMAIN spelled : spelled[field] = ActionField(action, field)
    BY DEF ActionText
  <2>2. action.messageType \in DOMAIN ActionNumber
    BY ActionTypes
  <2>3. /\ "difficulty" \in DOMAIN spelled => action.messageType = "JOIN_GAME"
        /\ "nickname" \in DOMAIN spelled => action.messageType = "JOIN_GAME"
        /\ "inputPressed" \in DOMAIN spelled => action.messageType = "PLAYER_INPUT"
    BY <2>1, <2>2 DEF FieldsOf, ActionNumber
  <2>4. /\ action.messageType = "JOIN_GAME" => action.gameDifficulty \in GameDifficulty
        /\ action.messageType = "PLAYER_INPUT" => action.inputPressed \in GameplayInput
    BY DEF PlayerActionMessage, RoomActionMessage, SetReadyState, NotifyCanPlay,
           PlayerInput, SetReplayReadyState, LeaveGame, JoinGame
  <2>5. /\ ActionField(action, "difficulty") = DifficultyNumber[action.gameDifficulty]
        /\ ActionField(action, "inputPressed") = InputNumber[action.inputPressed]
        /\ ActionField(action, "nickname") = "nickname"
    BY DEF ActionField
  <2> HIDE DEF spelled
  <2>6. Legible(spelled)
    BY <2>1, <2>3, <2>4, <2>5 DEF Legible
  <2> QED
    BY <2>6 DEF spelled
<1>2. ASSUME NEW action \in PlayerActionMessage, NEW field
      PROVE  Legible(Without(ActionText(action), field))
  BY <1>1 DEF Without, Legible
<1>3. ASSUME NEW action \in PlayerActionMessage
      PROVE  Legible([ActionText(action) EXCEPT !.messageType = Absurd])
  BY <1>1 DEF Legible
<1>4. ASSUME NEW action \in PlayerActionMessage
      PROVE  Legible(WithVersion(ActionText(action)))
  BY <1>1 DEF Legible, WithVersion
<1> QED
  BY <1>1, <1>2, <1>3, <1>4 DEF ActionTexts, OtherTexts

-----------------------------------------------------------------------------
(* The texts that are carried *)

(* A text is what was serialized, or a message what was understood. *)
Carried ==
  /\ sender = "server" => /\ message \in GameplayMessage
                          /\ text = SerializeGameplayMessage(message)
  /\ sender = "client" => /\ text \in ActionTexts \cup OtherTexts
                          /\ message = DeserializePlayerActionMessage(text)

LEMMA CarriedAlways == Spec => []Carried
<1>1. Init => Carried
  BY NothingSaidAssumption DEF Init, Carried
<1>2. Carried /\ [Next]_vars => Carried'
  <2> SUFFICES ASSUME Carried, [Next]_vars
               PROVE  Carried'
    OBVIOUS
  <2>1. ASSUME NEW m \in GameplayMessage, ServerSends(m)
        PROVE  Carried'
    BY <2>1 DEF ServerSends, Carried
  <2>2. ASSUME NEW object \in ActionTexts \cup OtherTexts, ClientSends(object)
        PROVE  Carried'
    BY <2>2 DEF ClientSends, Carried
  <2>3. CASE UNCHANGED vars
    BY <2>3 DEF vars, Carried
  <2> QED
    BY <2>1, <2>2, <2>3 DEF Next
<1> QED
  BY <1>1, <1>2, PTL DEF Spec

(***************************************************************************)
(* Whatever serializeGameplayMessage is given, reading its text by keys    *)
(* and numbers gives that message back, each field from its own key and    *)
(* each result under its player.                                           *)
(***************************************************************************)
THEOREM TextsAreRead == Spec => []MessagesAreRead
<1>1. Carried => MessagesAreRead
  BY ReadAgain DEF Carried, MessagesAreRead
<1> QED
  BY <1>1, CarriedAlways, PTL

(***************************************************************************)
(* deserializePlayerActionMessage hands the game thread an action exactly  *)
(* when the text spells it, whatever keys the text holds beside it.        *)
(***************************************************************************)
THEOREM ActionsAreUnderstood == Spec => []ActionsSurviveTheWire
<1>1. Carried => ActionsSurviveTheWire
  <2> SUFFICES ASSUME Carried, sender = "client", NEW action \in PlayerActionMessage
               PROVE  message = action <=>
                        \A field \in DOMAIN ActionText(action) :
                          /\ field \in DOMAIN text
                          /\ text[field] = ActionText(action)[field]
    BY DEF ActionsSurviveTheWire
  <2>1. /\ text \in ActionTexts \cup OtherTexts
        /\ message = DeserializePlayerActionMessage(text)
    BY DEF Carried
  <2>2. Legible(text)
    BY <2>1, TextsAreLegible
  <2> QED
    BY <2>1, <2>2, ActionRead
<1> QED
  BY <1>1, CarriedAlways, PTL
=============================================================================
