------------------------------ MODULE Screens -------------------------------
(***************************************************************************)
(* What a client shows of the room it is in, as the messages the server    *)
(* sends make it change.  The client is not in this repository: this much  *)
(* is what the names of the messages say.                                  *)
(***************************************************************************)
EXTENDS RoomHandlers

LOCAL INSTANCE FiniteSetsExt

Verdict == [type: GameOverType, winner: Assignment \cup {NULL}]

Screen == [phase: GameplayState, verdict: Verdict \cup {NULL}]

(* Nothing is not a screen that shows something. *)
ASSUME NothingShownAssumption == NULL \notin Screen

Shows(phase) == [phase |-> phase, verdict |-> NULL]

(* The messages that say all of what a client shows; the others, nothing. *)
TellingType ==
  {"ROOM_JOINED", "PLAYER_LEFT_GAME", "GAME_EXPECTING_INPUT"}
    \cup GameStartingType \cup GameOverType

(* What a client shows after a message. *)
After(view, message) ==
  LET type == message.messageType
  IN CASE type \in {"ROOM_JOINED", "PLAYER_LEFT_GAME"} ->
            Shows("WAITING_PLAYERS")
       [] type \in GameStartingType -> Shows("STARTED")
       [] type = "GAME_EXPECTING_INPUT" -> Shows("EXPECTING_INPUT")
       [] type \in GameOverType ->
            [phase |-> "OVER",
             verdict |-> [type |-> type,
                          winner |-> message.gameResult.winningPlayer]]
       [] OTHER -> view

(* The messages for an id, at their places among all that is published. *)
MessagesFor(id, published) ==
  [n \in {i \in DOMAIN published : published[i].to = id} |->
     published[n].message]

(* What a client that showed view shows after messages at those places:    *)
(* what the last of them that tells it anything says.                      *)
ViewAfter(view, messages) ==
  LET telling == {n \in DOMAIN messages :
                    messages[n].messageType \in TellingType}
  IN IF telling = {} THEN view ELSE After(view, messages[Max(telling)])
=============================================================================
