---------------------------- MODULE RoomClients ----------------------------
(***************************************************************************)
(* A room together with what its players see of it and do to it.  The      *)
(* variables added here are history: what the client of an id was last     *)
(* shown by the messages addressed to that id, which seats have sent an    *)
(* input since they were last told of a fresh game, and which had when a   *)
(* tick found that no input was asked for yet.                             *)
(***************************************************************************)
EXTENDS Room, Screens

VARIABLES
  screen,    \* what each client shows
  pressed,   \* the seats that have pressed in the current game
  early      \* those that a tick of it found to have pressed too early

vars == <<room, screen, pressed, early>>

-----------------------------------------------------------------------------

(* What the client of an id shows after the messages of the last call. *)
ScreenAfter(r, id) ==
  IF HasPlayerWithId(r, id)
    THEN ViewAfter(screen[id], MessagesFor(id, r.published))
    ELSE NULL

(* The seats that a call tells of a fresh game. *)
FreshSeats(r) ==
  IF \E m \in Outbox(r) :
       m.messageType \in {"PLAYER_LEFT_GAME", "ALL_REPLAY_READY_GAME_STARTING"}
    THEN Assignment
    ELSE {a \in Assignment : \E m \in Outbox(r) :
            m.messageType = "ROOM_JOINED" /\ m.playerAssignment = a}

-----------------------------------------------------------------------------

(* The seat whose player a message of this id is taken to be from. *)
SeatPlayedBy(id) ==
  IF HasPlayerWithId(room, id) THEN {GetPlayerById(room, id)} ELSE {}

ClientsInit ==
  /\ Init
  /\ screen = [id \in PlayerId |-> NULL]
  /\ pressed = {}
  /\ early = {}

(* The messages of the call that takes the room to room' arrive. *)
Deliver ==
  /\ screen' = [id \in PlayerId |-> ScreenAfter(room', id)]
  /\ pressed' = pressed \ FreshSeats(room')

Call ==
  /\ \/ \E id \in PlayerId : DoAddPlayer(id) \/ DoRemovePlayer(id)
     \/ \E id \in PlayerId : \E message \in ClientMessage \ PlayerInput :
          DoPlayerMessage(id, message)
  /\ Deliver
  /\ UNCHANGED early

Press(id, message) ==
  /\ DoPlayerMessage(id, message)
  /\ pressed' = pressed \cup SeatPlayedBy(id)
  /\ UNCHANGED <<screen, early>>

(* A tick of a game in which no input was asked for, nor is by this tick. *)
BeforeRequest ==
  room.gameplayState = "STARTED" /\ room'.readyForInputAt = NULL

TickRoom ==
  /\ DoTick
  /\ Deliver
  /\ early' = IF ~ Running(room) THEN {}
              ELSE IF BeforeRequest THEN pressed'
              ELSE early

ClientsNext ==
  \/ Call
  \/ \E id \in PlayerId : \E message \in ClientMessage \cap PlayerInput :
       Press(id, message)
  \/ TickRoom
  \/ TimePasses /\ UNCHANGED <<screen, pressed, early>>

ClientsSpec == ClientsInit /\ [][ClientsNext]_vars

-----------------------------------------------------------------------------

(***************************************************************************)
(* The inputs a room judges are those of the game it is judging: it holds  *)
(* an input of a seat exactly when that seat has pressed since its client  *)
(* was last told of a fresh game (joining, the other's leaving, a rematch).*)
(***************************************************************************)
InputsBelongToTheGame ==
  \A a \in Assignment :
    IsSeated(room, a) => (HasPlayed(room, a) <=> a \in pressed)

(***************************************************************************)
(* No client is left behind: after every call, what a client of the room   *)
(* was last told is the state the room is in.                              *)
(***************************************************************************)
ClientsFollowRoom ==
  \A a \in Assignment :
    IsSeated(room, a) =>
      screen[room.players[a].id].phase = room.gameplayState

(* The verdict of a message is what the presses of the game justify. *)
IsJustified(r, m) ==
  LET winner == m.gameResult.winningPlayer
      loser == OtherAssignment(winner)
      Button(a) == r.players[a].inputPressed
      PressAge(a) == r.players[a].inputPressedAtServerTime
  IN \/ /\ m.messageType = "GAME_OVER_EARLY_INPUT"
        /\ pressed = {loser}
        /\ loser \in early
     \/ /\ m.messageType = "GAME_OVER_WRONG_INPUT"
        /\ pressed = {loser}
        /\ loser \notin early
        /\ Button(loser) # r.expectedInput
     \/ /\ m.messageType = "GAME_OVER_WIN"
        /\ pressed = {winner}
        /\ winner \notin early
        /\ Button(winner) = r.expectedInput
        /\ PressAge(winner) >= OnePlayerInputOnlyTimeout
     \/ /\ m.messageType = "GAME_OVER_WIN"
        /\ pressed = Assignment
        /\ winner \in early => loser \in early
        /\ PressAge(winner) > PressAge(loser)
     \/ /\ m.messageType = "GAME_OVER_DRAW"
        /\ winner = NULL
        /\ \/ /\ pressed = {}
              /\ r.readyForInputAt >= NoInputTimeout
           \/ /\ pressed = Assignment
              /\ PressAge("P1") = PressAge("P2")

(***************************************************************************)
(* The verdict a call announces is one the presses of the game justify,    *)
(* whichever of the chained handlers of tick() gives it and whatever ticks *)
(* came before.  A player whom a tick found to have pressed before the     *)
(* request never wins against one it did not find so.  A player who is     *)
(* alone to have pressed loses by such an early press or by a wrong        *)
(* button, and wins by neither, but with the button asked for and once it  *)
(* has left the other the grace period after its press.  Where both have   *)
(* pressed the first wins, or neither if it was at the same instant; their *)
(* buttons do not count then, nor do presses before the request that both  *)
(* have made: WinsAreEarned says what the documentation says of those.     *)
(* Who presses after the last tick before the request is not found early.  *)
(***************************************************************************)
VerdictIsJustified ==
  \A m \in Outbox(room) :
    m.messageType \in GameOverType => IsJustified(room, m)

(* The match that the screens of the players show. *)
PlayersMatch ==
  INSTANCE Match WITH
    Nobody <- NULL,
    view <- [a \in Assignment |->
               IF IsSeated(room, a) THEN screen[room.players[a].id] ELSE NULL]

(***************************************************************************)
(* Seen by its players a room is a match: in every call both screens move  *)
(* together along the phases of Match, to the same verdict, and whoever    *)
(* stays when the other leaves is shown the lobby.                         *)
(***************************************************************************)
RoomIsAMatch == PlayersMatch!Spec
=============================================================================
