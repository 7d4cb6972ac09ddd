-------------------------------- MODULE Room --------------------------------
(***************************************************************************)
(* One room and everything that may call it: the room manager seats and    *)
(* removes players, the message broker hands it the actions of players in  *)
(* any order and at any moment, the game loop ticks it, and time passes.   *)
(* The calls and what they do are in RoomHandlers.                         *)
(*                                                                         *)
(* Nothing on the way to the room filters what a client sends, so a player *)
(* of the room may send any action in any state, and a client may join the *)
(* room it is already in.                                                  *)
(***************************************************************************)
EXTENDS RoomHandlers

CONSTANTS
  Difficulty,   \* bound: the difficulties of the rooms looked at
  ClientInput   \* bound: the buttons that clients press

ASSUME BoundsAssumption ==
  /\ Difficulty \subseteq GameDifficulty
  /\ ClientInput \subseteq GameplayInput

VARIABLE room

(* What clients may send to the room. *)
ClientMessage == {m \in RoomActionMessage :
                    m.messageType = "PLAYER_INPUT" =>
                      m.inputPressed \in ClientInput}

-----------------------------------------------------------------------------

Init == \E difficulty \in Difficulty : room = NewRoom(difficulty)

DoAddPlayer(id) == room' = AddPlayer(Begin(room), id)

DoRemovePlayer(id) == room' = RemovePlayer(Begin(room), id)

DoPlayerMessage(id, message) ==
  room' = HandlePlayerMessage(Begin(room), id, message)

DoTick ==
  \E input \in GetRandomGameplayInput(room.difficulty) :
    room' = Tick(Begin(room), input)

TimePasses == room' = Elapse(Begin(room))

Next ==
  \/ \E id \in PlayerId :
       \/ DoAddPlayer(id)
       \/ DoRemovePlayer(id)
       \/ \E message \in ClientMessage : DoPlayerMessage(id, message)
  \/ DoTick
  \/ TimePasses

Spec == Init /\ [][Next]_room

(***************************************************************************)
(* The game loop ticks every room for ever and no clock stands still;      *)
(* nothing obliges a player to do anything.                                *)
(***************************************************************************)
FairSpec == Spec /\ WF_room(DoTick) /\ WF_room(TimePasses)

-----------------------------------------------------------------------------
(* Safety *)

TypeOK == room \in RoomState

(***************************************************************************)
(* Nothing catches what tick() throws (Gameplay.cpp:9-15), and tick() and  *)
(* its handlers take the value of seven optionals.  Whatever players sent, *)
(* and whoever came and went, those optionals hold a value: a game is only *)
(* on in a full room, an input is expected since a known time, and an      *)
(* input that was pressed was pressed at a known time.                     *)
(***************************************************************************)
TickNeverThrows == ValuesAreHeld(room)

(***************************************************************************)
(* No timer outlives the game it was started for, through any number of    *)
(* rematches, departures and arrivals: the countdown runs only once both   *)
(* players of the current game can play, the input timeout only once an    *)
(* input was asked for, and the lobby has neither.                         *)
(***************************************************************************)
TimersBelongToTheGame == TimersFit(room)

(* Which of the messages of the last call are verdicts. *)
VerdictsAt(r) ==
  {i \in DOMAIN r.published :
     r.published[i].message.messageType \in GameOverType}

Running(r) == r.gameplayState \in {"STARTED", "EXPECTING_INPUT"}

(***************************************************************************)
(* A game has one verdict: GAME_OVER messages leave the room only in the   *)
(* call that ends a running game, as one same message for each of the two  *)
(* players, and no running game ends without it unless somebody leaves.    *)
(***************************************************************************)
OneVerdictPerGame ==
  [][IF Running(room) /\ ~ Running(room') /\ IsFull(room')
       THEN \E first, second \in VerdictsAt(room') :
              /\ VerdictsAt(room') = {first, second}
              /\ first < second
              /\ room'.published[first].to = room.players["P1"].id
              /\ room'.published[second]
                   = [room'.published[first] EXCEPT
                        !.to = room.players["P2"].id]
       ELSE VerdictsAt(room') = {}]_room

-----------------------------------------------------------------------------
(* Liveness, under FairSpec *)

JustPressed ==
  \E a \in Assignment :
    /\ IsSeated(room, a)
    /\ room.players[a].inputPressedAtServerTime = GetTimeNow

(***************************************************************************)
(* Every request for an input ends, with a verdict or because somebody     *)
(* leaves, unless a player presses for ever: each further press restarts   *)
(* the grace period the room gives the other player.                       *)
(***************************************************************************)
RequestEnds ==
  \/ []<>JustPressed
  \/ (room.gameplayState = "EXPECTING_INPUT"
        ~> room.gameplayState # "EXPECTING_INPUT")

(***************************************************************************)
(* Once both players have said they can play, the countdown ends whatever  *)
(* they do next: with the request, an early verdict, or a departure.       *)
(***************************************************************************)
CountdownEnds ==
  (room.gameplayState = "STARTED" /\ EveryoneCanPlay(room))
    ~> room.gameplayState # "STARTED"

(***************************************************************************)
(* Two players who stay ready are not left waiting, neither in the lobby   *)
(* nor after a game.                                                       *)
(***************************************************************************)
ReadyPlayersGetAGame ==
  /\ []<>~(room.gameplayState = "WAITING_PLAYERS" /\ IsEveryoneReady(room))
  /\ []<>~(room.gameplayState = "OVER" /\ EveryoneWantsToReplay(room))

-----------------------------------------------------------------------------
(* What the documentation and the tests say, and the code does not do *)

(***************************************************************************)
(* "the first to press the *correct* button wins" (README.md:7): nobody    *)
(* wins with a button other than the one that was asked for.               *)
(***************************************************************************)
CorrectButtonWins ==
  \A m \in Outbox(room) :
    m.messageType = "GAME_OVER_WIN" =>
      room.players[m.gameResult.winningPlayer].inputPressed
        = room.expectedInput

(***************************************************************************)
(* "player pressed too early - failed" (Room.cpp:79): nobody wins with a   *)
(* press older than the request for it.                                    *)
(***************************************************************************)
EarlyPressNeverWins ==
  \A m \in Outbox(room) :
    m.messageType = "GAME_OVER_WIN" =>
      room.players[m.gameResult.winningPlayer].inputPressedAtServerTime
        <= room.readyForInputAt

(***************************************************************************)
(* The two together, each as much as the other needs: nobody wins with a   *)
(* wrong button that it also pressed before any was asked for.  A verdict  *)
(* that breaks this breaks what README.md:7 and what Room.cpp:79 say.      *)
(***************************************************************************)
WinsAreEarned == CorrectButtonWins \/ EarlyPressNeverWins

(***************************************************************************)
(* "the client is owning the timer [...] The time to press is sent to the  *)
(* server and is considered trustworthy" (README.md:58): when both have    *)
(* pressed, the winner is not slower, by the times the clients sent.       *)
(***************************************************************************)
FastestPlayerWins ==
  \A m \in Outbox(room) :
    m.messageType = "GAME_OVER_WIN" /\ EveryonePlayed(room) =>
      LET winner == m.gameResult.winningPlayer
      IN room.players[winner].timeToPress
           <= room.players[OtherAssignment(winner)].timeToPress

(***************************************************************************)
(* "Both players are notified with the new player state"                   *)
(* (tests/room/gameplay.cpp:35): no player turns ready or unready in the   *)
(* lobby without those in the room being told.                             *)
(***************************************************************************)
ReadyChangesAreAnnounced ==
  [][\A a \in Assignment :
       /\ IsSeated(room, a) /\ IsSeated(room', a)
       /\ room.players[a].id = room'.players[a].id
       /\ room.gameplayState = "WAITING_PLAYERS"
       /\ room.players[a].isReady # room'.players[a].isReady
       => \E m \in Outbox(room') :
            /\ m.messageType = "PLAYER_READY_STATE_CHANGED"
            /\ m.playerAssignment = a
            /\ m.isReady = room'.players[a].isReady]_room
=============================================================================
