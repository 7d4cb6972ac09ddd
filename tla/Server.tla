------------------------------- MODULE Server -------------------------------
(***************************************************************************)
(* The whole server with its clients: the game thread and the network      *)
(* thread, each at its own pace, the hub between them, and connections     *)
(* over which clients join, act, leave, hang up and break.                 *)
(*                                                                         *)
(* A client asks for a room only when it is in none as far as it asked,    *)
(* acts in a room only once it was shown one, and sends a text when the    *)
(* one before was read: Conversations shows what happens to those it sends *)
(* faster.                                                                 *)
(***************************************************************************)
EXTENDS Gameplay, Screens

CONSTANTS
  MaxDescriptors,  \* how many client sockets the process may hold open
  MaxSaid,         \* bound: texts of all clients
  MaxGone          \* bound: clients that go

VARIABLES
  outbox,      \* gameplayMessagesByPlayerId
  clients,     \* connectedClients
  subscribed,  \* the keys of gameplayMessageCallbackByPlayerId
  place,       \* how far the network thread is in its round
  stream,      \* the texts that arrived and were not read
  peer,        \* each connection, as its client left it
  shown,       \* what each client shows
  said         \* bound: how many texts were sent

Net == INSTANCE Network WITH
  link <- [id \in PlayerId |-> client[id].link],
  Pieces <- 1, Roomy <- PlayerId, Blank <- NULL, Shown <- After

networkSide == <<clients, subscribed, place, stream, peer, shown>>

allVars == <<game, loop, client, joins, networkSide, connectivity, actions,
             outbox, said>>

(* The game thread does not move; what it last published is delivered. *)
GameRests == game' = Idle(game) /\ UNCHANGED loop

-----------------------------------------------------------------------------
(* The game thread: what a step publishes goes to the outboxes. *)

(* publishGameplayMessage: each message to the end of the queue of its id. *)
HandedOut(queues, published) ==
  LET handed[n \in 0..Len(published)] ==
        IF n = 0 THEN queues
                 ELSE [handed[n - 1] EXCEPT ![published[n].to] =
                         Append(@, published[n].message)]
  IN handed[Len(published)]

GameStep ==
  /\ Net!Running
  /\ GameThread
  /\ outbox' = HandedOut(outbox, game'.published)
  /\ UNCHANGED <<networkSide, said>>

-----------------------------------------------------------------------------
(* The network thread: what it does to the hub is what the game thread     *)
(* expects of it.                                                          *)

Accepts(id) ==
  /\ Connect(id)
  /\ Net!HandleNewClientConnection(id)

Hears(id) ==
  /\ stream[id] # << >>
  /\ PublishAction(id, Head(stream[id]).text)
  /\ UNCHANGED <<client, joins>>
  /\ Net!Receive(id, 1)

Loses(id) ==
  \/ Close(id) /\ Net!ReceiveEnd(id)
  \/ Fail(id) /\ Net!ReceiveError(id)

GoesOn ==
  /\ GameRests
  /\ UNCHANGED <<client, joins>>
  /\ \/ Net!NoNewConnection
     \/ Net!NextClient
     \/ \E id \in PlayerId :
          Net!ReceiveNothing(id) \/ Net!DispatchOne(id) \/ Net!Dispatched(id)

NetworkStep ==
  /\ GoesOn \/ \E id \in PlayerId : Accepts(id) \/ Hears(id) \/ Loses(id)
  /\ UNCHANGED said

-----------------------------------------------------------------------------
(* The clients *)

Says(id, message) ==
  /\ stream[id] = << >>
  /\ said < MaxSaid
  /\ said' = said + 1
  /\ Net!Say(id, message)
  /\ GameRests

AsksToJoin(id, difficulty) ==
  /\ client[id].wants = NULL
  /\ joins < MaxJoins
  /\ joins' = joins + 1
  /\ client' = [client EXCEPT ![id].wants = difficulty]
  /\ Says(id, [messageType |-> "JOIN_GAME", gameDifficulty |-> difficulty])

AsksToLeave(id) ==
  /\ client[id].wants # NULL
  /\ client' = [client EXCEPT ![id].wants = NULL]
  /\ UNCHANGED joins
  /\ Says(id, [messageType |-> "LEAVE_GAME"])

Acts(id, message) ==
  /\ client[id].wants # NULL
  /\ shown[id] # NULL
  /\ UNCHANGED <<client, joins>>
  /\ Says(id, message)

Gone == {id \in PlayerId : peer[id] \notin {"NONE", "OPEN"}}

ClientStep ==
  \E id \in PlayerId :
    \/ /\ GameRests
       /\ UNCHANGED <<client, joins, said>>
       /\ \/ Net!Dial(id)
          \/ Cardinality(Gone) < MaxGone /\ Net!HangUp(id)
    \/ \E difficulty \in Difficulty : AsksToJoin(id, difficulty)
    \/ AsksToLeave(id)
    \/ \E message \in ClientAction : Acts(id, message)

-----------------------------------------------------------------------------

ServerInit ==
  /\ Init
  /\ Net!NetworkInit
  /\ said = 0

ServerNext == GameStep \/ NetworkStep \/ ClientStep

ServerSpec == ServerInit /\ [][ServerNext]_allVars

(* Neither loop ever ends or waits; clients owe nothing. *)
FairServerSpec ==
  ServerSpec /\ WF_allVars(GameStep) /\ WF_allVars(NetworkStep)

-----------------------------------------------------------------------------
(* Safety *)

(* A client that is there, as the server knows. *)
There(id) == client[id].link = "CONNECTED" /\ peer[id] = "OPEN"

(***************************************************************************)
(* From the timers of a room to the screens: what a seated client shows    *)
(* once it has received what waits for it is the state its room is in,     *)
(* through earlier rooms it has left, the other's departure and errors on  *)
(* other connections.                                                      *)
(***************************************************************************)
ScreensFollowRooms ==
  \A id \in PlayerId : \A address \in RoomsOf(game, id) :
    There(id) =>
      ViewAfter(shown[id], outbox[id]).phase
        = game.room[address].gameplayState

(***************************************************************************)
(* A client whose texts have all been handled is where it asked to be: in  *)
(* one room if it has asked for one, in none if it has left, whatever the  *)
(* order in which the threads have seen its connection and its texts.      *)
(***************************************************************************)
ClientsGetWhatTheyAsked ==
  \A id \in PlayerId :
    There(id) /\ stream[id] = << >> /\ actions[id] = << >> =>
      Cardinality(RoomsOf(game, id))
        = IF client[id].wants = NULL THEN 0 ELSE 1

-----------------------------------------------------------------------------
(* Liveness, under FairServerSpec *)

(***************************************************************************)
(* Whoever asks for a room is shown one, unless it leaves or goes, or the  *)
(* process is killed by what it sends to another that has gone.            *)
(***************************************************************************)
JoinIsAnswered ==
  \/ <>(~ Net!Running)
  \/ \A id \in PlayerId :
       client[id].wants # NULL ~>
         \/ shown[id] # NULL
         \/ client[id].wants = NULL
         \/ peer[id] # "OPEN"
=============================================================================
