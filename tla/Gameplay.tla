------------------------------ MODULE Gameplay ------------------------------
(***************************************************************************)
(* The game thread (Gameplay.cpp, RoomManager.cpp and                      *)
(* GameplayMessageBroker.cpp) and what reaches it from the network thread  *)
(* through the queues of the MessageHub.                                   *)
(*                                                                         *)
(* The two threads interleave at every operation on a queue.  The game     *)
(* thread goes round: it empties the connectivity queue, then goes through *)
(* the players it has callbacks for, copies the callbacks of each and      *)
(* empties its queue of actions, one message a step, and ticks the rooms.  *)
(*                                                                         *)
(* The network thread pushes what sockets bring it: a client connects,     *)
(* sends actions, and closes the connection at any moment, or the          *)
(* connection fails, which pushes a DISCONNECT and, once the socket is     *)
(* read again, a second one.  Ids are never used twice.                    *)
(***************************************************************************)
EXTENDS RoomManager, FiniteSets

LOCAL INSTANCE FiniteSetsExt

CONSTANTS
  Difficulty,    \* bound: the difficulties clients ask for
  ClientAction,  \* bound: the actions clients send to rooms
  Polite,        \* whether clients only act where they were told they are
  MaxQueued,     \* bound: actions waiting to be handled
  MaxJoins       \* bound: JOIN_GAME messages of all clients

ASSUME ClientsAssumption ==
  /\ Difficulty \subseteq GameDifficulty
  /\ ClientAction \subseteq SetReadyState \cup NotifyCanPlay \cup PlayerInput
                              \cup SetReplayReadyState
  /\ Polite \in BOOLEAN
  /\ NULL \notin GameDifficulty
  /\ MaxQueued \in Nat
  /\ MaxJoins \in Nat

VARIABLES
  game,          \* rooms and subscriptions
  connectivity,  \* playerConnectivityMessages
  actions,       \* playerActionMessagesByPlayerId
  loop,          \* how far the game thread is in its loop
  client,        \* each client and its connection
  joins          \* bound: how many JOIN_GAME messages were sent

vars == <<game, connectivity, actions, loop, client, joins>>

ConnectivityMessage == [messageType: {"CONNECT", "DISCONNECT"}, id: PlayerId]

(* left: the players whose queue is still to be looked at in this round. *)
Loop == [at: {"CONNECTIVITY", "PLAYERS", "DRAIN"},
         left: SUBSET PlayerId,
         id: PlayerId \cup {NULL},
         callbacks: Seq(Address \cup {GAMEPLAY})]

(* wants: the difficulty of the room the client is in as far as it sent. *)
Client == [link: {"AWAY", "CONNECTED", "FAILED", "CLOSED"},
           wants: GameDifficulty \cup {NULL}]

At(place, left) ==
  [at |-> place, left |-> left, id |-> NULL, callbacks |-> << >>]

(* Mutation: the players are those of the map of queues. *)
ListenedAll == PlayerId

Listened == {id \in PlayerId : game.callbacks[id] # << >>}

NumberQueued ==
  LET Waiting(id) == Len(actions[id])
  IN MapThenSumSet(Waiting, PlayerId)

Idle(g) == [g EXCEPT !.published = << >>]

-----------------------------------------------------------------------------
(* The game thread *)

(* CONNECT subscribes twice if it comes twice; DISCONNECT may come twice. *)
HandlePlayerConnectivityMessage(g, message) ==
  IF message.messageType = "CONNECT"
    THEN Subscribe(g, message.id, GAMEPLAY)
    ELSE Unsubscribe(RemovePlayerFromRoom(g, message.id), message.id, GAMEPLAY)

DispatchConnectivity ==
  /\ loop.at = "CONNECTIVITY"
  /\ connectivity # << >>
  /\ game' = HandlePlayerConnectivityMessage(Idle(game), Head(connectivity))
  /\ connectivity' = Tail(connectivity)
  /\ UNCHANGED <<actions, loop, client, joins>>

GoThroughPlayers ==
  /\ loop.at = "CONNECTIVITY"
  /\ connectivity = << >>
  /\ loop' = At("PLAYERS", Listened)
  /\ game' = Idle(game)
  /\ UNCHANGED <<connectivity, actions, client, joins>>

(* The order of the players is that of an unordered_map. *)
CopyCallbacks(id) ==
  /\ loop.at = "PLAYERS"
  /\ id \in loop.left
  /\ loop' = [at |-> "DRAIN", left |-> loop.left \ {id}, id |-> id,
              callbacks |-> game.callbacks[id]]
  /\ game' = Idle(game)
  /\ UNCHANGED <<connectivity, actions, client, joins>>

(* Where a room may be allocated for a message, if it makes one. *)
FreshFor(message) ==
  IF message.messageType = "JOIN_GAME"
       /\ FindRoom(game, message.gameDifficulty) = 0
    THEN {address \in Address : ~ Alive(game, address)}
    ELSE {NULL}

DispatchAction ==
  /\ loop.at = "DRAIN"
  /\ actions[loop.id] # << >>
  /\ \E fresh \in FreshFor(Head(actions[loop.id])) :
       game' = Dispatch(Idle(game), loop.id, Head(actions[loop.id]),
                        loop.callbacks, fresh)
  /\ actions' = [actions EXCEPT ![loop.id] = Tail(@)]
  /\ UNCHANGED <<connectivity, loop, client, joins>>

(* Mutation: the next player is looked for from the beginning again. *)
EndDrainFromBeginning ==
  /\ loop.at = "DRAIN"
  /\ actions[loop.id] = << >>
  /\ loop' = At("PLAYERS", Listened)
  /\ game' = Idle(game)
  /\ UNCHANGED <<connectivity, actions, client, joins>>

EndDrain ==
  /\ loop.at = "DRAIN"
  /\ actions[loop.id] = << >>
  /\ loop' = At("PLAYERS", loop.left)
  /\ game' = Idle(game)
  /\ UNCHANGED <<connectivity, actions, client, joins>>

TickRooms ==
  /\ loop.at = "PLAYERS"
  /\ loop.left = {}
  /\ \E input \in [Address -> GameplayInput] :
       /\ \A address \in Address :
            Alive(game, address) =>
              input[address] \in
                GetRandomGameplayInput(game.room[address].difficulty)
       /\ game' = TickAllRooms(Idle(game), input)
  /\ loop' = At("CONNECTIVITY", {})
  /\ UNCHANGED <<connectivity, actions, client, joins>>

GameThread ==
  \/ DispatchConnectivity
  \/ GoThroughPlayers
  \/ \E id \in PlayerId : CopyCallbacks(id)
  \/ DispatchAction
  \/ EndDrain
  \/ TickRooms

-----------------------------------------------------------------------------
(* The network thread *)

PublishConnectivity(type, id, link) ==
  /\ connectivity' = Append(connectivity, [messageType |-> type, id |-> id])
  /\ client' = [client EXCEPT ![id].link = link]
  /\ game' = Idle(game)
  /\ UNCHANGED <<actions, loop, joins>>

PublishAction(id, message) ==
  /\ client[id].link = "CONNECTED"
  /\ NumberQueued < MaxQueued
  /\ actions' = [actions EXCEPT ![id] = Append(@, message)]
  /\ game' = Idle(game)
  /\ UNCHANGED <<connectivity, loop>>

Connect(id) ==
  client[id].link = "AWAY" /\ PublishConnectivity("CONNECT", id, "CONNECTED")

Close(id) ==
  /\ client[id].link \in {"CONNECTED", "FAILED"}
  /\ PublishConnectivity("DISCONNECT", id, "CLOSED")

Fail(id) ==
  /\ client[id].link = "CONNECTED"
  /\ PublishConnectivity("DISCONNECT", id, "FAILED")

Join(id, difficulty) ==
  /\ Polite => client[id].wants = NULL
  /\ joins < MaxJoins
  /\ joins' = joins + 1
  /\ PublishAction(id, [messageType |-> "JOIN_GAME",
                        gameDifficulty |-> difficulty])
  /\ client' = [client EXCEPT ![id].wants = difficulty]

Leave(id) ==
  /\ Polite => client[id].wants # NULL
  /\ PublishAction(id, [messageType |-> "LEAVE_GAME"])
  /\ client' = [client EXCEPT ![id].wants = NULL]
  /\ UNCHANGED joins

(* A client can know that it is in a room as soon as it is seated. *)
Act(id, message) ==
  /\ Polite => client[id].wants # NULL /\ RoomsOf(game, id) # {}
  /\ PublishAction(id, message)
  /\ UNCHANGED <<client, joins>>

NetworkThread ==
  \E id \in PlayerId :
    \/ Connect(id)
    \/ Close(id)
    \/ Fail(id)
    \/ \E difficulty \in Difficulty : Join(id, difficulty)
    \/ Leave(id)
    \/ \E message \in ClientAction : Act(id, message)

-----------------------------------------------------------------------------

Init ==
  /\ game = NewGame
  /\ connectivity = << >>
  /\ actions = [id \in PlayerId |-> << >>]
  /\ loop = At("CONNECTIVITY", {})
  /\ client = [id \in PlayerId |-> [link |-> "AWAY", wants |-> NULL]]
  /\ joins = 0

Next == GameThread \/ NetworkThread

Spec == Init /\ [][Next]_vars

(* The game loop never ends and never waits; clients owe nothing. *)
FairSpec == Spec /\ WF_vars(GameThread)

-----------------------------------------------------------------------------
(* Safety *)

TypeOK ==
  /\ game \in Game
  /\ connectivity \in Seq(ConnectivityMessage)
  /\ actions \in [PlayerId -> Seq(PlayerActionMessage)]
  /\ loop \in Loop
  /\ client \in [PlayerId -> Client]
  /\ joins \in 0..MaxJoins

(***************************************************************************)
(* Whoever is seated can be heard: through any number of rooms joined and  *)
(* left, and with no subscription ever undone, a seated player has the     *)
(* callbacks of its room and of the room manager.                          *)
(***************************************************************************)
SeatsAreReachable ==
  \A id \in PlayerId : \A address \in RoomsOf(game, id) :
    HasCallback(game, id, address) /\ HasCallback(game, id, GAMEPLAY)

(***************************************************************************)
(* Nothing in the rooms forbids a player to be seated twice, yet a client  *)
(* that leaves before it joins again, and that may vanish at any moment,   *)
(* never is: no seat is left behind in one room when another is taken.     *)
(***************************************************************************)
OneSeatPerPlayer ==
  \A id \in PlayerId :
    Cardinality({seat \in Address \X Assignment :
                   /\ Alive(game, seat[1])
                   /\ seat[2] \in SeatsOf(game.room[seat[1]], id)}) <= 1

(***************************************************************************)
(* rooms holds each live room once, and no room that nobody is in, which   *)
(* nothing would ever remove: leaving through the callback of the room     *)
(* rather than through the room manager must not be what empties it.       *)
(***************************************************************************)
NoOrphanRoom ==
  /\ {game.rooms[i] : i \in DOMAIN game.rooms}
       = {address \in Address : Alive(game, address)}
  /\ \A i, j \in DOMAIN game.rooms : game.rooms[i] = game.rooms[j] => i = j
  /\ \A i \in DOMAIN game.rooms : ~ IsEmpty(game.room[game.rooms[i]])

(***************************************************************************)
(* A player sits in a room of the difficulty it asked for last, unless     *)
(* what it sent since is still waiting to be handled.                      *)
(***************************************************************************)
MatchedByDifficulty ==
  \A id \in PlayerId : \A address \in RoomsOf(game, id) :
    actions[id] = << >> => game.room[address].difficulty = client[id].wants

(***************************************************************************)
(* Nobody is made to wait in a room of its own while another waits in one  *)
(* of the same difficulty: a room is made only when all of its difficulty  *)
(* are full, also those that were full once and have lost a player.        *)
(***************************************************************************)
NewcomersAreMatched ==
  [][\A address \in Address :
       ~ Alive(game, address) /\ Alive(game', address) =>
         \A other \in Address :
           /\ Alive(game, other)
           /\ game.room[other].difficulty = game'.room[address].difficulty
           => IsFull(game.room[other])]_vars

(***************************************************************************)
(* Nothing is published for who is not seated, so that the queue of who    *)
(* has gone stops growing: not by the departure itself, by a subscription  *)
(* that outlived the seat, nor by a timer of the room it has left.         *)
(***************************************************************************)
NothingForTheAbsent ==
  \A i \in DOMAIN game.published : RoomsOf(game, game.published[i].to) # {}

(* The room but for the messages of the last call. *)
Seen(g, address) == IF Alive(g, address) THEN Begin(g.room[address]) ELSE NULL

(***************************************************************************)
(* Callbacks are never taken back, and outlive both the seat and the room  *)
(* they were made for; still, an action changes no room but those its      *)
(* player was or is now seated in, also where a later room was allocated   *)
(* at the address of an earlier one.                                       *)
(***************************************************************************)
ActionsStayHome ==
  [][loop.at = "DRAIN" =>
       \A address \in Address :
         Seen(game, address) # Seen(game', address) =>
           address \in RoomsOf(game, loop.id) \cup RoomsOf(game', loop.id)]_vars

(***************************************************************************)
(* Handling a DISCONNECT frees every seat of the player, in whatever room  *)
(* and state of the game it is, also if it is the second of two.           *)
(***************************************************************************)
DisconnectFreesSeats ==
  [][connectivity # << >> /\ connectivity' = Tail(connectivity) =>
       LET message == Head(connectivity)
       IN message.messageType = "DISCONNECT" =>
            RoomsOf(game', message.id) = {}]_vars

-----------------------------------------------------------------------------
(* Liveness, under FairSpec *)

(***************************************************************************)
(* No client is starved by the order in which the loop serves them: the    *)
(* queue of each is emptied again and again, unless one client sends so    *)
(* fast that the game thread never gets out of its queue.                  *)
(***************************************************************************)
EveryoneIsServed ==
  \/ <>[](loop.at = "DRAIN")
  \/ \A id \in PlayerId : []<>(actions[id] = << >>)

-----------------------------------------------------------------------------
(* What the documentation and the tests say, and the code does not do *)

(* The messages of a type that the last step published for an id. *)
PublishedTo(g, id, type) ==
  {i \in DOMAIN g.published :
     /\ g.published[i].to = id
     /\ g.published[i].message.messageType = type}

(***************************************************************************)
(* "countMessagesPendingForPlayer(firstPlayerId) == 1"                     *)
(* (tests/room/gameplay.cpp:36): a change of ready state is told once.     *)
(***************************************************************************)
ReadyChangeIsToldOnce ==
  \A id \in PlayerId :
    Cardinality(PublishedTo(game, id, "PLAYER_READY_STATE_CHANGED")) <= 1

(***************************************************************************)
(* "A player changes his ready state [...] Both players are notified"      *)
(* (tests/room/gameplay.cpp:30-35): the SET_READY_STATE of a player that   *)
(* is seated in a room waiting for its players is answered.                *)
(***************************************************************************)
SeatedPlayerIsHeard ==
  [][\A id \in PlayerId :
       /\ actions[id] # << >> /\ actions'[id] = Tail(actions[id])
       /\ Head(actions[id]).messageType = "SET_READY_STATE"
       /\ \E address \in RoomsOf(game, id) :
            game.room[address].gameplayState = "WAITING_PLAYERS"
       => PublishedTo(game', id, "PLAYER_READY_STATE_CHANGED") # {}]_vars

(***************************************************************************)
(* "a two players reflex game" (README.md:7): no game is played by a       *)
(* player against itself.                                                  *)
(***************************************************************************)
GamesHaveTwoPlayers ==
  \A address \in Address :
    LET room == game.room[address]
    IN Alive(game, address) /\ room.gameplayState # "WAITING_PLAYERS" =>
         room.players["P1"].id # room.players["P2"].id

(***************************************************************************)
(* "a two players reflex game" (README.md:7): a game is between players    *)
(* who are there, or whose DISCONNECT is still to be handled.              *)
(***************************************************************************)
GamesAreBetweenTheConnected ==
  \A address \in Address : \A a \in Assignment :
    Alive(game, address)
      /\ game.room[address].gameplayState # "WAITING_PLAYERS" =>
        LET id == game.room[address].players[a].id
        IN \/ client[id].link = "CONNECTED"
           \/ [messageType |-> "DISCONNECT", id |-> id]
                \in {connectivity[n] : n \in DOMAIN connectivity}
=============================================================================
