---------------------------- MODULE GameplayProofs ----------------------------
(***************************************************************************)
(* Proofs about the game thread and the queues it reads.                   *)
(***************************************************************************)
EXTENDS Gameplay, RoomManagerProofs

(* Who is listened to still is when its turn comes. *)
LoopFits ==
  /\ loop.left \subseteq Listened
  /\ loop.at = "DRAIN" =>
       /\ loop.id \in Listened
       /\ loop.callbacks # << >>
       /\ ManagerFirst(loop.callbacks)

ConnectAt(i, id) ==
  i \in DOMAIN connectivity
    /\ connectivity[i] = [messageType |-> "CONNECT", id |-> id]

(* A CONNECT is the first thing of its player, and comes once. *)
ConnectFits ==
  \A id \in PlayerId :
    /\ client[id].link = "AWAY" => game.callbacks[id] = << >>
    /\ \A i \in DOMAIN connectivity :
         ConnectAt(i, id) => /\ client[id].link # "AWAY"
                             /\ game.callbacks[id] = << >>
    /\ \A i, j \in DOMAIN connectivity :
         ConnectAt(i, id) /\ ConnectAt(j, id) => i = j

(* The inductive invariant: what holds whatever clients do. *)
Fits ==
  /\ TypeOK
  /\ GameHolds(game)
  /\ Reachable(game)
  /\ LoopFits
  /\ ConnectFits

-----------------------------------------------------------------------------
(* What each step does to the game *)

(* The game with the messages of the last step forgotten. *)
LEMMA IdleFacts ==
  ASSUME NEW g, GameHolds(g)
  PROVE  /\ GameHolds(Idle(g))
         /\ Idle(g).rooms = g.rooms /\ Idle(g).room = g.room
         /\ Idle(g).callbacks = g.callbacks
         /\ Idle(g).published = << >>
         /\ \A x, y : SeatsIn(Idle(g), x, y) = SeatsIn(g, x, y)
         /\ \A x : Alive(Idle(g), x) <=> Alive(g, x)
         /\ \A y : RoomsOf(Idle(g), y) = RoomsOf(g, y)
         /\ Reachable(g) => Reachable(Idle(g))
         /\ NobodyAbsent(Idle(g))
         /\ SeatedOnce(g) => SeatedOnce(Idle(g))
         /\ Inhabited(g) => Inhabited(Idle(g))
         /\ \A d : FindRoom(Idle(g), d) = FindRoom(g, d)
<1> DEFINE h == Idle(g)
<1>1. /\ h \in Game
      /\ h.rooms = g.rooms /\ h.room = g.room
      /\ h.callbacks = g.callbacks /\ h.published = << >>
  <2>1. << >> \in Seq(Published)
    OBVIOUS
  <2> QED
    BY <2>1 DEF GameHolds, Game, Idle
<1>2. \A d : FindRoom(h, d) = FindRoom(g, d)
  BY <1>1 DEF FindRoom
<1> HIDE DEF h
<1>3. \A x : Alive(h, x) <=> Alive(g, x)
  BY <1>1 DEF Alive
<1>4. /\ \A x, y : SeatsIn(h, x, y) = SeatsIn(g, x, y)
      /\ \A y : RoomsOf(h, y) = RoomsOf(g, y)
  BY <1>1 DEF SeatsIn, RoomsOf, Alive
<1>5. GameHolds(h)
  BY <1>1, <1>3 DEF GameHolds, LiveRoomsFit, RoomsListed
<1>6. Reachable(g) => Reachable(h)
  BY <1>1, <1>4 DEF Reachable, HasCallback
<1>7. NobodyAbsent(h)
  BY <1>1 DEF NobodyAbsent
<1>8. (SeatedOnce(g) => SeatedOnce(h)) /\ (Inhabited(g) => Inhabited(h))
  BY <1>1, <1>3, <1>4 DEF SeatedOnce, Inhabited
<1> QED
  BY <1>1, <1>2, <1>3, <1>4, <1>5, <1>6, <1>7, <1>8 DEF h

LEMMA IdleIsWithout ==
  ASSUME NEW g, GameHolds(g)
  PROVE  /\ \A id, h : Without(h, Idle(g), id) => Without(h, g, id)
         /\ \A h : SameCompany(h, Idle(g)) => SameCompany(h, g) /\ NobodyAbsent(h)
         /\ \A h, id : AtHome(h, Idle(g), id) => AtHome(h, g, id)
         /\ \A h, id, address, a :
              Seated(h, Idle(g), id, address, a) =>
                Seated(h, g, id, address, a) /\ NobodyAbsent(h)
<1> DEFINE k == Idle(g)
<1>1. /\ k.rooms = g.rooms /\ k.room = g.room
      /\ k.callbacks = g.callbacks
      /\ \A x, y : SeatsIn(k, x, y) = SeatsIn(g, x, y)
      /\ \A x : Alive(k, x) <=> Alive(g, x)
      /\ NobodyAbsent(k)
  BY IdleFacts
<1> HIDE DEF k
<1>2. \A h, id : AtHome(h, k, id) => AtHome(h, g, id)
  BY <1>1 DEF AtHome
<1>3. \A id, h : Without(h, k, id) => Without(h, g, id)
  BY <1>1, <1>2 DEF Without
<1>4. \A h : SameCompany(h, k) => SameCompany(h, g) /\ NobodyAbsent(h)
  BY <1>1 DEF SameCompany
<1>5. ASSUME NEW h, NEW id, NEW address, NEW a, Seated(h, k, id, address, a)
      PROVE  Seated(h, g, id, address, a) /\ NobodyAbsent(h)
  BY <1>1, <1>5 DEF Seated
<1> QED
  BY <1>2, <1>3, <1>4, <1>5 DEF k

(* CONNECT. *)
LEMMA ConnectStep ==
  ASSUME Fits, DispatchConnectivity,
         Head(connectivity).messageType = "CONNECT"
  PROVE  LET id == Head(connectivity).id
         IN /\ id \in PlayerId /\ ConnectAt(1, id)
            /\ game.callbacks[id] = << >>
            /\ GameHolds(game') /\ Reachable(game')
            /\ game'.rooms = game.rooms /\ game'.room = game.room
            /\ game'.published = << >>
            /\ game'.callbacks = [game.callbacks EXCEPT ![id] = <<GAMEPLAY>>]
<1> DEFINE id == Head(connectivity).id
           g == Idle(game)
           h == Subscribe(g, id, GAMEPLAY)
<1>1. connectivity \in Seq(ConnectivityMessage) /\ connectivity # << >>
  BY DEF Fits, TypeOK, DispatchConnectivity
<1>2. /\ connectivity[1] \in ConnectivityMessage
      /\ connectivity[1] = Head(connectivity)
      /\ 1 \in DOMAIN connectivity
  BY <1>1
<1>3. id \in PlayerId /\ ConnectAt(1, id)
  BY <1>2 DEF ConnectAt, ConnectivityMessage
<1>4. game' = h
  BY DEF DispatchConnectivity, HandlePlayerConnectivityMessage
<1> HIDE DEF id
<1>5. game.callbacks[id] = << >>
  BY <1>2, <1>3 DEF Fits, ConnectFits
<1>6. GameHolds(game) /\ Reachable(game)
  BY DEF Fits
<1>7. /\ GameHolds(g) /\ Reachable(g)
      /\ g.rooms = game.rooms /\ g.room = game.room
      /\ g.callbacks = game.callbacks /\ g.published = << >>
  BY <1>6, IdleFacts
<1> HIDE DEF g, h
<1>8. /\ GameHolds(h)
      /\ h.rooms = g.rooms /\ h.room = g.room
      /\ h.published = g.published
      /\ h.callbacks = [g.callbacks EXCEPT ![id] = <<GAMEPLAY>>]
  BY <1>3, <1>5, <1>7, FirstSubscription DEF h
<1>9. Reachable(h)
  BY <1>3, <1>5, <1>7, <1>8, FirstSubscriptionReachable
<1> QED
  BY <1>3, <1>4, <1>5, <1>7, <1>8, <1>9 DEF id

(* DISCONNECT. *)
LEMMA DisconnectStep ==
  ASSUME Fits, DispatchConnectivity,
         Head(connectivity).messageType # "CONNECT"
  PROVE  LET id == Head(connectivity).id
         IN /\ id \in PlayerId
            /\ Without(game', game, id)
            /\ NobodyAbsent(game')
            /\ Inhabited(game) => Inhabited(game')
            /\ SeatedOnce(game) => RoomsOf(game', id) = {}
<1> DEFINE id == Head(connectivity).id
           g == Idle(game)
           h == RemovePlayerFromRoom(g, id)
<1>1. connectivity \in Seq(ConnectivityMessage) /\ connectivity # << >>
  BY DEF Fits, TypeOK, DispatchConnectivity
<1>2. id \in PlayerId
  <2>1. connectivity[1] \in ConnectivityMessage /\ id = connectivity[1].id
    BY <1>1
  <2> QED
    BY <2>1 DEF ConnectivityMessage
<1>3. game' = h
  BY DEF DispatchConnectivity, HandlePlayerConnectivityMessage, Unsubscribe
<1> HIDE DEF id
<1>4. GameHolds(game)
  BY DEF Fits
<1>5. /\ GameHolds(g) /\ g.published = << >>
      /\ Inhabited(game) => Inhabited(g)
      /\ SeatedOnce(game) => SeatedOnce(g)
  BY <1>4, IdleFacts
<1>6. Without(h, g, id) => Without(h, game, id)
  BY <1>4, IdleIsWithout
<1> HIDE DEF g
<1>7. /\ Without(h, g, id)
      /\ NobodyAbsent(h)
      /\ Inhabited(g) => Inhabited(h)
      /\ \/ h = g /\ \A x \in Address : SeatsIn(g, x, id) = {}
         \/ \E x \in Address : \E a \in SeatsIn(g, x, id) :
              SeatsIn(h, x, id) = SeatsIn(g, x, id) \ {a}
  BY <1>2, <1>5, RemovePlayerFromRoomFacts
<1> HIDE DEF h
<1>8. SeatedOnce(g) => \A x \in Address : SeatsIn(h, x, id) = {}
  BY <1>2, <1>7 DEF SeatedOnce, Without
<1>9. SeatedOnce(g) => RoomsOf(h, id) = {}
  BY <1>8, RoomsAndSeats DEF RoomsOf
<1> QED
  BY <1>2, <1>3, <1>5, <1>6, <1>7, <1>9 DEF id

(* TickRooms. *)
LEMMA TickStep ==
  ASSUME Fits, TickRooms
  PROVE  SameCompany(game', game) /\ NobodyAbsent(game')
<1> DEFINE g == Idle(game)
<1>1. GameHolds(game)
  BY DEF Fits
<1>2. GameHolds(g)
  BY <1>1, IdleFacts
<1>3. PICK input \in [Address -> GameplayInput] : game' = TickAllRooms(g, input)
  BY DEF TickRooms
<1> HIDE DEF g
<1>4. SameCompany(game', g)
  BY <1>2, <1>3, TickAllRoomsKeepsCompany
<1> QED
  BY <1>1, <1>4, IdleIsWithout DEF g

(* The steps that leave the rooms alone. *)
LEMMA IdleStep ==
  ASSUME Fits, game' = Idle(game)
  PROVE  /\ SameCompany(game', game) /\ NobodyAbsent(game')
         /\ game'.room = game.room
         /\ \A id : AtHome(game', game, id)
<1>1. GameHolds(game)
  BY DEF Fits
<1>2. GameHolds(Idle(game)) /\ Idle(game).room = game.room
  BY <1>1, IdleFacts
<1>3. SameCompany(Idle(game), Idle(game))
  BY <1>2, SameCompanyReflexive
<1>4. SameCompany(Idle(game), game) /\ NobodyAbsent(Idle(game))
  BY <1>1, <1>3, IdleIsWithout
<1> QED
  BY <1>2, <1>4 DEF AtHome

(* DispatchAction, for JOIN_GAME, LEAVE_GAME and all other messages. *)
LEMMA ActionStep ==
  ASSUME Fits, DispatchAction
  PROVE  LET id == loop.id
             m == Head(actions[loop.id])
         IN /\ id \in PlayerId /\ m \in PlayerActionMessage
            /\ m \in JoinGame =>
                 \E address \in Address, a \in Assignment :
                   /\ Seated(game', game, id, address, a)
                   /\ NobodyAbsent(game')
                   /\ game'.room[address].difficulty = m.gameDifficulty
                   /\ Alive(game, address) =>
                        game.room[address].difficulty = m.gameDifficulty
                   /\ ~ Alive(game, address) =>
                        \A x \in Address :
                          Alive(game, x)
                            /\ game.room[x].difficulty = m.gameDifficulty =>
                              IsFull(game.room[x])
            /\ m \in LeaveGame => Without(game', game, id)
            /\ m \in LeaveGame /\ SeatedOnce(game) =>
                 /\ NobodyAbsent(game')
                 /\ Inhabited(game) => Inhabited(game')
                 /\ RoomsOf(game', id) = {}
            /\ m \in RoomActionMessage \ LeaveGame =>
                 /\ SameCompany(game', game) /\ NobodyAbsent(game')
                 /\ AtHome(game', game, id)
<1> DEFINE id == loop.id
           m == Head(actions[loop.id])
           g == Idle(game)
           callbacks == loop.callbacks
<1>1. /\ GameHolds(game)
      /\ id \in PlayerId /\ game.callbacks[id] # << >>
      /\ callbacks \in Seq(Address \cup {GAMEPLAY})
      /\ callbacks # << >> /\ ManagerFirst(callbacks)
  BY DEF Fits, TypeOK, Loop, LoopFits, Listened, DispatchAction
<1>2. m \in PlayerActionMessage
  BY <1>1 DEF Fits, TypeOK, DispatchAction
<1>3. PICK fresh \in FreshFor(m) : game' = Dispatch(g, id, m, callbacks, fresh)
  BY DEF DispatchAction
<1> HIDE DEF id, m, callbacks
<1>4. m \in JoinGame => m.messageType = "JOIN_GAME"
  BY DEF JoinGame
<1>5. /\ GameHolds(g) /\ g.published = << >>
      /\ g.callbacks = game.callbacks /\ g.room = game.room
      /\ \A x : Alive(g, x) <=> Alive(game, x)
      /\ SeatedOnce(game) => SeatedOnce(g)
      /\ Inhabited(game) => Inhabited(g)
      /\ \A d : FindRoom(g, d) = FindRoom(game, d)
  BY <1>1, IdleFacts
<1>6. m \in JoinGame /\ FindRoom(g, m.gameDifficulty) = 0 =>
        fresh \in Address /\ ~ Alive(g, fresh)
  BY <1>3, <1>4, <1>5 DEF FreshFor
<1>7. /\ \A h : Without(h, g, id) => Without(h, game, id)
      /\ \A h : SameCompany(h, g) => SameCompany(h, game) /\ NobodyAbsent(h)
      /\ \A h : AtHome(h, g, id) => AtHome(h, game, id)
      /\ \A h, address, a :
           Seated(h, g, id, address, a) =>
             Seated(h, game, id, address, a) /\ NobodyAbsent(h)
  BY <1>1, IdleIsWithout
<1> HIDE DEF g
<1> DEFINE h == Dispatch(g, id, m, callbacks, fresh)
<1>8. /\ m \in JoinGame
           /\ (FindRoom(g, m.gameDifficulty) = 0 =>
                 fresh \in Address /\ ~ Alive(g, fresh)) =>
           h = AddPlayerToRoom(g, id, m.gameDifficulty, fresh)
      /\ m \in LeaveGame => Without(h, g, id)
      /\ m \in LeaveGame /\ SeatedOnce(g) => h = RemovePlayerFromRoom(g, id)
      /\ m \in RoomActionMessage \ LeaveGame =>
           SameCompany(h, g) /\ AtHome(h, g, id)
  BY <1>1, <1>2, <1>5, DispatchFacts
<1>9. game' = h
  BY <1>3
<1> HIDE DEF h
<1>10. ASSUME m \in JoinGame
       PROVE  \E address \in Address, a \in Assignment :
                /\ Seated(game', game, id, address, a)
                /\ NobodyAbsent(game')
                /\ game'.room[address].difficulty = m.gameDifficulty
                /\ Alive(game, address) =>
                     game.room[address].difficulty = m.gameDifficulty
                /\ ~ Alive(game, address) =>
                     \A x \in Address :
                       Alive(game, x)
                         /\ game.room[x].difficulty = m.gameDifficulty =>
                           IsFull(game.room[x])
  <2> DEFINE d == m.gameDifficulty
             k == AddPlayerToRoom(g, id, d, fresh)
  <2>1. d \in GameDifficulty
    BY <1>10 DEF JoinGame
  <2>2. game' = k
    BY <1>6, <1>8, <1>9, <1>10
  <2>3. FindRoom(g, d) = 0 => fresh \in Address /\ ~ Alive(g, fresh)
    BY <1>6, <1>10
  <2>4. g.callbacks[id] # << >> /\ GameHolds(g) /\ id \in PlayerId
    BY <1>1, <1>5
  <2> HIDE DEF d
  <2>5. \E address \in Address, a \in Assignment :
          /\ Seated(k, g, id, address, a)
          /\ k.room[address].difficulty = d
          /\ Alive(g, address) => g.room[address].difficulty = d
          /\ ~ Alive(g, address) =>
               \A x \in Address :
                 Alive(g, x) /\ g.room[x].difficulty = d => IsFull(g.room[x])
    BY ONLY <2>1, <2>3, <2>4, AddPlayerToRoomFacts
  <2> HIDE DEF k
  <2> QED
    BY <1>5, <1>7, <2>2, <2>5 DEF d
<1>11. ASSUME m \in LeaveGame, SeatedOnce(game)
       PROVE  /\ NobodyAbsent(game')
              /\ Inhabited(game) => Inhabited(game')
              /\ RoomsOf(game', id) = {}
  <2> DEFINE k == RemovePlayerFromRoom(g, id)
  <2>1. game' = k /\ SeatedOnce(g)
    BY <1>5, <1>8, <1>9, <1>11
  <2>2. /\ Without(k, g, id)
        /\ NobodyAbsent(k)
        /\ Inhabited(g) => Inhabited(k)
        /\ \/ k = g /\ \A x \in Address : SeatsIn(g, x, id) = {}
           \/ \E x \in Address : \E a \in SeatsIn(g, x, id) :
                SeatsIn(k, x, id) = SeatsIn(g, x, id) \ {a}
    BY <1>1, <1>5, RemovePlayerFromRoomFacts
  <2> HIDE DEF k
  <2>3. \A x \in Address : SeatsIn(k, x, id) = {}
    BY <1>1, <2>1, <2>2 DEF SeatedOnce, Without
  <2>4. RoomsOf(k, id) = {}
    BY <2>3, RoomsAndSeats DEF RoomsOf
  <2> QED
    BY <1>5, <2>1, <2>2, <2>4
<1> QED
  BY <1>1, <1>2, <1>7, <1>8, <1>9, <1>10, <1>11 DEF id, m

-----------------------------------------------------------------------------
(* The invariant is inductive *)

(* What a CONNECT or a DISCONNECT of a client changes. *)
LinkMoves ==
  \E id \in PlayerId, type \in {"CONNECT", "DISCONNECT"},
     link \in {"CONNECTED", "FAILED", "CLOSED"} :
    /\ connectivity' = Append(connectivity, [messageType |-> type, id |-> id])
    /\ client' = [client EXCEPT ![id].link = link]
    /\ type = "CONNECT" => client[id].link = "AWAY"

(* All that the game thread relies on, of whoever fills its queues. *)
Outside ==
  /\ game' = Idle(game)
  /\ UNCHANGED loop
  /\ actions' \in [PlayerId -> Seq(PlayerActionMessage)]
  /\ client' \in [PlayerId -> Client]
  /\ joins' \in 0..MaxJoins
  /\ \/ LinkMoves
     \/ /\ UNCHANGED connectivity
        /\ \A id \in PlayerId : client'[id].link = client[id].link

LEMMA LinkMovesOutside ==
  ASSUME TypeOK, LinkMoves, game' = Idle(game), UNCHANGED <<loop, actions, joins>>
  PROVE  Outside
<1>1. client \in [PlayerId -> Client]
  BY DEF TypeOK
<1>2. client' \in [PlayerId -> Client]
  BY <1>1 DEF LinkMoves, Client
<1> QED
  BY <1>2 DEF Outside, TypeOK

LEMMA ConnectivityOutside ==
  ASSUME TypeOK, NEW id \in PlayerId
  PROVE  Connect(id) \/ Close(id) \/ Fail(id) => Outside
<1>1. ASSUME NEW type \in {"CONNECT", "DISCONNECT"},
             NEW link \in {"CONNECTED", "FAILED", "CLOSED"},
             PublishConnectivity(type, id, link),
             type = "CONNECT" => client[id].link = "AWAY"
      PROVE  Outside
  <2>1. LinkMoves
    BY <1>1 DEF PublishConnectivity, LinkMoves
  <2> QED
    BY <1>1, <2>1, LinkMovesOutside DEF PublishConnectivity
<1> QED
  BY <1>1 DEF Connect, Close, Fail

LEMMA ActionOutside ==
  ASSUME TypeOK, NEW id \in PlayerId, NEW m \in PlayerActionMessage,
         PublishAction(id, m), joins' \in 0..MaxJoins,
         NEW wants \in GameDifficulty \cup {NULL},
         client' = [client EXCEPT ![id].wants = wants] \/ client' = client
  PROVE  Outside
<1>1. /\ client \in [PlayerId -> Client]
      /\ actions \in [PlayerId -> Seq(PlayerActionMessage)]
  BY DEF TypeOK
<1>2. /\ client' \in [PlayerId -> Client]
      /\ \A y \in PlayerId : client'[y].link = client[y].link
  <2> DEFINE c == [client[id] EXCEPT !.wants = wants]
  <2>1. c \in Client /\ c.link = client[id].link
    BY <1>1 DEF Client
  <2>2. client' = client \/ client' = [client EXCEPT ![id] = c]
    OBVIOUS
  <2> HIDE DEF c
  <2> QED
    BY <1>1, <2>1, <2>2
<1>3. Append(actions[id], m) \in Seq(PlayerActionMessage)
  BY <1>1
<1>4. actions' \in [PlayerId -> Seq(PlayerActionMessage)]
  BY <1>1, <1>3 DEF PublishAction
<1> QED
  BY <1>2, <1>4 DEF PublishAction, Outside

(* The network thread and its clients. *)
LEMMA NetworkIsOutside ==
  ASSUME TypeOK, NetworkThread
  PROVE  Outside
<1>1. ASSUME NEW id \in PlayerId, NEW difficulty \in Difficulty,
             Join(id, difficulty)
      PROVE  Outside
  <2> DEFINE m == [messageType |-> "JOIN_GAME", gameDifficulty |-> difficulty]
  <2>1. difficulty \in GameDifficulty \cup {NULL} /\ m \in PlayerActionMessage
    BY ClientsAssumption DEF PlayerActionMessage, JoinGame
  <2>2. joins' \in 0..MaxJoins
    BY <1>1, ClientsAssumption DEF Join, TypeOK
  <2>3. PublishAction(id, m) /\ client' = [client EXCEPT ![id].wants = difficulty]
    BY <1>1 DEF Join
  <2> HIDE DEF m
  <2> QED
    BY <2>1, <2>2, <2>3, ActionOutside
<1>2. ASSUME NEW id \in PlayerId, Leave(id) PROVE Outside
  <2> DEFINE m == [messageType |-> "LEAVE_GAME"]
  <2>1. m \in PlayerActionMessage
    BY DEF PlayerActionMessage, RoomActionMessage, LeaveGame
  <2>2. /\ PublishAction(id, m) /\ joins' \in 0..MaxJoins
        /\ client' = [client EXCEPT ![id].wants = NULL]
    BY <1>2 DEF Leave, TypeOK
  <2> HIDE DEF m
  <2> QED
    BY <2>1, <2>2, ActionOutside
<1>3. ASSUME NEW id \in PlayerId, NEW m \in ClientAction, Act(id, m)
      PROVE  Outside
  <2>1. m \in PlayerActionMessage
    BY ClientsAssumption DEF PlayerActionMessage, RoomActionMessage
  <2>2. PublishAction(id, m) /\ joins' \in 0..MaxJoins /\ client' = client
    BY <1>3 DEF Act, TypeOK
  <2> QED
    BY <2>1, <2>2, ActionOutside
<1> QED
  BY <1>1, <1>2, <1>3, ConnectivityOutside DEF NetworkThread

(* A step of the game thread, or one it does not see. *)
Moves == GameThread \/ Outside

LEMMA NextMoves ==
  ASSUME Fits, Next
  PROVE  Moves
  BY NetworkIsOutside DEF Fits, Next, Moves

(* The steps that only forget what was published. *)
Elsewhere ==
  \/ GoThroughPlayers
  \/ \E id \in PlayerId : CopyCallbacks(id)
  \/ EndDrain
  \/ Outside

LEMMA ElsewhereIdle ==
  ASSUME Elsewhere
  PROVE  game' = Idle(game)
  BY DEF Elsewhere, GoThroughPlayers, CopyCallbacks, EndDrain, Outside

LEMMA MoveCases ==
  ASSUME Moves
  PROVE  DispatchConnectivity \/ DispatchAction \/ TickRooms \/ Elsewhere
  BY DEF Moves, GameThread, Elsewhere

LEMMA CallbacksStep ==
  ASSUME Fits, Moves
  PROVE  /\ GameHolds(game') /\ Reachable(game')
         /\ \/ game'.callbacks = game.callbacks
            \/ /\ DispatchConnectivity
               /\ Head(connectivity).messageType = "CONNECT"
               /\ game'.callbacks = [game.callbacks EXCEPT
                                       ![Head(connectivity).id] = <<GAMEPLAY>>]
            \/ /\ DispatchAction
               /\ \E address \in Address :
                    game'.callbacks = [game.callbacks EXCEPT
                                         ![loop.id] = Append(@, address)]
<1>1. GameHolds(game) /\ Reachable(game)
  BY DEF Fits
<1>2. ASSUME SameCompany(game', game)
      PROVE  /\ GameHolds(game') /\ Reachable(game')
             /\ game'.callbacks = game.callbacks
  BY <1>1, <1>2, SameCompanyReachable DEF SameCompany
<1>3. ASSUME NEW id \in PlayerId, Without(game', game, id)
      PROVE  /\ GameHolds(game') /\ Reachable(game')
             /\ game'.callbacks = game.callbacks
  BY <1>1, <1>3, WithoutReachable DEF Without
<1>4. CASE DispatchConnectivity
  <2>1. CASE Head(connectivity).messageType = "CONNECT"
    BY <1>4, <2>1, ConnectStep
  <2>2. CASE Head(connectivity).messageType # "CONNECT"
    BY <1>3, <1>4, <2>2, DisconnectStep
  <2> QED
    BY <2>1, <2>2
<1>5. CASE DispatchAction
  <2> DEFINE m == Head(actions[loop.id])
  <2>1. loop.id \in PlayerId /\ m \in PlayerActionMessage
    BY <1>5, ActionStep
  <2>2. CASE m \in JoinGame
    <3>1. PICK address \in Address, a \in Assignment :
            Seated(game', game, loop.id, address, a)
      BY <1>5, <2>2, ActionStep
    <3>2. Reachable(game')
      BY <1>1, <2>1, <3>1, SeatedReachable
    <3> QED
      BY <1>5, <3>1, <3>2 DEF Seated
  <2>3. CASE m \in LeaveGame
    <3>1. Without(game', game, loop.id)
      BY <1>5, <2>3, ActionStep
    <3> QED
      BY <1>3, <2>1, <3>1
  <2>4. CASE m \in RoomActionMessage \ LeaveGame
    <3>1. SameCompany(game', game)
      BY <1>5, <2>4, ActionStep
    <3> QED
      BY <1>2, <3>1
  <2> QED
    BY <2>1, <2>2, <2>3, <2>4 DEF PlayerActionMessage
<1>6. CASE TickRooms
  BY <1>2, <1>6, TickStep
<1>7. CASE Elsewhere
  <2>1. SameCompany(game', game)
    BY <1>7, ElsewhereIdle, IdleStep
  <2> QED
    BY <1>2, <2>1
<1> QED
  BY <1>4, <1>5, <1>6, <1>7, MoveCases

(* Whom the game thread listens to, it goes on listening to; whom it does  *)
(* not listen to, it starts listening to at a CONNECT only.                *)
LEMMA ListenedStep ==
  ASSUME Fits, Moves
  PROVE  \A id \in PlayerId :
           /\ game.callbacks[id] # << >> => game'.callbacks[id] # << >>
           /\ game.callbacks[id] = << >> /\ game'.callbacks[id] # << >> =>
                DispatchConnectivity /\ ConnectAt(1, id)
<1>1. /\ game.callbacks \in [PlayerId -> Seq(Address \cup {GAMEPLAY})]
      /\ connectivity \in Seq(ConnectivityMessage)
  BY DEF Fits, TypeOK, Game
<1> SUFFICES ASSUME NEW id \in PlayerId
             PROVE  /\ game.callbacks[id] # << >> => game'.callbacks[id] # << >>
                    /\ game.callbacks[id] = << >> /\ game'.callbacks[id] # << >> =>
                         DispatchConnectivity /\ ConnectAt(1, id)
  OBVIOUS
<1>2. CASE game'.callbacks = game.callbacks
  BY <1>2
<1>3. CASE /\ DispatchConnectivity
           /\ Head(connectivity).messageType = "CONNECT"
           /\ game'.callbacks = [game.callbacks EXCEPT
                                   ![Head(connectivity).id] = <<GAMEPLAY>>]
  <2>1. ConnectAt(1, Head(connectivity).id)
    BY <1>3, ConnectStep
  <2>2. game'.callbacks[id] = IF id = Head(connectivity).id THEN <<GAMEPLAY>>
                                                            ELSE game.callbacks[id]
    BY <1>1, <1>3
  <2>3. <<GAMEPLAY>> # << >>
    OBVIOUS
  <2> QED
    BY <1>3, <2>1, <2>2, <2>3
<1>4. CASE /\ DispatchAction
           /\ \E address \in Address :
                game'.callbacks = [game.callbacks EXCEPT
                                     ![loop.id] = Append(@, address)]
  <2>1. PICK address \in Address :
          game'.callbacks = [game.callbacks EXCEPT ![loop.id] = Append(@, address)]
    BY <1>4
  <2>2. loop.id \in Listened /\ loop.id \in PlayerId
    BY <1>4 DEF Fits, LoopFits, DispatchAction, Listened
  <2> DEFINE new == Append(game.callbacks[loop.id], address)
  <2>3. new # << >>
    BY <1>1, <2>2, LongerSequence
  <2>4. game'.callbacks[id] = IF id = loop.id THEN new ELSE game.callbacks[id]
    BY <1>1, <2>1, <2>2
  <2> HIDE DEF new
  <2> QED
    BY <2>2, <2>3, <2>4 DEF Listened
<1> QED
  BY <1>2, <1>3, <1>4, CallbacksStep

LEMMA TypeStep ==
  ASSUME Fits, Moves
  PROVE  TypeOK'
<1>1. TypeOK /\ game' \in Game
  BY CallbacksStep DEF Fits, GameHolds
<1>2. /\ connectivity \in Seq(ConnectivityMessage)
      /\ actions \in [PlayerId -> Seq(PlayerActionMessage)]
      /\ loop \in Loop
      /\ client \in [PlayerId -> Client]
      /\ joins \in 0..MaxJoins
  BY <1>1 DEF TypeOK
<1>3. CASE DispatchConnectivity
  BY <1>1, <1>2, <1>3 DEF DispatchConnectivity, TypeOK
<1>4. CASE GoThroughPlayers
  <2>1. << >> \in Seq(Address \cup {GAMEPLAY}) /\ Listened \subseteq PlayerId
    BY DEF Listened
  <2>2. loop' \in Loop
    BY <1>4, <2>1 DEF GoThroughPlayers, At, Loop
  <2> QED
    BY <1>1, <1>2, <1>4, <2>2 DEF GoThroughPlayers, TypeOK
<1>5. ASSUME NEW id \in PlayerId, CopyCallbacks(id) PROVE TypeOK'
  <2>1. game.callbacks[id] \in Seq(Address \cup {GAMEPLAY})
    BY <1>1 DEF TypeOK, Game
  <2>2. loop' \in Loop
    BY <1>2, <1>5, <2>1 DEF CopyCallbacks, Loop
  <2> QED
    BY <1>1, <1>2, <1>5, <2>2 DEF CopyCallbacks, TypeOK
<1>6. CASE DispatchAction
  <2>1. loop.id \in PlayerId /\ actions[loop.id] # << >>
    BY <1>6, ActionStep DEF DispatchAction
  <2>2. Tail(actions[loop.id]) \in Seq(PlayerActionMessage)
    BY <1>2, <2>1
  <2>3. actions' \in [PlayerId -> Seq(PlayerActionMessage)]
    BY <1>2, <1>6, <2>2 DEF DispatchAction
  <2> QED
    BY <1>1, <1>2, <1>6, <2>3 DEF DispatchAction, TypeOK
<1>7. CASE EndDrain
  <2>1. << >> \in Seq(Address \cup {GAMEPLAY})
    OBVIOUS
  <2>2. loop' \in Loop
    BY <1>2, <1>7, <2>1 DEF EndDrain, At, Loop
  <2> QED
    BY <1>1, <1>2, <1>7, <2>2 DEF EndDrain, TypeOK
<1>8. CASE TickRooms
  <2>1. << >> \in Seq(Address \cup {GAMEPLAY})
    OBVIOUS
  <2>2. loop' \in Loop
    BY <1>8, <2>1 DEF TickRooms, At, Loop
  <2> QED
    BY <1>1, <1>2, <1>8, <2>2 DEF TickRooms, TypeOK
<1>9. CASE Outside
  <2>1. connectivity' \in Seq(ConnectivityMessage)
    <3>1. \A type \in {"CONNECT", "DISCONNECT"}, id \in PlayerId :
            Append(connectivity, [messageType |-> type, id |-> id])
              \in Seq(ConnectivityMessage)
      BY <1>2 DEF ConnectivityMessage
    <3> QED
      BY <1>2, <1>9, <3>1 DEF Outside, LinkMoves
  <2> QED
    BY <1>1, <1>2, <1>9, <2>1 DEF Outside, TypeOK
<1> QED
  BY <1>3, <1>4, <1>5, <1>6, <1>7, <1>8, <1>9 DEF Moves, GameThread

LEMMA LoopStep ==
  ASSUME Fits, Moves
  PROVE  LoopFits'
<1>1. LoopFits /\ loop \in Loop
  BY DEF Fits, TypeOK
<1>2. Listened \subseteq Listened'
  BY ListenedStep DEF Listened
<1>3. CASE UNCHANGED loop
  BY <1>1, <1>2, <1>3 DEF LoopFits
<1>4. ASSUME NEW where, where # "DRAIN", NEW left, left \subseteq Listened,
             loop' = At(where, left)
      PROVE  LoopFits'
  BY <1>2, <1>4 DEF LoopFits, At
<1>5. CASE GoThroughPlayers
  BY <1>4, <1>5 DEF GoThroughPlayers
<1>6. CASE EndDrain
  BY <1>1, <1>4, <1>6 DEF EndDrain, LoopFits
<1>7. CASE TickRooms
  BY <1>4, <1>7 DEF TickRooms
<1>8. ASSUME NEW id \in PlayerId, CopyCallbacks(id) PROVE LoopFits'
  <2>1. id \in Listened
    BY <1>1, <1>8 DEF CopyCallbacks, LoopFits
  <2>2. game.callbacks[id] # << >> /\ ManagerFirst(game.callbacks[id])
    BY <2>1 DEF Listened, Fits, GameHolds
  <2> QED
    BY <1>1, <1>2, <1>8, <2>1, <2>2 DEF CopyCallbacks, LoopFits
<1> QED
  BY <1>3, <1>5, <1>6, <1>7, <1>8
  DEF Moves, GameThread, Outside, DispatchConnectivity, DispatchAction

LEMMA ConnectFitsStep ==
  ASSUME Fits, Moves
  PROVE  ConnectFits'
<1>1. /\ connectivity \in Seq(ConnectivityMessage)
      /\ client \in [PlayerId -> Client]
      /\ ConnectFits
  BY DEF Fits, TypeOK
<1>2. \A id \in PlayerId :
        game.callbacks[id] = << >> /\ game'.callbacks[id] # << >> =>
          DispatchConnectivity /\ ConnectAt(1, id)
  BY ListenedStep
<1>3. CASE DispatchConnectivity
  <2>1. connectivity # << >> /\ connectivity' = Tail(connectivity)
        /\ client' = client
    BY <1>3 DEF DispatchConnectivity
  <2>2. /\ Len(connectivity) \in Nat
        /\ DOMAIN connectivity = 1..Len(connectivity)
        /\ DOMAIN connectivity' = 1..(Len(connectivity) - 1)
        /\ \A i \in DOMAIN connectivity' : connectivity'[i] = connectivity[i + 1]
    BY <1>1, <2>1
  <2>3. \A i \in DOMAIN connectivity' :
          /\ i + 1 \in DOMAIN connectivity /\ i + 1 # 1
          /\ \A id : ConnectAt(i, id)' => ConnectAt(i + 1, id)
    BY <2>2 DEF ConnectAt
  <2>4. ASSUME NEW id \in PlayerId, NEW i \in DOMAIN connectivity',
               ConnectAt(i, id)'
        PROVE  client'[id].link # "AWAY" /\ game'.callbacks[id] = << >>
    <3>1. ConnectAt(i + 1, id) /\ i + 1 \in DOMAIN connectivity /\ i + 1 # 1
      BY <2>3, <2>4
    <3>2. client[id].link # "AWAY" /\ game.callbacks[id] = << >>
      BY <1>1, <3>1 DEF ConnectFits
    <3>3. ~ ConnectAt(1, id)
      <4>1. 1 \in DOMAIN connectivity
        BY <1>1, <2>1
      <4> QED
        BY <1>1, <3>1, <4>1 DEF ConnectFits
    <3> QED
      BY <1>2, <2>1, <3>2, <3>3
  <2>5. ASSUME NEW id \in PlayerId, client'[id].link = "AWAY"
        PROVE  game'.callbacks[id] = << >>
    <3>1. 1 \in DOMAIN connectivity
      BY <1>1, <2>1
    <3> QED
      BY <1>1, <1>2, <2>1, <2>5, <3>1 DEF ConnectFits
  <2>6. ASSUME NEW id \in PlayerId, NEW i \in DOMAIN connectivity',
               NEW j \in DOMAIN connectivity',
               ConnectAt(i, id)', ConnectAt(j, id)'
        PROVE  i = j
    <3>1. i + 1 = j + 1
      BY <1>1, <2>3, <2>6 DEF ConnectFits
    <3> QED
      BY <2>2, <3>1
  <2> QED
    BY <2>4, <2>5, <2>6 DEF ConnectFits
<1>4. ASSUME NEW type \in {"CONNECT", "DISCONNECT"}, NEW id \in PlayerId,
             NEW link \in {"CONNECTED", "FAILED", "CLOSED"},
             connectivity' = Append(connectivity, [messageType |-> type, id |-> id]),
             client' = [client EXCEPT ![id].link = link],
             type = "CONNECT" => client[id].link = "AWAY"
      PROVE  ConnectFits'
  <2> DEFINE last == Len(connectivity) + 1
  <2>1. /\ DOMAIN connectivity' = 1..last /\ last \in Nat
        /\ last \notin DOMAIN connectivity
        /\ \A i \in DOMAIN connectivity' : i \in DOMAIN connectivity \/ i = last
        /\ \A i \in DOMAIN connectivity : connectivity'[i] = connectivity[i]
        /\ connectivity'[last] = [messageType |-> type, id |-> id]
    BY <1>1, <1>4
  <2> HIDE DEF last
  <2>2. \A y \in PlayerId :
          /\ client[y].link # "AWAY" => client'[y].link # "AWAY"
          /\ y = id => client'[y].link # "AWAY"
          /\ y # id => client'[y].link = client[y].link
    BY <1>1, <1>4 DEF Client
  <2>3. \A y \in PlayerId :
          game.callbacks[y] = << >> => game'.callbacks[y] = << >>
    <3>1. ~ DispatchConnectivity
      <4>1. connectivity' = Append(connectivity, [messageType |-> type, id |-> id])
        BY <1>4
      <4>2. connectivity # << >> => Append(connectivity, [messageType |-> type, id |-> id]) # Tail(connectivity)
        <5>1. ASSUME connectivity # << >>
              PROVE  /\ Len(Tail(connectivity)) = Len(connectivity) - 1
                     /\ Len(Append(connectivity, [messageType |-> type, id |-> id]))
                          = Len(connectivity) + 1
                     /\ Len(connectivity) \in Nat
          <6>1. [messageType |-> type, id |-> id] \in ConnectivityMessage
            BY DEF ConnectivityMessage
          <6> QED
            BY <1>1, <5>1, <6>1
        <5> QED
          BY <5>1
      <4> QED
        BY <4>1, <4>2 DEF DispatchConnectivity
    <3> QED
      BY <1>2, <3>1
  <2>4. \A i \in DOMAIN connectivity : \A y :
          ConnectAt(i, y)' => ConnectAt(i, y)
    BY <2>1 DEF ConnectAt
  <2>5. ASSUME NEW i \in DOMAIN connectivity', i \notin DOMAIN connectivity,
               NEW y, ConnectAt(i, y)'
        PROVE  i = last /\ y = id /\ type = "CONNECT"
    <3>1. i = last /\ connectivity'[i] = [messageType |-> type, id |-> id]
      BY <2>1, <2>5
    <3>2. connectivity'[i] = [messageType |-> "CONNECT", id |-> y]
      BY <2>5 DEF ConnectAt
    <3> QED
      BY <3>1, <3>2
  <2>6. ASSUME NEW y \in PlayerId, NEW i \in DOMAIN connectivity',
               ConnectAt(i, y)'
        PROVE  client'[y].link # "AWAY" /\ game'.callbacks[y] = << >>
    <3>1. CASE i \in DOMAIN connectivity
      BY <1>1, <2>2, <2>3, <2>4, <2>6, <3>1 DEF ConnectFits
    <3>2. CASE i \notin DOMAIN connectivity
      <4>1. y = id /\ client[id].link = "AWAY"
        BY <1>4, <2>5, <2>6, <3>2
      <4> QED
        BY <1>1, <2>2, <2>3, <4>1 DEF ConnectFits
    <3> QED
      BY <3>1, <3>2
  <2>7. ASSUME NEW y \in PlayerId, client'[y].link = "AWAY"
        PROVE  game'.callbacks[y] = << >>
    BY <1>1, <2>2, <2>3, <2>7 DEF ConnectFits
  <2>8. ASSUME NEW y \in PlayerId, NEW i \in DOMAIN connectivity',
               NEW j \in DOMAIN connectivity',
               ConnectAt(i, y)', ConnectAt(j, y)'
        PROVE  i = j
    <3>1. ASSUME NEW n \in DOMAIN connectivity', n \notin DOMAIN connectivity,
                 ConnectAt(n, y)', NEW k \in DOMAIN connectivity
          PROVE  ~ ConnectAt(k, y)
      <4>1. y = id /\ client[y].link = "AWAY"
        BY <1>4, <2>5, <3>1
      <4> QED
        BY <1>1, <3>1, <4>1 DEF ConnectFits
    <3>2. CASE i \in DOMAIN connectivity /\ j \in DOMAIN connectivity
      BY <1>1, <2>4, <2>8, <3>2 DEF ConnectFits
    <3>3. CASE i \notin DOMAIN connectivity /\ j \notin DOMAIN connectivity
      BY <2>5, <2>8, <3>3
    <3> QED
      BY <2>4, <2>8, <3>1, <3>2, <3>3
  <2> QED
    BY <2>6, <2>7, <2>8 DEF ConnectFits
<1>5. ASSUME UNCHANGED connectivity,
             \A id \in PlayerId : client'[id].link = client[id].link,
             \A id \in PlayerId :
               game.callbacks[id] = << >> => game'.callbacks[id] = << >>
      PROVE  ConnectFits'
  <2>1. \A i, id : ConnectAt(i, id)' <=> ConnectAt(i, id)
    BY <1>5 DEF ConnectAt
  <2> QED
    BY <1>1, <1>5, <2>1 DEF ConnectFits
<1>6. ASSUME UNCHANGED connectivity
      PROVE  \A id \in PlayerId :
               game.callbacks[id] = << >> => game'.callbacks[id] = << >>
  <2>1. connectivity # << >> => Tail(connectivity) # connectivity
    <3>1. connectivity # << >> =>
            /\ Len(Tail(connectivity)) = Len(connectivity) - 1
            /\ Len(connectivity) \in Nat
      BY <1>1
    <3> QED
      BY <3>1
  <2>2. ~ DispatchConnectivity
    BY <1>6, <2>1 DEF DispatchConnectivity
  <2> QED
    BY <1>2, <2>2
<1>7. CASE UNCHANGED <<connectivity, client>>
  BY <1>5, <1>6, <1>7
<1>8. CASE Outside
  BY <1>4, <1>5, <1>6, <1>8 DEF Outside, LinkMoves
<1>9. CASE GoThroughPlayers \/ DispatchAction \/ EndDrain \/ TickRooms
            \/ \E id \in PlayerId : CopyCallbacks(id)
  BY <1>7, <1>9
  DEF GoThroughPlayers, DispatchAction, EndDrain, TickRooms, CopyCallbacks
<1> QED
  BY <1>3, <1>8, <1>9 DEF Moves, GameThread

(* Whatever clients do, and however what they do gets to the queues. *)
LEMMA FitsStep ==
  ASSUME Fits, Moves
  PROVE  Fits'
  BY CallbacksStep, TypeStep, LoopStep, ConnectFitsStep DEF Fits

LEMMA FitsInitially ==
  ASSUME Init
  PROVE  Fits
<1>1. /\ game = NewGame /\ connectivity = << >>
      /\ actions = [id \in PlayerId |-> << >>]
      /\ loop = At("CONNECTIVITY", {})
      /\ client = [id \in PlayerId |-> [link |-> "AWAY", wants |-> NULL]]
      /\ joins = 0
  BY DEF Init
<1>2. /\ << >> \in Seq(Address) /\ << >> \in Seq(Published)
      /\ << >> \in Seq(Address \cup {GAMEPLAY})
      /\ << >> \in Seq(ConnectivityMessage)
      /\ << >> \in Seq(PlayerActionMessage)
  OBVIOUS
<1>3. game \in Game
  BY <1>1, <1>2 DEF NewGame, Game
<1>4. \A x \in Address : ~ Alive(game, x)
  BY <1>1 DEF NewGame, Alive
<1>5. \A id \in PlayerId : game.callbacks[id] = << >>
  BY <1>1 DEF NewGame
<1>6. GameHolds(game)
  <2>1. game.rooms = << >> /\ DOMAIN << >> = {}
    BY <1>1 DEF NewGame
  <2> QED
    BY <1>3, <1>4, <1>5, <2>1
    DEF GameHolds, LiveRoomsFit, RoomsListed, ManagerFirst
<1>7. Reachable(game)
  BY <1>4 DEF Reachable, RoomsOf
<1>8. TypeOK
  BY <1>1, <1>2, <1>3, ClientsAssumption DEF TypeOK, At, Loop, Client
<1>9. LoopFits
  BY <1>1 DEF LoopFits, At
<1>10. ConnectFits
  BY <1>1, <1>5 DEF ConnectFits, ConnectAt
<1> QED
  BY <1>6, <1>7, <1>8, <1>9, <1>10 DEF Fits

LEMMA FitsStutter ==
  ASSUME Fits, UNCHANGED vars
  PROVE  Fits'
<1>1. /\ UNCHANGED game /\ UNCHANGED connectivity /\ UNCHANGED actions
      /\ UNCHANGED loop /\ UNCHANGED client /\ UNCHANGED joins
  BY DEF vars
<1>2. TypeOK' /\ GameHolds(game)' /\ Reachable(game)'
  BY <1>1 DEF Fits, TypeOK
<1>3. LoopFits'
  BY <1>1 DEF Fits, LoopFits, Listened
<1>4. ConnectFits'
  BY <1>1 DEF Fits, ConnectFits, ConnectAt
<1> QED
  BY <1>2, <1>3, <1>4 DEF Fits

LEMMA FitsAlways == Spec => []Fits
<1>1. Init => Fits
  BY FitsInitially
<1>2. Fits /\ [Next]_vars => Fits'
  BY FitsStep, NextMoves, FitsStutter
<1> QED
  BY <1>1, <1>2, PTL DEF Spec

-----------------------------------------------------------------------------
(* What holds whatever clients do *)

(***************************************************************************)
(* TypeOK is invariant: the rooms, the callbacks, both queues and the loop *)
(* of the game thread keep their types, however clients join, leave, act   *)
(* and vanish.                                                             *)
(***************************************************************************)
THEOREM GameplayTypeCorrect == Spec => []TypeOK
<1>1. Fits => TypeOK
  BY DEF Fits
<1> QED
  BY <1>1, FitsAlways, PTL

LEMMA SeatsReached ==
  ASSUME Fits
  PROVE  SeatsAreReachable
<1> SUFFICES ASSUME NEW id \in PlayerId, NEW address \in RoomsOf(game, id)
             PROVE  /\ HasCallback(game, id, address)
                    /\ HasCallback(game, id, GAMEPLAY)
  BY DEF SeatsAreReachable
<1>1. HasCallback(game, id, address)
  BY DEF Fits, Reachable
<1>2. /\ game.callbacks[id] \in Seq(Address \cup {GAMEPLAY})
      /\ ManagerFirst(game.callbacks[id])
  BY DEF Fits, GameHolds, Game
<1>3. 1 \in DOMAIN game.callbacks[id]
  <2>1. \E i \in DOMAIN game.callbacks[id] : TRUE
    BY <1>1 DEF HasCallback
  <2> QED
    BY <1>2, <2>1
<1>4. HasCallback(game, id, GAMEPLAY)
  BY <1>2, <1>3 DEF HasCallback, ManagerFirst
<1> QED
  BY <1>1, <1>4

(***************************************************************************)
(* SeatsAreReachable is invariant: a seated player always has the callback *)
(* of its room and that of the room manager, for any number of players,    *)
(* rooms and addresses.                                                    *)
(***************************************************************************)
THEOREM SeatedPlayersAreHeard == Spec => []SeatsAreReachable
<1>1. Fits => SeatsAreReachable
  BY SeatsReached
<1> QED
  BY <1>1, FitsAlways, PTL

(***************************************************************************)
(* A room is made only when all rooms of its difficulty are full.          *)
(***************************************************************************)
THEOREM NewcomersMeet == Spec => NewcomersAreMatched
<1> DEFINE Matched ==
      \A address \in Address :
        ~ Alive(game, address) /\ Alive(game', address) =>
          \A other \in Address :
            /\ Alive(game, other)
            /\ game.room[other].difficulty = game'.room[address].difficulty
            => IsFull(game.room[other])
<1>1. ASSUME \A x \in Address : Alive(game', x) => Alive(game, x)
      PROVE  Matched
  BY <1>1
<1>2. SameCompany(game', game) => Matched
  BY <1>1 DEF SameCompany
<1>3. \A id : Without(game', game, id) => Matched
  BY <1>1 DEF Without
<1>4. ASSUME Fits, [Next]_vars
      PROVE  Matched
  <2>1. CASE UNCHANGED vars
    BY <1>1, <2>1 DEF vars
  <2>2. CASE DispatchConnectivity
    <3>1. CASE Head(connectivity).messageType = "CONNECT"
      BY <1>1, <1>4, <2>2, <3>1, ConnectStep DEF Alive
    <3>2. CASE Head(connectivity).messageType # "CONNECT"
      BY <1>3, <1>4, <2>2, <3>2, DisconnectStep
    <3> QED
      BY <3>1, <3>2
  <2>3. CASE DispatchAction
    <3> DEFINE m == Head(actions[loop.id])
    <3>1. loop.id \in PlayerId /\ m \in PlayerActionMessage
      BY <1>4, <2>3, ActionStep
    <3>2. CASE m \in JoinGame
      <4>1. PICK address \in Address, a \in Assignment :
              /\ Seated(game', game, loop.id, address, a)
              /\ game'.room[address].difficulty = m.gameDifficulty
              /\ ~ Alive(game, address) =>
                   \A x \in Address :
                     Alive(game, x)
                       /\ game.room[x].difficulty = m.gameDifficulty =>
                         IsFull(game.room[x])
        BY <1>4, <2>3, <3>2, ActionStep
      <4>2. \A x \in Address \ {address} : Alive(game', x) <=> Alive(game, x)
        BY <3>1, <4>1, SeatedSeats
      <4> QED
        BY <4>1, <4>2
    <3>3. CASE m \in LeaveGame
      BY <1>3, <1>4, <2>3, <3>3, ActionStep
    <3>4. CASE m \in RoomActionMessage \ LeaveGame
      BY <1>2, <1>4, <2>3, <3>4, ActionStep
    <3> QED
      BY <3>1, <3>2, <3>3, <3>4 DEF PlayerActionMessage
  <2>4. CASE TickRooms
    BY <1>2, <1>4, <2>4, TickStep
  <2>5. CASE Elsewhere
    BY <1>2, <1>4, <2>5, ElsewhereIdle, IdleStep
  <2> QED
    BY <1>4, <2>1, <2>2, <2>3, <2>4, <2>5, NextMoves, MoveCases
<1> QED
  BY <1>4, FitsAlways, PTL DEF Spec, NewcomersAreMatched

(***************************************************************************)
(* An action changes no room but those its player was or is now in, though *)
(* callbacks outlive the seat and the room they were made for.             *)
(***************************************************************************)
THEOREM StrangersAreLeftAlone == Spec => ActionsStayHome
<1> DEFINE Home ==
      loop.at = "DRAIN" =>
        \A address \in Address :
          Seen(game, address) # Seen(game', address) =>
            address \in RoomsOf(game, loop.id) \cup RoomsOf(game', loop.id)
<1>1. \A x : game'.room[x] = game.room[x] => Seen(game', x) = Seen(game, x)
  BY DEF Seen, Alive
<1>2. AtHome(game', game, loop.id) => Home
  BY <1>1, RoomsAndSeats DEF AtHome
<1>3. ASSUME Fits, [Next]_vars
      PROVE  Home
  <2>1. CASE UNCHANGED vars
    BY <1>1, <2>1 DEF vars
  <2>2. CASE DispatchConnectivity \/ TickRooms
    BY <2>2 DEF DispatchConnectivity, TickRooms
  <2>3. CASE DispatchAction
    <3> DEFINE m == Head(actions[loop.id])
    <3>1. loop.id \in PlayerId /\ m \in PlayerActionMessage
      BY <1>3, <2>3, ActionStep
    <3>2. CASE m \in JoinGame
      <4>1. PICK address \in Address, a \in Assignment :
              Seated(game', game, loop.id, address, a)
        BY <1>3, <2>3, <3>2, ActionStep
      <4>2. address \in RoomsOf(game', loop.id)
        BY <3>1, <4>1, SeatedSeats
      <4>3. \A x \in Address \ {address} : game'.room[x] = game.room[x]
        BY <4>1 DEF Seated
      <4> QED
        BY <1>1, <4>2, <4>3
    <3>3. CASE m \in LeaveGame
      <4>1. Without(game', game, loop.id)
        BY <1>3, <2>3, <3>3, ActionStep
      <4> QED
        BY <1>2, <4>1 DEF Without
    <3>4. CASE m \in RoomActionMessage \ LeaveGame
      BY <1>2, <1>3, <2>3, <3>4, ActionStep
    <3> QED
      BY <3>1, <3>2, <3>3, <3>4 DEF PlayerActionMessage
  <2>4. CASE Elsewhere
    BY <1>2, <1>3, <2>4, ElsewhereIdle, IdleStep
  <2> QED
    BY <1>3, <2>1, <2>2, <2>3, <2>4, NextMoves, MoveCases
<1> QED
  BY <1>3, FitsAlways, PTL DEF Spec, ActionsStayHome

-----------------------------------------------------------------------------
(* Clients that leave a room before they ask for another *)

(* Place 0 is the seat, the places after it are those of the queue: what   *)
(* is sent to get a room, and to leave it.                                 *)
Asks(queue, seats, i, d) ==
  \/ i = 0 /\ d \in seats
  \/ i \in DOMAIN queue /\ queue[i] \in JoinGame /\ queue[i].gameDifficulty = d

Leaves(queue, i) == i \in DOMAIN queue /\ queue[i] \in LeaveGame

(* Between two places that ask for a room is one that leaves it, and after *)
(* the last, unless wants is what it asks for.                             *)
InTurn(queue, seats, wants) ==
  \A i \in 0..Len(queue), d \in GameDifficulty :
    Asks(queue, seats, i, d) =>
      /\ wants = d \/ \E k \in (i + 1)..Len(queue) : Leaves(queue, k)
      /\ \A j \in (i + 1)..Len(queue), e \in GameDifficulty :
           Asks(queue, seats, j, e) =>
             \E k \in (i + 1)..(j - 1) : Leaves(queue, k)

LEMMA FewerSeatsInTurn ==
  ASSUME NEW queue \in Seq(PlayerActionMessage), NEW seats, NEW wants,
         InTurn(queue, seats, wants), NEW fewer \in SUBSET seats
  PROVE  InTurn(queue, fewer, wants)
<1>1. \A i, d : Asks(queue, fewer, i, d) => Asks(queue, seats, i, d)
  BY DEF Asks
<1> QED
  BY <1>1 DEF InTurn

(* One message more. *)
LEMMA QueuedInTurn ==
  ASSUME NEW queue \in Seq(PlayerActionMessage), NEW seats, NEW wants,
         InTurn(queue, seats, wants), NEW m \in PlayerActionMessage
  PROVE  /\ m \in JoinGame /\ wants = NULL =>
              InTurn(Append(queue, m), seats, m.gameDifficulty)
         /\ m \in LeaveGame => InTurn(Append(queue, m), seats, NULL)
         /\ m \notin JoinGame \cup LeaveGame =>
              InTurn(Append(queue, m), seats, wants)
<1> DEFINE longer == Append(queue, m)
           last == Len(queue) + 1
<1>1. /\ Len(queue) \in Nat /\ last \in Nat /\ Len(longer) = last
      /\ DOMAIN queue = 1..Len(queue)
      /\ DOMAIN longer = 1..last
      /\ longer[last] = m
      /\ \A i \in 1..Len(queue) : longer[i] = queue[i]
  OBVIOUS
<1> HIDE DEF longer
<1>2. \A i \in 0..Len(queue) : \A d :
        Asks(longer, seats, i, d) => Asks(queue, seats, i, d)
  BY <1>1 DEF Asks
<1>3. \A i \in 1..Len(queue) : Leaves(queue, i) => Leaves(longer, i)
  BY <1>1 DEF Leaves
<1>4. \A d : Asks(longer, seats, last, d) => m \in JoinGame /\ d = m.gameDifficulty
  BY <1>1 DEF Asks
<1>5. m \in LeaveGame => Leaves(longer, last)
  BY <1>1 DEF Leaves
<1>6. m \in LeaveGame => m \notin JoinGame
  BY DEF JoinGame, LeaveGame
<1>7. \A i \in 0..last : i \in 0..Len(queue) \/ i = last
  BY <1>1
<1>8. ASSUME NEW i \in 0..Len(queue), NEW d \in GameDifficulty,
             Asks(longer, seats, i, d)
      PROVE  /\ wants = d \/ \E k \in (i + 1)..Len(queue) : Leaves(longer, k)
             /\ \A j \in (i + 1)..Len(queue), e \in GameDifficulty :
                  Asks(longer, seats, j, e) =>
                    \E k \in (i + 1)..(j - 1) : Leaves(longer, k)
  <2>1. Asks(queue, seats, i, d)
    BY <1>2, <1>8
  <2>2. /\ wants = d \/ \E k \in (i + 1)..Len(queue) : Leaves(queue, k)
        /\ \A j \in (i + 1)..Len(queue), e \in GameDifficulty :
             Asks(queue, seats, j, e) =>
               \E k \in (i + 1)..(j - 1) : Leaves(queue, k)
    BY <2>1 DEF InTurn
  <2>3. \A k \in (i + 1)..Len(queue) : k \in 1..Len(queue)
    BY <1>1
  <2>4. \A j \in (i + 1)..Len(queue) :
          /\ j \in 0..Len(queue)
          /\ \A k \in (i + 1)..(j - 1) : k \in 1..Len(queue)
    BY <1>1
  <2> QED
    BY <1>2, <1>3, <2>2, <2>3, <2>4
<1>9. ASSUME m \in JoinGame, wants = NULL
      PROVE  InTurn(longer, seats, m.gameDifficulty)
  <2> SUFFICES ASSUME NEW i \in 0..last, NEW d \in GameDifficulty,
                      Asks(longer, seats, i, d)
               PROVE  /\ \/ m.gameDifficulty = d
                         \/ \E k \in (i + 1)..last : Leaves(longer, k)
                      /\ \A j \in (i + 1)..last, e \in GameDifficulty :
                           Asks(longer, seats, j, e) =>
                             \E k \in (i + 1)..(j - 1) : Leaves(longer, k)
    BY <1>1 DEF InTurn
  <2>1. CASE i = last
    <3>1. (i + 1)..last = {}
      BY <1>1, <2>1
    <3> QED
      BY <1>4, <2>1, <3>1
  <2>2. CASE i \in 0..Len(queue)
    <3>1. wants # d
      BY <1>9, ClientsAssumption
    <3>2. PICK k \in (i + 1)..Len(queue) : Leaves(longer, k)
      BY <1>8, <2>2, <3>1
    <3>3. k \in (i + 1)..last /\ k \in (i + 1)..(last - 1)
      BY <1>1, <2>2
    <3>4. \A j \in (i + 1)..last : j \in (i + 1)..Len(queue) \/ j = last
      BY <1>1, <2>2
    <3>5. \A j \in (i + 1)..Len(queue), e \in GameDifficulty :
            Asks(longer, seats, j, e) =>
              \E n \in (i + 1)..(j - 1) : Leaves(longer, n)
      BY <1>8, <2>2
    <3> HIDE DEF last
    <3> QED
      BY <3>2, <3>3, <3>4, <3>5
  <2> QED
    BY <1>7, <2>1, <2>2
<1>10. ASSUME m \in LeaveGame
       PROVE  InTurn(longer, seats, NULL)
  <2> SUFFICES ASSUME NEW i \in 0..last, NEW d \in GameDifficulty,
                      Asks(longer, seats, i, d)
               PROVE  /\ \/ NULL = d
                         \/ \E k \in (i + 1)..last : Leaves(longer, k)
                      /\ \A j \in (i + 1)..last, e \in GameDifficulty :
                           Asks(longer, seats, j, e) =>
                             \E k \in (i + 1)..(j - 1) : Leaves(longer, k)
    BY <1>1 DEF InTurn
  <2>1. i \in 0..Len(queue)
    BY <1>4, <1>6, <1>7, <1>10
  <2>2. last \in (i + 1)..last
    BY <1>1, <2>1
  <2>3. \A j \in (i + 1)..last : j \in (i + 1)..Len(queue) \/ j = last
    BY <1>1, <2>1
  <2>4. \A e : ~ Asks(longer, seats, last, e)
    BY <1>4, <1>6, <1>10
  <2>5. \A j \in (i + 1)..Len(queue), e \in GameDifficulty :
          Asks(longer, seats, j, e) =>
            \E n \in (i + 1)..(j - 1) : Leaves(longer, n)
    BY <1>8, <2>1
  <2> HIDE DEF last
  <2> QED
    BY <1>5, <1>10, <2>2, <2>3, <2>4, <2>5
<1>11. ASSUME m \notin JoinGame \cup LeaveGame
       PROVE  InTurn(longer, seats, wants)
  <2> SUFFICES ASSUME NEW i \in 0..last, NEW d \in GameDifficulty,
                      Asks(longer, seats, i, d)
               PROVE  /\ \/ wants = d
                         \/ \E k \in (i + 1)..last : Leaves(longer, k)
                      /\ \A j \in (i + 1)..last, e \in GameDifficulty :
                           Asks(longer, seats, j, e) =>
                             \E k \in (i + 1)..(j - 1) : Leaves(longer, k)
    BY <1>1 DEF InTurn
  <2>1. i \in 0..Len(queue)
    BY <1>4, <1>7, <1>11
  <2>2. \A k \in (i + 1)..Len(queue) : k \in (i + 1)..last
    BY <1>1, <2>1
  <2>3. \A j \in (i + 1)..last : j \in (i + 1)..Len(queue) \/ j = last
    BY <1>1, <2>1
  <2>4. \A e : ~ Asks(longer, seats, last, e)
    BY <1>4, <1>11
  <2>5. /\ wants = d \/ \E k \in (i + 1)..Len(queue) : Leaves(longer, k)
        /\ \A j \in (i + 1)..Len(queue), e \in GameDifficulty :
             Asks(longer, seats, j, e) =>
               \E n \in (i + 1)..(j - 1) : Leaves(longer, n)
    BY <1>8, <2>1
  <2> HIDE DEF last
  <2> QED
    BY <2>2, <2>3, <2>4, <2>5
<1> QED
  BY <1>9, <1>10, <1>11 DEF longer

(* One message less. *)
LEMMA HandledInTurn ==
  ASSUME NEW queue \in Seq(PlayerActionMessage), queue # << >>, NEW seats,
         NEW wants, InTurn(queue, seats, wants)
  PROVE  /\ Head(queue) \in JoinGame =>
              /\ seats \cap GameDifficulty = {}
              /\ InTurn(Tail(queue), {Head(queue).gameDifficulty}, wants)
         /\ Head(queue) \in LeaveGame => InTurn(Tail(queue), {}, wants)
         /\ Head(queue) \notin JoinGame \cup LeaveGame =>
              InTurn(Tail(queue), seats, wants)
<1> DEFINE m == Head(queue)
           rest == Tail(queue)
           n == Len(queue)
<1>1. /\ n \in Nat /\ n >= 1 /\ Len(rest) = n - 1 /\ n - 1 \in Nat
      /\ DOMAIN queue = 1..n /\ DOMAIN rest = 1..(n - 1)
      /\ queue[1] = m
      /\ \A i \in 1..(n - 1) : rest[i] = queue[i + 1]
  OBVIOUS
<1> HIDE DEF rest, m, n
<1>2. \A i \in 1..(n - 1) : \A s, d :
        Asks(rest, s, i, d) => Asks(queue, seats, i + 1, d)
  BY <1>1 DEF Asks
<1>3. \A i \in 2..n : Leaves(queue, i) => i - 1 \in 1..(n - 1) /\ Leaves(rest, i - 1)
  BY <1>1 DEF Leaves
<1>4. \A i \in 0..n, d \in GameDifficulty :
        Asks(queue, seats, i, d) =>
          /\ wants = d \/ \E k \in (i + 1)..n : Leaves(queue, k)
          /\ \A j \in (i + 1)..n, e \in GameDifficulty :
               Asks(queue, seats, j, e) =>
                 \E k \in (i + 1)..(j - 1) : Leaves(queue, k)
  BY DEF InTurn, n
<1>5. ASSUME NEW i \in 0..(n - 1), NEW d \in GameDifficulty, NEW s,
             Asks(queue, seats, i + 1, d)
      PROVE  /\ wants = d \/ \E k \in (i + 1)..(n - 1) : Leaves(rest, k)
             /\ \A j \in (i + 1)..(n - 1), e \in GameDifficulty :
                  Asks(rest, s, j, e) =>
                    \E k \in (i + 1)..(j - 1) : Leaves(rest, k)
  <2>1. i + 1 \in 0..n
    BY <1>1
  <2>2. /\ wants = d \/ \E k \in (i + 1 + 1)..n : Leaves(queue, k)
        /\ \A j \in (i + 1 + 1)..n, e \in GameDifficulty :
             Asks(queue, seats, j, e) =>
               \E k \in (i + 1 + 1)..(j - 1) : Leaves(queue, k)
    BY <1>4, <1>5, <2>1
  <2>3. \A k \in (i + 1 + 1)..n : k \in 2..n /\ k - 1 \in (i + 1)..(n - 1)
    BY <1>1
  <2>4. wants = d \/ \E k \in (i + 1)..(n - 1) : Leaves(rest, k)
    BY <1>3, <2>2, <2>3
  <2>5. ASSUME NEW j \in (i + 1)..(n - 1), NEW e \in GameDifficulty,
               Asks(rest, s, j, e)
        PROVE  \E k \in (i + 1)..(j - 1) : Leaves(rest, k)
    <3>1. j \in 1..(n - 1) /\ j + 1 \in (i + 1 + 1)..n
      BY <1>1
    <3>2. Asks(queue, seats, j + 1, e)
      BY <1>2, <2>5, <3>1
    <3>3. PICK k \in (i + 1 + 1)..(j + 1 - 1) : Leaves(queue, k)
      BY <2>2, <3>1, <3>2
    <3>4. k \in 2..n /\ k - 1 \in (i + 1)..(j - 1)
      BY <1>1, <3>1
    <3> QED
      BY <1>3, <3>3, <3>4
  <2> QED
    BY <2>4, <2>5
<1>6. ASSUME NEW s, \A d \in GameDifficulty : d \in s => Asks(queue, seats, 1, d)
      PROVE  InTurn(rest, s, wants)
  <2> SUFFICES ASSUME NEW i \in 0..(n - 1), NEW d \in GameDifficulty,
                      Asks(rest, s, i, d)
               PROVE  /\ wants = d \/ \E k \in (i + 1)..(n - 1) : Leaves(rest, k)
                      /\ \A j \in (i + 1)..(n - 1), e \in GameDifficulty :
                           Asks(rest, s, j, e) =>
                             \E k \in (i + 1)..(j - 1) : Leaves(rest, k)
    BY <1>1 DEF InTurn
  <2>1. i = 0 => d \in s
    BY <1>1 DEF Asks
  <2>2. i # 0 => i \in 1..(n - 1)
    BY <1>1
  <2>3. Asks(queue, seats, i + 1, d)
    BY <1>2, <1>6, <2>1, <2>2
  <2> QED
    BY <1>5, <2>3
<1>7. ASSUME m \in JoinGame
      PROVE  seats \cap GameDifficulty = {} /\ InTurn(rest, {m.gameDifficulty}, wants)
  <2>1. Asks(queue, seats, 1, m.gameDifficulty) /\ m.gameDifficulty \in GameDifficulty
    BY <1>1, <1>7 DEF Asks, JoinGame
  <2>2. ASSUME NEW d \in GameDifficulty, d \in seats PROVE FALSE
    <3>1. Asks(queue, seats, 0, d)
      BY <2>2 DEF Asks
    <3>2. 0 \in 0..n /\ 1 \in (0 + 1)..n /\ (0 + 1)..(1 - 1) = {}
      BY <1>1
    <3> QED
      BY <1>4, <2>1, <3>1, <3>2
  <2> QED
    BY <1>6, <2>1, <2>2
<1>8. m \in LeaveGame => InTurn(rest, {}, wants)
  BY <1>6
<1>9. ASSUME m \notin JoinGame \cup LeaveGame
      PROVE  InTurn(rest, seats, wants)
  <2> SUFFICES ASSUME NEW i \in 0..(n - 1), NEW d \in GameDifficulty,
                      Asks(rest, seats, i, d)
               PROVE  /\ wants = d \/ \E k \in (i + 1)..(n - 1) : Leaves(rest, k)
                      /\ \A j \in (i + 1)..(n - 1), e \in GameDifficulty :
                           Asks(rest, seats, j, e) =>
                             \E k \in (i + 1)..(j - 1) : Leaves(rest, k)
    BY <1>1 DEF InTurn
  <2>1. CASE i # 0
    <3>1. i \in 1..(n - 1)
      BY <1>1, <2>1
    <3> QED
      BY <1>2, <1>5, <3>1
  <2>2. CASE i = 0
    <3>1. Asks(queue, seats, 0, d) /\ 0 \in 0..n
      BY <1>1, <2>2 DEF Asks
    <3>2. /\ wants = d \/ \E k \in 1..n : Leaves(queue, k)
          /\ \A j \in 1..n, e \in GameDifficulty :
               Asks(queue, seats, j, e) =>
                 \E k \in 1..(j - 1) : Leaves(queue, k)
      BY <1>4, <3>1
    <3>3. \A k \in 1..n : Leaves(queue, k) => k \in 2..n /\ k - 1 \in 1..(n - 1)
      BY <1>1, <1>9 DEF Leaves
    <3>4. wants = d \/ \E k \in 1..(n - 1) : Leaves(rest, k)
      BY <1>3, <3>2, <3>3
    <3>5. ASSUME NEW j \in 1..(n - 1), NEW e \in GameDifficulty,
                 Asks(rest, seats, j, e)
          PROVE  \E k \in 1..(j - 1) : Leaves(rest, k)
      <4>1. j + 1 \in 1..n /\ Asks(queue, seats, j + 1, e)
        BY <1>1, <1>2, <3>5
      <4>2. PICK k \in 1..(j + 1 - 1) : Leaves(queue, k)
        BY <3>2, <4>1
      <4>3. k \in 1..n
        BY <1>1, <4>1
      <4>4. k \in 2..n /\ k - 1 \in 1..(j - 1)
        BY <1>1, <3>3, <4>2, <4>3
      <4> QED
        BY <1>3, <4>2, <4>4
    <3> QED
      BY <2>2, <3>4, <3>5
  <2> QED
    BY <2>1, <2>2
<1> QED
  BY <1>7, <1>8, <1>9 DEF m, rest

-----------------------------------------------------------------------------
(* Seats and the queues of those who sit there *)

(* The difficulties of the rooms a player is in. *)
Difficulties(g, id) == {g.room[x].difficulty : x \in RoomsOf(g, id)}

AsksInTurn ==
  \A id \in PlayerId :
    InTurn(actions[id], Difficulties(game, id), client[id].wants)

(* The inductive invariant where clients leave before they join again. *)
Orderly ==
  /\ Fits
  /\ SeatedOnce(game)
  /\ Inhabited(game)
  /\ NobodyAbsent(game)
  /\ AsksInTurn

LEMMA InhabitedSeats ==
  ASSUME NEW g, GameHolds(g)
  PROVE  Inhabited(g) <=>
           \A x \in Address :
             Alive(g, x) => \E id \in PlayerId : SeatsIn(g, x, id) # {}
<1>1. ASSUME NEW x \in Address, Alive(g, x)
      PROVE  ~ IsEmpty(g.room[x]) <=> \E id \in PlayerId : SeatsIn(g, x, id) # {}
  <2>1. g.room[x] \in RoomState
    BY <1>1, LiveRoom
  <2>2. \A id : SeatsIn(g, x, id) = SeatsOf(g.room[x], id)
    BY <1>1 DEF SeatsIn
  <2> QED
    BY <2>1, <2>2, EmptySeats DEF HasPlayerWithId
<1> QED
  BY <1>1 DEF Inhabited

LEMMA SameCompanySeats ==
  ASSUME NEW g, GameHolds(g), NEW h, SameCompany(h, g)
  PROVE  /\ SeatedOnce(g) => SeatedOnce(h)
         /\ Inhabited(g) => Inhabited(h)
         /\ \A id \in PlayerId : Difficulties(h, id) = Difficulties(g, id)
<1>1. /\ GameHolds(h)
      /\ \A x \in Address :
           /\ Alive(h, x) <=> Alive(g, x)
           /\ Alive(g, x) => h.room[x].difficulty = g.room[x].difficulty
           /\ \A id \in PlayerId : SeatsIn(h, x, id) = SeatsIn(g, x, id)
  BY DEF SameCompany
<1>2. SeatedOnce(g) => SeatedOnce(h)
  BY <1>1 DEF SeatedOnce
<1>3. Inhabited(g) => Inhabited(h)
  BY <1>1, InhabitedSeats
<1>4. ASSUME NEW id \in PlayerId
      PROVE  Difficulties(h, id) = Difficulties(g, id)
  <2>1. RoomsOf(h, id) = RoomsOf(g, id)
    BY <1>1, SameRooms
  <2>2. \A x \in RoomsOf(g, id) : h.room[x].difficulty = g.room[x].difficulty
    BY <1>1 DEF RoomsOf
  <2> QED
    BY <2>1, <2>2 DEF Difficulties
<1> QED
  BY <1>2, <1>3, <1>4

LEMMA WithoutSeats ==
  ASSUME NEW g, NEW h, NEW id \in PlayerId, Without(h, g, id)
  PROVE  /\ SeatedOnce(g) => SeatedOnce(h)
         /\ \A y \in PlayerId : Difficulties(h, y) \subseteq Difficulties(g, y)
         /\ \A y \in PlayerId \ {id} : Difficulties(h, y) = Difficulties(g, y)
<1>1. \A x \in Address :
        /\ Alive(h, x) => h.room[x].difficulty = g.room[x].difficulty
        /\ \A y \in PlayerId : SeatsIn(h, x, y) \subseteq SeatsIn(g, x, y)
        /\ \A y \in PlayerId \ {id} : SeatsIn(h, x, y) = SeatsIn(g, x, y)
  BY DEF Without
<1>2. SeatedOnce(g) => SeatedOnce(h)
  BY <1>1 DEF SeatedOnce
<1>3. ASSUME NEW y \in PlayerId, NEW x \in RoomsOf(h, y)
      PROVE  h.room[x].difficulty \in Difficulties(g, y)
  <2>1. x \in Address /\ Alive(h, x) /\ SeatsIn(h, x, y) # {}
    BY RoomsAndSeats DEF RoomsOf
  <2>2. SeatsIn(g, x, y) # {}
    BY <1>1, <2>1
  <2>3. x \in RoomsOf(g, y)
    BY <2>1, <2>2, RoomsAndSeats
  <2> QED
    BY <1>1, <2>1, <2>3 DEF Difficulties
<1>4. ASSUME NEW y \in PlayerId \ {id}
      PROVE  Difficulties(h, y) = Difficulties(g, y)
  <2>1. RoomsOf(h, y) = RoomsOf(g, y)
    BY <1>1, SameRooms
  <2>2. \A x \in RoomsOf(h, y) : h.room[x].difficulty = g.room[x].difficulty
    BY <1>1 DEF RoomsOf
  <2> QED
    BY <2>1, <2>2 DEF Difficulties
<1> QED
  BY <1>2, <1>3, <1>4 DEF Difficulties

(* A newcomer has moved in, to a room of that difficulty. *)
MovedIn(h, g, id, d) ==
  /\ SeatedOnce(g) => SeatedOnce(h)
  /\ Inhabited(g) => Inhabited(h)
  /\ \A y \in PlayerId \ {id} : Difficulties(h, y) = Difficulties(g, y)
  /\ Difficulties(h, id) = {d}

LEMMA SeatedOrderly ==
  ASSUME NEW g, GameHolds(g), NEW h, NEW id \in PlayerId, NEW address \in Address,
         NEW a, Seated(h, g, id, address, a), RoomsOf(g, id) = {},
         Alive(g, address) =>
           g.room[address].difficulty = h.room[address].difficulty
  PROVE  MovedIn(h, g, id, h.room[address].difficulty)
<1> DEFINE d == h.room[address].difficulty
<1>1. /\ \A x \in Address \ {address} : \A y : SeatsIn(h, x, y) = SeatsIn(g, x, y)
      /\ \A x \in Address \ {address} : Alive(h, x) <=> Alive(g, x)
      /\ \A x \in Address : \A y \in PlayerId :
           x \in RoomsOf(h, y) => x \in RoomsOf(g, y) \/ (x = address /\ y = id)
  BY SeatedSeats, SMTT(30)
<1>2. /\ GameHolds(h) /\ Alive(h, address)
      /\ \A x \in Address \ {address} : h.room[x] = g.room[x]
      /\ SeatsIn(h, address, id) = SeatsIn(g, address, id) \cup {a}
      /\ \A y \in PlayerId \ {id} : SeatsIn(h, address, y) = SeatsIn(g, address, y)
  BY DEF Seated
<1>3. \A x \in Address : SeatsIn(g, x, id) = {}
  BY RoomsAndSeats
<1>4. /\ \A x \in Address : \A b \in SeatsIn(h, x, id) : x = address /\ b = a
      /\ \A x \in Address : \A y \in PlayerId \ {id} :
           SeatsIn(h, x, y) = SeatsIn(g, x, y)
  BY <1>1, <1>2, <1>3
<1>5. ASSUME SeatedOnce(g) PROVE SeatedOnce(h)
  <2> SUFFICES ASSUME NEW y \in PlayerId, NEW v \in Address, NEW w \in Address,
                      NEW b \in SeatsIn(h, v, y), NEW c \in SeatsIn(h, w, y)
               PROVE  v = w /\ b = c
    BY DEF SeatedOnce
  <2>1. CASE y = id
    BY <1>4, <2>1
  <2>2. CASE y # id
    BY <1>4, <1>5, <2>2 DEF SeatedOnce
  <2> QED
    BY <2>1, <2>2
<1>6. ASSUME Inhabited(g) PROVE Inhabited(h)
  <2>1. \A x \in Address \ {address} :
          Alive(h, x) => \E y \in PlayerId : SeatsIn(h, x, y) # {}
    BY <1>1, <1>6, InhabitedSeats
  <2>2. SeatsIn(h, address, id) # {}
    BY <1>2
  <2> QED
    BY <1>2, <2>1, <2>2, InhabitedSeats
<1>7. ASSUME NEW y \in PlayerId \ {id}
      PROVE  Difficulties(h, y) = Difficulties(g, y)
  <2>1. RoomsOf(h, y) = RoomsOf(g, y)
    BY <1>4, SameRooms
  <2>2. \A x \in RoomsOf(g, y) : x \in Address /\ Alive(g, x)
    BY DEF RoomsOf
  <2>3. \A x \in RoomsOf(g, y) : h.room[x].difficulty = g.room[x].difficulty
    BY <1>2, <2>2
  <2> QED
    BY <2>1, <2>3 DEF Difficulties
<1>8. RoomsOf(h, id) = {address}
  <2>1. \A x \in RoomsOf(h, id) : x \in Address /\ SeatsIn(h, x, id) # {}
    BY RoomsAndSeats DEF RoomsOf
  <2>2. address \in RoomsOf(h, id)
    BY <1>2, RoomsAndSeats
  <2> QED
    BY <1>4, <2>1, <2>2
<1> QED
  BY <1>5, <1>6, <1>7, <1>8 DEF Difficulties, MovedIn

-----------------------------------------------------------------------------
(* The invariant is inductive, where clients leave before they join again *)

(* A step that gives no seat, and does not touch the queues. *)
LEMMA SameQueues ==
  ASSUME Fits, AsksInTurn,
         \A id \in PlayerId : Difficulties(game', id) \subseteq Difficulties(game, id),
         UNCHANGED <<actions, client>>
  PROVE  AsksInTurn'
<1>1. actions \in [PlayerId -> Seq(PlayerActionMessage)]
  BY DEF Fits, TypeOK
<1>2. ASSUME NEW id \in PlayerId
      PROVE  InTurn(actions'[id], Difficulties(game', id), client'[id].wants)
  BY <1>1, <1>2, FewerSeatsInTurn DEF AsksInTurn
<1> QED
  BY <1>2 DEF AsksInTurn

(* A handled action changes the rooms of nobody but its player. *)
LEMMA HandledSeats ==
  ASSUME Fits, SeatedOnce(game), Inhabited(game), NobodyAbsent(game),
         DispatchAction,
         Head(actions[loop.id]) \in JoinGame => RoomsOf(game, loop.id) = {}
  PROVE  LET id == loop.id
             m == Head(actions[loop.id])
         IN /\ SeatedOnce(game') /\ Inhabited(game') /\ NobodyAbsent(game')
            /\ \A y \in PlayerId \ {id} :
                 Difficulties(game', y) = Difficulties(game, y)
            /\ m \in JoinGame => Difficulties(game', id) = {m.gameDifficulty}
            /\ m \in LeaveGame => Difficulties(game', id) = {}
            /\ m \notin JoinGame \cup LeaveGame =>
                 Difficulties(game', id) = Difficulties(game, id)
<1> DEFINE id == loop.id
           m == Head(actions[loop.id])
<1>1. GameHolds(game)
  BY DEF Fits
<1>2. id \in PlayerId /\ m \in PlayerActionMessage
  BY ActionStep
<1>3. m \in LeaveGame => m \notin JoinGame
  BY DEF JoinGame, LeaveGame
<1>4. CASE m \in JoinGame
  <2>1. PICK address \in Address, a \in Assignment :
          /\ Seated(game', game, id, address, a)
          /\ NobodyAbsent(game')
          /\ game'.room[address].difficulty = m.gameDifficulty
          /\ Alive(game, address) =>
               game.room[address].difficulty = m.gameDifficulty
    BY <1>4, ActionStep
  <2> DEFINE h == game'
  <2>2. /\ GameHolds(game) /\ SeatedOnce(game) /\ Inhabited(game)
        /\ id \in PlayerId /\ address \in Address /\ RoomsOf(game, id) = {}
        /\ Seated(h, game, id, address, a)
        /\ Alive(game, address) =>
             game.room[address].difficulty = h.room[address].difficulty
        /\ h.room[address].difficulty = m.gameDifficulty
    BY <1>1, <1>2, <1>4, <2>1
  <2> HIDE DEF h, id
  <2>3. MovedIn(h, game, id, h.room[address].difficulty)
    BY ONLY <2>2, SeatedOrderly
  <2> QED
    BY <1>3, <1>4, <2>1, <2>2, <2>3 DEF MovedIn, h, id
<1>5. CASE m \in LeaveGame
  <2>1. /\ Without(game', game, id) /\ NobodyAbsent(game')
        /\ Inhabited(game') /\ RoomsOf(game', id) = {}
    BY <1>5, ActionStep
  <2>2. /\ SeatedOnce(game')
        /\ \A y \in PlayerId \ {id} : Difficulties(game', y) = Difficulties(game, y)
    BY <1>2, <2>1, WithoutSeats
  <2>3. Difficulties(game', id) = {}
    BY <2>1 DEF Difficulties
  <2> QED
    BY <1>3, <1>5, <2>1, <2>2, <2>3
<1>6. CASE m \notin JoinGame \cup LeaveGame
  <2>1. m \in RoomActionMessage \ LeaveGame
    BY <1>2, <1>6 DEF PlayerActionMessage
  <2>2. SameCompany(game', game) /\ NobodyAbsent(game')
    BY <2>1, ActionStep
  <2>3. /\ SeatedOnce(game') /\ Inhabited(game')
        /\ \A y \in PlayerId : Difficulties(game', y) = Difficulties(game, y)
    BY <1>1, <2>2, SameCompanySeats
  <2> QED
    BY <1>2, <1>6, <2>2, <2>3
<1> QED
  BY <1>4, <1>5, <1>6

(* Whoever asks for a room in turn is in none. *)
LEMMA NobodyAsksTwice ==
  ASSUME GameHolds(game), NEW id,
         Difficulties(game, id) \cap GameDifficulty = {}
  PROVE  RoomsOf(game, id) = {}
<1> SUFFICES ASSUME NEW x \in RoomsOf(game, id) PROVE FALSE
  OBVIOUS
<1>1. game.room[x] \in RoomState
  BY LiveRoom DEF RoomsOf
<1>2. game.room[x].difficulty \in GameDifficulty
  BY <1>1 DEF RoomState
<1> QED
  BY <1>2 DEF Difficulties

(* One message less for the queue of a player, whatever else it will hold. *)
LEMMA HandledTurn ==
  ASSUME Fits, SeatedOnce(game), Inhabited(game), NobodyAbsent(game),
         DispatchAction, NEW queue \in Seq(PlayerActionMessage), queue # << >>,
         Head(queue) = Head(actions[loop.id]), NEW wants,
         InTurn(queue, Difficulties(game, loop.id), wants)
  PROVE  /\ SeatedOnce(game') /\ Inhabited(game') /\ NobodyAbsent(game')
         /\ \A y \in PlayerId \ {loop.id} :
              Difficulties(game', y) = Difficulties(game, y)
         /\ InTurn(Tail(queue), Difficulties(game', loop.id), wants)
<1> DEFINE id == loop.id
           m == Head(queue)
           seats == Difficulties(game, id)
<1>1. /\ m \in JoinGame =>
           /\ seats \cap GameDifficulty = {}
           /\ InTurn(Tail(queue), {m.gameDifficulty}, wants)
      /\ m \in LeaveGame => InTurn(Tail(queue), {}, wants)
      /\ m \notin JoinGame \cup LeaveGame => InTurn(Tail(queue), seats, wants)
  BY HandledInTurn
<1>2. m \in JoinGame => RoomsOf(game, id) = {}
  BY <1>1, NobodyAsksTwice DEF Fits
<1>3. /\ SeatedOnce(game') /\ Inhabited(game') /\ NobodyAbsent(game')
      /\ \A y \in PlayerId \ {id} :
           Difficulties(game', y) = Difficulties(game, y)
      /\ m \in JoinGame => Difficulties(game', id) = {m.gameDifficulty}
      /\ m \in LeaveGame => Difficulties(game', id) = {}
      /\ m \notin JoinGame \cup LeaveGame => Difficulties(game', id) = seats
  BY <1>2, HandledSeats
<1> QED
  BY <1>1, <1>3

LEMMA HandledAction ==
  ASSUME Orderly, DispatchAction
  PROVE  /\ SeatedOnce(game') /\ Inhabited(game') /\ NobodyAbsent(game')
         /\ AsksInTurn'
<1> DEFINE id == loop.id
<1>1. /\ Fits /\ SeatedOnce(game) /\ Inhabited(game)
      /\ NobodyAbsent(game) /\ AsksInTurn
      /\ actions \in [PlayerId -> Seq(PlayerActionMessage)]
  BY DEF Orderly, Fits, TypeOK
<1>2. id \in PlayerId /\ actions[id] # << >>
  BY <1>1, ActionStep DEF DispatchAction
<1>3. /\ client' = client
      /\ actions'[id] = Tail(actions[id])
      /\ \A y \in PlayerId \ {id} : actions'[y] = actions[y]
  BY <1>1, <1>2 DEF DispatchAction
<1>4. \A y \in PlayerId :
        InTurn(actions[y], Difficulties(game, y), client[y].wants)
  BY <1>1 DEF AsksInTurn
<1>5. /\ SeatedOnce(game') /\ Inhabited(game') /\ NobodyAbsent(game')
      /\ \A y \in PlayerId \ {id} :
           Difficulties(game', y) = Difficulties(game, y)
      /\ InTurn(Tail(actions[id]), Difficulties(game', id), client[id].wants)
  BY <1>1, <1>2, <1>4, HandledTurn
<1>6. AsksInTurn'
  BY <1>3, <1>4, <1>5 DEF AsksInTurn
<1> QED
  BY <1>5, <1>6

LEMMA QueuedAction ==
  ASSUME Polite, Orderly, NEW id \in PlayerId, NEW m \in PlayerActionMessage,
         PublishAction(id, m), NEW wants,
         \/ m \in JoinGame /\ client[id].wants = NULL /\ wants = m.gameDifficulty
         \/ m \in LeaveGame /\ wants = NULL
         \/ m \notin JoinGame \cup LeaveGame /\ wants = client[id].wants,
         client' = [client EXCEPT ![id].wants = wants]
  PROVE  AsksInTurn'
<1>1. /\ actions \in [PlayerId -> Seq(PlayerActionMessage)]
      /\ client \in [PlayerId -> Client]
      /\ Fits /\ AsksInTurn /\ GameHolds(game)
  BY DEF Orderly, Fits, TypeOK
<1>2. game' = Idle(game) /\ actions' = [actions EXCEPT ![id] = Append(@, m)]
  BY DEF PublishAction
<1>3. \A y \in PlayerId : Difficulties(game', y) = Difficulties(game, y)
  BY <1>1, <1>2, IdleFacts DEF Difficulties
<1>4. /\ actions'[id] = Append(actions[id], m)
      /\ client'[id].wants = wants
      /\ \A y \in PlayerId \ {id} : /\ actions'[y] = actions[y]
                                    /\ client'[y] = client[y]
  BY <1>1, <1>2 DEF Client
<1> SUFFICES ASSUME NEW y \in PlayerId
             PROVE  InTurn(actions'[y], Difficulties(game', y), client'[y].wants)
  BY DEF AsksInTurn
<1>5. InTurn(actions[y], Difficulties(game, y), client[y].wants)
  BY <1>1 DEF AsksInTurn
<1>6. CASE y # id
  BY <1>3, <1>4, <1>5, <1>6
<1>7. CASE y = id
  <2>1. InTurn(Append(actions[id], m), Difficulties(game, id), wants)
    BY <1>1, <1>5, <1>7, QueuedInTurn
  <2> QED
    BY <1>3, <1>4, <1>7, <2>1
<1> QED
  BY <1>6, <1>7

LEMMA NetworkOrderly ==
  ASSUME Polite, Orderly, NetworkThread
  PROVE  AsksInTurn'
<1>1. /\ client \in [PlayerId -> Client]
      /\ actions \in [PlayerId -> Seq(PlayerActionMessage)]
      /\ AsksInTurn /\ GameHolds(game)
  BY DEF Orderly, Fits, TypeOK
<1>2. ASSUME NEW id \in PlayerId, NEW type, NEW link,
             PublishConnectivity(type, id, link)
      PROVE  AsksInTurn'
  <2>1. /\ game' = Idle(game) /\ actions' = actions
        /\ \A y \in PlayerId : client'[y].wants = client[y].wants
    BY <1>1, <1>2 DEF PublishConnectivity, Client
  <2>2. \A y \in PlayerId : Difficulties(game', y) = Difficulties(game, y)
    BY <1>1, <2>1, IdleFacts DEF Difficulties
  <2> QED
    BY <1>1, <2>1, <2>2 DEF AsksInTurn
<1>3. ASSUME NEW id \in PlayerId, NEW difficulty \in Difficulty,
             Join(id, difficulty)
      PROVE  AsksInTurn'
  <2> DEFINE m == [messageType |-> "JOIN_GAME", gameDifficulty |-> difficulty]
  <2>1. m \in JoinGame /\ m \in PlayerActionMessage /\ m.gameDifficulty = difficulty
    BY ClientsAssumption DEF PlayerActionMessage, JoinGame
  <2>2. /\ PublishAction(id, m) /\ client[id].wants = NULL
        /\ client' = [client EXCEPT ![id].wants = difficulty]
    BY <1>3 DEF Join
  <2> HIDE DEF m
  <2> QED
    BY <2>1, <2>2, QueuedAction
<1>4. ASSUME NEW id \in PlayerId, Leave(id) PROVE AsksInTurn'
  <2> DEFINE m == [messageType |-> "LEAVE_GAME"]
  <2>1. m \in LeaveGame /\ m \in PlayerActionMessage
    BY DEF PlayerActionMessage, RoomActionMessage, LeaveGame
  <2>2. PublishAction(id, m) /\ client' = [client EXCEPT ![id].wants = NULL]
    BY <1>4 DEF Leave
  <2> HIDE DEF m
  <2> QED
    BY <2>1, <2>2, QueuedAction
<1>5. ASSUME NEW id \in PlayerId, NEW m \in ClientAction, Act(id, m)
      PROVE  AsksInTurn'
  <2>1. m \in PlayerActionMessage /\ m \notin JoinGame \cup LeaveGame
    BY ClientsAssumption
    DEF PlayerActionMessage, RoomActionMessage, JoinGame, SetReadyState,
        NotifyCanPlay, PlayerInput, SetReplayReadyState, LeaveGame
  <2>2. PublishAction(id, m) /\ client' = client
    BY <1>5 DEF Act
  <2>3. client' = [client EXCEPT ![id].wants = client[id].wants]
    BY <1>1, <2>2 DEF Client
  <2> QED
    BY <2>1, <2>2, <2>3, QueuedAction
<1> QED
  BY <1>2, <1>3, <1>4, <1>5 DEF NetworkThread, Connect, Close, Fail

LEMMA OrderlyStep ==
  ASSUME Polite, Orderly, Next
  PROVE  Orderly'
<1>1. /\ Fits /\ GameHolds(game) /\ SeatedOnce(game) /\ Inhabited(game)
      /\ NobodyAbsent(game) /\ AsksInTurn
  BY DEF Orderly, Fits
<1>2. Fits'
  BY <1>1, FitsStep, NextMoves
<1>3. CASE DispatchConnectivity
  <2> DEFINE id == Head(connectivity).id
  <2>1. UNCHANGED <<actions, client>>
    BY <1>3 DEF DispatchConnectivity
  <2>2. CASE Head(connectivity).messageType = "CONNECT"
    <3>1. game'.room = game.room /\ game'.published = << >>
      BY <1>1, <1>3, <2>2, ConnectStep
    <3>2. /\ \A x, y : SeatsIn(game', x, y) = SeatsIn(game, x, y)
          /\ \A x : Alive(game', x) <=> Alive(game, x)
          /\ \A y : Difficulties(game', y) = Difficulties(game, y)
      BY <3>1 DEF SeatsIn, Alive, Difficulties, RoomsOf
    <3>3. SeatedOnce(game') /\ Inhabited(game') /\ NobodyAbsent(game')
      BY <1>1, <3>1, <3>2 DEF SeatedOnce, Inhabited, NobodyAbsent
    <3>4. AsksInTurn'
      BY <1>1, <2>1, <3>2, SameQueues
    <3> QED
      BY <1>2, <3>3, <3>4 DEF Orderly
  <2>3. CASE Head(connectivity).messageType # "CONNECT"
    <3>1. /\ id \in PlayerId /\ Without(game', game, id)
          /\ NobodyAbsent(game') /\ Inhabited(game')
      BY <1>1, <1>3, <2>3, DisconnectStep
    <3>2. /\ SeatedOnce(game')
          /\ \A y \in PlayerId : Difficulties(game', y) \subseteq Difficulties(game, y)
      BY <1>1, <3>1, WithoutSeats
    <3>3. AsksInTurn'
      BY <1>1, <2>1, <3>2, SameQueues
    <3> QED
      BY <1>2, <3>1, <3>2, <3>3 DEF Orderly
  <2> QED
    BY <2>2, <2>3
<1>4. CASE DispatchAction
  BY <1>2, <1>4, HandledAction DEF Orderly
<1>5. ASSUME SameCompany(game', game), NobodyAbsent(game')
      PROVE  /\ SeatedOnce(game') /\ Inhabited(game') /\ NobodyAbsent(game')
             /\ \A y \in PlayerId :
                  Difficulties(game', y) \subseteq Difficulties(game, y)
  BY <1>1, <1>5, SameCompanySeats
<1>6. CASE TickRooms
  <2>1. SameCompany(game', game) /\ NobodyAbsent(game')
    BY <1>1, <1>6, TickStep
  <2>2. UNCHANGED <<actions, client>>
    BY <1>6 DEF TickRooms
  <2>3. AsksInTurn'
    BY <1>1, <1>5, <2>1, <2>2, SameQueues
  <2> QED
    BY <1>2, <1>5, <2>1, <2>3 DEF Orderly
<1>7. CASE Elsewhere /\ ~ DispatchAction
  <2>1. SameCompany(game', game) /\ NobodyAbsent(game')
    BY <1>1, <1>7, ElsewhereIdle, IdleStep
  <2>2. ASSUME ~ NetworkThread PROVE UNCHANGED <<actions, client>>
    BY <1>7, <2>2
    DEF Next, GameThread, DispatchConnectivity, GoThroughPlayers,
        CopyCallbacks, EndDrain, TickRooms
  <2>3. AsksInTurn'
    BY <1>1, <1>5, <2>1, <2>2, SameQueues, NetworkOrderly
  <2> QED
    BY <1>2, <1>5, <2>1, <2>3 DEF Orderly
<1> QED
  BY <1>1, <1>3, <1>4, <1>6, <1>7, NextMoves, MoveCases

LEMMA OrderlyInitially ==
  ASSUME Init
  PROVE  Orderly
<1>1. Fits
  BY FitsInitially
<1>2. /\ game = NewGame
      /\ actions = [id \in PlayerId |-> << >>]
  BY DEF Init
<1>3. \A x \in Address : ~ Alive(game, x)
  BY <1>2 DEF NewGame, Alive
<1>4. SeatedOnce(game) /\ Inhabited(game) /\ NobodyAbsent(game)
  BY <1>2, <1>3 DEF SeatedOnce, SeatsIn, Inhabited, NobodyAbsent, NewGame
<1>5. ASSUME NEW id \in PlayerId
      PROVE  InTurn(actions[id], Difficulties(game, id), client[id].wants)
  <2>1. RoomsOf(game, id) = {} /\ actions[id] = << >>
    BY <1>2, <1>3 DEF RoomsOf
  <2>2. Difficulties(game, id) = {}
    BY <2>1 DEF Difficulties
  <2> QED
    BY <2>1, <2>2 DEF InTurn, Asks
<1> QED
  BY <1>1, <1>4, <1>5 DEF Orderly, AsksInTurn

LEMMA OrderlyStutter ==
  ASSUME Orderly, UNCHANGED vars
  PROVE  Orderly'
<1>1. Fits'
  BY FitsStutter DEF Orderly
<1>2. UNCHANGED game /\ UNCHANGED actions /\ UNCHANGED client
  BY DEF vars
<1> QED
  BY <1>1, <1>2 DEF Orderly, AsksInTurn

LEMMA OrderlyAlways ==
  ASSUME Polite
  PROVE  Spec => []Orderly
<1>1. Init => Orderly
  BY OrderlyInitially
<1>2. Orderly /\ [Next]_vars => Orderly'
  BY OrderlyStep, OrderlyStutter
<1> QED
  BY <1>1, <1>2, PTL DEF Spec

-----------------------------------------------------------------------------
(* What holds where clients leave before they join again *)

(* A set with one element at most counts it, if there is one. *)
LEMMA OneElement ==
  ASSUME NEW S, \A s, t \in S : s = t
  PROVE  Cardinality(S) = IF S = {} THEN 0 ELSE 1
<1> DEFINE count(T) == IF T = {} THEN 0 ELSE 1
           Counts(f) == f = [T \in SUBSET S |->
                               IF T = {} THEN 0
                                         ELSE 1 + f[T \ {CHOOSE x : x \in T}]]
           f == CHOOSE f : Counts(f)
           g == [T \in SUBSET S |-> count(T)]
<1>1. Cardinality(S) = f[S]
  BY DEF Cardinality
<1>2. Counts(g)
  <2>1. ASSUME NEW T \in SUBSET S
        PROVE  count(T) = IF T = {} THEN 0
                                    ELSE 1 + g[T \ {CHOOSE x : x \in T}]
    <3>1. CASE T = {}
      BY <3>1
    <3>2. CASE T # {}
      <4>1. (CHOOSE x : x \in T) \in T
        BY <3>2
      <4>2. T \ {CHOOSE x : x \in T} = {}
        BY <4>1
      <4>3. g[{}] = 0
        OBVIOUS
      <4> QED
        BY <3>2, <4>2, <4>3
    <3> QED
      BY <3>1, <3>2
  <2> QED
    BY <2>1
<1>3. Counts(f)
  BY <1>2
<1> HIDE DEF f
<1>4. f[{}] = 0
  BY <1>3
<1>5. CASE S = {}
  BY <1>1, <1>4, <1>5
<1>6. CASE S # {}
  <2>1. (CHOOSE x : x \in S) \in S
    BY <1>6
  <2>2. S \ {CHOOSE x : x \in S} = {}
    BY <2>1
  <2>3. f[S] = 1 + f[S \ {CHOOSE x : x \in S}]
    BY <1>3, <1>6
  <2> QED
    BY <1>1, <1>4, <2>2, <2>3
<1> QED
  BY <1>5, <1>6

LEMMA OneSeatOf ==
  ASSUME SeatedOnce(game)
  PROVE  OneSeatPerPlayer
<1> SUFFICES ASSUME NEW id \in PlayerId
             PROVE  Cardinality({seat \in Address \X Assignment :
                      /\ Alive(game, seat[1])
                      /\ seat[2] \in SeatsOf(game.room[seat[1]], id)}) <= 1
  BY DEF OneSeatPerPlayer
<1> DEFINE S == {seat \in Address \X Assignment :
                   /\ Alive(game, seat[1])
                   /\ seat[2] \in SeatsOf(game.room[seat[1]], id)}
<1>1. \A s \in S : /\ s[1] \in Address /\ s = <<s[1], s[2]>>
                   /\ s[2] \in SeatsIn(game, s[1], id)
  BY DEF SeatsIn
<1> HIDE DEF S
<1>2. ASSUME NEW s \in S, NEW t \in S PROVE s = t
  <2>1. s[1] = t[1] /\ s[2] = t[2]
    BY <1>1 DEF SeatedOnce
  <2> QED
    BY <1>1, <2>1
<1>3. Cardinality(S) = IF S = {} THEN 0 ELSE 1
  BY <1>2, OneElement
<1> QED
  BY <1>3 DEF S

(***************************************************************************)
(* OneSeatPerPlayer is invariant: for any number of players, rooms and     *)
(* messages, a client that leaves before it joins again is never seated    *)
(* twice, in one room or in two.                                           *)
(***************************************************************************)
THEOREM PlayersHaveOneSeat ==
  ASSUME Polite
  PROVE  Spec => []OneSeatPerPlayer
<1>1. Orderly => OneSeatPerPlayer
  BY OneSeatOf DEF Orderly
<1> QED
  BY <1>1, OrderlyAlways, PTL

LEMMA RoomsInhabited ==
  ASSUME GameHolds(game), Inhabited(game)
  PROVE  NoOrphanRoom
<1>1. RoomsListed(game)
  BY DEF GameHolds
<1>2. \A i \in DOMAIN game.rooms : ~ IsEmpty(game.room[game.rooms[i]])
  BY <1>1, ListedRoom DEF Inhabited
<1> QED
  BY <1>1, <1>2 DEF NoOrphanRoom, RoomsListed

(***************************************************************************)
(* NoOrphanRoom is invariant: rooms is the list, without repetition, of    *)
(* the rooms that are alive, and somebody is in each.                      *)
(***************************************************************************)
THEOREM RoomsAreInhabited ==
  ASSUME Polite
  PROVE  Spec => []NoOrphanRoom
<1>1. Orderly => NoOrphanRoom
  BY RoomsInhabited DEF Orderly, Fits
<1> QED
  BY <1>1, OrderlyAlways, PTL

(***************************************************************************)
(* MatchedByDifficulty is invariant: once all it sent is handled, a player *)
(* sits in a room of the difficulty it asked for last.                     *)
(***************************************************************************)
THEOREM PlayersGetWhatTheyAsked ==
  ASSUME Polite
  PROVE  Spec => []MatchedByDifficulty
<1>1. ASSUME Orderly PROVE MatchedByDifficulty
  <2> SUFFICES ASSUME NEW id \in PlayerId, NEW address \in RoomsOf(game, id),
                      actions[id] = << >>
               PROVE  game.room[address].difficulty = client[id].wants
    BY DEF MatchedByDifficulty
  <2> DEFINE d == game.room[address].difficulty
  <2>1. game.room[address] \in RoomState
    BY <1>1, LiveRoom DEF Orderly, Fits, RoomsOf
  <2>2. d \in GameDifficulty
    BY <2>1 DEF RoomState
  <2>3. Asks(<< >>, Difficulties(game, id), 0, d)
    BY DEF Asks, Difficulties
  <2>4. InTurn(<< >>, Difficulties(game, id), client[id].wants)
    BY <1>1 DEF Orderly, AsksInTurn
  <2> HIDE DEF d
  <2>5. 0 \in 0..Len(<< >>) /\ (0 + 1)..Len(<< >>) = {}
    OBVIOUS
  <2>6. client[id].wants = d
    BY <2>2, <2>3, <2>4, <2>5 DEF InTurn
  <2> QED
    BY <2>6 DEF d
<1> QED
  BY <1>1, OrderlyAlways, PTL

(***************************************************************************)
(* NothingForTheAbsent is invariant: whatever a step publishes, by a call  *)
(* of the room, a timer or a departure, it publishes for players in a room.*)
(***************************************************************************)
THEOREM TheAbsentAreNotTold ==
  ASSUME Polite
  PROVE  Spec => []NothingForTheAbsent
<1>1. Orderly => NothingForTheAbsent
  BY DEF Orderly, NobodyAbsent, NothingForTheAbsent
<1> QED
  BY <1>1, OrderlyAlways, PTL

(***************************************************************************)
(* Handling a DISCONNECT frees every seat of the player.                   *)
(***************************************************************************)
THEOREM DisconnectedPlayersAreGone ==
  ASSUME Polite
  PROVE  Spec => DisconnectFreesSeats
<1> DEFINE Freed ==
      connectivity # << >> /\ connectivity' = Tail(connectivity) =>
        LET message == Head(connectivity)
        IN message.messageType = "DISCONNECT" => RoomsOf(game', message.id) = {}
<1>1. ASSUME Orderly, [Next]_vars
      PROVE  Freed
  <2>1. CASE DispatchConnectivity
    BY <1>1, <2>1, DisconnectStep DEF Orderly
  <2>2. CASE ~ DispatchConnectivity
    <3>1. connectivity \in Seq(ConnectivityMessage)
      BY <1>1 DEF Orderly, Fits, TypeOK
    <3>2. \/ connectivity' = connectivity
          \/ \E m \in ConnectivityMessage : connectivity' = Append(connectivity, m)
      <4>1. ASSUME NEW id \in PlayerId, NEW type \in {"CONNECT", "DISCONNECT"},
                   NEW link, PublishConnectivity(type, id, link)
            PROVE  \E m \in ConnectivityMessage :
                     connectivity' = Append(connectivity, m)
        BY <4>1 DEF PublishConnectivity, ConnectivityMessage
      <4>2. CASE \E id \in PlayerId : Connect(id) \/ Close(id) \/ Fail(id)
        BY <4>1, <4>2 DEF Connect, Close, Fail
      <4>3. CASE ~ \E id \in PlayerId : Connect(id) \/ Close(id) \/ Fail(id)
        BY <1>1, <2>2, <4>3
        DEF Next, vars, GameThread, NetworkThread, GoThroughPlayers,
            CopyCallbacks, DispatchAction, EndDrain, TickRooms, Join, Leave,
            Act, PublishAction
      <4> QED
        BY <4>2, <4>3
    <3>3. connectivity # << >> =>
            /\ Len(Tail(connectivity)) = Len(connectivity) - 1
            /\ Len(connectivity) \in Nat
      BY <3>1
    <3>4. \A m \in ConnectivityMessage :
            Len(Append(connectivity, m)) = Len(connectivity) + 1
      BY <3>1
    <3> QED
      BY <3>2, <3>3, <3>4
  <2> QED
    BY <2>1, <2>2
<1> QED
  BY <1>1, OrderlyAlways, PTL DEF Spec, DisconnectFreesSeats
=============================================================================
