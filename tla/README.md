# Samurai Kirby Server in TLA+

The server of a reflex game for two players. Clients connect over TCP, are
matched into rooms by difficulty, say that they are ready, are asked for a
button after a random countdown, and are told who won. Paths below are relative
to the repository; line numbers name the code a statement is about.

## 1. The system

Two threads. The **network thread** (`Server::start`) accepts connections,
reads each of them in turn and sends what is queued for it. The **game thread**
(`Gameplay::start`) goes round for ever: connectivity messages, then the
actions of each player, then a tick of every room. They share the queues of a
`MessageHub`, each side through a broker of its own.

```
 client --TCP--> ConnectedClient --> NetworkMessageBroker --> MessageHub
                                                                  |
 client <--TCP-- ConnectedClient <-- NetworkMessageBroker <--     v
                          MessageHub <-- Room <-- RoomManager <-- GameplayMessageBroker
```

| Component | State | Operations | What makes it correct |
|---|---|---|---|
| Room, Player | state of the game, two seats with the players' flags and inputs, expected button, two timers, limits | `addPlayer`, `removePlayer`, `handlePlayerMessage` (5 messages), `tick` (6 handlers) | one verdict a game, justified by the presses of that game; no timer or input of an earlier game; both players told the same; `tick` never throws; a request ends |
| RoomManager | the vector of rooms | `addPlayerToRoom`, `removePlayerFromRoom`, `tickAllRooms`, `handlePlayerMessage` | a player in one seat, in a room of its difficulty; no half-empty room while another of the same kind is made; no room nobody is in |
| Gameplay | none of its own | `start`, `handlePlayerConnectivityMessage` | every queue is served; a departure frees the seat |
| GameplayMessageBroker | callbacks of each player with their context | subscribe, unsubscribe, `dispatchMessages`, publish | who is seated is heard, once; an action changes no other room |
| MessageHub | a queue of connectivity messages, two maps of queues | push, front, pop by two threads | each map written and read by one thread at a time |
| NetworkMessageBroker | one callback a connected player | subscribe, unsubscribe, `dispatchMessages`, publish | messages reach the connection they are for, once and in order |
| ConnectedClient, Server | the list of connections, `hasBeenDisconnected`, next id | accept, receive, send, erase | each connection is served, also after another's throws; a callback for each client that exists; a session of each id: CONNECT, actions, DISCONNECT |
| Serializer | none | serialize 12 messages, deserialize 6 | a text tells its message apart; what is not understood is dropped whole |
| Sockets, main | none | system calls | |

What is hard: two threads without a lock; messages sent in one state of a room
and handled in another; two players, a clock and a loop that race for every
verdict; subscriptions and addresses that outlive rooms; clients that vanish
with messages still queued. `PROJECT.json` lists the hazards at their lines.

## 2. Modules

| Module | Models | Extends |
|---|---|---|
| `Messages` | seats, buttons, difficulties, every message as a set of records | |
| `RoomHandlers` | `Room.cpp`, `Player.cpp`: each operation as an operator from the room before the call to the room after it | `Messages` |
| `Room` | one room as a state machine: one action for each kind of call, time, its properties | `RoomHandlers` |
| `Match` | the abstract specification: what the two players of a room are shown | |
| `RoomClients` | the room with what each client was last told, who has pressed and who too early; the refinement of `Match` | `Room`, `Screens` |
| `RoomHandlersProofs` | lemmas about each handler of a room: it keeps a room sound, and its players shown its state | `Screens`, TLAPS |
| `RoomProofs` | theorems about `Room` and `RoomClients`, and that it implements `Match` | `RoomClients`, `RoomHandlersProofs` |
| `RoomManager` | `RoomManager.cpp` and the subscriptions of `GameplayMessageBroker.cpp`, as operators on the data of the game thread | `RoomHandlers` |
| `RoomManagerProofs` | lemmas about each call of the game thread, and about a message handed to all its callbacks | `RoomManager`, `RoomHandlersProofs` |
| `Gameplay` | the game thread step by step, interleaved with what the network thread pushes | `RoomManager` |
| `GameplayProofs` | theorems about `Gameplay` | `Gameplay`, `RoomManagerProofs` |
| `Screens` | what a client shows, as the messages change it | `RoomHandlers` |
| `Network` | `Server.cpp`, `ConnectedClient.cpp`, `NetworkMessageBroker.cpp`, the connections and the clients' end of them | |
| `Session` | the abstract specification: what the network thread promises the game thread of each id | |
| `Conversations` | the network thread with any game thread behind the hub; the refinement of `Session` | `Network` |
| `ConversationsProofs` | theorems about `Conversations`, and that it implements `Session` | `Conversations`, TLAPS |
| `MessageHub` | `MessageHub.h`: its containers, access by access, with both threads | |
| `HubProofs` | a theorem about `MessageHub` | `MessageHub`, TLAPS |
| `Serializer` | both directions of the serializer | `Messages` |
| `SerializerProofs` | theorems about `Serializer` | `Serializer`, TLAPS |
| `Server` | the whole server: `Gameplay` and `Network` over the same queues | `Gameplay`, `Screens` |
| `ServerProofs` | theorems about `Server` | `Server`, `GameplayProofs` |
| `MCRoom`, `MCRoomClients`, `MCGameplay`, `MCConversations`, `MCSerializer`, `MCServer` | instances for TLC | |

Definitions marked *Mutation* next to a definition are plausible bugs of it.
They are used by nothing: replacing the definition by the mutation must make
TLC find a property violated (`PROJECT.json`, "mutants").

### Room

Only the game thread calls a room, so a call is one step and a handler is a
function of the room. `room'` of `Room!Next` is the room after one call of
`addPlayer`, `removePlayer`, `handlePlayerMessage` or `tick` - with all the
handlers `tick` chains, in their order - or after one granule of time. Nothing
filters what reaches a room, so `Room` lets any id send any action in any state
and join as often as it likes.

* *Time.* A time point is stored as its age. `getTimeNow()` is 0,
  `getSecondsSince(t)` is the age of `t`, and `TimePasses` adds one granule to
  every age. Ages stop at `MaxAge`, past every limit they are compared with; of
  two presses the later stops one short of it, so which came first is never
  forgotten. A call takes no time: `getTimeNow` is the same throughout a tick.
* *Randomness.* `getRandomGameplayInput` is a choice among the buttons of the
  difficulty. `secondsBeforeInputRequest`, drawn once for a room, is a constant.
* *Output.* `published` holds what the current call published, with addressees;
  it is emptied at the next step. Messages already published cannot be taken
  back, so nothing later depends on it.
* *Undefined behaviour.* `removePlayer` reads two ints of a player whose
  optional it has just emptied (`Room.cpp:214-215`). The reset does not
  touch them; the model takes them as unchanged.

`RoomClients` adds three history variables: `screen`, what each client shows after
the messages it was sent; `pressed`, the seats that have sent an input since they
were last told of a fresh game; and `early`, those of them that a tick of the game
came upon when no input was asked for. The room reads none of them. `early` is
about ticks, not about times: the code looks for early presses only when it ticks,
so who presses after the last tick before the request is not found
(`VerdictIsJustified` says what follows for who is found, `WinsAreEarned` what
the documentation says of the others).

`Match` has one more condition on its steps than its actions: a step changes the
view (`view' # view`), and what changes nothing is a stutter.

### Game thread

`game` is the data of the thread: `rooms` (the vector, as addresses), `room`
(what is alive at an address), `callbacks` (in order, by context) and
`published` (by the last step). A room has an address because its callbacks
capture `this`: `unsubscribeToPlayerActionMessages` erases from a copy
(`GameplayMessageBroker.cpp:13`), so `Unsubscribe` changes nothing, callbacks
survive their room, and a new room may be allocated at a free address where they
then find it. The callback of a room that is gone finds an emptied room and
returns. It might also end the process; a behaviour that stops is one of `Spec`
already. Reuse of the memory by anything but a room is not modelled.

`loop` is the place of the thread in its loop. One step is one connectivity
message, the choice of the next player with the copy of its callbacks
(`GameplayMessageBroker.cpp:33-36`), one action handed to the copied callbacks,
the end of a drain, or a tick of all rooms. `connectivity` and `actions` are the
queues of the hub; a push, and a front with its pop, are one step each.

The network thread is what it publishes: `Connect` (the constructor of
`ConnectedClient`), `Join`, `Leave`, `Act` (a text received and deserialized),
`Close` (`recv` returned 0) and `Fail` (`recv` failed: DISCONNECT is published
while the connection stays, so `Close` can publish a second one). `Polite`
clients, like the game's own, join when they are in no room, leave when they are
in one and act once they have been seated; they may vanish at any moment.
Clients that are not polite send anything.

### Network thread

`place` is how far the thread is in its round: in `accept()`, about to receive
from the `next` client of `clients`, or dispatching, with the callbacks `left`
in any order (`NetworkMessageBroker.cpp:20` goes through an `unordered_map`). A
step is one system call or one message: the game thread and the clients move
between any two. After an accept that finds nobody or somebody, each client is
received from and then *every* client is sent what waits for it
(`Server.cpp:56-61`), and the one that hung up is erased.

* *Receive.* One read returns a prefix of the pieces that arrived
  (`Receive(id, size)`); it is parsed as one text and dropped unless it is one
  (`Deserialized`). Nothing to read, the end, and an error are the other three
  outcomes. An error publishes DISCONNECT, ends the round by its exception, and
  leaves the client in the list: its socket then reads as closed, and a second
  DISCONNECT is published.
* *Send.* What `send()` returns is not looked at. A message goes to the client,
  or nowhere when the client is marked as disconnected, when the socket is full
  (never that of a client in `Roomy`) or when the peer refuses it. After a peer has refused data,
  a send may raise SIGPIPE, which nothing ignores: `place` is then KILLED.
* *Limit.* With `MaxDescriptors` client sockets, `accept()` fails, whether or
  not a connection waits, and start() tries again: no step. Closed clients are
  erased only behind it, so the server does not recover (`Server.cpp:79`).
* *Texts.* A text is `Pieces` pieces; a buffer of 1024 bytes holds more texts
  than are ever on their way.

`Conversations` puts the most general game thread behind the queues: it
publishes numbered messages to any id it was told of, also after its DISCONNECT.
`MaxSaid` and `MaxPublished` bound the texts and the messages of one client,
`MaxTraffic` those of all together.
`Session` is what a game thread may rely on; it sees `connectivity`, `actions`
and `link` only. The network actions of `Gameplay` (`Connect`, `Close`, `Fail`,
`PublishAction`) are steps of `Session`.

### Whole server

`Server` instantiates `Network` over the variables of `Gameplay`: both name the
same `connectivity` and `actions`, and `link` of `Network` is the `link` field of
`client`. Each step of the network thread that touches the hub is the
conjunction of the two modules' actions (`Accepts`, `Hears`, `Loses`), so neither
can do what the other does not expect. What a step of the game thread publishes
goes to `outbox`. Clients send a text when the one before was read, ask for a
room only when they have asked for none, and act when they are shown one;
what happens to faster clients is the subject of `Conversations`. They call for
`PublishAction` itself, and not for `Join`, `Leave` and `Act`, whose guards are
those of clients that see the server's state.

### Hub

`MessageHub` takes an access to a container apart: from the step that starts it
to the one that finishes it the other thread may access a container too. A
thread produces (`operator[]`, push) or consumes (`operator[]`, then empty,
front, callback, pop); the game thread also produces inside its callback.
The C++ standard gives a data race no meaning. The model records where one can
occur (`NoDataRace`) and goes on as if the access had been harmless, as do the
other modules; that each queue has one consumer, so that `front()` and `pop()`
find what `empty()` saw, is `PopsFindAMessage`, proved in `HubProofs`.

### Serializer

A text is a record from the keys of a JSON object to its values, with the number
of each enumerator and null for an empty optional. A run sends every message of
the server once, and every action whole, with a field missing, with an unknown
type, or with a field more. `MessageRead` is the client's side of a message: it
goes by keys and numbers only, and looks for the result of a player by the
"assignment" written in it, so it does not depend on how the text was made.

## 3. Runs

| Run | Checks | Bounds |
|---|---|---|
| `room_clients` | `TypeOK`, `TickNeverThrows`, `TimersBelongToTheGame`, `OneVerdictPerGame`, `InputsBelongToTheGame`, `ClientsFollowRoom`, `VerdictIsJustified`, and that the room implements `Match` (`RoomIsAMatch`) | 2 ids, EASY, 2 buttons, limits 1, 2, 1 |
| `room_liveness` | `RequestEnds`, `CountdownEnds`, `ReadyPlayersGetAGame` | 2 ids, EASY, 1 button, limits 1, 1, 1 |
| `game_thread` | `TypeOK`, `SeatsAreReachable`, `OneSeatPerPlayer`, `NoOrphanRoom`, `MatchedByDifficulty`, `NewcomersAreMatched`, `ActionsStayHome`, `DisconnectFreesSeats`, `NothingForTheAbsent` | 2 polite ids, 2 addresses, 2 difficulties, 3 joins, 2 actions queued |
| `game_thread_liveness` | `EveryoneIsServed` | 2 polite ids, 1 address, 1 join, 2 actions queued |
| `conversations` | `TypeOK`, `CallbacksAreOfClients`, `MessagesArriveInOrder`, `ActionsWereSaid`, that it implements `Session` (`KeepsSessions`), `DepartureIsNoticed`, `EveryClientIsServed` | 2 ids, the socket of one may be full, 2 texts of 2 pieces, 2 texts or messages in all, to or from the same client or not |
| `serializer` | `MessagesAreRead`, `ActionsSurviveTheWire` | every message and action of `Messages`, 1 reaction time |
| `server` | `ClientsGetWhatTheyAsked`, `ScreensFollowRooms` | 2 ids, 2 addresses, 2 joins, 5 texts in all, nobody goes |
| `server_answers` | `JoinIsAnswered` | 2 ids, 1 address, 1 join, 1 client goes |

Why the bounds are enough. A room compares ids only with those of its seats, so
two ids show what more would; a third player is to a room what a departed one
is, and both come again. Two buttons give the asked and a wrong one. Limits of 1
and 2 separate "at once", "at the limit" and "before it"; the first and the last
differ from the second, so a handler that uses the wrong one is seen. In the
game thread three joins let a player join, leave and join again beside another,
and two addresses are all that two polite clients can need at once; a room that
goes makes its address free for the next. Two queued actions are a message and
one behind it in the same drain. No time passes in the game thread, because
without NOTIFY_CAN_PLAY no timer starts; games are the subject of `Room`.
Symmetry is used over ids and over addresses, which are only compared for
equality, and never in a liveness run.

In the network thread two clients show what one does to the other, before and
after it in the list; they leave a descriptor free, because at the limit nothing
happens any more. Two pieces are a text that is split or read whole; with texts
of one piece (`conversations_texts`), two are read together. Two messages to one
client, or two different texts of one, are enough to be swapped, repeated or
lost; one for each client, or a text beside a message, to be mixed up, and more
than two in all would need the two of one client again. One client has a socket
that always has room and must be shown every message, the other may miss some. In the whole server five texts let
two players join, get ready, and one leave in the middle of the game they are
shown. A client that hangs up is in `server_answers`: with both at once the
instance is too large. MaxQueued is never reached there: clients send no more
than the bound on texts.

The deadlock check is off in the runs of `MCConversations` and in
`server_answers`, where the process may be killed and clients have said all they
may, and in `serializer`, which carries one text. It is on elsewhere.

### Where the code and its texts disagree

Each of these runs checks one sentence of the repository, and TLC finds the code
doing otherwise.

| Run | Property | What happens |
|---|---|---|
| `room_earned` | `WinsAreEarned` | both press before the request, at different times; the tick that makes it looks at neither, the next one compares only the times: a press too early and of a wrong button wins (`README.md:7`, `tests/room/gameplay.cpp:355`, `Room.cpp:79`) |
| `game_seated_heard` | `SeatedPlayerIsHeard` | an action that arrives in the drain of its sender's JOIN_GAME is lost (`tests/room/gameplay.cpp:30-35`) |
| `conversations_texts` | `EveryTextIsDeserialized` | two texts that one read returns are dropped, both (`README.md:74`) |
| `hub_race` | `NoDataRace` | both threads write to one map: one inserts a key where the other looks one up (`README.md:38`) |

`WinsAreEarned` is false only where a verdict breaks two sentences at once:
`CorrectButtonWins` ("the first to press the *correct* button wins") and
`EarlyPressNeverWins` ("player pressed too early - failed"). Each of the two
implies it, so its counterexample is one of both.

More such properties are stated in the modules and have no run of their own. TLC
violates each when it takes the place of the property in the configuration named
(`ReadyChangesAreAnnounced` as a PROPERTY, the others as an INVARIANT).

| Property | Configuration | What happens |
|---|---|---|
| `FastestPlayerWins` | `MCRoomEarned`, `ReactionTime` {300, 400} | the server's order of handling decides, `timeToPress` is never read (`README.md:58`) |
| `CorrectButtonWins` | `MCRoomEarned` | with both inputs there, only times are compared: a wrong button wins (`README.md:7`, `tests/room/gameplay.cpp:355`) |
| `EarlyPressNeverWins` | `MCRoomEarned` | a press before the request wins when no tick came between the two, or both pressed early (`Room.cpp:79`) |
| `ReadyChangesAreAnnounced` | `MCRoomEarned` | who stays when the other leaves is made ready, and nobody is told (`tests/room/gameplay.cpp:35`) |
| `ReadyChangeIsToldOnce` | `MCGameplayHeard` | after leaving and joining again a change of the ready state is told twice (`tests/room/gameplay.cpp:36`) |
| `GamesAreBetweenTheConnected` | `MCGameplayHeard` | a DISCONNECT overtakes its sender's JOIN_GAME: a client that is gone is seated, made ready when another leaves, and a game starts against it (`README.md:7`) |
| `GamesHaveTwoPlayers` | `MCGameplayHeard`, `Polite` FALSE | one client in both seats of a game (`README.md:7`) |
| `RematchIsToldAsTested` | `MCSerializer` | the tests want one text, that of a game over by an early input, from a replay ready state and from the start of a rematch; the code writes each message as itself (`tests/serializer/serializeGameplayMessage.cpp:258`, `:270`) |

`MessagesAreRead` leaves those two messages of a rematch out: what their tests ask
for and what the code writes cannot both be read back.

### Fairness

`Room!FairSpec` is fair to `DoTick` and `TimePasses`: `Gameplay::start` ticks
every room in a loop without end or condition, and the clock does not stand
still. Nothing obliges a player. Hence the exception in `RequestEnds` - each
further press restarts the grace period (`Room.cpp:160`) - and why a started
game whose players never say they can play may wait for ever: `CountdownEnds`
starts where both have said so. `Gameplay!FairSpec` is fair to the steps of the
game thread together, a thread of its own that never blocks. Its progress may
all go into the queue of one client, the exception of `EveryoneIsServed`; then
no room ticks either, which `Room!FairSpec` does not consider. It also assumes
that the callback of a room that is gone does not end the process.

`Conversations!FairSpec` is fair to the network thread as a whole, a loop over
non-blocking sockets; the game thread and clients owe nothing. Two ends are
excepted by name (`Stuck`): the process was killed, or all its descriptors are
taken, after which the loop stays in `accept()`. `EveryClientIsServed` further
assumes that nobody sends or publishes for ever, because the code drains each
queue to its end before it goes on: `MaxSaid` and `MaxPublished` bound both.
`Server!FairServerSpec` is fair to each thread on its own: neither waits for the
other, and each goes on whatever the other does.

## 4. Proofs

A run answers for its bounds; a theorem for every set of ids and addresses, every
limit of the clock, every length of a queue. A theorem about a component is in
the module named after it; the property is the one a run checks. Every safety
property of a passing run has its theorem.

| Module | Theorem | Says |
|---|---|---|
| `RoomProofs` | `RoomIsSound` | `Spec => []Sound(room)` |
| | `TypeIsInvariant` | `Spec => []TypeOK` |
| | `TickIsSafe` | `Spec => []TickNeverThrows` |
| | `TimersAreFresh` | `Spec => []TimersBelongToTheGame` |
| | `VerdictsAreUnique` | `Spec => OneVerdictPerGame` |
| | `ClientsAlwaysFit` | `ClientsSpec => []ClientsFit` |
| | `InputsAreOfTheGame` | `ClientsSpec => []InputsBelongToTheGame` |
| | `NobodyIsLeftBehind` | `ClientsSpec => []ClientsFollowRoom` |
| | `VerdictsAreJustified` | `ClientsSpec => []VerdictIsJustified` |
| | `RoomImplementsMatch` | `ClientsSpec => RoomIsAMatch` |
| `GameplayProofs` | `GameplayTypeCorrect` | `Spec => []TypeOK` |
| | `SeatedPlayersAreHeard` | `Spec => []SeatsAreReachable` |
| | `NewcomersMeet` | `Spec => NewcomersAreMatched` |
| | `StrangersAreLeftAlone` | `Spec => ActionsStayHome` |
| | `PlayersHaveOneSeat` | `Polite`: `Spec => []OneSeatPerPlayer` |
| | `RoomsAreInhabited` | `Polite`: `Spec => []NoOrphanRoom` |
| | `PlayersGetWhatTheyAsked` | `Polite`: `Spec => []MatchedByDifficulty` |
| | `TheAbsentAreNotTold` | `Polite`: `Spec => []NothingForTheAbsent` |
| | `DisconnectedPlayersAreGone` | `Polite`: `Spec => DisconnectFreesSeats` |
| `ConversationsProofs` | `TypeIsInvariant` | `Spec => []TypeOK` |
| | `CallbacksAreSafe` | `Spec => []CallbacksAreOfClients` |
| | `MessagesKeepTheirOrder` | `Spec => []MessagesArriveInOrder` |
| | `ActionsKeepTheirOrder` | `Spec => []ActionsWereSaid` |
| | `NetworkKeepsSessions` | `Spec => KeepsSessions` |
| `SerializerProofs` | `TextsAreRead` | `Spec => []MessagesAreRead` |
| | `ActionsAreUnderstood` | `Spec => []ActionsSurviveTheWire` |
| `HubProofs` | `PopsAreSafe` | `MessageHub!Spec => []PopsFindAMessage` |
| `ServerProofs` | `ClientsAreServed` | `ServerSpec => []ClientsGetWhatTheyAsked` |
| | `PromisesAreKept` | `ServerSpec => []` of `SeatsAreReachable`, `OneSeatPerPlayer`, `NoOrphanRoom` and `NothingForTheAbsent` |
| | `ClientsSeeTheirRooms` | `ServerSpec => []ScreensFollowRooms` |

### Room

The inductive invariant is `Sound(r)`: `r` is a room, `ValuesAreHeld(r)` and
`TimersFit(r)`. They need each other. That `tick` finds two players needs every
departure to bring the room back to the lobby; that the input timeout has a
value needs it to start with the request; that a timer belongs to the game needs
the room to be full while it runs, and the time points to be ages, to say that
the countdown started no later than the request. The argument has one lemma for
each handler (a sound room stays sound), on top of lemmas that publishing
changes nothing but `published`; `tick`, `handlePlayerMessage` and the step
follow by composing them. The same lemmas serve the game thread, whose rooms are
sound one by one.

`OneVerdictPerGame` follows each tick through its six handlers: as long as the
game runs, nothing of it has been told (`Silent`); the handler that ends it tells
both players one message (`ToldToBoth`); and no handler behind that one finds a
running game.

### Room and clients

`ClientsFit` adds to `Sound` that there is one verdict, or none, that all players
of the room show together with its state (`Shown`), that the room holds an input
of exactly the seats that pressed (`Held`), and that a verdict it has just given
fits the presses it holds (`Justified`). A tick breaks the first of these in its middle:
between two handlers the room has moved on and its players have not received the
messages. `MidGame` is what holds there; it reads the screens as they will be
once the call's messages have arrived (`ViewAfter`). `ViewAfter` is the view after
the last telling message to a client, so what it makes of one more message
(`PublishIsSeen`) needs no induction.

`Justified` is not yet `VerdictIsJustified`, which also speaks of the ticks that
came before: `ByPresses` knows only whether an input was asked for when the
verdict was given. `EarlyFits` is what joins the two: in a game that goes on,
either nobody was found early, or both players were and both have pressed, since
the tick that finds one alone makes it the loser (`OnePlayerPlayedLooks`). So a
win of one press is of one that no tick found early, and a win of two is never of
one that was found against one that was not. A call that is no tick gives no
verdict and takes back no press of a running game (`Uneventful`).
`VerdictsAreJustified` shows `ClientsFit` and `EarlyFits` inductive together with
`VerdictIsJustified`.

The refinement of `Match` takes each call by what it does to the screens: a step
of the match of that name, or none. An early verdict must come from the countdown
and no other from it, the reason why `MidGame` remembers the state the tick began
in.

### Game thread

`Fits` is inductive whatever clients send: `TypeOK`; every live room is sound and
is listed once; the room manager hears each player first and once; the room of a
seated player hears it; the drain is of a player that is listened to; and a
CONNECT comes once and before any callback of its player. Order matters twice in
it. The manager subscribes before any room can, so a JOIN_GAME or LEAVE_GAME
reaches the manager before the rooms of the copied callbacks, and what they find
is the room the manager left: `DispatchStays` and `DispatchEnds` say what becomes
of a message that has passed through all callbacks. And a CONNECT that came twice
would subscribe the manager twice, which would then seat a player twice.

`Orderly` adds what needs polite clients: one seat each, somebody in each room,
and `AsksInTurn`. The last is about the queue: a message is handled long after it
was sent, so one seat at a time is kept only if what is still queued does not ask
for a second. The seat is place 0 and the queue the places behind it; between two
places that ask for a room is one that leaves it, and behind the last one too,
unless the client `wants` a room, of that difficulty. The theorems marked
`Polite` assume it: a client that joins twice is seated twice, as
`GamesHaveTwoPlayers` shows. It is a CONSTANT, TRUE in the run `game_thread`.

### Network thread

`Orderly` (of `ConversationsProofs`) is the shape of a round: a place in the list is
one of a client, callbacks are those of the list, without repetition, a client
that hung up is the one being dispatched to, and a broken link has no bytes left
to read, so that its second DISCONNECT is the last. Where the orders are at stake
there are two more. `MessagesAreTraced`: what was shown and what is queued,
together, are the numbers published, all of them where sockets have room and the
client is there. `TextsAreTraced`: there is a place in what a client said for each
queued action and each piece on its way, in order, and every piece later than
every action; the places are chosen anew with each step.

`NetworkKeepsSessions` maps each step to one of `Session`, or to none. It needs
`Orderly` for `Receive` and `ReceiveEnd` alone, which are steps of a session only
if the link is not closed already.

### Whole server

`Fits` holds here as well: all it needs of the network thread and the clients is
`Outside` (they leave the data of the game thread alone and append to its queues
what is well typed) and, for connectivity, `LinkMoves`. `GameplayProofs` shows
`Fits` inductive from these two, whoever fills the queues.

`Asked` takes the place of `Orderly`. In `Gameplay` a polite client knows what is
queued of it; here it knows what it said and what it is shown, and its texts are
late. So the places of `AsksInTurn` go on behind the queue into the text that has
arrived (`ClientsOnTheirWay`). A text can be lost, by an error on its connection:
then the queue the client had in mind (`Sent`) is longer than the one there is,
and it is `InTurn` all the same, as all that is queued of it comes before the
loss. For a client that is there nothing is lost, and what it wants is asked for
(`Standing`) and not left again. That nobody who is there is
disconnected needs the connections: a DISCONNECT waits only for a client whose
end is gone (`ConnectionsFit`).

`ScreensFollowRooms` follows a message all the way. `KeepsSight`, one lemma for
each handler: whoever is in the room after the handler sees its state, if it did
before or has just come in. `KeepsTouch`, one lemma for each call of the game
thread: the same of all rooms, where who is seated once has one room to see; a
player with two would be shown the states of both. `HandedOutFacts`: each queue
of the hub receives what was published for its player, in order. `Screened` is
what the network thread then keeps, as each message leaves the queue when it is
shown. It is of clients that are `OPEN`, because for the others a message may be
sent to nobody, and a client that dials has no room yet: without a CONNECT no
callback is there to seat it.

### Serializer

No two enumerators of a type have one number, a number is never null, and an
object is never null: so each field is read back from its text (`NamedAgain`,
`OptionalAgain`, `LobbyAgain`), a result from the one object that bears its
player's number (`GameResultAgain`), and a message field by field
(`ReadByFields`, `ReadAgain`, which holds of the messages of a rematch too). In the other
direction, `Understood` says what the throws of `deserializePlayerActionMessage`
amount to, and `Legible` that every text a client sends spells the fields it has
as their types, also the fields that other versions drop or add. Numbers outside
their enumeration are not among the texts (section 5).

### Hub

`HubInv` is that the threads consume only queues that are theirs, and that who is
past `empty()` has a message: a push makes no queue shorter, and a pop one that
nobody else consumes. It needs no assumption.

### Assumptions

All are named, say no more than what the bounds and NULL stand for, and are
evaluated by TLC in the runs. The limits are natural numbers below `MaxAge`, and
bounds are subsets of what they bound (`ConfigAssumption`, `BoundsAssumption`,
`ClientsAssumption`, `NetworkAssumption`). NULL is none of the values an optional
holds: a seat, a button, a number (`NullAssumption`), a player
(`NoPlayerAssumption`), a screen (`NothingShownAssumption`), a room or a
difficulty (`ContextAssumption`, `ClientsAssumption`), a sender, an action or an
object of JSON (`NothingSaidAssumption`). `GAMEPLAY` is no address.
`ConversationsAssumption` says that what a client of `Conversations` shows is the
sequence of messages it received, as `MCConversations` defines it: `Shown` is a
constant of `Network`, given another meaning in `Server`.

### What the definitions had to be

A function defined by recursion on the length of a sequence (`TickAllRooms`,
`Dispatch`, `HandedOut`) is proved about by the least natural number at which a
claim would fail: the induction theorems take operators and cannot be used, a
set of naturals without a least element can be refuted case by case
(`LeastNatural`, `IterationStays`, `IterationExists`). The folds of the
community modules are recursive functions on finite sets and have no such lemma.
`ViewAfter` and `VerdictsAt` speak of the set of places of a sequence for the
same reason.

### Only model-checked

Liveness under fairness, beyond the prover together with ENABLED: `RequestEnds`,
`CountdownEnds`, `ReadyPlayersGetAGame`, `EveryoneIsServed`, `DepartureIsNoticed`,
`EveryClientIsServed`, `JoinIsAnswered`. The runs of the last table in section 3
have counterexamples instead of proofs.

## 5. Not modelled

* How sockets are made and set up (`ServerSocket.cpp`, the constructor of
  `ClientSocket`), the Windows branches, `main`: system calls that succeed or end
  the process before it serves anybody.
* What a data race does to a container. `MessageHub` shows where races are; the
  other modules go on as if there were none.
* Numbers outside their enumeration in a text
  (`deserializePlayerActionMessage.cpp:34`, `:50`): a cast without a test.
* A clock that goes back; nicknames, logs, the generator of random numbers, the
  addresses of players.
* `src/include` (Catch2, nlohmann/json), third-party code that the server and
  its tests use. What the serializer relies on of the latter - parse, `at`, `get`
  and `dump` - is modelled where the serializer is.

## 6. Plan

No safety property of a passing run is without its theorem. What could come next:

* `Server` with texts of several pieces and full sockets. `ScreensFollowRooms`
  is false there as it stands, since a full socket loses messages; what remains
  true is what `MessagesArriveInOrder` says of `Conversations`.
* Numbers outside their enumeration: `Messages` would need values that are no
  button and no difficulty.
* When the code gains a lock or a queue that is safe for two threads, `MessageHub`
  is where to say so, and `hub_race` the run that should then pass.
