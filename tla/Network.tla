------------------------------ MODULE Network -------------------------------
(***************************************************************************)
(* The network thread (Server.cpp, ConnectedClient.cpp and                 *)
(* NetworkMessageBroker.cpp), the connections it serves and the clients at *)
(* their other end.                                                        *)
(*                                                                         *)
(* The thread goes round on non-blocking sockets: it accepts at most one   *)
(* connection, then for each client in turn reads once from its socket,    *)
(* sends every message that waits for any client, and drops the client if  *)
(* it has hung up.  Every operation on a socket or on a queue of the hub   *)
(* is a step: the game thread and the clients move between any two.        *)
(*                                                                         *)
(* A text is a few pieces on the wire.  What one read returns is a prefix  *)
(* of the pieces that arrived: TCP keeps their order, not the borders of   *)
(* the texts.  The module has no specification of its own: Conversations   *)
(* and Server put a game thread at the other end of the queues.            *)
(***************************************************************************)
EXTENDS Integers, Sequences, FiniteSets

LOCAL INSTANCE SequencesExt

CONSTANTS
  PlayerId,        \* the ids of the connections there will be
  NULL,
  Pieces,          \* how many pieces TCP may cut a text into
  Roomy,           \* the clients whose sockets always have room to send
  MaxDescriptors,  \* how many client sockets the process may hold open
  Blank,           \* what a client shows before any message
  Shown(_, _)      \* what it shows after a message

ASSUME NetworkAssumption ==
  /\ NULL \notin PlayerId
  /\ Pieces \in Nat \ {0}
  /\ Roomy \subseteq PlayerId
  /\ MaxDescriptors \in Nat \ {0}

VARIABLES
  connectivity,  \* playerConnectivityMessages
  actions,       \* playerActionMessagesByPlayerId
  outbox,        \* gameplayMessagesByPlayerId
  link,          \* each connection, as the server knows it
  clients,       \* connectedClients
  subscribed,    \* the keys of gameplayMessageCallbackByPlayerId
  place,         \* how far the thread is in its round
  stream,        \* the pieces that arrived and were not read
  peer,          \* each connection, as its client left it
  shown          \* what each client shows

hub == <<connectivity, actions, outbox>>
sockets == <<stream, peer, shown>>

-----------------------------------------------------------------------------
(* CLOSED is hasBeenDisconnected; a FAILED socket threw once. *)
Link == {"AWAY", "CONNECTED", "FAILED", "CLOSED"}

(* CLOSED: the client closed its end; BROKEN: it has since refused what    *)
(* the server sent; RESET: it went without closing.                        *)
Peer == {"NONE", "OPEN", "CLOSED", "BROKEN", "RESET"}

(* next: the client being served; left: whose messages are still to be     *)
(* sent, id: whose are being sent.                                         *)
Place == [at: {"ACCEPT", "RECEIVE", "DISPATCH", "KILLED"},
          next: Nat, left: SUBSET PlayerId, id: PlayerId \cup {NULL}]

At(where, next, left) ==
  [at |-> where, next |-> next, left |-> left, id |-> NULL]

Accepting == At("ACCEPT", 0, {})

Dispatching == At("DISPATCH", place.next, subscribed)

(* The n-th client is served next, or the round is over. *)
ServeFrom(n, list) ==
  IF n \in DOMAIN list THEN At("RECEIVE", n, {}) ELSE Accepting

Running == place.at # "KILLED"

Publish(type, id) ==
  connectivity' = Append(connectivity, [messageType |-> type, id |-> id])

-----------------------------------------------------------------------------
(* Accepting *)

Pending == {id \in PlayerId : peer[id] # "NONE" /\ link[id] = "AWAY"}

(* At the limit accept() fails, whether or not a connection waits, and     *)
(* start() calls it again: that round is no step.                          *)
CanAccept ==
  /\ place.at = "ACCEPT"
  /\ Len(clients) < MaxDescriptors

(* Mutation: the client subscribes before its id is set. *)
HandleNewClientConnectionUnset(id) ==
  /\ CanAccept
  /\ id \in Pending
  /\ Publish("CONNECT", id)
  /\ subscribed' = subscribed \cup {NULL}
  /\ clients' = Append(clients, id)
  /\ link' = [link EXCEPT ![id] = "CONNECTED"]
  /\ place' = ServeFrom(1, clients')
  /\ UNCHANGED <<actions, outbox, sockets>>

HandleNewClientConnection(id) ==
  /\ CanAccept
  /\ id \in Pending
  /\ Publish("CONNECT", id)
  /\ subscribed' = subscribed \cup {id}
  /\ clients' = Append(clients, id)
  /\ link' = [link EXCEPT ![id] = "CONNECTED"]
  /\ place' = ServeFrom(1, clients')
  /\ UNCHANGED <<actions, outbox, sockets>>

NoNewConnection ==
  /\ CanAccept
  /\ Pending = {}
  /\ place' = ServeFrom(1, clients)
  /\ UNCHANGED <<hub, link, clients, subscribed, sockets>>

-----------------------------------------------------------------------------
(* receiveFromNetwork *)

Receiving(id) ==
  /\ place.at = "RECEIVE"
  /\ id = clients[place.next]

(* What is read is parsed as one text; anything else is dropped. *)
Deserialized(chunk) ==
  IF chunk # << >> /\ \A i \in DOMAIN chunk : chunk[i].piece = i
                   /\ Len(chunk) = Pieces
    THEN <<chunk[1].text>>
    ELSE << >>

(* Mutation: an action is put before those that wait. *)
ReceiveBefore(id, size) ==
  /\ Receiving(id)
  /\ size \in 1..Len(stream[id])
  /\ actions' =
       [actions EXCEPT ![id] =
          Deserialized(SubSeq(stream[id], 1, size)) \o @]
  /\ stream' = [stream EXCEPT ![id] = SubSeq(@, size + 1, Len(@))]
  /\ place' = Dispatching
  /\ UNCHANGED <<connectivity, outbox, link, clients, subscribed, peer, shown>>

Receive(id, size) ==
  /\ Receiving(id)
  /\ size \in 1..Len(stream[id])
  /\ actions' =
       [actions EXCEPT ![id] =
          @ \o Deserialized(SubSeq(stream[id], 1, size))]
  /\ stream' = [stream EXCEPT ![id] = SubSeq(@, size + 1, Len(@))]
  /\ place' = Dispatching
  /\ UNCHANGED <<connectivity, outbox, link, clients, subscribed, peer, shown>>

(* EWOULDBLOCK *)
ReceiveNothing(id) ==
  /\ Receiving(id)
  /\ stream[id] = << >>
  /\ peer[id] = "OPEN"
  /\ place' = Dispatching
  /\ UNCHANGED <<hub, link, clients, subscribed, sockets>>

(* A socket whose error was reported once reads as closed. *)
ReceiveEnd(id) ==
  /\ Receiving(id)
  /\ stream[id] = << >>
  /\ peer[id] \in {"CLOSED", "BROKEN"} \/ link[id] = "FAILED"
  /\ Publish("DISCONNECT", id)
  /\ link' = [link EXCEPT ![id] = "CLOSED"]
  /\ place' = Dispatching
  /\ UNCHANGED <<actions, outbox, clients, subscribed, sockets>>

(* Mutation: the thread tries again without having given the client up. *)
ReceiveErrorAgain(id) ==
  /\ Receiving(id)
  /\ peer[id] = "RESET"
  /\ link[id] = "CONNECTED"
  /\ place' = Accepting
  /\ UNCHANGED <<hub, link, clients, subscribed, sockets>>

(* Mutation: the exception is thrown before DISCONNECT is published. *)
ReceiveErrorSilently(id) ==
  /\ Receiving(id)
  /\ peer[id] = "RESET"
  /\ link[id] = "CONNECTED"
  /\ link' = [link EXCEPT ![id] = "FAILED"]
  /\ stream' = [stream EXCEPT ![id] = << >>]
  /\ place' = Accepting
  /\ UNCHANGED <<hub, clients, subscribed, peer, shown>>

(* The exception ends the round: nothing is sent, the clients after this   *)
(* one are not served.  hasBeenDisconnected is not set.                    *)
ReceiveError(id) ==
  /\ Receiving(id)
  /\ peer[id] = "RESET"
  /\ link[id] = "CONNECTED"
  /\ Publish("DISCONNECT", id)
  /\ link' = [link EXCEPT ![id] = "FAILED"]
  /\ stream' = [stream EXCEPT ![id] = << >>]
  /\ place' = Accepting
  /\ UNCHANGED <<actions, outbox, clients, subscribed, peer, shown>>

-----------------------------------------------------------------------------
(* dispatchMessages; the order of the clients is that of an unordered_map *)

SentTo(id) ==
  /\ place.at = "DISPATCH"
  /\ id \in place.left
  /\ place.id \in {NULL, id}

(* handleGameplayMessage: nobody looks at what send() returns, and writing *)
(* to a connection that the client has refused may kill the process        *)
(* (SIGPIPE, where there are signals).                                     *)
Send(id, message) ==
  \/ /\ link[id] # "CLOSED" /\ peer[id] = "OPEN"
     /\ shown' = [shown EXCEPT ![id] = Shown(@, message)]
     /\ place' = [place EXCEPT !.id = id]
     /\ UNCHANGED peer
  \/ /\ \/ link[id] = "CLOSED"
        \/ id \notin Roomy
        \/ peer[id] \in {"BROKEN", "RESET"}
     /\ place' = [place EXCEPT !.id = id]
     /\ UNCHANGED <<peer, shown>>
  \/ /\ link[id] # "CLOSED" /\ peer[id] = "CLOSED"
     /\ peer' = [peer EXCEPT ![id] = "BROKEN"]
     /\ place' = [place EXCEPT !.id = id]
     /\ UNCHANGED shown
  \/ /\ link[id] # "CLOSED" /\ peer[id] \in {"BROKEN", "RESET"}
     /\ place' = At("KILLED", 0, {})
     /\ UNCHANGED <<peer, shown>>

(* Mutation: the last message of the queue is sent, the first one popped. *)
DispatchOneLast(id) ==
  /\ SentTo(id)
  /\ outbox[id] # << >>
  /\ Send(id, Last(outbox[id]))
  /\ outbox' = [outbox EXCEPT ![id] = Tail(@)]
  /\ UNCHANGED <<connectivity, actions, link, clients, subscribed, stream>>

DispatchOne(id) ==
  /\ SentTo(id)
  /\ outbox[id] # << >>
  /\ Send(id, Head(outbox[id]))
  /\ outbox' = [outbox EXCEPT ![id] = Tail(@)]
  /\ UNCHANGED <<connectivity, actions, link, clients, subscribed, stream>>

Dispatched(id) ==
  /\ SentTo(id)
  /\ outbox[id] = << >>
  /\ place' = [place EXCEPT !.id = NULL, !.left = @ \ {id}]
  /\ UNCHANGED <<hub, link, clients, subscribed, sockets>>

(* Mutation: the callback of a client that is erased is left behind. *)
NextClientForgetting ==
  /\ place.at = "DISPATCH"
  /\ place.left = {}
  /\ LET id == clients[place.next]
     IN IF link[id] = "CLOSED"
          THEN /\ clients' = RemoveAt(clients, place.next)
               /\ place' = ServeFrom(place.next, clients')
          ELSE /\ place' = ServeFrom(place.next + 1, clients)
               /\ UNCHANGED clients
  /\ UNCHANGED <<hub, link, subscribed, sockets>>

(* Mutation: the thread stays with a client that has not hung up. *)
NextClientStaying ==
  /\ place.at = "DISPATCH"
  /\ place.left = {}
  /\ LET id == clients[place.next]
     IN IF link[id] = "CLOSED"
          THEN /\ clients' = RemoveAt(clients, place.next)
               /\ subscribed' = subscribed \ {id}
          ELSE UNCHANGED <<clients, subscribed>>
  /\ place' = ServeFrom(place.next, clients')
  /\ UNCHANGED <<hub, link, sockets>>

(* Erasing a client closes its socket and takes its callback back. *)
NextClient ==
  /\ place.at = "DISPATCH"
  /\ place.left = {}
  /\ LET id == clients[place.next]
     IN IF link[id] = "CLOSED"
          THEN /\ clients' = RemoveAt(clients, place.next)
               /\ subscribed' = subscribed \ {id}
               /\ place' = ServeFrom(place.next, clients')
          ELSE /\ place' = ServeFrom(place.next + 1, clients)
               /\ UNCHANGED <<clients, subscribed>>
  /\ UNCHANGED <<hub, link, sockets>>

HandleClientCommunication(id) ==
  \/ \E size \in 1..Len(stream[id]) : Receive(id, size)
  \/ ReceiveNothing(id)
  \/ ReceiveEnd(id)
  \/ ReceiveError(id)
  \/ DispatchOne(id)
  \/ Dispatched(id)

-----------------------------------------------------------------------------
(* The clients *)

Dial(id) ==
  /\ peer[id] = "NONE"
  /\ peer' = [peer EXCEPT ![id] = "OPEN"]
  /\ UNCHANGED <<hub, link, clients, subscribed, place, stream, shown>>

Say(id, message) ==
  /\ peer[id] = "OPEN"
  /\ stream' =
       [stream EXCEPT ![id] =
          @ \o [piece \in 1..Pieces |-> [text |-> message, piece |-> piece]]]
  /\ UNCHANGED <<hub, link, clients, subscribed, place, peer, shown>>

HangUp(id) ==
  /\ peer[id] = "OPEN"
  /\ \E end \in {"CLOSED", "RESET"} : peer' = [peer EXCEPT ![id] = end]
  /\ UNCHANGED <<hub, link, clients, subscribed, place, stream, shown>>

-----------------------------------------------------------------------------

NetworkInit ==
  /\ connectivity = << >>
  /\ actions = [id \in PlayerId |-> << >>]
  /\ outbox = [id \in PlayerId |-> << >>]
  /\ link = [id \in PlayerId |-> "AWAY"]
  /\ clients = << >>
  /\ subscribed = {}
  /\ place = Accepting
  /\ stream = [id \in PlayerId |-> << >>]
  /\ peer = [id \in PlayerId |-> "NONE"]
  /\ shown = [id \in PlayerId |-> Blank]

NetworkThread ==
  \/ NoNewConnection
  \/ NextClient
  \/ \E id \in PlayerId :
       HandleNewClientConnection(id) \/ HandleClientCommunication(id)
=============================================================================
