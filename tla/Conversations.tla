--------------------------- MODULE Conversations ----------------------------
(***************************************************************************)
(* The network thread with any game thread at the other end of the hub:    *)
(* one that takes what is queued for it and publishes numbered messages to *)
(* any client it was ever told of, also after it was told that it left: a  *)
(* JOIN_GAME may be handled after the DISCONNECT of its sender.            *)
(***************************************************************************)
EXTENDS Network

CONSTANTS
  Text,          \* bound: what clients say
  MaxSaid,       \* bound: how many texts a client sends
  MaxPublished,  \* bound: how many messages are published to a client
  MaxTraffic     \* bound: how many texts and messages there are in all

(* What a client shows is the messages it received. *)
ASSUME ConversationsAssumption ==
  /\ MaxSaid \in Nat
  /\ MaxPublished \in Nat
  /\ MaxTraffic \in Nat
  /\ Blank = << >>
  /\ \A length \in 0..MaxPublished :
       \A received \in [1..length -> 1..MaxPublished] :
         \A number \in 1..MaxPublished :
           Shown(received, number) = Append(received, number)

VARIABLES
  known,         \* the ids the game thread was told of
  published,     \* how many messages were published to each
  said           \* what each client has sent

conversation == <<connectivity, actions, outbox, link, clients, subscribed,
                  place, stream, peer, shown>>

vars == <<conversation, known, published, said>>

-----------------------------------------------------------------------------
(* How many texts were sent and messages published. *)
Traffic ==
  Cardinality({one \in PlayerId \X (1..MaxPublished) :
                 one[2] <= published[one[1]]})
    + Cardinality({one \in PlayerId \X (1..MaxSaid) :
                     one[2] <= Len(said[one[1]])})

-----------------------------------------------------------------------------
(* The game thread *)

TakeConnectivity ==
  /\ connectivity # << >>
  /\ known' = known \cup {Head(connectivity).id}
  /\ connectivity' = Tail(connectivity)
  /\ UNCHANGED <<actions, outbox, link, clients, subscribed, place, sockets,
                 published, said>>

TakeAction(id) ==
  /\ actions[id] # << >>
  /\ actions' = [actions EXCEPT ![id] = Tail(@)]
  /\ UNCHANGED <<connectivity, outbox, link, clients, subscribed, place,
                 sockets, known, published, said>>

PublishGameplayMessage(id) ==
  /\ Traffic < MaxTraffic
  /\ id \in known
  /\ published[id] < MaxPublished
  /\ published' = [published EXCEPT ![id] = @ + 1]
  /\ outbox' = [outbox EXCEPT ![id] = Append(@, published'[id])]
  /\ UNCHANGED <<connectivity, actions, link, clients, subscribed, place,
                 sockets, known, said>>

GameThread ==
  /\ Running
  /\ \/ TakeConnectivity
     \/ \E id \in PlayerId : TakeAction(id) \/ PublishGameplayMessage(id)

-----------------------------------------------------------------------------

SayOnce(id, text) ==
  /\ Traffic < MaxTraffic
  /\ Len(said[id]) < MaxSaid
  /\ Say(id, text)
  /\ said' = [said EXCEPT ![id] = Append(@, text)]

Clients ==
  \E id \in PlayerId :
    \/ (Dial(id) \/ HangUp(id)) /\ UNCHANGED said
    \/ \E text \in Text : SayOnce(id, text)

Init ==
  /\ NetworkInit
  /\ known = {}
  /\ published = [id \in PlayerId |-> 0]
  /\ said = [id \in PlayerId |-> << >>]

Serve == NetworkThread /\ UNCHANGED <<known, published, said>>

Next ==
  \/ Serve
  \/ GameThread
  \/ Clients /\ UNCHANGED <<known, published>>

Spec == Init /\ [][Next]_vars

(* The loop of start() never ends and never waits; nobody else owes steps. *)
FairSpec == Spec /\ WF_vars(Serve)

-----------------------------------------------------------------------------
(* Safety *)

TypeOK ==
  /\ connectivity \in
       Seq([messageType: {"CONNECT", "DISCONNECT"}, id: PlayerId])
  /\ actions \in [PlayerId -> Seq(Text)]
  /\ outbox \in [PlayerId -> Seq(1..MaxPublished)]
  /\ link \in [PlayerId -> Link]
  /\ clients \in Seq(PlayerId)
  /\ subscribed \subseteq PlayerId
  /\ place \in Place
  /\ stream \in [PlayerId -> Seq([text: Text, piece: 1..Pieces])]
  /\ peer \in [PlayerId -> Peer]
  /\ shown \in [PlayerId -> Seq(1..MaxPublished)]
  /\ known \subseteq PlayerId
  /\ published \in [PlayerId -> 0..MaxPublished]
  /\ said \in [PlayerId -> Seq(Text)]

(***************************************************************************)
(* A callback of NetworkMessageBroker holds a pointer to its client: those *)
(* that dispatchMessages calls are exactly the clients that exist, and no  *)
(* client that can still be heard has been erased by the hanging up of     *)
(* another.                                                                *)
(***************************************************************************)
CallbacksAreOfClients ==
  /\ subscribed = {clients[n] : n \in DOMAIN clients}
  /\ \A m, n \in DOMAIN clients : clients[m] = clients[n] => m = n
  /\ \A id \in PlayerId :
       link[id] \in {"CONNECTED", "FAILED"} => id \in subscribed

(***************************************************************************)
(* A client that is there is shown every message published to it, once and *)
(* in order, through the errors and the hanging up of others; where a      *)
(* socket may be full it misses some and is still shown none twice or out  *)
(* of order.                                                               *)
(***************************************************************************)
MessagesArriveInOrder ==
  \A id \in PlayerId :
    peer[id] = "OPEN" =>
      LET all == shown[id] \o outbox[id]
      IN IF id \in Roomy
           THEN all = [number \in 1..published[id] |-> number]
           ELSE \A m, n \in DOMAIN all : m < n => all[m] < all[n]

(***************************************************************************)
(* What of a client's texts is dropped leaves no trace: the actions queued *)
(* of it are texts it sent, in the order it sent them.                     *)
(***************************************************************************)
ActionsWereSaid ==
  \A id \in PlayerId :
    \E source \in [DOMAIN actions[id] -> DOMAIN said[id]] :
      /\ \A n \in DOMAIN actions[id] : actions[id][n] = said[id][source[n]]
      /\ \A m, n \in DOMAIN actions[id] : m < n => source[m] < source[n]

(* The session of each id, as the game thread may see it. *)
TheSession == INSTANCE Session

(***************************************************************************)
(* The network thread keeps the promise of Session: CONNECT before         *)
(* anything else, no action after the connection ended, one DISCONNECT for *)
(* a client that closes and two for one whose connection broke.            *)
(***************************************************************************)
KeepsSessions == TheSession!Spec

-----------------------------------------------------------------------------
(* Liveness, under FairSpec *)

(* The process may be killed, or hold as many sockets as it is allowed,    *)
(* after which start() is always in accept().                              *)
Stuck == <>[](~ Running \/ Len(clients) = MaxDescriptors)

(***************************************************************************)
(* A client that is gone, however it went and whatever the others do, is   *)
(* noticed: its DISCONNECT is published and its socket given back.         *)
(***************************************************************************)
DepartureIsNoticed ==
  \/ Stuck
  \/ \A id \in PlayerId :
       peer[id] \notin {"NONE", "OPEN"} ~>
         link[id] = "CLOSED" /\ id \notin subscribed

(* The server owes nothing to this id. *)
Served(id) ==
  \/ peer[id] = "NONE"
  \/ link[id] # "AWAY" /\ stream[id] = << >> /\ outbox[id] = << >>
  \/ link[id] = "CLOSED"

(***************************************************************************)
(* Each client is served in its turn, also those after one whose socket    *)
(* throws: it is accepted, what it sent is read, what is published for it  *)
(* is sent.                                                                *)
(***************************************************************************)
EveryClientIsServed ==
  \/ Stuck
  \/ \A id \in PlayerId : []<>Served(id)

-----------------------------------------------------------------------------
(* What the documentation says, and the code does not do *)

(* The texts that end in a stream. *)
Ends(pieces) ==
  LET IsLast(piece) == piece.piece = Pieces
  IN Len(SelectSeq(pieces, IsLast))

(***************************************************************************)
(* "Client and Server have the same objects, which are serialized on send  *)
(* and deserialized on receive." (README.md:74): of the texts of a client  *)
(* that is there, as many are handed on as were read to their end.         *)
(***************************************************************************)
EveryTextIsDeserialized ==
  [][\A id \in PlayerId :
       peer[id] = "OPEN" /\ Len(stream'[id]) < Len(stream[id]) =>
         Len(actions'[id]) - Len(actions[id])
           = Ends(stream[id]) - Ends(stream'[id])]_vars
=============================================================================
