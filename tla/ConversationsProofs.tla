------------------------ MODULE ConversationsProofs -------------------------
(***************************************************************************)
(* Proofs about Conversations, for any number of clients, texts, pieces    *)
(* and messages: the callbacks are those of the living clients, messages   *)
(* and actions keep their order, and what the game thread sees of a client *)
(* is a session.                                                           *)
(***************************************************************************)
EXTENDS Conversations, TLAPS

LOCAL INSTANCE SequencesExt

Piece == [text: Text, piece: 1..Pieces]

(* In the middle of a round the thread is with a client. *)
ServesAClient ==
  place.at \in {"RECEIVE", "DISPATCH"} => place.next \in DOMAIN clients

(* A client that has hung up is erased before any other is served. *)
ClientsAreLinked ==
  \A n \in DOMAIN clients :
    /\ link[clients[n]] # "AWAY"
    /\ link[clients[n]] = "CLOSED" =>
         \/ place.at = "KILLED"
         \/ place.at = "DISPATCH" /\ place.next = n

(* The server gives no connection up that its client has not. *)
EndsAreFinal ==
  \A id \in PlayerId :
    /\ link[id] = "FAILED" => peer[id] = "RESET" /\ stream[id] = << >>
    /\ link[id] = "CLOSED" => peer[id] \in {"CLOSED", "BROKEN", "RESET"}

(* No message is shown that was not published. *)
NothingIsInvented ==
  \A id \in PlayerId : Len(shown[id]) + Len(outbox[id]) <= published[id]

(* The inductive invariant about the thread and its clients. *)
Orderly ==
  /\ TypeOK
  /\ CallbacksAreOfClients
  /\ ServesAClient
  /\ ClientsAreLinked
  /\ EndsAreFinal
  /\ NothingIsInvented

(* The numbers of messages up to the last are in order. *)
InOrder(numbers, last) ==
  /\ \A n \in DOMAIN numbers : numbers[n] <= last
  /\ \A m, n \in DOMAIN numbers : m < n => numbers[m] < numbers[n]

UpTo(last) == [number \in 1..last |-> number]

(* What was shown and is still to be shown is in order and was published;  *)
(* nothing is missing for who is there, or was not there yet.              *)
MessagesAreTraced ==
  \A id \in PlayerId :
    /\ InOrder(shown[id] \o outbox[id], published[id])
    /\ id \in Roomy /\ peer[id] \in {"NONE", "OPEN"} =>
         shown[id] \o outbox[id] = UpTo(published[id])

(* Where in what a client said its queued actions and the pieces that      *)
(* arrived come from: a text that is still coming was said later than any  *)
(* that is queued, and the pieces of one text come in their order.         *)
Sources(queued, pieces, texts, taken, coming) ==
  /\ taken \in [DOMAIN queued -> DOMAIN texts]
  /\ coming \in [DOMAIN pieces -> DOMAIN texts]
  /\ \A n \in DOMAIN queued : queued[n] = texts[taken[n]]
  /\ \A m, n \in DOMAIN queued : m < n => taken[m] < taken[n]
  /\ \A i \in DOMAIN pieces : pieces[i].text = texts[coming[i]]
  /\ \A i, j \in DOMAIN pieces :
       i < j => \/ coming[i] < coming[j]
                \/ coming[i] = coming[j] /\ pieces[i].piece < pieces[j].piece
  /\ \A n \in DOMAIN queued : \A i \in DOMAIN pieces : taken[n] < coming[i]

Traced(queued, pieces, texts) ==
  \E taken \in [DOMAIN queued -> DOMAIN texts],
     coming \in [DOMAIN pieces -> DOMAIN texts] :
    Sources(queued, pieces, texts, taken, coming)

TextsAreTraced ==
  \A id \in PlayerId : Traced(actions[id], stream[id], said[id])

-----------------------------------------------------------------------------
(* Sequences *)

(* An element taken out of a sequence leaves the others in their order. *)
LEMMA RemovedOne ==
  ASSUME NEW S, NEW s \in Seq(S), NEW i \in DOMAIN s
  PROVE  /\ RemoveAt(s, i) \in Seq(S)
         /\ Len(RemoveAt(s, i)) = Len(s) - 1
         /\ \A n \in 1..(Len(s) - 1) :
              RemoveAt(s, i)[n] = IF n < i THEN s[n] ELSE s[n + 1]
<1> DEFINE front == SubSeq(s, 1, i - 1)
           back == SubSeq(s, i + 1, Len(s))
<1>1. i \in 1..Len(s)
  OBVIOUS
<1>2. /\ front \in Seq(S) /\ Len(front) = i - 1
      /\ \A n \in 1..(i - 1) : front[n] = s[n]
  BY <1>1
<1>3. /\ back \in Seq(S) /\ Len(back) = Len(s) - i
      /\ \A n \in 1..(Len(s) - i) : back[n] = s[n + i]
  BY <1>1
<1>4. RemoveAt(s, i) = front \o back
  BY DEF RemoveAt
<1> HIDE DEF front, back
<1> QED
  BY <1>1, <1>2, <1>3, <1>4, SMTT(30)

(* What was first to be shown is now last shown. *)
LEMMA HeadMovesOver ==
  ASSUME NEW S, NEW s \in Seq(S), NEW t \in Seq(S), t # << >>
  PROVE  Append(s, Head(t)) \o Tail(t) = s \o t
<1>1. /\ Head(t) = t[1] /\ t[1] \in S
      /\ Tail(t) \in Seq(S) /\ Len(Tail(t)) = Len(t) - 1
      /\ \A n \in 1..(Len(t) - 1) : Tail(t)[n] = t[n + 1]
  OBVIOUS
<1>2. /\ Append(s, Head(t)) \in Seq(S)
      /\ Len(Append(s, Head(t))) = Len(s) + 1
      /\ \A n \in 1..(Len(s) + 1) :
           Append(s, Head(t))[n] = IF n <= Len(s) THEN s[n] ELSE t[1]
  BY <1>1
<1> QED
  BY <1>1, <1>2

(* Appending to the second part appends to the whole. *)
LEMMA AppendMovesOut ==
  ASSUME NEW S, NEW s \in Seq(S), NEW t \in Seq(S), NEW e \in S
  PROVE  s \o Append(t, e) = Append(s \o t, e)
<1>1. /\ Append(t, e) \in Seq(S) /\ Len(Append(t, e)) = Len(t) + 1
      /\ \A n \in 1..Len(t) : Append(t, e)[n] = t[n]
      /\ Append(t, e)[Len(t) + 1] = e
      /\ Len(s) \in Nat /\ Len(t) \in Nat
  OBVIOUS
<1>2. /\ s \o t \in Seq(S) /\ Len(s \o t) = Len(s) + Len(t)
      /\ \A n \in 1..(Len(s) + Len(t)) :
           (s \o t)[n] = IF n <= Len(s) THEN s[n] ELSE t[n - Len(s)]
  OBVIOUS
<1> QED
  BY <1>1, <1>2

LEMMA SeqOfMore ==
  ASSUME NEW S, NEW T, S \subseteq T, NEW s \in Seq(S)
  PROVE  s \in Seq(T)
<1>1. Len(s) \in Nat /\ s \in [1..Len(s) -> T]
  OBVIOUS
<1> QED
  BY <1>1

LEMMA SameInterval ==
  ASSUME NEW m \in Nat, NEW n \in Nat, 1..m = 1..n
  PROVE  m = n
<1>1. m # 0 => m \in 1..n
  OBVIOUS
<1>2. n # 0 => n \in 1..m
  OBVIOUS
<1> QED
  BY <1>1, <1>2

(* What one read yields is at most one text, the one whose pieces it is. *)
LEMMA DeserializedText ==
  ASSUME NEW chunk \in Seq(Piece)
  PROVE  /\ Deserialized(chunk) \in Seq(Text)
         /\ \/ Deserialized(chunk) = << >>
            \/ /\ chunk # << >>
               /\ Deserialized(chunk) = <<chunk[1].text>>
               /\ chunk[1].text \in Text
               /\ Len(chunk) = Pieces
               /\ \A i \in DOMAIN chunk : chunk[i].piece = i
<1>1. chunk # << >> => chunk[1] \in Piece
  OBVIOUS
<1>2. chunk # << >> => chunk[1].text \in Text
  BY <1>1 DEF Piece
<1>3. chunk # << >> => <<chunk[1].text>> \in Seq(Text)
  BY <1>2
<1>5. Deserialized(chunk) # << >> =>
        /\ chunk # << >>
        /\ Deserialized(chunk) = <<chunk[1].text>>
        /\ Len(chunk) = Pieces
        /\ \A i \in DOMAIN chunk : chunk[i].piece = i
  BY DEF Deserialized
<1>6. << >> \in Seq(Text)
  OBVIOUS
<1>7. Deserialized(chunk) \in Seq(Text)
  BY <1>3, <1>5, <1>6
<1> QED
  BY <1>2, <1>5, <1>7

-----------------------------------------------------------------------------
(* The game thread and the clients keep the thread in order *)

(* Order is about the thread, its clients and their connections. *)
LEMMA SameThreadIsOrderly ==
  ASSUME Orderly, TypeOK', NothingIsInvented',
         UNCHANGED <<link, clients, subscribed, place, stream, peer>>
  PROVE  Orderly'
  BY DEF Orderly, CallbacksAreOfClients, ServesAClient, ClientsAreLinked,
         EndsAreFinal

LEMMA TakeConnectivityKeepsOrder ==
  ASSUME Orderly, TakeConnectivity
  PROVE  Orderly'
<1> DEFINE M == [messageType: {"CONNECT", "DISCONNECT"}, id: PlayerId]
<1>1. connectivity \in Seq(M) /\ connectivity # << >>
  BY DEF Orderly, TypeOK, TakeConnectivity
<1>4. Head(connectivity) \in M /\ Tail(connectivity) \in Seq(M)
  <2> HIDE DEF M
  <2> QED
    BY <1>1
<1>5. known' \subseteq PlayerId
  BY <1>4 DEF Orderly, TypeOK, TakeConnectivity
<1>2. TypeOK'
  BY <1>4, <1>5 DEF Orderly, TypeOK, TakeConnectivity, sockets
<1>3. NothingIsInvented'
  BY DEF Orderly, NothingIsInvented, TakeConnectivity, sockets
<1> QED
  BY <1>2, <1>3, SameThreadIsOrderly DEF TakeConnectivity, sockets

LEMMA TakeActionKeepsOrder ==
  ASSUME Orderly, NEW id \in PlayerId, TakeAction(id)
  PROVE  Orderly'
<1>1. Tail(actions[id]) \in Seq(Text)
  BY DEF Orderly, TypeOK, TakeAction
<1>2. TypeOK'
  BY <1>1 DEF Orderly, TypeOK, TakeAction, sockets
<1>3. NothingIsInvented'
  BY DEF Orderly, NothingIsInvented, TakeAction, sockets
<1> QED
  BY <1>2, <1>3, SameThreadIsOrderly DEF TakeAction, sockets

LEMMA PublishGameplayMessageKeepsOrder ==
  ASSUME Orderly, NEW id \in PlayerId, PublishGameplayMessage(id)
  PROVE  Orderly'
<1>1. published[id] \in 0..MaxPublished /\ published[id] < MaxPublished
  BY DEF Orderly, TypeOK, PublishGameplayMessage
<1>2. published'[id] = published[id] + 1 /\ published'[id] \in 1..MaxPublished
  BY <1>1, ConversationsAssumption
  DEF Orderly, TypeOK, PublishGameplayMessage
<1>3. /\ Append(outbox[id], published'[id]) \in Seq(1..MaxPublished)
      /\ Len(Append(outbox[id], published'[id])) = Len(outbox[id]) + 1
  BY <1>2 DEF Orderly, TypeOK
<1>6. outbox' \in [PlayerId -> Seq(1..MaxPublished)]
  BY <1>3 DEF Orderly, TypeOK, PublishGameplayMessage
<1>7. published' \in [PlayerId -> 0..MaxPublished]
  BY <1>1, <1>2, ConversationsAssumption
  DEF Orderly, TypeOK, PublishGameplayMessage
<1>4. TypeOK'
  BY <1>6, <1>7 DEF Orderly, TypeOK, PublishGameplayMessage, sockets
<1>5. NothingIsInvented'
  BY <1>1, <1>2, <1>3
  DEF Orderly, TypeOK, NothingIsInvented, PublishGameplayMessage, sockets
<1> QED
  BY <1>4, <1>5, SameThreadIsOrderly DEF PublishGameplayMessage, sockets

LEMMA DialKeepsOrder ==
  ASSUME Orderly, NEW id \in PlayerId, Dial(id),
         UNCHANGED <<known, published, said>>
  PROVE  Orderly'
<1>1. TypeOK'
  BY DEF Orderly, TypeOK, Dial, hub, Peer
<1>2. EndsAreFinal'
  BY DEF Orderly, TypeOK, EndsAreFinal, Dial
<1> QED
  BY <1>1, <1>2, ZenonT(40)
  DEF Orderly, CallbacksAreOfClients, ServesAClient, ClientsAreLinked,
      NothingIsInvented, Dial, hub

LEMMA HangUpKeepsOrder ==
  ASSUME Orderly, NEW id \in PlayerId, HangUp(id),
         UNCHANGED <<known, published, said>>
  PROVE  Orderly'
<1>1. TypeOK'
  BY DEF Orderly, TypeOK, HangUp, hub, Peer
<1>2. EndsAreFinal'
  BY DEF Orderly, TypeOK, EndsAreFinal, HangUp
<1>3. UNCHANGED <<link, clients, subscribed, place, shown, outbox>>
  BY DEF HangUp, hub
<1> QED
  BY <1>1, <1>2, <1>3
  DEF Orderly, CallbacksAreOfClients, ServesAClient, ClientsAreLinked,
      NothingIsInvented

(* A text in the socket of its receiver, in pieces. *)
LEMMA SaidPieces ==
  ASSUME NEW old \in Seq(Piece), NEW text \in Text
  PROVE  LET pieces == [piece \in 1..Pieces |->
                          [text |-> text, piece |-> piece]]
         IN /\ old \o pieces \in Seq(Piece)
            /\ Len(old \o pieces) = Len(old) + Pieces
            /\ \A i \in 1..Len(old) : (old \o pieces)[i] = old[i]
            /\ \A i \in (Len(old) + 1)..(Len(old) + Pieces) :
                 (old \o pieces)[i] = [text |-> text, piece |-> i - Len(old)]
<1> DEFINE pieces == [piece \in 1..Pieces |-> [text |-> text, piece |-> piece]]
<1>1. Pieces \in Nat
  BY NetworkAssumption
<1>2. pieces \in [1..Pieces -> Piece]
  BY DEF Piece
<1>3. pieces \in Seq(Piece) /\ Len(pieces) = Pieces
  BY <1>1, <1>2
<1>4. \A i \in 1..Pieces : pieces[i] = [text |-> text, piece |-> i]
  OBVIOUS
<1> HIDE DEF pieces
<1>5. \A i \in (Len(old) + 1)..(Len(old) + Pieces) :
        (old \o pieces)[i] = pieces[i - Len(old)]
  BY <1>1, <1>3
<1>6. /\ old \o pieces \in Seq(Piece)
      /\ Len(old \o pieces) = Len(old) + Pieces
      /\ \A i \in 1..Len(old) : (old \o pieces)[i] = old[i]
  BY <1>1, <1>3
<1>7. ASSUME NEW i \in (Len(old) + 1)..(Len(old) + Pieces)
      PROVE  (old \o pieces)[i] = [text |-> text, piece |-> i - Len(old)]
  <2>1. i - Len(old) \in 1..Pieces
    BY <1>1
  <2> QED
    BY <2>1, <1>4, <1>5
<1> QED
  BY <1>6, <1>7 DEF pieces

LEMMA SayOnceKeepsOrder ==
  ASSUME Orderly, NEW id \in PlayerId, NEW text \in Text, SayOnce(id, text),
         UNCHANGED <<known, published>>
  PROVE  Orderly'
<1> DEFINE all == stream[id] \o [piece \in 1..Pieces |->
                                   [text |-> text, piece |-> piece]]
<1>1. stream[id] \in Seq(Piece)
  BY DEF Orderly, TypeOK, Piece
<1>2. all \in Seq(Piece)
  BY <1>1, SaidPieces
<1>3. stream' = [stream EXCEPT ![id] = all]
  BY DEF SayOnce, Say
<1> HIDE DEF all
<1>4. Append(said[id], text) \in Seq(Text)
  BY DEF Orderly, TypeOK
<1>5. stream' \in [PlayerId -> Seq(Piece)]
  BY <1>2, <1>3 DEF Orderly, TypeOK, Piece
<1>6. TypeOK'
  BY <1>4, <1>5 DEF Orderly, TypeOK, SayOnce, Say, hub, Piece
<1>7. EndsAreFinal'
  BY <1>3 DEF Orderly, TypeOK, EndsAreFinal, SayOnce, Say
<1> QED
  BY <1>6, <1>7, ZenonT(40)
  DEF Orderly, CallbacksAreOfClients, ServesAClient, ClientsAreLinked,
      NothingIsInvented, SayOnce, Say, hub

-----------------------------------------------------------------------------
(* The network thread keeps itself in order *)

(* Wherever the thread turns next, it is with a client or accepts. *)
LEMMA ServeFromType ==
  ASSUME NEW n \in Nat, NEW list
  PROVE  /\ ServeFrom(n, list) \in Place
         /\ ServeFrom(n, list).at \in {"RECEIVE", "ACCEPT"}
         /\ ServeFrom(n, list).at = "RECEIVE" =>
              ServeFrom(n, list).next = n /\ n \in DOMAIN list
<1>1. CASE n \in DOMAIN list
  BY <1>1 DEF ServeFrom, At, Place
<1>2. CASE n \notin DOMAIN list
  BY <1>2 DEF ServeFrom, At, Accepting, Place
<1> QED
  BY <1>1, <1>2

LEMMA DispatchingType ==
  ASSUME TypeOK
  PROVE  /\ Dispatching \in Place
         /\ Dispatching.at = "DISPATCH"
         /\ Dispatching.next = place.next
  BY DEF TypeOK, Dispatching, At, Place

(* While the thread does not send, no client in the list has hung up. *)
LEMMA NobodyIsClosed ==
  ASSUME Orderly, place.at \in {"ACCEPT", "RECEIVE"}, NEW n \in DOMAIN clients
  PROVE  link[clients[n]] \in {"CONNECTED", "FAILED"}
<1>1. clients[n] \in PlayerId
  BY DEF Orderly, TypeOK
<1>2. link[clients[n]] \in Link
  BY <1>1 DEF Orderly, TypeOK
<1> QED
  BY <1>2 DEF Orderly, ClientsAreLinked, Link

LEMMA HandleNewClientConnectionKeepsOrder ==
  ASSUME Orderly, NEW id \in PlayerId, HandleNewClientConnection(id),
         UNCHANGED <<known, published, said>>
  PROVE  Orderly'
<1> DEFINE M == [messageType: {"CONNECT", "DISCONNECT"}, id: PlayerId]
<1>1. /\ link[id] = "AWAY" /\ place.at = "ACCEPT"
      /\ clients' = Append(clients, id)
      /\ link' = [link EXCEPT ![id] = "CONNECTED"]
      /\ subscribed' = subscribed \cup {id}
  BY DEF HandleNewClientConnection, Pending, CanAccept
<1>2. clients \in Seq(PlayerId)
  BY DEF Orderly, TypeOK
<1>3. /\ clients' \in Seq(PlayerId) /\ Len(clients') = Len(clients) + 1
      /\ \A n \in 1..Len(clients) : clients'[n] = clients[n]
      /\ clients'[Len(clients) + 1] = id
      /\ Len(clients) \in Nat
  BY <1>1, <1>2
<1>4. \A n \in 1..Len(clients) :
        clients[n] \in PlayerId /\ clients[n] # id
                                /\ link[clients[n]] \in {"CONNECTED", "FAILED"}
  BY <1>1, <1>2, NobodyIsClosed
<1>5. connectivity' \in Seq(M)
  <2>1. connectivity \in Seq(M)
    BY DEF Orderly, TypeOK
  <2>2. [messageType |-> "CONNECT", id |-> id] \in M
    OBVIOUS
  <2> HIDE DEF M
  <2> QED
    BY <2>1, <2>2 DEF HandleNewClientConnection, Publish
<1>6. /\ place' \in Place /\ place'.at \in {"RECEIVE", "ACCEPT"}
      /\ place'.at = "RECEIVE" => place'.next = 1 /\ 1 \in DOMAIN clients'
  BY ServeFromType DEF HandleNewClientConnection
<1>7. TypeOK'
  BY <1>1, <1>3, <1>5, <1>6
  DEF Orderly, TypeOK, HandleNewClientConnection, sockets, Link
<1>8. CallbacksAreOfClients'
  <2>1. subscribed' = {clients'[n] : n \in DOMAIN clients'}
    BY <1>1, <1>2, <1>3 DEF Orderly, CallbacksAreOfClients
  <2>2. \A m, n \in DOMAIN clients' : clients'[m] = clients'[n] => m = n
    BY <1>2, <1>3, <1>4 DEF Orderly, CallbacksAreOfClients
  <2> QED
    BY <2>1, <2>2, <1>1 DEF Orderly, TypeOK, CallbacksAreOfClients
<1>9. ServesAClient'
  BY <1>6 DEF ServesAClient
<1>10. ClientsAreLinked'
  <2>1. link'[id] = "CONNECTED"
        /\ \A other \in PlayerId : other # id => link'[other] = link[other]
    BY <1>1 DEF Orderly, TypeOK
  <2>2. \A n \in 1..(Len(clients) + 1) :
          link'[clients'[n]] \in {"CONNECTED", "FAILED"}
    BY <1>3, <1>4, <2>1
  <2> QED
    BY <1>3, <2>2 DEF ClientsAreLinked
<1>11. EndsAreFinal'
  BY <1>1 DEF Orderly, TypeOK, EndsAreFinal, HandleNewClientConnection, sockets
<1>12. NothingIsInvented'
  BY DEF Orderly, NothingIsInvented, HandleNewClientConnection, sockets
<1> QED
  BY <1>7, <1>8, <1>9, <1>10, <1>11, <1>12 DEF Orderly

LEMMA NoNewConnectionKeepsOrder ==
  ASSUME Orderly, NoNewConnection, UNCHANGED <<known, published, said>>
  PROVE  Orderly'
<1>1. /\ place' \in Place /\ place'.at \in {"RECEIVE", "ACCEPT"}
      /\ place'.at = "RECEIVE" => place'.next = 1 /\ 1 \in DOMAIN clients
  BY ServeFromType DEF NoNewConnection
<1>2. TypeOK'
  BY <1>1 DEF Orderly, TypeOK, NoNewConnection, hub, sockets
<1>3. place.at = "ACCEPT"
  BY DEF NoNewConnection, CanAccept
<1>4. ServesAClient' /\ ClientsAreLinked'
  BY <1>1, <1>3
  DEF Orderly, ServesAClient, ClientsAreLinked, NoNewConnection, hub
<1> QED
  BY <1>2, <1>4
  DEF Orderly, CallbacksAreOfClients, EndsAreFinal, NothingIsInvented,
      NoNewConnection, hub, sockets

(* A step from the receiving of a client to the sending to all. *)
LEMMA ToDispatching ==
  ASSUME Orderly, place.at = "RECEIVE", place' = Dispatching,
         UNCHANGED <<link, clients, subscribed>>
  PROVE  /\ place' \in Place
         /\ CallbacksAreOfClients' /\ ServesAClient' /\ ClientsAreLinked'
<1>1. place' \in Place /\ place'.at = "DISPATCH" /\ place'.next = place.next
  BY DispatchingType DEF Orderly
<1>2. \A n \in DOMAIN clients : link[clients[n]] \in {"CONNECTED", "FAILED"}
  BY NobodyIsClosed
<1> QED
  BY <1>1, <1>2
  DEF Orderly, CallbacksAreOfClients, ServesAClient, ClientsAreLinked

LEMMA ReceiveKeepsOrder ==
  ASSUME Orderly, NEW id \in PlayerId, NEW size \in 1..Len(stream[id]),
         Receive(id, size), UNCHANGED <<known, published, said>>
  PROVE  Orderly'
<1> DEFINE chunk == SubSeq(stream[id], 1, size)
           rest == SubSeq(stream[id], size + 1, Len(stream[id]))
<1>1. stream[id] \in Seq(Piece)
  BY DEF Orderly, TypeOK, Piece
<1>2. chunk \in Seq(Piece) /\ rest \in Seq(Piece)
  BY <1>1
<1>3. stream' = [stream EXCEPT ![id] = rest]
  BY DEF Receive
<1>4. actions' = [actions EXCEPT ![id] = @ \o Deserialized(chunk)]
  BY DEF Receive
<1> HIDE DEF chunk, rest
<1>5. Deserialized(chunk) \in Seq(Text)
  BY <1>2, DeserializedText
<1>6. actions[id] \o Deserialized(chunk) \in Seq(Text)
  BY <1>5 DEF Orderly, TypeOK
<1>7. actions' \in [PlayerId -> Seq(Text)]
  BY <1>4, <1>6 DEF Orderly, TypeOK
<1>8. stream' \in [PlayerId -> Seq(Piece)]
  BY <1>2, <1>3 DEF Orderly, TypeOK, Piece
<1>9. /\ place' \in Place
      /\ CallbacksAreOfClients' /\ ServesAClient' /\ ClientsAreLinked'
  BY ToDispatching DEF Receive, Receiving
<1>10. TypeOK'
  BY <1>7, <1>8, <1>9 DEF Orderly, TypeOK, Receive, Piece
<1>11. stream[id] # << >>
  BY <1>1
<1>12. EndsAreFinal'
  BY <1>3, <1>11 DEF Orderly, TypeOK, EndsAreFinal, Receive
<1>13. NothingIsInvented'
  BY DEF Orderly, NothingIsInvented, Receive
<1> QED
  BY <1>9, <1>10, <1>12, <1>13 DEF Orderly

LEMMA ReceiveNothingKeepsOrder ==
  ASSUME Orderly, NEW id \in PlayerId, ReceiveNothing(id),
         UNCHANGED <<known, published, said>>
  PROVE  Orderly'
<1>1. /\ place' \in Place
      /\ CallbacksAreOfClients' /\ ServesAClient' /\ ClientsAreLinked'
  BY ToDispatching DEF ReceiveNothing, Receiving
<1>2. TypeOK'
  BY <1>1 DEF Orderly, TypeOK, ReceiveNothing, hub, sockets
<1> QED
  BY <1>1, <1>2
  DEF Orderly, EndsAreFinal, NothingIsInvented, ReceiveNothing, hub, sockets

(* Who is received from is a client in the list. *)
LEMMA ReceivingFromAClient ==
  ASSUME Orderly, NEW id \in PlayerId, Receiving(id)
  PROVE  /\ place.next \in DOMAIN clients /\ clients[place.next] = id
         /\ link[id] \in {"CONNECTED", "FAILED"}
<1>1. place.next \in DOMAIN clients /\ clients[place.next] = id
  BY DEF Orderly, ServesAClient, Receiving
<1> QED
  BY <1>1, NobodyIsClosed DEF Receiving

LEMMA PublishType ==
  ASSUME TypeOK, NEW type \in {"CONNECT", "DISCONNECT"}, NEW id \in PlayerId,
         Publish(type, id)
  PROVE  connectivity' \in
           Seq([messageType: {"CONNECT", "DISCONNECT"}, id: PlayerId])
<1> DEFINE M == [messageType: {"CONNECT", "DISCONNECT"}, id: PlayerId]
           m == [messageType |-> type, id |-> id]
<1>1. connectivity \in Seq(M)
  BY DEF TypeOK
<1>2. m \in M
  OBVIOUS
<1>3. connectivity' = Append(connectivity, m)
  BY DEF Publish
<1> HIDE DEF M, m
<1>4. connectivity' \in Seq(M)
  BY <1>1, <1>2, <1>3
<1> QED
  BY <1>4 DEF M

LEMMA ReceiveEndKeepsOrder ==
  ASSUME Orderly, NEW id \in PlayerId, ReceiveEnd(id),
         UNCHANGED <<known, published, said>>
  PROVE  Orderly'
<1>1. place.next \in DOMAIN clients /\ clients[place.next] = id
  BY ReceivingFromAClient DEF ReceiveEnd
<1>2. link' = [link EXCEPT ![id] = "CLOSED"]
      /\ UNCHANGED <<clients, subscribed, peer, stream>>
  BY DEF ReceiveEnd, sockets
<1>3. place' \in Place /\ place'.at = "DISPATCH" /\ place'.next = place.next
  BY DispatchingType DEF Orderly, ReceiveEnd
<1>4. connectivity' \in
        Seq([messageType: {"CONNECT", "DISCONNECT"}, id: PlayerId])
  BY PublishType DEF Orderly, ReceiveEnd
<1>5. TypeOK'
  BY <1>2, <1>3, <1>4 DEF Orderly, TypeOK, ReceiveEnd, sockets, Link
<1>6. CallbacksAreOfClients'
  BY <1>2 DEF Orderly, TypeOK, CallbacksAreOfClients
<1>7. ServesAClient'
  BY <1>1, <1>2, <1>3 DEF ServesAClient
<1>8. ASSUME NEW n \in DOMAIN clients
      PROVE  /\ link'[clients[n]] # "AWAY"
             /\ link'[clients[n]] = "CLOSED" => n = place.next
  <2>1. clients[n] \in PlayerId
    BY DEF Orderly, TypeOK
  <2>2. link[clients[n]] \in {"CONNECTED", "FAILED"}
    BY NobodyIsClosed DEF ReceiveEnd, Receiving
  <2>3. clients[n] = id => n = place.next
    BY <1>1 DEF Orderly, CallbacksAreOfClients
  <2> QED
    BY <1>2, <2>1, <2>2, <2>3 DEF Orderly, TypeOK
<1>9. ClientsAreLinked'
  BY <1>2, <1>3, <1>8 DEF ClientsAreLinked
<1>10. EndsAreFinal'
  BY <1>2 DEF Orderly, TypeOK, EndsAreFinal, ReceiveEnd
<1>11. NothingIsInvented'
  BY DEF Orderly, NothingIsInvented, ReceiveEnd, sockets
<1> QED
  BY <1>5, <1>6, <1>7, <1>9, <1>10, <1>11 DEF Orderly

LEMMA ReceiveErrorKeepsOrder ==
  ASSUME Orderly, NEW id \in PlayerId, ReceiveError(id),
         UNCHANGED <<known, published, said>>
  PROVE  Orderly'
<1>1. place.next \in DOMAIN clients /\ clients[place.next] = id
  BY ReceivingFromAClient DEF ReceiveError
<1>2. /\ link[id] = "CONNECTED" /\ link' = [link EXCEPT ![id] = "FAILED"]
      /\ stream' = [stream EXCEPT ![id] = << >>]
      /\ peer[id] = "RESET"
      /\ UNCHANGED <<clients, subscribed, peer>>
  BY DEF ReceiveError
<1>3. place' \in Place /\ place'.at = "ACCEPT"
  BY DEF ReceiveError, Accepting, At, Place
<1>4. connectivity' \in
        Seq([messageType: {"CONNECT", "DISCONNECT"}, id: PlayerId])
  BY PublishType DEF Orderly, ReceiveError
<1>5. stream' \in [PlayerId -> Seq(Piece)]
  <2>1. stream \in [PlayerId -> Seq(Piece)]
    BY DEF Orderly, TypeOK, Piece
  <2>2. << >> \in Seq(Piece)
    OBVIOUS
  <2> QED
    BY <1>2, <2>1, <2>2
<1>6. TypeOK'
  BY <1>2, <1>3, <1>4, <1>5 DEF Orderly, TypeOK, ReceiveError, Link, Piece
<1>7. CallbacksAreOfClients'
  BY <1>2 DEF Orderly, TypeOK, CallbacksAreOfClients
<1>8. \A n \in DOMAIN clients : link'[clients[n]] \in {"CONNECTED", "FAILED"}
  <2> TAKE n \in DOMAIN clients
  <2>1. clients[n] \in PlayerId
    BY DEF Orderly, TypeOK
  <2>2. link[clients[n]] \in {"CONNECTED", "FAILED"}
    BY NobodyIsClosed DEF ReceiveError, Receiving
  <2> QED
    BY <1>2, <2>1, <2>2 DEF Orderly, TypeOK
<1>9. ServesAClient' /\ ClientsAreLinked'
  BY <1>2, <1>3, <1>8 DEF ServesAClient, ClientsAreLinked
<1>10. EndsAreFinal'
  BY <1>2 DEF Orderly, TypeOK, EndsAreFinal
<1>11. NothingIsInvented'
  BY DEF Orderly, NothingIsInvented, ReceiveError
<1> QED
  BY <1>6, <1>7, <1>9, <1>10, <1>11 DEF Orderly

-----------------------------------------------------------------------------
(* Sending, and the end of the turn of a client *)

(* What a client shows after a message, while it was shown few enough. *)
LEMMA ShownOneMore ==
  ASSUME Orderly, NEW id \in PlayerId, outbox[id] # << >>
  PROVE  /\ Head(outbox[id]) \in 1..MaxPublished
         /\ Shown(shown[id], Head(outbox[id]))
              = Append(shown[id], Head(outbox[id]))
         /\ Append(shown[id], Head(outbox[id])) \in Seq(1..MaxPublished)
         /\ Len(Append(shown[id], Head(outbox[id]))) = Len(shown[id]) + 1
<1> DEFINE Number == 1..MaxPublished
<1>1. outbox[id] \in Seq(Number) /\ shown[id] \in Seq(Number)
  BY DEF Orderly, TypeOK
<1>2. /\ published[id] \in 0..MaxPublished
      /\ Len(shown[id]) + Len(outbox[id]) <= published[id]
  BY DEF Orderly, TypeOK, NothingIsInvented
<1>3. /\ \A length \in 0..MaxPublished :
           \A received \in [1..length -> Number] :
             \A number \in Number :
               Shown(received, number) = Append(received, number)
      /\ MaxPublished \in Nat
  BY ConversationsAssumption
<1> HIDE DEF Number
<1>4. Head(outbox[id]) \in Number
  BY <1>1
<1>5. Len(outbox[id]) \in Nat /\ Len(shown[id]) \in Nat
  BY <1>1
<1>6. Len(shown[id]) \in 0..MaxPublished
  <2>1. \A a, b \in Nat : \A c \in 0..MaxPublished :
          a + b <= c => a \in 0..MaxPublished
    BY <1>3
  <2> QED
    BY <1>2, <1>5, <2>1
<1>7. shown[id] \in [1..Len(shown[id]) -> Number]
  BY <1>1
<1>8. Shown(shown[id], Head(outbox[id])) = Append(shown[id], Head(outbox[id]))
  BY <1>3, <1>4, <1>6, <1>7
<1>9. /\ Append(shown[id], Head(outbox[id])) \in Seq(Number)
      /\ Len(Append(shown[id], Head(outbox[id]))) = Len(shown[id]) + 1
  BY <1>1, <1>4
<1> QED
  BY <1>4, <1>8, <1>9 DEF Number

(* However sending goes, the client is shown the message or is not, and    *)
(* who is there stays there.                                               *)
LEMMA SendOutcomes ==
  ASSUME Orderly, NEW id \in PlayerId, SentTo(id), outbox[id] # << >>,
         Send(id, Head(outbox[id]))
  PROVE  /\ place' \in Place
         /\ \/ place'.at = "DISPATCH" /\ place'.next = place.next
            \/ place'.at = "KILLED"
         /\ peer' \in [PlayerId -> Peer]
         /\ \A other \in PlayerId :
              \/ peer'[other] = peer[other]
              \/ peer[other] = "CLOSED" /\ peer'[other] = "BROKEN"
         /\ \/ shown' = [shown EXCEPT ![id] = Append(@, Head(outbox[id]))]
            \/ UNCHANGED shown
                 /\ (id \in Roomy => peer[id] \notin {"NONE", "OPEN"})
<1>1. place \in Place /\ place.at = "DISPATCH"
      /\ peer \in [PlayerId -> Peer] /\ link \in [PlayerId -> Link]
      /\ shown \in [PlayerId -> Seq(1..MaxPublished)]
  BY DEF Orderly, TypeOK, SentTo
<1>2. /\ [place EXCEPT !.id = id] \in Place
      /\ [place EXCEPT !.id = id].at = "DISPATCH"
      /\ [place EXCEPT !.id = id].next = place.next
  BY <1>1 DEF Place
<1>3. /\ At("KILLED", 0, {}) \in Place
      /\ At("KILLED", 0, {}).at = "KILLED"
  BY DEF At, Place
<1>4. CASE /\ link[id] # "CLOSED" /\ peer[id] = "OPEN"
           /\ shown' = [shown EXCEPT ![id] = Shown(@, Head(outbox[id]))]
           /\ place' = [place EXCEPT !.id = id]
           /\ UNCHANGED peer
  <2>1. shown' = [shown EXCEPT ![id] = Append(@, Head(outbox[id]))]
    BY <1>1, <1>4, ShownOneMore
  <2> QED
    BY <1>1, <1>2, <1>4, <2>1
<1>5. CASE /\ \/ link[id] = "CLOSED"
              \/ id \notin Roomy
              \/ peer[id] \in {"BROKEN", "RESET"}
           /\ place' = [place EXCEPT !.id = id]
           /\ UNCHANGED <<peer, shown>>
  <2>1. id \in Roomy => peer[id] \notin {"NONE", "OPEN"}
    BY <1>5 DEF Orderly, EndsAreFinal
  <2> QED
    BY <1>1, <1>2, <1>5, <2>1
<1>6. CASE /\ link[id] # "CLOSED" /\ peer[id] = "CLOSED"
           /\ peer' = [peer EXCEPT ![id] = "BROKEN"]
           /\ place' = [place EXCEPT !.id = id]
           /\ UNCHANGED shown
  BY <1>1, <1>2, <1>6 DEF Peer
<1>7. CASE /\ link[id] # "CLOSED" /\ peer[id] \in {"BROKEN", "RESET"}
           /\ place' = At("KILLED", 0, {})
           /\ UNCHANGED <<peer, shown>>
  BY <1>1, <1>3, <1>7
<1> QED
  BY <1>4, <1>5, <1>6, <1>7 DEF Send

LEMMA DispatchOneKeepsOrder ==
  ASSUME Orderly, NEW id \in PlayerId, DispatchOne(id),
         UNCHANGED <<known, published, said>>
  PROVE  Orderly'
<1>1. /\ SentTo(id) /\ outbox[id] # << >> /\ Send(id, Head(outbox[id]))
      /\ outbox' = [outbox EXCEPT ![id] = Tail(@)]
      /\ UNCHANGED <<connectivity, actions, link, clients, subscribed, stream>>
  BY DEF DispatchOne
<1>2. /\ outbox[id] \in Seq(1..MaxPublished)
      /\ Tail(outbox[id]) \in Seq(1..MaxPublished)
      /\ Len(Tail(outbox[id])) = Len(outbox[id]) - 1
      /\ Len(outbox[id]) \in Nat
  BY <1>1 DEF Orderly, TypeOK
<1>3. outbox' \in [PlayerId -> Seq(1..MaxPublished)]
  BY <1>1, <1>2 DEF Orderly, TypeOK
<1>4. shown' \in [PlayerId -> Seq(1..MaxPublished)]
      /\ \A other \in PlayerId :
           Len(shown'[other]) <= IF other = id THEN Len(shown[other]) + 1
                                               ELSE Len(shown[other])
  <2> DEFINE Number == 1..MaxPublished
             next == Append(shown[id], Head(outbox[id]))
  <2>1. shown \in [PlayerId -> Seq(Number)]
    BY DEF Orderly, TypeOK
  <2>2. next \in Seq(Number) /\ Len(next) = Len(shown[id]) + 1
    BY <1>1, ShownOneMore
  <2>3. shown' = [shown EXCEPT ![id] = next] \/ shown' = shown
    BY <1>1, SendOutcomes
  <2> HIDE DEF Number, next
  <2>4. \A other \in PlayerId : Len(shown[other]) \in Nat
    BY <2>1
  <2>5. CASE shown' = [shown EXCEPT ![id] = next]
    BY <2>1, <2>2, <2>4, <2>5 DEF Number
  <2>6. CASE shown' = shown
    BY <2>1, <2>4, <2>6 DEF Number
  <2> QED
    BY <2>3, <2>5, <2>6
<1>5. TypeOK'
  BY <1>1, <1>3, <1>4, SendOutcomes DEF Orderly, TypeOK
<1>6. CallbacksAreOfClients'
  BY <1>1 DEF Orderly, CallbacksAreOfClients
<1>7. place.at = "DISPATCH"
  BY <1>1 DEF SentTo
<1>8. ServesAClient' /\ ClientsAreLinked'
  BY <1>1, <1>7, SendOutcomes DEF Orderly, ServesAClient, ClientsAreLinked
<1>9. EndsAreFinal'
  BY <1>1, SendOutcomes DEF Orderly, EndsAreFinal
<1>10. ASSUME NEW other \in PlayerId
       PROVE  Len(shown'[other]) + Len(outbox'[other]) <= published[other]
  <2>1. /\ Len(shown[other]) + Len(outbox[other]) <= published[other]
        /\ Len(shown[other]) \in Nat /\ Len(shown'[other]) \in Nat
        /\ Len(outbox[other]) \in Nat /\ published[other] \in Int
    BY <1>4, SMTT(30) DEF Orderly, TypeOK, NothingIsInvented
  <2>2. Len(outbox'[other]) = IF other = id THEN Len(outbox[other]) - 1
                                            ELSE Len(outbox[other])
    BY <1>1, <1>2 DEF Orderly, TypeOK
  <2>5. \A a, b, c \in Nat : \A d \in Int :
          a + b <= d => /\ c <= a => c + b <= d
                        /\ c <= a + 1 => c + (b - 1) <= d
    OBVIOUS
  <2>3. CASE other = id
    <3>1. Len(shown'[other]) <= Len(shown[other]) + 1
          /\ Len(outbox'[other]) = Len(outbox[other]) - 1
      BY <1>4, <2>2, <2>3
    <3> QED
      BY <2>1, <2>5, <3>1
  <2>4. CASE other # id
    <3>1. Len(shown'[other]) <= Len(shown[other])
          /\ Len(outbox'[other]) = Len(outbox[other])
      BY <1>4, <2>2, <2>4
    <3> QED
      BY <2>1, <2>5, <3>1
  <2> QED
    BY <2>3, <2>4
<1>11. NothingIsInvented'
  BY <1>10 DEF NothingIsInvented
<1> QED
  BY <1>5, <1>6, <1>8, <1>9, <1>11 DEF Orderly

LEMMA DispatchedKeepsOrder ==
  ASSUME Orderly, NEW id \in PlayerId, Dispatched(id),
         UNCHANGED <<known, published, said>>
  PROVE  Orderly'
<1>1. place' = [place EXCEPT !.id = NULL, !.left = @ \ {id}]
      /\ place.at = "DISPATCH" /\ place \in Place
      /\ UNCHANGED <<hub, link, clients, subscribed, sockets>>
  BY DEF Orderly, TypeOK, Dispatched, SentTo
<1>2. place' \in Place /\ place'.at = "DISPATCH" /\ place'.next = place.next
  BY <1>1 DEF Place
<1>3. TypeOK'
  BY <1>1, <1>2 DEF Orderly, TypeOK, hub, sockets
<1>4. ServesAClient' /\ ClientsAreLinked'
  BY <1>1, <1>2 DEF Orderly, ServesAClient, ClientsAreLinked
<1> QED
  BY <1>1, <1>3, <1>4
  DEF Orderly, CallbacksAreOfClients, EndsAreFinal, NothingIsInvented, hub,
      sockets

(* The client whose turn ends is erased. *)
LEMMA EraseKeepsOrder ==
  ASSUME Orderly, NextClient, link[clients[place.next]] = "CLOSED",
         UNCHANGED <<known, published, said>>
  PROVE  Orderly'
<1> DEFINE k == place.next
           id == clients[place.next]
<1>1. /\ place.at = "DISPATCH" /\ k \in DOMAIN clients
      /\ clients' = RemoveAt(clients, k)
      /\ subscribed' = subscribed \ {id}
      /\ place' = ServeFrom(k, clients')
      /\ UNCHANGED <<hub, link, sockets>>
  BY DEF Orderly, ServesAClient, NextClient
<1>17. clients \in Seq(PlayerId)
  BY DEF Orderly, TypeOK
<1>2. /\ clients \in Seq(PlayerId) /\ k \in 1..Len(clients)
      /\ Len(clients) \in Nat
  BY <1>1, <1>17
<1>3. /\ clients' \in Seq(PlayerId) /\ Len(clients') = Len(clients) - 1
      /\ \A n \in 1..(Len(clients) - 1) :
           clients'[n] = IF n < k THEN clients[n] ELSE clients[n + 1]
  BY <1>1, <1>2, RemovedOne
<1> HIDE DEF k, id
<1>4. id = clients[k] /\ link[id] = "CLOSED"
  BY DEF id, k
<1>5. /\ place' \in Place /\ place'.at \in {"RECEIVE", "ACCEPT"}
      /\ place'.at = "RECEIVE" => place'.next \in DOMAIN clients'
  BY <1>1, <1>2, ServeFromType
<1>6. TypeOK'
  BY <1>1, <1>3, <1>5 DEF Orderly, TypeOK, hub, sockets
<1>7. \A m, n \in 1..Len(clients) : clients[m] = clients[n] => m = n
  BY <1>2 DEF Orderly, CallbacksAreOfClients
<1>8. /\ DOMAIN clients = 1..Len(clients)
      /\ DOMAIN clients' = 1..(Len(clients) - 1)
  BY <1>2, <1>3
<1>9. \A n \in DOMAIN clients' :
        \E m \in DOMAIN clients : m # k /\ clients'[n] = clients[m]
  <2> TAKE n \in DOMAIN clients'
  <2>1. CASE n < k
    BY <1>2, <1>3, <1>8, <2>1
  <2>2. CASE ~ n < k
    <3>1. n + 1 \in DOMAIN clients /\ n + 1 # k
      BY <1>2, <1>8, <2>2
    <3> QED
      BY <1>3, <1>8, <2>2, <3>1
  <2> QED
    BY <2>1, <2>2
<1>10. \A m \in DOMAIN clients :
         m # k => \E n \in DOMAIN clients' : clients'[n] = clients[m]
  <2> SUFFICES ASSUME NEW m \in DOMAIN clients, m # k
               PROVE  \E n \in DOMAIN clients' : clients'[n] = clients[m]
    OBVIOUS
  <2>1. CASE m < k
    <3>1. m \in DOMAIN clients' /\ clients'[m] = clients[m]
      BY <1>2, <1>3, <1>8, <2>1
    <3> QED
      BY <3>1
  <2>2. CASE m > k
    <3>1. m - 1 \in DOMAIN clients' /\ clients'[m - 1] = clients[m]
      BY <1>2, <1>3, <1>8, <2>2
    <3> QED
      BY <3>1
  <2> QED
    BY <1>2, <1>8, <2>1, <2>2
<1>11. subscribed' = {clients'[n] : n \in DOMAIN clients'}
  <2>1. subscribed = {clients[n] : n \in DOMAIN clients}
    BY DEF Orderly, CallbacksAreOfClients
  <2>2. \A n \in DOMAIN clients' : clients'[n] \in subscribed'
    BY <1>1, <1>2, <1>4, <1>7, <1>8, <1>9, <2>1
  <2>3. \A other \in subscribed' :
          \E n \in DOMAIN clients' : clients'[n] = other
    BY <1>1, <1>4, <1>10, <2>1
  <2> QED
    BY <2>2, <2>3
<1>12. \A m, n \in DOMAIN clients' : clients'[m] = clients'[n] => m = n
  <2> SUFFICES ASSUME NEW m \in 1..(Len(clients) - 1),
                      NEW n \in 1..(Len(clients) - 1),
                      clients'[m] = clients'[n]
               PROVE  m = n
    BY <1>8
  <2> DEFINE Old(i) == IF i < k THEN i ELSE i + 1
  <2>1. clients[Old(m)] = clients[Old(n)]
    BY <1>3
  <2>2. Old(m) \in 1..Len(clients) /\ Old(n) \in 1..Len(clients)
    BY <1>2
  <2>3. Old(m) = Old(n)
    BY <1>7, <2>1, <2>2
  <2> QED
    BY <1>2, <2>3
<1>13. CallbacksAreOfClients'
  <2>1. \A other \in PlayerId :
          link'[other] \in {"CONNECTED", "FAILED"} => other \in subscribed'
    BY <1>1, <1>4 DEF Orderly, CallbacksAreOfClients
  <2> QED
    BY <1>11, <1>12, <2>1 DEF CallbacksAreOfClients
<1>14. \A m \in DOMAIN clients :
         m # k => link[clients[m]] \in {"CONNECTED", "FAILED"}
  <2> SUFFICES ASSUME NEW m \in DOMAIN clients, m # k
               PROVE  link[clients[m]] \in {"CONNECTED", "FAILED"}
    OBVIOUS
  <2>1. link[clients[m]] \in Link
    BY DEF Orderly, TypeOK
  <2> QED
    BY <1>1, <2>1 DEF Orderly, ClientsAreLinked, Link, k
<1>15. ClientsAreLinked'
  BY <1>1, <1>9, <1>14 DEF ClientsAreLinked
<1>16. ServesAClient'
  BY <1>5 DEF ServesAClient
<1> QED
  BY <1>1, <1>6, <1>13, <1>15, <1>16
  DEF Orderly, EndsAreFinal, NothingIsInvented, hub, sockets

LEMMA NextClientKeepsOrder ==
  ASSUME Orderly, NextClient, UNCHANGED <<known, published, said>>
  PROVE  Orderly'
<1>1. CASE link[clients[place.next]] = "CLOSED"
  BY <1>1, EraseKeepsOrder
<1>2. CASE link[clients[place.next]] # "CLOSED"
  <2>1. /\ place.at = "DISPATCH" /\ place \in Place
        /\ place' = ServeFrom(place.next + 1, clients)
        /\ UNCHANGED <<hub, link, sockets, clients, subscribed>>
    BY <1>2 DEF Orderly, TypeOK, NextClient
  <2>2. place.next + 1 \in Nat
    BY <2>1 DEF Place
  <2>3. /\ place' \in Place /\ place'.at \in {"RECEIVE", "ACCEPT"}
        /\ place'.at = "RECEIVE" => place'.next \in DOMAIN clients
    BY <2>1, <2>2, ServeFromType
  <2>4. TypeOK'
    BY <2>1, <2>3 DEF Orderly, TypeOK, hub, sockets
  <2>5. \A n \in DOMAIN clients :
          link[clients[n]] # "AWAY" /\ link[clients[n]] # "CLOSED"
    BY <1>2, <2>1 DEF Orderly, ClientsAreLinked
  <2>6. ServesAClient' /\ ClientsAreLinked'
    BY <2>1, <2>3, <2>5 DEF ServesAClient, ClientsAreLinked
  <2> QED
    BY <2>1, <2>4, <2>6
    DEF Orderly, CallbacksAreOfClients, EndsAreFinal, NothingIsInvented, hub,
        sockets
<1> QED
  BY <1>1, <1>2

-----------------------------------------------------------------------------

LEMMA InitIsOrderly == Init => Orderly
<1> SUFFICES ASSUME Init PROVE Orderly
  OBVIOUS
<1>1. place \in Place /\ place.at = "ACCEPT"
  BY DEF Init, NetworkInit, Accepting, At, Place
<1>2. TypeOK
  <2>1. \A S : << >> \in Seq(S)
    OBVIOUS
  <2> QED
    BY <1>1, <2>1, ConversationsAssumption
    DEF Init, NetworkInit, TypeOK, Link, Peer
<1>3. clients = << >> /\ subscribed = {}
      /\ link = [id \in PlayerId |-> "AWAY"]
  BY DEF Init, NetworkInit
<1>4. CallbacksAreOfClients /\ ServesAClient /\ ClientsAreLinked
      /\ EndsAreFinal
  BY <1>1, <1>3
  DEF CallbacksAreOfClients, ServesAClient, ClientsAreLinked, EndsAreFinal
<1>5. NothingIsInvented
  BY ConversationsAssumption DEF Init, NetworkInit, NothingIsInvented
<1> QED
  BY <1>2, <1>4, <1>5 DEF Orderly

LEMMA StepIsOrderly == Orderly /\ [Next]_vars => Orderly'
<1> SUFFICES ASSUME Orderly, [Next]_vars PROVE Orderly'
  OBVIOUS
<1>1. CASE Serve
  <2>1. UNCHANGED <<known, published, said>>
    BY <1>1 DEF Serve
  <2>2. CASE NoNewConnection
    BY <2>1, <2>2, NoNewConnectionKeepsOrder
  <2>3. CASE NextClient
    BY <2>1, <2>3, NextClientKeepsOrder
  <2>4. ASSUME NEW id \in PlayerId, HandleNewClientConnection(id)
        PROVE  Orderly'
    BY <2>1, <2>4, HandleNewClientConnectionKeepsOrder
  <2>5. ASSUME NEW id \in PlayerId, HandleClientCommunication(id)
        PROVE  Orderly'
    BY <2>1, <2>5, ReceiveKeepsOrder, ReceiveNothingKeepsOrder,
       ReceiveEndKeepsOrder, ReceiveErrorKeepsOrder, DispatchOneKeepsOrder,
       DispatchedKeepsOrder
    DEF HandleClientCommunication
  <2> QED
    BY <1>1, <2>2, <2>3, <2>4, <2>5 DEF Serve, NetworkThread
<1>2. CASE GameThread
  BY <1>2, TakeConnectivityKeepsOrder, TakeActionKeepsOrder,
     PublishGameplayMessageKeepsOrder
  DEF GameThread
<1>3. CASE Clients /\ UNCHANGED <<known, published>>
  BY <1>3, DialKeepsOrder, HangUpKeepsOrder, SayOnceKeepsOrder DEF Clients
<1>4. CASE UNCHANGED vars
  <2>1. TypeOK'
    BY <1>4 DEF vars, conversation, Orderly, TypeOK
  <2>2. NothingIsInvented'
    BY <1>4 DEF vars, conversation, Orderly, NothingIsInvented
  <2> QED
    BY <1>4, <2>1, <2>2, SameThreadIsOrderly DEF vars, conversation
<1> QED
  BY <1>1, <1>2, <1>3, <1>4 DEF Next

LEMMA AlwaysOrderly == Spec => []Orderly
  BY InitIsOrderly, StepIsOrderly, PTL DEF Spec

(***************************************************************************)
(* However clients connect, speak, close and break, the state of the       *)
(* network thread keeps its type.                                          *)
(***************************************************************************)
THEOREM TypeIsInvariant == Spec => []TypeOK
<1>1. Orderly => TypeOK
  BY DEF Orderly
<1> QED
  BY <1>1, AlwaysOrderly, PTL

(***************************************************************************)
(* dispatchMessages never calls back on a client that was erased, and no   *)
(* client that can still be heard loses its callback, whatever the number  *)
(* of clients and the order in which they hang up.                         *)
(***************************************************************************)
THEOREM CallbacksAreSafe == Spec => []CallbacksAreOfClients
<1>1. Orderly => CallbacksAreOfClients
  BY DEF Orderly
<1> QED
  BY <1>1, AlwaysOrderly, PTL

-----------------------------------------------------------------------------
(* Messages *)

(* The next number may follow. *)
LEMMA OneMoreInOrder ==
  ASSUME NEW numbers \in Seq(Nat), NEW last \in Nat, InOrder(numbers, last)
  PROVE  /\ InOrder(Append(numbers, last + 1), last + 1)
         /\ numbers = UpTo(last) => Append(numbers, last + 1) = UpTo(last + 1)
<1> DEFINE more == Append(numbers, last + 1)
<1>1. /\ Len(numbers) \in Nat /\ DOMAIN numbers = 1..Len(numbers)
      /\ more \in Seq(Nat) /\ DOMAIN more = 1..(Len(numbers) + 1)
      /\ \A n \in 1..Len(numbers) : more[n] = numbers[n]
      /\ more[Len(numbers) + 1] = last + 1
      /\ \A n \in 1..Len(numbers) : numbers[n] \in Nat
  OBVIOUS
<1> HIDE DEF more
<1>2. \A n \in DOMAIN more : more[n] <= last + 1
  <2> TAKE n \in DOMAIN more
  <2>1. CASE n \in 1..Len(numbers)
    BY <1>1, <2>1 DEF InOrder
  <2>2. CASE n = Len(numbers) + 1
    BY <1>1, <2>2
  <2> QED
    BY <1>1, <2>1, <2>2
<1>3. \A m, n \in DOMAIN more : m < n => more[m] < more[n]
  <2> SUFFICES ASSUME NEW m \in DOMAIN more, NEW n \in DOMAIN more, m < n
               PROVE  more[m] < more[n]
    OBVIOUS
  <2>1. m \in 1..Len(numbers)
    BY <1>1
  <2>2. CASE n \in 1..Len(numbers)
    BY <1>1, <2>1, <2>2 DEF InOrder
  <2>3. CASE n = Len(numbers) + 1
    BY <1>1, <2>1, <2>3 DEF InOrder
  <2> QED
    BY <1>1, <2>2, <2>3
<1>4. ASSUME numbers = UpTo(last) PROVE more = UpTo(last + 1)
  <2>1. Len(numbers) = last
    <3>1. DOMAIN numbers = 1..last
      BY <1>4 DEF UpTo
    <3> QED
      BY <1>1, <3>1, SameInterval
  <2>2. \A n \in 1..last : numbers[n] = n
    BY <1>4 DEF UpTo
  <2>3. \A n \in 1..(last + 1) : more[n] = n
    BY <1>1, <2>1, <2>2
  <2>4. more \in [1..(last + 1) -> Nat]
    BY <1>1, <2>1
  <2> QED
    BY <2>3, <2>4 DEF UpTo
<1> QED
  BY <1>2, <1>3, <1>4 DEF InOrder, more

(* A message may get lost without the others changing their order. *)
LEMMA OneLessInOrder ==
  ASSUME NEW s \in Seq(Nat), NEW t \in Seq(Nat), t # << >>, NEW last \in Nat,
         InOrder(s \o t, last)
  PROVE  InOrder(s \o Tail(t), last)
<1> DEFINE all == s \o t
           rest == s \o Tail(t)
           Old(n) == IF n <= Len(s) THEN n ELSE n + 1
<1>1. /\ Len(s) \in Nat /\ Len(t) \in Nat \ {0}
      /\ Tail(t) \in Seq(Nat) /\ Len(Tail(t)) = Len(t) - 1
      /\ \A n \in 1..(Len(t) - 1) : Tail(t)[n] = t[n + 1]
  OBVIOUS
<1>2. /\ DOMAIN all = 1..(Len(s) + Len(t))
      /\ \A n \in 1..(Len(s) + Len(t)) :
           all[n] = IF n <= Len(s) THEN s[n] ELSE t[n - Len(s)]
  BY <1>1
<1>3. /\ DOMAIN rest = 1..(Len(s) + Len(t) - 1)
      /\ \A n \in 1..(Len(s) + Len(t) - 1) :
           rest[n] = IF n <= Len(s) THEN s[n] ELSE Tail(t)[n - Len(s)]
  BY <1>1
<1> HIDE DEF all, rest
<1>4. \A n \in DOMAIN rest : rest[n] = all[Old(n)] /\ Old(n) \in DOMAIN all
  <2> TAKE n \in DOMAIN rest
  <2>1. CASE n <= Len(s)
    BY <1>1, <1>2, <1>3, <2>1
  <2>2. CASE ~ n <= Len(s)
    <3>1. n - Len(s) \in 1..(Len(t) - 1) /\ (n - Len(s)) + 1 = (n + 1) - Len(s)
      BY <1>1, <1>3, <2>2
    <3>2. rest[n] = t[(n + 1) - Len(s)]
      BY <1>1, <1>3, <2>2, <3>1
    <3> QED
      BY <1>1, <1>2, <1>3, <2>2, <3>2, SMTT(30)
  <2> QED
    BY <2>1, <2>2
<1>5. \A m, n \in DOMAIN rest : m < n => Old(m) < Old(n)
  BY <1>1, <1>3
<1> QED
  BY <1>4, <1>5 DEF InOrder, all, rest

(* Most steps show and publish nothing. *)
LEMMA SameMessagesAreTraced ==
  ASSUME MessagesAreTraced, UNCHANGED <<shown, outbox, published>>,
         \A id \in PlayerId :
           peer'[id] \in {"NONE", "OPEN"} => peer[id] \in {"NONE", "OPEN"}
  PROVE  MessagesAreTraced'
  BY DEF MessagesAreTraced, InOrder, UpTo

LEMMA MessageTypes ==
  ASSUME Orderly, NEW id \in PlayerId
  PROVE  /\ shown[id] \in Seq(Nat) /\ outbox[id] \in Seq(Nat)
         /\ shown[id] \o outbox[id] \in Seq(Nat)
         /\ published[id] \in Nat
<1> DEFINE Number == 1..MaxPublished
<1>1. shown[id] \in Seq(Number) /\ outbox[id] \in Seq(Number)
      /\ published[id] \in 0..MaxPublished
  BY DEF Orderly, TypeOK
<1>2. Number \subseteq Nat
  BY ConversationsAssumption
<1>3. published[id] \in Nat
  BY <1>1, ConversationsAssumption
<1> HIDE DEF Number
<1>4. shown[id] \in Seq(Nat) /\ outbox[id] \in Seq(Nat)
  BY <1>1, <1>2, SeqOfMore
<1> QED
  BY <1>3, <1>4

LEMMA PublishingIsTraced ==
  ASSUME Orderly, MessagesAreTraced, NEW id \in PlayerId,
         PublishGameplayMessage(id)
  PROVE  MessagesAreTraced'
<1> DEFINE all == shown[id] \o outbox[id]
           last == published[id]
<1>1. /\ all \in Seq(Nat) /\ last \in Nat
      /\ shown[id] \in Seq(Nat) /\ outbox[id] \in Seq(Nat)
  BY MessageTypes
<1>2. published'[id] = last + 1
      /\ \A other \in PlayerId :
           other # id => published'[other] = published[other]
  BY DEF Orderly, TypeOK, PublishGameplayMessage
<1>3. outbox'[id] = Append(outbox[id], last + 1)
      /\ \A other \in PlayerId : other # id => outbox'[other] = outbox[other]
  BY <1>2 DEF Orderly, TypeOK, PublishGameplayMessage
<1>4. UNCHANGED <<shown, peer>>
  BY DEF PublishGameplayMessage, sockets
<1>5. shown'[id] \o outbox'[id] = Append(all, last + 1)
  <2>1. last + 1 \in Nat
    BY <1>1
  <2>2. shown'[id] = shown[id]
    BY <1>4
  <2>3. ASSUME NEW s \in Seq(Nat), NEW t \in Seq(Nat), NEW e \in Nat
        PROVE  s \o Append(t, e) = Append(s \o t, e)
    BY AppendMovesOut
  <2>4. shown[id] \o Append(outbox[id], last + 1)
          = Append(shown[id] \o outbox[id], last + 1)
    BY <1>1, <2>1, <2>3
  <2> QED
    BY <1>3, <2>2, <2>4
<1>6. InOrder(all, last)
      /\ (id \in Roomy /\ peer[id] \in {"NONE", "OPEN"} => all = UpTo(last))
  BY DEF MessagesAreTraced
<1> HIDE DEF all, last
<1>7. /\ InOrder(Append(all, last + 1), last + 1)
      /\ all = UpTo(last) => Append(all, last + 1) = UpTo(last + 1)
  BY <1>1, <1>6, OneMoreInOrder
<1>8. ASSUME NEW other \in PlayerId
      PROVE  /\ InOrder(shown'[other] \o outbox'[other], published'[other])
             /\ other \in Roomy /\ peer'[other] \in {"NONE", "OPEN"} =>
                  shown'[other] \o outbox'[other] = UpTo(published'[other])
  <2>1. CASE other = id
    BY <1>2, <1>4, <1>5, <1>6, <1>7, <2>1
  <2>2. CASE other # id
    BY <1>2, <1>3, <1>4, <2>2 DEF MessagesAreTraced
  <2> QED
    BY <2>1, <2>2
<1> QED
  BY <1>8 DEF MessagesAreTraced, InOrder, UpTo

LEMMA DispatchingIsTraced ==
  ASSUME Orderly, MessagesAreTraced, NEW id \in PlayerId, DispatchOne(id),
         UNCHANGED published
  PROVE  MessagesAreTraced'
<1> DEFINE all == shown[id] \o outbox[id]
           last == published[id]
<1>1. /\ all \in Seq(Nat) /\ last \in Nat
      /\ shown[id] \in Seq(Nat) /\ outbox[id] \in Seq(Nat)
      /\ outbox[id] # << >>
  BY MessageTypes DEF DispatchOne
<1>2. /\ outbox'[id] = Tail(outbox[id])
      /\ \A other \in PlayerId : other # id => outbox'[other] = outbox[other]
  BY DEF Orderly, TypeOK, DispatchOne
<1>3. /\ \A other \in PlayerId :
           peer'[other] \in {"NONE", "OPEN"} => peer'[other] = peer[other]
      /\ \/ shown' = [shown EXCEPT ![id] = Append(@, Head(outbox[id]))]
         \/ UNCHANGED shown /\ (id \in Roomy => peer[id] \notin {"NONE", "OPEN"})
  BY SendOutcomes DEF DispatchOne
<1>4. InOrder(all, last)
      /\ (id \in Roomy /\ peer[id] \in {"NONE", "OPEN"} => all = UpTo(last))
  BY DEF MessagesAreTraced
<1>5. /\ InOrder(shown'[id] \o outbox'[id], last)
      /\ id \in Roomy /\ peer'[id] \in {"NONE", "OPEN"} =>
           shown'[id] \o outbox'[id] = UpTo(last)
  <2>1. CASE shown' = [shown EXCEPT ![id] = Append(@, Head(outbox[id]))]
    <3>1. shown'[id] = Append(shown[id], Head(outbox[id]))
      BY <2>1 DEF Orderly, TypeOK
    <3>2. shown'[id] \o outbox'[id] = all
      BY <1>1, <1>2, <3>1, HeadMovesOver
    <3> QED
      BY <1>3, <1>4, <3>2
  <2>2. CASE UNCHANGED shown /\ (id \in Roomy => peer[id] \notin {"NONE", "OPEN"})
    <3>1. InOrder(shown[id] \o Tail(outbox[id]), last)
      BY <1>1, <1>4, OneLessInOrder
    <3> QED
      BY <1>2, <1>3, <2>2, <3>1
  <2> QED
    BY <1>3, <2>1, <2>2
<1>6. \A other \in PlayerId : other # id => shown'[other] = shown[other]
  BY <1>3 DEF Orderly, TypeOK
<1>7. ASSUME NEW other \in PlayerId
      PROVE  /\ InOrder(shown'[other] \o outbox'[other], published'[other])
             /\ other \in Roomy /\ peer'[other] \in {"NONE", "OPEN"} =>
                  shown'[other] \o outbox'[other] = UpTo(published'[other])
  <2>1. CASE other = id
    BY <1>5, <2>1
  <2>2. CASE other # id
    BY <1>2, <1>3, <1>6, <2>2 DEF MessagesAreTraced
  <2> QED
    BY <2>1, <2>2
<1> QED
  BY <1>7 DEF MessagesAreTraced, InOrder, UpTo

LEMMA StepIsTraced ==
  Orderly /\ MessagesAreTraced /\ [Next]_vars => MessagesAreTraced'
<1> SUFFICES ASSUME Orderly, MessagesAreTraced, [Next]_vars
             PROVE  MessagesAreTraced'
  OBVIOUS
<1>1. CASE Serve
  <2>1. UNCHANGED published
    BY <1>1 DEF Serve
  <2>2. CASE \E id \in PlayerId : DispatchOne(id)
    BY <2>1, <2>2, DispatchingIsTraced
  <2>3. ASSUME NEW id \in PlayerId, HandleClientCommunication(id),
               ~ DispatchOne(id)
        PROVE  UNCHANGED <<shown, outbox, peer>>
    BY <2>3 DEF HandleClientCommunication, Receive, ReceiveNothing, ReceiveEnd,
                ReceiveError, Dispatched, hub, sockets
  <2>4. CASE ~ \E id \in PlayerId : DispatchOne(id)
    <3>1. UNCHANGED <<shown, outbox, peer>>
      BY <1>1, <2>3, <2>4
      DEF Serve, NetworkThread, NoNewConnection, NextClient,
          HandleNewClientConnection, hub, sockets
    <3> QED
      BY <2>1, <3>1, SameMessagesAreTraced
  <2> QED
    BY <2>2, <2>4
<1>2. CASE GameThread
  <2>1. CASE \E id \in PlayerId : PublishGameplayMessage(id)
    BY <2>1, PublishingIsTraced
  <2>2. CASE ~ \E id \in PlayerId : PublishGameplayMessage(id)
    <3>1. UNCHANGED <<shown, outbox, peer, published>>
      BY <1>2, <2>2 DEF GameThread, TakeConnectivity, TakeAction, sockets
    <3> QED
      BY <3>1, SameMessagesAreTraced
  <2> QED
    BY <2>1, <2>2
<1>3. CASE Clients /\ UNCHANGED <<known, published>>
  <2>1. UNCHANGED <<shown, outbox, published>>
    BY <1>3 DEF Clients, SayOnce, Say, Dial, HangUp, hub
  <2>2. \A id \in PlayerId :
          peer'[id] \in {"NONE", "OPEN"} => peer[id] \in {"NONE", "OPEN"}
    BY <1>3 DEF Orderly, TypeOK, Clients, SayOnce, Say, Dial, HangUp
  <2> QED
    BY <2>1, <2>2, SameMessagesAreTraced
<1>4. CASE UNCHANGED vars
  BY <1>4, SameMessagesAreTraced DEF vars, conversation
<1> QED
  BY <1>1, <1>2, <1>3, <1>4 DEF Next

LEMMA InitIsTraced == Init => MessagesAreTraced
<1> SUFFICES ASSUME Init, NEW id \in PlayerId
             PROVE  shown[id] \o outbox[id] = << >> /\ published[id] = 0
  <2>1. ASSUME NEW all, all = << >>
        PROVE  InOrder(all, 0) /\ all = UpTo(0)
    BY <2>1 DEF InOrder, UpTo
  <2> QED
    BY <2>1 DEF MessagesAreTraced
<1> QED
  BY ConversationsAssumption DEF Init, NetworkInit

(***************************************************************************)
(* Nothing is shown twice or out of order, through all the errors of the   *)
(* network thread, and where sockets have room nothing is missing for a    *)
(* client that is there.                                                   *)
(***************************************************************************)
THEOREM MessagesKeepTheirOrder == Spec => []MessagesArriveInOrder
<1>1. Orderly /\ MessagesAreTraced => MessagesArriveInOrder
  BY DEF MessagesAreTraced, MessagesArriveInOrder, InOrder, UpTo
<1> QED
  BY <1>1, AlwaysOrderly, InitIsTraced, StepIsTraced, PTL DEF Spec

-----------------------------------------------------------------------------
(* Actions *)

(* The first of the queued actions is taken. *)
LEMMA TakenIsTraced ==
  ASSUME NEW queued \in Seq(Text), NEW pieces \in Seq(Piece),
         NEW texts \in Seq(Text),
         Traced(queued, pieces, texts), queued # << >>
  PROVE  Traced(Tail(queued), pieces, texts)
<1>1. PICK taken \in [DOMAIN queued -> DOMAIN texts],
           coming \in [DOMAIN pieces -> DOMAIN texts] :
        Sources(queued, pieces, texts, taken, coming)
  BY DEF Traced
<1>2. /\ Len(queued) \in Nat \ {0} /\ DOMAIN queued = 1..Len(queued)
      /\ DOMAIN Tail(queued) = 1..(Len(queued) - 1)
      /\ \A n \in 1..(Len(queued) - 1) : Tail(queued)[n] = queued[n + 1]
  OBVIOUS
<1> DEFINE left == [n \in 1..(Len(queued) - 1) |-> taken[n + 1]]
<1>3. left \in [DOMAIN Tail(queued) -> DOMAIN texts]
      /\ \A n \in 1..(Len(queued) - 1) : left[n] = taken[n + 1]
  BY <1>2
<1> HIDE DEF left
<1>4. \A n \in 1..(Len(queued) - 1) : n + 1 \in DOMAIN queued
  BY <1>2
<1>6. \A n \in 1..(Len(queued) - 1) :
        Tail(queued)[n] = texts[left[n]]
  <2> TAKE n \in 1..(Len(queued) - 1)
  <2>1. queued[n + 1] = texts[taken[n + 1]]
    BY <1>1, <1>4 DEF Sources
  <2> QED
    BY <1>2, <1>3, <2>1
<1>7. \A m, n \in 1..(Len(queued) - 1) : m < n => left[m] < left[n]
  <2> SUFFICES ASSUME NEW m \in 1..(Len(queued) - 1),
                      NEW n \in 1..(Len(queued) - 1), m < n
               PROVE  left[m] < left[n]
    OBVIOUS
  <2>1. m + 1 < n + 1
    BY <1>2
  <2>2. taken[m + 1] < taken[n + 1]
    BY <1>1, <1>4, <2>1 DEF Sources
  <2> QED
    BY <1>3, <2>2
<1>8. \A n \in 1..(Len(queued) - 1) : \A i \in DOMAIN pieces :
        left[n] < coming[i]
  BY <1>1, <1>3, <1>4 DEF Sources
<1>5. Sources(Tail(queued), pieces, texts, left, coming)
  BY <1>1, <1>2, <1>3, <1>6, <1>7, <1>8 DEF Sources
<1> QED
  BY <1>3, <1>5 DEF Traced

(* What is left in a socket that broke is lost. *)
LEMMA LostIsTraced ==
  ASSUME NEW queued, NEW pieces, NEW texts, Traced(queued, pieces, texts)
  PROVE  Traced(queued, << >>, texts)
<1>1. PICK taken \in [DOMAIN queued -> DOMAIN texts],
           coming \in [DOMAIN pieces -> DOMAIN texts] :
        Sources(queued, pieces, texts, taken, coming)
  BY DEF Traced
<1> DEFINE none == [i \in {} |-> coming[i]]
<1>2. DOMAIN << >> = {} /\ none \in [DOMAIN << >> -> DOMAIN texts]
  OBVIOUS
<1> HIDE DEF none
<1>3. Sources(queued, << >>, texts, taken, none)
  BY <1>1, <1>2 DEF Sources
<1> QED
  BY <1>2, <1>3 DEF Traced

(* A client says one more text. *)
LEMMA SaidIsTraced ==
  ASSUME NEW queued \in Seq(Text), NEW pieces \in Seq(Piece),
         NEW texts \in Seq(Text), NEW text \in Text,
         Traced(queued, pieces, texts)
  PROVE  Traced(queued,
                pieces \o [piece \in 1..Pieces |->
                             [text |-> text, piece |-> piece]],
                Append(texts, text))
<1>1. PICK taken \in [DOMAIN queued -> DOMAIN texts],
           coming \in [DOMAIN pieces -> DOMAIN texts] :
        Sources(queued, pieces, texts, taken, coming)
  BY DEF Traced
<1> DEFINE all == pieces \o [piece \in 1..Pieces |->
                               [text |-> text, piece |-> piece]]
           more == Append(texts, text)
           last == Len(texts) + 1
           old == Len(pieces)
<1>2. /\ all \in Seq(Piece) /\ Len(all) = old + Pieces
      /\ \A i \in 1..old : all[i] = pieces[i]
      /\ \A i \in (old + 1)..(old + Pieces) :
           all[i] = [text |-> text, piece |-> i - old]
  BY SaidPieces
<1>3. /\ DOMAIN texts = 1..Len(texts) /\ Len(texts) \in Nat
      /\ DOMAIN more = 1..last
      /\ \A n \in 1..Len(texts) : more[n] = texts[n]
      /\ more[last] = text
      /\ DOMAIN pieces = 1..old /\ old \in Nat
      /\ Pieces \in Nat
  BY NetworkAssumption
<1>4. DOMAIN all = 1..(old + Pieces)
  BY <1>2, <1>3
<1> HIDE DEF all, more, last, old
<1> DEFINE arriving == [i \in 1..(old + Pieces) |->
                          IF i <= old THEN coming[i] ELSE last]
<1>5. /\ last \in Nat /\ last \in DOMAIN more
      /\ \A n \in DOMAIN texts : n \in DOMAIN more /\ n \in Nat /\ n < last
  BY <1>3 DEF last
<1>6. taken \in [DOMAIN queued -> DOMAIN more]
  BY <1>5
<1>7. \A i \in 1..(old + Pieces) :
        /\ arriving[i] = IF i <= old THEN coming[i] ELSE last
        /\ i <= old => i \in DOMAIN pieces
        /\ ~ i <= old => i \in (old + 1)..(old + Pieces)
  BY <1>3
<1>8. arriving \in [DOMAIN all -> DOMAIN more]
  BY <1>3, <1>4, <1>5
<1> HIDE DEF arriving
<1>9. \A n \in DOMAIN queued : queued[n] = more[taken[n]]
  BY <1>1, <1>3 DEF Sources
<1>10. \A i \in DOMAIN all : all[i].text = more[arriving[i]]
  <2> TAKE i \in DOMAIN all
  <2>1. CASE i <= old
    BY <1>1, <1>2, <1>3, <1>4, <1>7, <2>1 DEF Sources
  <2>2. CASE ~ i <= old
    <3>1. all[i] = [text |-> text, piece |-> i - old]
      BY <1>2, <1>4, <1>7, <2>2
    <3>2. all[i].text = text
      BY <3>1
    <3> QED
      BY <1>3, <1>4, <1>7, <2>2, <3>2
  <2> QED
    BY <2>1, <2>2
<1>11. \A i, j \in DOMAIN all :
         i < j => \/ arriving[i] < arriving[j]
                  \/ arriving[i] = arriving[j] /\ all[i].piece < all[j].piece
  <2> SUFFICES ASSUME NEW i \in DOMAIN all, NEW j \in DOMAIN all, i < j
               PROVE  \/ arriving[i] < arriving[j]
                      \/ /\ arriving[i] = arriving[j]
                         /\ all[i].piece < all[j].piece
    OBVIOUS
  <2>1. CASE j <= old
    <3>1. i <= old
      BY <1>3, <1>4, <2>1
    <3> QED
      BY <1>1, <1>2, <1>3, <1>4, <1>7, <2>1, <3>1 DEF Sources
  <2>2. CASE i <= old /\ ~ j <= old
    <3>1. coming[i] < last
      BY <1>4, <1>5, <1>7, <2>2
    <3> QED
      BY <1>4, <1>7, <2>2, <3>1
  <2>3. CASE ~ i <= old /\ ~ j <= old
    <3>3. /\ all[i] = [text |-> text, piece |-> i - old]
          /\ all[j] = [text |-> text, piece |-> j - old]
      BY <1>2, <1>4, <1>7, <2>3
    <3>1. all[i].piece = i - old /\ all[j].piece = j - old
      BY <3>3
    <3>2. i - old < j - old
      BY <1>3, <1>4
    <3> QED
      BY <1>4, <1>7, <2>3, <3>1, <3>2
  <2>4. i <= old \/ ~ i <= old
    OBVIOUS
  <2> QED
    BY <2>1, <2>2, <2>3
<1>12. \A n \in DOMAIN queued : \A i \in DOMAIN all : taken[n] < arriving[i]
  <2> TAKE n \in DOMAIN queued
  <2> TAKE i \in DOMAIN all
  <2>1. CASE i <= old
    BY <1>1, <1>4, <1>7, <2>1 DEF Sources
  <2>2. CASE ~ i <= old
    BY <1>4, <1>5, <1>7, <2>2
  <2> QED
    BY <2>1, <2>2
<1>13. Sources(queued, all, more, taken, arriving)
  BY <1>1, <1>6, <1>8, <1>9, <1>10, <1>11, <1>12 DEF Sources
<1>14. Traced(queued, all, more)
  BY <1>6, <1>8, <1>13 DEF Traced
<1> QED
  BY <1>14 DEF all, more

(* What is read in one go, as one text or as nothing, leaves what comes    *)
(* after it.                                                               *)
LEMMA ReadIsTraced ==
  ASSUME NEW queued \in Seq(Text), NEW pieces \in Seq(Piece),
         NEW texts \in Seq(Text), NEW size \in 1..Len(pieces),
         Traced(queued, pieces, texts)
  PROVE  Traced(queued \o Deserialized(SubSeq(pieces, 1, size)),
                SubSeq(pieces, size + 1, Len(pieces)), texts)
<1>1. PICK taken \in [DOMAIN queued -> DOMAIN texts],
           coming \in [DOMAIN pieces -> DOMAIN texts] :
        Sources(queued, pieces, texts, taken, coming)
  BY DEF Traced
<1> DEFINE chunk == SubSeq(pieces, 1, size)
           rest == SubSeq(pieces, size + 1, Len(pieces))
           left == [i \in 1..(Len(pieces) - size) |-> coming[i + size]]
<1>2. /\ Len(pieces) \in Nat /\ size \in Nat /\ 1 \in 1..Len(pieces)
      /\ DOMAIN pieces = 1..Len(pieces)
      /\ chunk \in Seq(Piece) /\ Len(chunk) = size
      /\ \A i \in 1..size : chunk[i] = pieces[i]
  OBVIOUS
<1>3. /\ rest \in Seq(Piece) /\ DOMAIN rest = 1..(Len(pieces) - size)
      /\ \A i \in 1..(Len(pieces) - size) : rest[i] = pieces[i + size]
  BY <1>2
<1>4. \A i \in 1..(Len(pieces) - size) : i + size \in DOMAIN pieces
  BY <1>2
<1>5. left \in [DOMAIN rest -> DOMAIN texts]
      /\ \A i \in 1..(Len(pieces) - size) : left[i] = coming[i + size]
  BY <1>3, <1>4
<1> HIDE DEF chunk, rest, left
<1>8. \A i \in DOMAIN rest : rest[i].text = texts[left[i]]
  <2> TAKE i \in DOMAIN rest
  <2>1. i + size \in DOMAIN pieces
    BY <1>3, <1>4
  <2>2. pieces[i + size].text = texts[coming[i + size]]
    BY <1>1, <2>1 DEF Sources
  <2> QED
    BY <1>3, <1>5, <2>2
<1>9. \A i, j \in DOMAIN rest :
        i < j => \/ left[i] < left[j]
                 \/ left[i] = left[j] /\ rest[i].piece < rest[j].piece
  <2> SUFFICES ASSUME NEW i \in DOMAIN rest, NEW j \in DOMAIN rest, i < j
               PROVE  \/ left[i] < left[j]
                      \/ left[i] = left[j] /\ rest[i].piece < rest[j].piece
    OBVIOUS
  <2>1. /\ i + size \in DOMAIN pieces /\ j + size \in DOMAIN pieces
        /\ i + size < j + size
    BY <1>2, <1>3, <1>4
  <2>2. \/ coming[i + size] < coming[j + size]
        \/ /\ coming[i + size] = coming[j + size]
           /\ pieces[i + size].piece < pieces[j + size].piece
    BY <1>1, <2>1 DEF Sources
  <2> QED
    BY <1>3, <1>5, <2>2
<1>10. \A n \in DOMAIN queued : \A i \in DOMAIN rest : taken[n] < left[i]
  <2> TAKE n \in DOMAIN queued
  <2> TAKE i \in DOMAIN rest
  <2>1. i + size \in DOMAIN pieces
    BY <1>3, <1>4
  <2>2. taken[n] < coming[i + size]
    BY <1>1, <2>1 DEF Sources
  <2> QED
    BY <1>3, <1>5, <2>2
<1>6. CASE Deserialized(chunk) = << >>
  <2>1. queued \o Deserialized(chunk) = queued
    BY <1>6
  <2>2. Sources(queued, rest, texts, taken, left)
    BY <1>1, <1>5, <1>8, <1>9, <1>10 DEF Sources
  <2>3. Traced(queued, rest, texts)
    BY <1>5, <2>2 DEF Traced
  <2> QED
    BY <2>1, <2>3 DEF chunk, rest
<1>7. CASE Deserialized(chunk) # << >>
  <2> DEFINE text == chunk[1].text
             more == Append(queued, text)
             len == Len(queued)
             sources == [n \in 1..(len + 1) |->
                           IF n <= len THEN taken[n] ELSE coming[1]]
  <2>1. /\ Deserialized(chunk) = <<text>> /\ text \in Text
        /\ size = Pieces /\ \A i \in 1..size : pieces[i].piece = i
    BY <1>2, <1>7, DeserializedText
  <2>2. text = texts[coming[1]] /\ coming[1] \in DOMAIN texts
    <3>1. 1 \in DOMAIN pieces /\ chunk[1] = pieces[1]
      BY <1>2
    <3>2. pieces[1].text = texts[coming[1]]
      BY <1>1, <3>1 DEF Sources
    <3> QED
      BY <3>1, <3>2
  <2> HIDE DEF text
  <2>3. queued \o Deserialized(chunk) = more
    BY <2>1
  <2>4. /\ len \in Nat /\ DOMAIN queued = 1..len
        /\ DOMAIN more = 1..(len + 1)
        /\ \A n \in 1..len : more[n] = queued[n]
        /\ more[len + 1] = text
    BY <2>1
  <2> HIDE DEF more, len
  <2>5. /\ sources \in [DOMAIN more -> DOMAIN texts]
        /\ \A n \in 1..len : sources[n] = taken[n]
        /\ sources[len + 1] = coming[1]
    BY <2>2, <2>4
  <2> HIDE DEF sources
  <2>6. \A n \in DOMAIN more : n \in 1..len \/ n = len + 1
    BY <2>4
  <2>7. \A n \in DOMAIN more : more[n] = texts[sources[n]]
    BY <1>1, <2>2, <2>4, <2>5, <2>6 DEF Sources
  <2>8. \A m, n \in DOMAIN more : m < n => sources[m] < sources[n]
    <3> SUFFICES ASSUME NEW m \in DOMAIN more, NEW n \in DOMAIN more, m < n
                 PROVE  sources[m] < sources[n]
      OBVIOUS
    <3>1. m \in 1..len
      BY <2>4
    <3>2. CASE n \in 1..len
      BY <1>1, <2>4, <2>5, <3>1, <3>2 DEF Sources
    <3>3. CASE n = len + 1
      BY <1>1, <1>2, <2>4, <2>5, <3>1, <3>3 DEF Sources
    <3> QED
      BY <2>6, <3>2, <3>3
  <2>9. \A i \in DOMAIN rest : coming[1] < left[i]
    <3> TAKE i \in DOMAIN rest
    <3>1. /\ i + size \in DOMAIN pieces /\ left[i] = coming[i + size]
          /\ 1 \in DOMAIN pieces /\ size \in DOMAIN pieces
          /\ size < i + size /\ (1 = size \/ 1 < size)
      BY <1>2, <1>3, <1>4, <1>5
    <3>2. pieces[i + size] \in Piece /\ pieces[size].piece = Pieces
      BY <1>2, <2>1, <3>1
    <3>3. pieces[i + size].piece \in 1..Pieces /\ Pieces \in Nat
      BY <3>2, NetworkAssumption DEF Piece
    <3>4. coming[size] < coming[i + size]
      BY <1>1, <3>1, <3>2, <3>3 DEF Sources
    <3>5. coming[1] = coming[size] \/ coming[1] < coming[size]
      BY <1>1, <3>1 DEF Sources
    <3>6. /\ coming[1] \in Nat /\ coming[size] \in Nat
          /\ coming[i + size] \in Nat
      <4>1. DOMAIN texts \subseteq Nat
        OBVIOUS
      <4> QED
        BY <3>1, <4>1
    <3> QED
      BY <3>1, <3>4, <3>5, <3>6
  <2>10. \A n \in DOMAIN more : \A i \in DOMAIN rest : sources[n] < left[i]
    <3> TAKE n \in DOMAIN more
    <3> TAKE i \in DOMAIN rest
    <3>1. CASE n \in 1..len
      BY <1>10, <2>4, <2>5, <3>1
    <3>2. CASE n = len + 1
      BY <2>5, <2>9, <3>2
    <3> QED
      BY <2>6, <3>1, <3>2
  <2>11. Sources(more, rest, texts, sources, left)
    BY <1>5, <1>8, <1>9, <2>5, <2>7, <2>8, <2>10 DEF Sources
  <2>12. Traced(more, rest, texts)
    BY <1>5, <2>5, <2>11 DEF Traced
  <2> QED
    BY <2>3, <2>12 DEF chunk, rest
<1> QED
  BY <1>6, <1>7

(* What is said, queued and arriving of the others stays as it is. *)
LEMMA SameTextsAreTraced ==
  ASSUME TextsAreTraced, NEW id \in PlayerId,
         \A other \in PlayerId :
           other # id => /\ actions'[other] = actions[other]
                         /\ stream'[other] = stream[other]
                         /\ said'[other] = said[other],
         Traced(actions'[id], stream'[id], said'[id])
  PROVE  TextsAreTraced'
<1>1. ASSUME NEW other \in PlayerId
      PROVE  Traced(actions'[other], stream'[other], said'[other])
  <2>1. Traced(actions[other], stream[other], said[other])
    BY DEF TextsAreTraced
  <2> QED
    BY <2>1
<1> QED
  BY <1>1 DEF TextsAreTraced, Traced, Sources

LEMMA TextTypes ==
  ASSUME Orderly, NEW id \in PlayerId
  PROVE  /\ actions[id] \in Seq(Text)
         /\ stream[id] \in Seq(Piece)
         /\ said[id] \in Seq(Text)
  BY DEF Orderly, TypeOK, Piece

LEMMA TakeActionKeepsTexts ==
  ASSUME Orderly, TextsAreTraced, NEW id \in PlayerId, TakeAction(id)
  PROVE  TextsAreTraced'
<1>1. Traced(Tail(actions[id]), stream[id], said[id])
  BY TextTypes, TakenIsTraced DEF TextsAreTraced, TakeAction
<1>2. actions'[id] = Tail(actions[id])
      /\ stream'[id] = stream[id] /\ said'[id] = said[id]
  BY DEF Orderly, TypeOK, TakeAction, sockets
<1>3. Traced(actions'[id], stream'[id], said'[id])
  BY <1>1, <1>2
<1>4. \A other \in PlayerId :
        other # id => /\ actions'[other] = actions[other]
                      /\ stream'[other] = stream[other]
                      /\ said'[other] = said[other]
  BY DEF Orderly, TypeOK, TakeAction, sockets
<1> QED
  BY <1>3, <1>4, SameTextsAreTraced

LEMMA ReceiveKeepsTexts ==
  ASSUME Orderly, TextsAreTraced, UNCHANGED said, NEW id \in PlayerId,
         NEW size \in 1..Len(stream[id]), Receive(id, size)
  PROVE  TextsAreTraced'
<1>1. Traced(actions[id] \o Deserialized(SubSeq(stream[id], 1, size)),
             SubSeq(stream[id], size + 1, Len(stream[id])), said[id])
  BY TextTypes, ReadIsTraced DEF TextsAreTraced
<1>2. /\ actions'[id]
           = actions[id] \o Deserialized(SubSeq(stream[id], 1, size))
      /\ stream'[id] = SubSeq(stream[id], size + 1, Len(stream[id]))
      /\ said'[id] = said[id]
  BY DEF Orderly, TypeOK, Receive
<1>3. Traced(actions'[id], stream'[id], said'[id])
  BY <1>1, <1>2
<1>4. \A other \in PlayerId :
        other # id => /\ actions'[other] = actions[other]
                      /\ stream'[other] = stream[other]
                      /\ said'[other] = said[other]
  BY DEF Orderly, TypeOK, Receive
<1> QED
  BY <1>3, <1>4, SameTextsAreTraced

LEMMA ReceiveErrorKeepsTexts ==
  ASSUME Orderly, TextsAreTraced, UNCHANGED said, NEW id \in PlayerId,
         ReceiveError(id)
  PROVE  TextsAreTraced'
<1>1. Traced(actions[id], << >>, said[id])
  BY LostIsTraced DEF TextsAreTraced
<1>2. /\ actions'[id] = actions[id]
      /\ stream'[id] = << >>
      /\ said'[id] = said[id]
  BY DEF Orderly, TypeOK, ReceiveError
<1>3. Traced(actions'[id], stream'[id], said'[id])
  BY <1>1, <1>2
<1>4. \A other \in PlayerId :
        other # id => /\ actions'[other] = actions[other]
                      /\ stream'[other] = stream[other]
                      /\ said'[other] = said[other]
  BY DEF Orderly, TypeOK, ReceiveError
<1> QED
  BY <1>3, <1>4, SameTextsAreTraced

LEMMA SayOnceKeepsTexts ==
  ASSUME Orderly, TextsAreTraced, NEW id \in PlayerId, NEW text \in Text,
         SayOnce(id, text)
  PROVE  TextsAreTraced'
<1>1. Traced(actions[id],
             stream[id] \o [piece \in 1..Pieces |->
                              [text |-> text, piece |-> piece]],
             Append(said[id], text))
  BY TextTypes, SaidIsTraced DEF TextsAreTraced
<1>2. /\ actions'[id] = actions[id]
      /\ stream'[id] = stream[id] \o [piece \in 1..Pieces |->
                                        [text |-> text, piece |-> piece]]
      /\ said'[id] = Append(said[id], text)
  BY DEF Orderly, TypeOK, SayOnce, Say, hub
<1>3. Traced(actions'[id], stream'[id], said'[id])
  BY <1>1, <1>2
<1>4. \A other \in PlayerId :
        other # id => /\ actions'[other] = actions[other]
                      /\ stream'[other] = stream[other]
                      /\ said'[other] = said[other]
  BY DEF Orderly, TypeOK, SayOnce, Say, hub
<1> QED
  BY <1>3, <1>4, SameTextsAreTraced

LEMMA UntouchedTextsAreTraced ==
  ASSUME TextsAreTraced, UNCHANGED <<actions, stream, said>>
  PROVE  TextsAreTraced'
  BY DEF TextsAreTraced, Traced, Sources

LEMMA StepKeepsTexts ==
  Orderly /\ TextsAreTraced /\ [Next]_vars => TextsAreTraced'
<1> SUFFICES ASSUME Orderly, TextsAreTraced, [Next]_vars
             PROVE  TextsAreTraced'
  OBVIOUS
<1>1. CASE Serve
  <2>1. UNCHANGED said
    BY <1>1 DEF Serve
  <2>2. ASSUME NEW id \in PlayerId, HandleClientCommunication(id)
        PROVE  TextsAreTraced'
    <3>1. CASE \E size \in 1..Len(stream[id]) : Receive(id, size)
      BY <2>1, <3>1, ReceiveKeepsTexts
    <3>2. CASE ReceiveError(id)
      BY <2>1, <3>2, ReceiveErrorKeepsTexts
    <3>3. CASE ReceiveNothing(id) \/ ReceiveEnd(id) \/ DispatchOne(id)
                 \/ Dispatched(id)
      BY <2>1, <3>3, UntouchedTextsAreTraced
      DEF ReceiveNothing, ReceiveEnd, DispatchOne, Dispatched, hub, sockets
    <3> QED
      BY <2>2, <3>1, <3>2, <3>3 DEF HandleClientCommunication
  <2>3. CASE NoNewConnection \/ NextClient
               \/ \E id \in PlayerId : HandleNewClientConnection(id)
    BY <2>1, <2>3, UntouchedTextsAreTraced
    DEF NoNewConnection, NextClient, HandleNewClientConnection, hub, sockets
  <2> QED
    BY <1>1, <2>2, <2>3 DEF Serve, NetworkThread
<1>2. CASE GameThread
  <2>1. CASE \E id \in PlayerId : TakeAction(id)
    BY <2>1, TakeActionKeepsTexts
  <2>2. CASE TakeConnectivity \/ \E id \in PlayerId : PublishGameplayMessage(id)
    BY <2>2, UntouchedTextsAreTraced
    DEF TakeConnectivity, PublishGameplayMessage, sockets
  <2> QED
    BY <1>2, <2>1, <2>2 DEF GameThread
<1>3. CASE Clients /\ UNCHANGED <<known, published>>
  <2>1. CASE \E id \in PlayerId : \E text \in Text : SayOnce(id, text)
    BY <2>1, SayOnceKeepsTexts
  <2>2. CASE \E id \in PlayerId : (Dial(id) \/ HangUp(id)) /\ UNCHANGED said
    BY <2>2, UntouchedTextsAreTraced DEF Dial, HangUp, hub
  <2> QED
    BY <1>3, <2>1, <2>2 DEF Clients
<1>4. CASE UNCHANGED vars
  BY <1>4, UntouchedTextsAreTraced DEF vars, conversation
<1> QED
  BY <1>1, <1>2, <1>3, <1>4 DEF Next

LEMMA InitKeepsTexts == Init => TextsAreTraced
<1> SUFFICES ASSUME NEW none, none = << >>
             PROVE  Traced(none, none, none)
  BY DEF Init, NetworkInit, TextsAreTraced
<1> DEFINE nowhere == [n \in {} |-> n]
<1>1. DOMAIN none = {}
  OBVIOUS
<1>2. nowhere \in [DOMAIN none -> DOMAIN none]
  BY <1>1
<1> HIDE DEF nowhere
<1>3. Sources(none, none, none, nowhere, nowhere)
  BY <1>1, <1>2 DEF Sources
<1> QED
  BY <1>2, <1>3 DEF Traced

(***************************************************************************)
(* However the texts of a client were cut on the wire, and whatever of     *)
(* them the server dropped, what is queued of it are texts that it sent,   *)
(* in the order in which it sent them.                                     *)
(***************************************************************************)
THEOREM ActionsKeepTheirOrder == Spec => []ActionsWereSaid
<1>1. TextsAreTraced => ActionsWereSaid
  BY DEF TextsAreTraced, Traced, Sources, ActionsWereSaid
<1> QED
  BY <1>1, AlwaysOrderly, InitKeepsTexts, StepKeepsTexts, PTL DEF Spec

-----------------------------------------------------------------------------
(* Refinement: the actions of the network thread are those of Session *)

LEMMA ReceiveSpeaks ==
  ASSUME Orderly, NEW id \in PlayerId, NEW size \in 1..Len(stream[id]),
         Receive(id, size)
  PROVE  TheSession!Speak(id) \/ UNCHANGED TheSession!vars
<1> DEFINE chunk == SubSeq(stream[id], 1, size)
<1>1. stream[id] \in Seq(Piece) /\ actions[id] \in Seq(Text)
  BY TextTypes
<1>2. chunk \in Seq(Piece) /\ stream[id] # << >>
  BY <1>1
<1>3. actions' = [actions EXCEPT ![id] = @ \o Deserialized(chunk)]
      /\ UNCHANGED <<connectivity, link>>
  BY DEF Receive
<1> HIDE DEF chunk
<1>4. link[id] = "CONNECTED"
  BY <1>2, ReceivingFromAClient DEF Orderly, EndsAreFinal, Receive
<1>5. CASE Deserialized(chunk) = << >>
  <2>1. actions[id] \o Deserialized(chunk) = actions[id]
    BY <1>1, <1>5
  <2>2. UNCHANGED actions
    BY <1>3, <2>1 DEF Orderly, TypeOK
  <2> QED
    BY <1>3, <2>2 DEF TheSession!vars
<1>6. CASE Deserialized(chunk) # << >>
  <2>1. PICK text \in Text : Deserialized(chunk) = <<text>>
    BY <1>2, <1>6, DeserializedText
  <2>2. actions[id] \o Deserialized(chunk) = Append(actions[id], text)
    BY <1>1, <2>1
  <2>3. actions' = [actions EXCEPT ![id] = Append(@, text)]
    BY <1>3, <2>2
  <2> QED
    BY <1>3, <1>4, <2>3 DEF TheSession!Speak
<1> QED
  BY <1>5, <1>6

LEMMA ReceiveEndEnds ==
  ASSUME Orderly, NEW id \in PlayerId, ReceiveEnd(id)
  PROVE  TheSession!End(id)
<1>1. link[id] \in {"CONNECTED", "FAILED"}
  BY ReceivingFromAClient DEF ReceiveEnd
<1> QED
  BY <1>1
  DEF ReceiveEnd, Publish, TheSession!End, TheSession!Turn, TheSession!Publish

LEMMA StepKeepsSession ==
  Orderly /\ [Next]_vars => [TheSession!Next]_(TheSession!vars)
<1> SUFFICES ASSUME Orderly, [Next]_vars
             PROVE  TheSession!Next \/ UNCHANGED TheSession!vars
  OBVIOUS
<1>1. CASE Serve
  <2>1. ASSUME NEW id \in PlayerId, HandleNewClientConnection(id)
        PROVE  TheSession!Open(id)
    BY <2>1
    DEF HandleNewClientConnection, Pending, Publish, TheSession!Open,
        TheSession!Turn, TheSession!Publish
  <2>2. ASSUME NEW id \in PlayerId, HandleClientCommunication(id)
        PROVE  TheSession!Next \/ UNCHANGED TheSession!vars
    <3>1. CASE \E size \in 1..Len(stream[id]) : Receive(id, size)
      BY <3>1, ReceiveSpeaks DEF TheSession!Next
    <3>2. CASE ReceiveEnd(id)
      BY <3>2, ReceiveEndEnds DEF TheSession!Next
    <3>3. CASE ReceiveError(id)
      <4>1. TheSession!Break(id)
        BY <3>3
        DEF ReceiveError, Publish, TheSession!Break, TheSession!Turn,
            TheSession!Publish
      <4> QED
        BY <4>1 DEF TheSession!Next
    <3>4. CASE ReceiveNothing(id) \/ DispatchOne(id) \/ Dispatched(id)
      BY <3>4
      DEF ReceiveNothing, DispatchOne, Dispatched, hub, TheSession!vars
    <3> QED
      BY <2>2, <3>1, <3>2, <3>3, <3>4 DEF HandleClientCommunication
  <2>3. CASE NoNewConnection \/ NextClient
    BY <2>3 DEF NoNewConnection, NextClient, hub, TheSession!vars
  <2> QED
    BY <1>1, <2>1, <2>2, <2>3 DEF Serve, NetworkThread, TheSession!Next
<1>2. CASE GameThread
  <2>1. ASSUME NEW id \in PlayerId, TakeAction(id)
        PROVE  TheSession!TakeAction(id)
    BY <2>1 DEF TakeAction, TheSession!TakeAction
  <2>2. CASE TakeConnectivity
    BY <2>2
    DEF TakeConnectivity, TheSession!Next, TheSession!TakeConnectivity
  <2>3. CASE \E id \in PlayerId : PublishGameplayMessage(id)
    BY <2>3 DEF PublishGameplayMessage, TheSession!vars
  <2> QED
    BY <1>2, <2>1, <2>2, <2>3 DEF GameThread, TheSession!Next
<1>3. CASE Clients /\ UNCHANGED <<known, published>>
  BY <1>3 DEF Clients, SayOnce, Say, Dial, HangUp, hub, TheSession!vars
<1>4. CASE UNCHANGED vars
  BY <1>4 DEF vars, conversation, TheSession!vars
<1> QED
  BY <1>1, <1>2, <1>3, <1>4 DEF Next

(***************************************************************************)
(* The network thread implements Session: whatever the connections do, the *)
(* game thread hears CONNECT first, one DISCONNECT of a client that closes *)
(* and two of one that broke, and no action of a client after either.      *)
(***************************************************************************)
THEOREM NetworkKeepsSessions == Spec => KeepsSessions
<1>1. Init => TheSession!Init
  BY DEF Init, NetworkInit, TheSession!Init
<1> QED
  BY <1>1, AlwaysOrderly, StepKeepsSession, PTL
  DEF Spec, KeepsSessions, TheSession!Spec
=============================================================================
