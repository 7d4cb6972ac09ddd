---------------------------- MODULE ServerProofs ----------------------------
(***************************************************************************)
(* Proofs about the whole server with its clients.  What the game thread   *)
(* relies on holds whoever fills its queues (Outside, in GameplayProofs),  *)
(* so that Fits holds here as well; what is added is where the texts of a  *)
(* client are on their way to its queue, and what a client will have been  *)
(* shown once it has received what waits for it.                           *)
(***************************************************************************)
EXTENDS Server, GameplayProofs

(* A text, which arrives in one piece. *)
Text == [text: PlayerActionMessage, piece: {1}]

(* What is asked for, and not left again. *)
Standing(queue, seats, wants) ==
  \E i \in 0..Len(queue) :
    /\ Asks(queue, seats, i, wants)
    /\ \A k \in (i + 1)..Len(queue) : ~ Leaves(queue, k)

(* The queue of a client once the text that has arrived is read. *)
Waiting(queue, texts) ==
  IF texts = << >> THEN queue ELSE Append(queue, texts[1].text)

(* The queue as the client knows it: a text may be lost by an error. *)
Sent(queue, texts, end) ==
  {q \in Seq(PlayerActionMessage) :
     \/ q = Waiting(queue, texts)
     \/ /\ end = "RESET"
        /\ texts = << >>
        /\ \E m \in PlayerActionMessage : q = Append(queue, m)}

(* A client has left a room before it asked for the next, and if it is     *)
(* still there the room it asked for last is one it has or will get.       *)
OnItsWay(queue, texts, end, seats, wants) ==
  /\ \E q \in Sent(queue, texts, end) : InTurn(q, seats, wants)
  /\ end = "OPEN" /\ wants # NULL =>
       Standing(Waiting(queue, texts), seats, wants)

-----------------------------------------------------------------------------
(* The texts of one client *)

LEMMA WaitingType ==
  ASSUME NEW queue \in Seq(PlayerActionMessage), NEW texts \in Seq(Text)
  PROVE  /\ Waiting(queue, texts) \in Seq(PlayerActionMessage)
         /\ \A end : Waiting(queue, texts) \in Sent(queue, texts, end)
         /\ queue # << >> =>
              /\ Waiting(queue, texts) # << >>
              /\ Head(Waiting(queue, texts)) = Head(queue)
              /\ Tail(Waiting(queue, texts)) = Waiting(Tail(queue), texts)
<1>1. CASE texts = << >>
  BY <1>1 DEF Waiting, Sent
<1>2. CASE texts # << >>
  <2>1. texts[1] \in Text
    BY <1>2
  <2> DEFINE m == texts[1].text
  <2>2. m \in PlayerActionMessage
    BY <2>1 DEF Text
  <2>3. Waiting(queue, texts) = Append(queue, m)
    BY <1>2 DEF Waiting
  <2>4. Waiting(Tail(queue), texts) = Append(Tail(queue), m)
    BY <1>2 DEF Waiting
  <2> HIDE DEF m
  <2>5. /\ Append(queue, m) \in Seq(PlayerActionMessage)
        /\ queue # << >> =>
             /\ Append(queue, m) # << >>
             /\ Head(Append(queue, m)) = Head(queue)
             /\ Tail(Append(queue, m)) = Append(Tail(queue), m)
    BY <2>2
  <2> QED
    BY <2>3, <2>4, <2>5 DEF Sent
<1> QED
  BY <1>1, <1>2

LEMMA SentIsWaiting ==
  ASSUME NEW queue, NEW texts, NEW end, end # "RESET" \/ texts # << >>,
         NEW q \in Sent(queue, texts, end)
  PROVE  q = Waiting(queue, texts)
  BY DEF Sent

(* What is known to be sent begins with what is queued. *)
LEMMA SentBegins ==
  ASSUME NEW queue \in Seq(PlayerActionMessage), queue # << >>,
         NEW texts \in Seq(Text), NEW end, NEW q \in Sent(queue, texts, end)
  PROVE  /\ q \in Seq(PlayerActionMessage) /\ q # << >>
         /\ Head(q) = Head(queue)
         /\ Tail(q) \in Sent(Tail(queue), texts, end)
<1>1. CASE q = Waiting(queue, texts)
  <2>1. Tail(queue) \in Seq(PlayerActionMessage)
    OBVIOUS
  <2> QED
    BY <1>1, <2>1, WaitingType, ZenonT(40)
<1>2. ASSUME end = "RESET", texts = << >>,
             NEW m \in PlayerActionMessage, q = Append(queue, m)
      PROVE  /\ q \in Seq(PlayerActionMessage) /\ q # << >>
             /\ Head(q) = Head(queue)
             /\ Tail(q) \in Sent(Tail(queue), texts, end)
  <2>1. /\ q \in Seq(PlayerActionMessage) /\ q # << >>
        /\ Head(q) = Head(queue)
        /\ Tail(q) = Append(Tail(queue), m)
        /\ Tail(q) \in Seq(PlayerActionMessage)
    BY <1>2
  <2> QED
    BY <1>2, <2>1 DEF Sent
<1> QED
  BY <1>1, <1>2 DEF Sent

LEMMA QueuedStanding ==
  ASSUME NEW queue \in Seq(PlayerActionMessage), NEW seats, NEW wants,
         NEW m \in PlayerActionMessage
  PROVE  /\ m \in JoinGame => Standing(Append(queue, m), seats, m.gameDifficulty)
         /\ m \notin LeaveGame /\ Standing(queue, seats, wants) =>
              Standing(Append(queue, m), seats, wants)
<1> DEFINE longer == Append(queue, m)
           last == Len(queue) + 1
<1>1. /\ Len(queue) \in Nat /\ last \in Nat /\ Len(longer) = last
      /\ DOMAIN queue = 1..Len(queue)
      /\ DOMAIN longer = 1..last
      /\ longer[last] = m
      /\ \A i \in 1..Len(queue) : longer[i] = queue[i]
  OBVIOUS
<1> HIDE DEF longer
<1>2. ASSUME m \in JoinGame
      PROVE  Standing(longer, seats, m.gameDifficulty)
  <2>1. Asks(longer, seats, last, m.gameDifficulty)
    BY <1>1, <1>2 DEF Asks
  <2>2. last \in 0..Len(longer) /\ (last + 1)..Len(longer) = {}
    BY <1>1
  <2> QED
    BY <2>1, <2>2 DEF Standing
<1>3. ASSUME m \notin LeaveGame, Standing(queue, seats, wants)
      PROVE  Standing(longer, seats, wants)
  <2>1. PICK i \in 0..Len(queue) :
          /\ Asks(queue, seats, i, wants)
          /\ \A k \in (i + 1)..Len(queue) : ~ Leaves(queue, k)
    BY <1>3 DEF Standing
  <2>2. Asks(longer, seats, i, wants) /\ i \in 0..Len(longer)
    BY <1>1, <2>1 DEF Asks
  <2>3. ASSUME NEW k \in (i + 1)..Len(longer) PROVE ~ Leaves(longer, k)
    <3>1. k \in (i + 1)..Len(queue) \/ k = last
      BY <1>1
    <3>2. k \in (i + 1)..Len(queue) => k \in 1..Len(queue)
      BY <1>1
    <3> QED
      BY <1>1, <1>3, <2>1, <3>1, <3>2 DEF Leaves
  <2> QED
    BY <2>2, <2>3 DEF Standing
<1> QED
  BY <1>2, <1>3 DEF longer

LEMMA HandledStanding ==
  ASSUME NEW queue \in Seq(PlayerActionMessage), queue # << >>, NEW seats,
         NEW wants, Standing(queue, seats, wants), NEW next,
         Head(queue) \in JoinGame =>
           wants \notin seats /\ next = {Head(queue).gameDifficulty},
         Head(queue) \notin JoinGame \cup LeaveGame => next = seats
  PROVE  Standing(Tail(queue), next, wants)
<1> DEFINE rest == Tail(queue)
           n == Len(queue)
<1>1. /\ n \in Nat /\ n >= 1 /\ Len(rest) = n - 1 /\ n - 1 \in Nat
      /\ DOMAIN queue = 1..n /\ DOMAIN rest = 1..(n - 1)
      /\ queue[1] = Head(queue)
      /\ \A i \in 1..(n - 1) : rest[i] = queue[i + 1]
  OBVIOUS
<1> HIDE DEF rest, n
<1>2. PICK i \in 0..n : /\ Asks(queue, seats, i, wants)
                        /\ \A k \in (i + 1)..n : ~ Leaves(queue, k)
  BY DEF Standing, n
<1>3. ASSUME NEW j \in 0..(n - 1), \A k \in (j + 1)..(n - 1) : k + 1 \in (i + 1)..n
      PROVE  \A k \in (j + 1)..(n - 1) : ~ Leaves(rest, k)
  <2> SUFFICES ASSUME NEW k \in (j + 1)..(n - 1) PROVE ~ Leaves(rest, k)
    OBVIOUS
  <2>1. k \in 1..(n - 1) /\ k + 1 \in (i + 1)..n
    BY <1>1, <1>3
  <2> QED
    BY <1>1, <1>2, <2>1 DEF Leaves
<1>4. CASE i > 1
  <2>1. i - 1 \in 1..(n - 1) /\ i - 1 \in 0..(n - 1) /\ i - 1 + 1 = i
    BY <1>1, <1>4
  <2>2. Asks(rest, next, i - 1, wants)
    BY <1>1, <1>2, <1>4, <2>1 DEF Asks
  <2>3. \A k \in (i - 1 + 1)..(n - 1) : k + 1 \in (i + 1)..n
    BY <1>1, <2>1
  <2>4. \A k \in (i - 1 + 1)..(n - 1) : ~ Leaves(rest, k)
    BY <1>3, <2>1, <2>3
  <2> QED
    BY <1>1, <2>1, <2>2, <2>4 DEF Standing, rest
<1>5. CASE i <= 1
  <2>1. wants \in next
    <3>1. CASE i = 1
      BY <1>1, <1>2, <3>1 DEF Asks
    <3>2. CASE i = 0
      <4>1. wants \in seats
        BY <1>1, <1>2, <3>2 DEF Asks
      <4>2. 1 \in (i + 1)..n
        BY <1>1, <3>2
      <4>3. Head(queue) \notin LeaveGame
        BY <1>1, <1>2, <4>2 DEF Leaves
      <4> QED
        BY <4>1, <4>3
    <3> QED
      BY <1>5, <3>1, <3>2
  <2>2. Asks(rest, next, 0, wants)
    BY <2>1 DEF Asks
  <2>3. \A k \in (0 + 1)..(n - 1) : k + 1 \in (i + 1)..n
    BY <1>1, <1>5
  <2>4. 0 \in 0..(n - 1)
    BY <1>1
  <2>5. \A k \in (0 + 1)..(n - 1) : ~ Leaves(rest, k)
    BY <1>3, <2>3, <2>4
  <2> QED
    BY <1>1, <2>2, <2>4, <2>5 DEF Standing, rest
<1> QED
  BY <1>4, <1>5

(* A message of the queue is handled; next are the seats of the client. *)
LEMMA HandledOnItsWay ==
  ASSUME NEW queue \in Seq(PlayerActionMessage), queue # << >>,
         NEW texts \in Seq(Text), NEW end, NEW seats,
         NEW wants \in GameDifficulty \cup {NULL},
         OnItsWay(queue, texts, end, seats, wants)
  PROVE  /\ Head(queue) \in JoinGame => seats \cap GameDifficulty = {}
         /\ \A next :
              /\ Head(queue) \in JoinGame => next = {Head(queue).gameDifficulty}
              /\ Head(queue) \in LeaveGame => next = {}
              /\ Head(queue) \notin JoinGame \cup LeaveGame => next = seats
              => OnItsWay(Tail(queue), texts, end, next, wants)
<1> DEFINE m == Head(queue)
<1>1. PICK q \in Sent(queue, texts, end) : InTurn(q, seats, wants)
  BY DEF OnItsWay
<1>2. /\ q \in Seq(PlayerActionMessage) /\ q # << >> /\ Head(q) = m
      /\ Tail(q) \in Sent(Tail(queue), texts, end)
  BY SentBegins
<1> HIDE DEF m
<1>3. /\ m \in JoinGame => /\ seats \cap GameDifficulty = {}
                           /\ InTurn(Tail(q), {m.gameDifficulty}, wants)
      /\ m \in LeaveGame => InTurn(Tail(q), {}, wants)
      /\ m \notin JoinGame \cup LeaveGame => InTurn(Tail(q), seats, wants)
  BY <1>1, <1>2, HandledInTurn
<1>4. ASSUME NEW next,
             m \in JoinGame => next = {m.gameDifficulty},
             m \in LeaveGame => next = {},
             m \notin JoinGame \cup LeaveGame => next = seats
      PROVE  OnItsWay(Tail(queue), texts, end, next, wants)
  <2>1. InTurn(Tail(q), next, wants)
    BY <1>3, <1>4
  <2>2. ASSUME end = "OPEN", wants # NULL
        PROVE  Standing(Waiting(Tail(queue), texts), next, wants)
    <3> DEFINE w == Waiting(queue, texts)
    <3>1. Standing(w, seats, wants)
      BY <2>2 DEF OnItsWay
    <3>2. /\ w \in Seq(PlayerActionMessage) /\ w # << >> /\ Head(w) = m
          /\ Tail(w) = Waiting(Tail(queue), texts)
      BY WaitingType DEF m
    <3> HIDE DEF w
    <3>3. m \in JoinGame => wants \notin seats
      BY <1>3, <2>2
    <3>4. Standing(Tail(w), next, wants)
      BY <1>4, <3>1, <3>2, <3>3, HandledStanding
    <3> QED
      BY <3>2, <3>4
  <2> QED
    BY <1>2, <2>1, <2>2 DEF OnItsWay
<1> QED
  BY <1>3, <1>4 DEF m

(* A client that is gone may lose its seats. *)
LEMMA FewerSeatsOnItsWay ==
  ASSUME NEW queue \in Seq(PlayerActionMessage), NEW texts \in Seq(Text),
         NEW end, end # "OPEN", NEW seats, NEW fewer \in SUBSET seats, NEW wants,
         OnItsWay(queue, texts, end, seats, wants)
  PROVE  OnItsWay(queue, texts, end, fewer, wants)
<1>1. PICK q \in Sent(queue, texts, end) : InTurn(q, seats, wants)
  BY DEF OnItsWay
<1>2. q \in Seq(PlayerActionMessage)
  BY DEF Sent
<1> QED
  BY <1>1, <1>2, FewerSeatsInTurn DEF OnItsWay

(* A text that is read. *)
LEMMA HeardOnItsWay ==
  ASSUME NEW queue, NEW text \in Text, NEW end, NEW seats, NEW wants,
         OnItsWay(queue, <<text>>, end, seats, wants)
  PROVE  OnItsWay(Append(queue, text.text), << >>, end, seats, wants)
<1>1. <<text>> # << >> /\ <<text>>[1] = text
  OBVIOUS
<1>2. /\ Waiting(queue, <<text>>) = Append(queue, text.text)
      /\ Waiting(Append(queue, text.text), << >>) = Append(queue, text.text)
  BY <1>1 DEF Waiting
<1>3. PICK q \in Sent(queue, <<text>>, end) : InTurn(q, seats, wants)
  BY DEF OnItsWay
<1>4. q \in Sent(Append(queue, text.text), << >>, end)
  BY <1>1, <1>2, <1>3, SentIsWaiting DEF Sent
<1> QED
  BY <1>2, <1>3, <1>4 DEF OnItsWay

(* A text that is sent. *)
LEMMA SaidOnItsWay ==
  ASSUME NEW queue \in Seq(PlayerActionMessage), NEW m \in PlayerActionMessage,
         NEW seats, NEW wants, NEW next,
         OnItsWay(queue, << >>, "OPEN", seats, wants),
         \/ m \in JoinGame /\ wants = NULL /\ next = m.gameDifficulty
         \/ m \in LeaveGame /\ next = NULL
         \/ m \notin JoinGame \cup LeaveGame /\ next = wants
  PROVE  OnItsWay(queue, <<[text |-> m, piece |-> 1]>>, "OPEN", seats, next)
<1> DEFINE text == [text |-> m, piece |-> 1]
           longer == Append(queue, m)
<1>1. text \in Text /\ text.text = m
  BY DEF Text
<1> HIDE DEF text
<1>2. <<text>> # << >> /\ <<text>>[1] = text /\ <<text>> \in Seq(Text)
  BY <1>1
<1>3. Waiting(queue, << >>) = queue /\ Waiting(queue, <<text>>) = longer
  BY <1>1, <1>2 DEF Waiting
<1>4. longer \in Sent(queue, <<text>>, "OPEN")
  <2>1. longer \in Seq(PlayerActionMessage)
    OBVIOUS
  <2> QED
    BY <1>3, <2>1 DEF Sent
<1>5. InTurn(queue, seats, wants)
  BY <1>3, SentIsWaiting DEF OnItsWay
<1>6. InTurn(longer, seats, next)
  BY <1>5, QueuedInTurn
<1>7. next # NULL => Standing(longer, seats, next)
  <2>1. m \notin JoinGame => (next = wants /\ m \notin LeaveGame) \/ next = NULL
    OBVIOUS
  <2>2. m \in JoinGame => next = m.gameDifficulty \/ next = NULL
    OBVIOUS
  <2>3. wants # NULL => Standing(queue, seats, wants)
    BY <1>3 DEF OnItsWay
  <2> QED
    BY <2>1, <2>2, <2>3, QueuedStanding
<1>8. OnItsWay(queue, <<text>>, "OPEN", seats, next)
  BY <1>3, <1>4, <1>6, <1>7 DEF OnItsWay
<1> QED
  BY <1>8 DEF text

(* A client that connects, and one that goes. *)
LEMMA EndOnItsWay ==
  ASSUME NEW queue, NEW texts, NEW seats, NEW wants, NEW end, NEW next,
         OnItsWay(queue, texts, end, seats, wants), end # "RESET",
         next = "OPEN" => wants = NULL
  PROVE  OnItsWay(queue, texts, next, seats, wants)
  BY DEF OnItsWay, Sent

(* A text that is lost. *)
LEMMA LostOnItsWay ==
  ASSUME NEW queue, NEW texts \in Seq(Text), NEW seats, NEW wants,
         OnItsWay(queue, texts, "RESET", seats, wants)
  PROVE  OnItsWay(queue, << >>, "RESET", seats, wants)
<1>1. texts # << >> => texts[1].text \in PlayerActionMessage
  <2>1. texts # << >> => texts[1] \in Text
    OBVIOUS
  <2> QED
    BY <2>1 DEF Text
<1>2. Sent(queue, texts, "RESET") \subseteq Sent(queue, << >>, "RESET")
  BY <1>1 DEF Sent, Waiting
<1> QED
  BY <1>2 DEF OnItsWay

-----------------------------------------------------------------------------
(* The invariant: clients and what they ask for *)

(* A client is there until the server has heard the contrary; one that has *)
(* not connected yet has asked for nothing.                                *)
EndsFit(texts, end, c) ==
  /\ Len(texts) <= 1
  /\ c.link \in {"FAILED", "CLOSED"} => end \notin {"NONE", "OPEN"}
  /\ end = "NONE" => c.link = "AWAY" /\ c.wants = NULL

ConnectionsFit ==
  /\ stream \in [PlayerId -> Seq(Text)]
  /\ peer \in [PlayerId -> Net!Peer]
  /\ \A id \in PlayerId : EndsFit(stream[id], peer[id], client[id])
  /\ \A i \in DOMAIN connectivity :
       connectivity[i].messageType = "DISCONNECT" =>
         client[connectivity[i].id].link \in {"FAILED", "CLOSED"}

ClientsOnTheirWay ==
  \A id \in PlayerId :
    OnItsWay(actions[id], stream[id], peer[id], Difficulties(game, id),
             client[id].wants)

(* What is added to Fits: who is seated where, and what is on its way. *)
Asked ==
  /\ SeatedOnce(game)
  /\ Inhabited(game)
  /\ NobodyAbsent(game)
  /\ ConnectionsFit
  /\ ClientsOnTheirWay

LEMMA TypesOfQueues ==
  ASSUME Fits, ConnectionsFit
  PROVE  /\ GameHolds(game)
         /\ connectivity \in Seq(ConnectivityMessage)
         /\ actions \in [PlayerId -> Seq(PlayerActionMessage)]
         /\ client \in [PlayerId -> Client]
         /\ stream \in [PlayerId -> Seq(Text)]
         /\ peer \in [PlayerId -> Net!Peer]
         /\ \A id \in PlayerId :
              /\ EndsFit(stream[id], peer[id], client[id])
              /\ client[id].wants \in GameDifficulty \cup {NULL}
  BY DEF Fits, TypeOK, ConnectionsFit, Client

Untouched(id) == UNCHANGED <<actions[id], stream[id], peer[id], client[id]>>

(* A step of the client of one id, or of its connection. *)
LEMMA OneClientMoves ==
  ASSUME Fits, Asked, game' = Idle(game), NEW id \in PlayerId,
         \A y \in PlayerId \ {id} : Untouched(y),
         stream' \in [PlayerId -> Seq(Text)],
         peer' \in [PlayerId -> Net!Peer],
         EndsFit(stream'[id], peer'[id], client'[id]),
         client[id].link \in {"FAILED", "CLOSED"} =>
           client'[id].link \in {"FAILED", "CLOSED"},
         \/ connectivity' = connectivity
         \/ \E type \in {"CONNECT", "DISCONNECT"} :
              /\ connectivity' =
                   Append(connectivity, [messageType |-> type, id |-> id])
              /\ type = "DISCONNECT" =>
                   client'[id].link \in {"FAILED", "CLOSED"},
         OnItsWay(actions'[id], stream'[id], peer'[id], Difficulties(game, id),
                  client'[id].wants)
  PROVE  Asked'
<1>1. /\ GameHolds(game) /\ SeatedOnce(game) /\ Inhabited(game)
      /\ ConnectionsFit /\ ClientsOnTheirWay
      /\ connectivity \in Seq(ConnectivityMessage)
  BY TypesOfQueues DEF Asked
<1>2. SameCompany(game', game) /\ NobodyAbsent(game')
  BY IdleStep
<1>3. /\ SeatedOnce(game') /\ Inhabited(game')
      /\ \A y \in PlayerId : Difficulties(game', y) = Difficulties(game, y)
  BY <1>1, <1>2, SameCompanySeats
<1>4. \A y \in PlayerId : y # id =>
        /\ actions'[y] = actions[y] /\ stream'[y] = stream[y]
        /\ peer'[y] = peer[y] /\ client'[y] = client[y]
  BY DEF Untouched
<1>5. ASSUME NEW y \in PlayerId
      PROVE  OnItsWay(actions'[y], stream'[y], peer'[y], Difficulties(game', y),
                      client'[y].wants)
  BY <1>1, <1>3, <1>4 DEF ClientsOnTheirWay
<1>6. ASSUME NEW y \in PlayerId PROVE EndsFit(stream'[y], peer'[y], client'[y])
  BY <1>1, <1>4 DEF ConnectionsFit
<1>7. ASSUME NEW i \in DOMAIN connectivity',
             connectivity'[i].messageType = "DISCONNECT"
      PROVE  client'[connectivity'[i].id].link \in {"FAILED", "CLOSED"}
  <2>1. CASE i \in DOMAIN connectivity /\ connectivity'[i] = connectivity[i]
    <3>1. connectivity[i] \in ConnectivityMessage
      BY <1>1, <2>1
    <3>2. connectivity[i].id \in PlayerId
      BY <3>1 DEF ConnectivityMessage
    <3>3. client[connectivity[i].id].link \in {"FAILED", "CLOSED"}
      BY <1>1, <1>7, <2>1 DEF ConnectionsFit
    <3> QED
      BY <1>4, <2>1, <3>2, <3>3
  <2>2. CASE connectivity' = connectivity
    BY <1>7, <2>1, <2>2
  <2>3. ASSUME NEW type \in {"CONNECT", "DISCONNECT"},
               connectivity' =
                 Append(connectivity, [messageType |-> type, id |-> id]),
               type = "DISCONNECT" => client'[id].link \in {"FAILED", "CLOSED"}
        PROVE  client'[connectivity'[i].id].link \in {"FAILED", "CLOSED"}
    <3>1. \/ i \in DOMAIN connectivity /\ connectivity'[i] = connectivity[i]
          \/ connectivity'[i] = [messageType |-> type, id |-> id]
      BY <1>1, <1>7, <2>3
    <3> QED
      BY <1>7, <2>1, <2>3, <3>1
  <2> QED
    BY <2>2, <2>3
<1> QED
  BY <1>2, <1>3, <1>5, <1>6, <1>7
  DEF Asked, ConnectionsFit, ClientsOnTheirWay

(* A step that touches no client. *)
LEMMA NoClientMoves ==
  ASSUME Fits, Asked, game' = Idle(game),
         UNCHANGED <<connectivity, actions, stream, peer, client>>
  PROVE  Asked'
<1>1. /\ GameHolds(game) /\ SeatedOnce(game) /\ Inhabited(game)
      /\ ConnectionsFit /\ ClientsOnTheirWay
  BY TypesOfQueues DEF Asked
<1>2. SameCompany(game', game) /\ NobodyAbsent(game')
  BY IdleStep
<1>3. /\ SeatedOnce(game') /\ Inhabited(game')
      /\ \A y \in PlayerId : Difficulties(game', y) = Difficulties(game, y)
  BY <1>1, <1>2, SameCompanySeats
<1>4. ClientsOnTheirWay'
  BY <1>1, <1>3 DEF ClientsOnTheirWay
<1>5. ConnectionsFit'
  BY <1>1 DEF ConnectionsFit
<1> QED
  BY <1>2, <1>3, <1>4, <1>5 DEF Asked

-----------------------------------------------------------------------------
(* The threads and the clients take steps that the game thread expects *)

LEMMA ArrivedText ==
  ASSUME ConnectionsFit, NEW id \in PlayerId, stream[id] # << >>
  PROVE  /\ stream[id] = <<Head(stream[id])>>
         /\ Head(stream[id]) \in Text
         /\ Head(stream[id]).text \in PlayerActionMessage
<1>1. stream[id] \in Seq(Text) /\ Len(stream[id]) <= 1
  BY DEF ConnectionsFit, EndsFit
<1>2. stream[id] = <<Head(stream[id])>> /\ Head(stream[id]) \in Text
  BY <1>1
<1> QED
  BY <1>2 DEF Text

LEMMA NetworkOutside ==
  ASSUME Fits, ConnectionsFit, NetworkStep
  PROVE  Outside
<1>1. TypeOK
  BY DEF Fits
<1>2. ASSUME NEW id \in PlayerId, Accepts(id) \/ Loses(id) PROVE Outside
  BY <1>1, <1>2, ConnectivityOutside DEF Accepts, Loses
<1>3. ASSUME NEW id \in PlayerId, Hears(id) PROVE Outside
  <2> DEFINE m == Head(stream[id]).text
  <2>1. m \in PlayerActionMessage
    BY <1>3, ArrivedText DEF Hears
  <2>2. /\ PublishAction(id, m) /\ joins' \in 0..MaxJoins /\ client' = client
        /\ NULL \in GameDifficulty \cup {NULL}
    BY <1>1, <1>3 DEF Hears, TypeOK
  <2> HIDE DEF m
  <2> QED
    BY <1>1, <2>1, <2>2, ActionOutside
<1>4. CASE GoesOn
  <2>1. /\ game' = Idle(game)
        /\ UNCHANGED <<loop, connectivity, actions, client, joins>>
    BY <1>4
    DEF GoesOn, GameRests, Net!NoNewConnection, Net!NextClient,
        Net!ReceiveNothing, Net!DispatchOne, Net!Dispatched, Net!hub
  <2> QED
    BY <1>1, <2>1 DEF Outside, TypeOK
<1> QED
  BY <1>2, <1>3, <1>4 DEF NetworkStep

LEMMA ClientOutside ==
  ASSUME Fits, ClientStep
  PROVE  Outside
<1>1. TypeOK /\ client \in [PlayerId -> Client] /\ joins \in 0..MaxJoins
  BY DEF Fits, TypeOK
<1>2. \A id \in PlayerId : \A m :
        Says(id, m) => /\ game' = Idle(game)
                       /\ UNCHANGED <<loop, connectivity, actions>>
  BY DEF Says, GameRests, Net!Say, Net!hub
<1>3. ASSUME NEW id \in PlayerId, NEW difficulty \in Difficulty,
             AsksToJoin(id, difficulty)
      PROVE  Outside
  <2>1. difficulty \in GameDifficulty
    BY ClientsAssumption
  <2>2. joins' \in 0..MaxJoins
    BY <1>1, <1>3, ClientsAssumption DEF AsksToJoin
  <2>3. /\ client' \in [PlayerId -> Client]
        /\ \A y \in PlayerId : client'[y].link = client[y].link
    BY <1>1, <1>3, <2>1 DEF AsksToJoin, Client
  <2> QED
    BY <1>1, <1>2, <1>3, <2>2, <2>3 DEF AsksToJoin, Outside, TypeOK
<1>4. ASSUME NEW id \in PlayerId, AsksToLeave(id) PROVE Outside
  <2>1. /\ client' \in [PlayerId -> Client]
        /\ \A y \in PlayerId : client'[y].link = client[y].link
    BY <1>1, <1>4 DEF AsksToLeave, Client
  <2> QED
    BY <1>1, <1>2, <1>4, <2>1 DEF AsksToLeave, Outside, TypeOK
<1>5. ASSUME NEW id \in PlayerId, NEW m \in ClientAction, Acts(id, m)
      PROVE  Outside
  BY <1>1, <1>2, <1>5 DEF Acts, Outside, TypeOK
<1>6. ASSUME NEW id \in PlayerId, GameRests, UNCHANGED <<client, joins>>,
             Net!Dial(id) \/ Net!HangUp(id)
      PROVE  Outside
  BY <1>1, <1>6 DEF GameRests, Net!Dial, Net!HangUp, Net!hub, Outside, TypeOK
<1> QED
  BY <1>3, <1>4, <1>5, <1>6 DEF ClientStep

LEMMA ServerMoves ==
  ASSUME Fits, ConnectionsFit, ServerNext
  PROVE  Moves
  BY NetworkOutside, ClientOutside DEF ServerNext, GameStep, Moves

(* What holds of one client, and what follows where only it moves. *)
LEMMA AskedOf ==
  ASSUME Fits, Asked, NEW id \in PlayerId
  PROVE  /\ actions \in [PlayerId -> Seq(PlayerActionMessage)]
         /\ client \in [PlayerId -> Client]
         /\ stream \in [PlayerId -> Seq(Text)]
         /\ peer \in [PlayerId -> Net!Peer]
         /\ ConnectionsFit
         /\ EndsFit(stream[id], peer[id], client[id])
         /\ OnItsWay(actions[id], stream[id], peer[id], Difficulties(game, id),
                     client[id].wants)
  BY TypesOfQueues DEF Asked, ClientsOnTheirWay

LEMMA AcceptsAsked ==
  ASSUME Fits, Asked, NEW id \in PlayerId, Accepts(id)
  PROVE  Asked'
<1>1. /\ client \in [PlayerId -> Client]
      /\ stream \in [PlayerId -> Seq(Text)]
      /\ peer \in [PlayerId -> Net!Peer]
      /\ EndsFit(stream[id], peer[id], client[id])
      /\ OnItsWay(actions[id], stream[id], peer[id], Difficulties(game, id),
                  client[id].wants)
  BY AskedOf
<1>2. /\ game' = Idle(game) /\ UNCHANGED <<actions, stream, peer>>
      /\ client' = [client EXCEPT ![id].link = "CONNECTED"]
      /\ connectivity' =
           Append(connectivity, [messageType |-> "CONNECT", id |-> id])
      /\ peer[id] # "NONE"
      /\ client[id].link = "AWAY"
  BY DEF Accepts, Connect, PublishConnectivity, Net!HandleNewClientConnection,
         Net!Pending, Net!sockets
<1>3. /\ \A y \in PlayerId \ {id} : client'[y] = client[y]
      /\ client'[id].link = "CONNECTED"
      /\ client'[id].wants = client[id].wants
  BY <1>1, <1>2 DEF Client
<1>4. \A y \in PlayerId \ {id} : Untouched(y)
  BY <1>2, <1>3 DEF Untouched
<1>5. EndsFit(stream'[id], peer'[id], client'[id])
  BY <1>1, <1>2, <1>3 DEF EndsFit
<1>6. OnItsWay(actions'[id], stream'[id], peer'[id], Difficulties(game, id),
               client'[id].wants)
  BY <1>1, <1>2, <1>3
<1> QED
  BY <1>1, <1>2, <1>4, <1>5, <1>6, OneClientMoves

LEMMA HearsAsked ==
  ASSUME Fits, Asked, NEW id \in PlayerId, Hears(id)
  PROVE  Asked'
<1> DEFINE text == Head(stream[id])
<1>1. /\ actions \in [PlayerId -> Seq(PlayerActionMessage)]
      /\ client \in [PlayerId -> Client]
      /\ stream \in [PlayerId -> Seq(Text)]
      /\ peer \in [PlayerId -> Net!Peer]
      /\ ConnectionsFit
      /\ EndsFit(stream[id], peer[id], client[id])
      /\ OnItsWay(actions[id], stream[id], peer[id], Difficulties(game, id),
                  client[id].wants)
  BY AskedOf
<1>2. stream[id] = <<text>> /\ text \in Text /\ text.text \in PlayerActionMessage
  BY <1>1, ArrivedText DEF Hears
<1>3. /\ game' = Idle(game) /\ UNCHANGED <<connectivity, client, peer>>
      /\ actions' = [actions EXCEPT ![id] = Append(@, text.text)]
      /\ stream' = [stream EXCEPT ![id] = SubSeq(@, 1 + 1, Len(@))]
  BY DEF Hears, PublishAction, Net!Receive
<1> HIDE DEF text
<1>4. SubSeq(stream[id], 1 + 1, Len(stream[id])) = << >>
  BY <1>2
<1>5. /\ stream'[id] = << >>
      /\ stream' \in [PlayerId -> Seq(Text)]
      /\ \A y \in PlayerId \ {id} : stream'[y] = stream[y]
  BY <1>1, <1>3, <1>4
<1>6. /\ actions'[id] = Append(actions[id], text.text)
      /\ \A y \in PlayerId \ {id} : actions'[y] = actions[y]
  BY <1>1, <1>3
<1>7. \A y \in PlayerId \ {id} : Untouched(y)
  BY <1>3, <1>5, <1>6 DEF Untouched
<1>8. EndsFit(stream'[id], peer'[id], client'[id])
  BY <1>1, <1>3, <1>5 DEF EndsFit
<1>9. OnItsWay(actions'[id], stream'[id], peer'[id], Difficulties(game, id),
               client'[id].wants)
  <2>1. OnItsWay(actions[id], <<text>>, peer[id], Difficulties(game, id),
                 client[id].wants)
    BY <1>1, <1>2
  <2>2. OnItsWay(Append(actions[id], text.text), << >>, peer[id],
                 Difficulties(game, id), client[id].wants)
    BY ONLY <1>2, <2>1, HeardOnItsWay
  <2> QED
    BY <1>3, <1>5, <1>6, <2>2
<1>10. peer' \in [PlayerId -> Net!Peer] /\ client'[id] = client[id]
  BY <1>1, <1>3
<1> QED
  BY <1>3, <1>5, <1>7, <1>8, <1>9, <1>10, OneClientMoves

LEMMA LosesAsked ==
  ASSUME Fits, Asked, NEW id \in PlayerId, Loses(id)
  PROVE  Asked'
<1>1. /\ client \in [PlayerId -> Client]
      /\ stream \in [PlayerId -> Seq(Text)]
      /\ peer \in [PlayerId -> Net!Peer]
      /\ EndsFit(stream[id], peer[id], client[id])
      /\ OnItsWay(actions[id], stream[id], peer[id], Difficulties(game, id),
                  client[id].wants)
  BY AskedOf
<1>2. /\ game' = Idle(game) /\ UNCHANGED <<actions, peer>>
      /\ connectivity' =
           Append(connectivity, [messageType |-> "DISCONNECT", id |-> id])
  BY DEF Loses, Close, Fail, PublishConnectivity, Net!ReceiveEnd,
         Net!ReceiveError, Net!sockets
<1>3. \/ /\ client' = [client EXCEPT ![id].link = "CLOSED"]
         /\ UNCHANGED stream
         /\ peer[id] \in {"CLOSED", "BROKEN"} \/ client[id].link = "FAILED"
      \/ /\ client' = [client EXCEPT ![id].link = "FAILED"]
         /\ stream' = [stream EXCEPT ![id] = << >>]
         /\ peer[id] = "RESET"
  BY DEF Loses, Close, Fail, PublishConnectivity, Net!ReceiveEnd,
         Net!ReceiveError, Net!sockets
<1>4. /\ \A y \in PlayerId \ {id} : client'[y] = client[y]
      /\ client'[id].link \in {"FAILED", "CLOSED"}
      /\ client'[id].wants = client[id].wants
  BY <1>1, <1>3 DEF Client
<1>5. /\ stream' \in [PlayerId -> Seq(Text)]
      /\ \A y \in PlayerId \ {id} : stream'[y] = stream[y]
      /\ \/ stream'[id] = stream[id]
         \/ stream'[id] = << >> /\ peer[id] = "RESET"
  <2>1. << >> \in Seq(Text)
    OBVIOUS
  <2> QED
    BY <1>1, <1>3, <2>1
<1>6. \A y \in PlayerId \ {id} : Untouched(y)
  BY <1>2, <1>4, <1>5 DEF Untouched
<1>7. peer[id] \notin {"NONE", "OPEN"}
  BY <1>1, <1>3 DEF EndsFit
<1>8. EndsFit(stream'[id], peer'[id], client'[id])
  <2>1. Len(<< >>) <= 1
    OBVIOUS
  <2> QED
    BY <1>1, <1>2, <1>4, <1>5, <1>7, <2>1 DEF EndsFit
<1>9. OnItsWay(actions'[id], stream'[id], peer'[id], Difficulties(game, id),
               client'[id].wants)
  <2>1. stream[id] \in Seq(Text)
    BY <1>1
  <2> QED
    BY <1>1, <1>2, <1>4, <1>5, <2>1, LostOnItsWay
<1>10. peer' \in [PlayerId -> Net!Peer]
  BY <1>1, <1>2
<1> QED
  BY <1>2, <1>4, <1>5, <1>6, <1>8, <1>9, <1>10, OneClientMoves

(* A step that only changes what is left of a connection. *)
LEMMA PeerMoves ==
  ASSUME Fits, Asked, game' = Idle(game), NEW id \in PlayerId,
         NEW end \in Net!Peer \ {"NONE"}, peer' = [peer EXCEPT ![id] = end],
         UNCHANGED <<connectivity, actions, stream, client>>,
         peer[id] # "RESET",
         end = "OPEN" => peer[id] = "NONE"
  PROVE  Asked'
<1>1. /\ client \in [PlayerId -> Client]
      /\ stream \in [PlayerId -> Seq(Text)]
      /\ peer \in [PlayerId -> Net!Peer]
      /\ EndsFit(stream[id], peer[id], client[id])
      /\ OnItsWay(actions[id], stream[id], peer[id], Difficulties(game, id),
                  client[id].wants)
  BY AskedOf
<1>2. /\ peer' \in [PlayerId -> Net!Peer] /\ peer'[id] = end
      /\ \A y \in PlayerId \ {id} : peer'[y] = peer[y]
  BY <1>1
<1>3. \A y \in PlayerId \ {id} : Untouched(y)
  BY <1>2 DEF Untouched
<1>4. EndsFit(stream'[id], peer'[id], client'[id])
  BY <1>1, <1>2 DEF EndsFit
<1>5. OnItsWay(actions[id], stream[id], end, Difficulties(game, id),
               client[id].wants)
  <2>1. end = "OPEN" => client[id].wants = NULL
    BY <1>1 DEF EndsFit
  <2> QED
    BY <1>1, <2>1, EndOnItsWay
<1>6. OnItsWay(actions'[id], stream'[id], peer'[id], Difficulties(game, id),
               client'[id].wants)
  BY <1>2, <1>5
<1>7. /\ stream' \in [PlayerId -> Seq(Text)] /\ client'[id] = client[id]
      /\ connectivity' = connectivity
  BY <1>1
<1> QED
  BY <1>2, <1>3, <1>4, <1>6, <1>7, OneClientMoves

LEMMA GoesOnAsked ==
  ASSUME Fits, Asked, GoesOn
  PROVE  Asked'
<1>1. game' = Idle(game) /\ UNCHANGED client
  BY DEF GoesOn, GameRests
<1>2. CASE \/ Net!NoNewConnection
           \/ Net!NextClient
           \/ \E id \in PlayerId : Net!ReceiveNothing(id) \/ Net!Dispatched(id)
  <2>1. UNCHANGED <<connectivity, actions, stream, peer>>
    BY <1>2
    DEF Net!NoNewConnection, Net!NextClient, Net!ReceiveNothing,
        Net!Dispatched, Net!hub, Net!sockets
  <2> QED
    BY <1>1, <2>1, NoClientMoves
<1>3. ASSUME NEW id \in PlayerId, Net!DispatchOne(id) PROVE Asked'
  <2>1. UNCHANGED <<connectivity, actions, stream>>
    BY <1>3 DEF Net!DispatchOne
  <2>2. \/ peer' = peer
        \/ peer[id] = "CLOSED" /\ peer' = [peer EXCEPT ![id] = "BROKEN"]
    BY <1>3 DEF Net!DispatchOne, Net!Send
  <2>3. "BROKEN" \in Net!Peer \ {"NONE"}
    BY DEF Net!Peer
  <2>4. CASE peer' = peer
    BY <1>1, <2>1, <2>4, NoClientMoves
  <2>5. CASE peer[id] = "CLOSED" /\ peer' = [peer EXCEPT ![id] = "BROKEN"]
    BY <1>1, <2>1, <2>3, <2>5, PeerMoves
  <2> QED
    BY <2>2, <2>4, <2>5
<1> QED
  BY <1>2, <1>3 DEF GoesOn

LEMMA NetworkAsked ==
  ASSUME Fits, Asked, NetworkStep
  PROVE  Asked'
  BY AcceptsAsked, HearsAsked, LosesAsked, GoesOnAsked DEF NetworkStep

LEMMA SaysAsked ==
  ASSUME Fits, Asked, NEW id \in PlayerId, NEW m \in PlayerActionMessage,
         Says(id, m), NEW next,
         client' = [client EXCEPT ![id].wants = next],
         \/ m \in JoinGame /\ client[id].wants = NULL /\ next = m.gameDifficulty
         \/ m \in LeaveGame /\ next = NULL
         \/ m \notin JoinGame \cup LeaveGame /\ next = client[id].wants
  PROVE  Asked'
<1> DEFINE text == [text |-> m, piece |-> 1]
<1>1. /\ actions \in [PlayerId -> Seq(PlayerActionMessage)]
      /\ client \in [PlayerId -> Client]
      /\ stream \in [PlayerId -> Seq(Text)]
      /\ peer \in [PlayerId -> Net!Peer]
      /\ EndsFit(stream[id], peer[id], client[id])
      /\ OnItsWay(actions[id], stream[id], peer[id], Difficulties(game, id),
                  client[id].wants)
  BY AskedOf
<1>2. /\ game' = Idle(game) /\ UNCHANGED <<connectivity, actions, peer>>
      /\ stream[id] = << >> /\ peer[id] = "OPEN"
      /\ stream' = [stream EXCEPT ![id] =
                      @ \o [piece \in 1..1 |-> [text |-> m, piece |-> piece]]]
  BY DEF Says, GameRests, Net!Say, Net!hub
<1>3. << >> \o [piece \in 1..1 |-> [text |-> m, piece |-> piece]] = <<text>>
  OBVIOUS
<1>4. text \in Text
  BY DEF Text
<1> HIDE DEF text
<1>5. /\ stream'[id] = <<text>>
      /\ stream' \in [PlayerId -> Seq(Text)]
      /\ \A y \in PlayerId \ {id} : stream'[y] = stream[y]
  BY <1>1, <1>2, <1>3, <1>4
<1>6. /\ \A y \in PlayerId \ {id} : client'[y] = client[y]
      /\ client'[id].link = client[id].link
      /\ client'[id].wants = next
  BY <1>1 DEF Client
<1>7. \A y \in PlayerId \ {id} : Untouched(y)
  BY <1>2, <1>5, <1>6 DEF Untouched
<1>8. EndsFit(stream'[id], peer'[id], client'[id])
  <2>1. Len(<<text>>) <= 1
    OBVIOUS
  <2> QED
    BY <1>1, <1>2, <1>5, <1>6, <2>1 DEF EndsFit
<1>9. OnItsWay(actions'[id], stream'[id], peer'[id], Difficulties(game, id),
               client'[id].wants)
  <2> DEFINE queue == actions[id]
             seats == Difficulties(game, id)
             wants == client[id].wants
  <2>1. queue \in Seq(PlayerActionMessage)
    BY <1>1
  <2>2. OnItsWay(queue, << >>, "OPEN", seats, wants)
    BY <1>1, <1>2
  <2>3. \/ m \in JoinGame /\ wants = NULL /\ next = m.gameDifficulty
        \/ m \in LeaveGame /\ next = NULL
        \/ m \notin JoinGame \cup LeaveGame /\ next = wants
    OBVIOUS
  <2> HIDE DEF queue, seats, wants
  <2>4. OnItsWay(queue, <<[text |-> m, piece |-> 1]>>, "OPEN", seats, next)
    BY <2>1, <2>2, <2>3, SaidOnItsWay
  <2> QED
    BY <1>2, <1>5, <1>6, <2>4 DEF queue, seats, text
<1>10. peer' \in [PlayerId -> Net!Peer]
  BY <1>1, <1>2
<1> QED
  BY <1>2, <1>5, <1>6, <1>7, <1>8, <1>9, <1>10, OneClientMoves

LEMMA ClientAsked ==
  ASSUME Fits, Asked, ClientStep
  PROVE  Asked'
<1>1. client \in [PlayerId -> Client]
  BY DEF Fits, TypeOK
<1>2. ASSUME NEW id \in PlayerId, NEW difficulty \in Difficulty,
             AsksToJoin(id, difficulty)
      PROVE  Asked'
  <2> DEFINE m == [messageType |-> "JOIN_GAME", gameDifficulty |-> difficulty]
  <2>1. m \in JoinGame /\ m \in PlayerActionMessage /\ m.gameDifficulty = difficulty
    BY ClientsAssumption DEF PlayerActionMessage, JoinGame
  <2>2. /\ Says(id, m) /\ client[id].wants = NULL
        /\ client' = [client EXCEPT ![id].wants = difficulty]
    BY <1>2 DEF AsksToJoin
  <2> HIDE DEF m
  <2> QED
    BY <2>1, <2>2, SaysAsked
<1>3. ASSUME NEW id \in PlayerId, AsksToLeave(id) PROVE Asked'
  <2> DEFINE m == [messageType |-> "LEAVE_GAME"]
  <2>1. m \in LeaveGame /\ m \in PlayerActionMessage
    BY DEF PlayerActionMessage, RoomActionMessage, LeaveGame
  <2>2. Says(id, m) /\ client' = [client EXCEPT ![id].wants = NULL]
    BY <1>3 DEF AsksToLeave
  <2> HIDE DEF m
  <2> QED
    BY <2>1, <2>2, SaysAsked
<1>4. ASSUME NEW id \in PlayerId, NEW m \in ClientAction, Acts(id, m)
      PROVE  Asked'
  <2>1. m \in PlayerActionMessage /\ m \notin JoinGame \cup LeaveGame
    BY ClientsAssumption
    DEF PlayerActionMessage, RoomActionMessage, JoinGame, SetReadyState,
        NotifyCanPlay, PlayerInput, SetReplayReadyState, LeaveGame
  <2>2. Says(id, m) /\ client' = client
    BY <1>4 DEF Acts
  <2>3. client' = [client EXCEPT ![id].wants = client[id].wants]
    BY <1>1, <2>2 DEF Client
  <2> QED
    BY <2>1, <2>2, <2>3, SaysAsked
<1>5. ASSUME NEW id \in PlayerId, GameRests, UNCHANGED client,
             Net!Dial(id) \/ Net!HangUp(id)
      PROVE  Asked'
  <2>1. /\ game' = Idle(game)
        /\ UNCHANGED <<connectivity, actions, stream, client>>
    BY <1>5 DEF GameRests, Net!Dial, Net!HangUp, Net!hub
  <2>2. PICK end \in Net!Peer \ {"NONE"} :
          /\ peer' = [peer EXCEPT ![id] = end]
          /\ peer[id] # "RESET"
          /\ end = "OPEN" => peer[id] = "NONE"
    BY <1>5 DEF Net!Dial, Net!HangUp, Net!Peer
  <2> QED
    BY <2>1, <2>2, PeerMoves
<1> QED
  BY <1>2, <1>3, <1>4, <1>5 DEF ClientStep

(* What the game thread does is seen in no connection. *)
LEMMA GameMoves ==
  ASSUME Fits, Asked, NEW id \in PlayerId, UNCHANGED <<stream, peer, client>>,
         SeatedOnce(game'), Inhabited(game'), NobodyAbsent(game'),
         \/ connectivity' = connectivity
         \/ connectivity # << >> /\ connectivity' = Tail(connectivity),
         \A y \in PlayerId \ {id} :
           /\ actions'[y] = actions[y]
           /\ Difficulties(game', y) = Difficulties(game, y),
         OnItsWay(actions'[id], stream[id], peer[id], Difficulties(game', id),
                  client[id].wants)
  PROVE  Asked'
<1>1. /\ ConnectionsFit /\ ClientsOnTheirWay
      /\ connectivity \in Seq(ConnectivityMessage)
  BY TypesOfQueues DEF Asked
<1>2. \A i \in DOMAIN connectivity' :
        \E j \in DOMAIN connectivity : connectivity'[i] = connectivity[j]
  <2>1. CASE connectivity # << >> /\ connectivity' = Tail(connectivity)
    <3>1. \A i \in DOMAIN connectivity' :
            /\ i + 1 \in DOMAIN connectivity
            /\ connectivity'[i] = connectivity[i + 1]
      BY <1>1, <2>1
    <3> QED
      BY <3>1
  <2> QED
    BY <2>1
<1>3. ConnectionsFit'
  BY <1>1, <1>2 DEF ConnectionsFit
<1>4. ASSUME NEW y \in PlayerId
      PROVE  OnItsWay(actions'[y], stream[y], peer[y], Difficulties(game', y),
                      client[y].wants)
  BY <1>1 DEF ClientsOnTheirWay
<1>5. ClientsOnTheirWay'
  BY <1>4 DEF ClientsOnTheirWay
<1> QED
  BY <1>3, <1>5 DEF Asked

LEMMA RestAsked ==
  ASSUME Fits, Asked, SameCompany(game', game), NobodyAbsent(game'),
         UNCHANGED <<connectivity, actions, stream, peer, client>>
  PROVE  Asked'
<1>1. /\ GameHolds(game) /\ SeatedOnce(game) /\ Inhabited(game)
      /\ ConnectionsFit /\ ClientsOnTheirWay
  BY TypesOfQueues DEF Asked
<1>2. /\ SeatedOnce(game') /\ Inhabited(game')
      /\ \A y \in PlayerId : Difficulties(game', y) = Difficulties(game, y)
  BY <1>1, SameCompanySeats
<1>3. ClientsOnTheirWay'
  BY <1>1, <1>2 DEF ClientsOnTheirWay
<1>4. ConnectionsFit'
  BY <1>1 DEF ConnectionsFit
<1> QED
  BY <1>2, <1>3, <1>4 DEF Asked

LEMMA ConnectivityAsked ==
  ASSUME Fits, Asked, DispatchConnectivity, UNCHANGED <<stream, peer>>
  PROVE  Asked'
<1> DEFINE id == Head(connectivity).id
<1>1. /\ GameHolds(game) /\ SeatedOnce(game) /\ Inhabited(game)
      /\ NobodyAbsent(game) /\ ConnectionsFit
      /\ connectivity \in Seq(ConnectivityMessage)
  BY TypesOfQueues DEF Asked
<1>2. /\ UNCHANGED <<actions, client>>
      /\ connectivity # << >> /\ connectivity' = Tail(connectivity)
  BY DEF DispatchConnectivity
<1>3. CASE Head(connectivity).messageType = "CONNECT"
  <2>1. /\ id \in PlayerId
        /\ game'.room = game.room /\ game'.published = << >>
    BY <1>3, ConnectStep
  <2>2. /\ \A x, y : SeatsIn(game', x, y) = SeatsIn(game, x, y)
        /\ \A x : Alive(game', x) <=> Alive(game, x)
        /\ \A y : Difficulties(game', y) = Difficulties(game, y)
    BY <2>1 DEF SeatsIn, Alive, Difficulties, RoomsOf
  <2>3. SeatedOnce(game') /\ Inhabited(game') /\ NobodyAbsent(game')
    BY <1>1, <2>1, <2>2 DEF SeatedOnce, Inhabited, NobodyAbsent
  <2>4. OnItsWay(actions'[id], stream[id], peer[id], Difficulties(game', id),
                 client[id].wants)
    BY <1>2, <2>1, <2>2, AskedOf
  <2>5. \A y \in PlayerId \ {id} :
          /\ actions'[y] = actions[y]
          /\ Difficulties(game', y) = Difficulties(game, y)
    BY <1>2, <2>2
  <2> HIDE DEF id
  <2> QED
    BY <1>2, <2>1, <2>3, <2>4, <2>5, GameMoves
<1>4. CASE Head(connectivity).messageType # "CONNECT"
  <2>1. /\ id \in PlayerId /\ Without(game', game, id)
        /\ NobodyAbsent(game') /\ Inhabited(game')
    BY <1>1, <1>4, DisconnectStep
  <2>2. /\ SeatedOnce(game')
        /\ Difficulties(game', id) \subseteq Difficulties(game, id)
        /\ \A y \in PlayerId \ {id} : Difficulties(game', y) = Difficulties(game, y)
    BY <1>1, <2>1, WithoutSeats
  <2>3. /\ actions[id] \in Seq(PlayerActionMessage)
        /\ stream[id] \in Seq(Text)
        /\ EndsFit(stream[id], peer[id], client[id])
        /\ OnItsWay(actions[id], stream[id], peer[id], Difficulties(game, id),
                    client[id].wants)
    BY <2>1, AskedOf
  <2>4. peer[id] # "OPEN"
    <3>1. /\ connectivity[1] \in ConnectivityMessage
          /\ connectivity[1] = Head(connectivity)
          /\ 1 \in DOMAIN connectivity
      BY <1>1, <1>2
    <3>2. connectivity[1].messageType = "DISCONNECT"
      BY <1>4, <3>1 DEF ConnectivityMessage
    <3>3. client[id].link \in {"FAILED", "CLOSED"}
      BY <1>1, <3>1, <3>2 DEF ConnectionsFit
    <3> QED
      BY <2>3, <3>3 DEF EndsFit
  <2> HIDE DEF id
  <2>5. OnItsWay(actions[id], stream[id], peer[id], Difficulties(game', id),
                 client[id].wants)
    BY <2>2, <2>3, <2>4, FewerSeatsOnItsWay
  <2> QED
    BY <1>2, <2>1, <2>2, <2>5, GameMoves
<1> QED
  BY <1>3, <1>4

LEMMA ActionAsked ==
  ASSUME Fits, Asked, DispatchAction, UNCHANGED <<stream, peer>>
  PROVE  Asked'
<1> DEFINE id == loop.id
           m == Head(actions[loop.id])
<1>1. /\ GameHolds(game) /\ SeatedOnce(game) /\ Inhabited(game)
      /\ NobodyAbsent(game)
      /\ actions \in [PlayerId -> Seq(PlayerActionMessage)]
  BY TypesOfQueues DEF Asked
<1>2. id \in PlayerId /\ actions[id] # << >>
  BY ActionStep DEF DispatchAction
<1>3. /\ UNCHANGED <<connectivity, client>>
      /\ actions'[id] = Tail(actions[id])
      /\ \A y \in PlayerId \ {id} : actions'[y] = actions[y]
  BY <1>1, <1>2 DEF DispatchAction
<1>4. /\ actions[id] \in Seq(PlayerActionMessage)
      /\ stream[id] \in Seq(Text)
      /\ client[id].wants \in GameDifficulty \cup {NULL}
      /\ OnItsWay(actions[id], stream[id], peer[id], Difficulties(game, id),
                  client[id].wants)
  BY <1>2, AskedOf, TypesOfQueues DEF Asked
<1>5. /\ m \in JoinGame => Difficulties(game, id) \cap GameDifficulty = {}
      /\ \A next :
           /\ m \in JoinGame => next = {m.gameDifficulty}
           /\ m \in LeaveGame => next = {}
           /\ m \notin JoinGame \cup LeaveGame => next = Difficulties(game, id)
           => OnItsWay(Tail(actions[id]), stream[id], peer[id], next,
                       client[id].wants)
  BY <1>2, <1>4, HandledOnItsWay
<1>6. m \in JoinGame => RoomsOf(game, id) = {}
  BY <1>1, <1>5, NobodyAsksTwice
<1>7. /\ SeatedOnce(game') /\ Inhabited(game') /\ NobodyAbsent(game')
      /\ \A y \in PlayerId \ {id} :
           Difficulties(game', y) = Difficulties(game, y)
      /\ m \in JoinGame => Difficulties(game', id) = {m.gameDifficulty}
      /\ m \in LeaveGame => Difficulties(game', id) = {}
      /\ m \notin JoinGame \cup LeaveGame =>
           Difficulties(game', id) = Difficulties(game, id)
  BY <1>1, <1>6, HandledSeats
<1>8. OnItsWay(Tail(actions[id]), stream[id], peer[id], Difficulties(game', id),
               client[id].wants)
  BY <1>5, <1>7
<1> HIDE DEF id, m
<1> QED
  BY <1>2, <1>3, <1>7, <1>8, GameMoves

LEMMA GameAsked ==
  ASSUME Fits, Asked, GameStep
  PROVE  Asked'
<1>1. GameThread /\ UNCHANGED <<stream, peer>>
  BY DEF GameStep, networkSide
<1>2. CASE TickRooms
  <2>1. SameCompany(game', game) /\ NobodyAbsent(game')
    BY <1>2, TickStep
  <2>2. UNCHANGED <<connectivity, actions, client>>
    BY <1>2 DEF TickRooms
  <2> QED
    BY <1>1, <2>1, <2>2, RestAsked
<1>3. CASE GoThroughPlayers \/ EndDrain \/ \E id \in PlayerId : CopyCallbacks(id)
  <2>1. game' = Idle(game) /\ UNCHANGED <<connectivity, actions, client>>
    BY <1>3 DEF GoThroughPlayers, EndDrain, CopyCallbacks
  <2> QED
    BY <1>1, <2>1, NoClientMoves
<1> QED
  BY <1>1, <1>2, <1>3, ConnectivityAsked, ActionAsked DEF GameThread

-----------------------------------------------------------------------------
(* The invariant is inductive *)

LEMMA AskedStep ==
  ASSUME Fits, Asked, ServerNext
  PROVE  Fits' /\ Asked'
<1>1. Moves
  BY ServerMoves DEF Asked
<1> QED
  BY <1>1, FitsStep, GameAsked, NetworkAsked, ClientAsked DEF ServerNext

LEMMA AskedInitially ==
  ASSUME ServerInit
  PROVE  Fits /\ Asked
<1>1. Init /\ Fits
  BY FitsInitially DEF ServerInit
<1>2. /\ game = NewGame /\ connectivity = << >>
      /\ actions = [id \in PlayerId |-> << >>]
      /\ client = [id \in PlayerId |-> [link |-> "AWAY", wants |-> NULL]]
      /\ stream = [id \in PlayerId |-> << >>]
      /\ peer = [id \in PlayerId |-> "NONE"]
  BY DEF ServerInit, Init, Net!NetworkInit
<1>3. \A x \in Address : ~ Alive(game, x)
  BY <1>2 DEF NewGame, Alive
<1>4. SeatedOnce(game) /\ Inhabited(game) /\ NobodyAbsent(game)
  BY <1>2, <1>3 DEF SeatedOnce, SeatsIn, Inhabited, NobodyAbsent, NewGame
<1>5. ConnectionsFit
  <2>1. << >> \in Seq(Text) /\ Len(<< >>) <= 1 /\ DOMAIN connectivity = {}
    BY <1>2
  <2> QED
    BY <1>2, <2>1 DEF ConnectionsFit, EndsFit, Net!Peer
<1>6. ASSUME NEW id \in PlayerId
      PROVE  OnItsWay(actions[id], stream[id], peer[id], Difficulties(game, id),
                      client[id].wants)
  <2>1. RoomsOf(game, id) = {}
    BY <1>3 DEF RoomsOf
  <2>2. Difficulties(game, id) = {}
    BY <2>1 DEF Difficulties
  <2>3. InTurn(<< >>, {}, NULL)
    BY DEF InTurn, Asks
  <2>4. << >> \in Sent(<< >>, << >>, "NONE")
    BY DEF Sent, Waiting
  <2> QED
    BY <1>2, <2>2, <2>3, <2>4 DEF OnItsWay
<1> QED
  BY <1>1, <1>4, <1>5, <1>6 DEF Asked, ClientsOnTheirWay

LEMMA AskedStutter ==
  ASSUME Fits, Asked, UNCHANGED allVars
  PROVE  Fits' /\ Asked'
<1>1. /\ UNCHANGED vars /\ UNCHANGED game /\ UNCHANGED stream /\ UNCHANGED peer
      /\ UNCHANGED actions /\ UNCHANGED client /\ UNCHANGED connectivity
  BY DEF allVars, vars, networkSide
<1>2. Fits'
  BY <1>1, FitsStutter
<1>3. ConnectionsFit' /\ ClientsOnTheirWay'
  BY <1>1 DEF Asked, ConnectionsFit, ClientsOnTheirWay
<1> QED
  BY <1>1, <1>2, <1>3 DEF Asked

LEMMA AskedAlways == ServerSpec => [](Fits /\ Asked)
<1>1. ServerInit => Fits /\ Asked
  BY AskedInitially
<1>2. Fits /\ Asked /\ [ServerNext]_allVars => (Fits /\ Asked)'
  BY AskedStep, AskedStutter
<1> QED
  BY <1>1, <1>2, PTL DEF ServerSpec

(***************************************************************************)
(* ClientsGetWhatTheyAsked is invariant: for any number of clients, rooms  *)
(* and texts, whatever the order of the threads, and whoever goes, a       *)
(* client that is there and has been heard is in one room if it has asked  *)
(* for one, and in none if it has left.                                    *)
(***************************************************************************)
THEOREM ClientsAreServed == ServerSpec => []ClientsGetWhatTheyAsked
<1>1. ASSUME Fits, Asked PROVE ClientsGetWhatTheyAsked
  <2> SUFFICES ASSUME NEW id \in PlayerId, There(id), stream[id] = << >>,
                      actions[id] = << >>
               PROVE  Cardinality(RoomsOf(game, id))
                        = IF client[id].wants = NULL THEN 0 ELSE 1
    BY DEF ClientsGetWhatTheyAsked
  <2> DEFINE seats == Difficulties(game, id)
             wants == client[id].wants
  <2>1. GameHolds(game) /\ SeatedOnce(game)
    BY <1>1 DEF Fits, Asked
  <2>2. OnItsWay(<< >>, << >>, "OPEN", seats, wants)
    BY <1>1, AskedOf DEF There
  <2>3. RoomsOf(game, id) # {} => seats \cap GameDifficulty # {}
    BY <2>1, NobodyAsksTwice
  <2>4. seats # {} => RoomsOf(game, id) # {}
    BY DEF Difficulties
  <2>5. wants \in GameDifficulty \cup {NULL} /\ NULL \notin GameDifficulty
    BY <1>1, TypesOfQueues, ClientsAssumption DEF Asked
  <2>6. \A x, y \in RoomsOf(game, id) : x = y
    <3>1. \A x \in RoomsOf(game, id) : x \in Address /\ SeatsIn(game, x, id) # {}
      BY RoomsAndSeats DEF RoomsOf
    <3> QED
      BY <2>1, <3>1 DEF SeatedOnce
  <2> HIDE DEF seats, wants
  <2>7. /\ Len(<< >>) = 0 /\ 0 \in 0..Len(<< >>) /\ (0 + 1)..Len(<< >>) = {}
        /\ 0..Len(<< >>) = {0} /\ DOMAIN << >> = {}
    OBVIOUS
  <2>8. \A d \in seats \cap GameDifficulty : wants = d
    <3>1. InTurn(<< >>, seats, wants)
      BY <2>2, SentIsWaiting DEF OnItsWay, Waiting
    <3> QED
      BY <2>7, <3>1 DEF InTurn, Asks
  <2>9. wants # NULL => wants \in seats
    <3>1. wants # NULL => Standing(<< >>, seats, wants)
      BY <2>2 DEF OnItsWay, Waiting
    <3> QED
      BY <2>7, <3>1 DEF Standing, Asks
  <2>10. RoomsOf(game, id) = {} <=> wants = NULL
    BY <2>3, <2>4, <2>5, <2>8, <2>9
  <2>11. Cardinality(RoomsOf(game, id))
           = IF RoomsOf(game, id) = {} THEN 0 ELSE 1
    BY <2>6, OneElement
  <2> QED
    BY <2>10, <2>11 DEF wants
<1> QED
  BY <1>1, AskedAlways, PTL

(***************************************************************************)
(* What the game thread promises to polite clients it keeps in the server, *)
(* where a client knows no more than what it said and what it is shown,    *)
(* and its texts are late: each is seated once and heard, somebody is in   *)
(* each room, and nothing is published for who is in none.                 *)
(***************************************************************************)
THEOREM PromisesAreKept ==
  ServerSpec => [](/\ SeatsAreReachable /\ OneSeatPerPlayer
                   /\ NoOrphanRoom /\ NothingForTheAbsent)
<1>1. ASSUME Fits, Asked
      PROVE  /\ SeatsAreReachable /\ OneSeatPerPlayer
             /\ NoOrphanRoom /\ NothingForTheAbsent
  <2>1. GameHolds(game) /\ SeatedOnce(game) /\ Inhabited(game)
    BY <1>1 DEF Fits, Asked
  <2>2. NothingForTheAbsent
    BY <1>1 DEF Asked, NobodyAbsent, NothingForTheAbsent
  <2> QED
    BY <1>1, <2>1, <2>2, SeatsReached, OneSeatOf, RoomsInhabited
<1> QED
  BY <1>1, AskedAlways, PTL

-----------------------------------------------------------------------------
(* What the clients are shown *)

(* The end of the queue of each player gets the messages for it, in order. *)
LEMMA HandedOutFacts ==
  ASSUME NEW queues \in [PlayerId -> Seq(GameplayMessage)],
         NEW published \in Seq(Published)
  PROVE  LET handed == HandedOut(queues, published)
         IN /\ handed \in [PlayerId -> Seq(GameplayMessage)]
            /\ \A id \in PlayerId : \A view :
                 ViewAfter(view, handed[id])
                   = ViewAfter(ViewAfter(view, queues[id]),
                               MessagesFor(id, published))
<1> DEFINE last == Len(published)
           first(n) == SubSeq(published, 1, n)
           Due(q, n) ==
             \A id \in PlayerId : \A view :
               ViewAfter(view, q[id])
                 = ViewAfter(ViewAfter(view, queues[id]),
                             MessagesFor(id, first(n)))
           Queues == [PlayerId -> Seq(GameplayMessage)]
           S == [n \in 0..last |-> {q \in Queues : Due(q, n)}]
           next(q, n) == [q EXCEPT ![published[n].to] =
                            Append(@, published[n].message)]
           step == [n \in 1..last |-> [q \in S[n - 1] |-> next(q, n)]]
           Handed(f) == f = [n \in 0..last |-> IF n = 0 THEN queues
                                               ELSE next(f[n - 1], n)]
           handed == CHOOSE f : Handed(f)
<1>1. HandedOut(queues, published) = handed[last]
  BY DEF HandedOut
<1>2. last \in Nat /\ DOMAIN published = 1..last
  OBVIOUS
<1>3. \A n \in 1..last : n - 1 \in 0..last /\ n \in 0..last /\ n # 0
  BY <1>2
<1>4. first(0) = << >> /\ first(last) = published
  OBVIOUS
<1>5. ASSUME NEW n \in 1..last
      PROVE  /\ first(n) = first(n - 1) \o <<published[n]>>
             /\ first(n - 1) \in Seq(Published)
             /\ published[n] \in Published
    OBVIOUS
<1> HIDE DEF last, first
<1>6. queues \in Queues /\ Due(queues, 0)
  <2>1. DOMAIN first(0) = {}
    BY <1>4
  <2> QED
    BY <2>1, NothingIsSeen
<1>7. ASSUME NEW n \in 1..last, NEW q \in Queues, Due(q, n - 1)
      PROVE  next(q, n) \in Queues /\ Due(next(q, n), n)
  <2> DEFINE e == published[n]
             t == next(q, n)
  <2>1. /\ e \in Published /\ e.to \in PlayerId /\ e.message \in GameplayMessage
    BY <1>5 DEF Published
  <2>2. /\ t \in Queues
        /\ \A id \in PlayerId :
             t[id] = IF id = e.to THEN Append(q[id], e.message) ELSE q[id]
    BY <1>7, <2>1
  <2>3. first(n) = first(n - 1) \o <<e>> /\ first(n - 1) \in Seq(Published)
    BY <1>5
  <2> HIDE DEF t, e
  <2>4. <<e>> \in Seq(Published)
    BY <2>1
  <2>5. ASSUME NEW id \in PlayerId, NEW view
        PROVE  ViewAfter(view, t[id])
                 = ViewAfter(ViewAfter(view, queues[id]),
                             MessagesFor(id, first(n)))
    <3> DEFINE v == ViewAfter(view, queues[id])
               w == ViewAfter(v, MessagesFor(id, first(n - 1)))
    <3>1. ViewAfter(view, q[id]) = w
      BY <1>7
    <3>2. ViewAfter(v, MessagesFor(id, first(n)))
            = ViewAfter(w, MessagesFor(id, <<e>>))
      <4> DEFINE p == first(n - 1)
                 one == <<e>>
      <4>1. /\ p \in Seq(Published) /\ one \in Seq(Published)
            /\ first(n) = p \o one
        BY <2>3, <2>4
      <4> HIDE DEF p, one, v
      <4>2. ViewAfter(v, MessagesFor(id, p \o one))
              = ViewAfter(ViewAfter(v, MessagesFor(id, p)),
                          MessagesFor(id, one))
        BY <4>1, ViewOfJoined
      <4> QED
        BY <4>1, <4>2 DEF p, one
    <3> HIDE DEF v, w
    <3>3. ViewAfter(w, MessagesFor(id, <<e>>))
            = IF e.to = id THEN After(w, e.message) ELSE w
      BY ViewOfEnvelope
    <3>4. q[id] \in Seq(GameplayMessage)
      OBVIOUS
    <3>5. CASE e.to = id
      <4>1. t[id] = Append(q[id], e.message)
        BY <2>2, <3>5
      <4>2. ViewAfter(view, Append(q[id], e.message))
              = After(ViewAfter(view, q[id]), e.message)
        BY <2>1, <3>4, ViewOfAppended
      <4> QED
        BY <3>1, <3>2, <3>3, <3>5, <4>1, <4>2 DEF v
    <3>6. CASE e.to # id
      BY <2>2, <3>1, <3>2, <3>3, <3>6 DEF v
    <3> QED
      BY <3>5, <3>6
  <2> QED
    BY <2>2, <2>5 DEF t
<1> HIDE DEF next, Due, Queues
<1>8. /\ \A n \in 0..last : S[n] = {q \in Queues : Due(q, n)}
      /\ 0 \in 0..last /\ last \in 0..last
  BY <1>2
<1> HIDE DEF S
<1>9. \A n \in 1..last : \A q \in S[n - 1] : next(q, n) \in S[n]
  BY <1>3, <1>7, <1>8
<1>10. queues \in S[0]
  BY <1>6, <1>8
<1>11. \A n \in 1..last : \A q \in S[n - 1] : step[n][q] = next(q, n)
  OBVIOUS
<1>12. PICK f : Iterates(f, S, queues, last, step)
  <2> HIDE DEF step
  <2>1. \A n \in 1..last : \A q \in S[n - 1] : step[n][q] \in S[n]
    BY <1>9, <1>11
  <2> QED
    BY <1>2, <1>10, <2>1, IterationExists
<1> HIDE DEF step
<1>13. Handed(f)
  <2>1. \A n \in 1..last : f[n] = next(f[n - 1], n)
    BY <1>3, <1>11, <1>12 DEF Iterates
  <2>2. \A n \in 0..last : f[n] = IF n = 0 THEN queues ELSE next(f[n - 1], n)
    <3> TAKE n \in 0..last
    <3>1. n = 0 \/ n \in 1..last
      BY <1>2
    <3>2. f[0] = queues
      BY <1>12 DEF Iterates
    <3> QED
      BY <1>3, <2>1, <3>1, <3>2
  <2>3. f = [n \in 0..last |-> f[n]]
    BY <1>12 DEF Iterates
  <2> QED
    BY <2>2, <2>3
<1>14. Handed(handed)
  BY <1>13
<1> HIDE DEF handed
<1>15. handed[0] \in S[0]
  BY <1>8, <1>10, <1>14
<1>16. \A n \in 1..last : handed[n - 1] \in S[n - 1] => handed[n] \in S[n]
  <2> TAKE n \in 1..last
  <2>1. handed[n] = next(handed[n - 1], n)
    BY <1>3, <1>14
  <2> QED
    BY <1>9, <2>1
<1>17. \A n \in 0..last : handed[n] \in S[n]
  BY <1>2, <1>15, <1>16, IterationStays
<1>18. handed[last] \in Queues /\ Due(handed[last], last)
  BY <1>8, <1>17
<1> QED
  BY <1>1, <1>4, <1>18 DEF Due, Queues

(* What a step of the game thread does to a room, it publishes. *)
LEMMA GameThreadKeepsTouch ==
  ASSUME Fits, SeatedOnce(game), SeatedOnce(game'), GameThread
  PROVE  KeepsTouch(game', Idle(game))
<1> DEFINE g == Idle(game)
<1> SUFFICES KeepsTouch(game', g)
  OBVIOUS
<1>1. GameHolds(game)
  BY DEF Fits
<1>2. /\ GameHolds(g)
      /\ g.rooms = game.rooms /\ g.room = game.room
      /\ g.callbacks = game.callbacks
      /\ g.published = << >>
      /\ \A x, y : SeatsIn(g, x, y) = SeatsIn(game, x, y)
      /\ \A x : Alive(g, x) <=> Alive(game, x)
      /\ SeatedOnce(g)
      /\ \A d : FindRoom(g, d) = FindRoom(game, d)
  BY <1>1, IdleFacts
<1>3. CASE DispatchConnectivity
  <2> DEFINE id == Head(connectivity).id
  <2>1. CASE Head(connectivity).messageType = "CONNECT"
    <3>1. game'.room = game.room /\ game'.published = << >>
      BY <1>3, <2>1, ConnectStep
    <3>2. /\ \A x, y : SeatsIn(game', x, y) = SeatsIn(g, x, y)
          /\ game'.room = g.room /\ game'.published = g.published
      BY <1>2, <3>1 DEF SeatsIn, Alive
    <3> HIDE DEF g
    <3> QED
      BY <3>2, SilenceKeepsTouch
  <2>2. CASE Head(connectivity).messageType # "CONNECT"
    <3>1. id \in PlayerId
      BY <1>3, <2>2, DisconnectStep
    <3>2. game' = RemovePlayerFromRoom(g, id)
      BY <1>3, <2>2
      DEF DispatchConnectivity, HandlePlayerConnectivityMessage, Unsubscribe
    <3> HIDE DEF g, id
    <3> QED
      BY <1>2, <3>1, <3>2, RemovePlayerFromRoomKeepsTouch
  <2> QED
    BY <2>1, <2>2
<1>4. CASE GoThroughPlayers \/ EndDrain \/ \E id \in PlayerId : CopyCallbacks(id)
  <2>1. game' = g
    BY <1>4 DEF GoThroughPlayers, EndDrain, CopyCallbacks
  <2> QED
    BY <2>1, KeepsTouchReflexive
<1>5. CASE TickRooms
  <2>1. PICK input \in [Address -> GameplayInput] : game' = TickAllRooms(g, input)
    BY <1>5 DEF TickRooms
  <2> HIDE DEF g
  <2> QED
    BY <1>2, <2>1, TickAllRoomsKeepsTouch
<1>6. CASE DispatchAction
  <2> DEFINE id == loop.id
             m == Head(actions[loop.id])
             callbacks == loop.callbacks
  <2>1. /\ id \in PlayerId /\ game.callbacks[id] # << >>
        /\ callbacks \in Seq(Address \cup {GAMEPLAY})
        /\ callbacks # << >> /\ ManagerFirst(callbacks)
    BY <1>6 DEF Fits, TypeOK, Loop, LoopFits, Listened, DispatchAction
  <2>2. m \in PlayerActionMessage
    BY <1>6, <2>1 DEF Fits, TypeOK, DispatchAction
  <2>3. PICK fresh \in FreshFor(m) : game' = Dispatch(g, id, m, callbacks, fresh)
    BY <1>6 DEF DispatchAction
  <2> HIDE DEF id, m, callbacks
  <2>4. m \in JoinGame =>
          m.messageType = "JOIN_GAME" /\ m.gameDifficulty \in GameDifficulty
    BY DEF JoinGame
  <2>5. m \in JoinGame /\ FindRoom(g, m.gameDifficulty) = 0 =>
          fresh \in Address /\ ~ Alive(g, fresh)
    BY <1>2, <2>3, <2>4 DEF FreshFor
  <2>6. g.callbacks[id] # << >>
    BY <1>2, <2>1
  <2> HIDE DEF g
  <2> DEFINE h == Dispatch(g, id, m, callbacks, fresh)
  <2>7. /\ m \in JoinGame
             /\ (FindRoom(g, m.gameDifficulty) = 0 =>
                   fresh \in Address /\ ~ Alive(g, fresh)) =>
             h = AddPlayerToRoom(g, id, m.gameDifficulty, fresh)
        /\ m \in LeaveGame => Without(h, g, id)
        /\ m \in LeaveGame /\ SeatedOnce(g) => h = RemovePlayerFromRoom(g, id)
        /\ m \in RoomActionMessage \ LeaveGame =>
             SameCompany(h, g) /\ AtHome(h, g, id)
    BY <1>2, <2>1, <2>2, <2>6, DispatchFacts
  <2>8. game' = h
    BY <2>3
  <2>9. m \in RoomActionMessage \ LeaveGame => KeepsTouch(h, g)
    BY <1>2, <2>1, DispatchKeepsTouch
  <2> HIDE DEF h
  <2>10. m \in JoinGame => KeepsTouch(h, g)
    BY <1>2, <2>1, <2>4, <2>5, <2>7, <2>8, AddPlayerToRoomKeepsTouch
  <2>11. m \in LeaveGame => KeepsTouch(h, g)
    BY <1>2, <2>1, <2>7, RemovePlayerFromRoomKeepsTouch
  <2>12. m \in JoinGame \/ m \in RoomActionMessage
    BY <2>2 DEF PlayerActionMessage
  <2> QED
    BY <2>8, <2>9, <2>10, <2>11, <2>12
<1> QED
  BY <1>3, <1>4, <1>5, <1>6 DEF GameThread

-----------------------------------------------------------------------------
(* The invariant: clients and what they are shown *)

(* What a client shows once it has received what waits for it. *)
WillShow(id) == ViewAfter(shown[id], outbox[id])

(* A client that has not gone will show the state of the room it is in. *)
Screened ==
  /\ outbox \in [PlayerId -> Seq(GameplayMessage)]
  /\ DOMAIN shown = PlayerId
  /\ \A id \in PlayerId : \A x \in RoomsOf(game, id) :
       peer[id] = "OPEN" => WillShow(id).phase = game.room[x].gameplayState

(* Nothing happens to the rooms, and no client comes. *)
LEMMA RestScreened ==
  ASSUME Fits, Screened, game' = Idle(game),
         outbox' \in [PlayerId -> Seq(GameplayMessage)],
         DOMAIN shown' = PlayerId,
         \A id \in PlayerId :
           peer'[id] = "OPEN" /\ RoomsOf(game, id) # {} =>
             peer[id] = "OPEN" /\ WillShow(id)' = WillShow(id)
  PROVE  Screened'
<1>1. /\ \A y : RoomsOf(game', y) = RoomsOf(game, y)
      /\ game'.room = game.room
  BY IdleFacts DEF Fits
<1> QED
  BY <1>1 DEF Screened

LEMMA GameScreened ==
  ASSUME Fits, Asked, SeatedOnce(game'), GameHolds(game'), Screened, GameStep
  PROVE  Screened'
<1> DEFINE g == Idle(game)
<1>1. /\ GameThread /\ UNCHANGED <<peer, shown>>
      /\ outbox' = HandedOut(outbox, game'.published)
  BY DEF GameStep, networkSide
<1>2. KeepsTouch(game', g)
  BY <1>1, GameThreadKeepsTouch DEF Asked
<1>3. /\ g.room = game.room /\ g.published = << >>
      /\ \A y : RoomsOf(g, y) = RoomsOf(game, y)
  BY IdleFacts DEF Fits
<1> HIDE DEF g
<1>4. game'.published \in Seq(Published)
  BY DEF GameHolds, Game
<1>5. /\ outbox' \in [PlayerId -> Seq(GameplayMessage)]
      /\ \A id \in PlayerId : \A view :
           ViewAfter(view, outbox'[id])
             = ViewAfter(ViewAfter(view, outbox[id]),
                         MessagesFor(id, game'.published))
  <2> DEFINE published == game'.published
             handed == HandedOut(outbox, published)
  <2>1. outbox \in [PlayerId -> Seq(GameplayMessage)] /\ published \in Seq(Published)
    BY <1>4 DEF Screened
  <2> HIDE DEF published
  <2>2. /\ handed \in [PlayerId -> Seq(GameplayMessage)]
        /\ \A id \in PlayerId : \A view :
             ViewAfter(view, handed[id])
               = ViewAfter(ViewAfter(view, outbox[id]),
                           MessagesFor(id, published))
    BY <2>1, HandedOutFacts
  <2>3. outbox' = handed
    BY <1>1 DEF published
  <2> HIDE DEF handed
  <2> QED
    BY <2>2, <2>3 DEF published
<1>6. ASSUME NEW id \in PlayerId, NEW x \in RoomsOf(game', id),
             peer[id] = "OPEN"
      PROVE  ViewAfter(shown[id], outbox'[id]).phase
               = game'.room[x].gameplayState
  <2> DEFINE before == ViewAfter(shown[id], outbox[id])
  <2>1. \A y \in RoomsOf(g, id) : before.phase = g.room[y].gameplayState
    BY <1>3, <1>6 DEF Screened, WillShow
  <2>2. ViewAfter(shown[id], outbox'[id])
          = ViewAfter(before, MessagesFor(id, game'.published))
    BY <1>5
  <2> HIDE DEF before
  <2>3. DOMAIN g.published = {}
    BY <1>3
  <2>4. InTouch(g, id, before)
    BY <2>1, <2>3, NothingIsSeen DEF InTouch
  <2>5. InTouch(game', id, before)
    BY <1>2, <2>4 DEF KeepsTouch
  <2> QED
    BY <1>6, <2>2, <2>5 DEF InTouch
<1>7. \A id \in PlayerId :
        peer'[id] = peer[id]
          /\ WillShow(id)' = ViewAfter(shown[id], outbox'[id])
  BY <1>1 DEF WillShow
<1> QED
  BY <1>1, <1>5, <1>6, <1>7 DEF Screened

(* A message that is sent leaves the queue and reaches the screen. *)
LEMMA SentScreened ==
  ASSUME Fits, Asked, Screened, game' = Idle(game), NEW id \in PlayerId,
         Net!DispatchOne(id)
  PROVE  Screened'
<1>1. /\ outbox[id] # << >> /\ Net!Send(id, Head(outbox[id]))
      /\ outbox' = [outbox EXCEPT ![id] = Tail(@)]
  BY DEF Net!DispatchOne
<1>2. /\ outbox \in [PlayerId -> Seq(GameplayMessage)]
      /\ DOMAIN shown = PlayerId
      /\ peer \in [PlayerId -> Net!Peer]
      /\ EndsFit(stream[id], peer[id], client[id])
  BY AskedOf DEF Screened
<1>3. outbox[id] \in Seq(GameplayMessage)
  BY <1>2
<1>4. Tail(outbox[id]) \in Seq(GameplayMessage)
  BY <1>1, <1>3
<1>5. /\ outbox' \in [PlayerId -> Seq(GameplayMessage)]
      /\ outbox'[id] = Tail(outbox[id])
      /\ \A y \in PlayerId \ {id} : outbox'[y] = outbox[y]
  BY <1>1, <1>2, <1>4
<1>6. CASE peer[id] = "OPEN"
  <2>1. client[id].link # "CLOSED"
    BY <1>2, <1>6 DEF EndsFit
  <2>2. /\ shown' = [shown EXCEPT ![id] = After(@, Head(outbox[id]))]
        /\ UNCHANGED peer
    BY <1>1, <1>6, <2>1 DEF Net!Send
  <2>3. /\ DOMAIN shown' = PlayerId
        /\ shown'[id] = After(shown[id], Head(outbox[id]))
        /\ \A y \in PlayerId \ {id} : shown'[y] = shown[y]
    BY <1>2, <2>2
  <2>4. WillShow(id)' = WillShow(id)
    BY <1>1, <1>3, <1>5, <2>3, ViewOfPopped DEF WillShow
  <2>5. \A y \in PlayerId \ {id} : WillShow(y)' = WillShow(y)
    BY <1>5, <2>3 DEF WillShow
  <2>6. \A y \in PlayerId : WillShow(y)' = WillShow(y) /\ peer'[y] = peer[y]
    BY <2>2, <2>4, <2>5
  <2> QED
    BY <1>5, <2>3, <2>6, RestScreened
<1>7. CASE peer[id] # "OPEN"
  <2>1. /\ shown' = shown /\ peer'[id] # "OPEN"
        /\ \A y \in PlayerId \ {id} : peer'[y] = peer[y]
    BY <1>1, <1>2, <1>7 DEF Net!Send
  <2>2. \A y \in PlayerId \ {id} : WillShow(y)' = WillShow(y)
    BY <1>5, <2>1 DEF WillShow
  <2>3. \A y \in PlayerId :
          peer'[y] = "OPEN" => peer[y] = "OPEN" /\ WillShow(y)' = WillShow(y)
    BY <2>1, <2>2
  <2> QED
    BY <1>2, <1>5, <2>1, <2>3, RestScreened
<1> QED
  BY <1>6, <1>7

(* All else the network does. *)
LEMMA NetworkScreened ==
  ASSUME Fits, Asked, Screened, NetworkStep
  PROVE  Screened'
<1>1. ASSUME game' = Idle(game), UNCHANGED <<outbox, shown, peer>>
      PROVE  Screened'
  BY <1>1, RestScreened DEF Screened, WillShow
<1>2. ASSUME NEW id \in PlayerId, Accepts(id) PROVE Screened'
  BY <1>1, <1>2
  DEF Accepts, Connect, PublishConnectivity, Net!HandleNewClientConnection,
      Net!sockets
<1>3. ASSUME NEW id \in PlayerId, Hears(id) PROVE Screened'
  BY <1>1, <1>3 DEF Hears, PublishAction, Net!Receive
<1>4. ASSUME NEW id \in PlayerId, Loses(id) PROVE Screened'
  BY <1>1, <1>4
  DEF Loses, Close, Fail, PublishConnectivity, Net!ReceiveEnd,
      Net!ReceiveError, Net!sockets
<1>5. CASE GoesOn
  <2>1. game' = Idle(game)
    BY <1>5 DEF GoesOn, GameRests
  <2>2. ASSUME NEW id \in PlayerId, Net!DispatchOne(id) PROVE Screened'
    BY <2>1, <2>2, SentScreened
  <2>3. ASSUME \/ Net!NoNewConnection \/ Net!NextClient
               \/ \E id \in PlayerId :
                    Net!ReceiveNothing(id) \/ Net!Dispatched(id)
        PROVE  Screened'
    BY <1>1, <2>1, <2>3
    DEF Net!NoNewConnection, Net!NextClient, Net!ReceiveNothing,
        Net!Dispatched, Net!hub, Net!sockets
  <2> QED
    BY <1>5, <2>2, <2>3 DEF GoesOn
<1> QED
  BY <1>2, <1>3, <1>4, <1>5 DEF NetworkStep

(* Whoever has not connected yet is in no room. *)
LEMMA ClientScreened ==
  ASSUME Fits, Asked, Screened, ClientStep
  PROVE  Screened'
<1>1. ASSUME game' = Idle(game), UNCHANGED <<outbox, shown, peer>>
      PROVE  Screened'
  BY <1>1, RestScreened DEF Screened, WillShow
<1>2. \A id \in PlayerId : \A m :
        Says(id, m) => game' = Idle(game) /\ UNCHANGED <<outbox, shown, peer>>
  BY DEF Says, GameRests, Net!Say, Net!hub
<1>3. ASSUME NEW id \in PlayerId, game' = Idle(game), Net!Dial(id)
      PROVE  Screened'
  <2>1. /\ peer[id] = "NONE" /\ UNCHANGED <<outbox, shown>>
        /\ peer' = [peer EXCEPT ![id] = "OPEN"]
    BY <1>3 DEF Net!Dial, Net!hub
  <2>2. /\ peer \in [PlayerId -> Net!Peer]
        /\ EndsFit(stream[id], peer[id], client[id])
    BY AskedOf
  <2>3. client[id].link = "AWAY"
    BY <2>1, <2>2 DEF EndsFit
  <2>4. game.callbacks[id] = << >>
    BY <2>3 DEF Fits, ConnectFits
  <2>5. RoomsOf(game, id) = {}
    BY <2>4, UnheardAreNowhere DEF Fits
  <2>6. \A y \in PlayerId \ {id} : peer'[y] = peer[y]
    BY <2>1, <2>2
  <2>7. \A y \in PlayerId : WillShow(y)' = WillShow(y)
    BY <2>1 DEF WillShow
  <2> QED
    BY <1>3, <2>1, <2>5, <2>6, <2>7, RestScreened DEF Screened
<1>4. ASSUME NEW id \in PlayerId, game' = Idle(game), Net!HangUp(id)
      PROVE  Screened'
  <2>1. /\ UNCHANGED <<outbox, shown>>
        /\ \E end \in {"CLOSED", "RESET"} : peer' = [peer EXCEPT ![id] = end]
    BY <1>4 DEF Net!HangUp, Net!hub
  <2>2. peer \in [PlayerId -> Net!Peer]
    BY AskedOf
  <2>3. \A y \in PlayerId : peer'[y] = "OPEN" => peer[y] = "OPEN"
    BY <2>1, <2>2
  <2>4. \A y \in PlayerId : WillShow(y)' = WillShow(y)
    BY <2>1 DEF WillShow
  <2> QED
    BY <1>4, <2>1, <2>3, <2>4, RestScreened DEF Screened
<1> QED
  BY <1>1, <1>2, <1>3, <1>4
  DEF ClientStep, AsksToJoin, AsksToLeave, Acts, GameRests

LEMMA ScreenedInitially ==
  ASSUME ServerInit
  PROVE  Screened
<1>1. /\ game = NewGame
      /\ outbox = [id \in PlayerId |-> << >>]
      /\ shown = [id \in PlayerId |-> NULL]
  BY DEF ServerInit, Init, Net!NetworkInit
<1>2. << >> \in Seq(GameplayMessage)
  OBVIOUS
<1>3. \A id : RoomsOf(game, id) = {}
  BY <1>1 DEF RoomsOf, Alive, NewGame
<1> QED
  BY <1>1, <1>2, <1>3 DEF Screened

LEMMA ScreenedStep ==
  ASSUME Fits, Asked, Screened, ServerNext
  PROVE  Screened'
<1>1. Fits' /\ Asked'
  BY AskedStep
<1>2. SeatedOnce(game') /\ GameHolds(game')
  BY <1>1 DEF Fits, Asked
<1> QED
  BY <1>2, GameScreened, NetworkScreened, ClientScreened DEF ServerNext

LEMMA ScreenedStutter ==
  ASSUME Screened, UNCHANGED allVars
  PROVE  Screened'
  BY DEF Screened, WillShow, allVars, networkSide

(***************************************************************************)
(* ScreensFollowRooms is invariant: for any number of clients and rooms,   *)
(* whatever the order of the threads, what a client that is there and      *)
(* seated shows, once it has received what waits for it, is the state its  *)
(* room is in.                                                             *)
(***************************************************************************)
THEOREM ClientsSeeTheirRooms == ServerSpec => []ScreensFollowRooms
<1>1. ServerInit => Screened
  BY ScreenedInitially
<1>2. Fits /\ Asked /\ Screened /\ [ServerNext]_allVars => Screened'
  BY ScreenedStep, ScreenedStutter
<1>3. Screened => ScreensFollowRooms
  BY DEF Screened, WillShow, ScreensFollowRooms, There
<1> QED
  BY <1>1, <1>2, <1>3, AskedAlways, PTL DEF ServerSpec
=============================================================================
