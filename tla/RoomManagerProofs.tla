-------------------------- MODULE RoomManagerProofs --------------------------
(***************************************************************************)
(* Proofs about the calls of the game thread.                              *)
(***************************************************************************)
EXTENDS RoomManager, RoomHandlersProofs

LOCAL INSTANCE SequencesExt

SeatsIn(g, address, id) ==
  IF Alive(g, address) THEN SeatsOf(g.room[address], id) ELSE {}

(* Every room that is alive is sound, and has nothing left to say. *)
LiveRoomsFit(g) ==
  \A address \in Address :
    Alive(g, address) => /\ Sound(g.room[address])
                         /\ g.room[address].published = << >>

(* rooms holds every live room, once. *)
RoomsListed(g) ==
  /\ {g.rooms[i] : i \in DOMAIN g.rooms}
       = {address \in Address : Alive(g, address)}
  /\ \A i, j \in DOMAIN g.rooms : g.rooms[i] = g.rooms[j] => i = j

(* The room manager hears a player first, and once. *)
ManagerFirst(callbacks) ==
  \A i \in DOMAIN callbacks : callbacks[i] = GAMEPLAY <=> i = 1

GameHolds(g) ==
  /\ g \in Game
  /\ LiveRoomsFit(g)
  /\ RoomsListed(g)
  /\ \A id \in PlayerId : ManagerFirst(g.callbacks[id])

(* The room of a player hears it. *)
Reachable(g) ==
  \A id \in PlayerId : \A address \in RoomsOf(g, id) :
    HasCallback(g, id, address)

(* A player has one seat, in one room. *)
SeatedOnce(g) ==
  \A id \in PlayerId : \A x, y \in Address :
    \A a \in SeatsIn(g, x, id), b \in SeatsIn(g, y, id) : x = y /\ a = b

(* Somebody is in every room. *)
Inhabited(g) == \A x \in Address : Alive(g, x) => ~ IsEmpty(g.room[x])

(* What is published is for players who are in a room. *)
NobodyAbsent(g) ==
  \A i \in DOMAIN g.published : RoomsOf(g, g.published[i].to) # {}

-----------------------------------------------------------------------------
(* Looking for a room *)

(* The room found is one that a newcomer can join. *)
LEMMA FoundRoom ==
  ASSUME NEW g, g.rooms \in Seq(Address), NEW d
  PROVE  /\ FindRoom(g, d) # 0 =>
              /\ FindRoom(g, d) \in DOMAIN g.rooms
              /\ ~ IsFull(g.room[g.rooms[FindRoom(g, d)]])
              /\ g.room[g.rooms[FindRoom(g, d)]].difficulty = d
         /\ FindRoom(g, d) = 0 =>
              \A i \in DOMAIN g.rooms :
                IsFull(g.room[g.rooms[i]]) \/ g.room[g.rooms[i]].difficulty # d
<1> DEFINE I == {i \in 1..Len(g.rooms) : /\ ~ IsFull(g.room[g.rooms[i]])
                                         /\ g.room[g.rooms[i]].difficulty = d}
<1>1. FindRoom(g, d) = IF I # {} THEN Min(I) ELSE 0
  BY DEF FindRoom, SelectInSeq
<1>2. I \in SUBSET Nat /\ 0 \notin I
  OBVIOUS
<1>3. I # {} => Min(I) \in I
  BY <1>2, LeastNatural
<1>4. CASE I = {}
  <2>1. FindRoom(g, d) = 0
    BY <1>1, <1>4
  <2>2. \A i \in DOMAIN g.rooms : i \in 1..Len(g.rooms) /\ i \notin I
    BY <1>4
  <2> QED
    BY <2>1, <2>2
<1>5. CASE I # {}
  <2>1. FindRoom(g, d) \in I
    BY <1>1, <1>3, <1>5
  <2> QED
    BY <2>1
<1> QED
  BY <1>4, <1>5

(* The room found is one the player is in. *)
LEMMA FoundPlayerRoom ==
  ASSUME NEW g, g.rooms \in Seq(Address), NEW id
  PROVE  /\ FindPlayer(g, id) # 0 =>
              /\ FindPlayer(g, id) \in DOMAIN g.rooms
              /\ HasPlayerWithId(g.room[g.rooms[FindPlayer(g, id)]], id)
         /\ FindPlayer(g, id) = 0 =>
              \A i \in DOMAIN g.rooms : ~ HasPlayerWithId(g.room[g.rooms[i]], id)
<1> DEFINE I == {i \in 1..Len(g.rooms) : HasPlayerWithId(g.room[g.rooms[i]], id)}
<1>1. FindPlayer(g, id) = IF I # {} THEN Min(I) ELSE 0
  BY DEF FindPlayer, SelectInSeq
<1>2. I \in SUBSET Nat /\ 0 \notin I
  OBVIOUS
<1>3. I # {} => Min(I) \in I
  BY <1>2, LeastNatural
<1> QED
  BY <1>1, <1>2, <1>3, SMTT(30)


-----------------------------------------------------------------------------
(* A call of a room *)

LEMMA LiveRoom ==
  ASSUME NEW g, GameHolds(g), NEW address \in Address, Alive(g, address)
  PROVE  /\ Sound(g.room[address])
         /\ g.room[address] \in RoomState
         /\ g.room[address].published = << >>
         /\ Begin(g.room[address]) = g.room[address]
<1>1. Sound(g.room[address]) /\ g.room[address].published = << >>
  BY DEF GameHolds, LiveRoomsFit
<1> QED
  BY <1>1 DEF Sound, Begin, RoomState

(* A listed room is alive, and a live one is listed. *)
LEMMA ListedRoom ==
  ASSUME NEW g, GameHolds(g)
  PROVE  /\ g.rooms \in Seq(Address)
         /\ \A i \in DOMAIN g.rooms : /\ g.rooms[i] \in Address
                                      /\ Alive(g, g.rooms[i])
         /\ \A address \in Address :
              Alive(g, address) => \E i \in DOMAIN g.rooms : g.rooms[i] = address
<1>1. g.rooms \in Seq(Address)
  BY DEF GameHolds, Game
<1>2. {g.rooms[i] : i \in DOMAIN g.rooms}
        = {address \in Address : Alive(g, address)}
  BY DEF GameHolds, RoomsListed
<1> QED
  BY <1>1, <1>2

(* A room after a call between two calls. *)
LEMMA BegunRoom ==
  ASSUME NEW s, Sound(s)
  PROVE  /\ Sound(Begin(s)) /\ Begin(s).published = << >>
         /\ Begin(s).difficulty = s.difficulty
         /\ Begin(s).players = s.players
         /\ \A id : SeatsOf(Begin(s), id) = SeatsOf(s, id)
         /\ Begin(s) # NULL
<1>1. s \in RoomState /\ Sound(Begin(s))
  BY BeginIsSound DEF Sound
<1>2. /\ Begin(s).published = << >>
      /\ Begin(s).difficulty = s.difficulty
      /\ Begin(s).players = s.players
  BY <1>1 DEF Begin, RoomState
<1>3. \A id : SeatsOf(Begin(s), id) = SeatsOf(s, id)
  BY <1>2 DEF SeatsOf, IsSeated
<1>4. Begin(s) # NULL
  BY <1>1, ContextAssumption DEF Sound
<1> QED
  BY <1>1, <1>2, <1>3, <1>4

(* A call of a live room changes nothing but that room. *)
LEMMA CallRoomFacts ==
  ASSUME NEW g, GameHolds(g), NEW address \in Address, Alive(g, address),
         NEW s, Sound(s)
  PROVE  LET h == CallRoom(g, address, s)
         IN /\ GameHolds(h)
            /\ h.rooms = g.rooms /\ h.callbacks = g.callbacks
            /\ h.published = g.published \o s.published
            /\ h.room[address] = Begin(s)
            /\ \A x \in Address \ {address} : h.room[x] = g.room[x]
            /\ \A x \in Address : Alive(h, x) <=> Alive(g, x)
            /\ \A x \in Address : \A id :
                 SeatsIn(h, x, id) = IF x = address THEN SeatsOf(s, id)
                                                    ELSE SeatsIn(g, x, id)
<1> DEFINE h == CallRoom(g, address, s)
<1>1. g \in Game /\ s \in RoomState
  BY DEF GameHolds, Sound
<1>2. /\ Sound(Begin(s)) /\ Begin(s).published = << >>
      /\ Begin(s) \in RoomState /\ Begin(s) # NULL
      /\ \A id : SeatsOf(Begin(s), id) = SeatsOf(s, id)
  BY BegunRoom DEF Sound
<1>3. g.published \o s.published \in Seq(Published)
  <2>1. g.published \in Seq(Published) /\ s.published \in Seq(Published)
    BY <1>1 DEF Game, RoomState
  <2> QED
    BY <2>1
<1>4. /\ h \in Game
      /\ h.rooms = g.rooms /\ h.callbacks = g.callbacks
      /\ h.published = g.published \o s.published
      /\ h.room[address] = Begin(s)
      /\ \A x \in Address \ {address} : h.room[x] = g.room[x]
  BY <1>1, <1>2, <1>3 DEF CallRoom, Game
<1> HIDE DEF h
<1>5. \A x \in Address : Alive(h, x) <=> Alive(g, x)
  BY <1>2, <1>4 DEF Alive
<1>6. LiveRoomsFit(h)
  BY <1>2, <1>4, <1>5 DEF GameHolds, LiveRoomsFit
<1>7. RoomsListed(h)
  BY <1>4, <1>5 DEF GameHolds, RoomsListed
<1>8. \A id \in PlayerId : ManagerFirst(h.callbacks[id])
  BY <1>4 DEF GameHolds
<1>9. \A x \in Address : \A id :
        SeatsIn(h, x, id) = IF x = address THEN SeatsOf(s, id)
                                           ELSE SeatsIn(g, x, id)
  BY <1>2, <1>4, <1>5 DEF SeatsIn
<1> QED
  BY <1>4, <1>5, <1>6, <1>7, <1>8, <1>9 DEF GameHolds, h

(* The rooms of a player are those it has a seat in. *)
LEMMA RoomsAndSeats ==
  ASSUME NEW g, NEW id
  PROVE  \A x \in Address : x \in RoomsOf(g, id) <=> SeatsIn(g, x, id) # {}
  BY DEF RoomsOf, SeatsIn, HasPlayerWithId

LEMMA SameRooms ==
  ASSUME NEW g, NEW h, NEW id,
         \A x \in Address : SeatsIn(h, x, id) = SeatsIn(g, x, id)
  PROVE  RoomsOf(h, id) = RoomsOf(g, id)
<1>1. /\ RoomsOf(h, id) \subseteq Address
      /\ RoomsOf(g, id) \subseteq Address
  BY DEF RoomsOf
<1> QED
  BY <1>1, RoomsAndSeats

LEMMA SameSeatsTell ==
  ASSUME NEW g, GameHolds(g), NEW h, h.published = g.published,
         \A x \in Address : \A id \in PlayerId :
           SeatsIn(h, x, id) = SeatsIn(g, x, id)
  PROVE  NobodyAbsent(g) => NobodyAbsent(h)
<1> SUFFICES ASSUME NobodyAbsent(g), NEW i \in DOMAIN g.published
             PROVE  RoomsOf(h, g.published[i].to) # {}
  BY DEF NobodyAbsent
<1>1. g.published \in Seq(Published)
  BY DEF GameHolds, Game
<1>2. g.published[i] \in Published
  BY <1>1
<1>3. g.published[i].to \in PlayerId
  BY <1>2 DEF Published
<1> QED
  BY <1>3, SameRooms DEF NobodyAbsent

(* Those told of a call are in a room, as those told before still are. *)
LEMMA CallRoomTells ==
  ASSUME NEW g, GameHolds(g), NobodyAbsent(g),
         NEW address \in Address, Alive(g, address),
         NEW s, Sound(s), Addressed(s),
         \A i \in DOMAIN g.published :
           HasPlayerWithId(g.room[address], g.published[i].to) =>
             HasPlayerWithId(s, g.published[i].to)
  PROVE  NobodyAbsent(CallRoom(g, address, s))
<1> DEFINE h == CallRoom(g, address, s)
<1>1. /\ h.published = g.published \o s.published
      /\ \A x \in Address : \A id :
           SeatsIn(h, x, id) = IF x = address THEN SeatsOf(s, id)
                                              ELSE SeatsIn(g, x, id)
  BY CallRoomFacts, ZenonT(40)
<1>2. g.published \in Seq(Published) /\ s.published \in Seq(Published)
  BY DEF GameHolds, Game, Sound, RoomState
<1> HIDE DEF h
<1>3. ASSUME NEW i \in DOMAIN h.published
      PROVE  \E x \in Address : SeatsIn(h, x, h.published[i].to) # {}
  <2>1. CASE i \in DOMAIN g.published
    <3>1. h.published[i] = g.published[i]
      BY <1>1, <1>2, <2>1
    <3> DEFINE to == g.published[i].to
    <3>2. PICK x \in Address : SeatsIn(g, x, to) # {}
      BY <2>1, RoomsAndSeats DEF NobodyAbsent, RoomsOf
    <3>3. HasPlayerWithId(g.room[address], to) => HasPlayerWithId(s, to)
      BY <2>1
    <3> HIDE DEF to
    <3>4. x = address => SeatsIn(h, x, to) # {}
      BY <1>1, <3>2, <3>3 DEF SeatsIn, HasPlayerWithId
    <3>5. x # address => SeatsIn(h, x, to) # {}
      BY <1>1, <3>2
    <3>6. \E y \in Address : SeatsIn(h, y, to) # {}
      BY <3>4, <3>5
    <3> QED
      BY <3>1, <3>6 DEF to
  <2>2. CASE i \notin DOMAIN g.published
    <3> DEFINE p == g.published
               q == s.published
    <3>1. /\ p \in Seq(Published) /\ q \in Seq(Published)
          /\ i \in DOMAIN (p \o q) /\ i \notin DOMAIN p
          /\ h.published[i] = (p \o q)[i]
      BY <1>1, <1>2, <1>3, <2>2
    <3> HIDE DEF p, q
    <3>2. i - Len(p) \in DOMAIN q /\ h.published[i] = q[i - Len(p)]
      BY <3>1, SecondPart
    <3>3. HasPlayerWithId(s, h.published[i].to)
      BY <3>2 DEF Addressed, q
    <3> QED
      BY <1>1, <3>3 DEF HasPlayerWithId
  <2> QED
    BY <2>1, <2>2
<1> QED
  BY <1>3, RoomsAndSeats DEF NobodyAbsent, h

-----------------------------------------------------------------------------
(* Calls that leave everybody in place *)

(* From g to h nobody comes or goes, and whoever is told is there. *)
SameCompany(h, g) ==
  /\ GameHolds(h)
  /\ h.rooms = g.rooms /\ h.callbacks = g.callbacks
  /\ \A x \in Address :
       /\ Alive(h, x) <=> Alive(g, x)
       /\ Alive(g, x) => h.room[x].difficulty = g.room[x].difficulty
       /\ \A id \in PlayerId : SeatsIn(h, x, id) = SeatsIn(g, x, id)
  /\ NobodyAbsent(g) => NobodyAbsent(h)

(* Only rooms that id is in change. *)
AtHome(h, g, id) ==
  \A x \in Address : SeatsIn(g, x, id) = {} => h.room[x] = g.room[x]

LEMMA SameCompanyTransitive ==
  ASSUME NEW f, NEW g, NEW h, SameCompany(g, f), SameCompany(h, g)
  PROVE  /\ SameCompany(h, f)
         /\ \A id \in PlayerId :
              AtHome(g, f, id) /\ AtHome(h, g, id) => AtHome(h, f, id)
<1>1. SameCompany(h, f)
  BY DEF SameCompany
<1>2. ASSUME NEW id \in PlayerId, AtHome(g, f, id), AtHome(h, g, id),
             NEW x \in Address, SeatsIn(f, x, id) = {}
      PROVE  h.room[x] = f.room[x]
  BY <1>2 DEF SameCompany, AtHome
<1> QED
  BY <1>1, <1>2 DEF AtHome

LEMMA SameCompanyReflexive ==
  ASSUME NEW g, GameHolds(g)
  PROVE  SameCompany(g, g) /\ \A id : AtHome(g, g, id)
  BY DEF SameCompany, AtHome

(* A call of a room that keeps its seats. *)
LEMMA CallRoomKeepsCompany ==
  ASSUME NEW g, GameHolds(g), NEW address \in Address, Alive(g, address),
         NEW s, Sound(s), KeepsSeats(s, g.room[address])
  PROVE  SameCompany(CallRoom(g, address, s), g)
<1> DEFINE h == CallRoom(g, address, s)
           r == g.room[address]
<1>1. /\ GameHolds(h)
      /\ h.rooms = g.rooms /\ h.callbacks = g.callbacks
      /\ h.published = g.published \o s.published
      /\ h.room[address] = Begin(s)
      /\ \A x \in Address \ {address} : h.room[x] = g.room[x]
      /\ \A x \in Address : Alive(h, x) <=> Alive(g, x)
      /\ \A x \in Address : \A id :
           SeatsIn(h, x, id) = IF x = address THEN SeatsOf(s, id)
                                              ELSE SeatsIn(g, x, id)
  BY CallRoomFacts
<1>2. /\ Begin(s).difficulty = s.difficulty
      /\ s.difficulty = r.difficulty
      /\ \A id : SeatsOf(s, id) = SeatsOf(r, id)
      /\ \A id : HasPlayerWithId(s, id) <=> HasPlayerWithId(r, id)
  <2>1. SameSeating(s, r)
    BY DEF KeepsSeats
  <2>2. Begin(s).difficulty = s.difficulty
    BY BegunRoom
  <2> HIDE DEF r
  <2> QED
    BY <2>1, <2>2, SameSeatingSeats DEF SameSeating
<1>3. Addressed(s)
  <2>1. r.published = << >>
    BY LiveRoom
  <2>2. Addressed(r)
    BY <2>1 DEF Addressed
  <2> QED
    BY <2>2 DEF KeepsSeats
<1>4. NobodyAbsent(g) => NobodyAbsent(h)
  BY <1>2, <1>3, CallRoomTells
<1> HIDE DEF h
<1>5. \A x \in Address : \A id : SeatsIn(h, x, id) = SeatsIn(g, x, id)
  BY <1>1, <1>2 DEF SeatsIn
<1>6. \A x \in Address :
        Alive(g, x) => h.room[x].difficulty = g.room[x].difficulty
  BY <1>1, <1>2
<1> QED
  BY <1>1, <1>4, <1>5, <1>6 DEF SameCompany, h

LEMMA TickRoomKeepsCompany ==
  ASSUME NEW g, GameHolds(g), NEW address \in Address, Alive(g, address),
         NEW input \in GameplayInput
  PROVE  SameCompany(TickRoom(g, address, input), g)
<1> DEFINE s == Tick(g.room[address], input)
<1>1. Sound(g.room[address])
  BY LiveRoom
<1>2. Sound(s) /\ KeepsSeats(s, g.room[address])
  BY <1>1, TickIsSound, TickKeepsSeats
<1>3. TickRoom(g, address, input) = CallRoom(g, address, s)
  BY DEF TickRoom
<1> HIDE DEF s
<1> QED
  BY <1>2, <1>3, CallRoomKeepsCompany

(* What the tick of each room keeps, ticking all of them keeps. *)
LEMMA TickAllRoomsStays ==
  ASSUME NEW g, GameHolds(g), NEW input, NEW X, g \in X,
         \A h \in X : \A n \in DOMAIN g.rooms :
           TickRoom(h, g.rooms[n], input[g.rooms[n]]) \in X
  PROVE  TickAllRooms(g, input) \in X
<1> DEFINE last == Len(g.rooms)
           S == [n \in 0..last |-> X]
           next(h, n) == TickRoom(h, g.rooms[n], input[g.rooms[n]])
           step == [n \in 1..last |-> [h \in X |-> next(h, n)]]
           Ticked(f) == f = [n \in 0..last |-> IF n = 0 THEN g
                                               ELSE next(f[n - 1], n)]
           ticked == CHOOSE f : Ticked(f)
<1>1. TickAllRooms(g, input) = ticked[last]
  BY DEF TickAllRooms
<1>2. last \in Nat /\ 1..last = DOMAIN g.rooms
  BY ListedRoom
<1>3. \A n \in 1..last : \A h \in X : next(h, n) \in X
  BY <1>2
<1> HIDE DEF last, next
<1>4. \A n \in 1..last : n - 1 \in 0..last /\ n \in 0..last /\ n # 0
  BY <1>2
<1>5. /\ \A n \in 0..last : S[n] = X
      /\ \A n \in 1..last : \A h \in X : step[n][h] = next(h, n)
      /\ 0 \in 0..last
  BY <1>2
<1>6. PICK f : Iterates(f, S, g, last, step)
  <2> HIDE DEF S, step
  <2>1. \A n \in 1..last : \A h \in S[n - 1] : step[n][h] \in S[n]
    BY <1>3, <1>4, <1>5
  <2>2. g \in S[0]
    BY <1>5
  <2> QED
    BY <1>2, <2>1, <2>2, IterationExists
<1> HIDE DEF S, step
<1>7. Ticked(f)
  <2>1. \A n \in 1..last : f[n] = next(f[n - 1], n)
    BY <1>4, <1>5, <1>6, ZenonT(40) DEF Iterates
  <2>2. \A n \in 0..last : f[n] = IF n = 0 THEN g ELSE next(f[n - 1], n)
    <3> TAKE n \in 0..last
    <3>1. n = 0 \/ n \in 1..last
      BY <1>2
    <3>2. f[0] = g
      BY <1>6 DEF Iterates
    <3> QED
      BY <1>4, <2>1, <3>1, <3>2
  <2>3. f = [n \in 0..last |-> f[n]]
    BY <1>6 DEF Iterates
  <2> QED
    BY <2>2, <2>3
<1>8. Ticked(ticked)
  BY <1>7
<1> HIDE DEF ticked
<1>9. ticked[0] \in S[0]
  BY <1>5, <1>8
<1>10. \A n \in 1..last : ticked[n - 1] \in S[n - 1] => ticked[n] \in S[n]
  <2> TAKE n \in 1..last
  <2>1. ticked[n] = next(ticked[n - 1], n)
    BY <1>4, <1>8
  <2> QED
    BY <1>3, <1>4, <1>5, <2>1
<1>11. \A n \in 0..last : ticked[n] \in S[n]
  BY <1>2, <1>9, <1>10, IterationStays
<1>12. ticked[last] \in X
  BY <1>2, <1>5, <1>11
<1> QED
  BY <1>1, <1>12

(* Nobody comes or goes when the rooms are ticked. *)
LEMMA TickAllRoomsKeepsCompany ==
  ASSUME NEW g, GameHolds(g), NEW input \in [Address -> GameplayInput]
  PROVE  SameCompany(TickAllRooms(g, input), g)
<1> DEFINE X == {h \in Game : SameCompany(h, g)}
<1>1. g \in X
  BY SameCompanyReflexive DEF GameHolds
<1>2. ASSUME NEW h \in X, NEW n \in DOMAIN g.rooms
      PROVE  TickRoom(h, g.rooms[n], input[g.rooms[n]]) \in X
  <2> DEFINE k == TickRoom(h, g.rooms[n], input[g.rooms[n]])
  <2>1. g.rooms[n] \in Address /\ Alive(g, g.rooms[n])
    BY ListedRoom
  <2>2. GameHolds(h) /\ SameCompany(h, g) /\ Alive(h, g.rooms[n])
    BY <2>1 DEF SameCompany
  <2>3. SameCompany(k, h)
    BY <2>1, <2>2, TickRoomKeepsCompany
  <2> HIDE DEF k
  <2>4. SameCompany(k, g)
    BY <2>2, <2>3, SameCompanyTransitive
  <2>5. k \in X
    BY <2>4 DEF SameCompany, GameHolds
  <2> QED
    BY <2>5 DEF k
<1> HIDE DEF X
<1>3. TickAllRooms(g, input) \in X
  BY <1>1, <1>2, TickAllRoomsStays
<1> QED
  BY <1>3 DEF X

-----------------------------------------------------------------------------
(* The callback of a room *)

(* From g to h nothing changed but that id has left rooms it was in. *)
Without(h, g, id) ==
  /\ GameHolds(h)
  /\ h.callbacks = g.callbacks
  /\ \A x \in Address :
       /\ Alive(h, x) => Alive(g, x)
       /\ Alive(h, x) => h.room[x].difficulty = g.room[x].difficulty
       /\ SeatsIn(h, x, id) \subseteq SeatsIn(g, x, id)
       /\ \A other \in PlayerId \ {id} : SeatsIn(h, x, other) = SeatsIn(g, x, other)
  /\ AtHome(h, g, id)

LEMMA WithoutReflexive ==
  ASSUME NEW g, GameHolds(g), NEW id
  PROVE  Without(g, g, id)
  BY DEF Without, AtHome

LEMMA WithoutTransitive ==
  ASSUME NEW f, NEW g, NEW h, NEW id, Without(g, f, id), Without(h, g, id)
  PROVE  Without(h, f, id)
<1>1. AtHome(h, f, id)
  <2> SUFFICES ASSUME NEW x \in Address, SeatsIn(f, x, id) = {}
               PROVE  h.room[x] = f.room[x]
    BY DEF AtHome
  <2>1. SeatsIn(g, x, id) = {}
    BY DEF Without
  <2> QED
    BY <2>1 DEF Without, AtHome
<1> QED
  BY <1>1 DEF Without

(* A call that does nothing to its room does nothing at all. *)
LEMMA IdleCall ==
  ASSUME NEW g, GameHolds(g), NEW address \in Address, Alive(g, address)
  PROVE  CallRoom(g, address, g.room[address]) = g
<1>1. /\ g \in Game
      /\ Begin(g.room[address]) = g.room[address]
      /\ g.room[address].published = << >>
  BY LiveRoom DEF GameHolds
<1>2. g.published \o << >> = g.published
  BY <1>1 DEF Game
<1>3. CallRoom(g, address, g.room[address])
        = [g EXCEPT !.room[address] = g.room[address],
                    !.published = g.published]
  BY <1>1, <1>2 DEF CallRoom
<1> QED
  BY <1>1, <1>3 DEF Game

(* A player leaves one of its rooms, on a seat it had there. *)
LEMMA RemoveFromLiveRoom ==
  ASSUME NEW g, GameHolds(g), NEW address \in Address, Alive(g, address),
         NEW id \in PlayerId, HasPlayerWithId(g.room[address], id)
  PROVE  LET s == RemovePlayer(g.room[address], id)
             h == CallRoom(g, address, s)
         IN /\ Sound(s) /\ Addressed(s)
            /\ Without(h, g, id)
            /\ \E a \in SeatsIn(g, address, id) :
                 SeatsOf(s, id) = SeatsIn(g, address, id) \ {a}
            /\ \A x \in Address \ {address} : SeatsIn(h, x, id) = SeatsIn(g, x, id)
            /\ \A other \in PlayerId \ {id} :
                 SeatsOf(s, other) = SeatsIn(g, address, other)
<1> DEFINE r == g.room[address]
           s == RemovePlayer(r, id)
           h == CallRoom(g, address, s)
           a == GetPlayerById(r, id)
<1>1. Sound(r) /\ r.published = << >> /\ r \in RoomState
  BY LiveRoom
<1>2. /\ s.difficulty = r.difficulty
      /\ SeatsOf(s, id) = SeatsOf(r, id) \ {a}
      /\ \A other \in PlayerId \ {id} : SeatsOf(s, other) = SeatsOf(r, other)
      /\ Addressed(s)
  <2> HIDE DEF r
  <2>1. HasPlayerWithId(r, id)
    BY DEF r
  <2> QED
    BY <1>1, <2>1, RemovePlayerSeats
<1>3. Sound(s)
  BY <1>1, RemovePlayerIsSound
<1>4. a \in SeatsOf(r, id)
  BY DEF HasPlayerWithId, GetPlayerById, SeatsOf, Assignment
<1> HIDE DEF s
<1>5. /\ GameHolds(h)
      /\ h.rooms = g.rooms /\ h.callbacks = g.callbacks
      /\ h.published = g.published \o s.published
      /\ h.room[address] = Begin(s)
      /\ \A x \in Address \ {address} : h.room[x] = g.room[x]
      /\ \A x \in Address : Alive(h, x) <=> Alive(g, x)
      /\ \A x \in Address : \A y :
           SeatsIn(h, x, y) = IF x = address THEN SeatsOf(s, y)
                                             ELSE SeatsIn(g, x, y)
  BY <1>3, CallRoomFacts
<1> HIDE DEF h
<1>6. \A y : SeatsIn(g, address, y) = SeatsOf(r, y)
  BY DEF SeatsIn
<1>7. Begin(s).difficulty = r.difficulty
  BY <1>2, <1>3, BegunRoom
<1>8. AtHome(h, g, id)
  <2>1. SeatsIn(g, address, id) # {}
    BY <1>4, <1>6
  <2> QED
    BY <1>5, <2>1 DEF AtHome
<1>9. \A x \in Address : h.room[x].difficulty = g.room[x].difficulty
  BY <1>5, <1>7
<1>10. \A x \in Address :
         /\ SeatsIn(h, x, id) \subseteq SeatsIn(g, x, id)
         /\ \A other \in PlayerId \ {id} :
              SeatsIn(h, x, other) = SeatsIn(g, x, other)
  BY <1>2, <1>5, <1>6
<1>11. Without(h, g, id)
  BY <1>5, <1>8, <1>9, <1>10 DEF Without
<1>12. /\ \E b \in SeatsIn(g, address, id) :
            SeatsOf(s, id) = SeatsIn(g, address, id) \ {b}
       /\ \A x \in Address \ {address} : SeatsIn(h, x, id) = SeatsIn(g, x, id)
       /\ \A other \in PlayerId \ {id} :
            SeatsOf(s, other) = SeatsIn(g, address, other)
  BY <1>2, <1>4, <1>5, <1>6
<1> QED
  BY <1>2, <1>3, <1>11, <1>12 DEF h, s

(* What a player sends reaches only the room it is in, and only LEAVE_GAME *)
(* moves it there.                                                         *)
LEMMA RoomCallbackFacts ==
  ASSUME NEW g, GameHolds(g), NEW id \in PlayerId,
         NEW m \in PlayerActionMessage, NEW context \in Address, NEW fresh
  PROVE  LET h == Callback(g, id, m, context, fresh)
         IN /\ m \in JoinGame => h = g
            /\ SeatsIn(g, context, id) = {} => h = g
            /\ m \in LeaveGame => Without(h, g, id)
            /\ m \in RoomActionMessage \ LeaveGame =>
                 SameCompany(h, g) /\ AtHome(h, g, id)
<1> DEFINE h == Callback(g, id, m, context, fresh)
           r == g.room[context]
           s == HandlePlayerMessage(r, id, m)
<1>1. context # GAMEPLAY
  BY ContextAssumption
<1>2. CASE ~ Alive(g, context)
  <2>1. h = g
    BY <1>1, <1>2 DEF Callback
  <2> QED
    BY <2>1, WithoutReflexive, SameCompanyReflexive
<1>3. CASE Alive(g, context)
  <2>1. h = CallRoom(g, context, s)
    BY <1>1, <1>3 DEF Callback
  <2>2. Sound(r)
    BY <1>3, LiveRoom
  <2>3. SeatsIn(g, context, id) = SeatsOf(r, id)
    BY <1>3 DEF SeatsIn
  <2>4. CallRoom(g, context, r) = g
    BY <1>3, IdleCall
  <2>5. s = r => h = g
    BY <2>1, <2>4
  <2>6. m \in JoinGame => s = r
    BY RoomMessages
  <2>7. SeatsOf(r, id) = {} => s = r
    BY RoomMessages DEF HasPlayerWithId
  <2>8. ASSUME m \in LeaveGame, SeatsOf(r, id) # {}
        PROVE  Without(h, g, id)
    <3>1. s = RemovePlayer(r, id)
      BY <2>8, RoomMessages
    <3> QED
      BY <1>3, <2>1, <2>8, <3>1, RemoveFromLiveRoom DEF HasPlayerWithId
  <2>9. ASSUME m \in RoomActionMessage \ LeaveGame
        PROVE  SameCompany(h, g)
    <3>1. Sound(s) /\ KeepsSeats(s, r)
      BY <2>2, <2>9, PlayerMessageIsSound, PlayerMessageKeepsSeats
    <3> HIDE DEF s
    <3> QED
      BY <1>3, <2>1, <3>1, CallRoomKeepsCompany
  <2>10. ASSUME SeatsOf(r, id) # {}, SameCompany(h, g)
         PROVE  AtHome(h, g, id)
    <3> SUFFICES ASSUME NEW x \in Address, SeatsIn(g, x, id) = {}
                 PROVE  h.room[x] = g.room[x]
      BY DEF AtHome
    <3>1. x # context
      BY <2>3, <2>10
    <3> QED
      BY <2>1, <3>1 DEF CallRoom, GameHolds, Game
  <2> HIDE DEF h, s, r
  <2>11. SeatsOf(r, id) = {} => h = g
    BY <2>5, <2>7
  <2> QED
    BY <2>3, <2>5, <2>6, <2>8, <2>9, <2>10, <2>11, WithoutReflexive,
       SameCompanyReflexive DEF h
<1> QED
  BY <1>2, <1>3

-----------------------------------------------------------------------------
(* JOIN_GAME *)

(* From g to h nothing changed but that id has got seat a of the room at   *)
(* address, and a callback of that room.                                   *)
Seated(h, g, id, address, a) ==
  /\ GameHolds(h)
  /\ h.callbacks = [g.callbacks EXCEPT ![id] = Append(@, address)]
  /\ Alive(h, address)
  /\ \A x \in Address \ {address} : h.room[x] = g.room[x]
  /\ a \notin SeatsIn(g, address, id)
  /\ SeatsIn(h, address, id) = SeatsIn(g, address, id) \cup {a}
  /\ \A other \in PlayerId \ {id} :
       SeatsIn(h, address, other) = SeatsIn(g, address, other)
  /\ NobodyAbsent(g) => NobodyAbsent(h)

LEMMA SubscribeFacts ==
  ASSUME NEW g, GameHolds(g), NEW id \in PlayerId, g.callbacks[id] # << >>,
         NEW address \in Address
  PROVE  LET h == Subscribe(g, id, address)
         IN /\ GameHolds(h)
            /\ h.rooms = g.rooms /\ h.room = g.room
            /\ h.published = g.published
            /\ h.callbacks = [g.callbacks EXCEPT ![id] = Append(@, address)]
<1> DEFINE h == Subscribe(g, id, address)
           longer == Append(g.callbacks[id], address)
<1>1. g \in Game /\ g.callbacks[id] \in Seq(Address \cup {GAMEPLAY})
  BY DEF GameHolds, Game
<1>2. longer \in Seq(Address \cup {GAMEPLAY})
  BY <1>1
<1>3. ManagerFirst(longer)
  <2> SUFFICES ASSUME NEW i \in DOMAIN longer
               PROVE  longer[i] = GAMEPLAY <=> i = 1
    BY DEF ManagerFirst
  <2>1. ManagerFirst(g.callbacks[id])
    BY DEF GameHolds
  <2>2. Len(g.callbacks[id]) >= 1
    BY <1>1
  <2>3. CASE i \in DOMAIN g.callbacks[id]
    <3>1. longer[i] = g.callbacks[id][i]
      BY <1>1, <2>3
    <3> QED
      BY <2>1, <2>3, <3>1 DEF ManagerFirst
  <2>4. CASE i \notin DOMAIN g.callbacks[id]
    <3>1. i = Len(g.callbacks[id]) + 1 /\ longer[i] = address
      BY <1>1, <2>4
    <3>2. address # GAMEPLAY
      BY ContextAssumption
    <3> QED
      BY <2>2, <3>1, <3>2
  <2> QED
    BY <2>3, <2>4
<1>4. /\ h.rooms = g.rooms /\ h.room = g.room
      /\ h.published = g.published
      /\ h.callbacks = [g.callbacks EXCEPT ![id] = longer]
  BY <1>1 DEF Subscribe, Game
<1> HIDE DEF longer
<1>5. h \in Game
  BY <1>1, <1>2 DEF Subscribe, Game, longer
<1> HIDE DEF h
<1>6. LiveRoomsFit(h) /\ RoomsListed(h)
  BY <1>4 DEF GameHolds, LiveRoomsFit, RoomsListed, Alive
<1>7. \A other \in PlayerId : ManagerFirst(h.callbacks[other])
  <2> TAKE other \in PlayerId
  <2>1. h.callbacks[other] = IF other = id THEN longer ELSE g.callbacks[other]
    BY <1>1, <1>4 DEF Game
  <2> QED
    BY <1>3, <2>1 DEF GameHolds
<1> QED
  BY <1>4, <1>5, <1>6, <1>7 DEF GameHolds, h, longer

LEMMA JoinRoomFacts ==
  ASSUME NEW g, GameHolds(g), NEW id \in PlayerId, g.callbacks[id] # << >>,
         NEW address \in Address, Alive(g, address),
         ~ IsFull(g.room[address])
  PROVE  LET h == JoinRoom(g, address, id)
         IN /\ \E a \in Assignment : Seated(h, g, id, address, a)
            /\ h.rooms = g.rooms
            /\ h.room[address].difficulty = g.room[address].difficulty
<1> DEFINE r == g.room[address]
           s == AddPlayer(r, id)
           k == CallRoom(g, address, s)
           h == JoinRoom(g, address, id)
<1>1. Sound(r) /\ r.published = << >>
  BY LiveRoom
<1>2. Sound(s)
  BY <1>1, AddPlayerIsSound
<1>3. PICK a \in Assignment : /\ ~ IsSeated(r, a)
                              /\ SeatsOf(s, id) = SeatsOf(r, id) \cup {a}
  BY <1>1, AddPlayerSeats
<1>4. /\ s.difficulty = r.difficulty
      /\ \A other \in PlayerId \ {id} : SeatsOf(s, other) = SeatsOf(r, other)
      /\ Addressed(s)
  <2>1. Addressed(r)
    BY <1>1 DEF Addressed
  <2> QED
    BY <1>1, <2>1, AddPlayerSeats
<1>5. h = Subscribe(k, id, address)
  BY DEF JoinRoom
<1> HIDE DEF s
<1>6. /\ GameHolds(k)
      /\ k.rooms = g.rooms /\ k.callbacks = g.callbacks
      /\ k.published = g.published \o s.published
      /\ k.room[address] = Begin(s)
      /\ \A x \in Address \ {address} : k.room[x] = g.room[x]
      /\ \A x \in Address : Alive(k, x) <=> Alive(g, x)
      /\ \A x \in Address : \A y :
           SeatsIn(k, x, y) = IF x = address THEN SeatsOf(s, y)
                                             ELSE SeatsIn(g, x, y)
  BY <1>2, CallRoomFacts
<1>7. NobodyAbsent(g) => NobodyAbsent(k)
  <2> SUFFICES ASSUME NobodyAbsent(g) PROVE NobodyAbsent(k)
    OBVIOUS
  <2>1. ASSUME NEW i \in DOMAIN g.published,
               HasPlayerWithId(r, g.published[i].to)
        PROVE  HasPlayerWithId(s, g.published[i].to)
    <3>1. g.published \in Seq(Published)
      BY DEF GameHolds, Game
    <3>2. g.published[i] \in Published
      BY <3>1
    <3>3. g.published[i].to \in PlayerId
      BY <3>2 DEF Published
    <3> QED
      BY <1>3, <1>4, <2>1, <3>3 DEF HasPlayerWithId
  <2> QED
    BY <1>2, <1>4, <2>1, CallRoomTells
<1> HIDE DEF k
<1>8. /\ GameHolds(h)
      /\ h.rooms = k.rooms /\ h.room = k.room
      /\ h.published = k.published
      /\ h.callbacks = [k.callbacks EXCEPT ![id] = Append(@, address)]
  <2>1. GameHolds(k) /\ k.callbacks[id] # << >>
    BY <1>6
  <2> HIDE DEF h
  <2> QED
    BY <1>5, <2>1, SubscribeFacts
<1> HIDE DEF h
<1>9. \A x \in Address : \A y : SeatsIn(h, x, y) = SeatsIn(k, x, y)
  BY <1>8 DEF SeatsIn, Alive
<1>10. \A y : SeatsIn(g, address, y) = SeatsOf(r, y)
  BY DEF SeatsIn
<1>11. a \notin SeatsIn(g, address, id)
  BY <1>3, <1>10 DEF SeatsOf
<1>12. NobodyAbsent(k) => NobodyAbsent(h)
  BY <1>8, <1>9, RoomsAndSeats DEF NobodyAbsent, RoomsOf, Alive
<1>13. Seated(h, g, id, address, a)
  <2>1. Alive(h, address)
    BY <1>6, <1>8 DEF Alive
  <2>2. SeatsIn(h, address, id) = SeatsIn(g, address, id) \cup {a}
    BY <1>3, <1>6, <1>9, <1>10
  <2>3. \A other \in PlayerId \ {id} :
          SeatsIn(h, address, other) = SeatsIn(g, address, other)
    BY <1>4, <1>6, <1>9, <1>10
  <2> QED
    BY <1>6, <1>7, <1>8, <1>11, <1>12, <2>1, <2>2, <2>3 DEF Seated
<1>14. h.room[address].difficulty = r.difficulty
  BY <1>2, <1>4, <1>6, <1>8, BegunRoom
<1> QED
  BY <1>6, <1>8, <1>13, <1>14 DEF h

(* A new room is a room nobody is in. *)
LEMMA NewRoomFacts ==
  ASSUME NEW g, GameHolds(g), NEW fresh \in Address, ~ Alive(g, fresh),
         NEW d \in GameDifficulty
  PROVE  LET k == [g EXCEPT !.rooms = Append(@, fresh),
                            !.room[fresh] = NewRoom(d)]
         IN /\ GameHolds(k)
            /\ k.callbacks = g.callbacks /\ k.published = g.published
            /\ k.room[fresh] = NewRoom(d) /\ Alive(k, fresh)
            /\ \A x \in Address \ {fresh} : k.room[x] = g.room[x]
            /\ \A x \in Address : \A id : SeatsIn(k, x, id) = SeatsIn(g, x, id)
<1> DEFINE new == NewRoom(d)
           k == [g EXCEPT !.rooms = Append(@, fresh), !.room[fresh] = new]
<1>1. g \in Game /\ g.rooms \in Seq(Address)
  BY DEF GameHolds, Game
<1>2. /\ Sound(new) /\ new \in RoomState /\ new # NULL
      /\ new.published = << >>
      /\ \A id : SeatsOf(new, id) = {}
  <2>1. Sound(new) /\ new \in RoomState
    BY NewRoomIsSound DEF Sound
  <2>2. new.published = << >> /\ \A a \in Assignment : new.players[a] = NULL
    BY DEF NewRoom
  <2> HIDE DEF new
  <2> QED
    BY <2>1, <2>2, ContextAssumption DEF SeatsOf, IsSeated
<1> HIDE DEF new
<1>3. Append(g.rooms, fresh) \in Seq(Address)
  BY <1>1
<1>4. /\ k \in Game
      /\ k.rooms = Append(g.rooms, fresh)
      /\ k.callbacks = g.callbacks /\ k.published = g.published
      /\ k.room[fresh] = new
      /\ \A x \in Address \ {fresh} : k.room[x] = g.room[x]
  BY <1>1, <1>2, <1>3 DEF Game
<1> HIDE DEF k
<1>5. /\ Alive(k, fresh)
      /\ \A x \in Address \ {fresh} : Alive(k, x) <=> Alive(g, x)
  BY <1>2, <1>4 DEF Alive
<1>6. LiveRoomsFit(k)
  BY <1>2, <1>4, <1>5 DEF GameHolds, LiveRoomsFit
<1>7. RoomsListed(k)
  <2>1. /\ DOMAIN k.rooms = 1..(Len(g.rooms) + 1)
        /\ k.rooms[Len(g.rooms) + 1] = fresh
        /\ DOMAIN g.rooms = 1..Len(g.rooms) /\ Len(g.rooms) \in Nat
        /\ \A i \in DOMAIN g.rooms : k.rooms[i] = g.rooms[i]
    BY <1>1, <1>4
  <2>2. \A i \in DOMAIN k.rooms :
          i \in DOMAIN g.rooms \/ i = Len(g.rooms) + 1
    BY <2>1
  <2>3. \A i \in DOMAIN g.rooms : i \in DOMAIN k.rooms
    BY <2>1
  <2>4. Len(g.rooms) + 1 \in DOMAIN k.rooms
    BY <2>1
  <2>5. \A i \in DOMAIN g.rooms : g.rooms[i] # fresh
    BY ListedRoom
  <2>6. {k.rooms[i] : i \in DOMAIN k.rooms}
          = {g.rooms[i] : i \in DOMAIN g.rooms} \cup {fresh}
    BY <2>1, <2>2, <2>3, <2>4
  <2>7. {k.rooms[i] : i \in DOMAIN k.rooms}
          = {address \in Address : Alive(k, address)}
    BY <1>5, <2>6 DEF GameHolds, RoomsListed
  <2>8. ASSUME NEW i \in DOMAIN k.rooms, NEW j \in DOMAIN k.rooms,
               k.rooms[i] = k.rooms[j]
        PROVE  i = j
    BY <2>1, <2>2, <2>5, <2>8 DEF GameHolds, RoomsListed
  <2> QED
    BY <2>7, <2>8 DEF RoomsListed
<1>8. \A x \in Address : \A id : SeatsIn(k, x, id) = SeatsIn(g, x, id)
  BY <1>2, <1>4, <1>5 DEF SeatsIn
<1> QED
  BY <1>4, <1>5, <1>6, <1>7, <1>8 DEF GameHolds, k, new

(* Whoever asks for a room gets a seat in one of that difficulty, which is *)
(* a new one only if all others of it are full.                            *)
LEMMA AddPlayerToRoomFacts ==
  ASSUME NEW g, GameHolds(g), NEW id \in PlayerId, g.callbacks[id] # << >>,
         NEW d \in GameDifficulty, NEW fresh,
         FindRoom(g, d) = 0 => fresh \in Address /\ ~ Alive(g, fresh)
  PROVE  LET h == AddPlayerToRoom(g, id, d, fresh)
         IN \E address \in Address, a \in Assignment :
              /\ Seated(h, g, id, address, a)
              /\ h.room[address].difficulty = d
              /\ Alive(g, address) => g.room[address].difficulty = d
              /\ ~ Alive(g, address) =>
                   \A x \in Address :
                     Alive(g, x) /\ g.room[x].difficulty = d =>
                       IsFull(g.room[x])
<1> DEFINE h == AddPlayerToRoom(g, id, d, fresh)
           found == FindRoom(g, d)
           k == [g EXCEPT !.rooms = Append(@, fresh), !.room[fresh] = NewRoom(d)]
<1>1. g.rooms \in Seq(Address)
  BY ListedRoom
<1>2. CASE found # 0
  <2> DEFINE address == g.rooms[found]
  <2>1. /\ found \in DOMAIN g.rooms
        /\ ~ IsFull(g.room[address])
        /\ g.room[address].difficulty = d
    BY <1>1, <1>2, FoundRoom
  <2>2. h = JoinRoom(g, address, id)
    BY <1>2 DEF AddPlayerToRoom
  <2>3. address \in Address /\ Alive(g, address)
    BY <2>1, ListedRoom
  <2> HIDE DEF h, address
  <2>4. /\ \E a \in Assignment : Seated(h, g, id, address, a)
        /\ h.room[address].difficulty = g.room[address].difficulty
    BY <2>1, <2>2, <2>3, JoinRoomFacts
  <2> QED
    BY <2>1, <2>3, <2>4 DEF h
<1>3. CASE found = 0
  <2>1. fresh \in Address /\ ~ Alive(g, fresh)
    BY <1>3
  <2>2. h = JoinRoom(k, fresh, id)
    BY <1>3 DEF AddPlayerToRoom
  <2>3. /\ GameHolds(k)
        /\ k.callbacks = g.callbacks /\ k.published = g.published
        /\ k.room[fresh] = NewRoom(d) /\ Alive(k, fresh)
        /\ \A x \in Address \ {fresh} : k.room[x] = g.room[x]
        /\ \A x \in Address : \A y : SeatsIn(k, x, y) = SeatsIn(g, x, y)
    BY <2>1, NewRoomFacts, ZenonT(40)
  <2> HIDE DEF h, k
  <2>4. ~ IsFull(k.room[fresh]) /\ k.room[fresh].difficulty = d
    BY <2>3 DEF NewRoom, IsFull, IsSeated, Assignment
  <2>5. /\ \E a \in Assignment : Seated(h, k, id, fresh, a)
        /\ h.room[fresh].difficulty = d
    BY <2>1, <2>2, <2>3, <2>4, JoinRoomFacts
  <2>6. NobodyAbsent(g) => NobodyAbsent(k)
    BY <2>3, SameSeatsTell
  <2>7. ASSUME NEW a \in Assignment, Seated(h, k, id, fresh, a)
        PROVE  Seated(h, g, id, fresh, a)
    BY <2>1, <2>3, <2>6, <2>7 DEF Seated
  <2>8. \A x \in Address : Alive(g, x) /\ g.room[x].difficulty = d =>
                             IsFull(g.room[x])
    <3> TAKE x \in Address
    <3> HAVE Alive(g, x) /\ g.room[x].difficulty = d
    <3>1. PICK i \in DOMAIN g.rooms : g.rooms[i] = x
      BY ListedRoom
    <3> QED
      BY <1>1, <1>3, <3>1, FoundRoom
  <2>9. PICK a \in Assignment : Seated(h, g, id, fresh, a)
    BY <2>5, <2>7
  <2> QED
    BY <2>1, <2>5, <2>8, <2>9 DEF h
<1> QED
  BY <1>2, <1>3

-----------------------------------------------------------------------------
(* LEAVE_GAME and DISCONNECT *)

LEMMA RemovedAt ==
  ASSUME NEW S, NEW s \in Seq(S), NEW i \in DOMAIN s
  PROVE  /\ RemoveAt(s, i) \in Seq(S)
         /\ DOMAIN RemoveAt(s, i) = 1..(Len(s) - 1)
         /\ \A j \in 1..(Len(s) - 1) :
              RemoveAt(s, i)[j] = IF j < i THEN s[j] ELSE s[j + 1]
<1> DEFINE p == SubSeq(s, 1, i - 1)
           q == SubSeq(s, i + 1, Len(s))
<1>1. i \in 1..Len(s) /\ Len(s) \in Nat
  OBVIOUS
<1>2. /\ p \in Seq(S) /\ Len(p) = i - 1
      /\ \A j \in 1..(i - 1) : p[j] = s[j]
  BY <1>1
<1>3. /\ q \in Seq(S) /\ Len(q) = Len(s) - i
      /\ \A j \in 1..(Len(s) - i) : q[j] = s[j + i]
  BY <1>1
<1>4. RemoveAt(s, i) = p \o q
  BY DEF RemoveAt
<1> HIDE DEF p, q
<1>5. p \o q \in Seq(S) /\ Len(p \o q) = Len(s) - 1
  BY <1>1, <1>2, <1>3
<1>6. ASSUME NEW j \in 1..(Len(s) - 1)
      PROVE  (p \o q)[j] = IF j < i THEN s[j] ELSE s[j + 1]
  <2>1. CASE j < i
    <3>1. j \in 1..(i - 1) /\ (p \o q)[j] = p[j]
      BY <1>1, <1>2, <1>3, <1>6, <2>1
    <3> QED
      BY <1>2, <2>1, <3>1
  <2>2. CASE ~ j < i
    <3>1. /\ j - (i - 1) \in 1..(Len(s) - i)
          /\ (p \o q)[j] = q[j - (i - 1)]
      BY <1>1, <1>2, <1>3, <1>6, <2>2, SMTT(30)
    <3>2. j - (i - 1) + i = j + 1
      BY <1>1, <1>6
    <3> QED
      BY <1>3, <2>2, <3>1, <3>2
  <2> QED
    BY <2>1, <2>2
<1> QED
  BY <1>4, <1>5, <1>6

(* The game once the room at an index of rooms is erased. *)
Erased(k, found) ==
  [k EXCEPT !.rooms = RemoveAt(@, found), !.room[k.rooms[found]] = NULL]

(* An empty room goes, and nobody with it. *)
LEMMA GoneRoomFacts ==
  ASSUME NEW k, GameHolds(k), NEW found \in DOMAIN k.rooms,
         NEW address, address = k.rooms[found], IsEmpty(k.room[address])
  PROVE  LET h == Erased(k, found)
         IN /\ GameHolds(h)
            /\ h.callbacks = k.callbacks /\ h.published = k.published
            /\ ~ Alive(h, address)
            /\ \A x \in Address \ {address} : h.room[x] = k.room[x]
            /\ \A x \in Address : \A id \in PlayerId :
                 SeatsIn(h, x, id) = SeatsIn(k, x, id)
<1> DEFINE fewer == RemoveAt(k.rooms, found)
           h == Erased(k, found)
<1>1. k \in Game /\ k.rooms \in Seq(Address)
  BY DEF GameHolds, Game
<1>2. address \in Address /\ Alive(k, address)
  BY ListedRoom
<1>3. \A id \in PlayerId : SeatsIn(k, address, id) = {}
  <2>1. k.room[address] \in RoomState
    BY <1>2, LiveRoom
  <2> QED
    BY <2>1, EmptySeats DEF SeatsIn, HasPlayerWithId
<1>4. /\ fewer \in Seq(Address)
      /\ DOMAIN fewer = 1..(Len(k.rooms) - 1)
      /\ \A j \in 1..(Len(k.rooms) - 1) :
           fewer[j] = IF j < found THEN k.rooms[j] ELSE k.rooms[j + 1]
  BY <1>1, RemovedAt
<1> HIDE DEF fewer
<1>5. /\ h \in Game /\ h.rooms = fewer
      /\ h.callbacks = k.callbacks /\ h.published = k.published
      /\ h.room[address] = NULL
      /\ \A x \in Address \ {address} : h.room[x] = k.room[x]
  BY <1>1, <1>2, <1>4 DEF Game, fewer, Erased
<1> HIDE DEF h
<1>6. /\ ~ Alive(h, address)
      /\ \A x \in Address \ {address} : Alive(h, x) <=> Alive(k, x)
  BY <1>5 DEF Alive
<1>7. LiveRoomsFit(h)
  BY <1>5, <1>6 DEF GameHolds, LiveRoomsFit
<1>8. RoomsListed(h)
  <2>1. /\ Len(k.rooms) \in Nat /\ DOMAIN k.rooms = 1..Len(k.rooms)
        /\ found \in 1..Len(k.rooms)
    BY <1>1
  <2>2. \A i, j \in DOMAIN k.rooms : k.rooms[i] = k.rooms[j] => i = j
    BY DEF GameHolds, RoomsListed
  <2>3. ASSUME NEW j \in DOMAIN fewer
        PROVE  \E i \in DOMAIN k.rooms : /\ i # found
                                         /\ i = IF j < found THEN j ELSE j + 1
                                         /\ fewer[j] = k.rooms[i]
    <3> DEFINE i == IF j < found THEN j ELSE j + 1
    <3>1. i \in DOMAIN k.rooms /\ i # found /\ fewer[j] = k.rooms[i]
      BY <1>4, <2>1, <2>3
    <3> QED
      BY <3>1
  <2>4. ASSUME NEW i \in DOMAIN k.rooms, i # found
        PROVE  \E j \in DOMAIN fewer : fewer[j] = k.rooms[i]
    <3> DEFINE j == IF i < found THEN i ELSE i - 1
    <3>1. j \in DOMAIN fewer /\ fewer[j] = k.rooms[i]
      BY <1>4, <2>1, <2>4, SMTT(30)
    <3> QED
      BY <3>1
  <2>5. \A i \in DOMAIN k.rooms : k.rooms[i] = address <=> i = found
    BY <2>2
  <2>6. {fewer[j] : j \in DOMAIN fewer}
          = {k.rooms[i] : i \in DOMAIN k.rooms} \ {address}
    BY <2>3, <2>4, <2>5
  <2>7. {h.rooms[i] : i \in DOMAIN h.rooms}
          = {x \in Address : Alive(h, x)}
    <3>1. {x \in Address : Alive(h, x)}
            = {x \in Address : Alive(k, x)} \ {address}
      BY <1>6
    <3>2. {k.rooms[i] : i \in DOMAIN k.rooms} = {x \in Address : Alive(k, x)}
      BY DEF GameHolds, RoomsListed
    <3>3. {h.rooms[i] : i \in DOMAIN h.rooms}
            = {fewer[j] : j \in DOMAIN fewer}
      BY <1>5
    <3> QED
      BY <2>6, <3>1, <3>2, <3>3
  <2>8. ASSUME NEW i \in DOMAIN fewer, NEW j \in DOMAIN fewer,
               fewer[i] = fewer[j]
        PROVE  i = j
    <3>1. (IF i < found THEN i ELSE i + 1) = (IF j < found THEN j ELSE j + 1)
      BY <2>2, <2>3, <2>8
    <3>2. i \in Int /\ j \in Int /\ found \in Int
      BY <1>4, <2>1
    <3> QED
      BY <3>1, <3>2
  <2> QED
    BY <1>5, <2>7, <2>8 DEF RoomsListed
<1>9. \A x \in Address : \A id \in PlayerId :
        SeatsIn(h, x, id) = SeatsIn(k, x, id)
  BY <1>3, <1>5, <1>6 DEF SeatsIn
<1> QED
  BY <1>5, <1>6, <1>7, <1>8, <1>9 DEF GameHolds, h

(* A player leaves the first of its rooms, which goes if it is empty. *)
LEMMA RemovePlayerFromRoomFacts ==
  ASSUME NEW g, GameHolds(g), g.published = << >>, NEW id \in PlayerId
  PROVE  LET h == RemovePlayerFromRoom(g, id)
         IN /\ Without(h, g, id)
            /\ NobodyAbsent(h)
            /\ Inhabited(g) => Inhabited(h)
            /\ \/ h = g /\ \A x \in Address : SeatsIn(g, x, id) = {}
               \/ \E x \in Address : \E a \in SeatsIn(g, x, id) :
                    SeatsIn(h, x, id) = SeatsIn(g, x, id) \ {a}
<1> DEFINE h == RemovePlayerFromRoom(g, id)
           found == FindPlayer(g, id)
           address == g.rooms[found]
           s == RemovePlayer(g.room[address], id)
           left == CallRoom(g, address, s)
           gone == [left EXCEPT !.rooms = RemoveAt(@, found),
                                !.room[address] = NULL]
<1>1. g.rooms \in Seq(Address)
  BY ListedRoom
<1>2. NobodyAbsent(g)
  BY DEF NobodyAbsent
<1>3. CASE found = 0
  <2>1. h = g
    BY <1>3 DEF RemovePlayerFromRoom
  <2>2. \A x \in Address : SeatsIn(g, x, id) = {}
    <3> TAKE x \in Address
    <3>1. Alive(g, x) => \E i \in DOMAIN g.rooms : g.rooms[i] = x
      BY ListedRoom
    <3>2. Alive(g, x) => ~ HasPlayerWithId(g.room[x], id)
      BY <1>1, <1>3, <3>1, FoundPlayerRoom
    <3> QED
      BY <3>2 DEF SeatsIn, HasPlayerWithId
  <2> HIDE DEF h
  <2> QED
    BY <1>2, <2>1, <2>2, WithoutReflexive DEF h
<1>4. CASE found # 0
  <2>1. /\ found \in DOMAIN g.rooms
        /\ HasPlayerWithId(g.room[address], id)
    BY <1>1, <1>4, FoundPlayerRoom
  <2>2. address \in Address /\ Alive(g, address)
    BY <2>1, ListedRoom
  <2>3. h = IF IsEmpty(left.room[address]) THEN gone ELSE left
    BY <1>4 DEF RemovePlayerFromRoom, LeaveRoom, Unsubscribe
  <2> HIDE DEF h, found
  <2>4. /\ Sound(s) /\ Addressed(s)
        /\ Without(left, g, id)
        /\ \E a \in SeatsIn(g, address, id) :
             SeatsOf(s, id) = SeatsIn(g, address, id) \ {a}
        /\ \A x \in Address \ {address} : SeatsIn(left, x, id) = SeatsIn(g, x, id)
        /\ \A other \in PlayerId \ {id} :
             SeatsOf(s, other) = SeatsIn(g, address, other)
    <3> HIDE DEF address
    <3> QED
      BY <2>1, <2>2, RemoveFromLiveRoom
  <2> HIDE DEF address, s
  <2>5. /\ GameHolds(left)
        /\ left.rooms = g.rooms /\ left.callbacks = g.callbacks
        /\ left.published = g.published \o s.published
        /\ left.room[address] = Begin(s)
        /\ \A x \in Address \ {address} : left.room[x] = g.room[x]
        /\ \A x \in Address : Alive(left, x) <=> Alive(g, x)
        /\ \A x \in Address : \A y :
             SeatsIn(left, x, y) = IF x = address THEN SeatsOf(s, y)
                                                  ELSE SeatsIn(g, x, y)
    BY <2>2, <2>4, CallRoomFacts
  <2>6. NobodyAbsent(left)
    <3>1. DOMAIN g.published = {}
      OBVIOUS
    <3> QED
      BY <1>2, <2>2, <2>4, <3>1, CallRoomTells
  <2> HIDE DEF left
  <2>7. PICK a \in SeatsIn(g, address, id) :
          SeatsIn(left, address, id) = SeatsIn(g, address, id) \ {a}
    BY <2>2, <2>4, <2>5
  <2>8. CASE ~ IsEmpty(left.room[address])
    <3>1. h = left
      BY <2>3, <2>8
    <3>2. Inhabited(g) => Inhabited(left)
      BY <2>5, <2>8 DEF Inhabited
    <3> QED
      BY <2>2, <2>4, <2>6, <2>7, <3>1, <3>2 DEF h
  <2>9. CASE IsEmpty(left.room[address])
    <3>1. h = gone
      BY <2>3, <2>9
    <3>2. found \in DOMAIN left.rooms /\ address = left.rooms[found]
      BY <2>1, <2>5 DEF address
    <3>3. /\ GameHolds(gone)
          /\ gone.callbacks = left.callbacks
          /\ gone.published = left.published
          /\ ~ Alive(gone, address)
          /\ \A x \in Address \ {address} : gone.room[x] = left.room[x]
          /\ \A x \in Address : \A y \in PlayerId :
               SeatsIn(gone, x, y) = SeatsIn(left, x, y)
      <4>1. /\ GameHolds(left) /\ found \in DOMAIN left.rooms
            /\ address = left.rooms[found] /\ IsEmpty(left.room[address])
        BY <2>5, <2>9, <3>2
      <4>2. gone = Erased(left, found)
        BY <4>1 DEF Erased
      <4> HIDE DEF gone
      <4> QED
        BY ONLY <4>1, <4>2, GoneRoomFacts
    <3> HIDE DEF gone
    <3>4. NobodyAbsent(gone)
      BY <2>5, <2>6, <3>3, SameSeatsTell
    <3>5. \A x \in Address \ {address} : Alive(gone, x) <=> Alive(g, x)
      BY <2>5, <3>3 DEF Alive
    <3>6. Inhabited(g) => Inhabited(gone)
      BY <2>5, <3>3, <3>5 DEF Inhabited
    <3>7. AtHome(gone, g, id)
      BY <2>5, <2>7, <3>3 DEF AtHome
    <3>8. Without(gone, g, id)
      BY <2>2, <2>4, <2>5, <3>3, <3>5, <3>7 DEF Without
    <3>9. SeatsIn(gone, address, id) = SeatsIn(g, address, id) \ {a}
      BY <2>2, <2>7, <3>3
    <3> QED
      BY <2>2, <3>1, <3>4, <3>6, <3>8, <3>9 DEF h
  <2> QED
    BY <2>8, <2>9
<1> QED
  BY <1>3, <1>4

-----------------------------------------------------------------------------
(* A message of a player, handed to all its callbacks *)

(* What every callback keeps, all of them keep. *)
LEMMA DispatchStays ==
  ASSUME NEW id, NEW m, NEW fresh, NEW S, NEW g \in S[0],
         NEW callbacks \in Seq(Address \cup {GAMEPLAY}),
         \A n \in 1..Len(callbacks) : \A x \in S[n - 1] :
           Callback(x, id, m, callbacks[n], fresh) \in S[n]
  PROVE  Dispatch(g, id, m, callbacks, fresh) \in S[Len(callbacks)]
<1> DEFINE last == Len(callbacks)
           next(h, n) == Callback(h, id, m, callbacks[n], fresh)
           step == [n \in 1..last |-> [h \in S[n - 1] |-> next(h, n)]]
           Handed(f) == f = [n \in 0..last |-> IF n = 0 THEN g
                                               ELSE next(f[n - 1], n)]
           handed == CHOOSE f : Handed(f)
<1>1. Dispatch(g, id, m, callbacks, fresh) = handed[last]
  BY DEF Dispatch
<1>2. last \in Nat
  OBVIOUS
<1>3. \A n \in 1..last : \A x \in S[n - 1] : next(x, n) \in S[n]
  OBVIOUS
<1> HIDE DEF last, next
<1>4. \A n \in 1..last : n - 1 \in 0..last /\ n \in 0..last /\ n # 0
  BY <1>2
<1>5. \A n \in 1..last : \A h \in S[n - 1] : step[n][h] = next(h, n)
  OBVIOUS
<1>6. PICK f : Iterates(f, S, g, last, step)
  <2> HIDE DEF step
  <2>1. \A n \in 1..last : \A h \in S[n - 1] : step[n][h] \in S[n]
    BY <1>3, <1>5
  <2> QED
    BY <1>2, <2>1, IterationExists
<1> HIDE DEF step
<1>7. Handed(f)
  <2>1. \A n \in 1..last : f[n] = next(f[n - 1], n)
    BY <1>4, <1>5, <1>6 DEF Iterates
  <2>2. \A n \in 0..last : f[n] = IF n = 0 THEN g ELSE next(f[n - 1], n)
    <3> TAKE n \in 0..last
    <3>1. n = 0 \/ n \in 1..last
      BY <1>2
    <3>2. f[0] = g
      BY <1>6 DEF Iterates
    <3> QED
      BY <1>4, <2>1, <3>1, <3>2
  <2>3. f = [n \in 0..last |-> f[n]]
    BY <1>6 DEF Iterates
  <2> QED
    BY <2>2, <2>3
<1>8. Handed(handed)
  BY <1>7
<1> HIDE DEF handed
<1>9. handed[0] \in S[0]
  BY <1>2, <1>8
<1>10. \A n \in 1..last : handed[n - 1] \in S[n - 1] => handed[n] \in S[n]
  <2> TAKE n \in 1..last
  <2>1. handed[n] = next(handed[n - 1], n)
    BY <1>4, <1>8
  <2> QED
    BY <1>3, <2>1
<1>11. \A n \in 0..last : handed[n] \in S[n]
  BY <1>2, <1>9, <1>10, IterationStays
<1>12. handed[last] \in S[last]
  BY <1>2, <1>11
<1> QED
  BY <1>1, <1>12 DEF last

(* The room manager is called first, and then rooms are. *)
LEMMA DispatchEnds ==
  ASSUME NEW id, NEW m, NEW fresh, NEW g, NEW X,
         NEW callbacks \in Seq(Address \cup {GAMEPLAY}), callbacks # << >>,
         ManagerFirst(callbacks),
         ManagerHandlePlayerMessage(g, id, m, fresh) \in X,
         \A x \in X : \A context \in Address :
           Callback(x, id, m, context, fresh) \in X
  PROVE  Dispatch(g, id, m, callbacks, fresh) \in X
<1> DEFINE S == [n \in 0..Len(callbacks) |-> IF n = 0 THEN {g} ELSE X]
<1>1. Len(callbacks) \in Nat /\ Len(callbacks) >= 1
  OBVIOUS
<1>2. /\ \A n \in 1..Len(callbacks) : S[n] = X
      /\ S[0] = {g}
  BY <1>1
<1>3. callbacks[1] = GAMEPLAY
  BY <1>1 DEF ManagerFirst
<1>4. ASSUME NEW n \in 1..Len(callbacks), NEW x \in S[n - 1]
      PROVE  Callback(x, id, m, callbacks[n], fresh) \in S[n]
  <2>1. CASE n = 1
    <3>1. x = g
      BY <1>2, <1>4, <2>1
    <3>2. Callback(x, id, m, callbacks[n], fresh)
            = ManagerHandlePlayerMessage(g, id, m, fresh)
      BY <1>3, <2>1, <3>1 DEF Callback
    <3> QED
      BY <1>2, <3>2
  <2>2. CASE n # 1
    <3>1. n - 1 \in 1..Len(callbacks)
      BY <1>1, <2>2
    <3>2. x \in X
      BY <1>2, <1>4, <3>1
    <3>3. callbacks[n] \in Address
      BY <2>2 DEF ManagerFirst
    <3> QED
      BY <1>2, <3>2, <3>3
  <2> QED
    BY <2>1, <2>2
<1> HIDE DEF S
<1>5. g \in S[0] /\ S[Len(callbacks)] = X
  BY <1>1, <1>2
<1>6. Dispatch(g, id, m, callbacks, fresh) \in S[Len(callbacks)]
  BY <1>4, <1>5, DispatchStays
<1> QED
  BY <1>5, <1>6

(* What a message of a player does, whichever callbacks it is handed to. *)
LEMMA DispatchFacts ==
  ASSUME NEW g, GameHolds(g), g.published = << >>, NEW id \in PlayerId,
         g.callbacks[id] # << >>, NEW m \in PlayerActionMessage, NEW fresh,
         NEW callbacks \in Seq(Address \cup {GAMEPLAY}), callbacks # << >>,
         ManagerFirst(callbacks)
  PROVE  LET h == Dispatch(g, id, m, callbacks, fresh)
         IN /\ m \in JoinGame
                 /\ (FindRoom(g, m.gameDifficulty) = 0 =>
                       fresh \in Address /\ ~ Alive(g, fresh)) =>
                 h = AddPlayerToRoom(g, id, m.gameDifficulty, fresh)
            /\ m \in LeaveGame => Without(h, g, id)
            /\ m \in LeaveGame /\ SeatedOnce(g) => h = RemovePlayerFromRoom(g, id)
            /\ m \in RoomActionMessage \ LeaveGame =>
                 SameCompany(h, g) /\ AtHome(h, g, id)
<1> DEFINE h == Dispatch(g, id, m, callbacks, fresh)
           first == ManagerHandlePlayerMessage(g, id, m, fresh)
<1>1. /\ m \in JoinGame => m.messageType = "JOIN_GAME"
      /\ m \in LeaveGame => m.messageType = "LEAVE_GAME"
      /\ m \in RoomActionMessage \ LeaveGame =>
           /\ m.messageType # "JOIN_GAME"
           /\ m.messageType # "LEAVE_GAME"
  BY DEF JoinGame, LeaveGame, RoomActionMessage, SetReadyState, NotifyCanPlay,
         PlayerInput, SetReplayReadyState
<1>2. ASSUME m \in JoinGame,
             FindRoom(g, m.gameDifficulty) = 0 =>
               fresh \in Address /\ ~ Alive(g, fresh)
      PROVE  h = AddPlayerToRoom(g, id, m.gameDifficulty, fresh)
  <2> DEFINE k == AddPlayerToRoom(g, id, m.gameDifficulty, fresh)
  <2>1. first = k
    BY <1>1, <1>2 DEF ManagerHandlePlayerMessage
  <2>2. m.gameDifficulty \in GameDifficulty
    BY <1>2 DEF JoinGame
  <2>3. GameHolds(k)
    BY <1>2, <2>2, AddPlayerToRoomFacts DEF Seated
  <2> HIDE DEF k
  <2>4. \A x \in {k} : \A context \in Address :
          Callback(x, id, m, context, fresh) \in {k}
    BY <1>2, <2>3, RoomCallbackFacts
  <2> HIDE DEF h
  <2>5. Dispatch(g, id, m, callbacks, fresh) \in {k}
    BY <2>1, <2>4, DispatchEnds
  <2> QED
    BY <2>5 DEF h, k
<1>3. ASSUME m \in LeaveGame
      PROVE  Without(h, g, id)
  <2> DEFINE k == RemovePlayerFromRoom(g, id)
             X == {x \in Game : Without(x, g, id)}
  <2>1. first = k
    BY <1>1, <1>3 DEF ManagerHandlePlayerMessage
  <2>2. Without(k, g, id)
    BY RemovePlayerFromRoomFacts
  <2> HIDE DEF k
  <2>3. k \in X
    BY <2>2 DEF Without, GameHolds
  <2>4. ASSUME NEW x \in X, NEW context \in Address
        PROVE  Callback(x, id, m, context, fresh) \in X
    <3>1. GameHolds(x) /\ Without(x, g, id)
      BY DEF Without
    <3>2. Without(Callback(x, id, m, context, fresh), x, id)
      BY <1>3, <3>1, RoomCallbackFacts
    <3>3. Without(Callback(x, id, m, context, fresh), g, id)
      BY <3>1, <3>2, WithoutTransitive
    <3> QED
      BY <3>3 DEF Without, GameHolds
  <2> HIDE DEF X
  <2>5. Dispatch(g, id, m, callbacks, fresh) \in X
    BY <2>1, <2>3, <2>4, DispatchEnds
  <2> QED
    BY <2>5 DEF X
<1>4. ASSUME m \in LeaveGame, SeatedOnce(g)
      PROVE  h = RemovePlayerFromRoom(g, id)
  <2> DEFINE k == RemovePlayerFromRoom(g, id)
  <2>1. first = k
    BY <1>1, <1>4 DEF ManagerHandlePlayerMessage
  <2>2. /\ Without(k, g, id)
        /\ \/ k = g /\ \A x \in Address : SeatsIn(g, x, id) = {}
           \/ \E x \in Address : \E a \in SeatsIn(g, x, id) :
                SeatsIn(k, x, id) = SeatsIn(g, x, id) \ {a}
    BY RemovePlayerFromRoomFacts
  <2> HIDE DEF k
  <2>3. \A x \in Address : SeatsIn(k, x, id) = {}
    BY <1>4, <2>2 DEF SeatedOnce, Without
  <2>4. GameHolds(k)
    BY <2>2 DEF Without
  <2>5. \A x \in {k} : \A context \in Address :
          Callback(x, id, m, context, fresh) \in {k}
    BY <2>3, <2>4, RoomCallbackFacts
  <2>6. Dispatch(g, id, m, callbacks, fresh) \in {k}
    BY <2>1, <2>5, DispatchEnds
  <2> QED
    BY <2>6 DEF k
<1>5. ASSUME m \in RoomActionMessage \ LeaveGame
      PROVE  SameCompany(h, g) /\ AtHome(h, g, id)
  <2> DEFINE X == {x \in Game : SameCompany(x, g) /\ AtHome(x, g, id)}
  <2>1. first = g
    BY <1>1, <1>5 DEF ManagerHandlePlayerMessage
  <2>2. g \in X
    BY SameCompanyReflexive DEF GameHolds
  <2>3. ASSUME NEW x \in X, NEW context \in Address
        PROVE  Callback(x, id, m, context, fresh) \in X
    <3> DEFINE y == Callback(x, id, m, context, fresh)
    <3>1. GameHolds(x) /\ SameCompany(x, g) /\ AtHome(x, g, id)
      BY DEF SameCompany
    <3>2. SameCompany(y, x) /\ AtHome(y, x, id)
      BY <1>5, <3>1, RoomCallbackFacts
    <3> HIDE DEF y
    <3>3. SameCompany(y, g) /\ AtHome(y, g, id)
      BY <3>1, <3>2, SameCompanyTransitive
    <3>4. y \in Game
      BY <3>3 DEF SameCompany, GameHolds
    <3>5. y \in X
      BY <3>3, <3>4
    <3> QED
      BY <3>5 DEF y
  <2> HIDE DEF X
  <2>4. Dispatch(g, id, m, callbacks, fresh) \in X
    BY <2>1, <2>2, <2>3, DispatchEnds
  <2> QED
    BY <2>4 DEF X
<1> QED
  BY <1>2, <1>3, <1>4, <1>5

-----------------------------------------------------------------------------
(* CONNECT *)

(* The first callback of a player is that of the room manager. *)
LEMMA FirstSubscription ==
  ASSUME NEW g, GameHolds(g), NEW id \in PlayerId, g.callbacks[id] = << >>
  PROVE  LET h == Subscribe(g, id, GAMEPLAY)
         IN /\ GameHolds(h)
            /\ h.rooms = g.rooms /\ h.room = g.room
            /\ h.published = g.published
            /\ h.callbacks = [g.callbacks EXCEPT ![id] = <<GAMEPLAY>>]
<1> DEFINE h == Subscribe(g, id, GAMEPLAY)
<1>1. g \in Game
  BY DEF GameHolds
<1>2. Append(g.callbacks[id], GAMEPLAY) = <<GAMEPLAY>>
  OBVIOUS
<1>3. <<GAMEPLAY>> \in Seq(Address \cup {GAMEPLAY})
  OBVIOUS
<1>4. /\ h.rooms = g.rooms /\ h.room = g.room
      /\ h.published = g.published
      /\ h.callbacks = [g.callbacks EXCEPT ![id] = <<GAMEPLAY>>]
  BY <1>1, <1>2 DEF Subscribe, Game
<1>5. h \in Game
  BY <1>1, <1>2, <1>3 DEF Subscribe, Game
<1> HIDE DEF h
<1>6. LiveRoomsFit(h) /\ RoomsListed(h)
  BY <1>4 DEF GameHolds, LiveRoomsFit, RoomsListed, Alive
<1>7. ManagerFirst(<<GAMEPLAY>>)
  BY DEF ManagerFirst
<1>8. \A other \in PlayerId : ManagerFirst(h.callbacks[other])
  <2> TAKE other \in PlayerId
  <2>1. h.callbacks[other] = IF other = id THEN <<GAMEPLAY>>
                                           ELSE g.callbacks[other]
    BY <1>1, <1>4 DEF Game
  <2> QED
    BY <1>7, <2>1 DEF GameHolds
<1> QED
  BY <1>4, <1>5, <1>6, <1>8 DEF GameHolds, h

-----------------------------------------------------------------------------
(* Whom the rooms reach *)

LEMMA SameCompanyReachable ==
  ASSUME NEW g, NEW h, SameCompany(h, g), Reachable(g)
  PROVE  Reachable(h)
<1> SUFFICES ASSUME NEW id \in PlayerId, NEW x \in RoomsOf(h, id)
             PROVE  HasCallback(h, id, x)
  BY DEF Reachable
<1>1. x \in Address /\ SeatsIn(g, x, id) # {}
  BY RoomsAndSeats DEF RoomsOf, SameCompany
<1>2. HasCallback(g, id, x)
  BY <1>1, RoomsAndSeats DEF Reachable
<1> QED
  BY <1>2 DEF HasCallback, SameCompany

LEMMA WithoutReachable ==
  ASSUME NEW g, NEW h, NEW id \in PlayerId, Without(h, g, id), Reachable(g)
  PROVE  Reachable(h)
<1> SUFFICES ASSUME NEW other \in PlayerId, NEW x \in RoomsOf(h, other)
             PROVE  HasCallback(h, other, x)
  BY DEF Reachable
<1>1. x \in Address /\ SeatsIn(h, x, other) # {}
  BY RoomsAndSeats DEF RoomsOf
<1>2. SeatsIn(g, x, other) # {}
  BY <1>1 DEF Without
<1>3. HasCallback(g, other, x)
  BY <1>1, <1>2, RoomsAndSeats DEF Reachable
<1> QED
  BY <1>3 DEF HasCallback, Without

LEMMA SeatedSeats ==
  ASSUME NEW g, NEW h, NEW id \in PlayerId, NEW address \in Address, NEW a,
         Seated(h, g, id, address, a)
  PROVE  /\ \A x \in Address \ {address} : \A y : SeatsIn(h, x, y) = SeatsIn(g, x, y)
         /\ \A x \in Address \ {address} : Alive(h, x) <=> Alive(g, x)
         /\ \A x \in Address : \A y \in PlayerId :
              x \in RoomsOf(h, y) => x \in RoomsOf(g, y) \/ (x = address /\ y = id)
         /\ address \in RoomsOf(h, id)
<1>1. \A x \in Address \ {address} : Alive(h, x) <=> Alive(g, x)
  BY DEF Seated, Alive
<1>2. \A x \in Address \ {address} : \A y : SeatsIn(h, x, y) = SeatsIn(g, x, y)
  BY <1>1 DEF Seated, SeatsIn
<1>3. SeatsIn(h, address, id) # {}
  BY DEF Seated
<1>4. \A x \in Address : \A y \in PlayerId :
        SeatsIn(h, x, y) # {} => SeatsIn(g, x, y) # {} \/ (x = address /\ y = id)
  BY <1>2 DEF Seated
<1> QED
  BY <1>1, <1>2, <1>3, <1>4, RoomsAndSeats

LEMMA LongerSequence ==
  ASSUME NEW T, NEW s \in Seq(T), NEW x \in T
  PROVE  /\ \A i \in DOMAIN s : i \in DOMAIN Append(s, x) /\ Append(s, x)[i] = s[i]
         /\ Len(s) + 1 \in DOMAIN Append(s, x) /\ Append(s, x)[Len(s) + 1] = x
         /\ Append(s, x) # << >>
  OBVIOUS

LEMMA SeatedReachable ==
  ASSUME NEW g, GameHolds(g), NEW h, NEW id \in PlayerId, NEW address \in Address,
         NEW a, Seated(h, g, id, address, a), Reachable(g)
  PROVE  Reachable(h)
<1> DEFINE old == g.callbacks[id]
           new == Append(old, address)
<1>1. /\ h.callbacks = [g.callbacks EXCEPT ![id] = new]
      /\ g.callbacks \in [PlayerId -> Seq(Address \cup {GAMEPLAY})]
  BY DEF Seated, GameHolds, Game
<1>2. /\ \A i \in DOMAIN old : i \in DOMAIN new /\ new[i] = old[i]
      /\ Len(old) + 1 \in DOMAIN new /\ new[Len(old) + 1] = address
  BY <1>1, LongerSequence
<1> HIDE DEF new
<1>3. \A y \in PlayerId : h.callbacks[y] = IF y = id THEN new ELSE g.callbacks[y]
  BY <1>1
<1>4. \A y \in PlayerId : \A x : HasCallback(g, y, x) => HasCallback(h, y, x)
  BY <1>2, <1>3 DEF HasCallback
<1>5. HasCallback(h, id, address)
  BY <1>2, <1>3 DEF HasCallback
<1> SUFFICES ASSUME NEW y \in PlayerId, NEW x \in RoomsOf(h, y)
             PROVE  HasCallback(h, y, x)
  BY DEF Reachable
<1>6. x \in Address
  BY DEF RoomsOf
<1>7. x \in RoomsOf(g, y) \/ (x = address /\ y = id)
  BY <1>6, SeatedSeats
<1> QED
  BY <1>4, <1>5, <1>7 DEF Reachable

(* Nobody who has no callback is in a room. *)
LEMMA UnheardAreNowhere ==
  ASSUME NEW g, Reachable(g), NEW id \in PlayerId, g.callbacks[id] = << >>
  PROVE  RoomsOf(g, id) = {}
<1>1. DOMAIN g.callbacks[id] = {}
  OBVIOUS
<1> QED
  BY <1>1 DEF Reachable, HasCallback

LEMMA FirstSubscriptionReachable ==
  ASSUME NEW g, GameHolds(g), Reachable(g), NEW id \in PlayerId,
         g.callbacks[id] = << >>, NEW h, h.room = g.room,
         h.callbacks = [g.callbacks EXCEPT ![id] = <<GAMEPLAY>>]
  PROVE  Reachable(h)
<1>1. \A y : RoomsOf(h, y) = RoomsOf(g, y)
  BY DEF RoomsOf, Alive
<1>2. RoomsOf(g, id) = {}
  BY UnheardAreNowhere
<1>3. \A y \in PlayerId \ {id} : h.callbacks[y] = g.callbacks[y]
  BY DEF GameHolds, Game
<1> QED
  BY <1>1, <1>2, <1>3 DEF Reachable, HasCallback

-----------------------------------------------------------------------------
(* What the players are told of their rooms *)

(* A client of an id that showed view shows the state of each of its rooms *)
(* once it has what is published.                                          *)
InTouch(g, id, view) ==
  \A x \in RoomsOf(g, id) :
    ViewAfter(view, MessagesFor(id, g.published)).phase
      = g.room[x].gameplayState

(* No client that was in touch loses it from g to h. *)
KeepsTouch(h, g) ==
  \A id \in PlayerId : \A view : InTouch(g, id, view) => InTouch(h, id, view)

LEMMA KeepsTouchReflexive ==
  ASSUME NEW g
  PROVE  KeepsTouch(g, g)
  BY DEF KeepsTouch

LEMMA KeepsTouchTransitive ==
  ASSUME NEW f, NEW g, NEW h, KeepsTouch(g, f), KeepsTouch(h, g)
  PROVE  KeepsTouch(h, f)
  BY DEF KeepsTouch

(* Nothing is published, and no seat of a player is in a room that changed. *)
LEMMA SilenceKeepsTouch ==
  ASSUME NEW g, NEW h, h.published = g.published,
         \A x \in Address : \A id \in PlayerId :
           SeatsIn(h, x, id) # {} =>
             /\ SeatsIn(g, x, id) # {}
             /\ h.room[x].gameplayState = g.room[x].gameplayState
  PROVE  KeepsTouch(h, g)
<1> SUFFICES ASSUME NEW id \in PlayerId, NEW view, InTouch(g, id, view),
                    NEW x \in RoomsOf(h, id)
             PROVE  ViewAfter(view, MessagesFor(id, h.published)).phase
                      = h.room[x].gameplayState
  BY DEF KeepsTouch, InTouch
<1>1. x \in Address /\ SeatsIn(h, x, id) # {}
  BY RoomsAndSeats DEF RoomsOf
<1>2. x \in RoomsOf(g, id) /\ h.room[x].gameplayState = g.room[x].gameplayState
  BY <1>1, RoomsAndSeats
<1> QED
  BY <1>2 DEF InTouch

(* A call of a room tells those who are in it, and nobody else. *)
LEMMA CallRoomKeepsTouch ==
  ASSUME NEW g, GameHolds(g), NEW address \in Address, Alive(g, address),
         NEW s, Sound(s), Addressed(s), KeepsSight(s, g.room[address]),
         SeatedOnce(CallRoom(g, address, s))
  PROVE  KeepsTouch(CallRoom(g, address, s), g)
<1> DEFINE h == CallRoom(g, address, s)
           r == g.room[address]
<1>1. /\ GameHolds(h)
      /\ h.rooms = g.rooms /\ h.callbacks = g.callbacks
      /\ h.published = g.published \o s.published
      /\ h.room[address] = Begin(s)
      /\ \A x \in Address \ {address} : h.room[x] = g.room[x]
      /\ \A x \in Address : Alive(h, x) <=> Alive(g, x)
      /\ \A x \in Address : \A id :
           SeatsIn(h, x, id) = IF x = address THEN SeatsOf(s, id)
                                              ELSE SeatsIn(g, x, id)
  BY CallRoomFacts
<1>2. SeatedOnce(h)
  OBVIOUS
<1> HIDE DEF h
<1>3. /\ g.published \in Seq(Published) /\ s.published \in Seq(Published)
      /\ r.published = << >>
      /\ Begin(s).gameplayState = s.gameplayState
  <2>1. s \in RoomState
    BY DEF Sound
  <2>2. Begin(s).gameplayState = s.gameplayState
    BY <2>1 DEF Begin, RoomState
  <2> QED
    BY <2>1, <2>2, LiveRoom DEF GameHolds, Game, RoomState
<1> SUFFICES ASSUME NEW id \in PlayerId, NEW view, InTouch(g, id, view),
                    NEW x \in RoomsOf(h, id)
             PROVE  ViewAfter(view, MessagesFor(id, h.published)).phase
                      = h.room[x].gameplayState
  BY DEF KeepsTouch, InTouch, h
<1> DEFINE before == ViewAfter(view, MessagesFor(id, g.published))
<1>4. ViewAfter(view, MessagesFor(id, h.published)) = SeenAfter(s, id, before)
  BY <1>1, <1>3, ViewOfJoined DEF SeenAfter
<1>5. \A y \in RoomsOf(g, id) : before.phase = g.room[y].gameplayState
  BY DEF InTouch
<1>6. x \in Address /\ SeatsIn(h, x, id) # {}
  BY RoomsAndSeats DEF RoomsOf
<1>7. SeenAfter(r, id, before) = before
  <2>1. DOMAIN r.published = {}
    BY <1>3
  <2> HIDE DEF before, r
  <2> QED
    BY <2>1, NothingIsSeen DEF SeenAfter
<1> HIDE DEF before
<1>8. CASE x = address
  <2>1. HasPlayerWithId(s, id)
    BY <1>1, <1>6, <1>8 DEF HasPlayerWithId
  <2>2. HasPlayerWithId(r, id) => Sees(r, id, before)
    BY <1>5, <1>7 DEF RoomsOf, Sees
  <2>3. Sees(s, id, before)
    BY <2>1, <2>2 DEF KeepsSight
  <2> QED
    BY <1>1, <1>3, <1>4, <1>8, <2>3 DEF Sees
<1>9. CASE x # address
  <2>1. SeatsIn(h, address, id) = {}
    BY <1>2, <1>6, <1>9 DEF SeatedOnce
  <2>2. ~ HasPlayerWithId(s, id)
    BY <1>1, <2>1 DEF HasPlayerWithId
  <2>3. \A i \in DOMAIN s.published : s.published[i].to # id
    BY <2>2 DEF Addressed
  <2>4. SeenAfter(s, id, before) = before
    BY <2>3, NothingIsSeen DEF SeenAfter
  <2>5. x \in RoomsOf(g, id)
    BY <1>1, <1>6, <1>9, RoomsAndSeats
  <2> QED
    BY <1>1, <1>4, <1>5, <1>6, <1>9, <2>4, <2>5
<1> QED
  BY <1>8, <1>9

LEMMA SameCompanySeatedOnce ==
  ASSUME NEW g, NEW h, SameCompany(h, g), SeatedOnce(g)
  PROVE  SeatedOnce(h)
  BY DEF SameCompany, SeatedOnce

(* A call of a room that keeps its seats. *)
LEMMA CompanyKeepsTouch ==
  ASSUME NEW g, GameHolds(g), SeatedOnce(g),
         NEW address \in Address, Alive(g, address),
         NEW s, Sound(s), KeepsSeats(s, g.room[address]),
         KeepsSight(s, g.room[address])
  PROVE  LET h == CallRoom(g, address, s)
         IN SameCompany(h, g) /\ KeepsTouch(h, g)
<1> DEFINE h == CallRoom(g, address, s)
<1>1. SameCompany(h, g)
  BY CallRoomKeepsCompany
<1>2. SeatedOnce(h)
  <2> HIDE DEF h
  <2> QED
    BY <1>1, SameCompanySeatedOnce
<1>3. Addressed(s)
  <2> DEFINE r == g.room[address]
  <2>1. r.published = << >>
    BY LiveRoom
  <2>2. Addressed(r)
    BY <2>1 DEF Addressed
  <2> QED
    BY <2>2 DEF KeepsSeats
<1>4. KeepsTouch(h, g)
  BY <1>2, <1>3, CallRoomKeepsTouch
<1> QED
  BY <1>1, <1>4

LEMMA TickRoomKeepsTouch ==
  ASSUME NEW g, GameHolds(g), SeatedOnce(g),
         NEW address \in Address, Alive(g, address),
         NEW input \in GameplayInput
  PROVE  LET h == TickRoom(g, address, input)
         IN SameCompany(h, g) /\ KeepsTouch(h, g)
<1> DEFINE s == Tick(g.room[address], input)
<1>1. Sound(g.room[address])
  BY LiveRoom
<1>2. Sound(s) /\ KeepsSeats(s, g.room[address])
  BY <1>1, TickIsSound, TickKeepsSeats
<1>3. KeepsSight(s, g.room[address])
  BY <1>1, TickKeepsSight
<1>4. TickRoom(g, address, input) = CallRoom(g, address, s)
  BY DEF TickRoom
<1> HIDE DEF s
<1> QED
  BY <1>2, <1>3, <1>4, CompanyKeepsTouch

(* What the timers of all rooms do, the players in them are told. *)
LEMMA TickAllRoomsKeepsTouch ==
  ASSUME NEW g, GameHolds(g), SeatedOnce(g),
         NEW input \in [Address -> GameplayInput]
  PROVE  KeepsTouch(TickAllRooms(g, input), g)
<1> DEFINE X == {h \in Game : SameCompany(h, g) /\ KeepsTouch(h, g)}
<1>1. g \in X
  BY SameCompanyReflexive, KeepsTouchReflexive DEF GameHolds
<1>2. ASSUME NEW h \in X, NEW n \in DOMAIN g.rooms
      PROVE  TickRoom(h, g.rooms[n], input[g.rooms[n]]) \in X
  <2> DEFINE k == TickRoom(h, g.rooms[n], input[g.rooms[n]])
  <2>1. g.rooms[n] \in Address /\ Alive(g, g.rooms[n])
    BY ListedRoom
  <2>2. /\ GameHolds(h) /\ SameCompany(h, g) /\ KeepsTouch(h, g)
        /\ Alive(h, g.rooms[n])
    BY <2>1 DEF SameCompany
  <2>3. SeatedOnce(h)
    BY <2>2, SameCompanySeatedOnce
  <2>4. SameCompany(k, h) /\ KeepsTouch(k, h)
    BY <2>1, <2>2, <2>3, TickRoomKeepsTouch
  <2> HIDE DEF k
  <2>5. SameCompany(k, g) /\ KeepsTouch(k, g)
    BY <2>2, <2>4, SameCompanyTransitive, KeepsTouchTransitive
  <2>6. k \in X
    BY <2>5 DEF SameCompany, GameHolds
  <2> QED
    BY <2>6 DEF k
<1> HIDE DEF X
<1>3. TickAllRooms(g, input) \in X
  BY <1>1, <1>2, TickAllRoomsStays
<1> QED
  BY <1>3 DEF X

LEMMA RoomCallbackKeepsTouch ==
  ASSUME NEW g, GameHolds(g), SeatedOnce(g), NEW id \in PlayerId,
         NEW m \in RoomActionMessage \ LeaveGame, NEW context \in Address,
         NEW fresh
  PROVE  LET h == Callback(g, id, m, context, fresh)
         IN SameCompany(h, g) /\ KeepsTouch(h, g)
<1> DEFINE h == Callback(g, id, m, context, fresh)
           r == g.room[context]
           s == HandlePlayerMessage(r, id, m)
<1>1. context # GAMEPLAY
  BY ContextAssumption
<1>2. CASE ~ Alive(g, context)
  <2>1. h = g
    BY <1>1, <1>2 DEF Callback
  <2> QED
    BY <2>1, SameCompanyReflexive, KeepsTouchReflexive
<1>3. CASE Alive(g, context)
  <2>1. h = CallRoom(g, context, s)
    BY <1>1, <1>3 DEF Callback
  <2>2. Sound(r)
    BY <1>3, LiveRoom
  <2>3. Sound(s) /\ KeepsSeats(s, r) /\ KeepsSight(s, r)
    BY <2>2, PlayerMessageIsSound, PlayerMessageKeepsSeats,
       PlayerMessageKeepsSight
  <2> HIDE DEF s
  <2> QED
    BY <1>3, <2>1, <2>3, CompanyKeepsTouch
<1> QED
  BY <1>2, <1>3

(* What the message of a player does to a room, its players are told. *)
LEMMA DispatchKeepsTouch ==
  ASSUME NEW g, GameHolds(g), SeatedOnce(g), NEW id \in PlayerId,
         NEW m \in RoomActionMessage \ LeaveGame, NEW fresh,
         NEW callbacks \in Seq(Address \cup {GAMEPLAY}), callbacks # << >>,
         ManagerFirst(callbacks)
  PROVE  KeepsTouch(Dispatch(g, id, m, callbacks, fresh), g)
<1> DEFINE X == {x \in Game : SameCompany(x, g) /\ KeepsTouch(x, g)}
<1>1. m.messageType # "JOIN_GAME" /\ m.messageType # "LEAVE_GAME"
  BY DEF LeaveGame, RoomActionMessage, SetReadyState, NotifyCanPlay,
         PlayerInput, SetReplayReadyState
<1>2. ManagerHandlePlayerMessage(g, id, m, fresh) = g
  BY <1>1 DEF ManagerHandlePlayerMessage
<1>3. g \in X
  BY SameCompanyReflexive, KeepsTouchReflexive DEF GameHolds
<1>4. ASSUME NEW x \in X, NEW context \in Address
      PROVE  Callback(x, id, m, context, fresh) \in X
  <2> DEFINE y == Callback(x, id, m, context, fresh)
  <2>1. GameHolds(x) /\ SameCompany(x, g) /\ KeepsTouch(x, g)
    BY DEF SameCompany
  <2>2. SeatedOnce(x)
    BY <2>1, SameCompanySeatedOnce
  <2>3. SameCompany(y, x) /\ KeepsTouch(y, x)
    BY <2>1, <2>2, RoomCallbackKeepsTouch
  <2> HIDE DEF y
  <2>4. SameCompany(y, g) /\ KeepsTouch(y, g)
    BY <2>1, <2>3, SameCompanyTransitive, KeepsTouchTransitive
  <2>5. y \in X
    BY <2>4 DEF SameCompany, GameHolds
  <2> QED
    BY <2>5 DEF y
<1> HIDE DEF X
<1>5. Dispatch(g, id, m, callbacks, fresh) \in X
  BY <1>2, <1>3, <1>4, DispatchEnds
<1> QED
  BY <1>5 DEF X

(* The newcomer is shown the lobby, and nobody else another state. *)
LEMMA JoinRoomKeepsTouch ==
  ASSUME NEW g, GameHolds(g), NEW id \in PlayerId,
         NEW address \in Address, Alive(g, address),
         ~ IsFull(g.room[address]), SeatedOnce(JoinRoom(g, address, id))
  PROVE  KeepsTouch(JoinRoom(g, address, id), g)
<1> DEFINE r == g.room[address]
           s == AddPlayer(r, id)
           k == CallRoom(g, address, s)
           h == JoinRoom(g, address, id)
<1>1. Sound(r) /\ r.published = << >>
  BY LiveRoom
<1>2. Sound(s)
  BY <1>1, AddPlayerIsSound
<1>3. KeepsSight(s, r)
  BY <1>1, AddPlayerKeepsSight
<1>4. Addressed(s)
  <2>1. Addressed(r)
    BY <1>1 DEF Addressed
  <2> QED
    BY <1>1, <2>1, AddPlayerSeats
<1>5. h = Subscribe(k, id, address)
  BY DEF JoinRoom
<1> HIDE DEF s
<1>6. k \in Game
  BY <1>2, CallRoomFacts DEF GameHolds
<1>7. h.room = k.room /\ h.published = k.published
  <2> HIDE DEF k, h
  <2> QED
    BY <1>5, <1>6 DEF Subscribe, Game
<1>8. \A x, y : SeatsIn(h, x, y) = SeatsIn(k, x, y)
  <2> HIDE DEF k, h
  <2> QED
    BY <1>7 DEF SeatsIn, Alive
<1>9. SeatedOnce(k)
  <2>1. SeatedOnce(h)
    OBVIOUS
  <2> HIDE DEF k, h
  <2> QED
    BY <1>8, <2>1 DEF SeatedOnce
<1>10. KeepsTouch(k, g)
  BY <1>2, <1>3, <1>4, <1>9, CallRoomKeepsTouch
<1> HIDE DEF k, h
<1>11. KeepsTouch(h, k)
  BY <1>7, <1>8, SilenceKeepsTouch
<1>12. KeepsTouch(h, g)
  BY <1>10, <1>11, KeepsTouchTransitive
<1> QED
  BY <1>12 DEF h

LEMMA AddPlayerToRoomKeepsTouch ==
  ASSUME NEW g, GameHolds(g), NEW id \in PlayerId, NEW d \in GameDifficulty,
         NEW fresh,
         FindRoom(g, d) = 0 => fresh \in Address /\ ~ Alive(g, fresh),
         SeatedOnce(AddPlayerToRoom(g, id, d, fresh))
  PROVE  KeepsTouch(AddPlayerToRoom(g, id, d, fresh), g)
<1> DEFINE h == AddPlayerToRoom(g, id, d, fresh)
           found == FindRoom(g, d)
           k == [g EXCEPT !.rooms = Append(@, fresh), !.room[fresh] = NewRoom(d)]
<1>1. g.rooms \in Seq(Address) /\ SeatedOnce(h)
  BY ListedRoom
<1>2. CASE found # 0
  <2> DEFINE address == g.rooms[found]
  <2>1. /\ found \in DOMAIN g.rooms
        /\ ~ IsFull(g.room[address])
    BY <1>1, <1>2, FoundRoom
  <2>2. h = JoinRoom(g, address, id)
    BY <1>2 DEF AddPlayerToRoom
  <2>3. address \in Address /\ Alive(g, address)
    BY <2>1, ListedRoom
  <2> HIDE DEF h, address
  <2>4. KeepsTouch(h, g)
    BY <1>1, <2>1, <2>2, <2>3, JoinRoomKeepsTouch
  <2> QED
    BY <2>4 DEF h
<1>3. CASE found = 0
  <2>1. fresh \in Address /\ ~ Alive(g, fresh)
    BY <1>3
  <2>2. h = JoinRoom(k, fresh, id)
    BY <1>3 DEF AddPlayerToRoom
  <2>3. /\ GameHolds(k)
        /\ k.callbacks = g.callbacks /\ k.published = g.published
        /\ k.room[fresh] = NewRoom(d) /\ Alive(k, fresh)
        /\ \A x \in Address \ {fresh} : k.room[x] = g.room[x]
        /\ \A x \in Address : \A y : SeatsIn(k, x, y) = SeatsIn(g, x, y)
    BY <2>1, NewRoomFacts
  <2> HIDE DEF h, k
  <2>4. ~ IsFull(k.room[fresh])
    BY <2>3 DEF NewRoom, IsFull, IsSeated, Assignment
  <2>5. KeepsTouch(h, k)
    BY <1>1, <2>1, <2>2, <2>3, <2>4, JoinRoomKeepsTouch
  <2>6. \A y : SeatsIn(g, fresh, y) = {}
    BY <2>1 DEF SeatsIn
  <2>7. KeepsTouch(k, g)
    BY <2>3, <2>6, SilenceKeepsTouch
  <2>8. KeepsTouch(h, g)
    BY <2>5, <2>7, KeepsTouchTransitive
  <2> QED
    BY <2>8 DEF h
<1> QED
  BY <1>2, <1>3

(* Whoever stays in the room is shown the lobby. *)
LEMMA RemovePlayerFromRoomKeepsTouch ==
  ASSUME NEW g, GameHolds(g), SeatedOnce(g), NEW id \in PlayerId
  PROVE  KeepsTouch(RemovePlayerFromRoom(g, id), g)
<1> DEFINE h == RemovePlayerFromRoom(g, id)
           found == FindPlayer(g, id)
           address == g.rooms[found]
           s == RemovePlayer(g.room[address], id)
           left == CallRoom(g, address, s)
           gone == [left EXCEPT !.rooms = RemoveAt(@, found),
                                !.room[address] = NULL]
<1>1. g.rooms \in Seq(Address)
  BY ListedRoom
<1>2. CASE found = 0
  <2>1. h = g
    BY <1>2 DEF RemovePlayerFromRoom
  <2> QED
    BY <2>1, KeepsTouchReflexive
<1>3. CASE found # 0
  <2>1. /\ found \in DOMAIN g.rooms
        /\ HasPlayerWithId(g.room[address], id)
    BY <1>1, <1>3, FoundPlayerRoom
  <2>2. address \in Address /\ Alive(g, address)
    BY <2>1, ListedRoom
  <2>3. h = IF IsEmpty(left.room[address]) THEN gone ELSE left
    BY <1>3 DEF RemovePlayerFromRoom, LeaveRoom, Unsubscribe
  <2> HIDE DEF h, found
  <2>4. Sound(s) /\ Addressed(s) /\ Without(left, g, id)
    <3> HIDE DEF address
    <3> QED
      BY <2>1, <2>2, RemoveFromLiveRoom
  <2>5. KeepsSight(s, g.room[address])
    BY <2>2, LiveRoom, RemovePlayerKeepsSight
  <2> HIDE DEF address, s
  <2>6. SeatedOnce(left)
    <3> HIDE DEF left
    <3> QED
      BY <2>4 DEF Without, SeatedOnce
  <2>7. KeepsTouch(left, g)
    BY <2>2, <2>4, <2>5, <2>6, CallRoomKeepsTouch
  <2>8. left.rooms = g.rooms
    BY <2>2, <2>4, CallRoomFacts
  <2> HIDE DEF left
  <2>9. CASE ~ IsEmpty(left.room[address])
    BY <2>3, <2>7, <2>9 DEF h
  <2>10. CASE IsEmpty(left.room[address])
    <3>1. /\ GameHolds(left) /\ found \in DOMAIN left.rooms
          /\ address = left.rooms[found] /\ IsEmpty(left.room[address])
      BY <2>1, <2>4, <2>8, <2>10 DEF Without, address
    <3>2. gone = Erased(left, found)
      BY <3>1 DEF Erased
    <3>3. h = gone
      BY <2>3, <2>10
    <3> HIDE DEF gone
    <3>4. /\ gone.published = left.published
          /\ ~ Alive(gone, address)
          /\ \A x \in Address \ {address} : gone.room[x] = left.room[x]
          /\ \A x \in Address : \A y \in PlayerId :
               SeatsIn(gone, x, y) = SeatsIn(left, x, y)
      BY ONLY <3>1, <3>2, GoneRoomFacts
    <3>5. \A y : SeatsIn(gone, address, y) = {}
      BY <3>4 DEF SeatsIn
    <3>6. KeepsTouch(gone, left)
      BY <3>4, <3>5, SilenceKeepsTouch
    <3>7. KeepsTouch(gone, g)
      BY <2>7, <3>6, KeepsTouchTransitive
    <3> QED
      BY <3>3, <3>7 DEF h
  <2> QED
    BY <2>9, <2>10
<1> QED
  BY <1>2, <1>3
=============================================================================
