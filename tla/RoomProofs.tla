----------------------------- MODULE RoomProofs -----------------------------
(***************************************************************************)
(* Proofs about Room and RoomClients.  Every reachable room is well typed, *)
(* every optional tick() takes the value of holds one, no timer outlives   *)
(* its game, and a game has one verdict.  Sound is the inductive           *)
(* invariant; that each call keeps it is in RoomHandlersProofs.            *)
(*                                                                         *)
(* With its clients: the inputs a room holds are those of the game it is   *)
(* playing, its verdicts are the ones the presses justify, its players are *)
(* shown the state it is in, and what they are shown is a Match.  A call   *)
(* is followed through its handlers: MidGame says what holds between two   *)
(* handlers of one tick.                                                   *)
(***************************************************************************)
EXTENDS RoomClients, RoomHandlersProofs

-----------------------------------------------------------------------------
(* The room *)

(* A new room is sound. *)
LEMMA InitIsSound == Init => Sound(room)
<1> SUFFICES ASSUME NEW d \in GameDifficulty, room = NewRoom(d)
             PROVE  Sound(room)
  BY BoundsAssumption DEF Init
<1> QED
  BY NewRoomIsSound

(* Every call, and the passing of time, keeps the room sound. *)
LEMMA NextIsSound == Sound(room) /\ [Next]_room => Sound(room')
<1> SUFFICES ASSUME Sound(room), [Next]_room
             PROVE  Sound(room')
  OBVIOUS
<1>1. Sound(Begin(room))
  BY BeginIsSound
<1>2. ASSUME NEW id \in PlayerId, DoAddPlayer(id)
      PROVE  Sound(room')
  BY <1>1, <1>2, AddPlayerIsSound DEF DoAddPlayer
<1>3. ASSUME NEW id \in PlayerId, DoRemovePlayer(id)
      PROVE  Sound(room')
  BY <1>1, <1>3, RemovePlayerIsSound DEF DoRemovePlayer
<1>4. ASSUME NEW id \in PlayerId, NEW m \in ClientMessage,
             DoPlayerMessage(id, m)
      PROVE  Sound(room')
  BY <1>1, <1>4, PlayerMessageIsSound DEF DoPlayerMessage, ClientMessage
<1>5. ASSUME DoTick
      PROVE  Sound(room')
  <2>1. room.difficulty \in GameDifficulty
    BY DEF Sound, RoomState
  <2>2. GetRandomGameplayInput(room.difficulty) \subseteq GameplayInput
    BY <2>1 DEF GetRandomGameplayInput, GameDifficulty, GameplayInput
  <2> QED
    BY <1>1, <1>5, <2>2, TickIsSound DEF DoTick
<1>6. ASSUME TimePasses
      PROVE  Sound(room')
  BY <1>1, <1>6, ElapseIsSound DEF TimePasses
<1>7. CASE UNCHANGED room
  BY <1>7
<1> QED
  BY <1>2, <1>3, <1>4, <1>5, <1>6, <1>7 DEF Next

(***************************************************************************)
(* Every reachable room is sound.                                          *)
(***************************************************************************)
THEOREM RoomIsSound == Spec => []Sound(room)
<1>1. Init => Sound(room)
  BY InitIsSound
<1>2. Sound(room) /\ [Next]_room => Sound(room)'
  BY NextIsSound
<1> QED
  BY <1>1, <1>2, PTL DEF Spec

(***************************************************************************)
(* The fields of a room, and the messages it publishes, keep their types.  *)
(***************************************************************************)
THEOREM TypeIsInvariant == Spec => []TypeOK
<1>1. Sound(room) => TypeOK
  BY DEF Sound, TypeOK
<1> QED
  BY <1>1, RoomIsSound, PTL

(***************************************************************************)
(* tick() never takes the value of an empty optional, for any players,     *)
(* limits, difficulties and inputs.                                        *)
(***************************************************************************)
THEOREM TickIsSafe == Spec => []TickNeverThrows
<1>1. Sound(room) => TickNeverThrows
  BY DEF Sound, TickNeverThrows
<1> QED
  BY <1>1, RoomIsSound, PTL

(***************************************************************************)
(* No timer runs outside the part of the game it times.                    *)
(***************************************************************************)
THEOREM TimersAreFresh == Spec => []TimersBelongToTheGame
<1>1. Sound(room) => TimersBelongToTheGame
  BY DEF Sound, TimersBelongToTheGame
<1> QED
  BY <1>1, RoomIsSound, PTL

-----------------------------------------------------------------------------
(* One verdict per game *)

Silent(r) == VerdictsAt(r) = {}

(* The verdict of s is told to both players of r, to P1 first. *)
ToldToBoth(s, r) ==
  \E first, second \in VerdictsAt(s) :
    /\ VerdictsAt(s) = {first, second}
    /\ first < second
    /\ s.published[first].to = r.players["P1"].id
    /\ s.published[second]
         = [s.published[first] EXCEPT !.to = r.players["P2"].id]

(* A call of a room that ends no game. *)
EndsNoGame(s, r) ==
  /\ Silent(s)
  /\ s.gameplayState = r.gameplayState \/ ~ Running(r) \/ ~ IsFull(s)

(* A handler of a running game: it goes on, or it is over and decided. *)
GoesOnOrIsDecided(s, r) ==
  \/ Running(s) /\ Silent(s) /\ s.players = r.players
  \/ s.gameplayState = "OVER" /\ ToldToBoth(s, r)

(* A message adds one to the verdicts of a call, or none. *)
LEMMA PublishedVerdicts ==
  ASSUME NEW r \in RoomState, NEW id \in PlayerId, NEW m \in GameplayMessage
  PROVE  LET s == Publish(r, id, m)
             last == Len(r.published) + 1
         IN /\ last \in Nat
            /\ \A i \in VerdictsAt(r) : i \in Nat /\ i < last
            /\ s.published[last] = [to |-> id, message |-> m]
            /\ \A i \in VerdictsAt(r) : s.published[i] = r.published[i]
            /\ VerdictsAt(s) = IF m.messageType \in GameOverType
                                 THEN VerdictsAt(r) \cup {last}
                                 ELSE VerdictsAt(r)
<1> DEFINE e == [to |-> id, message |-> m]
           all == Append(r.published, e)
           last == Len(r.published) + 1
<1>1. r.published \in Seq(Published) /\ e \in Published
  BY DEF RoomState, Published
<1>2. Publish(r, id, m).published = all
  BY DEF Publish, RoomState
<1>3. e.message = m
  OBVIOUS
<1> HIDE DEF e
<1>4. /\ DOMAIN r.published = 1..Len(r.published) /\ Len(r.published) \in Nat
      /\ DOMAIN all = 1..last
      /\ \A i \in 1..Len(r.published) : all[i] = r.published[i]
      /\ all[last] = e
  BY <1>1
<1> HIDE DEF all
<1>5. /\ last \in Nat /\ last \notin DOMAIN r.published
      /\ \A i \in DOMAIN all : i \in DOMAIN r.published \/ i = last
      /\ \A i \in DOMAIN r.published : i \in DOMAIN all /\ i \in Nat /\ i < last
      /\ last \in DOMAIN all
  BY <1>4
<1>6. \A i \in VerdictsAt(r) : i \in DOMAIN r.published
  BY DEF VerdictsAt
<1>7. VerdictsAt(Publish(r, id, m))
        = {i \in DOMAIN all : all[i].message.messageType \in GameOverType}
  BY <1>2 DEF VerdictsAt
<1> HIDE DEF last
<1>8. VerdictsAt(Publish(r, id, m)) = IF m.messageType \in GameOverType
                                        THEN VerdictsAt(r) \cup {last}
                                        ELSE VerdictsAt(r)
  BY <1>3, <1>4, <1>5, <1>7 DEF VerdictsAt
<1>9. all[last] = e /\ \A i \in VerdictsAt(r) : all[i] = r.published[i]
  BY <1>4, <1>6
<1>10. \A i \in VerdictsAt(r) : i \in Nat /\ i < last
  BY <1>5, <1>6
<1> QED
  BY <1>2, <1>5, <1>8, <1>9, <1>10 DEF e, last

(* Only verdicts break the silence. *)
LEMMA BroadcastIsSilent ==
  ASSUME NEW r \in RoomState, NEW m \in GameplayMessage, Silent(r),
         m.messageType \notin GameOverType
  PROVE  Silent(BroadcastGameplayMessage(r, m))
<1>1. ASSUME NEW s \in RoomState, Silent(s), NEW a \in Assignment
      PROVE  PublishToSeat(s, a, m) \in RoomState
             /\ Silent(PublishToSeat(s, a, m))
  <2>1. CASE IsSeated(s, a)
    <3>1. s.players[a].id \in PlayerId
      BY <2>1, <1>1, SeatedPlayer DEF Player
    <3> QED
      BY <1>1, <2>1, <3>1, PublishedVerdicts, PublishToSeatKeepsGame
      DEF PublishToSeat, Silent
  <2>2. CASE ~ IsSeated(s, a)
    BY <1>1, <2>2 DEF PublishToSeat
  <2> QED
    BY <2>1, <2>2
<1> QED
  BY <1>1 DEF BroadcastGameplayMessage, Assignment

(* A verdict on a full room is told to both players. *)
LEMMA GameOverIsTold ==
  ASSUME NEW r, Sound(r), IsFull(r), Silent(r),
         NEW type \in GameOverType, NEW w \in Assignment \cup {NULL}
  PROVE  /\ GameOver(r, type, w).gameplayState = "OVER"
         /\ ToldToBoth(GameOver(r, type, w), r)
<1> DEFINE over == [r EXCEPT !.gameplayState = "OVER"]
           m == [messageType |-> type, gameResult |-> BuildGameResultDTO(r, w)]
           id1 == r.players["P1"].id
           id2 == r.players["P2"].id
           once == Publish(over, id1, m)
           twice == Publish(once, id2, m)
           last == Len(over.published) + 1
           next == Len(once.published) + 1
<1>1. r \in RoomState
  BY DEF Sound
<1>2. m \in GameplayMessage /\ m.messageType \in GameOverType
  BY <1>1, GameResultType DEF GameplayMessage, GameOverMessage
<1>3. over \in RoomState /\ over.players = r.players
      /\ over.gameplayState = "OVER" /\ over.published = r.published
  BY <1>1 DEF RoomState, GameplayState
<1>4. id1 \in PlayerId /\ id2 \in PlayerId
  BY <1>1, SeatedPlayer DEF IsFull, Assignment, Player
<1>5. VerdictsAt(over) = {}
  BY <1>3 DEF Silent, VerdictsAt
<1>6. GameOver(r, type, w) = BroadcastGameplayMessage(over, m)
  BY DEF GameOver
<1> HIDE DEF over, m, id1, id2
<1>7. /\ once.published[last] = [to |-> id1, message |-> m]
      /\ VerdictsAt(once) = {last}
  BY <1>2, <1>3, <1>4, <1>5, PublishedVerdicts
<1>8. once \in RoomState /\ SameGame(once, over)
  BY <1>2, <1>3, <1>4, PublishKeepsGame
<1> HIDE DEF once, last
<1>9. /\ twice.published[next] = [to |-> id2, message |-> m]
      /\ twice.published[last] = once.published[last]
      /\ VerdictsAt(twice) = {last, next}
      /\ last < next
  BY <1>2, <1>4, <1>7, <1>8, PublishedVerdicts
<1>10. twice \in RoomState /\ SameGame(twice, once)
  BY <1>2, <1>4, <1>8, PublishKeepsGame
<1>11. BroadcastGameplayMessage(over, m) = twice
  <2>1. PublishToSeat(over, "P1", m) = once
    BY <1>3 DEF PublishToSeat, IsFull, IsSeated, Assignment, once, id1
  <2>2. PublishToSeat(once, "P2", m) = twice
    BY <1>3, <1>8 DEF PublishToSeat, IsFull, IsSeated, Assignment, SameGame, id2
  <2> QED
    BY <2>1, <2>2 DEF BroadcastGameplayMessage
<1> HIDE DEF twice, next
<1>12. twice.gameplayState = "OVER"
  BY <1>3, <1>8, <1>10 DEF SameGame
<1>13. twice.published[next] = [twice.published[last] EXCEPT !.to = id2]
       /\ twice.published[last].to = id1
  BY <1>7, <1>9
<1> QED
  BY <1>6, <1>9, <1>11, <1>12, <1>13 DEF ToldToBoth, id1, id2

(* What the handlers of a running game do to its end. *)
LEMMA CanPlayGoesOn ==
  ASSUME NEW r, Sound(r), Running(r), Silent(r), NEW input \in GameplayInput
  PROVE  LET s == HandleEveryoneCanPlay(r, input)
         IN Running(s) /\ Silent(s) /\ s.players = r.players
<1> DEFINE counting == StartCountdown(r)
           asked == [counting EXCEPT !.gameplayState = "EXPECTING_INPUT",
                                     !.readyForInputAt = GetTimeNow,
                                     !.expectedInput = input]
           m == [messageType |-> "GAME_EXPECTING_INPUT",
                 expectedInput |-> input]
<1>1. CASE r.gameplayState = "STARTED" /\ EveryoneCanPlay(r)
  <2>1. r \in RoomState
    BY DEF Sound
  <2>2. counting \in RoomState
    BY <1>1, StartCountdownIsSound DEF Sound
  <2>3. /\ counting.gameplayState = "STARTED"
        /\ counting.players = r.players
        /\ counting.published = r.published
    BY <1>1, <2>1 DEF StartCountdown, RoomState
  <2>4. HandleEveryoneCanPlay(r, input)
          \in {counting, BroadcastGameplayMessage(asked, m)}
    BY <1>1 DEF HandleEveryoneCanPlay, RequestInput
  <2> HIDE DEF counting
  <2>5. GetTimeNow \in Age
    BY ConfigAssumption DEF GetTimeNow, Age
  <2>6. /\ asked \in RoomState
        /\ asked.gameplayState = "EXPECTING_INPUT"
        /\ asked.players = counting.players
        /\ asked.published = counting.published
    BY <2>2, <2>5 DEF RoomState, GameplayState
  <2>7. m \in GameplayMessage /\ m.messageType \notin GameOverType
    BY DEF GameplayMessage, GameExpectingInputMessage, GameOverType
  <2>8. Silent(counting) /\ Silent(asked)
    BY <2>3, <2>6 DEF Silent, VerdictsAt
  <2> HIDE DEF asked, m
  <2>9. /\ Silent(BroadcastGameplayMessage(asked, m))
        /\ SameGame(BroadcastGameplayMessage(asked, m), asked)
    BY <2>6, <2>7, <2>8, BroadcastIsSilent, BroadcastKeepsGame
  <2> QED
    BY <2>3, <2>4, <2>6, <2>8, <2>9 DEF Running, SameGame
<1>2. CASE ~ (r.gameplayState = "STARTED" /\ EveryoneCanPlay(r))
  BY <1>2 DEF HandleEveryoneCanPlay
<1> QED
  BY <1>1, <1>2

LEMMA OnePlayerPlayedGoesOn ==
  ASSUME NEW r, Sound(r), Running(r), Silent(r)
  PROVE  GoesOnOrIsDecided(HandleOnePlayerPlayed(r), r)
<1> DEFINE played == IF HasPlayed(r, "P1") THEN "P1" ELSE "P2"
           other == OtherAssignment(played)
           tooEarly == GameOver(r, "GAME_OVER_EARLY_INPUT", other)
           wrong == GameOver(r, "GAME_OVER_WRONG_INPUT", other)
           won == GameOver(r, "GAME_OVER_WIN", played)
<1>1. HandleOnePlayerPlayed(r) \in {r, tooEarly, wrong, won}
  BY DEF HandleOnePlayerPlayed
<1>2. played \in Assignment /\ other \in Assignment
  BY OtherSeat DEF Assignment
<1>3. IsFull(r)
  BY DEF Sound, ValuesAreHeld, Running
<1> HIDE DEF played, other
<1>4. /\ GoesOnOrIsDecided(tooEarly, r)
      /\ GoesOnOrIsDecided(wrong, r)
      /\ GoesOnOrIsDecided(won, r)
  BY <1>2, <1>3, GameOverIsTold DEF GoesOnOrIsDecided, GameOverType
<1> HIDE DEF tooEarly, wrong, won
<1> QED
  BY <1>1, <1>4 DEF GoesOnOrIsDecided

LEMMA EveryonePlayedGoesOn ==
  ASSUME NEW r, Sound(r), Running(r), Silent(r)
  PROVE  GoesOnOrIsDecided(HandleEveryonePlayed(r), r)
<1> DEFINE won1 == GameOver(r, "GAME_OVER_WIN", "P1")
           won2 == GameOver(r, "GAME_OVER_WIN", "P2")
           draw == GameOver(r, "GAME_OVER_DRAW", NULL)
<1>1. HandleEveryonePlayed(r) \in {r, won1, won2, draw}
  BY DEF HandleEveryonePlayed
<1>2. IsFull(r)
  BY DEF Sound, ValuesAreHeld, Running
<1>3. /\ GoesOnOrIsDecided(won1, r)
      /\ GoesOnOrIsDecided(won2, r)
      /\ GoesOnOrIsDecided(draw, r)
  BY <1>2, GameOverIsTold DEF GoesOnOrIsDecided, GameOverType, Assignment
<1> HIDE DEF won1, won2, draw
<1> QED
  BY <1>1, <1>3 DEF GoesOnOrIsDecided

LEMMA TimeoutGoesOn ==
  ASSUME NEW r, Sound(r), Running(r), Silent(r)
  PROVE  GoesOnOrIsDecided(HandleTimeout(r), r)
<1> DEFINE draw == GameOver(r, "GAME_OVER_DRAW", NULL)
<1>1. HandleTimeout(r) \in {r, draw}
  BY DEF HandleTimeout
<1>2. IsFull(r)
  BY DEF Sound, ValuesAreHeld, Running
<1>3. GoesOnOrIsDecided(draw, r)
  BY <1>2, GameOverIsTold DEF GoesOnOrIsDecided, GameOverType
<1> HIDE DEF draw
<1> QED
  BY <1>1, <1>3 DEF GoesOnOrIsDecided

(* A tick of a running game, through its chained handlers. *)
LEMMA RunningTickGoesOn ==
  ASSUME NEW r, Sound(r), Running(r), Silent(r), NEW input \in GameplayInput
  PROVE  GoesOnOrIsDecided(Tick(r, input), r)
<1>1. CASE r.gameplayState = "STARTED"
  <2> DEFINE s == HandleEveryoneCanPlay(r, input)
  <2>1. Sound(s) /\ Running(s) /\ Silent(s) /\ s.players = r.players
    BY CanPlayGoesOn, HandleEveryoneCanPlayIsSound
  <2>2. Tick(r, input) = HandleOnePlayerPlayed(s)
    BY <1>1 DEF Tick
  <2> HIDE DEF s
  <2>3. GoesOnOrIsDecided(HandleOnePlayerPlayed(s), s)
    BY <2>1, OnePlayerPlayedGoesOn
  <2> QED
    BY <2>1, <2>2, <2>3 DEF GoesOnOrIsDecided, ToldToBoth
<1>2. CASE r.gameplayState = "EXPECTING_INPUT"
  <2> DEFINE s == HandleOnePlayerPlayed(r)
             t == HandleEveryonePlayed(s)
  <2>1. Tick(r, input) = HandleTimeout(t)
    BY <1>2 DEF Tick
  <2>2. Sound(s) /\ GoesOnOrIsDecided(s, r)
    BY OnePlayerPlayedGoesOn, HandleOnePlayerPlayedIsSound
  <2> HIDE DEF s
  <2>3. CASE s.gameplayState = "OVER"
    <3>1. t = s
      BY <2>3 DEF HandleEveryonePlayed
    <3>2. HandleTimeout(t) = s
      BY <2>3, <3>1 DEF HandleTimeout
    <3> QED
      BY <2>1, <2>2, <3>2
  <2>4. CASE Running(s) /\ Silent(s) /\ s.players = r.players
    <3>1. Sound(t) /\ GoesOnOrIsDecided(t, s)
      BY <2>2, <2>4, EveryonePlayedGoesOn, HandleEveryonePlayedIsSound
    <3> HIDE DEF t
    <3>2. CASE t.gameplayState = "OVER"
      <4>1. HandleTimeout(t) = t
        BY <3>2 DEF HandleTimeout
      <4> QED
        BY <2>1, <2>4, <3>1, <4>1 DEF GoesOnOrIsDecided, ToldToBoth
    <3>3. CASE Running(t) /\ Silent(t) /\ t.players = s.players
      <4>1. GoesOnOrIsDecided(HandleTimeout(t), t)
        BY <3>1, <3>3, TimeoutGoesOn
      <4> QED
        BY <2>1, <2>4, <3>3, <4>1 DEF GoesOnOrIsDecided, ToldToBoth
    <3> QED
      BY <3>1, <3>2, <3>3 DEF GoesOnOrIsDecided
  <2> QED
    BY <2>2, <2>3, <2>4 DEF GoesOnOrIsDecided
<1> QED
  BY <1>1, <1>2 DEF Running

(* A tick of a room where no game runs: the lobby, or after a verdict. *)
LEMMA IdleTickEndsNoGame ==
  ASSUME NEW r, Sound(r), ~ Running(r), Silent(r), NEW input \in GameplayInput
  PROVE  EndsNoGame(Tick(r, input), r)
<1>1. r \in RoomState /\ r.gameplayState \in {"WAITING_PLAYERS", "OVER"}
  BY DEF Sound, RoomState, GameplayState, Running
<1>2. CASE r.gameplayState = "WAITING_PLAYERS"
  <2> DEFINE started == [r EXCEPT !.gameplayState = "STARTED"]
             m == [messageType |-> "ALL_READY_GAME_STARTING"]
  <2>1. Tick(r, input) \in {r, BroadcastGameplayMessage(started, m)}
    BY <1>2 DEF Tick, HandleEveryoneReady
  <2>2. started \in RoomState /\ Silent(started)
    BY <1>1 DEF RoomState, GameplayState, Silent, VerdictsAt
  <2>3. m \in GameplayMessage /\ m.messageType \notin GameOverType
    BY DEF GameplayMessage, GameStartingMessage, GameStartingType, GameOverType
  <2> HIDE DEF started, m
  <2>4. Silent(BroadcastGameplayMessage(started, m))
    BY <2>2, <2>3, BroadcastIsSilent
  <2> QED
    BY <2>1, <2>4 DEF EndsNoGame
<1>3. CASE r.gameplayState = "OVER"
  <2> DEFINE reset == ResetRound(r)
             again == [reset EXCEPT !.gameplayState = "STARTED"]
             m == [messageType |-> "ALL_REPLAY_READY_GAME_STARTING"]
  <2>1. Tick(r, input) \in {r, BroadcastGameplayMessage(again, m)}
    BY <1>3 DEF Tick, HandleReplay
  <2>2. reset \in RoomState /\ reset.published = r.published
    BY <1>1, ResetRoundFacts DEF ResetRound, RoomState
  <2>3. m \in GameplayMessage /\ m.messageType \notin GameOverType
    BY DEF GameplayMessage, GameStartingMessage, GameStartingType, GameOverType
  <2> HIDE DEF reset, m
  <2>4. again \in RoomState /\ Silent(again)
    BY <2>2 DEF RoomState, GameplayState, Silent, VerdictsAt
  <2> HIDE DEF again
  <2>5. Silent(BroadcastGameplayMessage(again, m))
    BY <2>3, <2>4, BroadcastIsSilent
  <2> QED
    BY <2>1, <2>5 DEF EndsNoGame
<1> QED
  BY <1>1, <1>2, <1>3

LEMMA AddPlayerEndsNoGame ==
  ASSUME NEW r, Sound(r), Silent(r), NEW id \in PlayerId
  PROVE  EndsNoGame(AddPlayer(r, id), r)
<1>1. CASE IsFull(r)
  BY <1>1 DEF AddPlayer, EndsNoGame
<1>2. CASE ~ IsFull(r)
  <2> DEFINE a == GetAvailableAssignment(r)
             other == OtherAssignment(a)
             seated == [r EXCEPT !.players[a] = NewPlayer(id)]
             otherDTO == IF IsSeated(r, other) THEN BuildLobbyDTO(r, other)
                                               ELSE NULL
             hello == [messageType |-> "ROOM_JOINED", playerAssignment |-> a,
                       otherPlayer |-> otherDTO]
             joined == Publish(seated, id, hello)
             news == [messageType |-> "PLAYER_JOINED_GAME",
                      player |-> BuildLobbyDTO(seated, a)]
  <2>1. r \in RoomState
    BY DEF Sound
  <2>2. a \in Assignment /\ other \in Assignment
    BY OtherSeat DEF GetAvailableAssignment, Assignment
  <2>4. AddPlayer(r, id) = PublishToSeat(joined, other, news)
    BY <1>2 DEF AddPlayer
  <2>5. hello \in GameplayMessage /\ hello.messageType \notin GameOverType
    <3>1. otherDTO \in PlayerLobbyDTO \cup {NULL}
      <4> HIDE DEF other
      <4> QED
        BY <2>1, <2>2, LobbyDTOType
    <3> HIDE DEF otherDTO, a
    <3> QED
      BY <2>2, <3>1 DEF GameplayMessage, RoomJoinedMessage, GameOverType
  <2> HIDE DEF a, other, hello
  <2>6. /\ seated \in RoomState /\ IsSeated(seated, a)
        /\ seated.gameplayState = r.gameplayState
        /\ seated.published = r.published
    BY <2>1, <2>2, NewPlayerType DEF RoomState, IsSeated
  <2> HIDE DEF seated
  <2>7. Silent(seated)
    BY <2>6 DEF Silent, VerdictsAt
  <2>8. /\ joined \in RoomState /\ SameGame(joined, seated)
        /\ Silent(joined)
    BY <2>5, <2>6, <2>7, PublishKeepsGame, PublishedVerdicts DEF Silent
  <2>9. news \in GameplayMessage /\ news.messageType \notin GameOverType
    BY <2>2, <2>6, LobbyDTOType
    DEF GameplayMessage, PlayerJoinedRoomMessage, GameOverType
  <2> HIDE DEF joined, news
  <2>10. /\ SameGame(PublishToSeat(joined, other, news), joined)
         /\ Silent(PublishToSeat(joined, other, news))
    <3>1. CASE IsSeated(joined, other)
      <4>1. joined.players[other].id \in PlayerId
        BY <2>2, <2>8, <3>1, SeatedPlayer DEF Player
      <4> QED
        BY <2>8, <2>9, <3>1, <4>1, PublishedVerdicts, PublishKeepsGame
        DEF PublishToSeat, Silent
    <3>2. CASE ~ IsSeated(joined, other)
      BY <2>8, <3>2 DEF PublishToSeat, SameGame
    <3> QED
      BY <3>1, <3>2
  <2> QED
    BY <2>4, <2>6, <2>8, <2>10 DEF EndsNoGame, SameGame
<1> QED
  BY <1>1, <1>2

LEMMA RemovePlayerEndsNoGame ==
  ASSUME NEW r, Sound(r), Silent(r), NEW id \in PlayerId
  PROVE  EndsNoGame(RemovePlayer(r, id), r)
<1>1. CASE ~ HasPlayerWithId(r, id)
  BY <1>1 DEF RemovePlayer, EndsNoGame
<1>2. CASE HasPlayerWithId(r, id)
  <2> DEFINE a == GetPlayerById(r, id)
             reset == ResetRound(r)
             left == [reset EXCEPT !.players[a] = NULL,
                                   !.gameplayState = "WAITING_PLAYERS"]
             m == [messageType |-> "PLAYER_LEFT_GAME", playerAssignment |-> a]
  <2>1. r \in RoomState
    BY DEF Sound
  <2>2. a \in Assignment
    BY <1>2, <2>1, FoundPlayer
  <2>3. reset \in RoomState /\ reset.published = r.published
    BY <2>1, ResetRoundFacts DEF ResetRound, RoomState
  <2>4. RemovePlayer(r, id) = BroadcastGameplayMessage(left, m)
    BY <1>2 DEF RemovePlayer
  <2> HIDE DEF a, reset
  <2>5. m \in GameplayMessage /\ m.messageType \notin GameOverType
    BY <2>2 DEF GameplayMessage, PlayerLeftRoomMessage, GameOverType
  <2>6. left \in RoomState /\ left.players[a] = NULL /\ Silent(left)
    BY <2>2, <2>3 DEF RoomState, GameplayState, Silent, VerdictsAt
  <2> HIDE DEF left, m
  <2>7. /\ Silent(BroadcastGameplayMessage(left, m))
        /\ SameGame(BroadcastGameplayMessage(left, m), left)
    BY <2>5, <2>6, BroadcastIsSilent, BroadcastKeepsGame
  <2> QED
    BY <2>2, <2>4, <2>6, <2>7 DEF EndsNoGame, SameGame, IsFull, IsSeated
<1> QED
  BY <1>1, <1>2

LEMMA PlayerMessageEndsNoGame ==
  ASSUME NEW r, Sound(r), Silent(r), NEW id \in PlayerId,
         NEW m \in RoomActionMessage
  PROVE  EndsNoGame(HandlePlayerMessage(r, id, m), r)
<1> DEFINE a == GetPlayerById(r, id)
           t == HandlePlayerMessage(r, id, m)
<1>1. CASE ~ HasPlayerWithId(r, id)
  BY <1>1 DEF HandlePlayerMessage, EndsNoGame
<1>2. CASE HasPlayerWithId(r, id) /\ m \in LeaveGame
  <2>1. HandlePlayerMessage(r, id, m) = RemovePlayer(r, id)
    BY <1>2 DEF HandlePlayerMessage, LeaveGame
  <2> QED
    BY <2>1, RemovePlayerEndsNoGame
<1>3. CASE HasPlayerWithId(r, id) /\ m \notin LeaveGame
  <2>1. r \in RoomState
    BY DEF Sound
  <2>2. a \in Assignment
    BY <1>3, <2>1, FoundPlayer
  <2>3. \/ t = r
        \/ \E p \in Player :
             \/ t = [r EXCEPT !.players[a] = p]
             \/ \E news \in PlayerReadyStateChangedMessage
                              \cup PlayerReplayReadyStateChangedMessage :
                  t = BroadcastGameplayMessage([r EXCEPT !.players[a] = p],
                                               news)
    BY <1>3, <2>1, PlayerMessageOutcome, SMTT(30)
  <2> HIDE DEF t, a
  <2>4. ASSUME NEW p \in Player
        PROVE  LET s == [r EXCEPT !.players[a] = p]
               IN /\ s \in RoomState /\ Silent(s)
                  /\ s.gameplayState = r.gameplayState
    BY <2>1, <2>2 DEF RoomState, Silent, VerdictsAt
  <2>5. ASSUME NEW p \in Player, t = [r EXCEPT !.players[a] = p]
        PROVE  EndsNoGame(t, r)
    BY <2>4, <2>5 DEF EndsNoGame
  <2>6. ASSUME NEW p \in Player,
               NEW news \in PlayerReadyStateChangedMessage
                              \cup PlayerReplayReadyStateChangedMessage,
               t = BroadcastGameplayMessage([r EXCEPT !.players[a] = p], news)
        PROVE  EndsNoGame(t, r)
    <3> DEFINE s == [r EXCEPT !.players[a] = p]
    <3>1. s \in RoomState /\ Silent(s) /\ s.gameplayState = r.gameplayState
      BY <2>4
    <3>2. news \in GameplayMessage /\ news.messageType \notin GameOverType
      BY DEF GameplayMessage, PlayerReadyStateChangedMessage,
             PlayerReplayReadyStateChangedMessage, GameOverType
    <3> HIDE DEF s
    <3>3. /\ Silent(BroadcastGameplayMessage(s, news))
          /\ SameGame(BroadcastGameplayMessage(s, news), s)
      BY <3>1, <3>2, BroadcastIsSilent, BroadcastKeepsGame
    <3> QED
      BY <2>6, <3>1, <3>3 DEF EndsNoGame, SameGame, s
  <2>7. t = r => EndsNoGame(t, r)
    BY DEF EndsNoGame
  <2> QED
    BY <2>3, <2>5, <2>6, <2>7 DEF t
<1> QED
  BY <1>1, <1>2, <1>3

LEMMA ElapseEndsNoGame ==
  ASSUME NEW r \in RoomState, Silent(r)
  PROVE  EndsNoGame(Elapse(r), r)
<1>1. /\ Elapse(r).gameplayState = r.gameplayState
      /\ Elapse(r).published = r.published
  BY DEF Elapse, RoomState
<1> QED
  BY <1>1 DEF EndsNoGame, Silent, VerdictsAt

(* The next room, seen from the one before: its players are still there    *)
(* when Begin has forgotten its messages.                                  *)
LEMMA BeginIsSilent ==
  ASSUME NEW r, Sound(r)
  PROVE  Silent(Begin(r)) /\ SameGame(Begin(r), r)
<1>1. Begin(r).published = << >> /\ SameGame(Begin(r), r)
  BY DEF Begin, Sound, RoomState, SameGame
<1> QED
  BY <1>1 DEF Silent, VerdictsAt

LEMMA NextDecidesOnce ==
  ASSUME Sound(room), Next
  PROVE  \/ EndsNoGame(room', Begin(room))
         \/ /\ Running(room) /\ GoesOnOrIsDecided(room', Begin(room))
<1>1. /\ Sound(Begin(room)) /\ Silent(Begin(room))
      /\ SameGame(Begin(room), room)
  BY BeginIsSound, BeginIsSilent
<1>2. ASSUME NEW id \in PlayerId, DoAddPlayer(id)
      PROVE  EndsNoGame(room', Begin(room))
  BY <1>1, <1>2, AddPlayerEndsNoGame DEF DoAddPlayer
<1>3. ASSUME NEW id \in PlayerId, DoRemovePlayer(id)
      PROVE  EndsNoGame(room', Begin(room))
  BY <1>1, <1>3, RemovePlayerEndsNoGame DEF DoRemovePlayer
<1>4. ASSUME NEW id \in PlayerId, NEW m \in ClientMessage,
             DoPlayerMessage(id, m)
      PROVE  EndsNoGame(room', Begin(room))
  BY <1>1, <1>4, PlayerMessageEndsNoGame DEF DoPlayerMessage, ClientMessage
<1>5. ASSUME DoTick
      PROVE  \/ EndsNoGame(room', Begin(room))
             \/ Running(room) /\ GoesOnOrIsDecided(room', Begin(room))
  <2>1. room.difficulty \in GameDifficulty
    BY DEF Sound, RoomState
  <2>2. GetRandomGameplayInput(room.difficulty) \subseteq GameplayInput
    BY <2>1 DEF GetRandomGameplayInput, GameDifficulty, GameplayInput
  <2>3. PICK input \in GameplayInput : room' = Tick(Begin(room), input)
    BY <1>5, <2>2 DEF DoTick
  <2>4. Running(Begin(room)) <=> Running(room)
    BY <1>1 DEF Running, SameGame
  <2> QED
    BY <1>1, <2>3, <2>4, RunningTickGoesOn, IdleTickEndsNoGame
<1>6. ASSUME TimePasses
      PROVE  EndsNoGame(room', Begin(room))
  BY <1>1, <1>6, ElapseEndsNoGame DEF TimePasses, Sound
<1> QED
  BY <1>2, <1>3, <1>4, <1>5, <1>6 DEF Next

(***************************************************************************)
(* Whatever is called in whatever order, a game ends with exactly one      *)
(* verdict, told to both of its players in the call that ends it, and no   *)
(* other call gives one.                                                   *)
(***************************************************************************)
THEOREM VerdictsAreUnique == Spec => OneVerdictPerGame
<1> DEFINE Decided ==
             IF Running(room) /\ ~ Running(room') /\ IsFull(room')
               THEN ToldToBoth(room', room)
               ELSE Silent(room')
<1>1. Sound(room) /\ Next => Decided
  <2> SUFFICES ASSUME Sound(room), Next
               PROVE  Decided
    OBVIOUS
  <2>1. SameGame(Begin(room), room)
    BY BeginIsSilent
  <2>2. Sound(room')
    BY NextIsSound
  <2>3. CASE EndsNoGame(room', Begin(room))
    BY <2>1, <2>3 DEF EndsNoGame, SameGame, Running
  <2>4. CASE Running(room) /\ GoesOnOrIsDecided(room', Begin(room))
    <3>1. CASE room'.gameplayState = "OVER" /\ ToldToBoth(room', Begin(room))
      <4>1. IsFull(room') /\ ~ Running(room')
        BY <2>2, <3>1 DEF Sound, ValuesAreHeld, Running
      <4> QED
        BY <2>1, <2>4, <3>1, <4>1 DEF ToldToBoth, SameGame
    <3>2. CASE Running(room') /\ Silent(room')
      BY <3>2
    <3> QED
      BY <2>4, <3>1, <3>2 DEF GoesOnOrIsDecided
  <2> QED
    BY <2>3, <2>4, NextDecidesOnce
<1>2. Sound(room) /\ [Next]_room => [Decided]_room
  BY <1>1
<1>3. Spec => [][Decided]_room
  BY <1>2, RoomIsSound, PTL DEF Spec
<1> QED
  BY <1>3 DEF OneVerdictPerGame, ToldToBoth, Silent
-----------------------------------------------------------------------------
(* The room and its clients *)

MatchVerdict == PlayersMatch!Verdict

(* A room in this state has been decided, as v, or is not decided. *)
VerdictOf(r, v) ==
  IF r.gameplayState = "OVER" THEN v \in MatchVerdict ELSE v = NULL

(* The players of r will show its state and v, once they have received     *)
(* what the call has published up to here.                                 *)
Showing(r, v) ==
  \A a \in Assignment :
    IsSeated(r, a) =>
      LET id == r.players[a].id
      IN SeenAfter(r, id, screen[id])
           = [phase |-> r.gameplayState, verdict |-> v]

(* The same between two calls. *)
Shown(v) ==
  /\ VerdictOf(room, v)
  /\ \A a \in Assignment :
       IsSeated(room, a) =>
         screen[room.players[a].id]
           = [phase |-> room.gameplayState, verdict |-> v]

(* Nobody is told of a fresh game. *)
NobodyIsFresh(r) ==
  \A m \in Outbox(r) :
    m.messageType \notin {"PLAYER_LEFT_GAME", "ALL_REPLAY_READY_GAME_STARTING",
                          "ROOM_JOINED"}

Held(r, seats) ==
  \A a \in Assignment : IsSeated(r, a) => (HasPlayed(r, a) <=> a \in seats)

(* What a verdict has to do with the presses r holds, by r alone: whether   *)
(* it is justified also depends on the ticks before.                       *)
ByPresses(r, m) ==
  LET winner == m.gameResult.winningPlayer
      loser == OtherAssignment(winner)
      Button(a) == r.players[a].inputPressed
      PressAge(a) == r.players[a].inputPressedAtServerTime
  IN \/ /\ m.messageType = "GAME_OVER_EARLY_INPUT"
        /\ pressed = {loser}
        /\ r.readyForInputAt = NULL
     \/ /\ m.messageType = "GAME_OVER_WRONG_INPUT"
        /\ pressed = {loser}
        /\ r.readyForInputAt # NULL
        /\ Button(loser) # r.expectedInput
     \/ /\ m.messageType = "GAME_OVER_WIN"
        /\ pressed = {winner}
        /\ r.readyForInputAt # NULL
        /\ Button(winner) = r.expectedInput
        /\ PressAge(winner) >= OnePlayerInputOnlyTimeout
     \/ /\ m.messageType = "GAME_OVER_WIN"
        /\ pressed = Assignment
        /\ r.readyForInputAt # NULL
        /\ PressAge(winner) > PressAge(loser)
     \/ /\ m.messageType = "GAME_OVER_DRAW"
        /\ winner = NULL
        /\ \/ /\ pressed = {}
              /\ r.readyForInputAt >= NoInputTimeout
           \/ /\ pressed = Assignment
              /\ PressAge("P1") = PressAge("P2")

Justified(r) ==
  \A m \in Outbox(r) : m.messageType \in GameOverType => ByPresses(r, m)

(* What the players of the match are shown. *)
MatchView ==
  [a \in Assignment |->
     IF IsSeated(room, a) THEN screen[room.players[a].id] ELSE NULL]

MatchStep == PlayersMatch!Next \/ UNCHANGED MatchView

(* The same players, who have pressed or not as before. *)
SameSeats(s, r) ==
  \A a \in Assignment :
    /\ IsSeated(s, a) <=> IsSeated(r, a)
    /\ IsSeated(r, a) => /\ s.players[a].id = r.players[a].id
                         /\ HasPlayed(s, a) <=> HasPlayed(r, a)

(* The inductive invariant, but for what ticks found early. *)
ClientsFit ==
  /\ Sound(room)
  /\ \E v \in MatchVerdict \cup {NULL} : Shown(v)
  /\ Held(room, pressed)
  /\ pressed \subseteq Assignment
  /\ Justified(room)

(* In a tick of a running game, between two of its handlers; from is the   *)
(* state of the room before the tick.                                      *)
MidGame(r, from) ==
  /\ Sound(r)
  /\ r.players = room.players
  /\ r.gameplayState \in {"STARTED", "EXPECTING_INPUT", "OVER"}
  /\ from = "EXPECTING_INPUT" => /\ r.gameplayState # "STARTED"
                                 /\ r.readyForInputAt # NULL
  /\ \E v \in MatchVerdict \cup {NULL} :
       /\ VerdictOf(r, v)
       /\ Showing(r, v)
       /\ from = "EXPECTING_INPUT" /\ r.gameplayState = "OVER" =>
            v.type # "GAME_OVER_EARLY_INPUT"
  /\ NobodyIsFresh(r)
  /\ Held(r, pressed)
  /\ pressed \subseteq Assignment
  /\ r.gameplayState # "OVER" => Silent(r)
  /\ Justified(r)

(* A step that gives no verdict, starts no game, and undoes no press of    *)
(* the game that goes on.                                                  *)
Uneventful ==
  /\ \A m \in Outbox(room') : m.messageType \notin GameOverType
  /\ Running(room') => Running(room) /\ pressed \subseteq pressed'

(* A game that goes on after somebody was found early is one in which both *)
(* had pressed: of one alone the tick that finds it makes the loser.       *)
EarlyFits ==
  Running(room) /\ early # {} => early = Assignment /\ pressed = Assignment

-----------------------------------------------------------------------------
(* What a call publishes, and what is shown after it *)

(* What is published is what is in the outbox. *)
LEMMA PublishOutbox ==
  ASSUME NEW r \in RoomState, NEW to \in PlayerId, NEW m \in GameplayMessage
  PROVE  Outbox(Publish(r, to, m)) = Outbox(r) \cup {m}
<1> DEFINE e == [to |-> to, message |-> m]
           all == Append(r.published, e)
           last == Len(r.published) + 1
<1>1. r.published \in Seq(Published) /\ e \in Published
  BY DEF RoomState, Published
<1>2. Publish(r, to, m).published = all
  BY DEF Publish, RoomState
<1>3. e.message = m
  OBVIOUS
<1> HIDE DEF e
<1>4. /\ DOMAIN r.published = 1..Len(r.published) /\ Len(r.published) \in Nat
      /\ DOMAIN all = 1..last
      /\ \A i \in 1..Len(r.published) : all[i] = r.published[i]
      /\ all[last] = e
  BY <1>1
<1> HIDE DEF all
<1>5. /\ last \in DOMAIN all
      /\ \A i \in DOMAIN all : i \in DOMAIN r.published \/ i = last
      /\ \A i \in DOMAIN r.published : i \in DOMAIN all
  BY <1>4
<1> QED
  BY <1>2, <1>3, <1>4, <1>5 DEF Outbox

LEMMA BroadcastOutbox ==
  ASSUME NEW r \in RoomState, NEW m \in GameplayMessage
  PROVE  Outbox(BroadcastGameplayMessage(r, m))
           = Outbox(r) \cup (IF IsEmpty(r) THEN {} ELSE {m})
<1> DEFINE once == PublishToSeat(r, "P1", m)
<1>1. ASSUME NEW s \in RoomState, NEW a \in Assignment
      PROVE  Outbox(PublishToSeat(s, a, m))
               = Outbox(s) \cup (IF IsSeated(s, a) THEN {m} ELSE {})
  <2>1. CASE IsSeated(s, a)
    <3>1. s.players[a].id \in PlayerId
      BY <2>1, SeatedPlayer DEF Player
    <3> QED
      BY <2>1, <3>1, PublishOutbox DEF PublishToSeat
  <2>2. CASE ~ IsSeated(s, a)
    BY <2>2 DEF PublishToSeat
  <2> QED
    BY <2>1, <2>2
<1>2. once \in RoomState /\ SameGame(once, r)
  BY PublishToSeatKeepsGame DEF Assignment
<1>3. Outbox(once) = Outbox(r) \cup (IF IsSeated(r, "P1") THEN {m} ELSE {})
  BY <1>1 DEF Assignment
<1>4. BroadcastGameplayMessage(r, m) = PublishToSeat(once, "P2", m)
  BY DEF BroadcastGameplayMessage
<1> HIDE DEF once
<1>5. Outbox(PublishToSeat(once, "P2", m))
        = Outbox(once) \cup (IF IsSeated(once, "P2") THEN {m} ELSE {})
  BY <1>1, <1>2 DEF Assignment
<1>6. IsSeated(once, "P2") <=> IsSeated(r, "P2")
  BY <1>2 DEF SameGame, IsSeated
<1>7. IsEmpty(r) <=> ~ IsSeated(r, "P1") /\ ~ IsSeated(r, "P2")
  BY DEF IsEmpty, Assignment
<1> QED
  BY <1>3, <1>4, <1>5, <1>6, <1>7

(* A message that says what the room now is shows it to its players. *)
LEMMA BroadcastShows ==
  ASSUME NEW r \in RoomState, NEW m \in GameplayMessage, NEW v,
         m.messageType \in TellingType,
         \A view : After(view, m) = [phase |-> r.gameplayState, verdict |-> v]
  PROVE  Showing(BroadcastGameplayMessage(r, m), v)
<1>1. SameGame(BroadcastGameplayMessage(r, m), r)
  BY BroadcastKeepsGame
<1> QED
  BY <1>1, BroadcastIsSeen DEF Showing, SameGame, IsSeated

(* Nothing is published yet when a call begins. *)
LEMMA BeginShows ==
  ASSUME NEW v, Sound(room), Shown(v)
  PROVE  /\ Sound(Begin(room)) /\ SameGame(Begin(room), room)
         /\ Outbox(Begin(room)) = {} /\ Silent(Begin(room))
         /\ VerdictOf(Begin(room), v) /\ Showing(Begin(room), v)
<1>1. /\ Sound(Begin(room)) /\ Silent(Begin(room))
      /\ SameGame(Begin(room), room)
  BY BeginIsSound, BeginIsSilent
<1>2. Begin(room).published = << >>
  BY DEF Begin, Sound, RoomState
<1>3. Outbox(Begin(room)) = {}
  BY <1>2 DEF Outbox
<1>4. ASSUME NEW id, NEW view
      PROVE  SeenAfter(Begin(room), id, view) = view
  BY <1>2, NothingIsSeen DEF SeenAfter
<1> QED
  BY <1>1, <1>3, <1>4 DEF Shown, Showing, VerdictOf, SameGame, IsSeated

-----------------------------------------------------------------------------
(* The ticks of a running game *)

(* A verdict that the presses account for. *)
LEMMA GameOverFits ==
  ASSUME NEW r, NEW from, MidGame(r, from), r.gameplayState # "OVER",
         NEW type, NEW w, [type |-> type, winner |-> w] \in MatchVerdict,
         from = "EXPECTING_INPUT" => type # "GAME_OVER_EARLY_INPUT",
         ByPresses(r, [messageType |-> type,
                         gameResult |-> BuildGameResultDTO(r, w)])
  PROVE  MidGame(GameOver(r, type, w), from)
<1> DEFINE over == [r EXCEPT !.gameplayState = "OVER"]
           m == [messageType |-> type, gameResult |-> BuildGameResultDTO(r, w)]
           v == [type |-> type, winner |-> w]
           s == BroadcastGameplayMessage(over, m)
<1>1. r \in RoomState /\ IsFull(r) /\ r.gameplayState # "WAITING_PLAYERS"
  BY DEF MidGame, Sound, ValuesAreHeld
<1>2. type \in GameOverType /\ w \in Assignment \cup {NULL}
  <2>1. v \in PlayersMatch!Verdict
    BY DEF MatchVerdict
  <2>2. v.type = type /\ v.winner = w
    OBVIOUS
  <2> HIDE DEF v
  <2> QED
    BY <2>1, <2>2 DEF PlayersMatch!Verdict, PlayersMatch!Seat, GameOverType,
                      Assignment
<1>3. Sound(GameOver(r, type, w))
  BY <1>1, <1>2, GameOverIsSound DEF MidGame
<1>4. m \in GameplayMessage /\ m.messageType = type
      /\ m.gameResult.winningPlayer = w
  BY <1>1, <1>2, GameResultType
  DEF GameplayMessage, GameOverMessage, BuildGameResultDTO
<1>5. /\ over \in RoomState /\ over.gameplayState = "OVER"
      /\ over.players = r.players /\ over.published = r.published
      /\ over.readyForInputAt = r.readyForInputAt
      /\ over.expectedInput = r.expectedInput
  BY <1>1 DEF RoomState, GameplayState
<1>6. GameOver(r, type, w) = s
  BY DEF GameOver
<1>7. \A view : After(view, m) = [phase |-> "OVER", verdict |-> v]
  BY <1>2, <1>4 DEF After, GameOverType, GameStartingType
<1>8. v \in MatchVerdict /\ v.type = type
  OBVIOUS
<1>9. ByPresses(r, m)
  OBVIOUS
<1> HIDE DEF over, m, v
<1>10. SameGame(s, over)
  BY <1>4, <1>5, BroadcastKeepsGame
<1>11. Outbox(s) \subseteq Outbox(r) \cup {m}
  <2>1. Outbox(over) = Outbox(r)
    BY <1>5 DEF Outbox
  <2> QED
    BY <1>4, <1>5, <2>1, BroadcastOutbox
<1>12. Showing(s, v)
  BY <1>2, <1>4, <1>5, <1>7, BroadcastShows DEF TellingType
<1> HIDE DEF s
<1>13. s.gameplayState = "OVER" /\ s.players = r.players
       /\ s.readyForInputAt = r.readyForInputAt
       /\ s.expectedInput = r.expectedInput
  BY <1>5, <1>10 DEF SameGame
<1>14. NobodyIsFresh(s)
  BY <1>2, <1>4, <1>11 DEF NobodyIsFresh, MidGame, GameOverType
<1>15. Held(s, pressed)
  BY <1>13 DEF MidGame, Held, HasPlayed, IsSeated
<1>16. Justified(s)
  <2>1. \A n : ByPresses(s, n) <=> ByPresses(r, n)
    BY <1>13 DEF ByPresses
  <2>2. \A n \in Outbox(r) : n.messageType \notin GameOverType
    BY DEF MidGame, Silent, VerdictsAt, Outbox
  <2> QED
    BY <1>9, <1>11, <2>1, <2>2 DEF Justified
<1>17. VerdictOf(s, v)
  BY <1>8, <1>13 DEF VerdictOf
<1>18. \E x \in MatchVerdict \cup {NULL} :
         /\ VerdictOf(s, x)
         /\ Showing(s, x)
         /\ from = "EXPECTING_INPUT" /\ s.gameplayState = "OVER" =>
              x.type # "GAME_OVER_EARLY_INPUT"
  BY <1>8, <1>12, <1>17
<1> QED
  BY <1>3, <1>6, <1>13, <1>14, <1>15, <1>16, <1>18 DEF MidGame

(* The countdown, and the request at its end. *)
LEMMA CanPlayFits ==
  ASSUME NEW r, NEW from, MidGame(r, from), r.gameplayState = "STARTED",
         NEW input \in GameplayInput
  PROVE  MidGame(HandleEveryoneCanPlay(r, input), from)
<1> DEFINE counting == StartCountdown(r)
           asked == [counting EXCEPT !.gameplayState = "EXPECTING_INPUT",
                                     !.readyForInputAt = GetTimeNow,
                                     !.expectedInput = input]
           m == [messageType |-> "GAME_EXPECTING_INPUT",
                 expectedInput |-> input]
           s == BroadcastGameplayMessage(asked, m)
<1>1. CASE EveryoneCanPlay(r)
  <2>1. r \in RoomState /\ Sound(r)
    BY DEF MidGame, Sound
  <2>2. Sound(counting) /\ counting \in RoomState
    BY <1>1, <2>1, StartCountdownIsSound DEF Sound
  <2>3. /\ counting.gameplayState = "STARTED"
        /\ counting.players = r.players
        /\ counting.published = r.published
    BY <1>1, <2>1 DEF StartCountdown, RoomState
  <2>4. HandleEveryoneCanPlay(r, input) \in {counting, s}
    BY <1>1 DEF HandleEveryoneCanPlay, RequestInput
  <2>5. Sound(HandleEveryoneCanPlay(r, input))
    BY <2>1, HandleEveryoneCanPlayIsSound
  <2> HIDE DEF counting
  <2>6. /\ from # "EXPECTING_INPUT"
        /\ Showing(r, NULL)
        /\ Silent(r)
    BY DEF MidGame, VerdictOf
  <2>7. GetTimeNow \in Age
    BY ConfigAssumption DEF GetTimeNow, Age
  <2>8. /\ asked \in RoomState
        /\ asked.gameplayState = "EXPECTING_INPUT"
        /\ asked.players = r.players
        /\ asked.published = r.published
    BY <2>2, <2>3, <2>7 DEF RoomState, GameplayState
  <2>9. /\ m \in GameplayMessage /\ m.messageType \in TellingType
        /\ m.messageType \notin GameOverType
        /\ m.messageType = "GAME_EXPECTING_INPUT"
    BY DEF GameplayMessage, GameExpectingInputMessage, GameOverType, TellingType
  <2> HIDE DEF asked, m
  <2>10. \A view : After(view, m)
                     = [phase |-> "EXPECTING_INPUT", verdict |-> NULL]
    BY <2>9 DEF After, Shows, GameStartingType
  <2>11. Silent(asked) /\ Outbox(asked) = Outbox(r)
         /\ Silent(counting) /\ Outbox(counting) = Outbox(r)
    BY <2>3, <2>6, <2>8 DEF Silent, VerdictsAt, Outbox
  <2>12. /\ Silent(s) /\ SameGame(s, asked) /\ Showing(s, NULL)
         /\ Outbox(s) \subseteq Outbox(r) \cup {m}
    BY <2>8, <2>9, <2>10, <2>11, BroadcastIsSilent, BroadcastKeepsGame,
       BroadcastShows, BroadcastOutbox
  <2>13. s.gameplayState = "EXPECTING_INPUT" /\ s.players = r.players
    BY <2>8, <2>12 DEF SameGame
  <2>14. Showing(counting, NULL)
    <3>1. \A id, view : SeenAfter(counting, id, view) = SeenAfter(r, id, view)
      BY <2>3 DEF SeenAfter
    <3> QED
      BY <2>3, <2>6, <3>1 DEF Showing, IsSeated
  <2> HIDE DEF s
  <2>15. ASSUME NEW t, t \in {counting, s}, Sound(t)
         PROVE  MidGame(t, from)
    <3>1. /\ t.players = r.players /\ Silent(t) /\ Showing(t, NULL)
          /\ t.gameplayState \in {"STARTED", "EXPECTING_INPUT"}
          /\ Outbox(t) \subseteq Outbox(r) \cup {m}
      BY <2>3, <2>11, <2>12, <2>13, <2>14, <2>15
    <3>2. NobodyIsFresh(t)
      BY <2>9, <3>1 DEF NobodyIsFresh, MidGame
    <3>3. Held(t, pressed)
      BY <3>1 DEF MidGame, Held, HasPlayed, IsSeated
    <3>4. \A n \in Outbox(t) : n.messageType \notin GameOverType
      BY <3>1 DEF Silent, VerdictsAt, Outbox
    <3> QED
      BY <2>6, <2>15, <3>1, <3>2, <3>3, <3>4 DEF MidGame, Justified, VerdictOf
  <2> QED
    BY <2>4, <2>5, <2>15
<1>2. CASE ~ EveryoneCanPlay(r)
  BY <1>2 DEF HandleEveryoneCanPlay
<1> QED
  BY <1>1, <1>2

(* Who has pressed is who the room holds an input of. *)
LEMMA PressedSeats ==
  ASSUME NEW r, NEW from, MidGame(r, from)
  PROVE  /\ IsFull(r)
         /\ \A a \in Assignment : HasPlayed(r, a) <=> a \in pressed
         /\ pressed \subseteq Assignment
<1>1. IsFull(r)
  BY DEF MidGame, Sound, ValuesAreHeld
<1> QED
  BY <1>1 DEF MidGame, Held, IsFull

LEMMA VerdictType ==
  /\ \A w \in Assignment :
       \A type \in {"GAME_OVER_EARLY_INPUT", "GAME_OVER_WRONG_INPUT",
                    "GAME_OVER_WIN"} :
         [type |-> type, winner |-> w] \in MatchVerdict
  /\ [type |-> "GAME_OVER_DRAW", winner |-> NULL] \in MatchVerdict
BY DEF MatchVerdict, PlayersMatch!Verdict, PlayersMatch!Seat, Assignment

LEMMA OnePlayerPlayedFits ==
  ASSUME NEW r, NEW from, MidGame(r, from)
  PROVE  MidGame(HandleOnePlayerPlayed(r), from)
<1> DEFINE played == IF HasPlayed(r, "P1") THEN "P1" ELSE "P2"
           other == OtherAssignment(played)
           Told(type, w) == [messageType |-> type,
                             gameResult |-> BuildGameResultDTO(r, w)]
<1>1. CASE r.gameplayState \in {"STARTED", "EXPECTING_INPUT"}
           /\ ~ EveryonePlayed(r) /\ ~ NoOnePlayed(r)
  <2>1. /\ played \in Assignment /\ other \in Assignment
        /\ OtherAssignment(other) = played
        /\ pressed = {played}
    BY <1>1, PressedSeats
    DEF EveryonePlayed, NoOnePlayed, Assignment, OtherAssignment
  <2>2. ASSUME NEW type, NEW w
        PROVE  /\ Told(type, w).messageType = type
               /\ Told(type, w).gameResult.winningPlayer = w
    BY DEF BuildGameResultDTO
  <2>3. /\ r.gameplayState = "STARTED" => r.readyForInputAt = NULL
        /\ r.gameplayState = "EXPECTING_INPUT" => r.readyForInputAt # NULL
    BY DEF MidGame, Sound, TimersFit, ValuesAreHeld
  <2>4. /\ HandleOnePlayerPlayed(r) \in
             {r, GameOver(r, "GAME_OVER_EARLY_INPUT", other),
              GameOver(r, "GAME_OVER_WRONG_INPUT", other),
              GameOver(r, "GAME_OVER_WIN", played)}
        /\ r.gameplayState = "STARTED" =>
             HandleOnePlayerPlayed(r)
               = GameOver(r, "GAME_OVER_EARLY_INPUT", other)
        /\ r.gameplayState = "EXPECTING_INPUT" =>
             \/ HandleOnePlayerPlayed(r) = r
             \/ /\ HandleOnePlayerPlayed(r)
                     = GameOver(r, "GAME_OVER_WRONG_INPUT", other)
                /\ r.players[played].inputPressed # r.expectedInput
             \/ /\ HandleOnePlayerPlayed(r)
                     = GameOver(r, "GAME_OVER_WIN", played)
                /\ r.players[played].inputPressed = r.expectedInput
                /\ r.players[played].inputPressedAtServerTime
                     >= OnePlayerInputOnlyTimeout
    BY <1>1 DEF HandleOnePlayerPlayed, GetSecondsSince
  <2> HIDE DEF played, other, Told
  <2>5. CASE r.gameplayState = "STARTED"
    <3>1. ByPresses(r, Told("GAME_OVER_EARLY_INPUT", other))
      BY <2>1, <2>2, <2>3, <2>5 DEF ByPresses
    <3>2. from # "EXPECTING_INPUT"
      BY <2>5 DEF MidGame
    <3> QED
      BY <2>1, <2>4, <2>5, <3>1, <3>2, GameOverFits, VerdictType DEF Told
  <2>6. CASE /\ r.gameplayState = "EXPECTING_INPUT"
             /\ HandleOnePlayerPlayed(r)
                  = GameOver(r, "GAME_OVER_WRONG_INPUT", other)
             /\ r.players[played].inputPressed # r.expectedInput
    <3>1. ByPresses(r, Told("GAME_OVER_WRONG_INPUT", other))
      BY <2>1, <2>2, <2>3, <2>6 DEF ByPresses
    <3>2. [type |-> "GAME_OVER_WRONG_INPUT", winner |-> other] \in MatchVerdict
      BY <2>1, VerdictType
    <3>3. r.gameplayState # "OVER"
      BY <1>1
    <3> QED
      BY <2>6, <3>1, <3>2, <3>3, GameOverFits DEF Told
  <2>7. CASE /\ r.gameplayState = "EXPECTING_INPUT"
             /\ HandleOnePlayerPlayed(r)
                  = GameOver(r, "GAME_OVER_WIN", played)
             /\ r.players[played].inputPressed = r.expectedInput
             /\ r.players[played].inputPressedAtServerTime
                  >= OnePlayerInputOnlyTimeout
    <3>1. ByPresses(r, Told("GAME_OVER_WIN", played))
      BY <2>1, <2>2, <2>3, <2>7 DEF ByPresses
    <3>2. [type |-> "GAME_OVER_WIN", winner |-> played] \in MatchVerdict
      BY <2>1, VerdictType
    <3>3. r.gameplayState # "OVER"
      BY <1>1
    <3> QED
      BY <2>7, <3>1, <3>2, <3>3, GameOverFits DEF Told
  <2> QED
    BY <1>1, <2>4, <2>5, <2>6, <2>7
<1>2. CASE ~ (r.gameplayState \in {"STARTED", "EXPECTING_INPUT"}
              /\ ~ EveryonePlayed(r) /\ ~ NoOnePlayed(r))
  BY <1>2 DEF HandleOnePlayerPlayed
<1> QED
  BY <1>1, <1>2

(* Of a running game without a request, unless nobody or everybody pressed, *)
(* it makes an end.                                                        *)
LEMMA OnePlayerPlayedLooks ==
  ASSUME NEW r, NEW from, MidGame(r, from),
         HandleOnePlayerPlayed(r).gameplayState = "STARTED"
  PROVE  pressed \in {{}, Assignment}
<1> DEFINE played == IF HasPlayed(r, "P1") THEN "P1" ELSE "P2"
           other == OtherAssignment(played)
<1>1. CASE EveryonePlayed(r) \/ NoOnePlayed(r)
  BY <1>1, PressedSeats DEF EveryonePlayed, NoOnePlayed
<1>2. CASE r.gameplayState = "OVER"
  BY <1>2 DEF HandleOnePlayerPlayed
<1>3. CASE /\ r.gameplayState # "OVER"
           /\ ~ EveryonePlayed(r) /\ ~ NoOnePlayed(r)
  <2>1. /\ Sound(r) /\ Silent(r) /\ IsFull(r)
        /\ r.gameplayState \in {"STARTED", "EXPECTING_INPUT"}
    BY <1>3, PressedSeats DEF MidGame
  <2>2. played \in Assignment /\ other \in Assignment
    BY OtherSeat DEF Assignment
  <2>3. \/ r.gameplayState = "EXPECTING_INPUT" /\ HandleOnePlayerPlayed(r) = r
        \/ HandleOnePlayerPlayed(r)
             \in {GameOver(r, "GAME_OVER_EARLY_INPUT", other),
                  GameOver(r, "GAME_OVER_WRONG_INPUT", other),
                  GameOver(r, "GAME_OVER_WIN", played)}
    BY <1>3, <2>1 DEF HandleOnePlayerPlayed
  <2> HIDE DEF played, other
  <2>4. \A type \in GameOverType : \A w \in Assignment :
          GameOver(r, type, w).gameplayState = "OVER"
    BY <2>1, GameOverIsTold
  <2>5. HandleOnePlayerPlayed(r).gameplayState # "STARTED"
    BY <2>2, <2>3, <2>4 DEF GameOverType
  <2> QED
    BY <2>5
<1> QED
  BY <1>1, <1>2, <1>3

LEMMA EveryonePlayedFits ==
  ASSUME NEW r, NEW from, MidGame(r, from)
  PROVE  MidGame(HandleEveryonePlayed(r), from)
<1> DEFINE At(a) == r.players[a].inputPressedAtServerTime
           Told(type, w) == [messageType |-> type,
                             gameResult |-> BuildGameResultDTO(r, w)]
<1>1. CASE r.gameplayState = "EXPECTING_INPUT" /\ EveryonePlayed(r)
  <2>1. pressed = Assignment
    BY <1>1, PressedSeats DEF EveryonePlayed
  <2>2. ASSUME NEW type, NEW w
        PROVE  /\ Told(type, w).messageType = type
               /\ Told(type, w).gameResult.winningPlayer = w
    BY DEF BuildGameResultDTO
  <2>3. At("P1") \in Int /\ At("P2") \in Int
    <3>1. r.players["P1"] \in Player /\ r.players["P2"] \in Player
      BY PressedSeats, SeatedPlayer DEF MidGame, Sound, IsFull, Assignment
    <3>2. At("P1") # NULL /\ At("P2") # NULL
      BY <1>1 DEF MidGame, Sound, ValuesAreHeld, EveryonePlayed, IsFull,
                  Assignment
    <3>3. Age \subseteq Int
      BY DEF Age
    <3> QED
      BY <3>1, <3>2, <3>3 DEF Player
  <2>4. r.readyForInputAt # NULL
    BY <1>1 DEF MidGame, Sound, ValuesAreHeld
  <2>5. \/ /\ At("P1") > At("P2")
           /\ HandleEveryonePlayed(r) = GameOver(r, "GAME_OVER_WIN", "P1")
        \/ /\ At("P2") > At("P1")
           /\ HandleEveryonePlayed(r) = GameOver(r, "GAME_OVER_WIN", "P2")
        \/ /\ At("P1") = At("P2")
           /\ HandleEveryonePlayed(r) = GameOver(r, "GAME_OVER_DRAW", NULL)
    BY <1>1, <2>3 DEF HandleEveryonePlayed, GetSecondsSince
  <2> HIDE DEF Told
  <2>6. CASE /\ At("P1") > At("P2")
             /\ HandleEveryonePlayed(r) = GameOver(r, "GAME_OVER_WIN", "P1")
    <3>1. ByPresses(r, Told("GAME_OVER_WIN", "P1"))
      BY <2>1, <2>2, <2>4, <2>6 DEF ByPresses, OtherAssignment
    <3> QED
      BY <1>1, <2>6, <3>1, GameOverFits, VerdictType DEF Told, Assignment
  <2>7. CASE /\ At("P2") > At("P1")
             /\ HandleEveryonePlayed(r) = GameOver(r, "GAME_OVER_WIN", "P2")
    <3>1. ByPresses(r, Told("GAME_OVER_WIN", "P2"))
      BY <2>1, <2>2, <2>4, <2>7 DEF ByPresses, OtherAssignment
    <3> QED
      BY <1>1, <2>7, <3>1, GameOverFits, VerdictType DEF Told, Assignment
  <2>8. CASE /\ At("P1") = At("P2")
             /\ HandleEveryonePlayed(r) = GameOver(r, "GAME_OVER_DRAW", NULL)
    <3>1. ByPresses(r, Told("GAME_OVER_DRAW", NULL))
      BY <2>1, <2>2, <2>8 DEF ByPresses
    <3> QED
      BY <1>1, <2>8, <3>1, GameOverFits, VerdictType DEF Told
  <2> QED
    BY <2>5, <2>6, <2>7, <2>8
<1>2. CASE ~ (r.gameplayState = "EXPECTING_INPUT" /\ EveryonePlayed(r))
  BY <1>2 DEF HandleEveryonePlayed
<1> QED
  BY <1>1, <1>2

LEMMA TimeoutFits ==
  ASSUME NEW r, NEW from, MidGame(r, from)
  PROVE  MidGame(HandleTimeout(r), from)
<1> DEFINE m == [messageType |-> "GAME_OVER_DRAW",
                 gameResult |-> BuildGameResultDTO(r, NULL)]
<1>1. CASE /\ r.gameplayState = "EXPECTING_INPUT" /\ NoOnePlayed(r)
           /\ r.readyForInputAt >= NoInputTimeout
  <2>1. pressed = {}
    BY <1>1, PressedSeats DEF NoOnePlayed
  <2>2. m.messageType = "GAME_OVER_DRAW" /\ m.gameResult.winningPlayer = NULL
    BY DEF BuildGameResultDTO
  <2> HIDE DEF m
  <2>3. ByPresses(r, m)
    BY <1>1, <2>1, <2>2 DEF ByPresses
  <2>4. HandleTimeout(r) = GameOver(r, "GAME_OVER_DRAW", NULL)
    BY <1>1 DEF HandleTimeout, GetSecondsSince
  <2> QED
    BY <1>1, <2>3, <2>4, GameOverFits, VerdictType DEF m
<1>2. CASE ~ (/\ r.gameplayState = "EXPECTING_INPUT" /\ NoOnePlayed(r)
              /\ r.readyForInputAt >= NoInputTimeout)
  BY <1>2 DEF HandleTimeout, GetSecondsSince
<1> QED
  BY <1>1, <1>2

LEMMA RunningTickFits ==
  ASSUME ClientsFit, Running(room), NEW input \in GameplayInput
  PROVE  LET s == Tick(Begin(room), input)
         IN /\ MidGame(s, room.gameplayState)
            /\ s.gameplayState = "STARTED" => pressed \in {{}, Assignment}
<1> DEFINE r == Begin(room)
           from == room.gameplayState
<1>1. PICK v \in MatchVerdict \cup {NULL} : Shown(v)
  BY DEF ClientsFit
<1>2. /\ Sound(r) /\ SameGame(r, room)
      /\ Outbox(r) = {} /\ Silent(r)
      /\ VerdictOf(r, v) /\ Showing(r, v)
  BY <1>1, BeginShows DEF ClientsFit
<1> HIDE DEF r
<1>3. r.gameplayState = from /\ r.players = room.players
      /\ from \in {"STARTED", "EXPECTING_INPUT"}
  BY <1>2 DEF SameGame, Running
<1>4. Held(r, pressed)
  BY <1>3 DEF ClientsFit, Held, IsSeated, HasPlayed
<1> HIDE DEF from
<1>5. MidGame(r, from)
  BY <1>2, <1>3, <1>4
  DEF MidGame, ClientsFit, NobodyIsFresh, Justified, Sound, ValuesAreHeld
<1>6. CASE from = "STARTED"
  <2>1. Tick(r, input)
          = HandleOnePlayerPlayed(HandleEveryoneCanPlay(r, input))
    BY <1>3, <1>6 DEF Tick
  <2>2. MidGame(HandleEveryoneCanPlay(r, input), from)
    BY <1>3, <1>5, <1>6, CanPlayFits
  <2> QED
    BY <2>1, <2>2, OnePlayerPlayedFits, OnePlayerPlayedLooks DEF r, from
<1>7. CASE from = "EXPECTING_INPUT"
  <2>1. Tick(r, input)
          = HandleTimeout(HandleEveryonePlayed(HandleOnePlayerPlayed(r)))
    BY <1>3, <1>7 DEF Tick
  <2>2. MidGame(HandleEveryonePlayed(HandleOnePlayerPlayed(r)), from)
    BY <1>5, OnePlayerPlayedFits, EveryonePlayedFits
  <2>3. MidGame(Tick(r, input), from)
    BY <2>1, <2>2, TimeoutFits
  <2> QED
    BY <1>7, <2>3 DEF r, from, MidGame
<1> QED
  BY <1>3, <1>6, <1>7

-----------------------------------------------------------------------------
(* The match that the screens show *)

LEMMA ViewShown ==
  ASSUME NEW v, Shown(v)
  PROVE  \A a \in Assignment :
           MatchView[a] = IF IsSeated(room, a)
                            THEN [phase |-> room.gameplayState, verdict |-> v]
                            ELSE NULL
  BY DEF Shown, MatchView

(* A screen shows something. *)
LEMMA ShownIsSomething ==
  ASSUME NEW phase \in GameplayState, NEW v \in MatchVerdict \cup {NULL}
  PROVE  [phase |-> phase, verdict |-> v] # NULL
<1>1. MatchVerdict \subseteq Verdict
  BY DEF MatchVerdict, PlayersMatch!Verdict, PlayersMatch!Seat, Verdict,
         GameOverType, Assignment
<1>2. [phase |-> phase, verdict |-> v] \in Screen
  BY <1>1 DEF Screen
<1> QED
  BY <1>2, NothingShownAssumption

(* The moves of a match whose players both stay. *)
LEMMA MatchMoves ==
  ASSUME Sound(room), Sound(room)', IsFull(room), IsFull(room'),
         NEW v \in MatchVerdict \cup {NULL}, Shown(v),
         NEW w \in MatchVerdict \cup {NULL}, Shown(w)',
         <<room.gameplayState, room'.gameplayState>> \in
           {<<"WAITING_PLAYERS", "STARTED">>, <<"STARTED", "EXPECTING_INPUT">>,
            <<"STARTED", "OVER">>, <<"EXPECTING_INPUT", "OVER">>,
            <<"OVER", "STARTED">>},
         room.gameplayState = "EXPECTING_INPUT" =>
           w.type # "GAME_OVER_EARLY_INPUT"
  PROVE  PlayersMatch!Next
<1> DEFINE from == room.gameplayState
           to == room'.gameplayState
<1>1. MatchView = [a \in Assignment |-> [phase |-> from, verdict |-> v]]
  BY DEF Shown, MatchView, IsFull
<1>2. MatchView' = [a \in Assignment |-> [phase |-> to, verdict |-> w]]
  BY DEF Shown, MatchView, IsFull
<1>3. from \in GameplayState
  BY DEF Sound, RoomState
<1>4. [phase |-> from, verdict |-> v] # NULL
  BY <1>3, ShownIsSomething
<1>5. /\ to = "OVER" => w \in MatchVerdict
      /\ to # "OVER" => w = NULL
  BY DEF Shown, VerdictOf
<1>6. MatchView' # MatchView
  <2>1. MatchView["P1"].phase = from /\ MatchView'["P1"].phase = to
    BY <1>1, <1>2 DEF Assignment
  <2> QED
    BY <2>1
<1> HIDE DEF from, to
<1>7. ASSUME NEW phase, from = phase
      PROVE  PlayersMatch!BothShown(phase)
  BY <1>1, <1>4, <1>7 DEF PlayersMatch!BothShown, PlayersMatch!Seated,
                          PlayersMatch!Seat, MatchView, Assignment
<1>8. ASSUME NEW shows, shows = [phase |-> to, verdict |-> w]
      PROVE  PlayersMatch!ShowBoth(shows)
  BY <1>2, <1>8 DEF PlayersMatch!ShowBoth, PlayersMatch!Seat, MatchView,
                    Assignment
<1>9. CASE to = "OVER"
  <2>1. PlayersMatch!ShowBoth([phase |-> "OVER", verdict |-> w])
    BY <1>8, <1>9
  <2>2. \/ PlayersMatch!BothShown("STARTED")
        \/ PlayersMatch!BothShown("EXPECTING_INPUT")
             /\ w.type # "GAME_OVER_EARLY_INPUT"
    <3>1. from = "STARTED" \/ from = "EXPECTING_INPUT"
      BY <1>9 DEF from, to
    <3>2. CASE from = "STARTED"
      BY <1>7, <3>2
    <3>3. CASE from = "EXPECTING_INPUT"
      <4>1. PlayersMatch!BothShown("EXPECTING_INPUT")
        BY <1>7, <3>3
      <4> QED
        BY <3>3, <4>1 DEF from
    <3> QED
      BY <3>1, <3>2, <3>3
  <2>3. PlayersMatch!Decide(w)
    BY <2>1, <2>2 DEF PlayersMatch!Decide
  <2>4. w \in PlayersMatch!Verdict
    BY <1>5, <1>9 DEF MatchVerdict
  <2> QED
    BY <1>6, <2>3, <2>4 DEF PlayersMatch!Next, MatchView
<1>10. ASSUME NEW phase, to = phase, phase # "OVER"
      PROVE  PlayersMatch!ShowBoth(PlayersMatch!Shows(phase))
  <2>1. PlayersMatch!Shows(phase) = [phase |-> to, verdict |-> w]
    BY <1>5, <1>10 DEF PlayersMatch!Shows
  <2> QED
    BY <1>8, <2>1
<1>11. CASE from = "WAITING_PLAYERS" /\ to = "STARTED"
  <2>1. PlayersMatch!BothShown("WAITING_PLAYERS")
    BY <1>7, <1>11
  <2>2. PlayersMatch!ShowBoth(PlayersMatch!Shows("STARTED"))
    BY <1>10, <1>11
  <2> QED
    BY <1>6, <2>1, <2>2 DEF PlayersMatch!Next, PlayersMatch!Start, MatchView
<1>12. CASE from = "STARTED" /\ to = "EXPECTING_INPUT"
  <2>1. PlayersMatch!BothShown("STARTED")
    BY <1>7, <1>12
  <2>2. PlayersMatch!ShowBoth(PlayersMatch!Shows("EXPECTING_INPUT"))
    BY <1>10, <1>12
  <2> QED
    BY <1>6, <2>1, <2>2 DEF PlayersMatch!Next, PlayersMatch!Request, MatchView
<1>13. CASE from = "OVER" /\ to = "STARTED"
  <2>1. PlayersMatch!BothShown("OVER")
    BY <1>7, <1>13
  <2>2. PlayersMatch!ShowBoth(PlayersMatch!Shows("STARTED"))
    BY <1>10, <1>13
  <2> QED
    BY <1>6, <2>1, <2>2 DEF PlayersMatch!Next, PlayersMatch!Rematch, MatchView
<1> QED
  BY <1>9, <1>11, <1>12, <1>13 DEF from, to

(* Somebody sits down in the lobby. *)
LEMMA MatchSits ==
  ASSUME NEW a \in Assignment, ~ IsSeated(room, a), IsSeated(room', a),
         \A b \in Assignment \ {a} : IsSeated(room', b) <=> IsSeated(room, b),
         room.gameplayState = "WAITING_PLAYERS",
         room'.gameplayState = "WAITING_PLAYERS",
         Shown(NULL), Shown(NULL)'
  PROVE  PlayersMatch!Next
<1> DEFINE lobby == [phase |-> "WAITING_PLAYERS", verdict |-> NULL]
<1>1. MatchView[a] = NULL
  BY DEF MatchView
<1>2. MatchView' = [b \in Assignment |-> IF b = a THEN lobby ELSE MatchView[b]]
  BY DEF MatchView, Shown
<1>3. MatchView' = [MatchView EXCEPT ![a] = lobby]
  BY <1>2 DEF MatchView
<1>4. MatchView' # MatchView
  <2>1. lobby # NULL
    BY ShownIsSomething DEF GameplayState
  <2> QED
    BY <1>1, <1>2, <2>1
<1>5. PlayersMatch!Sit(a)
  BY <1>1, <1>3 DEF PlayersMatch!Sit, PlayersMatch!Seated, PlayersMatch!Shows,
                    MatchView
<1> QED
  BY <1>4, <1>5 DEF PlayersMatch!Next, PlayersMatch!Seat, MatchView, Assignment

(* Somebody leaves, and whoever stays is in the lobby. *)
LEMMA MatchStands ==
  ASSUME NEW a \in Assignment, IsSeated(room, a), ~ IsSeated(room', a),
         \A b \in Assignment \ {a} : IsSeated(room', b) <=> IsSeated(room, b),
         Sound(room),
         room'.gameplayState = "WAITING_PLAYERS",
         NEW v \in MatchVerdict \cup {NULL}, Shown(v), Shown(NULL)'
  PROVE  PlayersMatch!Next
<1> DEFINE lobby == [phase |-> "WAITING_PLAYERS", verdict |-> NULL]
<1>1. room.gameplayState \in GameplayState
  BY DEF Sound, RoomState
<1>2. \A b \in Assignment : MatchView[b] # NULL <=> IsSeated(room, b)
  BY <1>1, ViewShown, ShownIsSomething, ZenonT(40)
<1>3. MatchView' = [b \in Assignment |->
                      IF b # a /\ IsSeated(room, b) THEN lobby ELSE NULL]
  BY DEF MatchView, Shown
<1>4. MatchView' # MatchView
  BY <1>2, <1>3
<1>5. PlayersMatch!Stand(a)
  BY <1>2, <1>3 DEF PlayersMatch!Stand, PlayersMatch!Seated, PlayersMatch!Shows,
                    PlayersMatch!Seat, MatchView, Assignment
<1> QED
  BY <1>4, <1>5 DEF PlayersMatch!Next, PlayersMatch!Seat, MatchView, Assignment

(* Nobody comes or goes, and the same is shown. *)
LEMMA MatchStutters ==
  ASSUME \A a \in Assignment : IsSeated(room', a) <=> IsSeated(room, a),
         room'.gameplayState = room.gameplayState,
         NEW v, Shown(v), Shown(v)'
  PROVE  UNCHANGED MatchView
  BY DEF Shown, MatchView

-----------------------------------------------------------------------------
(* The messages of a call arrive *)

LEMMA QuietView ==
  ASSUME NEW r, \A m \in Outbox(r) : m.messageType \notin TellingType,
         NEW id, NEW view
  PROVE  SeenAfter(r, id, view) = view
  BY NoTellingMessage DEF SeenAfter, MessagesFor, Tells, Outbox

LEMMA DeliveredShown ==
  ASSUME Sound(room'), Deliver, NEW v,
         VerdictOf(room', v), Showing(room', v)
  PROVE  Shown(v)'
<1> SUFFICES ASSUME NEW a \in Assignment, IsSeated(room', a)
             PROVE  screen'[room'.players[a].id]
                      = [phase |-> room'.gameplayState, verdict |-> v]
  BY DEF Shown, VerdictOf
<1> DEFINE id == room'.players[a].id
<1>1. id \in PlayerId
  BY SeatedPlayer DEF Sound, Player
<1>2. HasPlayerWithId(room', id)
  BY DEF HasPlayerWithId, SeatsOf
<1>3. screen'[id] = SeenAfter(room', id, screen[id])
  BY <1>1, <1>2 DEF Deliver, ScreenAfter, SeenAfter
<1> QED
  BY <1>3 DEF Showing

(* What a call must leave for the invariant to hold after it. *)
LEMMA CallFits ==
  ASSUME ClientsFit, Sound(room'), Deliver,
         NEW v \in MatchVerdict \cup {NULL},
         VerdictOf(room', v), Showing(room', v),
         Held(room', pressed'),
         \/ \A m \in Outbox(room') : m.messageType \notin GameOverType
         \/ Justified(room') /\ NobodyIsFresh(room')
  PROVE  ClientsFit' /\ Shown(v)'
<1>1. Shown(v)'
  BY DeliveredShown
<1>2. pressed' \subseteq Assignment
  BY DEF ClientsFit, Deliver
<1>3. Justified(room)'
  <2>1. CASE \A m \in Outbox(room') : m.messageType \notin GameOverType
    BY <2>1 DEF Justified
  <2>2. CASE Justified(room') /\ NobodyIsFresh(room')
    <3>1. pressed' = pressed
      BY <2>2 DEF Deliver, FreshSeats, NobodyIsFresh
    <3>2. \A m : ByPresses(room', m) <=> ByPresses(room, m)'
      BY <3>1 DEF ByPresses
    <3> QED
      BY <2>2, <3>2 DEF Justified
  <2> QED
    BY <2>1, <2>2
<1>4. Sound(room)' /\ Held(room, pressed)'
  BY DEF Sound, Held
<1> QED
  BY <1>1, <1>2, <1>3, <1>4 DEF ClientsFit

(* A call that tells nobody anything and changes no player's press. *)
LEMMA QuietCallFits ==
  ASSUME ClientsFit, Sound(room'), Deliver,
         \A m \in Outbox(room') :
           m.messageType \in {"PLAYER_READY_STATE_CHANGED",
                              "PLAYER_REPLAY_READY_STATE_CHANGED"},
         SameSeats(room', room), room'.gameplayState = room.gameplayState
  PROVE  ClientsFit' /\ MatchStep /\ Uneventful
<1>1. PICK v \in MatchVerdict \cup {NULL} : Shown(v)
  BY DEF ClientsFit
<1>2. \A m \in Outbox(room') : /\ m.messageType \notin TellingType
                               /\ m.messageType \notin GameOverType
  BY DEF TellingType, GameStartingType, GameOverType
<1>3. VerdictOf(room', v)
  BY <1>1 DEF Shown, VerdictOf
<1>4. Showing(room', v)
  BY <1>1, <1>2, QuietView DEF Showing, Shown, SameSeats
<1>5. pressed' = pressed
  BY DEF Deliver, FreshSeats
<1>6. Held(room', pressed')
  BY <1>5 DEF ClientsFit, Held, SameSeats
<1>7. ClientsFit' /\ Shown(v)'
  BY <1>2, <1>3, <1>4, <1>6, CallFits
<1>8. UNCHANGED MatchView
  BY <1>1, <1>7, MatchStutters DEF SameSeats
<1>9. Uneventful
  BY <1>2, <1>5 DEF Uneventful, Running
<1> QED
  BY <1>7, <1>8, <1>9 DEF MatchStep

(* A call that tells everybody in the room what it now is: s. *)
LEMMA TellingCallFits ==
  ASSUME ClientsFit, Deliver, NEW s, Sound(s), Outbox(s) = {},
         s.gameplayState # "OVER",
         NEW m \in GameplayMessage, room' = BroadcastGameplayMessage(s, m),
         m.messageType \in TellingType \ ({"ROOM_JOINED"} \cup GameOverType),
         \A view : After(view, m) = [phase |-> s.gameplayState,
                                     verdict |-> NULL],
         Held(s, IF m.messageType \in {"PLAYER_LEFT_GAME",
                                       "ALL_REPLAY_READY_GAME_STARTING"}
                   THEN {} ELSE pressed)
  PROVE  /\ ClientsFit' /\ Shown(NULL)'
         /\ \A n \in Outbox(room') : n.messageType \notin GameOverType
<1>1. s \in RoomState
  BY DEF Sound
<1>2. Sound(room') /\ SameGame(room', s)
  BY <1>1, BroadcastIsSound, BroadcastKeepsGame
<1>3. Outbox(room') = IF IsEmpty(s) THEN {} ELSE {m}
  BY <1>1, BroadcastOutbox
<1>4. VerdictOf(room', NULL)
  BY <1>2 DEF VerdictOf, SameGame
<1>5. Showing(room', NULL)
  BY <1>1, BroadcastShows
<1>6. Held(room', pressed')
  <2>1. CASE IsEmpty(s)
    BY <1>2, <2>1 DEF IsEmpty, Held, SameGame, IsSeated
  <2>2. CASE ~ IsEmpty(s)
    <3>1. Outbox(room') = {m}
      BY <1>3, <2>2
    <3>2. FreshSeats(room')
            = IF m.messageType \in {"PLAYER_LEFT_GAME",
                                    "ALL_REPLAY_READY_GAME_STARTING"}
                THEN Assignment ELSE {}
      BY <3>1 DEF FreshSeats
    <3>3. pressed' = IF m.messageType \in {"PLAYER_LEFT_GAME",
                                           "ALL_REPLAY_READY_GAME_STARTING"}
                       THEN {} ELSE pressed
      BY <3>2 DEF Deliver, ClientsFit
    <3> QED
      BY <1>2, <3>3 DEF Held, SameGame, IsSeated, HasPlayed
  <2> QED
    BY <2>1, <2>2
<1>7. \A n \in Outbox(room') : n.messageType \notin GameOverType
  BY <1>3
<1> QED
  BY <1>2, <1>4, <1>5, <1>6, <1>7, CallFits

-----------------------------------------------------------------------------
(* Ticks *)

(* A tick that leaves the room as it was. *)
LEMMA IdleFits ==
  ASSUME ClientsFit, Deliver, room' = Begin(room)
  PROVE  ClientsFit' /\ MatchStep /\ Uneventful
<1>1. PICK v \in MatchVerdict \cup {NULL} : Shown(v)
  BY DEF ClientsFit
<1>2. /\ Sound(room') /\ SameGame(room', room) /\ Outbox(room') = {}
  BY <1>1, BeginShows DEF ClientsFit
<1>3. SameSeats(room', room) /\ room'.gameplayState = room.gameplayState
  BY <1>2 DEF SameSeats, SameGame, IsSeated, HasPlayed
<1> QED
  BY <1>2, <1>3, QuietCallFits

LEMMA EveryoneReadyFits ==
  ASSUME ClientsFit, Deliver, room' = HandleEveryoneReady(Begin(room))
  PROVE  ClientsFit' /\ MatchStep
<1> DEFINE r == Begin(room)
           s == [r EXCEPT !.gameplayState = "STARTED"]
           m == [messageType |-> "ALL_READY_GAME_STARTING"]
<1>1. PICK v \in MatchVerdict \cup {NULL} : Shown(v)
  BY DEF ClientsFit
<1>2. /\ Sound(r) /\ SameGame(r, room) /\ Outbox(r) = {}
  BY <1>1, BeginShows DEF ClientsFit
<1>3. CASE r.gameplayState # "WAITING_PLAYERS" \/ ~ IsEveryoneReady(r)
  BY <1>3, IdleFits DEF HandleEveryoneReady
<1>4. CASE r.gameplayState = "WAITING_PLAYERS" /\ IsEveryoneReady(r)
  <2>1. room' = BroadcastGameplayMessage(s, m)
    BY <1>4 DEF HandleEveryoneReady
  <2> HIDE DEF r
  <2>2. /\ r \in RoomState /\ IsFull(r)
    BY <1>2, <1>4 DEF Sound, IsEveryoneReady
  <2>3. /\ s \in RoomState /\ s.players = r.players
        /\ s.gameplayState = "STARTED" /\ s.published = r.published
        /\ s.everyoneCanPlayAt = r.everyoneCanPlayAt
        /\ s.readyForInputAt = r.readyForInputAt
    BY <2>2 DEF RoomState, GameplayState
  <2>4. /\ m \in GameplayMessage
        /\ m.messageType \in TellingType \ ({"ROOM_JOINED"} \cup GameOverType)
        /\ m.messageType \notin {"PLAYER_LEFT_GAME",
                                 "ALL_REPLAY_READY_GAME_STARTING"}
        /\ \A view : After(view, m) = [phase |-> "STARTED", verdict |-> NULL]
    BY DEF GameplayMessage, GameStartingMessage, GameStartingType, TellingType,
           GameOverType, After, Shows
  <2> HIDE DEF s, m
  <2>5. Sound(s)
    BY <1>2, <1>4, <2>2, <2>3 DEF Sound, ValuesAreHeld, TimersFit, IsFull,
       IsSeated, HasPlayed
  <2>6. Outbox(s) = {}
    BY <1>2, <2>3 DEF Outbox
  <2>7. Held(s, pressed)
    BY <1>2, <2>3 DEF ClientsFit, Held, IsSeated, HasPlayed, SameGame
  <2>8. ClientsFit' /\ Shown(NULL)'
    BY <2>1, <2>3, <2>4, <2>5, <2>6, <2>7, TellingCallFits
  <2>9. SameGame(room', s)
    BY <2>1, <2>3, <2>4, BroadcastKeepsGame
  <2>10. /\ IsFull(room) /\ IsFull(room')
         /\ room.gameplayState = "WAITING_PLAYERS"
         /\ room'.gameplayState = "STARTED"
    BY <1>2, <1>4, <2>2, <2>3, <2>9 DEF SameGame, IsFull, IsSeated
  <2>11. Sound(room) /\ Sound(room)'
    BY <2>8 DEF ClientsFit
  <2>12. NULL \in MatchVerdict \cup {NULL}
    OBVIOUS
  <2>13. PlayersMatch!Next
    BY <1>1, <2>8, <2>10, <2>11, <2>12, MatchMoves
  <2> QED
    BY <2>8, <2>13 DEF MatchStep
<1> QED
  BY <1>3, <1>4

LEMMA ReplayFits ==
  ASSUME ClientsFit, Deliver, room' = HandleReplay(Begin(room))
  PROVE  ClientsFit' /\ MatchStep
<1> DEFINE r == Begin(room)
           reset == ResetRound(r)
           s == [reset EXCEPT !.gameplayState = "STARTED"]
           m == [messageType |-> "ALL_REPLAY_READY_GAME_STARTING"]
<1>1. PICK v \in MatchVerdict \cup {NULL} : Shown(v)
  BY DEF ClientsFit
<1>2. /\ Sound(r) /\ SameGame(r, room) /\ Outbox(r) = {}
  BY <1>1, BeginShows DEF ClientsFit
<1>3. CASE r.gameplayState # "OVER" \/ ~ EveryoneWantsToReplay(r)
  BY <1>3, IdleFits DEF HandleReplay
<1>4. CASE r.gameplayState = "OVER" /\ EveryoneWantsToReplay(r)
  <2>1. room' = BroadcastGameplayMessage(s, m)
    BY <1>4 DEF HandleReplay
  <2> HIDE DEF r
  <2>2. r \in RoomState /\ IsFull(r)
    BY <1>2, <1>4 DEF Sound, EveryoneWantsToReplay
  <2>3. /\ reset \in RoomState
        /\ reset.everyoneCanPlayAt = NULL /\ reset.readyForInputAt = NULL
        /\ reset.published = r.published
        /\ \A a \in Assignment : IsSeated(reset, a) /\ ~ HasPlayed(reset, a)
    BY <2>2, ResetRoundFacts, ResetKeepsPlayers DEF IsFull
  <2> HIDE DEF reset
  <2>4. /\ s \in RoomState /\ s.players = reset.players
        /\ s.gameplayState = "STARTED" /\ s.published = r.published
        /\ s.everyoneCanPlayAt = NULL /\ s.readyForInputAt = NULL
    BY <2>3 DEF RoomState, GameplayState
  <2>5. /\ m \in GameplayMessage
        /\ m.messageType = "ALL_REPLAY_READY_GAME_STARTING"
        /\ m.messageType \in TellingType \ ({"ROOM_JOINED"} \cup GameOverType)
        /\ \A view : After(view, m) = [phase |-> "STARTED", verdict |-> NULL]
    BY DEF GameplayMessage, GameStartingMessage, GameStartingType, TellingType,
           GameOverType, After, Shows
  <2> HIDE DEF s, m
  <2>6. Sound(s)
    BY <2>3, <2>4 DEF Sound, ValuesAreHeld, TimersFit, IsFull, IsSeated,
                      HasPlayed
  <2>7. Outbox(s) = {}
    BY <1>2, <2>4 DEF Outbox
  <2>8. Held(s, {})
    BY <2>3, <2>4 DEF Held, HasPlayed
  <2>9. ClientsFit' /\ Shown(NULL)'
    BY <2>1, <2>4, <2>5, <2>6, <2>7, <2>8, TellingCallFits
  <2>10. SameGame(room', s)
    BY <2>1, <2>4, <2>5, BroadcastKeepsGame
  <2>11. /\ IsFull(room) /\ IsFull(room')
         /\ room.gameplayState = "OVER"
         /\ room'.gameplayState = "STARTED"
    BY <1>2, <1>4, <2>2, <2>3, <2>4, <2>10 DEF SameGame, IsFull, IsSeated
  <2>12. Sound(room) /\ Sound(room)'
    BY <2>9 DEF ClientsFit
  <2>13. NULL \in MatchVerdict \cup {NULL}
    OBVIOUS
  <2>14. PlayersMatch!Next
    BY <1>1, <2>9, <2>11, <2>12, <2>13, MatchMoves
  <2> QED
    BY <2>9, <2>14 DEF MatchStep
<1> QED
  BY <1>3, <1>4

LEMMA TickFits ==
  ASSUME ClientsFit, DoTick, Deliver
  PROVE  ClientsFit' /\ MatchStep
<1>1. PICK v \in MatchVerdict \cup {NULL} : Shown(v)
  BY DEF ClientsFit
<1>2. /\ Sound(room) /\ Sound(Begin(room)) /\ SameGame(Begin(room), room)
      /\ room.gameplayState \in GameplayState
      /\ room.difficulty \in GameDifficulty
  BY <1>1, BeginShows DEF ClientsFit, Sound, RoomState
<1>3. GetRandomGameplayInput(room.difficulty) \subseteq GameplayInput
  BY <1>2 DEF GetRandomGameplayInput, GameDifficulty, GameplayInput
<1>4. PICK input \in GameplayInput : room' = Tick(Begin(room), input)
  BY <1>3 DEF DoTick
<1>5. Begin(room).gameplayState = room.gameplayState
  BY <1>2 DEF SameGame
<1>6. CASE Running(room)
  <2>1. MidGame(room', room.gameplayState)
    BY <1>4, <1>6, RunningTickFits
  <2>2. PICK w \in MatchVerdict \cup {NULL} :
          /\ VerdictOf(room', w)
          /\ Showing(room', w)
          /\ room.gameplayState = "EXPECTING_INPUT"
               /\ room'.gameplayState = "OVER" =>
               w.type # "GAME_OVER_EARLY_INPUT"
    BY <2>1 DEF MidGame
  <2>3. /\ Sound(room') /\ room'.players = room.players
        /\ room'.gameplayState \in {"STARTED", "EXPECTING_INPUT", "OVER"}
        /\ room.gameplayState = "EXPECTING_INPUT" =>
             room'.gameplayState # "STARTED"
        /\ NobodyIsFresh(room') /\ Held(room', pressed) /\ Justified(room')
    BY <2>1 DEF MidGame
  <2>4. pressed' = pressed
    BY <2>3 DEF Deliver, FreshSeats, NobodyIsFresh
  <2>5. ClientsFit' /\ Shown(w)'
    BY <2>2, <2>3, <2>4, CallFits
  <2>6. /\ IsFull(room) /\ IsFull(room') /\ v = NULL
        /\ \A a \in Assignment : IsSeated(room', a) <=> IsSeated(room, a)
    BY <1>1, <1>2, <1>6, <2>3 DEF Sound, ValuesAreHeld, Running, IsFull,
       IsSeated, Shown, VerdictOf
  <2>7. CASE room'.gameplayState = room.gameplayState
    <3>1. w = NULL
      BY <1>6, <2>2, <2>7 DEF VerdictOf, Running
    <3>2. UNCHANGED MatchView
      BY <1>1, <2>5, <2>6, <2>7, <3>1, MatchStutters
    <3> QED
      BY <2>5, <3>2 DEF MatchStep
  <2>8. CASE room'.gameplayState # room.gameplayState
    <3>1. /\ room.gameplayState \in {"STARTED", "EXPECTING_INPUT"}
          /\ room.gameplayState = "EXPECTING_INPUT" =>
               room'.gameplayState = "OVER"
      BY <1>6, <2>3, <2>8 DEF Running
    <3>2. <<room.gameplayState, room'.gameplayState>> \in
            {<<"STARTED", "EXPECTING_INPUT">>, <<"STARTED", "OVER">>,
             <<"EXPECTING_INPUT", "OVER">>}
      BY <2>3, <2>8, <3>1
    <3>3. Sound(room)'
      BY <2>5 DEF ClientsFit
    <3>4. PlayersMatch!Next
      BY <1>1, <1>2, <2>2, <2>5, <2>6, <3>1, <3>2, <3>3, MatchMoves
    <3> QED
      BY <2>5, <3>4 DEF MatchStep
  <2> QED
    BY <2>7, <2>8
<1>7. CASE room.gameplayState = "WAITING_PLAYERS"
  BY <1>4, <1>5, <1>7, EveryoneReadyFits DEF Tick
<1>8. CASE room.gameplayState = "OVER"
  BY <1>4, <1>5, <1>8, ReplayFits DEF Tick
<1> QED
  BY <1>2, <1>6, <1>7, <1>8 DEF GameplayState, Running

-----------------------------------------------------------------------------
(* Joining and leaving *)

LEMMA AddPlayerFits ==
  ASSUME ClientsFit, NEW id \in PlayerId, DoAddPlayer(id), Deliver
  PROVE  ClientsFit' /\ MatchStep /\ Uneventful
<1> DEFINE r == Begin(room)
<1>1. PICK v \in MatchVerdict \cup {NULL} : Shown(v)
  BY DEF ClientsFit
<1>2. /\ Sound(r) /\ SameGame(r, room) /\ Outbox(r) = {} /\ Showing(r, v)
      /\ room' = AddPlayer(r, id)
  BY <1>1, BeginShows DEF ClientsFit, DoAddPlayer
<1>3. CASE IsFull(r)
  BY <1>2, <1>3, IdleFits DEF AddPlayer
<1>4. CASE ~ IsFull(r)
  <2> DEFINE a == GetAvailableAssignment(r)
             other == OtherAssignment(a)
             seated == [r EXCEPT !.players[a] = NewPlayer(id)]
             otherDTO == IF IsSeated(r, other) THEN BuildLobbyDTO(r, other)
                                               ELSE NULL
             hello == [messageType |-> "ROOM_JOINED", playerAssignment |-> a,
                       otherPlayer |-> otherDTO]
             joined == Publish(seated, id, hello)
             news == [messageType |-> "PLAYER_JOINED_GAME",
                      player |-> BuildLobbyDTO(seated, a)]
             lobby == [phase |-> "WAITING_PLAYERS", verdict |-> NULL]
  <2>1. room' = PublishToSeat(joined, other, news)
    BY <1>2, <1>4 DEF AddPlayer
  <2>2. Sound(room')
    BY <1>2, AddPlayerIsSound
  <2>3. r \in RoomState /\ r.gameplayState = "WAITING_PLAYERS"
    BY <1>2, <1>4 DEF Sound, ValuesAreHeld
  <2>4. a \in Assignment /\ ~ IsSeated(r, a)
    BY <1>4 DEF GetAvailableAssignment, IsFull, Assignment
  <2> HIDE DEF r
  <2>5. other \in Assignment /\ other # a
    <3> HIDE DEF a
    <3> QED
      BY <2>4, OtherSeat
  <2>6. /\ hello \in GameplayMessage /\ hello.messageType = "ROOM_JOINED"
        /\ hello.playerAssignment = a
        /\ hello.messageType \in TellingType \ GameOverType
        /\ \A view : After(view, hello) = lobby
    <3>1. otherDTO \in PlayerLobbyDTO \cup {NULL}
      <4> HIDE DEF other
      <4> QED
        BY <2>3, <2>5, LobbyDTOType
    <3> HIDE DEF otherDTO, a
    <3>2. hello \in RoomJoinedMessage
      BY <2>4, <3>1 DEF RoomJoinedMessage
    <3>3. hello.messageType = "ROOM_JOINED" /\ hello.playerAssignment = a
      OBVIOUS
    <3> HIDE DEF hello
    <3> QED
      BY <3>2, <3>3 DEF GameplayMessage, TellingType, GameOverType,
         GameStartingType, After, Shows
  <2> HIDE DEF a, other, hello
  <2>7. /\ seated \in RoomState /\ IsSeated(seated, a)
        /\ ~ HasPlayed(seated, a)
        /\ \A b \in Assignment \ {a} : seated.players[b] = r.players[b]
        /\ seated.players[a].id = id
        /\ seated.gameplayState = "WAITING_PLAYERS"
        /\ seated.published = r.published
    <3>1. NewPlayer(id) \in Player /\ NewPlayer(id) # NULL
          /\ NewPlayer(id).inputPressed = NULL /\ NewPlayer(id).id = id
      BY NewPlayerType DEF NewPlayer
    <3> QED
      BY <2>3, <2>4, <3>1 DEF RoomState, IsSeated, HasPlayed
  <2> HIDE DEF seated
  <2>8. joined \in RoomState /\ SameGame(joined, seated)
        /\ Outbox(joined) = {hello}
    <3>1. Outbox(seated) = {}
      BY <1>2, <2>7 DEF Outbox
    <3> QED
      BY <2>6, <2>7, <3>1, PublishKeepsGame, PublishOutbox
  <2>9. /\ news \in GameplayMessage
        /\ news.messageType = "PLAYER_JOINED_GAME"
        /\ news.messageType \notin TellingType \cup GameOverType
    <3>1. news \in PlayerJoinedRoomMessage
      BY <2>4, <2>7, LobbyDTOType DEF PlayerJoinedRoomMessage
    <3>2. news.messageType = "PLAYER_JOINED_GAME"
      OBVIOUS
    <3> HIDE DEF news
    <3> QED
      BY <3>1, <3>2 DEF GameplayMessage, TellingType, GameOverType,
         GameStartingType
  <2>10. ASSUME NEW to, NEW view
         PROVE  SeenAfter(joined, to, view) = IF to = id THEN lobby ELSE view
    <3>1. SeenAfter(seated, to, view) = view
      <4>1. Outbox(seated) = {}
        BY <1>2, <2>7 DEF Outbox
      <4> QED
        BY <4>1, QuietView
    <3> HIDE DEF lobby
    <3> QED
      BY <2>6, <2>7, <3>1, PublishIsSeen
  <2> HIDE DEF joined, news
  <2>11. /\ SameGame(room', joined)
         /\ Outbox(room') \in {{hello}, {hello, news}}
         /\ \A to, view : SeenAfter(room', to, view) = SeenAfter(joined, to, view)
    <3>1. CASE IsSeated(joined, other)
      <4>1. joined.players[other].id \in PlayerId
        BY <2>5, <2>8, <3>1, SeatedPlayer DEF Player
      <4>2. room' = Publish(joined, joined.players[other].id, news)
        BY <2>1, <3>1 DEF PublishToSeat
      <4> QED
        BY <2>8, <2>9, <4>1, <4>2, PublishKeepsGame, PublishOutbox,
           PublishIsSeen
    <3>2. CASE ~ IsSeated(joined, other)
      BY <2>1, <2>8, <3>2 DEF PublishToSeat, SameGame
    <3> QED
      BY <3>1, <3>2
  <2>12. /\ room'.players = seated.players
         /\ room'.gameplayState = "WAITING_PLAYERS"
         /\ room.gameplayState = "WAITING_PLAYERS"
         /\ room.players = r.players
    BY <1>2, <2>3, <2>7, <2>8, <2>11 DEF SameGame
  <2>13. v = NULL
    BY <1>1, <2>12 DEF Shown, VerdictOf
  <2>14. Showing(room', NULL)
    <3>1. ASSUME NEW b \in Assignment, IsSeated(room', b)
          PROVE  LET to == room'.players[b].id
                 IN SeenAfter(room', to, screen[to]) = lobby
      <4>1. CASE b = a
        BY <2>7, <2>10, <2>11, <2>12, <4>1
      <4>2. CASE b # a
        <5>1. IsSeated(room, b) /\ room'.players[b] = room.players[b]
          BY <2>7, <2>12, <3>1, <4>2 DEF IsSeated
        <5>2. screen[room.players[b].id] = lobby
          BY <1>1, <2>12, <2>13, <5>1 DEF Shown
        <5> QED
          BY <2>10, <2>11, <5>1, <5>2
      <4> QED
        BY <4>1, <4>2
    <3> QED
      BY <2>12, <3>1 DEF Showing
  <2>15. Held(room', pressed')
    <3>1. FreshSeats(room') = {a}
      BY <2>4, <2>6, <2>9, <2>11 DEF FreshSeats
    <3>2. pressed' = pressed \ {a}
      BY <3>1 DEF Deliver
    <3> QED
      BY <2>7, <2>12, <3>2 DEF ClientsFit, Held, IsSeated, HasPlayed
  <2>16. \A m \in Outbox(room') : m.messageType \notin GameOverType
    BY <2>6, <2>9, <2>11
  <2>17. VerdictOf(room', NULL)
    BY <2>12 DEF VerdictOf
  <2>18. ClientsFit' /\ Shown(NULL)'
    BY <2>2, <2>14, <2>15, <2>16, <2>17, CallFits
  <2>19. /\ ~ IsSeated(room, a) /\ IsSeated(room', a)
         /\ \A b \in Assignment \ {a} : IsSeated(room', b) <=> IsSeated(room, b)
    BY <2>4, <2>7, <2>12 DEF IsSeated
  <2>20. PlayersMatch!Next
    BY <1>1, <2>4, <2>12, <2>13, <2>18, <2>19, MatchSits
  <2>21. Uneventful
    BY <2>12, <2>16 DEF Uneventful, Running
  <2> QED
    BY <2>18, <2>20, <2>21 DEF MatchStep
<1> QED
  BY <1>3, <1>4

LEMMA RemovePlayerFits ==
  ASSUME ClientsFit, NEW id \in PlayerId,
         room' = RemovePlayer(Begin(room), id), Deliver
  PROVE  ClientsFit' /\ MatchStep /\ Uneventful
<1> DEFINE r == Begin(room)
<1>1. PICK v \in MatchVerdict \cup {NULL} : Shown(v)
  BY DEF ClientsFit
<1>2. /\ Sound(r) /\ SameGame(r, room) /\ Outbox(r) = {} /\ Sound(room)
      /\ room' = RemovePlayer(r, id)
  BY <1>1, BeginShows DEF ClientsFit
<1>3. CASE ~ HasPlayerWithId(r, id)
  BY <1>2, <1>3, IdleFits DEF RemovePlayer
<1>4. CASE HasPlayerWithId(r, id)
  <2> DEFINE a == GetPlayerById(r, id)
             reset == ResetRound(r)
             left == [reset EXCEPT !.players[a] = NULL,
                                   !.gameplayState = "WAITING_PLAYERS"]
             m == [messageType |-> "PLAYER_LEFT_GAME", playerAssignment |-> a]
  <2>1. room' = BroadcastGameplayMessage(left, m)
    BY <1>2, <1>4 DEF RemovePlayer
  <2> HIDE DEF r
  <2>2. r \in RoomState
    BY <1>2 DEF Sound
  <2>3. a \in Assignment /\ IsSeated(r, a)
    BY <1>4, <2>2, FoundPlayer
  <2>4. /\ reset \in RoomState
        /\ reset.everyoneCanPlayAt = NULL /\ reset.readyForInputAt = NULL
        /\ reset.published = r.published
        /\ \A b \in Assignment :
             /\ IsSeated(reset, b) <=> IsSeated(r, b)
             /\ IsSeated(reset, b) => ~ HasPlayed(reset, b)
    BY <2>2, ResetRoundFacts, ResetKeepsPlayers
  <2> HIDE DEF a, reset
  <2>5. /\ m \in GameplayMessage
        /\ m.messageType = "PLAYER_LEFT_GAME"
        /\ m.messageType \in TellingType \ ({"ROOM_JOINED"} \cup GameOverType)
        /\ \A view : After(view, m) = [phase |-> "WAITING_PLAYERS",
                                       verdict |-> NULL]
    <3>1. m \in PlayerLeftRoomMessage /\ m.messageType = "PLAYER_LEFT_GAME"
      BY <2>3 DEF PlayerLeftRoomMessage
    <3> HIDE DEF m
    <3> QED
      BY <3>1 DEF GameplayMessage, TellingType, GameOverType, GameStartingType,
         After, Shows
  <2>6. /\ left \in RoomState
        /\ left.gameplayState = "WAITING_PLAYERS"
        /\ left.everyoneCanPlayAt = NULL /\ left.readyForInputAt = NULL
        /\ left.published = r.published
        /\ left.players[a] = NULL
        /\ \A b \in Assignment \ {a} : left.players[b] = reset.players[b]
    BY <2>3, <2>4 DEF RoomState, GameplayState
  <2> HIDE DEF left, m
  <2>7. Sound(left)
    BY <2>4, <2>6 DEF Sound, ValuesAreHeld, TimersFit, IsSeated, HasPlayed
  <2>8. Outbox(left) = {}
    BY <1>2, <2>6 DEF Outbox
  <2>9. Held(left, {})
    BY <2>4, <2>6 DEF Held, HasPlayed, IsSeated
  <2>10. /\ ClientsFit' /\ Shown(NULL)'
         /\ \A n \in Outbox(room') : n.messageType \notin GameOverType
    BY <2>1, <2>5, <2>6, <2>7, <2>8, <2>9, TellingCallFits
  <2>11. SameGame(room', left)
    BY <2>1, <2>5, <2>6, BroadcastKeepsGame
  <2>12. /\ IsSeated(room, a) /\ ~ IsSeated(room', a)
         /\ \A b \in Assignment \ {a} : IsSeated(room', b) <=> IsSeated(room, b)
         /\ room'.gameplayState = "WAITING_PLAYERS"
    BY <1>2, <2>3, <2>4, <2>6, <2>11 DEF SameGame, IsSeated
  <2>13. PlayersMatch!Next
    BY <1>1, <1>2, <2>3, <2>10, <2>12, MatchStands
  <2>14. Uneventful
    BY <2>10, <2>12 DEF Uneventful, Running
  <2> QED
    BY <2>10, <2>13, <2>14 DEF MatchStep
<1> QED
  BY <1>3, <1>4

-----------------------------------------------------------------------------
(* What players send *)

(* A message to a room that its player is not in. *)
LEMMA StrangerMessage ==
  ASSUME NEW id \in PlayerId, NEW m, ~ HasPlayerWithId(Begin(room), id)
  PROVE  HandlePlayerMessage(Begin(room), id, m) = Begin(room)
  BY DEF HandlePlayerMessage

(* The player of one seat changes, but not its press. *)
LEMMA PlayerChangeSeats ==
  ASSUME NEW r \in RoomState, NEW a \in Assignment, IsSeated(r, a),
         NEW p \in Player, p.id = r.players[a].id
  PROVE  LET s == [r EXCEPT !.players[a] = p]
         IN /\ s \in RoomState
            /\ s.gameplayState = r.gameplayState
            /\ s.published = r.published
            /\ \A b \in Assignment \ {a} : s.players[b] = r.players[b]
            /\ s.players[a] = p
            /\ \A b \in Assignment : IsSeated(s, b) <=> IsSeated(r, b)
            /\ \A b \in Assignment :
                 IsSeated(r, b) => s.players[b].id = r.players[b].id
<1> DEFINE s == [r EXCEPT !.players[a] = p]
<1>1. /\ s \in RoomState
      /\ s.gameplayState = r.gameplayState
      /\ s.published = r.published
      /\ \A b \in Assignment \ {a} : s.players[b] = r.players[b]
      /\ s.players[a] = p
  BY DEF RoomState
<1>2. p # NULL
  BY NoPlayerAssumption
<1> HIDE DEF s
<1>3. \A b \in Assignment : IsSeated(s, b) <=> IsSeated(r, b)
  BY <1>1, <1>2 DEF IsSeated
<1>4. \A b \in Assignment : IsSeated(r, b) => s.players[b].id = r.players[b].id
  BY <1>1
<1> QED
  BY <1>1, <1>3, <1>4 DEF s

LEMMA PlayerMessageFits ==
  ASSUME ClientsFit, NEW id \in PlayerId,
         NEW m \in RoomActionMessage \ PlayerInput,
         DoPlayerMessage(id, m), Deliver
  PROVE  ClientsFit' /\ MatchStep /\ Uneventful
<1> DEFINE r == Begin(room)
           a == GetPlayerById(r, id)
<1>1. PICK v \in MatchVerdict \cup {NULL} : Shown(v)
  BY DEF ClientsFit
<1>2. /\ Sound(r) /\ SameGame(r, room) /\ Outbox(r) = {} /\ r \in RoomState
      /\ room' = HandlePlayerMessage(r, id, m)
  BY <1>1, BeginShows DEF ClientsFit, DoPlayerMessage, Sound
<1>3. CASE ~ HasPlayerWithId(r, id)
  BY <1>2, <1>3, StrangerMessage, IdleFits
<1>4. CASE HasPlayerWithId(r, id) /\ m \in LeaveGame
  <2>1. HandlePlayerMessage(r, id, m) = RemovePlayer(r, id)
    BY <1>4 DEF HandlePlayerMessage, LeaveGame
  <2> QED
    BY <1>2, <2>1, RemovePlayerFits
<1>5. CASE HasPlayerWithId(r, id) /\ m \notin LeaveGame
  <2>1. a \in Assignment /\ IsSeated(r, a)
    BY <1>2, <1>5, FoundPlayer
  <2>2. Sound(room')
    BY <1>2, PlayerMessageIsSound
  <2> HIDE DEF r
  <2>3. \/ room' = r
        \/ \E p \in Player :
             /\ p.id = r.players[a].id
             /\ p.inputPressed = r.players[a].inputPressed
             /\ \/ room' = [r EXCEPT !.players[a] = p]
                \/ \E news \in PlayerReadyStateChangedMessage
                                 \cup PlayerReplayReadyStateChangedMessage :
                     room' = BroadcastGameplayMessage(
                               [r EXCEPT !.players[a] = p], news)
    <3> DEFINE t == HandlePlayerMessage(r, id, m)
    <3>1. m \in RoomActionMessage \ LeaveGame /\ m \notin PlayerInput
      BY <1>5
    <3>2. \/ m \notin PlayerInput /\ t = r
          \/ \E p \in Player :
               /\ p.id = r.players[a].id
               /\ IF m \in PlayerInput
                    THEN p.inputPressed \in GameplayInput
                    ELSE p.inputPressed = r.players[a].inputPressed
               /\ \/ t = [r EXCEPT !.players[a] = p]
                  \/ \E news \in PlayerReadyStateChangedMessage
                                   \cup PlayerReplayReadyStateChangedMessage :
                       /\ m \notin PlayerInput
                       /\ t = BroadcastGameplayMessage(
                                [r EXCEPT !.players[a] = p], news)
      BY <1>2, <1>5, <3>1, PlayerMessageOutcome
    <3> HIDE DEF t, a
    <3> QED
      BY <1>2, <3>1, <3>2 DEF t
  <2>4. CASE room' = r
    BY <2>4, IdleFits DEF r
  <2> HIDE DEF a
  <2>5. ASSUME NEW p \in Player, p.id = r.players[a].id,
               p.inputPressed = r.players[a].inputPressed,
               \/ room' = [r EXCEPT !.players[a] = p]
               \/ \E news \in PlayerReadyStateChangedMessage
                                \cup PlayerReplayReadyStateChangedMessage :
                    room' = BroadcastGameplayMessage(
                              [r EXCEPT !.players[a] = p], news)
        PROVE  ClientsFit' /\ MatchStep /\ Uneventful
    <3> DEFINE s == [r EXCEPT !.players[a] = p]
    <3>1. /\ s \in RoomState
          /\ s.gameplayState = r.gameplayState
          /\ s.published = r.published
          /\ \A b \in Assignment \ {a} : s.players[b] = r.players[b]
          /\ s.players[a] = p
          /\ \A b \in Assignment : IsSeated(s, b) <=> IsSeated(r, b)
          /\ \A b \in Assignment :
               IsSeated(r, b) => s.players[b].id = r.players[b].id
      BY <1>2, <2>1, <2>5, PlayerChangeSeats
    <3>2. \/ room' = s
          \/ \E news \in PlayerReadyStateChangedMessage
                           \cup PlayerReplayReadyStateChangedMessage :
               room' = BroadcastGameplayMessage(s, news)
      BY <2>5
    <3> HIDE DEF s
    <3>3. Outbox(s) = {}
      BY <1>2, <3>1 DEF Outbox
    <3>4. /\ SameGame(room', s)
          /\ \A n \in Outbox(room') :
               n.messageType \in {"PLAYER_READY_STATE_CHANGED",
                                  "PLAYER_REPLAY_READY_STATE_CHANGED"}
      <4>1. CASE room' = s
        BY <3>3, <4>1 DEF SameGame
      <4>2. ASSUME NEW news \in PlayerReadyStateChangedMessage
                                  \cup PlayerReplayReadyStateChangedMessage,
                   room' = BroadcastGameplayMessage(s, news)
            PROVE  /\ SameGame(room', s)
                   /\ \A n \in Outbox(room') :
                        n.messageType \in {"PLAYER_READY_STATE_CHANGED",
                                           "PLAYER_REPLAY_READY_STATE_CHANGED"}
        <5>1. /\ news \in GameplayMessage
              /\ news.messageType \in {"PLAYER_READY_STATE_CHANGED",
                                       "PLAYER_REPLAY_READY_STATE_CHANGED"}
          BY DEF GameplayMessage, PlayerReadyStateChangedMessage,
                 PlayerReplayReadyStateChangedMessage
        <5>2. Outbox(room') \subseteq {news}
          BY <3>1, <3>3, <4>2, <5>1, BroadcastOutbox
        <5> QED
          BY <3>1, <4>2, <5>1, <5>2, BroadcastKeepsGame
      <4> QED
        BY <3>2, <4>1, <4>2
    <3>5. \A b \in Assignment :
            IsSeated(r, b) => (HasPlayed(s, b) <=> HasPlayed(r, b))
      BY <2>5, <3>1 DEF HasPlayed
    <3>6. SameSeats(room', room)
      BY <1>2, <3>1, <3>4, <3>5 DEF SameSeats, SameGame, IsSeated, HasPlayed
    <3>7. room'.gameplayState = room.gameplayState
      BY <1>2, <3>1, <3>4 DEF SameGame
    <3> QED
      BY <2>2, <3>4, <3>6, <3>7, QuietCallFits
  <2> QED
    BY <2>3, <2>4, <2>5
<1> QED
  BY <1>3, <1>4, <1>5

(* An input is told to nobody: the same is shown, and one more has pressed. *)
LEMMA UntoldFits ==
  ASSUME ClientsFit, Sound(room'), UNCHANGED screen, Outbox(room') = {},
         pressed \subseteq pressed', pressed' \subseteq Assignment,
         \A a \in Assignment :
           /\ IsSeated(room', a) <=> IsSeated(room, a)
           /\ IsSeated(room, a) => room'.players[a].id = room.players[a].id,
         room'.gameplayState = room.gameplayState,
         Held(room', pressed')
  PROVE  ClientsFit' /\ MatchStep /\ Uneventful
<1>1. PICK v \in MatchVerdict \cup {NULL} : Shown(v)
  BY DEF ClientsFit
<1>2. Shown(v)'
  BY <1>1 DEF Shown, VerdictOf
<1>3. UNCHANGED MatchView
  BY <1>1, <1>2, MatchStutters
<1>4. Justified(room)'
  BY DEF Justified
<1>5. Held(room, pressed)' /\ Sound(room)'
  BY DEF Held, Sound
<1>6. Uneventful
  BY DEF Uneventful, Running
<1> QED
  BY <1>2, <1>3, <1>4, <1>5, <1>6 DEF ClientsFit, MatchStep

LEMMA PressFits ==
  ASSUME ClientsFit, NEW id \in PlayerId, NEW m \in PlayerInput, Press(id, m)
  PROVE  ClientsFit' /\ MatchStep /\ Uneventful
<1> DEFINE r == Begin(room)
           a == GetPlayerById(r, id)
<1>1. PICK v \in MatchVerdict \cup {NULL} : Shown(v)
  BY DEF ClientsFit
<1>2. /\ Sound(r) /\ SameGame(r, room) /\ Outbox(r) = {} /\ r \in RoomState
      /\ room' = HandlePlayerMessage(r, id, m)
      /\ UNCHANGED screen
      /\ pressed' = pressed \cup SeatPlayedBy(id)
  BY <1>1, BeginShows DEF ClientsFit, DoPlayerMessage, Press, Sound
<1>3. SeatPlayedBy(id) = IF HasPlayerWithId(r, id) THEN {a} ELSE {}
  BY <1>2 DEF SeatPlayedBy, HasPlayerWithId, GetPlayerById, SeatsOf, SameGame,
     IsSeated
<1>4. m \in RoomActionMessage \ LeaveGame
  BY DEF RoomActionMessage, PlayerInput, LeaveGame
<1>5. Sound(room')
  BY <1>2, <1>4, PlayerMessageIsSound
<1>6. CASE ~ HasPlayerWithId(r, id)
  <2>1. room' = r /\ pressed' = pressed
    BY <1>2, <1>3, <1>6, StrangerMessage
  <2> HIDE DEF r
  <2>2. Held(room', pressed') /\ pressed' \subseteq Assignment
    BY <1>2, <2>1 DEF ClientsFit, Held, IsSeated, HasPlayed, SameGame
  <2>3. /\ room'.gameplayState = room.gameplayState
        /\ room'.players = room.players
        /\ Outbox(room') = {}
    BY <1>2, <2>1 DEF SameGame
  <2>4. \A b \in Assignment :
          /\ IsSeated(room', b) <=> IsSeated(room, b)
          /\ IsSeated(room, b) => room'.players[b].id = room.players[b].id
    BY <2>3 DEF IsSeated
  <2> QED
    BY <1>2, <1>5, <2>1, <2>2, <2>3, <2>4, UntoldFits
<1>7. CASE HasPlayerWithId(r, id)
  <2>1. a \in Assignment /\ IsSeated(r, a)
    BY <1>2, <1>7, FoundPlayer
  <2>2. PICK p \in Player :
          /\ p.id = r.players[a].id
          /\ p.inputPressed \in GameplayInput
          /\ room' = [r EXCEPT !.players[a] = p]
    <3> DEFINE t == HandlePlayerMessage(r, id, m)
    <3> HIDE DEF r
    <3>1. \/ m \notin PlayerInput /\ t = r
          \/ \E p \in Player :
               /\ p.id = r.players[a].id
               /\ IF m \in PlayerInput
                    THEN p.inputPressed \in GameplayInput
                    ELSE p.inputPressed = r.players[a].inputPressed
               /\ \/ t = [r EXCEPT !.players[a] = p]
                  \/ \E news \in PlayerReadyStateChangedMessage
                                   \cup PlayerReplayReadyStateChangedMessage :
                       /\ m \notin PlayerInput
                       /\ t = BroadcastGameplayMessage(
                                [r EXCEPT !.players[a] = p], news)
      BY <1>2, <1>4, <1>7, PlayerMessageOutcome
    <3> HIDE DEF t, a
    <3> QED
      BY <1>2, <3>1 DEF t
  <2>3. pressed' = pressed \cup {a}
    BY <1>2, <1>3, <1>7
  <2> HIDE DEF r, a
  <2>4. /\ room'.gameplayState = r.gameplayState
        /\ room'.published = r.published
        /\ \A b \in Assignment \ {a} : room'.players[b] = r.players[b]
        /\ room'.players[a] = p
        /\ \A b \in Assignment : IsSeated(room', b) <=> IsSeated(r, b)
        /\ \A b \in Assignment :
             IsSeated(r, b) => room'.players[b].id = r.players[b].id
    BY <1>2, <2>1, <2>2, PlayerChangeSeats
  <2>5. HasPlayed(room', a)
    BY <2>2, <2>4, NullAssumption DEF HasPlayed
  <2>6. Held(room', pressed')
    BY <1>2, <2>1, <2>3, <2>4, <2>5
    DEF ClientsFit, Held, IsSeated, HasPlayed, SameGame
  <2>7. Outbox(room') = {} /\ pressed' \subseteq Assignment
    BY <1>2, <2>1, <2>3, <2>4, ZenonT(40) DEF Outbox, ClientsFit
  <2>8. /\ room'.gameplayState = room.gameplayState
        /\ \A b \in Assignment :
             /\ IsSeated(room', b) <=> IsSeated(room, b)
             /\ IsSeated(room, b) => room'.players[b].id = room.players[b].id
    BY <1>2, <2>4 DEF SameGame, IsSeated
  <2> QED
    BY <1>2, <1>5, <2>3, <2>6, <2>7, <2>8, UntoldFits
<1> QED
  BY <1>6, <1>7

LEMMA TimeFits ==
  ASSUME ClientsFit, TimePasses, UNCHANGED <<screen, pressed>>
  PROVE  ClientsFit' /\ MatchStep /\ Uneventful
<1> DEFINE r == Begin(room)
<1>1. PICK v \in MatchVerdict \cup {NULL} : Shown(v)
  BY DEF ClientsFit
<1>2. /\ Sound(r) /\ SameGame(r, room) /\ Outbox(r) = {} /\ r \in RoomState
      /\ room' = Elapse(r)
  BY <1>1, BeginShows DEF ClientsFit, TimePasses, Sound
<1>3. Sound(room')
  BY <1>2, ElapseIsSound
<1> HIDE DEF r
<1>4. /\ room'.gameplayState = r.gameplayState
      /\ room'.published = r.published
      /\ \A a \in Assignment :
           room'.players[a] =
             IF IsSeated(r, a)
               THEN [r.players[a] EXCEPT !.inputPressedAtServerTime =
                                           OlderPress(r, a)]
               ELSE NULL
  BY <1>2 DEF Elapse, RoomState
<1>5. ASSUME NEW a \in Assignment, IsSeated(r, a)
      PROVE  /\ room'.players[a] # NULL
             /\ room'.players[a].id = r.players[a].id
             /\ room'.players[a].inputPressed = r.players[a].inputPressed
  <2> DEFINE t == OlderPress(r, a)
             q == [r.players[a] EXCEPT !.inputPressedAtServerTime = t]
  <2>1. r.players[a] \in Player /\ t \in Age \cup {NULL}
    BY <1>2, <1>5, SeatedPlayer, OlderPressType
  <2>2. room'.players[a] = q
    BY <1>4, <1>5
  <2> HIDE DEF t
  <2>3. q # NULL /\ q.inputPressed = r.players[a].inputPressed
    BY <2>1, ElapsePlayer
  <2>4. q.id = r.players[a].id
    BY <2>1 DEF Player
  <2> QED
    BY <2>2, <2>3, <2>4
<1>6. ASSUME NEW a \in Assignment
      PROVE  /\ IsSeated(room', a) <=> IsSeated(room, a)
             /\ IsSeated(room, a) =>
                  /\ room'.players[a].id = room.players[a].id
                  /\ HasPlayed(room', a) <=> HasPlayed(room, a)
  BY <1>2, <1>4, <1>5, ZenonT(40) DEF IsSeated, HasPlayed, SameGame
<1>7. Held(room', pressed') /\ pressed' \subseteq Assignment
  BY <1>6 DEF ClientsFit, Held
<1>8. Outbox(room') = {}
  BY <1>2, <1>4 DEF Outbox
<1>9. room'.gameplayState = room.gameplayState
  BY <1>2, <1>4 DEF SameGame
<1> QED
  BY <1>3, <1>6, <1>7, <1>8, <1>9, UntoldFits

-----------------------------------------------------------------------------
(* The theorems *)

LEMMA ClientsInitFits ==
  ASSUME ClientsInit
  PROVE  ClientsFit /\ PlayersMatch!Init
<1>1. Sound(room)
  BY InitIsSound DEF ClientsInit
<1>2. /\ room.players = [a \in Assignment |-> NULL]
      /\ room.gameplayState = "WAITING_PLAYERS"
      /\ room.published = << >>
  BY DEF ClientsInit, Init, NewRoom
<1>3. \A a \in Assignment : ~ IsSeated(room, a)
  BY <1>2 DEF IsSeated
<1>4. Shown(NULL) /\ Held(room, pressed)
  BY <1>2, <1>3 DEF Shown, VerdictOf, Held
<1>5. Justified(room)
  BY <1>2 DEF Justified, Outbox
<1>6. PlayersMatch!Init
  BY <1>3 DEF PlayersMatch!Init, PlayersMatch!Seat, Assignment
<1> QED
  BY <1>1, <1>4, <1>5, <1>6 DEF ClientsFit, ClientsInit

LEMMA CallIsFit ==
  ASSUME ClientsFit, Call
  PROVE  ClientsFit' /\ MatchStep /\ Uneventful
<1>1. ASSUME NEW id \in PlayerId, DoAddPlayer(id), Deliver
      PROVE  ClientsFit' /\ MatchStep /\ Uneventful
  BY <1>1, AddPlayerFits
<1>2. ASSUME NEW id \in PlayerId, DoRemovePlayer(id), Deliver
      PROVE  ClientsFit' /\ MatchStep /\ Uneventful
  BY <1>2, RemovePlayerFits DEF DoRemovePlayer
<1>3. ASSUME NEW id \in PlayerId, NEW m \in ClientMessage \ PlayerInput,
             DoPlayerMessage(id, m), Deliver
      PROVE  ClientsFit' /\ MatchStep /\ Uneventful
  BY <1>3, PlayerMessageFits DEF ClientMessage
<1> QED
  BY <1>1, <1>2, <1>3 DEF Call

LEMMA ClientsNextFits ==
  ASSUME ClientsFit, [ClientsNext]_vars
  PROVE  /\ ClientsFit' /\ MatchStep
         /\ TickRoom \/ (Uneventful /\ UNCHANGED early) \/ UNCHANGED vars
<1>1. CASE Call
  BY <1>1, CallIsFit DEF Call
<1>2. CASE TickRoom
  BY <1>2, TickFits DEF TickRoom
<1>3. ASSUME NEW id \in PlayerId, NEW m \in ClientMessage \cap PlayerInput,
             Press(id, m)
      PROVE  ClientsFit' /\ MatchStep /\ Uneventful /\ UNCHANGED early
  BY <1>3, PressFits DEF Press
<1>4. CASE TimePasses /\ UNCHANGED <<screen, pressed, early>>
  BY <1>4, TimeFits
<1>5. CASE UNCHANGED vars
  <2>1. room' = room /\ screen' = screen /\ pressed' = pressed
    BY <1>5 DEF vars
  <2>2. PICK v \in MatchVerdict \cup {NULL} : Shown(v)
    BY DEF ClientsFit
  <2>3. Shown(v)' /\ UNCHANGED MatchView
    BY <2>1, <2>2 DEF Shown, VerdictOf, MatchView
  <2>4. Justified(room)' /\ Held(room, pressed)' /\ Sound(room)'
    BY <2>1 DEF ClientsFit, Justified, ByPresses, Held, Sound
  <2> QED
    BY <1>5, <2>1, <2>2, <2>3, <2>4 DEF ClientsFit, MatchStep
<1> QED
  BY <1>1, <1>2, <1>3, <1>4, <1>5 DEF ClientsNext

(* The room, its players' screens and their presses always fit. *)
THEOREM ClientsAlwaysFit == ClientsSpec => []ClientsFit
<1>1. ClientsInit => ClientsFit
  BY ClientsInitFits
<1>2. ClientsFit /\ [ClientsNext]_vars => ClientsFit'
  BY ClientsNextFits
<1> QED
  BY <1>1, <1>2, PTL DEF ClientsSpec

(***************************************************************************)
(* A room judges the inputs of its current game: it holds an input of a    *)
(* player exactly when that player pressed since being told of the game.   *)
(***************************************************************************)
THEOREM InputsAreOfTheGame == ClientsSpec => []InputsBelongToTheGame
<1>1. ClientsFit => InputsBelongToTheGame
  BY DEF ClientsFit, Held, InputsBelongToTheGame
<1> QED
  BY <1>1, ClientsAlwaysFit, PTL

(***************************************************************************)
(* After every call, each player of the room was last told the state that  *)
(* the room is in.                                                         *)
(***************************************************************************)
THEOREM NobodyIsLeftBehind == ClientsSpec => []ClientsFollowRoom
<1>1. ClientsFit => ClientsFollowRoom
  BY DEF ClientsFit, Shown, ClientsFollowRoom
<1> QED
  BY <1>1, ClientsAlwaysFit, PTL

(***************************************************************************)
(* What the players of a room are shown is a match: both see every game    *)
(* begin, be asked for, and end with one same verdict, and whoever stays   *)
(* when the other leaves is back in the lobby.                             *)
(***************************************************************************)
THEOREM RoomImplementsMatch == ClientsSpec => RoomIsAMatch
<1>1. ClientsInit => PlayersMatch!Init
  BY ClientsInitFits
<1>2. ClientsFit /\ [ClientsNext]_vars => [PlayersMatch!Next]_MatchView
  BY ClientsNextFits DEF MatchStep
<1> QED
  BY <1>1, <1>2, ClientsAlwaysFit, PTL
  DEF ClientsSpec, RoomIsAMatch, PlayersMatch!Spec, MatchView

-----------------------------------------------------------------------------
(* The verdicts and the ticks before them *)

LEMMA UneventfulIsJustified ==
  ASSUME ClientsFit', EarlyFits, Uneventful, UNCHANGED early
  PROVE  EarlyFits' /\ VerdictIsJustified'
<1>1. EarlyFits'
  BY DEF EarlyFits, Uneventful, ClientsFit, Running
<1>2. VerdictIsJustified'
  BY DEF Uneventful, VerdictIsJustified, Outbox
<1> QED
  BY <1>1, <1>2

(* A verdict accounted for by the presses is justified if the tick found   *)
(* early whoever had pressed when it asked for nothing.                    *)
LEMMA ByPressesIsJustified ==
  ASSUME NEW m, ByPresses(room, m)',
         room'.readyForInputAt = NULL => early' = pressed',
         room'.readyForInputAt # NULL =>
           early' = {} \/ (early' = Assignment /\ pressed' = Assignment)
  PROVE  IsJustified(room, m)'
<1> DEFINE winner == m.gameResult.winningPlayer
           loser == OtherAssignment(winner)
<1>1. Assignment # {winner} /\ Assignment # {loser}
  BY DEF Assignment
<1>2. winner \in Assignment => loser \in Assignment
  BY OtherSeat
<1>3. CASE /\ m.messageType = "GAME_OVER_EARLY_INPUT"
           /\ pressed' = {loser}
           /\ room'.readyForInputAt = NULL
  BY <1>3 DEF IsJustified
<1>4. CASE pressed' # Assignment /\ room'.readyForInputAt # NULL
  <2>1. early' = {}
    BY <1>4
  <2> QED
    BY <1>4, <2>1 DEF ByPresses, IsJustified
<1>5. CASE pressed' = Assignment
  <2>1. winner \in early' => loser \in early'
    BY <1>2, <1>5
  <2> QED
    BY <1>1, <1>5, <2>1 DEF ByPresses, IsJustified
<1> QED
  BY <1>3, <1>4, <1>5 DEF ByPresses, IsJustified

LEMMA TickIsJustified ==
  ASSUME ClientsFit, ClientsFit', EarlyFits, TickRoom
  PROVE  EarlyFits' /\ VerdictIsJustified'
<1>1. Sound(room) /\ room.difficulty \in GameDifficulty
  BY DEF ClientsFit, Sound, RoomState
<1>2. CASE ~ Running(room)
  <2>1. EndsNoGame(room', Begin(room))
    BY <1>1, <1>2, NextDecidesOnce DEF TickRoom, Next
  <2>2. \A m \in Outbox(room') : m.messageType \notin GameOverType
    BY <2>1 DEF EndsNoGame, Silent, VerdictsAt, Outbox
  <2>3. early' = {}
    BY <1>2 DEF TickRoom
  <2> QED
    BY <2>2, <2>3 DEF EarlyFits, VerdictIsJustified, Outbox
<1>3. CASE Running(room)
  <2>1. GetRandomGameplayInput(room.difficulty) \subseteq GameplayInput
    BY <1>1 DEF GetRandomGameplayInput, GameDifficulty, GameplayInput
  <2>2. PICK input \in GameplayInput : room' = Tick(Begin(room), input)
    BY <2>1 DEF TickRoom, DoTick
  <2>3. /\ MidGame(room', room.gameplayState)
        /\ room'.gameplayState = "STARTED" => pressed \in {{}, Assignment}
    BY <1>3, <2>2, RunningTickFits
  <2>4. pressed' = pressed
    BY <2>3 DEF MidGame, TickRoom, Deliver, FreshSeats, NobodyIsFresh
  <2>5. early' = IF BeforeRequest THEN pressed ELSE early
    BY <1>3, <2>4 DEF TickRoom
  <2>6. BeforeRequest <=> room'.readyForInputAt = NULL
    BY <1>3, <2>3 DEF BeforeRequest, MidGame, Running
  <2>7. early = {} \/ (early = Assignment /\ pressed = Assignment)
    BY <1>3 DEF EarlyFits
  <2>8. EarlyFits'
    <3>1. CASE ~ BeforeRequest
      BY <2>4, <2>5, <2>7, <3>1 DEF EarlyFits
    <3>2. CASE BeforeRequest
      <4>1. room'.gameplayState # "EXPECTING_INPUT"
        BY <2>3, <2>6, <3>2 DEF MidGame, Sound, ValuesAreHeld
      <4> QED
        BY <2>3, <2>4, <2>5, <3>2, <4>1 DEF EarlyFits, Running
    <3> QED
      BY <3>1, <3>2
  <2>9. VerdictIsJustified'
    <3> SUFFICES ASSUME NEW m \in Outbox(room'), m.messageType \in GameOverType
                 PROVE  IsJustified(room, m)'
      BY DEF VerdictIsJustified, Outbox
    <3>1. ByPresses(room, m)'
      BY DEF ClientsFit, Justified, Outbox
    <3>2. /\ room'.readyForInputAt = NULL => early' = pressed'
          /\ room'.readyForInputAt # NULL =>
               early' = {} \/ (early' = Assignment /\ pressed' = Assignment)
      BY <2>4, <2>5, <2>6, <2>7
    <3> QED
      BY <3>1, <3>2, ByPressesIsJustified
  <2> QED
    BY <2>8, <2>9
<1> QED
  BY <1>2, <1>3

(***************************************************************************)
(* For any limits, difficulties and inputs, and whichever handler of       *)
(* tick() gives it: whoever a tick found to press before the request does  *)
(* not win against one it did not find so, who presses alone wins only     *)
(* with the button asked for, and of two presses the first wins.           *)
(***************************************************************************)
THEOREM VerdictsAreJustified == ClientsSpec => []VerdictIsJustified
<1> DEFINE Inv == ClientsFit /\ EarlyFits /\ VerdictIsJustified
<1>1. ClientsInit => Inv
  <2> SUFFICES ASSUME ClientsInit
               PROVE  Inv
    OBVIOUS
  <2>1. ~ Running(room) /\ Outbox(room) = {}
    BY DEF ClientsInit, Init, NewRoom, Running, Outbox
  <2> QED
    BY <2>1, ClientsInitFits DEF EarlyFits, VerdictIsJustified
<1>2. Inv /\ [ClientsNext]_vars => Inv'
  <2> SUFFICES ASSUME Inv, [ClientsNext]_vars
               PROVE  Inv'
    OBVIOUS
  <2>1. /\ ClientsFit'
        /\ TickRoom \/ (Uneventful /\ UNCHANGED early) \/ UNCHANGED vars
    BY ClientsNextFits
  <2>2. CASE TickRoom
    BY <2>1, <2>2, TickIsJustified
  <2>3. CASE Uneventful /\ UNCHANGED early
    BY <2>1, <2>3, UneventfulIsJustified
  <2>4. CASE UNCHANGED vars
    BY <2>1, <2>4
    DEF vars, EarlyFits, VerdictIsJustified, IsJustified, Outbox, Running
  <2> QED
    BY <2>1, <2>2, <2>3, <2>4
<1>3. Inv => VerdictIsJustified
  OBVIOUS
<1> QED
  BY <1>1, <1>2, <1>3, PTL DEF ClientsSpec
=============================================================================
