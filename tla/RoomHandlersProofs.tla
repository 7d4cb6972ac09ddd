------------------------- MODULE RoomHandlersProofs -------------------------
(***************************************************************************)
(* Proofs about the calls of a room, whoever makes them: one lemma per     *)
(* handler shows that the handler keeps a room sound.  Sound is that it is *)
(* well typed, that it holds the values that tick() takes, and that its    *)
(* timers fit the game; the three depend on each other.                    *)
(***************************************************************************)
EXTENDS Screens, TLAPS, WellFoundedInduction

LOCAL INSTANCE FiniteSetsExt

(* A room between two calls, and between two handlers of one. *)
Sound(r) == r \in RoomState /\ ValuesAreHeld(r) /\ TimersFit(r)

(* s differs from r at most in what it has published. *)
SameGame(s, r) ==
  /\ s.difficulty = r.difficulty
  /\ s.gameplayState = r.gameplayState
  /\ s.players = r.players
  /\ s.expectedInput = r.expectedInput
  /\ s.everyoneCanPlayAt = r.everyoneCanPlayAt
  /\ s.readyForInputAt = r.readyForInputAt

-----------------------------------------------------------------------------
(* Naturals *)

(* A set of naturals that is not empty has a least element. *)
LEMMA LeastNatural ==
  ASSUME NEW S \in SUBSET Nat, S # {}
  PROVE  Min(S) \in S /\ \A x \in S : Min(S) <= x
<1> DEFINE R == OpToRel(<, Nat)
<1>1. IsWellFoundedOn(R, Nat)
  BY NatLessThanWellFounded
<1> HIDE DEF R
<1>2. PICK least \in S : \A y \in S : ~ <<y, least>> \in R
  BY <1>1, WFMin
<1>3. \A y \in S : ~ y < least
  BY <1>2 DEF R, OpToRel
<1>4. least \in S /\ \A y \in S : least <= y
  BY <1>3
<1> QED
  BY <1>4 DEF Min

(* What holds at first, and is kept by every step, holds at all. *)
LEMMA IterationStays ==
  ASSUME NEW f, NEW S, NEW last \in Nat, f[0] \in S[0],
         \A n \in 1..last : f[n - 1] \in S[n - 1] => f[n] \in S[n]
  PROVE  \A n \in 0..last : f[n] \in S[n]
<1> DEFINE Bad == {n \in 0..last : f[n] \notin S[n]}
           least == Min(Bad)
<1>1. SUFFICES ASSUME Bad # {} PROVE FALSE
  OBVIOUS
<1>2. Bad \in SUBSET Nat
  OBVIOUS
<1> HIDE DEF Bad
<1>3. least \in Bad /\ \A k \in Bad : least <= k
  BY <1>1, <1>2, LeastNatural
<1> HIDE DEF least
<1>4. least \in 0..last /\ f[least] \notin S[least]
  BY <1>3 DEF Bad
<1>5. least # 0
  BY <1>4
<1>6. least \in 1..last /\ least - 1 \in 0..last /\ ~ least <= least - 1
  BY <1>4, <1>5
<1>7. least - 1 \notin Bad
  BY <1>3, <1>6
<1> QED
  BY <1>4, <1>6, <1>7 DEF Bad

(* f starts with base and goes on with step up to last, through S. *)
Iterates(f, S, base, last, step) ==
  /\ f = [n \in 0..last |-> f[n]]
  /\ f[0] = base
  /\ \A n \in 0..last : f[n] \in S[n]
  /\ \A n \in 1..last : f[n] = step[n][f[n - 1]]

(* Such a function exists, if the steps stay in S. *)
LEMMA IterationExists ==
  ASSUME NEW S, NEW base \in S[0], NEW last \in Nat, NEW step,
         \A n \in 1..last : \A x \in S[n - 1] : step[n][x] \in S[n]
  PROVE  \E f : Iterates(f, S, base, last, step)
<1>1. Iterates([n \in 0..0 |-> base], S, base, 0, step)
  BY DEF Iterates
<1>2. ASSUME NEW k \in 1..last, NEW f, Iterates(f, S, base, k - 1, step)
      PROVE  \E h : Iterates(h, S, base, k, step)
  <2> DEFINE next == step[k][f[k - 1]]
             h == [n \in 0..k |-> IF n = k THEN next ELSE f[n]]
  <2>1. f[k - 1] \in S[k - 1] /\ next \in S[k]
    BY <1>2 DEF Iterates
  <2> HIDE DEF next
  <2>2. h = [n \in 0..k |-> h[n]] /\ h[0] = base
    BY <1>2 DEF Iterates
  <2>3. h[k] = next /\ h[k - 1] = f[k - 1]
    BY <1>2
  <2>4. /\ \A n \in 1..(k - 1) : h[n] = f[n] /\ h[n - 1] = f[n - 1]
        /\ \A n \in 0..(k - 1) : h[n] = f[n]
    BY <1>2
  <2> HIDE DEF h
  <2>5. ASSUME NEW n \in 1..k PROVE h[n] = step[n][h[n - 1]]
    <3>1. CASE n = k
      BY <2>3, <3>1 DEF next
    <3>2. CASE n # k
      <4>1. n \in 1..(k - 1)
        BY <3>2
      <4> QED
        BY <1>2, <2>4, <4>1 DEF Iterates
    <3> QED
      BY <3>1, <3>2
  <2>6. ASSUME NEW n \in 0..k PROVE h[n] \in S[n]
    <3>1. CASE n = k
      BY <2>1, <2>3, <3>1
    <3>2. CASE n # k
      <4>1. n \in 0..(k - 1)
        BY <3>2
      <4> QED
        BY <1>2, <2>4, <4>1 DEF Iterates
    <3> QED
      BY <3>1, <3>2
  <2> QED
    BY <2>2, <2>5, <2>6 DEF Iterates
<1> DEFINE Bad == {k \in 0..last : ~ \E f : Iterates(f, S, base, k, step)}
           least == Min(Bad)
<1>3. SUFFICES ASSUME Bad # {} PROVE FALSE
  <2>1. last \in 0..last
    OBVIOUS
  <2>2. Bad = {} => \A k \in 0..last : \E f : Iterates(f, S, base, k, step)
    OBVIOUS
  <2> HIDE DEF Bad
  <2> QED
    BY <2>1, <2>2
<1>4. Bad \in SUBSET Nat
  OBVIOUS
<1> HIDE DEF Bad
<1>5. least \in Bad /\ \A k \in Bad : least <= k
  BY <1>3, <1>4, LeastNatural
<1> HIDE DEF least
<1>6. least \in 0..last /\ ~ \E f : Iterates(f, S, base, least, step)
  BY <1>5 DEF Bad
<1>7. least # 0
  BY <1>1, <1>6
<1>8. least \in 1..last /\ least - 1 \in 0..last /\ ~ least <= least - 1
  BY <1>6, <1>7
<1>9. least - 1 \notin Bad
  BY <1>5, <1>8
<1>10. \E f : Iterates(f, S, base, least - 1, step)
  BY <1>8, <1>9 DEF Bad
<1> QED
  BY <1>2, <1>6, <1>8, <1>10

(* What is past the first part of a sequence is in the second. *)
LEMMA SecondPart ==
  ASSUME NEW S, NEW p \in Seq(S), NEW q \in Seq(S),
         NEW i \in DOMAIN (p \o q), i \notin DOMAIN p
  PROVE  /\ i - Len(p) \in DOMAIN q
         /\ (p \o q)[i] = q[i - Len(p)]
<1>1. Len(p \o q) = Len(p) + Len(q) /\ Len(p) \in Nat /\ Len(q) \in Nat
  OBVIOUS
<1>2. i \in 1..(Len(p) + Len(q)) /\ i > Len(p)
  BY <1>1
<1>3. i - Len(p) \in 1..Len(q)
  BY <1>1, <1>2
<1> QED
  BY <1>1, <1>2, <1>3

-----------------------------------------------------------------------------
(* Publishing *)

(* Publishing a message changes nothing else of a room. *)
LEMMA PublishKeepsGame ==
  ASSUME NEW r \in RoomState, NEW id \in PlayerId, NEW m \in GameplayMessage
  PROVE  /\ Publish(r, id, m) \in RoomState
         /\ SameGame(Publish(r, id, m), r)
<1> DEFINE e == [to |-> id, message |-> m]
<1>1. e \in Published
  BY DEF Published
<1>2. Append(r.published, e) \in Seq(Published)
  BY <1>1 DEF RoomState
<1>3. Publish(r, id, m) = [r EXCEPT !.published = Append(r.published, e)]
  BY DEF Publish
<1> HIDE DEF e
<1> QED
  BY <1>2, <1>3 DEF RoomState, SameGame

(* So does publishing to a seat, taken or not. *)
LEMMA PublishToSeatKeepsGame ==
  ASSUME NEW r \in RoomState, NEW a \in Assignment, NEW m \in GameplayMessage
  PROVE  /\ PublishToSeat(r, a, m) \in RoomState
         /\ SameGame(PublishToSeat(r, a, m), r)
<1>1. CASE IsSeated(r, a)
  <2>1. r.players[a] \in Player
    BY <1>1 DEF IsSeated, RoomState
  <2>2. r.players[a].id \in PlayerId
    BY <2>1 DEF Player
  <2> QED
    BY <1>1, <2>2, PublishKeepsGame DEF PublishToSeat
<1>2. CASE ~ IsSeated(r, a)
  BY <1>2 DEF PublishToSeat, SameGame
<1> QED
  BY <1>1, <1>2

(* And broadcasting. *)
LEMMA BroadcastKeepsGame ==
  ASSUME NEW r \in RoomState, NEW m \in GameplayMessage
  PROVE  /\ BroadcastGameplayMessage(r, m) \in RoomState
         /\ SameGame(BroadcastGameplayMessage(r, m), r)
<1> DEFINE s == PublishToSeat(r, "P1", m)
<1>1. s \in RoomState /\ SameGame(s, r)
  BY PublishToSeatKeepsGame DEF Assignment
<1>2. PublishToSeat(s, "P2", m) \in RoomState
      /\ SameGame(PublishToSeat(s, "P2", m), s)
  BY <1>1, PublishToSeatKeepsGame DEF Assignment
<1>3. BroadcastGameplayMessage(r, m) = PublishToSeat(s, "P2", m)
  BY DEF BroadcastGameplayMessage
<1> HIDE DEF s
<1> QED
  BY <1>1, <1>2, <1>3 DEF SameGame

(* What makes a room sound does not depend on what it has published. *)
LEMMA SameGameIsSound ==
  ASSUME NEW r, Sound(r), NEW s \in RoomState, SameGame(s, r)
  PROVE  Sound(s)
  BY DEF Sound, SameGame, ValuesAreHeld, TimersFit, IsFull, IsSeated,
         HasPlayed, EveryoneCanPlay

(* A sound room is still sound after a broadcast. *)
LEMMA BroadcastIsSound ==
  ASSUME NEW r, Sound(r), NEW m \in GameplayMessage
  PROVE  Sound(BroadcastGameplayMessage(r, m))
<1>1. r \in RoomState
  BY DEF Sound
<1> QED
  BY <1>1, BroadcastKeepsGame, SameGameIsSound

(* Forgetting what was published keeps a room sound. *)
LEMMA BeginIsSound ==
  ASSUME NEW r, Sound(r)
  PROVE  Sound(Begin(r))
<1>1. r \in RoomState
  BY DEF Sound
<1>2. << >> \in Seq(Published)
  OBVIOUS
<1>3. Begin(r) \in RoomState /\ SameGame(Begin(r), r)
  BY <1>1, <1>2 DEF Begin, RoomState, SameGame
<1> QED
  BY <1>3, SameGameIsSound

(* A new room is sound. *)
LEMMA NewRoomIsSound ==
  ASSUME NEW d \in GameDifficulty
  PROVE  Sound(NewRoom(d))
<1>1. << >> \in Seq(Published)
  OBVIOUS
<1>2. NewRoom(d) \in RoomState
  BY <1>1 DEF NewRoom, RoomState, GameplayState, NoExpectedInput, GameplayInput
<1>3. ValuesAreHeld(NewRoom(d)) /\ TimersFit(NewRoom(d))
  BY DEF NewRoom, ValuesAreHeld, TimersFit, IsSeated
<1> QED
  BY <1>2, <1>3 DEF Sound

-----------------------------------------------------------------------------
(* Seats and players *)

(* A taken seat holds a player. *)
LEMMA SeatedPlayer ==
  ASSUME NEW r \in RoomState, NEW a \in Assignment, IsSeated(r, a)
  PROVE  r.players[a] \in Player
  BY DEF RoomState, IsSeated

(* The other seat is a seat, and another one. *)
LEMMA OtherSeat ==
  ASSUME NEW a \in Assignment
  PROVE  OtherAssignment(a) \in Assignment /\ OtherAssignment(a) # a
  BY DEF OtherAssignment, Assignment

(* A player found by id sits on the seat it is found on. *)
LEMMA FoundPlayer ==
  ASSUME NEW r \in RoomState, NEW id \in PlayerId, HasPlayerWithId(r, id)
  PROVE  GetPlayerById(r, id) \in Assignment
         /\ IsSeated(r, GetPlayerById(r, id))
  BY DEF HasPlayerWithId, GetPlayerById, SeatsOf, Assignment

-----------------------------------------------------------------------------
(* The end of a game *)

(* The result of a game between two players is well formed. *)
LEMMA GameResultType ==
  ASSUME NEW r \in RoomState, IsFull(r), NEW w \in Assignment \cup {NULL}
  PROVE  BuildGameResultDTO(r, w) \in GameResultDTO
<1>1. \A a \in Assignment : r.players[a] \in Player
  BY SeatedPlayer DEF IsFull
<1>2. \A a \in Assignment :
        [inputPressed |-> r.players[a].inputPressed,
         timeToPress |-> r.players[a].timeToPress] \in PlayerGameResultDTO
  BY <1>1 DEF Player, PlayerGameResultDTO
<1> QED
  BY <1>2 DEF BuildGameResultDTO, GameResultDTO

(* A verdict on a full room leaves it sound. *)
LEMMA GameOverIsSound ==
  ASSUME NEW r, Sound(r), IsFull(r), r.gameplayState # "WAITING_PLAYERS",
         NEW type \in GameOverType, NEW w \in Assignment \cup {NULL}
  PROVE  Sound(GameOver(r, type, w))
<1> DEFINE over == [r EXCEPT !.gameplayState = "OVER"]
           m == [messageType |-> type, gameResult |-> BuildGameResultDTO(r, w)]
<1>1. r \in RoomState
  BY DEF Sound
<1>2. m \in GameplayMessage
  BY <1>1, GameResultType DEF GameplayMessage, GameOverMessage
<1>3. over \in RoomState
  BY <1>1 DEF RoomState, GameplayState
<1>4. ValuesAreHeld(over)
  BY <1>1 DEF Sound, ValuesAreHeld, IsFull, IsSeated, HasPlayed, RoomState
<1>5. TimersFit(over)
  BY <1>1 DEF Sound, TimersFit, EveryoneCanPlay, IsFull, IsSeated, RoomState
<1>6. Sound(over)
  BY <1>3, <1>4, <1>5 DEF Sound
<1>7. GameOver(r, type, w) = BroadcastGameplayMessage(over, m)
  BY DEF GameOver
<1> HIDE DEF over, m
<1> QED
  BY <1>2, <1>6, <1>7, BroadcastIsSound

-----------------------------------------------------------------------------
(* The handlers of tick() *)

(* The start of a game. *)
LEMMA HandleEveryoneReadyIsSound ==
  ASSUME NEW r, Sound(r)
  PROVE  Sound(HandleEveryoneReady(r))
<1> DEFINE started == [r EXCEPT !.gameplayState = "STARTED"]
           m == [messageType |-> "ALL_READY_GAME_STARTING"]
<1>1. r \in RoomState
  BY DEF Sound
<1>2. m \in GameplayMessage
  BY DEF GameplayMessage, GameStartingMessage, GameStartingType
<1>3. CASE r.gameplayState = "WAITING_PLAYERS" /\ IsEveryoneReady(r)
  <2>1. IsFull(r)
    BY <1>3 DEF IsEveryoneReady
  <2>2. started \in RoomState
    BY <1>1 DEF RoomState, GameplayState
  <2>3. ValuesAreHeld(started)
    BY <1>1, <2>1 DEF Sound, ValuesAreHeld, IsFull, IsSeated, HasPlayed,
                      RoomState
  <2>4. TimersFit(started)
    BY <1>1, <1>3 DEF Sound, TimersFit, RoomState
  <2>5. Sound(started)
    BY <2>2, <2>3, <2>4 DEF Sound
  <2>6. HandleEveryoneReady(r) = BroadcastGameplayMessage(started, m)
    BY <1>3 DEF HandleEveryoneReady
  <2> HIDE DEF started, m
  <2> QED
    BY <1>2, <2>5, <2>6, BroadcastIsSound
<1>4. CASE ~ (r.gameplayState = "WAITING_PLAYERS" /\ IsEveryoneReady(r))
  BY <1>4 DEF HandleEveryoneReady
<1> QED
  BY <1>3, <1>4

(* The countdown starts in a game both can play. *)
LEMMA StartCountdownIsSound ==
  ASSUME NEW r, Sound(r), r.gameplayState = "STARTED", EveryoneCanPlay(r)
  PROVE  /\ Sound(StartCountdown(r))
         /\ StartCountdown(r).gameplayState = "STARTED"
         /\ EveryoneCanPlay(StartCountdown(r))
         /\ StartCountdown(r).everyoneCanPlayAt \in Age
<1> DEFINE counting == [r EXCEPT !.everyoneCanPlayAt = GetTimeNow]
<1>1. r \in RoomState
  BY DEF Sound
<1>2. CASE r.everyoneCanPlayAt # NULL
  BY <1>1, <1>2 DEF StartCountdown, RoomState
<1>3. CASE r.everyoneCanPlayAt = NULL
  <2>1. GetTimeNow \in Age
    BY ConfigAssumption DEF GetTimeNow, Age
  <2>2. counting \in RoomState
    BY <1>1, <2>1 DEF RoomState
  <2>3. ValuesAreHeld(counting)
    BY <1>1 DEF Sound, ValuesAreHeld, IsFull, IsSeated, HasPlayed, RoomState
  <2>4. EveryoneCanPlay(counting)
    BY <1>1 DEF EveryoneCanPlay, IsFull, IsSeated, RoomState
  <2>5. r.readyForInputAt = NULL
    BY <1>3 DEF Sound, TimersFit
  <2>6. counting.readyForInputAt = NULL /\ counting.gameplayState = "STARTED"
        /\ counting.everyoneCanPlayAt = GetTimeNow
    BY <1>1, <2>5 DEF RoomState
  <2>7. TimersFit(counting)
    BY <2>4, <2>6 DEF TimersFit
  <2>8. StartCountdown(r) = counting
    BY <1>3 DEF StartCountdown
  <2> HIDE DEF counting
  <2> QED
    BY <2>1, <2>2, <2>3, <2>4, <2>6, <2>7, <2>8 DEF Sound
<1> QED
  BY <1>2, <1>3

(* The request for an input. *)
LEMMA RequestInputIsSound ==
  ASSUME NEW r, Sound(r), r.gameplayState = "STARTED", EveryoneCanPlay(r),
         r.everyoneCanPlayAt \in Age, NEW input \in GameplayInput
  PROVE  Sound(RequestInput(r, input))
<1> DEFINE asked == [r EXCEPT !.gameplayState = "EXPECTING_INPUT",
                              !.readyForInputAt = GetTimeNow,
                              !.expectedInput = input]
           m == [messageType |-> "GAME_EXPECTING_INPUT",
                 expectedInput |-> input]
<1>1. r \in RoomState /\ IsFull(r)
  BY DEF Sound, EveryoneCanPlay
<1>2. m \in GameplayMessage
  BY DEF GameplayMessage, GameExpectingInputMessage
<1>3. GetTimeNow \in Age /\ GetTimeNow # NULL
  BY ConfigAssumption, NullAssumption DEF GetTimeNow, Age
<1>4. asked \in RoomState
  BY <1>1, <1>3 DEF RoomState, GameplayState
<1>5. ValuesAreHeld(asked)
  BY <1>1, <1>3 DEF Sound, ValuesAreHeld, IsFull, IsSeated, HasPlayed,
                    RoomState
<1>6. EveryoneCanPlay(asked)
  BY <1>1 DEF EveryoneCanPlay, IsFull, IsSeated, RoomState
<1>7. /\ asked.everyoneCanPlayAt = r.everyoneCanPlayAt
      /\ asked.readyForInputAt = GetTimeNow
      /\ asked.gameplayState = "EXPECTING_INPUT"
  BY <1>1 DEF RoomState
<1>8. r.everyoneCanPlayAt # NULL /\ r.everyoneCanPlayAt >= GetTimeNow
  BY ConfigAssumption, NullAssumption DEF GetTimeNow, Age
<1>9. TimersFit(asked)
  BY <1>6, <1>7, <1>8 DEF TimersFit
<1>10. Sound(asked)
  BY <1>4, <1>5, <1>9 DEF Sound
<1>11. RequestInput(r, input) = BroadcastGameplayMessage(asked, m)
  BY DEF RequestInput
<1> HIDE DEF asked, m
<1> QED
  BY <1>2, <1>10, <1>11, BroadcastIsSound

(* The countdown. *)
LEMMA HandleEveryoneCanPlayIsSound ==
  ASSUME NEW r, Sound(r), NEW input \in GameplayInput
  PROVE  Sound(HandleEveryoneCanPlay(r, input))
<1> DEFINE counting == StartCountdown(r)
<1>1. CASE r.gameplayState = "STARTED" /\ EveryoneCanPlay(r)
  <2>1. /\ Sound(counting)
        /\ counting.gameplayState = "STARTED"
        /\ EveryoneCanPlay(counting)
        /\ counting.everyoneCanPlayAt \in Age
    BY <1>1, StartCountdownIsSound
  <2>2. Sound(RequestInput(counting, input))
    BY <2>1, RequestInputIsSound
  <2>3. HandleEveryoneCanPlay(r, input) \in
          {counting, RequestInput(counting, input)}
    BY <1>1 DEF HandleEveryoneCanPlay
  <2> HIDE DEF counting
  <2> QED
    BY <2>1, <2>2, <2>3
<1>2. CASE ~ (r.gameplayState = "STARTED" /\ EveryoneCanPlay(r))
  BY <1>2 DEF HandleEveryoneCanPlay
<1> QED
  BY <1>1, <1>2

(* In a running game that one player only has played, the other is there. *)
LEMMA HandleOnePlayerPlayedIsSound ==
  ASSUME NEW r, Sound(r)
  PROVE  Sound(HandleOnePlayerPlayed(r))
<1> DEFINE played == IF HasPlayed(r, "P1") THEN "P1" ELSE "P2"
           other == OtherAssignment(played)
           early == GameOver(r, "GAME_OVER_EARLY_INPUT", other)
           wrong == GameOver(r, "GAME_OVER_WRONG_INPUT", other)
           won == GameOver(r, "GAME_OVER_WIN", played)
<1>1. CASE r.gameplayState \in {"STARTED", "EXPECTING_INPUT"}
  <2>1. IsFull(r) /\ r.gameplayState # "WAITING_PLAYERS"
    BY <1>1 DEF Sound, ValuesAreHeld
  <2>2. played \in Assignment /\ other \in Assignment
    BY OtherSeat DEF Assignment
  <2>3. Sound(early) /\ Sound(wrong) /\ Sound(won)
    <3> HIDE DEF played, other
    <3> QED
      BY <2>1, <2>2, GameOverIsSound DEF GameOverType
  <2>4. HandleOnePlayerPlayed(r) \in {r, early, wrong, won}
    BY DEF HandleOnePlayerPlayed
  <2> HIDE DEF early, wrong, won
  <2> QED
    BY <2>3, <2>4
<1>2. CASE r.gameplayState \notin {"STARTED", "EXPECTING_INPUT"}
  BY <1>2 DEF HandleOnePlayerPlayed
<1> QED
  BY <1>1, <1>2

(* Both have played. *)
LEMMA HandleEveryonePlayedIsSound ==
  ASSUME NEW r, Sound(r)
  PROVE  Sound(HandleEveryonePlayed(r))
<1> DEFINE won1 == GameOver(r, "GAME_OVER_WIN", "P1")
           won2 == GameOver(r, "GAME_OVER_WIN", "P2")
           draw == GameOver(r, "GAME_OVER_DRAW", NULL)
<1>1. CASE r.gameplayState = "EXPECTING_INPUT" /\ EveryonePlayed(r)
  <2>1. IsFull(r) /\ r.gameplayState # "WAITING_PLAYERS"
    BY <1>1 DEF EveryonePlayed
  <2>2. Sound(won1) /\ Sound(won2) /\ Sound(draw)
    BY <2>1, GameOverIsSound DEF GameOverType, Assignment
  <2>3. HandleEveryonePlayed(r) \in {won1, won2, draw}
    BY <1>1 DEF HandleEveryonePlayed
  <2> HIDE DEF won1, won2, draw
  <2> QED
    BY <2>2, <2>3
<1>2. CASE ~ (r.gameplayState = "EXPECTING_INPUT" /\ EveryonePlayed(r))
  BY <1>2 DEF HandleEveryonePlayed
<1> QED
  BY <1>1, <1>2

(* Nobody has played. *)
LEMMA HandleTimeoutIsSound ==
  ASSUME NEW r, Sound(r)
  PROVE  Sound(HandleTimeout(r))
<1> DEFINE draw == GameOver(r, "GAME_OVER_DRAW", NULL)
<1>1. CASE r.gameplayState = "EXPECTING_INPUT" /\ NoOnePlayed(r)
  <2>1. IsFull(r) /\ r.gameplayState # "WAITING_PLAYERS"
    BY <1>1 DEF NoOnePlayed
  <2>2. Sound(draw)
    BY <2>1, GameOverIsSound DEF GameOverType
  <2>3. HandleTimeout(r) \in {r, draw}
    BY DEF HandleTimeout
  <2> HIDE DEF draw
  <2> QED
    BY <2>2, <2>3
<1>2. CASE ~ (r.gameplayState = "EXPECTING_INPUT" /\ NoOnePlayed(r))
  BY <1>2 DEF HandleTimeout
<1> QED
  BY <1>1, <1>2

-----------------------------------------------------------------------------
(* The reset between two games *)

(* A reset player is a player who has not played. *)
LEMMA ResetPlayer ==
  ASSUME NEW p \in Player
  PROVE  /\ ResetToReplay(p) \in Player
         /\ ResetToReplay(p) # NULL
         /\ ResetToReplay(p).inputPressed = NULL
  BY NoPlayerAssumption DEF ResetToReplay, Player

(* A reset keeps the players and stops both timers. *)
LEMMA ResetRoundFacts ==
  ASSUME NEW r \in RoomState
  PROVE  /\ ResetRound(r) \in RoomState
         /\ ResetRound(r).everyoneCanPlayAt = NULL
         /\ ResetRound(r).readyForInputAt = NULL
         /\ \A a \in Assignment :
              /\ IsSeated(ResetRound(r), a) <=> IsSeated(r, a)
              /\ IsSeated(r, a) => ~ HasPlayed(ResetRound(r), a)
<1> DEFINE ps == ResetPlayers(r)
<1>1. /\ ps \in [Assignment -> Player \cup {NULL}]
      /\ \A a \in Assignment :
           /\ ps[a] # NULL <=> IsSeated(r, a)
           /\ IsSeated(r, a) => ps[a].inputPressed = NULL
  BY SeatedPlayer, ResetPlayer DEF ResetPlayers
<1>2. NoExpectedInput \in GameplayInput
  BY DEF NoExpectedInput, GameplayInput
<1> HIDE DEF ps
<1>3. ResetRound(r) = [r EXCEPT !.players = ps,
                                !.expectedInput = NoExpectedInput,
                                !.everyoneCanPlayAt = NULL,
                                !.readyForInputAt = NULL]
  BY DEF ResetRound, ps
<1> QED
  BY <1>1, <1>2, <1>3 DEF RoomState, IsSeated, HasPlayed

(* The rematch. *)
LEMMA HandleReplayIsSound ==
  ASSUME NEW r, Sound(r)
  PROVE  Sound(HandleReplay(r))
<1> DEFINE reset == ResetRound(r)
           again == [reset EXCEPT !.gameplayState = "STARTED"]
           m == [messageType |-> "ALL_REPLAY_READY_GAME_STARTING"]
<1>1. CASE r.gameplayState = "OVER" /\ EveryoneWantsToReplay(r)
  <2>1. r \in RoomState /\ IsFull(r)
    BY <1>1 DEF Sound, EveryoneWantsToReplay
  <2>2. /\ reset \in RoomState
        /\ reset.everyoneCanPlayAt = NULL /\ reset.readyForInputAt = NULL
        /\ \A a \in Assignment : IsSeated(reset, a) /\ ~ HasPlayed(reset, a)
    BY <2>1, ResetRoundFacts DEF IsFull
  <2>3. m \in GameplayMessage
    BY DEF GameplayMessage, GameStartingMessage, GameStartingType
  <2>4. HandleReplay(r) = BroadcastGameplayMessage(again, m)
    BY <1>1 DEF HandleReplay
  <2> HIDE DEF reset, m
  <2>5. again \in RoomState
    BY <2>2 DEF RoomState, GameplayState
  <2>6. /\ again.gameplayState = "STARTED"
        /\ again.players = reset.players
        /\ again.everyoneCanPlayAt = NULL /\ again.readyForInputAt = NULL
    BY <2>2 DEF RoomState
  <2>7. ValuesAreHeld(again)
    BY <2>2, <2>6 DEF ValuesAreHeld, IsFull, IsSeated, HasPlayed
  <2>8. TimersFit(again)
    BY <2>6 DEF TimersFit
  <2>9. Sound(again)
    BY <2>5, <2>7, <2>8 DEF Sound
  <2> HIDE DEF again
  <2> QED
    BY <2>3, <2>4, <2>9, BroadcastIsSound
<1>2. CASE ~ (r.gameplayState = "OVER" /\ EveryoneWantsToReplay(r))
  BY <1>2 DEF HandleReplay
<1> QED
  BY <1>1, <1>2

(* A whole tick, whatever button it draws. *)
LEMMA TickIsSound ==
  ASSUME NEW r, Sound(r), NEW input \in GameplayInput
  PROVE  Sound(Tick(r, input))
<1>1. r.gameplayState \in GameplayState
  BY DEF Sound, RoomState
<1>2. CASE r.gameplayState = "WAITING_PLAYERS"
  BY <1>2, HandleEveryoneReadyIsSound DEF Tick
<1>3. CASE r.gameplayState = "STARTED"
  <2>1. Sound(HandleEveryoneCanPlay(r, input))
    BY HandleEveryoneCanPlayIsSound
  <2>2. Sound(HandleOnePlayerPlayed(HandleEveryoneCanPlay(r, input)))
    BY <2>1, HandleOnePlayerPlayedIsSound
  <2> QED
    BY <1>3, <2>2 DEF Tick
<1>4. CASE r.gameplayState = "EXPECTING_INPUT"
  <2>1. Sound(HandleOnePlayerPlayed(r))
    BY HandleOnePlayerPlayedIsSound
  <2>2. Sound(HandleEveryonePlayed(HandleOnePlayerPlayed(r)))
    BY <2>1, HandleEveryonePlayedIsSound
  <2>3. Sound(HandleTimeout(HandleEveryonePlayed(HandleOnePlayerPlayed(r))))
    BY <2>2, HandleTimeoutIsSound
  <2> QED
    BY <1>4, <2>3 DEF Tick
<1>5. CASE r.gameplayState = "OVER"
  BY <1>5, HandleReplayIsSound DEF Tick
<1> QED
  BY <1>1, <1>2, <1>3, <1>4, <1>5 DEF GameplayState

-----------------------------------------------------------------------------
(* Joining and leaving *)

(* What a player is shown of another is well formed. *)
LEMMA LobbyDTOType ==
  ASSUME NEW r \in RoomState, NEW a \in Assignment, IsSeated(r, a)
  PROVE  BuildLobbyDTO(r, a) \in PlayerLobbyDTO
<1>1. r.players[a] \in Player
  BY SeatedPlayer
<1> QED
  BY <1>1 DEF BuildLobbyDTO, PlayerLobbyDTO, Player

(* A newcomer is a player who has not played. *)
LEMMA NewPlayerType ==
  ASSUME NEW id \in PlayerId
  PROVE  /\ NewPlayer(id) \in Player
         /\ NewPlayer(id) # NULL
         /\ NewPlayer(id).inputPressed = NULL
<1>1. NewPlayer(id) \in Player
  BY DEF NewPlayer, Player
<1> QED
  BY <1>1, NoPlayerAssumption DEF NewPlayer

(* Whoever joins takes a free seat in a room that is not playing. *)
LEMMA AddPlayerIsSound ==
  ASSUME NEW r, Sound(r), NEW id \in PlayerId
  PROVE  Sound(AddPlayer(r, id))
<1>1. CASE IsFull(r)
  BY <1>1 DEF AddPlayer
<1>2. CASE ~ IsFull(r)
  <2> DEFINE a == GetAvailableAssignment(r)
             other == OtherAssignment(a)
             seated == [r EXCEPT !.players[a] = NewPlayer(id)]
             otherDTO == IF IsSeated(r, other) THEN BuildLobbyDTO(r, other)
                                               ELSE NULL
             hello == [messageType |-> "ROOM_JOINED", playerAssignment |-> a,
                       otherPlayer |-> otherDTO]
             joined == Publish(seated, id, hello)
             news == [messageType |-> "PLAYER_JOINED_GAME",
                      player |-> BuildLobbyDTO(seated, a)]
  <2>1. r \in RoomState
    BY DEF Sound
  <2>2. a \in Assignment /\ ~ IsSeated(r, a)
    BY <1>2 DEF GetAvailableAssignment, IsFull, Assignment
  <2>3. other \in Assignment /\ other # a
    <3> HIDE DEF a
    <3> QED
      BY <2>2, OtherSeat
  <2>4. AddPlayer(r, id) = PublishToSeat(joined, other, news)
    BY <1>2 DEF AddPlayer
  <2>5. hello \in GameplayMessage
    <3>1. otherDTO \in PlayerLobbyDTO \cup {NULL}
      <4> HIDE DEF other
      <4> QED
        BY <2>1, <2>3, LobbyDTOType
    <3> HIDE DEF otherDTO, a
    <3> QED
      BY <2>2, <3>1 DEF GameplayMessage, RoomJoinedMessage
  <2> HIDE DEF a, other, hello
  <2>6. /\ seated \in RoomState
        /\ IsSeated(seated, a)
        /\ ~ HasPlayed(seated, a)
        /\ \A b \in Assignment \ {a} : seated.players[b] = r.players[b]
        /\ seated.gameplayState = r.gameplayState
        /\ seated.everyoneCanPlayAt = r.everyoneCanPlayAt
        /\ seated.readyForInputAt = r.readyForInputAt
    BY <2>1, <2>2, NewPlayerType DEF RoomState, IsSeated, HasPlayed
  <2>7. r.gameplayState = "WAITING_PLAYERS" /\ r.everyoneCanPlayAt = NULL
        /\ r.readyForInputAt = NULL
    BY <1>2 DEF Sound, ValuesAreHeld, TimersFit, EveryoneCanPlay
  <2> HIDE DEF seated
  <2>8. ValuesAreHeld(seated)
    BY <2>6, <2>7 DEF Sound, ValuesAreHeld, IsSeated, HasPlayed
  <2>9. TimersFit(seated)
    BY <2>6, <2>7 DEF TimersFit
  <2>10. joined \in RoomState /\ SameGame(joined, seated)
    BY <2>5, <2>6, PublishKeepsGame
  <2>11. news \in GameplayMessage
    BY <2>2, <2>6, LobbyDTOType DEF GameplayMessage, PlayerJoinedRoomMessage
  <2> HIDE DEF joined, news
  <2>12. Sound(joined)
    BY <2>6, <2>8, <2>9, <2>10, SameGameIsSound DEF Sound
  <2>13. PublishToSeat(joined, other, news) \in RoomState
         /\ SameGame(PublishToSeat(joined, other, news), joined)
    BY <2>3, <2>10, <2>11, PublishToSeatKeepsGame
  <2> QED
    BY <2>4, <2>12, <2>13, SameGameIsSound
<1> QED
  BY <1>1, <1>2

(* Whoever leaves stops the game and both timers. *)
LEMMA RemovePlayerIsSound ==
  ASSUME NEW r, Sound(r), NEW id \in PlayerId
  PROVE  Sound(RemovePlayer(r, id))
<1>1. CASE ~ HasPlayerWithId(r, id)
  BY <1>1 DEF RemovePlayer
<1>2. CASE HasPlayerWithId(r, id)
  <2> DEFINE a == GetPlayerById(r, id)
             reset == ResetRound(r)
             left == [reset EXCEPT !.players[a] = NULL,
                                   !.gameplayState = "WAITING_PLAYERS"]
             m == [messageType |-> "PLAYER_LEFT_GAME", playerAssignment |-> a]
  <2>1. r \in RoomState
    BY DEF Sound
  <2>2. a \in Assignment
    BY <1>2, <2>1, FoundPlayer
  <2>3. /\ reset \in RoomState
        /\ reset.everyoneCanPlayAt = NULL /\ reset.readyForInputAt = NULL
        /\ \A b \in Assignment :
             IsSeated(reset, b) => ~ HasPlayed(reset, b)
    BY <2>1, ResetRoundFacts
  <2>4. RemovePlayer(r, id) = BroadcastGameplayMessage(left, m)
    BY <1>2 DEF RemovePlayer
  <2> HIDE DEF a, reset
  <2>5. m \in GameplayMessage
    BY <2>2 DEF GameplayMessage, PlayerLeftRoomMessage
  <2>6. /\ left \in RoomState
        /\ left.gameplayState = "WAITING_PLAYERS"
        /\ left.everyoneCanPlayAt = NULL /\ left.readyForInputAt = NULL
        /\ left.players[a] = NULL
        /\ \A b \in Assignment \ {a} : left.players[b] = reset.players[b]
    BY <2>2, <2>3 DEF RoomState, GameplayState
  <2> HIDE DEF left, m
  <2>7. ValuesAreHeld(left)
    BY <2>3, <2>6 DEF ValuesAreHeld, IsSeated, HasPlayed
  <2>8. TimersFit(left)
    BY <2>6 DEF TimersFit
  <2> QED
    BY <2>4, <2>5, <2>6, <2>7, <2>8, BroadcastIsSound DEF Sound
<1> QED
  BY <1>1, <1>2

-----------------------------------------------------------------------------
(* Player messages *)

(* A change to a player that takes neither canPlay nor the time of a press *)
(* away from it keeps the room sound.                                      *)
LEMMA PlayerChangeIsSound ==
  ASSUME NEW r, Sound(r), NEW a \in Assignment, IsSeated(r, a),
         NEW p \in Player,
         r.players[a].canPlay => p.canPlay,
         p.inputPressed # NULL => p.inputPressedAtServerTime # NULL
  PROVE  Sound([r EXCEPT !.players[a] = p])
<1> DEFINE s == [r EXCEPT !.players[a] = p]
<1>1. r \in RoomState
  BY DEF Sound
<1>2. p # NULL
  BY NoPlayerAssumption
<1>3. /\ s \in RoomState
      /\ s.players[a] = p
      /\ \A b \in Assignment \ {a} : s.players[b] = r.players[b]
      /\ s.gameplayState = r.gameplayState
      /\ s.everyoneCanPlayAt = r.everyoneCanPlayAt
      /\ s.readyForInputAt = r.readyForInputAt
  BY <1>1 DEF RoomState
<1> HIDE DEF s
<1>4. \A b \in Assignment : IsSeated(s, b) <=> IsSeated(r, b)
  BY <1>2, <1>3 DEF IsSeated
<1>5. EveryoneCanPlay(r) => EveryoneCanPlay(s)
  BY <1>3, <1>4 DEF EveryoneCanPlay, IsFull
<1>6. ValuesAreHeld(s)
  BY <1>3, <1>4 DEF Sound, ValuesAreHeld, IsFull, HasPlayed
<1>7. TimersFit(s)
  BY <1>3, <1>5 DEF Sound, TimersFit
<1> QED
  BY <1>3, <1>6, <1>7 DEF Sound, s

(* SET_READY_STATE *)
LEMMA SetReadyStateIsSound ==
  ASSUME NEW r, Sound(r), NEW a \in Assignment, IsSeated(r, a),
         NEW m \in SetReadyState
  PROVE  Sound(HandlePlayerSetReadyStateMessage(r, a, m))
<1> DEFINE p == [r.players[a] EXCEPT !.isReady = m.isReady]
           s == [r EXCEPT !.players[a] = p]
           news == [messageType |-> "PLAYER_READY_STATE_CHANGED",
                    playerAssignment |-> a, isReady |-> m.isReady]
<1>1. r \in RoomState
  BY DEF Sound
<1>2. r.players[a] \in Player
  BY <1>1, SeatedPlayer
<1>3. m.isReady \in BOOLEAN
  BY DEF SetReadyState
<1>4. p \in Player /\ p.canPlay = r.players[a].canPlay
      /\ p.inputPressed = r.players[a].inputPressed
      /\ p.inputPressedAtServerTime = r.players[a].inputPressedAtServerTime
  BY <1>2, <1>3 DEF Player
<1>5. p.inputPressed # NULL => p.inputPressedAtServerTime # NULL
  BY <1>4 DEF Sound, ValuesAreHeld, HasPlayed
<1>6. Sound(s)
  <2> HIDE DEF p
  <2> QED
    BY <1>4, <1>5, PlayerChangeIsSound
<1>7. news \in GameplayMessage
  BY <1>3 DEF GameplayMessage, PlayerReadyStateChangedMessage
<1>8. HandlePlayerSetReadyStateMessage(r, a, m)
        \in {r, BroadcastGameplayMessage(s, news)}
  <2>1. s = [r EXCEPT !.players[a].isReady = m.isReady]
    BY <1>1, <1>2 DEF RoomState, Player
  <2> HIDE DEF s, p
  <2> QED
    BY <2>1 DEF HandlePlayerSetReadyStateMessage
<1> HIDE DEF s, news
<1> QED
  BY <1>6, <1>7, <1>8, BroadcastIsSound

(* NOTIFY_CAN_PLAY *)
LEMMA NotifyCanPlayIsSound ==
  ASSUME NEW r, Sound(r), NEW a \in Assignment, IsSeated(r, a)
  PROVE  Sound(HandlePlayerNotifyCanPlayMessage(r, a))
<1> DEFINE p == [r.players[a] EXCEPT !.canPlay = TRUE]
<1>1. r \in RoomState
  BY DEF Sound
<1>2. r.players[a] \in Player
  BY <1>1, SeatedPlayer
<1>3. p \in Player /\ p.canPlay
      /\ p.inputPressed = r.players[a].inputPressed
      /\ p.inputPressedAtServerTime = r.players[a].inputPressedAtServerTime
  BY <1>2 DEF Player
<1>4. p.inputPressed # NULL => p.inputPressedAtServerTime # NULL
  BY <1>3 DEF Sound, ValuesAreHeld, HasPlayed
<1>5. HandlePlayerNotifyCanPlayMessage(r, a) = [r EXCEPT !.players[a] = p]
  BY <1>1, <1>2 DEF HandlePlayerNotifyCanPlayMessage, RoomState, Player
<1> HIDE DEF p
<1> QED
  BY <1>3, <1>4, <1>5, PlayerChangeIsSound

(* PLAYER_INPUT *)
LEMMA InputIsSound ==
  ASSUME NEW r, Sound(r), NEW a \in Assignment, IsSeated(r, a),
         NEW m \in PlayerInput
  PROVE  Sound(HandlePlayerInputMessage(r, a, m))
<1> DEFINE p == [r.players[a] EXCEPT !.inputPressed = m.inputPressed,
                                     !.timeToPress = m.timeToPress,
                                     !.inputPressedAtServerTime = GetTimeNow]
<1>1. r \in RoomState
  BY DEF Sound
<1>2. r.players[a] \in Player
  BY <1>1, SeatedPlayer
<1>3. GetTimeNow \in Age /\ GetTimeNow # NULL
  BY ConfigAssumption, NullAssumption DEF GetTimeNow, Age
<1>4. m.inputPressed \in GameplayInput /\ m.timeToPress \in ReactionTime
  BY DEF PlayerInput
<1>5. p \in Player /\ p.canPlay = r.players[a].canPlay
      /\ p.inputPressedAtServerTime # NULL
  BY <1>2, <1>3, <1>4 DEF Player
<1>6. HandlePlayerInputMessage(r, a, m) = [r EXCEPT !.players[a] = p]
  BY <1>1, <1>2 DEF HandlePlayerInputMessage, RoomState, Player
<1> HIDE DEF p
<1> QED
  BY <1>5, <1>6, PlayerChangeIsSound

(* SET_REPLAY_READY_STATE *)
LEMMA SetReplayReadyStateIsSound ==
  ASSUME NEW r, Sound(r), NEW a \in Assignment, IsSeated(r, a),
         NEW m \in SetReplayReadyState
  PROVE  Sound(HandlePlayerSetReplayReadyStateMessage(r, a, m))
<1> DEFINE p == [r.players[a] EXCEPT !.isReadyToReplay = m.isReadyToReplay]
           s == [r EXCEPT !.players[a] = p]
           news == [messageType |-> "PLAYER_REPLAY_READY_STATE_CHANGED",
                    playerAssignment |-> a,
                    isReadyToReplay |-> m.isReadyToReplay]
<1>1. r \in RoomState
  BY DEF Sound
<1>2. r.players[a] \in Player
  BY <1>1, SeatedPlayer
<1>3. m.isReadyToReplay \in BOOLEAN
  BY DEF SetReplayReadyState
<1>4. p \in Player /\ p.canPlay = r.players[a].canPlay
      /\ p.inputPressed = r.players[a].inputPressed
      /\ p.inputPressedAtServerTime = r.players[a].inputPressedAtServerTime
  BY <1>2, <1>3 DEF Player
<1>5. p.inputPressed # NULL => p.inputPressedAtServerTime # NULL
  BY <1>4 DEF Sound, ValuesAreHeld, HasPlayed
<1>6. Sound(s)
  <2> HIDE DEF p
  <2> QED
    BY <1>4, <1>5, PlayerChangeIsSound
<1>7. news \in GameplayMessage
  BY <1>3 DEF GameplayMessage, PlayerReplayReadyStateChangedMessage
<1>8. HandlePlayerSetReplayReadyStateMessage(r, a, m)
        = BroadcastGameplayMessage(s, news)
  <2>1. s = [r EXCEPT !.players[a].isReadyToReplay = m.isReadyToReplay]
    BY <1>1, <1>2 DEF RoomState, Player
  <2> HIDE DEF s, p
  <2> QED
    BY <2>1 DEF HandlePlayerSetReplayReadyStateMessage
<1> HIDE DEF s, news
<1> QED
  BY <1>6, <1>7, <1>8, BroadcastIsSound

(* Any message, from anyone. *)
LEMMA PlayerMessageIsSound ==
  ASSUME NEW r, Sound(r), NEW id \in PlayerId, NEW m \in RoomActionMessage
  PROVE  Sound(HandlePlayerMessage(r, id, m))
<1> DEFINE a == GetPlayerById(r, id)
<1>1. CASE ~ HasPlayerWithId(r, id)
  BY <1>1 DEF HandlePlayerMessage
<1>2. CASE HasPlayerWithId(r, id)
  <2>1. r \in RoomState
    BY DEF Sound
  <2>2. a \in Assignment /\ IsSeated(r, a)
    BY <1>2, <2>1, FoundPlayer
  <2> HIDE DEF a
  <2>3. CASE m \in SetReadyState
    <3>1. HandlePlayerMessage(r, id, m)
            = HandlePlayerSetReadyStateMessage(r, a, m)
      BY <1>2, <2>3 DEF HandlePlayerMessage, SetReadyState, a
    <3> QED
      BY <2>2, <2>3, <3>1, SetReadyStateIsSound
  <2>4. CASE m \in NotifyCanPlay
    <3>1. HandlePlayerMessage(r, id, m)
            = HandlePlayerNotifyCanPlayMessage(r, a)
      BY <1>2, <2>4 DEF HandlePlayerMessage, NotifyCanPlay, a
    <3> QED
      BY <2>2, <3>1, NotifyCanPlayIsSound
  <2>5. CASE m \in PlayerInput
    <3>1. HandlePlayerMessage(r, id, m) = HandlePlayerInputMessage(r, a, m)
      BY <1>2, <2>5 DEF HandlePlayerMessage, PlayerInput, a
    <3> QED
      BY <2>2, <2>5, <3>1, InputIsSound
  <2>6. CASE m \in SetReplayReadyState
    <3>1. HandlePlayerMessage(r, id, m)
            = HandlePlayerSetReplayReadyStateMessage(r, a, m)
      BY <1>2, <2>6 DEF HandlePlayerMessage, SetReplayReadyState, a
    <3> QED
      BY <2>2, <2>6, <3>1, SetReplayReadyStateIsSound
  <2>7. CASE m \in LeaveGame
    <3>1. HandlePlayerMessage(r, id, m) = RemovePlayer(r, id)
      BY <1>2, <2>7 DEF HandlePlayerMessage, LeaveGame
    <3> QED
      BY <3>1, RemovePlayerIsSound
  <2> QED
    BY <2>3, <2>4, <2>5, <2>6, <2>7 DEF RoomActionMessage
<1> QED
  BY <1>1, <1>2

-----------------------------------------------------------------------------
(* Time *)

(* An age stays an age, and the older of two stays the older. *)
LEMMA OlderAge ==
  ASSUME NEW x \in Age, NEW y \in Age
  PROVE  /\ Older(x) \in Age /\ Older(x) # NULL
         /\ x >= y => Older(x) >= Older(y)
<1>1. NULL \notin Age
  BY NullAssumption, ConfigAssumption DEF Age
<1> QED
  BY <1>1, ConfigAssumption DEF Older, Age

(* A player whose press grows older is otherwise the same player. *)
LEMMA ElapsePlayer ==
  ASSUME NEW p \in Player, NEW t \in Age \cup {NULL}
  PROVE  LET q == [p EXCEPT !.inputPressedAtServerTime = t]
         IN /\ q \in Player /\ q # NULL
            /\ q.canPlay = p.canPlay
            /\ q.inputPressed = p.inputPressed
            /\ q.inputPressedAtServerTime = t
  BY NoPlayerAssumption DEF Player

(* Time passes for a press, if there is one. *)
LEMMA OlderPressType ==
  ASSUME NEW r \in RoomState, NEW a \in Assignment, IsSeated(r, a)
  PROVE  /\ OlderPress(r, a) \in Age \cup {NULL}
         /\ r.players[a].inputPressedAtServerTime # NULL =>
              OlderPress(r, a) # NULL
<1> DEFINE t == r.players[a].inputPressedAtServerTime
<1>1. t \in Age \cup {NULL}
  BY SeatedPlayer DEF Player
<1>2. OlderPress(r, a) \in {t, Older(t)}
  BY DEF OlderPress
<1>3. Older(NULL) = NULL
  BY DEF Older
<1> HIDE DEF t
<1>4. /\ OlderPress(r, a) \in Age \cup {NULL}
      /\ t # NULL => OlderPress(r, a) # NULL
  BY <1>1, <1>2, <1>3, OlderAge
<1> QED
  BY <1>4 DEF t

(* The passing of time keeps a room sound. *)
LEMMA ElapseIsSound ==
  ASSUME NEW r, Sound(r)
  PROVE  Sound(Elapse(r))
<1> DEFINE ps == [a \in Assignment |->
                    IF IsSeated(r, a)
                      THEN [r.players[a] EXCEPT !.inputPressedAtServerTime =
                                                  OlderPress(r, a)]
                      ELSE NULL]
           s == Elapse(r)
<1>1. r \in RoomState
  BY DEF Sound
<1>2. \A a \in Assignment :
        IF IsSeated(r, a)
          THEN /\ ps[a] \in Player /\ ps[a] # NULL
               /\ ps[a].canPlay = r.players[a].canPlay
               /\ ps[a].inputPressed = r.players[a].inputPressed
               /\ r.players[a].inputPressedAtServerTime # NULL =>
                    ps[a].inputPressedAtServerTime # NULL
          ELSE ps[a] = NULL
  <2> SUFFICES ASSUME NEW a \in Assignment, IsSeated(r, a)
               PROVE  /\ ps[a] \in Player /\ ps[a] # NULL
                      /\ ps[a].canPlay = r.players[a].canPlay
                      /\ ps[a].inputPressed = r.players[a].inputPressed
                      /\ r.players[a].inputPressedAtServerTime # NULL =>
                           ps[a].inputPressedAtServerTime # NULL
    OBVIOUS
  <2>1. r.players[a] \in Player
    BY <1>1, SeatedPlayer
  <2>2. /\ OlderPress(r, a) \in Age \cup {NULL}
        /\ r.players[a].inputPressedAtServerTime # NULL =>
             OlderPress(r, a) # NULL
    BY <1>1, OlderPressType
  <2>3. ps[a] = [r.players[a] EXCEPT !.inputPressedAtServerTime =
                                       OlderPress(r, a)]
    OBVIOUS
  <2> HIDE DEF ps
  <2> QED
    BY <2>1, <2>2, <2>3, ElapsePlayer
<1>3. ps \in [Assignment -> Player \cup {NULL}]
  BY <1>2
<1>4. s = [r EXCEPT !.everyoneCanPlayAt = Older(r.everyoneCanPlayAt),
                    !.readyForInputAt = Older(r.readyForInputAt),
                    !.players = ps]
  BY DEF Elapse
<1>5. \A t \in Age \cup {NULL} : /\ Older(t) \in Age \cup {NULL}
                                 /\ Older(t) = NULL <=> t = NULL
  BY OlderAge DEF Older
<1> HIDE DEF ps, s
<1>6. /\ s \in RoomState
      /\ s.gameplayState = r.gameplayState
      /\ s.players = ps
      /\ s.everyoneCanPlayAt = Older(r.everyoneCanPlayAt)
      /\ s.readyForInputAt = Older(r.readyForInputAt)
  BY <1>1, <1>3, <1>4, <1>5 DEF RoomState
<1>7. \A a \in Assignment : IsSeated(s, a) <=> IsSeated(r, a)
  BY <1>2, <1>6 DEF IsSeated
<1>8. EveryoneCanPlay(r) => EveryoneCanPlay(s)
  BY <1>2, <1>6, <1>7 DEF EveryoneCanPlay, IsFull
<1>9. r.everyoneCanPlayAt \in Age \cup {NULL}
      /\ r.readyForInputAt \in Age \cup {NULL}
  BY <1>1 DEF RoomState
<1>10. ValuesAreHeld(s)
  BY <1>2, <1>5, <1>6, <1>7, <1>9 DEF Sound, ValuesAreHeld, IsFull, HasPlayed
<1>11. TimersFit(s)
  BY <1>5, <1>6, <1>8, <1>9, OlderAge DEF Sound, TimersFit
<1> QED
  BY <1>6, <1>10, <1>11 DEF Sound, s

-----------------------------------------------------------------------------
(* Who sits where, and whom the messages are for *)

(* s has the players of r on the seats of r. *)
SameSeating(s, r) ==
  /\ s.difficulty = r.difficulty
  /\ \A a \in Assignment :
       /\ IsSeated(s, a) <=> IsSeated(r, a)
       /\ IsSeated(r, a) => s.players[a].id = r.players[a].id

(* What is published is for the players of the room. *)
Addressed(r) ==
  \A i \in DOMAIN r.published : HasPlayerWithId(r, r.published[i].to)

(* A handler that leads from r to s leaves everybody in place. *)
KeepsSeats(s, r) == SameSeating(s, r) /\ (Addressed(r) => Addressed(s))

LEMMA SameSeatingSeats ==
  ASSUME NEW s, NEW r, SameSeating(s, r)
  PROVE  /\ \A id : SeatsOf(s, id) = SeatsOf(r, id)
         /\ \A id : HasPlayerWithId(s, id) <=> HasPlayerWithId(r, id)
         /\ IsFull(s) <=> IsFull(r)
         /\ IsEmpty(s) <=> IsEmpty(r)
<1>1. \A id : SeatsOf(s, id) = SeatsOf(r, id)
  BY DEF SameSeating, SeatsOf
<1> QED
  BY <1>1 DEF SameSeating, HasPlayerWithId, IsFull, IsEmpty

LEMMA KeepsSeatsTransitive ==
  ASSUME NEW r, NEW s, NEW t, KeepsSeats(s, r), KeepsSeats(t, s)
  PROVE  KeepsSeats(t, r)
  BY DEF KeepsSeats, SameSeating

(* A message for a player of the room is for a player of the room. *)
LEMMA PublishAddressed ==
  ASSUME NEW r \in RoomState, Addressed(r), NEW to \in PlayerId,
         HasPlayerWithId(r, to), NEW m \in GameplayMessage
  PROVE  Addressed(Publish(r, to, m))
<1> DEFINE s == Publish(r, to, m)
           e == [to |-> to, message |-> m]
<1>1. s.published = Append(r.published, e)
  BY DEF Publish, RoomState
<1>2. SameGame(s, r)
  BY PublishKeepsGame
<1>3. r.published \in Seq(Published) /\ e \in Published /\ e.to = to
  BY DEF RoomState, Published
<1> HIDE DEF s, e
<1>4. ASSUME NEW i \in DOMAIN s.published
      PROVE  HasPlayerWithId(r, s.published[i].to)
  <2>1. CASE i \in DOMAIN r.published
    <3>1. s.published[i] = r.published[i]
      BY <1>1, <1>3, <2>1
    <3> QED
      BY <2>1, <3>1 DEF Addressed
  <2>2. CASE i \notin DOMAIN r.published
    <3>1. s.published[i] = e
      BY <1>1, <1>3, <1>4, <2>2
    <3> QED
      BY <1>3, <3>1
  <2> QED
    BY <2>1, <2>2
<1>5. \A id : HasPlayerWithId(s, id) <=> HasPlayerWithId(r, id)
  BY <1>2 DEF SameGame, HasPlayerWithId, SeatsOf, IsSeated
<1> QED
  BY <1>4, <1>5 DEF Addressed, s

LEMMA PublishToSeatKeepsSeats ==
  ASSUME NEW r \in RoomState, NEW a \in Assignment, NEW m \in GameplayMessage
  PROVE  KeepsSeats(PublishToSeat(r, a, m), r)
<1>1. SameSeating(PublishToSeat(r, a, m), r)
  BY PublishToSeatKeepsGame DEF SameGame, SameSeating, IsSeated
<1>2. ASSUME Addressed(r), IsSeated(r, a)
      PROVE  Addressed(PublishToSeat(r, a, m))
  <2>1. r.players[a].id \in PlayerId
    BY <1>2, SeatedPlayer DEF Player
  <2>2. HasPlayerWithId(r, r.players[a].id)
    BY <1>2 DEF HasPlayerWithId, SeatsOf
  <2> QED
    BY <1>2, <2>1, <2>2, PublishAddressed DEF PublishToSeat
<1>3. ~ IsSeated(r, a) => PublishToSeat(r, a, m) = r
  BY DEF PublishToSeat
<1> QED
  BY <1>1, <1>2, <1>3 DEF KeepsSeats

(* A broadcast by r as x, which has the same players. *)
LEMMA BroadcastKeepsSeats ==
  ASSUME NEW r, NEW x \in RoomState, SameSeating(x, r),
         x.published = r.published, NEW m \in GameplayMessage
  PROVE  KeepsSeats(BroadcastGameplayMessage(x, m), r)
<1> DEFINE once == PublishToSeat(x, "P1", m)
<1>1. KeepsSeats(x, r)
  BY SameSeatingSeats DEF KeepsSeats, Addressed
<1>2. once \in RoomState /\ KeepsSeats(once, x)
  BY PublishToSeatKeepsGame, PublishToSeatKeepsSeats DEF Assignment
<1> HIDE DEF once
<1>3. KeepsSeats(PublishToSeat(once, "P2", m), once)
  BY <1>2, PublishToSeatKeepsSeats DEF Assignment
<1>4. BroadcastGameplayMessage(x, m) = PublishToSeat(once, "P2", m)
  BY DEF BroadcastGameplayMessage, once
<1>5. KeepsSeats(PublishToSeat(once, "P2", m), x)
  BY <1>2, <1>3, KeepsSeatsTransitive
<1> QED
  BY <1>1, <1>4, <1>5, KeepsSeatsTransitive

LEMMA KeepsSeatsReflexive ==
  ASSUME NEW r
  PROVE  KeepsSeats(r, r)
  BY DEF KeepsSeats, SameSeating

LEMMA GameOverKeepsSeats ==
  ASSUME NEW r \in RoomState, IsFull(r), NEW type \in GameOverType,
         NEW w \in Assignment \cup {NULL}
  PROVE  KeepsSeats(GameOver(r, type, w), r)
<1> DEFINE over == [r EXCEPT !.gameplayState = "OVER"]
           m == [messageType |-> type, gameResult |-> BuildGameResultDTO(r, w)]
<1>1. m \in GameplayMessage
  BY GameResultType DEF GameplayMessage, GameOverMessage
<1>2. /\ over \in RoomState /\ over.published = r.published
      /\ SameSeating(over, r)
  BY DEF RoomState, GameplayState, SameSeating, IsSeated
<1>3. GameOver(r, type, w) = BroadcastGameplayMessage(over, m)
  BY DEF GameOver
<1> HIDE DEF over, m
<1> QED
  BY <1>1, <1>2, <1>3, BroadcastKeepsSeats

LEMMA EveryoneReadyKeepsSeats ==
  ASSUME NEW r \in RoomState
  PROVE  KeepsSeats(HandleEveryoneReady(r), r)
<1> DEFINE started == [r EXCEPT !.gameplayState = "STARTED"]
           m == [messageType |-> "ALL_READY_GAME_STARTING"]
<1>1. m \in GameplayMessage
  BY DEF GameplayMessage, GameStartingMessage, GameStartingType
<1>2. /\ started \in RoomState /\ started.published = r.published
      /\ SameSeating(started, r)
  BY DEF RoomState, GameplayState, SameSeating, IsSeated
<1>3. HandleEveryoneReady(r) \in {r, BroadcastGameplayMessage(started, m)}
  BY DEF HandleEveryoneReady
<1> HIDE DEF started, m
<1> QED
  BY <1>1, <1>2, <1>3, BroadcastKeepsSeats, KeepsSeatsReflexive

LEMMA EveryoneCanPlayKeepsSeats ==
  ASSUME NEW r \in RoomState, NEW input \in GameplayInput
  PROVE  KeepsSeats(HandleEveryoneCanPlay(r, input), r)
<1> DEFINE counting == StartCountdown(r)
           asked == [counting EXCEPT !.gameplayState = "EXPECTING_INPUT",
                                     !.readyForInputAt = GetTimeNow,
                                     !.expectedInput = input]
           m == [messageType |-> "GAME_EXPECTING_INPUT",
                 expectedInput |-> input]
<1>1. m \in GameplayMessage
  BY DEF GameplayMessage, GameExpectingInputMessage
<1>2. GetTimeNow \in Age
  BY ConfigAssumption DEF GetTimeNow, Age
<1>3. /\ counting \in RoomState /\ counting.published = r.published
      /\ counting.players = r.players /\ counting.difficulty = r.difficulty
  BY <1>2 DEF StartCountdown, RoomState
<1>4. HandleEveryoneCanPlay(r, input)
        \in {r, counting, BroadcastGameplayMessage(asked, m)}
  BY DEF HandleEveryoneCanPlay, RequestInput
<1> HIDE DEF counting
<1>5. /\ asked \in RoomState /\ asked.published = r.published
      /\ SameSeating(asked, r)
  BY <1>2, <1>3 DEF RoomState, GameplayState, SameSeating, IsSeated
<1>6. KeepsSeats(counting, r)
  BY <1>3, SameSeatingSeats DEF KeepsSeats, SameSeating, IsSeated, Addressed
<1> HIDE DEF asked, m
<1> QED
  BY <1>1, <1>4, <1>5, <1>6, BroadcastKeepsSeats, KeepsSeatsReflexive

LEMMA OnePlayerPlayedKeepsSeats ==
  ASSUME NEW r, Sound(r)
  PROVE  KeepsSeats(HandleOnePlayerPlayed(r), r)
<1> DEFINE played == IF HasPlayed(r, "P1") THEN "P1" ELSE "P2"
           other == OtherAssignment(played)
           early == GameOver(r, "GAME_OVER_EARLY_INPUT", other)
           wrong == GameOver(r, "GAME_OVER_WRONG_INPUT", other)
           won == GameOver(r, "GAME_OVER_WIN", played)
<1>1. CASE r.gameplayState \in {"STARTED", "EXPECTING_INPUT"}
  <2>1. r \in RoomState /\ IsFull(r)
    BY <1>1 DEF Sound, ValuesAreHeld
  <2>2. played \in Assignment /\ other \in Assignment
    BY OtherSeat DEF Assignment
  <2>3. KeepsSeats(early, r) /\ KeepsSeats(wrong, r) /\ KeepsSeats(won, r)
    <3> HIDE DEF played, other
    <3> QED
      BY <2>1, <2>2, GameOverKeepsSeats DEF GameOverType
  <2>4. HandleOnePlayerPlayed(r) \in {r, early, wrong, won}
    BY DEF HandleOnePlayerPlayed
  <2> HIDE DEF early, wrong, won
  <2> QED
    BY <2>3, <2>4, KeepsSeatsReflexive
<1>2. CASE r.gameplayState \notin {"STARTED", "EXPECTING_INPUT"}
  BY <1>2, KeepsSeatsReflexive DEF HandleOnePlayerPlayed
<1> QED
  BY <1>1, <1>2

LEMMA EveryonePlayedKeepsSeats ==
  ASSUME NEW r \in RoomState
  PROVE  KeepsSeats(HandleEveryonePlayed(r), r)
<1> DEFINE won1 == GameOver(r, "GAME_OVER_WIN", "P1")
           won2 == GameOver(r, "GAME_OVER_WIN", "P2")
           draw == GameOver(r, "GAME_OVER_DRAW", NULL)
<1>1. CASE r.gameplayState = "EXPECTING_INPUT" /\ EveryonePlayed(r)
  <2>1. IsFull(r)
    BY <1>1 DEF EveryonePlayed
  <2>2. KeepsSeats(won1, r) /\ KeepsSeats(won2, r) /\ KeepsSeats(draw, r)
    BY <2>1, GameOverKeepsSeats DEF GameOverType, Assignment
  <2>3. HandleEveryonePlayed(r) \in {won1, won2, draw}
    BY <1>1 DEF HandleEveryonePlayed
  <2> HIDE DEF won1, won2, draw
  <2> QED
    BY <2>2, <2>3
<1>2. CASE ~ (r.gameplayState = "EXPECTING_INPUT" /\ EveryonePlayed(r))
  BY <1>2, KeepsSeatsReflexive DEF HandleEveryonePlayed
<1> QED
  BY <1>1, <1>2

LEMMA TimeoutKeepsSeats ==
  ASSUME NEW r \in RoomState
  PROVE  KeepsSeats(HandleTimeout(r), r)
<1> DEFINE draw == GameOver(r, "GAME_OVER_DRAW", NULL)
<1>1. CASE NoOnePlayed(r)
  <2>1. KeepsSeats(draw, r)
    BY <1>1, GameOverKeepsSeats DEF NoOnePlayed, GameOverType
  <2>2. HandleTimeout(r) \in {r, draw}
    BY DEF HandleTimeout
  <2> HIDE DEF draw
  <2> QED
    BY <2>1, <2>2, KeepsSeatsReflexive
<1>2. CASE ~ NoOnePlayed(r)
  BY <1>2, KeepsSeatsReflexive DEF HandleTimeout
<1> QED
  BY <1>1, <1>2

(* A reset keeps who is in the room. *)
LEMMA ResetKeepsPlayers ==
  ASSUME NEW r \in RoomState
  PROVE  /\ ResetRound(r).published = r.published
         /\ ResetRound(r).gameplayState = r.gameplayState
         /\ SameSeating(ResetRound(r), r)
<1>1. /\ ResetRound(r).players = ResetPlayers(r)
      /\ ResetRound(r).published = r.published
      /\ ResetRound(r).gameplayState = r.gameplayState
      /\ ResetRound(r).difficulty = r.difficulty
  BY DEF ResetRound, RoomState
<1>2. ASSUME NEW a \in Assignment, IsSeated(r, a)
      PROVE  ResetPlayers(r)[a].id = r.players[a].id
  <2>1. ResetPlayers(r)[a] = ResetToReplay(r.players[a])
    BY <1>2 DEF ResetPlayers
  <2>2. ResetToReplay(r.players[a]).id = r.players[a].id
    BY <1>2, SeatedPlayer DEF ResetToReplay, Player
  <2> QED
    BY <2>1, <2>2
<1> QED
  BY <1>1, <1>2, ResetRoundFacts DEF SameSeating

LEMMA ReplayKeepsSeats ==
  ASSUME NEW r \in RoomState
  PROVE  KeepsSeats(HandleReplay(r), r)
<1> DEFINE reset == ResetRound(r)
           again == [reset EXCEPT !.gameplayState = "STARTED"]
           m == [messageType |-> "ALL_REPLAY_READY_GAME_STARTING"]
<1>1. m \in GameplayMessage
  BY DEF GameplayMessage, GameStartingMessage, GameStartingType
<1>2. /\ reset \in RoomState /\ reset.published = r.published
      /\ SameSeating(reset, r)
  BY ResetRoundFacts, ResetKeepsPlayers
<1>3. HandleReplay(r) \in {r, BroadcastGameplayMessage(again, m)}
  BY DEF HandleReplay
<1> HIDE DEF reset
<1>4. /\ again \in RoomState /\ again.published = r.published
      /\ SameSeating(again, r)
  BY <1>2 DEF RoomState, GameplayState, SameSeating, IsSeated
<1> HIDE DEF again, m
<1> QED
  BY <1>1, <1>3, <1>4, BroadcastKeepsSeats, KeepsSeatsReflexive

(* Nobody comes or goes in a tick, and all it says is for the players. *)
LEMMA TickKeepsSeats ==
  ASSUME NEW r, Sound(r), NEW input \in GameplayInput
  PROVE  KeepsSeats(Tick(r, input), r)
<1>1. r \in RoomState /\ r.gameplayState \in GameplayState
  BY DEF Sound, RoomState
<1>2. CASE r.gameplayState = "WAITING_PLAYERS"
  BY <1>1, <1>2, EveryoneReadyKeepsSeats DEF Tick
<1>3. CASE r.gameplayState = "STARTED"
  <2> DEFINE s == HandleEveryoneCanPlay(r, input)
  <2>1. Sound(s) /\ KeepsSeats(s, r)
    BY <1>1, HandleEveryoneCanPlayIsSound, EveryoneCanPlayKeepsSeats
  <2>2. Tick(r, input) = HandleOnePlayerPlayed(s)
    BY <1>3 DEF Tick
  <2> HIDE DEF s
  <2> QED
    BY <2>1, <2>2, OnePlayerPlayedKeepsSeats, KeepsSeatsTransitive
<1>4. CASE r.gameplayState = "EXPECTING_INPUT"
  <2> DEFINE s == HandleOnePlayerPlayed(r)
             t == HandleEveryonePlayed(s)
  <2>1. Sound(s) /\ KeepsSeats(s, r)
    BY HandleOnePlayerPlayedIsSound, OnePlayerPlayedKeepsSeats
  <2>2. Tick(r, input) = HandleTimeout(t)
    BY <1>4 DEF Tick
  <2> HIDE DEF s
  <2>3. Sound(t) /\ KeepsSeats(t, s)
    BY <2>1, HandleEveryonePlayedIsSound, EveryonePlayedKeepsSeats DEF Sound
  <2> HIDE DEF t
  <2>4. KeepsSeats(HandleTimeout(t), t)
    BY <2>3, TimeoutKeepsSeats DEF Sound
  <2> QED
    BY <2>1, <2>2, <2>3, <2>4, KeepsSeatsTransitive
<1>5. CASE r.gameplayState = "OVER"
  BY <1>1, <1>5, ReplayKeepsSeats DEF Tick
<1> QED
  BY <1>1, <1>2, <1>3, <1>4, <1>5 DEF GameplayState

(* What a message other than LEAVE_GAME may change: its player, who may    *)
(* be told of, and whose button changes only if it is an input.            *)
LEMMA PlayerMessageOutcome ==
  ASSUME NEW r \in RoomState, NEW id \in PlayerId, HasPlayerWithId(r, id),
         NEW m \in RoomActionMessage \ LeaveGame
  PROVE  LET a == GetPlayerById(r, id)
             s == HandlePlayerMessage(r, id, m)
         IN \/ m \notin PlayerInput /\ s = r
            \/ \E p \in Player :
                 /\ p.id = r.players[a].id
                 /\ IF m \in PlayerInput
                      THEN p.inputPressed \in GameplayInput
                      ELSE p.inputPressed = r.players[a].inputPressed
                 /\ \/ s = [r EXCEPT !.players[a] = p]
                    \/ \E news \in PlayerReadyStateChangedMessage
                                     \cup PlayerReplayReadyStateChangedMessage :
                         /\ m \notin PlayerInput
                         /\ s = BroadcastGameplayMessage(
                                  [r EXCEPT !.players[a] = p], news)
<1> DEFINE a == GetPlayerById(r, id)
<1>1. a \in Assignment /\ r.players[a] \in Player
  BY FoundPlayer, SeatedPlayer
<1> HIDE DEF a
<1>2. CASE m \in SetReadyState
  <2> DEFINE p == [r.players[a] EXCEPT !.isReady = m.isReady]
             s == [r EXCEPT !.players[a] = p]
             news == [messageType |-> "PLAYER_READY_STATE_CHANGED",
                      playerAssignment |-> a, isReady |-> m.isReady]
  <2>1. /\ m.isReady \in BOOLEAN /\ m.messageType = "SET_READY_STATE"
        /\ m \notin PlayerInput
    BY <1>2 DEF SetReadyState, PlayerInput
  <2>2. p \in Player /\ p.id = r.players[a].id
        /\ p.inputPressed = r.players[a].inputPressed
    BY <1>1, <2>1 DEF Player
  <2>3. news \in PlayerReadyStateChangedMessage
    BY <1>1, <2>1 DEF PlayerReadyStateChangedMessage
  <2>4. s = [r EXCEPT !.players[a].isReady = m.isReady]
    BY <1>1 DEF RoomState, Player
  <2> HIDE DEF s, news
  <2>5. HandlePlayerMessage(r, id, m) \in {r, BroadcastGameplayMessage(s, news)}
    BY <2>1, <2>4
    DEF HandlePlayerMessage, HandlePlayerSetReadyStateMessage, a, news
  <2> HIDE DEF p
  <2> QED
    BY <2>1, <2>2, <2>3, <2>5 DEF s, a
<1>3. CASE m \in NotifyCanPlay
  <2> DEFINE p == [r.players[a] EXCEPT !.canPlay = TRUE]
             s == [r EXCEPT !.players[a] = p]
  <2>1. m.messageType = "NOTIFY_CAN_PLAY" /\ m \notin PlayerInput
    BY <1>3 DEF NotifyCanPlay, PlayerInput
  <2>2. p \in Player /\ p.id = r.players[a].id
        /\ p.inputPressed = r.players[a].inputPressed
    BY <1>1 DEF Player
  <2>3. s = [r EXCEPT !.players[a].canPlay = TRUE]
    BY <1>1 DEF RoomState, Player
  <2> HIDE DEF s
  <2>4. HandlePlayerMessage(r, id, m) = s
    BY <2>1, <2>3 DEF HandlePlayerMessage, HandlePlayerNotifyCanPlayMessage, a
  <2> HIDE DEF p
  <2> QED
    BY <2>1, <2>2, <2>4 DEF s, a
<1>4. CASE m \in PlayerInput
  <2> DEFINE p == [r.players[a] EXCEPT
                     !.inputPressed = m.inputPressed,
                     !.timeToPress = m.timeToPress,
                     !.inputPressedAtServerTime = GetTimeNow]
             s == [r EXCEPT !.players[a] = p]
  <2>1. /\ m.messageType = "PLAYER_INPUT"
        /\ m.inputPressed \in GameplayInput /\ m.timeToPress \in ReactionTime
        /\ GetTimeNow \in Age
    BY <1>4, ConfigAssumption DEF PlayerInput, GetTimeNow, Age
  <2>2. p \in Player /\ p.id = r.players[a].id
        /\ p.inputPressed \in GameplayInput
    BY <1>1, <2>1 DEF Player
  <2>3. s = [r EXCEPT !.players[a].inputPressed = m.inputPressed,
                      !.players[a].timeToPress = m.timeToPress,
                      !.players[a].inputPressedAtServerTime = GetTimeNow]
    BY <1>1 DEF RoomState, Player
  <2> HIDE DEF s
  <2>4. HandlePlayerMessage(r, id, m) = s
    BY <2>1, <2>3 DEF HandlePlayerMessage, HandlePlayerInputMessage, a
  <2> HIDE DEF p
  <2> QED
    BY <1>4, <2>2, <2>4 DEF s, a
<1>5. CASE m \in SetReplayReadyState
  <2> DEFINE p == [r.players[a] EXCEPT !.isReadyToReplay = m.isReadyToReplay]
             s == [r EXCEPT !.players[a] = p]
             news == [messageType |-> "PLAYER_REPLAY_READY_STATE_CHANGED",
                      playerAssignment |-> a,
                      isReadyToReplay |-> m.isReadyToReplay]
  <2>1. m.isReadyToReplay \in BOOLEAN /\ m \notin PlayerInput
        /\ m.messageType = "SET_REPLAY_READY_STATE"
    BY <1>5 DEF SetReplayReadyState, PlayerInput
  <2>2. p \in Player /\ p.id = r.players[a].id
        /\ p.inputPressed = r.players[a].inputPressed
    BY <1>1, <2>1 DEF Player
  <2>3. news \in PlayerReplayReadyStateChangedMessage
    BY <1>1, <2>1 DEF PlayerReplayReadyStateChangedMessage
  <2>4. s = [r EXCEPT !.players[a].isReadyToReplay = m.isReadyToReplay]
    BY <1>1 DEF RoomState, Player
  <2> HIDE DEF s, news
  <2>5. HandlePlayerMessage(r, id, m) = BroadcastGameplayMessage(s, news)
    BY <2>1, <2>4
    DEF HandlePlayerMessage, HandlePlayerSetReplayReadyStateMessage, a, news
  <2> HIDE DEF p
  <2> QED
    BY <2>1, <2>2, <2>3, <2>5 DEF s, a
<1> QED
  BY <1>2, <1>3, <1>4, <1>5 DEF RoomActionMessage

-----------------------------------------------------------------------------
(* Who is in a room after a call *)

(* Only players are in a room, and nobody is in an empty one. *)
LEMMA EmptySeats ==
  ASSUME NEW r \in RoomState
  PROVE  IsEmpty(r) <=> \A id \in PlayerId : ~ HasPlayerWithId(r, id)
<1>1. \A a \in Assignment :
        IsSeated(r, a) => /\ r.players[a].id \in PlayerId
                          /\ HasPlayerWithId(r, r.players[a].id)
  BY SeatedPlayer DEF Player, HasPlayerWithId, SeatsOf
<1>2. \A id \in PlayerId :
        HasPlayerWithId(r, id) => \E a \in Assignment : IsSeated(r, a)
  BY DEF HasPlayerWithId, SeatsOf
<1> QED
  BY <1>1, <1>2 DEF IsEmpty

(* A newcomer takes a free seat, and is told so. *)
LEMMA AddPlayerSeats ==
  ASSUME NEW r, Sound(r), ~ IsFull(r), NEW id \in PlayerId
  PROVE  LET s == AddPlayer(r, id)
         IN /\ s.difficulty = r.difficulty
            /\ \E a \in Assignment : /\ ~ IsSeated(r, a)
                                     /\ SeatsOf(s, id) = SeatsOf(r, id) \cup {a}
            /\ \A other \in PlayerId \ {id} :
                 SeatsOf(s, other) = SeatsOf(r, other)
            /\ Addressed(r) => Addressed(s)
<1> DEFINE a == GetAvailableAssignment(r)
           other == OtherAssignment(a)
           seated == [r EXCEPT !.players[a] = NewPlayer(id)]
           otherDTO == IF IsSeated(r, other) THEN BuildLobbyDTO(r, other)
                                             ELSE NULL
           hello == [messageType |-> "ROOM_JOINED", playerAssignment |-> a,
                     otherPlayer |-> otherDTO]
           joined == Publish(seated, id, hello)
           news == [messageType |-> "PLAYER_JOINED_GAME",
                    player |-> BuildLobbyDTO(seated, a)]
<1>1. r \in RoomState
  BY DEF Sound
<1>2. a \in Assignment /\ ~ IsSeated(r, a)
  BY DEF GetAvailableAssignment, IsFull, Assignment
<1>3. other \in Assignment
  <2> HIDE DEF a
  <2> QED
    BY <1>2, OtherSeat
<1>4. AddPlayer(r, id) = PublishToSeat(joined, other, news)
  BY DEF AddPlayer
<1>5. hello \in GameplayMessage
  <2>1. otherDTO \in PlayerLobbyDTO \cup {NULL}
    <3> HIDE DEF other
    <3> QED
      BY <1>1, <1>3, LobbyDTOType
  <2> HIDE DEF otherDTO, a
  <2> QED
    BY <1>2, <2>1 DEF GameplayMessage, RoomJoinedMessage
<1> HIDE DEF a, other, hello
<1>6. /\ seated \in RoomState
      /\ seated.players[a] = NewPlayer(id)
      /\ \A b \in Assignment \ {a} : seated.players[b] = r.players[b]
      /\ seated.difficulty = r.difficulty
      /\ seated.published = r.published
  BY <1>1, <1>2, NewPlayerType DEF RoomState
<1>7. NewPlayer(id).id = id /\ NewPlayer(id) # NULL
  BY NewPlayerType DEF NewPlayer
<1> HIDE DEF seated
<1>8. /\ SeatsOf(seated, id) = SeatsOf(r, id) \cup {a}
      /\ \A y \in PlayerId \ {id} : SeatsOf(seated, y) = SeatsOf(r, y)
  BY <1>2, <1>6, <1>7 DEF SeatsOf, IsSeated
<1>9. HasPlayerWithId(seated, id)
  BY <1>8 DEF HasPlayerWithId
<1>10. Addressed(r) => Addressed(seated)
  <2> SUFFICES ASSUME Addressed(r), NEW i \in DOMAIN seated.published
               PROVE  HasPlayerWithId(seated, seated.published[i].to)
    BY DEF Addressed
  <2>1. i \in DOMAIN r.published /\ seated.published[i] = r.published[i]
    BY <1>6
  <2>2. HasPlayerWithId(r, r.published[i].to)
    BY <2>1 DEF Addressed
  <2>3. r.published[i].to \in PlayerId
    <3>1. r.published \in Seq(Published)
      BY <1>1 DEF RoomState
    <3>2. r.published[i] \in Published
      BY <2>1, <3>1
    <3> QED
      BY <3>2 DEF Published
  <2> QED
    BY <1>8, <1>9, <2>1, <2>2, <2>3 DEF HasPlayerWithId
<1>11. joined \in RoomState /\ SameGame(joined, seated)
  BY <1>5, <1>6, PublishKeepsGame
<1>12. Addressed(seated) => Addressed(joined)
  BY <1>5, <1>6, <1>9, PublishAddressed
<1>13. SameSeating(joined, seated)
  BY <1>11 DEF SameGame, SameSeating, IsSeated
<1>14. news \in GameplayMessage
  <2>1. IsSeated(seated, a)
    BY <1>6, <1>7 DEF IsSeated
  <2> QED
    BY <1>2, <1>6, <2>1, LobbyDTOType
    DEF GameplayMessage, PlayerJoinedRoomMessage
<1> HIDE DEF joined, news
<1>15. KeepsSeats(AddPlayer(r, id), joined)
  BY <1>3, <1>4, <1>11, <1>14, PublishToSeatKeepsSeats
<1>16. KeepsSeats(joined, seated)
  BY <1>12, <1>13 DEF KeepsSeats
<1>17. KeepsSeats(AddPlayer(r, id), seated)
  BY <1>15, <1>16, KeepsSeatsTransitive
<1> DEFINE s == AddPlayer(r, id)
<1>18. /\ s.difficulty = r.difficulty
       /\ \A y : SeatsOf(s, y) = SeatsOf(seated, y)
       /\ Addressed(r) => Addressed(s)
  BY <1>6, <1>10, <1>17, SameSeatingSeats DEF KeepsSeats, SameSeating
<1> HIDE DEF s
<1> QED
  BY <1>2, <1>8, <1>18 DEF s

(* Whoever leaves frees the seat it was found on, and those who stay are   *)
(* told so.                                                                *)
LEMMA RemovePlayerSeats ==
  ASSUME NEW r, Sound(r), r.published = << >>, NEW id \in PlayerId,
         HasPlayerWithId(r, id)
  PROVE  LET s == RemovePlayer(r, id)
         IN /\ s.difficulty = r.difficulty
            /\ SeatsOf(s, id) = SeatsOf(r, id) \ {GetPlayerById(r, id)}
            /\ \A other \in PlayerId \ {id} :
                 SeatsOf(s, other) = SeatsOf(r, other)
            /\ Addressed(s)
<1> DEFINE a == GetPlayerById(r, id)
           reset == ResetRound(r)
           left == [reset EXCEPT !.players[a] = NULL,
                                 !.gameplayState = "WAITING_PLAYERS"]
           m == [messageType |-> "PLAYER_LEFT_GAME", playerAssignment |-> a]
           s == RemovePlayer(r, id)
<1>1. r \in RoomState
  BY DEF Sound
<1>2. a \in Assignment /\ a \in SeatsOf(r, id)
  BY DEF HasPlayerWithId, GetPlayerById, SeatsOf, Assignment
<1>3. /\ reset \in RoomState /\ reset.published = << >>
      /\ SameSeating(reset, r)
  BY <1>1, ResetRoundFacts, ResetKeepsPlayers
<1>4. s = BroadcastGameplayMessage(left, m)
  BY DEF RemovePlayer
<1> HIDE DEF a, reset, s
<1>5. m \in GameplayMessage
  BY <1>2 DEF GameplayMessage, PlayerLeftRoomMessage
<1>6. /\ left \in RoomState /\ left.published = << >>
      /\ left.difficulty = reset.difficulty
      /\ left.players[a] = NULL
      /\ \A b \in Assignment \ {a} : left.players[b] = reset.players[b]
  BY <1>2, <1>3 DEF RoomState, GameplayState
<1> HIDE DEF left, m
<1>7. /\ SeatsOf(left, id) = SeatsOf(r, id) \ {a}
      /\ \A other \in PlayerId \ {id} : SeatsOf(left, other) = SeatsOf(r, other)
      /\ left.difficulty = r.difficulty
  <2>1. \A b \in Assignment \ {a} : IsSeated(left, b) <=> IsSeated(r, b)
    BY <1>3, <1>6 DEF SameSeating, IsSeated
  <2>2. \A b \in Assignment \ {a} :
          IsSeated(r, b) => left.players[b].id = r.players[b].id
    BY <1>3, <1>6 DEF SameSeating
  <2>3. ~ IsSeated(left, a)
    BY <1>6 DEF IsSeated
  <2>4. \A y : SeatsOf(left, y) = SeatsOf(r, y) \ {a}
    BY <2>1, <2>2, <2>3 DEF SeatsOf
  <2>5. \A other \in PlayerId \ {id} : a \notin SeatsOf(r, other)
    BY <1>2 DEF SeatsOf
  <2>6. left.difficulty = r.difficulty
    BY <1>3, <1>6 DEF SameSeating
  <2> QED
    BY <2>4, <2>5, <2>6
<1>8. KeepsSeats(s, left)
  <2>1. SameSeating(left, left)
    BY KeepsSeatsReflexive DEF KeepsSeats
  <2> QED
    BY <1>4, <1>5, <1>6, <2>1, BroadcastKeepsSeats
<1>9. Addressed(left)
  BY <1>6 DEF Addressed
<1>10. /\ \A y : SeatsOf(s, y) = SeatsOf(left, y)
       /\ s.difficulty = left.difficulty
       /\ Addressed(s)
  BY <1>8, <1>9, SameSeatingSeats DEF KeepsSeats, SameSeating
<1> QED
  BY <1>7, <1>10 DEF a, s

(* A message other than LEAVE_GAME leaves everybody in place, and one from *)
(* somebody who is not in the room does nothing.                           *)
LEMMA PlayerMessageKeepsSeats ==
  ASSUME NEW r, Sound(r), NEW id \in PlayerId,
         NEW m \in RoomActionMessage \ LeaveGame
  PROVE  KeepsSeats(HandlePlayerMessage(r, id, m), r)
<1>1. r \in RoomState
  BY DEF Sound
<1>2. CASE ~ HasPlayerWithId(r, id)
  BY <1>2, KeepsSeatsReflexive DEF HandlePlayerMessage
<1>3. CASE HasPlayerWithId(r, id)
  <2> DEFINE a == GetPlayerById(r, id)
             s == HandlePlayerMessage(r, id, m)
  <2>1. a \in Assignment /\ IsSeated(r, a)
    BY <1>1, <1>3, FoundPlayer
  <2>2. \/ m \notin PlayerInput /\ s = r
        \/ \E p \in Player :
             /\ p.id = r.players[a].id
             /\ IF m \in PlayerInput
                  THEN p.inputPressed \in GameplayInput
                  ELSE p.inputPressed = r.players[a].inputPressed
             /\ \/ s = [r EXCEPT !.players[a] = p]
                \/ \E news \in PlayerReadyStateChangedMessage
                                 \cup PlayerReplayReadyStateChangedMessage :
                     /\ m \notin PlayerInput
                     /\ s = BroadcastGameplayMessage(
                              [r EXCEPT !.players[a] = p], news)
    BY <1>1, <1>3, PlayerMessageOutcome
  <2> HIDE DEF a, s
  <2>3. ASSUME NEW p \in Player, p.id = r.players[a].id
        PROVE  LET t == [r EXCEPT !.players[a] = p]
               IN /\ t \in RoomState /\ t.published = r.published
                  /\ SameSeating(t, r)
    <3> DEFINE t == [r EXCEPT !.players[a] = p]
    <3>1. /\ t \in RoomState /\ t.published = r.published
          /\ t.difficulty = r.difficulty
          /\ t.players[a] = p
          /\ \A b \in Assignment \ {a} : t.players[b] = r.players[b]
      BY <1>1, <2>1 DEF RoomState
    <3>2. p # NULL
      BY NoPlayerAssumption
    <3> HIDE DEF t
    <3>3. SameSeating(t, r)
      BY <2>1, <2>3, <3>1, <3>2 DEF SameSeating, IsSeated
    <3> QED
      BY <3>1, <3>3 DEF t
  <2>4. PlayerReadyStateChangedMessage
          \cup PlayerReplayReadyStateChangedMessage \subseteq GameplayMessage
    BY DEF GameplayMessage
  <2>5. ASSUME NEW p \in Player, p.id = r.players[a].id,
               \/ s = [r EXCEPT !.players[a] = p]
               \/ \E news \in GameplayMessage :
                    s = BroadcastGameplayMessage([r EXCEPT !.players[a] = p],
                                                 news)
        PROVE  KeepsSeats(s, r)
    <3> DEFINE t == [r EXCEPT !.players[a] = p]
    <3>1. t \in RoomState /\ t.published = r.published /\ SameSeating(t, r)
      BY <2>3, <2>5
    <3>2. s = t \/ \E news \in GameplayMessage :
                     s = BroadcastGameplayMessage(t, news)
      BY <2>5
    <3> HIDE DEF t
    <3>3. KeepsSeats(t, r)
      BY <3>1, SameSeatingSeats DEF KeepsSeats, Addressed
    <3> QED
      BY <3>1, <3>2, <3>3, BroadcastKeepsSeats
  <2>6. \/ s = r
        \/ \E p \in Player :
             /\ p.id = r.players[a].id
             /\ \/ s = [r EXCEPT !.players[a] = p]
                \/ \E news \in GameplayMessage :
                     s = BroadcastGameplayMessage([r EXCEPT !.players[a] = p],
                                                  news)
    BY <2>2, <2>4
  <2>7. s = r => KeepsSeats(s, r)
    BY KeepsSeatsReflexive
  <2> QED
    BY <2>5, <2>6, <2>7 DEF s
<1> QED
  BY <1>2, <1>3

(* JOIN_GAME and LEAVE_GAME in a room: the first is not for it. *)
LEMMA RoomMessages ==
  ASSUME NEW r, NEW id \in PlayerId, NEW m \in PlayerActionMessage
  PROVE  /\ ~ HasPlayerWithId(r, id) => HandlePlayerMessage(r, id, m) = r
         /\ m \in JoinGame => HandlePlayerMessage(r, id, m) = r
         /\ m \in LeaveGame =>
              HandlePlayerMessage(r, id, m) = RemovePlayer(r, id)
  BY DEF HandlePlayerMessage, JoinGame, LeaveGame, RemovePlayer

-----------------------------------------------------------------------------
(* What the players of a room are shown *)

(* What a client that showed view shows after what the room published. *)
SeenAfter(r, id, view) == ViewAfter(view, MessagesFor(id, r.published))

Tells(m) == m.messageType \in TellingType

(* A set of naturals with a bound has a largest element. *)
LEMMA LargestNatural ==
  ASSUME NEW S \in SUBSET Nat, S # {}, NEW bound \in Nat,
         \A x \in S : x <= bound
  PROVE  Max(S) \in S /\ \A x \in S : Max(S) >= x
<1> DEFINE T == {bound - x : x \in S}
           R == OpToRel(<, Nat)
<1>1. \A x \in S : bound - x \in Nat /\ bound - x \in T
  OBVIOUS
<1>2. \A y \in T : \E x \in S : y = bound - x
  OBVIOUS
<1>3. IsWellFoundedOn(R, Nat)
  BY NatLessThanWellFounded
<1> HIDE DEF T, R
<1>4. T \subseteq Nat /\ T # {}
  BY <1>1, <1>2
<1>5. PICK least \in T : \A y \in T : ~ <<y, least>> \in R
  BY <1>3, <1>4, WFMin
<1>6. \A y \in T : ~ y < least
  BY <1>4, <1>5 DEF R, OpToRel
<1>7. PICK x \in S : least = bound - x
  BY <1>2
<1>8. \A y \in S : x >= y
  <2> TAKE y \in S
  <2>1. ~ bound - y < least
    BY <1>1, <1>6
  <2> QED
    BY <1>7, <2>1
<1> QED
  BY <1>8 DEF Max

LEMMA MaxIs ==
  ASSUME NEW S \in SUBSET Nat, NEW x \in S, \A y \in S : y <= x
  PROVE  Max(S) = x
<1>1. \E z \in S : \A y \in S : z >= y
  OBVIOUS
<1> DEFINE max == Max(S)
<1>2. max \in S /\ \A y \in S : max >= y
  BY <1>1 DEF Max
<1> HIDE DEF max
<1>3. max = x
  BY <1>2
<1> QED
  BY <1>3 DEF max

(* A message that tells something says all of it. *)
LEMMA AfterOne ==
  ASSUME NEW m
  PROVE  /\ Tells(m) => \A v, w : After(v, m) = After(w, m)
         /\ ~ Tells(m) => \A v : After(v, m) = v
  BY DEF Tells, After, TellingType, GameStartingType, GameOverType

LEMMA LastTellingMessage ==
  ASSUME NEW messages, DOMAIN messages \subseteq Nat, NEW view,
         NEW n \in DOMAIN messages, Tells(messages[n]),
         \A k \in DOMAIN messages : k > n => ~ Tells(messages[k])
  PROVE  ViewAfter(view, messages) = After(view, messages[n])
<1> DEFINE telling == {k \in DOMAIN messages :
                         messages[k].messageType \in TellingType}
<1>1. telling \in SUBSET Nat /\ n \in telling
  BY DEF Tells
<1>2. \A k \in telling : k <= n
  BY DEF Tells
<1>3. ViewAfter(view, messages)
        = IF telling = {} THEN view ELSE After(view, messages[Max(telling)])
  BY DEF ViewAfter
<1> HIDE DEF telling
<1>4. Max(telling) = n
  BY <1>1, <1>2, MaxIs
<1> QED
  BY <1>1, <1>3, <1>4

LEMMA NoTellingMessage ==
  ASSUME NEW messages, NEW view, \A k \in DOMAIN messages : ~ Tells(messages[k])
  PROVE  ViewAfter(view, messages) = view
  BY DEF ViewAfter, Tells

LEMMA TellingCases ==
  ASSUME NEW messages, DOMAIN messages \subseteq Nat, NEW bound \in Nat,
         \A k \in DOMAIN messages : k <= bound
  PROVE  \/ \A k \in DOMAIN messages : ~ Tells(messages[k])
         \/ \E n \in DOMAIN messages :
              /\ Tells(messages[n])
              /\ \A k \in DOMAIN messages : k > n => ~ Tells(messages[k])
<1> DEFINE telling == {k \in DOMAIN messages : Tells(messages[k])}
<1> SUFFICES ASSUME telling # {}
             PROVE  \E n \in telling : \A k \in telling : ~ k > n
  OBVIOUS
<1>1. telling \in SUBSET Nat /\ \A k \in telling : k <= bound
  OBVIOUS
<1> HIDE DEF telling
<1>2. \E n \in telling : \A k \in telling : n >= k
  BY <1>1, LargestNatural
<1> QED
  BY <1>1, <1>2

(* h is the messages of f, at places up to bound, and then those of g. *)
InTwo(h, f, g, bound) ==
  /\ bound \in Nat
  /\ \A k \in DOMAIN f : k \in Nat /\ k <= bound
  /\ \A k \in DOMAIN g : k \in Nat /\ 1 <= k
  /\ \E end \in Nat : \A k \in DOMAIN g : k <= end
  /\ DOMAIN h = DOMAIN f \cup {bound + k : k \in DOMAIN g}
  /\ \A k \in DOMAIN f : h[k] = f[k]
  /\ \A k \in DOMAIN g : h[bound + k] = g[k]

LEMMA ViewInTwo ==
  ASSUME NEW f, NEW g, NEW h, NEW bound, InTwo(h, f, g, bound), NEW view
  PROVE  ViewAfter(view, h) = ViewAfter(ViewAfter(view, f), g)
<1> USE DEF InTwo
<1>1. DOMAIN f \subseteq Nat /\ DOMAIN g \subseteq Nat /\ DOMAIN h \subseteq Nat
  OBVIOUS
<1>2. \A k \in DOMAIN h :
        \/ k \in DOMAIN f /\ h[k] = f[k]
        \/ \E j \in DOMAIN g : k = bound + j /\ h[k] = g[j]
  OBVIOUS
<1>3. CASE \A k \in DOMAIN g : ~ Tells(g[k])
  <2>1. ViewAfter(ViewAfter(view, f), g) = ViewAfter(view, f)
    BY <1>3, NoTellingMessage
  <2>2. CASE \A k \in DOMAIN f : ~ Tells(f[k])
    <3>1. \A k \in DOMAIN h : ~ Tells(h[k])
      BY <1>2, <1>3, <2>2
    <3> QED
      BY <2>1, <2>2, <3>1, NoTellingMessage
  <2>3. ASSUME NEW n \in DOMAIN f, Tells(f[n]),
               \A k \in DOMAIN f : k > n => ~ Tells(f[k])
        PROVE  ViewAfter(view, h) = ViewAfter(view, f)
    <3>1. n \in DOMAIN h /\ h[n] = f[n] /\ Tells(h[n])
      BY <2>3
    <3>2. \A k \in DOMAIN h : k > n => ~ Tells(h[k])
      BY <1>2, <1>3, <2>3
    <3> QED
      BY <1>1, <2>3, <3>1, <3>2, LastTellingMessage
  <2> QED
    BY <1>1, <2>1, <2>2, <2>3, TellingCases
<1>4. ASSUME NEW n \in DOMAIN g, Tells(g[n]),
             \A k \in DOMAIN g : k > n => ~ Tells(g[k])
      PROVE  ViewAfter(view, h) = ViewAfter(ViewAfter(view, f), g)
  <2> DEFINE last == bound + n
  <2>1. last \in DOMAIN h /\ h[last] = g[n] /\ Tells(h[last])
    BY <1>4
  <2>2. ASSUME NEW k \in DOMAIN h, k > last
        PROVE  ~ Tells(h[k])
    <3>1. k \notin DOMAIN f
      BY <2>2
    <3>2. PICK j \in DOMAIN g : k = bound + j /\ h[k] = g[j]
      BY <1>2, <3>1
    <3>3. j > n
      BY <2>2, <3>2
    <3> QED
      BY <1>4, <3>2, <3>3
  <2>3. ViewAfter(view, h) = After(view, g[n])
    <3> HIDE DEF last
    <3> QED
      BY <1>1, <2>1, <2>2, LastTellingMessage
  <2>4. ViewAfter(ViewAfter(view, f), g) = After(ViewAfter(view, f), g[n])
    BY <1>1, <1>4, LastTellingMessage
  <2> QED
    BY <1>4, <2>3, <2>4, AfterOne
<1> QED
  BY <1>1, <1>3, <1>4, TellingCases

(* One message. *)
LEMMA ViewOfOne ==
  ASSUME NEW m, NEW view
  PROVE  ViewAfter(view, <<m>>) = After(view, m)
<1>1. DOMAIN <<m>> = {1} /\ <<m>>[1] = m
  OBVIOUS
<1>2. CASE Tells(m)
  BY <1>1, <1>2, LastTellingMessage
<1>3. CASE ~ Tells(m)
  BY <1>1, <1>3, NoTellingMessage, AfterOne
<1> QED
  BY <1>2, <1>3

(* One message more in the queue. *)
LEMMA ViewOfAppended ==
  ASSUME NEW queue \in Seq(GameplayMessage), NEW m \in GameplayMessage, NEW view
  PROVE  ViewAfter(view, Append(queue, m)) = After(ViewAfter(view, queue), m)
<1> DEFINE h == Append(queue, m)
           one == <<m>>
<1>1. /\ Len(queue) \in Nat /\ DOMAIN queue = 1..Len(queue)
      /\ DOMAIN h = 1..(Len(queue) + 1)
      /\ \A k \in DOMAIN queue : h[k] = queue[k]
      /\ h[Len(queue) + 1] = m
      /\ DOMAIN one = {1} /\ one[1] = m
  OBVIOUS
<1>2. ViewAfter(ViewAfter(view, queue), one) = After(ViewAfter(view, queue), m)
  BY ViewOfOne
<1> HIDE DEF h, one
<1>3. DOMAIN h = DOMAIN queue \cup {Len(queue) + k : k \in DOMAIN one}
  BY <1>1
<1>4. /\ \A k \in DOMAIN queue : k \in Nat /\ k <= Len(queue)
      /\ \A k \in DOMAIN one : k \in Nat /\ 1 <= k
      /\ \E end \in Nat : \A k \in DOMAIN one : k <= end
      /\ \A k \in DOMAIN one : h[Len(queue) + k] = one[k]
  BY <1>1
<1>5. Len(queue) \in Nat /\ 1 \in Nat /\ \A k \in DOMAIN queue : h[k] = queue[k]
  BY <1>1
<1>6. InTwo(h, queue, one, Len(queue))
  BY <1>3, <1>4, <1>5 DEF InTwo
<1>7. ViewAfter(view, h) = ViewAfter(ViewAfter(view, queue), one)
  BY <1>6, ViewInTwo
<1> QED
  BY <1>2, <1>7 DEF h

(* The first message leaves the queue, and is shown. *)
LEMMA ViewOfPopped ==
  ASSUME NEW queue \in Seq(GameplayMessage), queue # << >>, NEW view
  PROVE  ViewAfter(After(view, Head(queue)), Tail(queue)) = ViewAfter(view, queue)
<1> DEFINE one == <<Head(queue)>>
           rest == Tail(queue)
<1>1. /\ Len(queue) \in Nat \ {0} /\ DOMAIN queue = 1..Len(queue)
      /\ DOMAIN rest = 1..(Len(queue) - 1)
      /\ \A k \in DOMAIN rest : queue[1 + k] = rest[k]
      /\ DOMAIN one = {1} /\ one[1] = queue[1]
  OBVIOUS
<1>2. ViewAfter(view, one) = After(view, Head(queue))
  BY ViewOfOne
<1> HIDE DEF one, rest
<1>3. DOMAIN queue = DOMAIN one \cup {1 + k : k \in DOMAIN rest}
  <2>1. \A k \in DOMAIN queue : k = 1 \/ (k - 1 \in DOMAIN rest /\ k = 1 + (k - 1))
    BY <1>1
  <2>2. \A k \in DOMAIN rest : 1 + k \in DOMAIN queue
    BY <1>1
  <2>3. 1 \in DOMAIN queue
    BY <1>1
  <2> QED
    BY <1>1, <2>1, <2>2, <2>3
<1>4. /\ \A k \in DOMAIN one : k \in Nat /\ k <= 1
      /\ \A k \in DOMAIN rest : k \in Nat /\ 1 <= k
      /\ \E end \in Nat : \A k \in DOMAIN rest : k <= end
      /\ \A k \in DOMAIN one : queue[k] = one[k]
      /\ \A k \in DOMAIN rest : queue[1 + k] = rest[k]
  BY <1>1
<1>5. Len(queue) \in Nat /\ 1 \in Nat
  BY <1>1
<1>6. InTwo(queue, one, rest, 1)
  BY <1>3, <1>4, <1>5 DEF InTwo
<1>7. ViewAfter(view, queue) = ViewAfter(ViewAfter(view, one), rest)
  BY <1>6, ViewInTwo
<1> QED
  BY <1>2, <1>7 DEF rest

(* One queue after another, both of messages to whomever. *)
LEMMA ViewOfJoined ==
  ASSUME NEW p \in Seq(Published), NEW q \in Seq(Published), NEW id, NEW view
  PROVE  ViewAfter(view, MessagesFor(id, p \o q))
           = ViewAfter(ViewAfter(view, MessagesFor(id, p)), MessagesFor(id, q))
<1> DEFINE f == MessagesFor(id, p)
           g == MessagesFor(id, q)
           h == MessagesFor(id, p \o q)
           all == p \o q
<1>1. /\ Len(p) \in Nat /\ DOMAIN p = 1..Len(p)
      /\ Len(q) \in Nat /\ DOMAIN q = 1..Len(q)
      /\ DOMAIN all = 1..(Len(p) + Len(q))
      /\ \A k \in DOMAIN p : all[k] = p[k]
      /\ \A k \in DOMAIN q : all[Len(p) + k] = q[k]
  OBVIOUS
<1>2. /\ DOMAIN f = {k \in DOMAIN p : p[k].to = id}
      /\ DOMAIN g = {k \in DOMAIN q : q[k].to = id}
      /\ DOMAIN h = {k \in DOMAIN all : all[k].to = id}
      /\ \A k \in DOMAIN f : f[k] = p[k].message
      /\ \A k \in DOMAIN g : g[k] = q[k].message
      /\ \A k \in DOMAIN h : h[k] = all[k].message
  BY DEF MessagesFor
<1> HIDE DEF f, g, h, all
<1>3. \A k \in DOMAIN all :
        \/ k \in DOMAIN p
        \/ k - Len(p) \in DOMAIN q /\ k = Len(p) + (k - Len(p))
  BY <1>1
<1>4. DOMAIN h = DOMAIN f \cup {Len(p) + k : k \in DOMAIN g}
  <2>1. \A k \in DOMAIN h : k \in DOMAIN f \/ \E j \in DOMAIN g : k = Len(p) + j
    BY <1>1, <1>2, <1>3
  <2>2. \A k \in DOMAIN f : k \in DOMAIN h
    BY <1>1, <1>2
  <2>3. \A k \in DOMAIN g : Len(p) + k \in DOMAIN h
    BY <1>1, <1>2
  <2> QED
    BY <2>1, <2>2, <2>3
<1>5. /\ \A k \in DOMAIN f : h[k] = f[k]
      /\ \A k \in DOMAIN g : h[Len(p) + k] = g[k]
  BY <1>1, <1>2, <1>4, ZenonT(40)
<1>6. /\ \A k \in DOMAIN f : k \in Nat /\ k <= Len(p)
      /\ \A k \in DOMAIN g : k \in Nat /\ 1 <= k
      /\ \E end \in Nat : \A k \in DOMAIN g : k <= end
      /\ Len(p) \in Nat /\ Len(q) \in Nat
  BY <1>1, <1>2
<1>7. InTwo(h, f, g, Len(p))
  BY <1>4, <1>5, <1>6 DEF InTwo
<1>8. ViewAfter(view, h) = ViewAfter(ViewAfter(view, f), g)
  BY <1>7, ViewInTwo
<1> QED
  BY <1>8 DEF f, g, h, all

(* Nothing is shown to whom nothing is published. *)
LEMMA NothingIsSeen ==
  ASSUME NEW published, NEW id, NEW view,
         \A i \in DOMAIN published : published[i].to # id
  PROVE  ViewAfter(view, MessagesFor(id, published)) = view
<1>1. DOMAIN MessagesFor(id, published) = {}
  BY DEF MessagesFor
<1> QED
  BY <1>1, NoTellingMessage

(* One message to whomever. *)
LEMMA ViewOfEnvelope ==
  ASSUME NEW e, NEW id, NEW view
  PROVE  ViewAfter(view, MessagesFor(id, <<e>>))
           = IF e.to = id THEN After(view, e.message) ELSE view
<1> DEFINE one == <<e>>
<1>1. DOMAIN one = {1} /\ one[1] = e
  OBVIOUS
<1> HIDE DEF one
<1>2. CASE e.to = id
  <2> DEFINE messages == MessagesFor(id, one)
  <2>1. DOMAIN messages = {1} /\ messages[1] = e.message
    BY <1>1, <1>2 DEF MessagesFor
  <2> HIDE DEF messages
  <2>2. ViewAfter(view, messages) = After(view, e.message)
    <3>1. CASE Tells(e.message)
      BY <2>1, <3>1, LastTellingMessage
    <3>2. CASE ~ Tells(e.message)
      BY <2>1, <3>2, NoTellingMessage, AfterOne
    <3> QED
      BY <3>1, <3>2
  <2> QED
    BY <1>2, <2>2 DEF messages, one
<1>3. CASE e.to # id
  <2>1. ViewAfter(view, MessagesFor(id, one)) = view
    BY <1>1, <1>3, NothingIsSeen
  <2> QED
    BY <1>3, <2>1 DEF one
<1> QED
  BY <1>2, <1>3

(* Only a message that tells its addressee something is seen by it. *)
LEMMA PublishIsSeen ==
  ASSUME NEW r \in RoomState, NEW to \in PlayerId, NEW m \in GameplayMessage,
         NEW id, NEW view
  PROVE  SeenAfter(Publish(r, to, m), id, view)
           = IF to = id /\ m.messageType \in TellingType
               THEN After(view, m) ELSE SeenAfter(r, id, view)
<1> DEFINE e == [to |-> to, message |-> m]
           seen == SeenAfter(r, id, view)
<1>1. /\ r.published \in Seq(Published) /\ e \in Published /\ <<e>> \in Seq(Published)
      /\ e.to = to /\ e.message = m
  BY DEF RoomState, Published
<1> HIDE DEF e
<1>2. Publish(r, to, m).published = r.published \o <<e>>
  BY <1>1 DEF Publish, RoomState, e
<1>3. SeenAfter(Publish(r, to, m), id, view)
        = ViewAfter(seen, MessagesFor(id, <<e>>))
  <2> DEFINE p == r.published
             q == <<e>>
  <2>1. p \in Seq(Published) /\ q \in Seq(Published)
    BY <1>1
  <2> HIDE DEF p, q
  <2>2. ViewAfter(view, MessagesFor(id, p \o q))
          = ViewAfter(ViewAfter(view, MessagesFor(id, p)), MessagesFor(id, q))
    BY <2>1, ViewOfJoined
  <2> QED
    BY <1>2, <2>2 DEF SeenAfter, p, q
<1> HIDE DEF seen
<1>4. SeenAfter(Publish(r, to, m), id, view)
        = IF to = id THEN After(seen, m) ELSE seen
  BY <1>1, <1>3, ViewOfEnvelope
<1>5. CASE Tells(m)
  <2>1. After(seen, m) = After(view, m)
    BY <1>5, AfterOne
  <2> QED
    BY <1>4, <1>5, <2>1 DEF seen, Tells
<1>6. CASE ~ Tells(m)
  BY <1>4, <1>6, AfterOne DEF seen, Tells
<1> QED
  BY <1>5, <1>6

LEMMA BroadcastIsSeen ==
  ASSUME NEW r \in RoomState, NEW m \in GameplayMessage,
         NEW a \in Assignment, IsSeated(r, a), NEW view
  PROVE  LET id == r.players[a].id
         IN SeenAfter(BroadcastGameplayMessage(r, m), id, view)
              = IF m.messageType \in TellingType
                  THEN After(view, m) ELSE SeenAfter(r, id, view)
<1> DEFINE id == r.players[a].id
           once == PublishToSeat(r, "P1", m)
<1>1. ASSUME NEW s \in RoomState, SameGame(s, r), NEW b \in Assignment
      PROVE  /\ SeenAfter(PublishToSeat(s, b, m), id, view)
                  \in {SeenAfter(s, id, view),
                       IF m.messageType \in TellingType
                         THEN After(view, m) ELSE SeenAfter(s, id, view)}
             /\ b = a => SeenAfter(PublishToSeat(s, b, m), id, view)
                           = IF m.messageType \in TellingType
                               THEN After(view, m) ELSE SeenAfter(s, id, view)
  <2>1. CASE IsSeated(s, b)
    <3>1. s.players[b].id \in PlayerId
      BY <1>1, <2>1, SeatedPlayer DEF Player
    <3>2. s.players[a].id = id
      BY <1>1 DEF SameGame
    <3> HIDE DEF id
    <3> QED
      BY <2>1, <3>1, <3>2, PublishIsSeen DEF PublishToSeat
  <2>2. CASE ~ IsSeated(s, b)
    <3>1. PublishToSeat(s, b, m) = s /\ b # a
      BY <1>1, <2>2 DEF PublishToSeat, SameGame, IsSeated
    <3> QED
      BY <3>1
  <2> QED
    BY <2>1, <2>2
<1> HIDE DEF id
<1>2. SameGame(r, r)
  BY DEF SameGame
<1>3. once \in RoomState /\ SameGame(once, r)
  BY PublishToSeatKeepsGame DEF Assignment
<1>4. BroadcastGameplayMessage(r, m) = PublishToSeat(once, "P2", m)
  BY DEF BroadcastGameplayMessage
<1>5. /\ SeenAfter(once, id, view)
           \in {SeenAfter(r, id, view),
                IF m.messageType \in TellingType
                  THEN After(view, m) ELSE SeenAfter(r, id, view)}
      /\ "P1" = a => SeenAfter(once, id, view)
                       = IF m.messageType \in TellingType
                           THEN After(view, m) ELSE SeenAfter(r, id, view)
  BY <1>1, <1>2 DEF Assignment
<1> HIDE DEF once
<1>6. /\ SeenAfter(PublishToSeat(once, "P2", m), id, view)
           \in {SeenAfter(once, id, view),
                IF m.messageType \in TellingType
                  THEN After(view, m) ELSE SeenAfter(once, id, view)}
      /\ "P2" = a => SeenAfter(PublishToSeat(once, "P2", m), id, view)
                       = IF m.messageType \in TellingType
                           THEN After(view, m) ELSE SeenAfter(once, id, view)
  BY <1>1, <1>3 DEF Assignment
<1> QED
  BY <1>4, <1>5, <1>6 DEF Assignment, id

(* What a message says of the state of the room, to whoever is told it. *)
LEMMA PhaseTold ==
  ASSUME NEW m
  PROVE  LET type == m.messageType
         IN /\ type \in {"ROOM_JOINED", "PLAYER_LEFT_GAME"} =>
                 Tells(m) /\ \A v : After(v, m).phase = "WAITING_PLAYERS"
            /\ type \in GameStartingType =>
                 Tells(m) /\ \A v : After(v, m).phase = "STARTED"
            /\ type = "GAME_EXPECTING_INPUT" =>
                 Tells(m) /\ \A v : After(v, m).phase = "EXPECTING_INPUT"
            /\ type \in GameOverType =>
                 Tells(m) /\ \A v : After(v, m).phase = "OVER"
            /\ type \in {"PLAYER_JOINED_GAME", "PLAYER_READY_STATE_CHANGED",
                         "PLAYER_REPLAY_READY_STATE_CHANGED"} => ~ Tells(m)
  BY DEF Tells, After, Shows, TellingType, GameStartingType, GameOverType

(* A client that showed view shows the state the room is in. *)
Sees(r, id, view) == SeenAfter(r, id, view).phase = r.gameplayState

(* Whoever is in the room after a handler sees its state, if it did before *)
(* or has just come in.                                                    *)
KeepsSight(s, r) ==
  \A id \in PlayerId :
    HasPlayerWithId(s, id) =>
      \A view :
        (HasPlayerWithId(r, id) => Sees(r, id, view)) => Sees(s, id, view)

LEMMA KeepsSightTransitive ==
  ASSUME NEW r, NEW s, NEW t, KeepsSight(s, r), KeepsSight(t, s)
  PROVE  KeepsSight(t, r)
  BY DEF KeepsSight

LEMMA KeepsSightReflexive ==
  ASSUME NEW r
  PROVE  KeepsSight(r, r)
  BY DEF KeepsSight

(* A handler that publishes nothing and leaves the state as it is. *)
LEMMA SilenceKeepsSight ==
  ASSUME NEW r, NEW x, SameSeating(x, r), x.published = r.published,
         x.gameplayState = r.gameplayState
  PROVE  KeepsSight(x, r)
  BY SameSeatingSeats DEF KeepsSight, Sees, SeenAfter

(* A broadcast by r as x: of its state, or of what does not change it. *)
LEMMA BroadcastKeepsSight ==
  ASSUME NEW r, NEW x \in RoomState, x.published = r.published,
         NEW m \in GameplayMessage,
         \/ Tells(m) /\ \A v : After(v, m).phase = x.gameplayState
         \/ /\ ~ Tells(m)
            /\ x.gameplayState = r.gameplayState
            /\ SameSeating(x, r)
  PROVE  KeepsSight(BroadcastGameplayMessage(x, m), r)
<1> DEFINE s == BroadcastGameplayMessage(x, m)
<1>1. SameGame(s, x)
  BY BroadcastKeepsGame
<1>2. \A a \in Assignment : \A view :
        IsSeated(x, a) =>
          SeenAfter(s, x.players[a].id, view)
            = IF Tells(m) THEN After(view, m)
                          ELSE SeenAfter(x, x.players[a].id, view)
  BY BroadcastIsSeen DEF Tells
<1> HIDE DEF s
<1>3. /\ s.gameplayState = x.gameplayState
      /\ \A id : SeatsOf(s, id) = SeatsOf(x, id)
  BY <1>1 DEF SameGame, SeatsOf, IsSeated
<1> SUFFICES ASSUME NEW id \in PlayerId, HasPlayerWithId(s, id), NEW view,
                    HasPlayerWithId(r, id) => Sees(r, id, view)
             PROVE  Sees(s, id, view)
  BY DEF KeepsSight, s
<1>4. PICK a \in Assignment : IsSeated(x, a) /\ x.players[a].id = id
  BY <1>3 DEF HasPlayerWithId, SeatsOf
<1>5. SeenAfter(s, id, view) = IF Tells(m) THEN After(view, m)
                                           ELSE SeenAfter(x, id, view)
  BY <1>2, <1>4
<1>6. CASE Tells(m)
  BY <1>3, <1>5, <1>6 DEF Sees
<1>7. CASE ~ Tells(m)
  <2>1. HasPlayerWithId(x, id)
    BY <1>3 DEF HasPlayerWithId
  <2>2. HasPlayerWithId(r, id)
    BY <1>7, <2>1, SameSeatingSeats
  <2>3. SeenAfter(x, id, view) = SeenAfter(r, id, view)
    BY DEF SeenAfter
  <2> QED
    BY <1>3, <1>5, <1>7, <2>2, <2>3 DEF Sees
<1> QED
  BY <1>6, <1>7

LEMMA GameOverKeepsSight ==
  ASSUME NEW r \in RoomState, IsFull(r), NEW type \in GameOverType,
         NEW w \in Assignment \cup {NULL}
  PROVE  KeepsSight(GameOver(r, type, w), r)
<1> DEFINE over == [r EXCEPT !.gameplayState = "OVER"]
           m == [messageType |-> type, gameResult |-> BuildGameResultDTO(r, w)]
<1>1. m \in GameplayMessage /\ m.messageType = type
  BY GameResultType DEF GameplayMessage, GameOverMessage
<1>2. /\ over \in RoomState /\ over.published = r.published
      /\ over.gameplayState = "OVER"
  BY DEF RoomState, GameplayState
<1>3. GameOver(r, type, w) = BroadcastGameplayMessage(over, m)
  BY DEF GameOver
<1> HIDE DEF over, m
<1>4. Tells(m) /\ \A v : After(v, m).phase = over.gameplayState
  BY <1>1, <1>2, PhaseTold
<1> QED
  BY <1>1, <1>2, <1>3, <1>4, BroadcastKeepsSight

LEMMA EveryoneReadyKeepsSight ==
  ASSUME NEW r \in RoomState
  PROVE  KeepsSight(HandleEveryoneReady(r), r)
<1> DEFINE started == [r EXCEPT !.gameplayState = "STARTED"]
           m == [messageType |-> "ALL_READY_GAME_STARTING"]
<1>1. m \in GameplayMessage /\ m.messageType \in GameStartingType
  BY DEF GameplayMessage, GameStartingMessage, GameStartingType
<1>2. /\ started \in RoomState /\ started.published = r.published
      /\ started.gameplayState = "STARTED"
  BY DEF RoomState, GameplayState
<1>3. HandleEveryoneReady(r) \in {r, BroadcastGameplayMessage(started, m)}
  BY DEF HandleEveryoneReady
<1> HIDE DEF started, m
<1>4. Tells(m) /\ \A v : After(v, m).phase = started.gameplayState
  BY <1>1, <1>2, PhaseTold
<1>5. KeepsSight(BroadcastGameplayMessage(started, m), r)
  BY <1>1, <1>2, <1>4, BroadcastKeepsSight
<1> QED
  BY <1>3, <1>5, KeepsSightReflexive

LEMMA EveryoneCanPlayKeepsSight ==
  ASSUME NEW r \in RoomState, NEW input \in GameplayInput
  PROVE  KeepsSight(HandleEveryoneCanPlay(r, input), r)
<1> DEFINE counting == StartCountdown(r)
           asked == [counting EXCEPT !.gameplayState = "EXPECTING_INPUT",
                                     !.readyForInputAt = GetTimeNow,
                                     !.expectedInput = input]
           m == [messageType |-> "GAME_EXPECTING_INPUT",
                 expectedInput |-> input]
<1>1. m \in GameplayMessage /\ m.messageType = "GAME_EXPECTING_INPUT"
  BY DEF GameplayMessage, GameExpectingInputMessage
<1>2. GetTimeNow \in Age
  BY ConfigAssumption DEF GetTimeNow, Age
<1>3. /\ counting \in RoomState /\ counting.published = r.published
      /\ counting.players = r.players /\ counting.difficulty = r.difficulty
      /\ counting.gameplayState = r.gameplayState
  BY <1>2 DEF StartCountdown, RoomState
<1>4. HandleEveryoneCanPlay(r, input)
        \in {r, counting, BroadcastGameplayMessage(asked, m)}
  BY DEF HandleEveryoneCanPlay, RequestInput
<1> HIDE DEF counting
<1>5. /\ asked \in RoomState /\ asked.published = r.published
      /\ asked.gameplayState = "EXPECTING_INPUT"
  BY <1>2, <1>3 DEF RoomState, GameplayState
<1>6. KeepsSight(counting, r)
  BY <1>3, SilenceKeepsSight DEF SameSeating, IsSeated
<1> HIDE DEF asked, m
<1>7. Tells(m) /\ \A v : After(v, m).phase = asked.gameplayState
  BY <1>1, <1>5, PhaseTold
<1>8. KeepsSight(BroadcastGameplayMessage(asked, m), r)
  BY <1>1, <1>5, <1>7, BroadcastKeepsSight
<1> QED
  BY <1>4, <1>6, <1>8, KeepsSightReflexive

LEMMA OnePlayerPlayedKeepsSight ==
  ASSUME NEW r, Sound(r)
  PROVE  KeepsSight(HandleOnePlayerPlayed(r), r)
<1> DEFINE played == IF HasPlayed(r, "P1") THEN "P1" ELSE "P2"
           other == OtherAssignment(played)
           early == GameOver(r, "GAME_OVER_EARLY_INPUT", other)
           wrong == GameOver(r, "GAME_OVER_WRONG_INPUT", other)
           won == GameOver(r, "GAME_OVER_WIN", played)
<1>1. CASE r.gameplayState \in {"STARTED", "EXPECTING_INPUT"}
  <2>1. r \in RoomState /\ IsFull(r)
    BY <1>1 DEF Sound, ValuesAreHeld
  <2>2. played \in Assignment /\ other \in Assignment
    BY OtherSeat DEF Assignment
  <2>3. KeepsSight(early, r) /\ KeepsSight(wrong, r) /\ KeepsSight(won, r)
    <3> HIDE DEF played, other
    <3> QED
      BY <2>1, <2>2, GameOverKeepsSight DEF GameOverType
  <2>4. HandleOnePlayerPlayed(r) \in {r, early, wrong, won}
    BY DEF HandleOnePlayerPlayed
  <2> HIDE DEF early, wrong, won
  <2> QED
    BY <2>3, <2>4, KeepsSightReflexive
<1>2. CASE r.gameplayState \notin {"STARTED", "EXPECTING_INPUT"}
  BY <1>2, KeepsSightReflexive DEF HandleOnePlayerPlayed
<1> QED
  BY <1>1, <1>2

LEMMA EveryonePlayedKeepsSight ==
  ASSUME NEW r \in RoomState
  PROVE  KeepsSight(HandleEveryonePlayed(r), r)
<1> DEFINE won1 == GameOver(r, "GAME_OVER_WIN", "P1")
           won2 == GameOver(r, "GAME_OVER_WIN", "P2")
           draw == GameOver(r, "GAME_OVER_DRAW", NULL)
<1>1. CASE r.gameplayState = "EXPECTING_INPUT" /\ EveryonePlayed(r)
  <2>1. IsFull(r)
    BY <1>1 DEF EveryonePlayed
  <2>2. KeepsSight(won1, r) /\ KeepsSight(won2, r) /\ KeepsSight(draw, r)
    BY <2>1, GameOverKeepsSight DEF GameOverType, Assignment
  <2>3. HandleEveryonePlayed(r) \in {won1, won2, draw}
    BY <1>1 DEF HandleEveryonePlayed
  <2> HIDE DEF won1, won2, draw
  <2> QED
    BY <2>2, <2>3
<1>2. CASE ~ (r.gameplayState = "EXPECTING_INPUT" /\ EveryonePlayed(r))
  BY <1>2, KeepsSightReflexive DEF HandleEveryonePlayed
<1> QED
  BY <1>1, <1>2

LEMMA TimeoutKeepsSight ==
  ASSUME NEW r \in RoomState
  PROVE  KeepsSight(HandleTimeout(r), r)
<1> DEFINE draw == GameOver(r, "GAME_OVER_DRAW", NULL)
<1>1. CASE NoOnePlayed(r)
  <2>1. KeepsSight(draw, r)
    BY <1>1, GameOverKeepsSight DEF NoOnePlayed, GameOverType
  <2>2. HandleTimeout(r) \in {r, draw}
    BY DEF HandleTimeout
  <2> HIDE DEF draw
  <2> QED
    BY <2>1, <2>2, KeepsSightReflexive
<1>2. CASE ~ NoOnePlayed(r)
  BY <1>2, KeepsSightReflexive DEF HandleTimeout
<1> QED
  BY <1>1, <1>2

LEMMA ReplayKeepsSight ==
  ASSUME NEW r \in RoomState
  PROVE  KeepsSight(HandleReplay(r), r)
<1> DEFINE reset == ResetRound(r)
           again == [reset EXCEPT !.gameplayState = "STARTED"]
           m == [messageType |-> "ALL_REPLAY_READY_GAME_STARTING"]
<1>1. m \in GameplayMessage /\ m.messageType \in GameStartingType
  BY DEF GameplayMessage, GameStartingMessage, GameStartingType
<1>2. reset \in RoomState /\ reset.published = r.published
  BY ResetRoundFacts, ResetKeepsPlayers
<1>3. HandleReplay(r) \in {r, BroadcastGameplayMessage(again, m)}
  BY DEF HandleReplay
<1> HIDE DEF reset
<1>4. /\ again \in RoomState /\ again.published = r.published
      /\ again.gameplayState = "STARTED"
  BY <1>2 DEF RoomState, GameplayState
<1> HIDE DEF again, m
<1>5. Tells(m) /\ \A v : After(v, m).phase = again.gameplayState
  BY <1>1, <1>4, PhaseTold
<1>6. KeepsSight(BroadcastGameplayMessage(again, m), r)
  BY <1>1, <1>4, <1>5, BroadcastKeepsSight
<1> QED
  BY <1>3, <1>6, KeepsSightReflexive

(* Whatever a tick does to the state of the room, the players are told. *)
LEMMA TickKeepsSight ==
  ASSUME NEW r, Sound(r), NEW input \in GameplayInput
  PROVE  KeepsSight(Tick(r, input), r)
<1>1. r \in RoomState /\ r.gameplayState \in GameplayState
  BY DEF Sound, RoomState
<1>2. CASE r.gameplayState = "WAITING_PLAYERS"
  BY <1>1, <1>2, EveryoneReadyKeepsSight DEF Tick
<1>3. CASE r.gameplayState = "STARTED"
  <2> DEFINE s == HandleEveryoneCanPlay(r, input)
  <2>1. Sound(s) /\ KeepsSight(s, r)
    BY <1>1, HandleEveryoneCanPlayIsSound, EveryoneCanPlayKeepsSight
  <2>2. Tick(r, input) = HandleOnePlayerPlayed(s)
    BY <1>3 DEF Tick
  <2> HIDE DEF s
  <2> QED
    BY <2>1, <2>2, OnePlayerPlayedKeepsSight, KeepsSightTransitive
<1>4. CASE r.gameplayState = "EXPECTING_INPUT"
  <2> DEFINE s == HandleOnePlayerPlayed(r)
             t == HandleEveryonePlayed(s)
  <2>1. Sound(s) /\ KeepsSight(s, r)
    BY HandleOnePlayerPlayedIsSound, OnePlayerPlayedKeepsSight
  <2>2. Tick(r, input) = HandleTimeout(t)
    BY <1>4 DEF Tick
  <2> HIDE DEF s
  <2>3. Sound(t) /\ KeepsSight(t, s)
    BY <2>1, HandleEveryonePlayedIsSound, EveryonePlayedKeepsSight DEF Sound
  <2> HIDE DEF t
  <2>4. KeepsSight(HandleTimeout(t), t)
    BY <2>3, TimeoutKeepsSight DEF Sound
  <2> QED
    BY <2>1, <2>2, <2>3, <2>4, KeepsSightTransitive
<1>5. CASE r.gameplayState = "OVER"
  BY <1>1, <1>5, ReplayKeepsSight DEF Tick
<1> QED
  BY <1>1, <1>2, <1>3, <1>4, <1>5 DEF GameplayState

(* The messages of players change no state; those of departures tell it. *)
LEMMA PlayerMessageKeepsSight ==
  ASSUME NEW r, Sound(r), NEW id \in PlayerId,
         NEW m \in RoomActionMessage \ LeaveGame
  PROVE  KeepsSight(HandlePlayerMessage(r, id, m), r)
<1>1. r \in RoomState
  BY DEF Sound
<1>2. CASE ~ HasPlayerWithId(r, id)
  BY <1>2, KeepsSightReflexive DEF HandlePlayerMessage
<1>3. CASE HasPlayerWithId(r, id)
  <2> DEFINE a == GetPlayerById(r, id)
             s == HandlePlayerMessage(r, id, m)
             News == PlayerReadyStateChangedMessage
                       \cup PlayerReplayReadyStateChangedMessage
  <2>1. a \in Assignment /\ IsSeated(r, a)
    BY <1>1, <1>3, FoundPlayer
  <2>2. \/ m \notin PlayerInput /\ s = r
        \/ \E p \in Player :
             /\ p.id = r.players[a].id
             /\ IF m \in PlayerInput
                  THEN p.inputPressed \in GameplayInput
                  ELSE p.inputPressed = r.players[a].inputPressed
             /\ \/ s = [r EXCEPT !.players[a] = p]
                \/ \E news \in News :
                     /\ m \notin PlayerInput
                     /\ s = BroadcastGameplayMessage(
                              [r EXCEPT !.players[a] = p], news)
    BY <1>1, <1>3, PlayerMessageOutcome
  <2> HIDE DEF a, s
  <2>3. \A news \in News : news \in GameplayMessage /\ ~ Tells(news)
    <3>1. \A news \in News :
            news.messageType \in {"PLAYER_READY_STATE_CHANGED",
                                  "PLAYER_REPLAY_READY_STATE_CHANGED"}
      BY DEF PlayerReadyStateChangedMessage, PlayerReplayReadyStateChangedMessage
    <3>2. News \subseteq GameplayMessage
      BY DEF GameplayMessage
    <3> HIDE DEF News
    <3> QED
      BY <3>1, <3>2, PhaseTold
  <2> HIDE DEF News
  <2>4. ASSUME NEW p \in Player, p.id = r.players[a].id,
               \/ s = [r EXCEPT !.players[a] = p]
               \/ \E news \in News :
                    s = BroadcastGameplayMessage([r EXCEPT !.players[a] = p],
                                                 news)
        PROVE  KeepsSight(s, r)
    <3> DEFINE t == [r EXCEPT !.players[a] = p]
    <3>1. /\ t \in RoomState /\ t.published = r.published
          /\ t.difficulty = r.difficulty /\ t.gameplayState = r.gameplayState
          /\ t.players[a] = p
          /\ \A b \in Assignment \ {a} : t.players[b] = r.players[b]
      BY <1>1, <2>1 DEF RoomState
    <3>2. p # NULL
      BY NoPlayerAssumption
    <3>3. s = t \/ \E news \in News : s = BroadcastGameplayMessage(t, news)
      BY <2>4
    <3> HIDE DEF t
    <3>4. SameSeating(t, r)
      BY <2>1, <2>4, <3>1, <3>2 DEF SameSeating, IsSeated
    <3>5. s = t => KeepsSight(s, r)
      BY <3>1, <3>4, SilenceKeepsSight
    <3> QED
      BY <2>3, <3>1, <3>3, <3>4, <3>5, BroadcastKeepsSight
  <2>5. s = r => KeepsSight(s, r)
    BY KeepsSightReflexive
  <2> QED
    BY <2>2, <2>4, <2>5 DEF s
<1> QED
  BY <1>2, <1>3

LEMMA RemovePlayerKeepsSight ==
  ASSUME NEW r, Sound(r), NEW id \in PlayerId
  PROVE  KeepsSight(RemovePlayer(r, id), r)
<1>1. CASE ~ HasPlayerWithId(r, id)
  BY <1>1, KeepsSightReflexive DEF RemovePlayer
<1>2. CASE HasPlayerWithId(r, id)
  <2> DEFINE a == GetPlayerById(r, id)
             reset == ResetRound(r)
             left == [reset EXCEPT !.players[a] = NULL,
                                   !.gameplayState = "WAITING_PLAYERS"]
             m == [messageType |-> "PLAYER_LEFT_GAME", playerAssignment |-> a]
             s == RemovePlayer(r, id)
  <2>1. r \in RoomState
    BY DEF Sound
  <2>2. a \in Assignment
    BY <1>2, <2>1, FoundPlayer
  <2>3. reset \in RoomState /\ reset.published = r.published
    BY <2>1, ResetRoundFacts, ResetKeepsPlayers
  <2>4. s = BroadcastGameplayMessage(left, m)
    BY <1>2 DEF RemovePlayer
  <2> HIDE DEF a, reset, s
  <2>5. m \in GameplayMessage /\ m.messageType = "PLAYER_LEFT_GAME"
    BY <2>2 DEF GameplayMessage, PlayerLeftRoomMessage
  <2>6. /\ left \in RoomState /\ left.published = r.published
        /\ left.gameplayState = "WAITING_PLAYERS"
    BY <2>2, <2>3 DEF RoomState, GameplayState
  <2> HIDE DEF left, m
  <2>7. Tells(m) /\ \A v : After(v, m).phase = left.gameplayState
    BY <2>5, <2>6, PhaseTold
  <2> QED
    BY <2>4, <2>5, <2>6, <2>7, BroadcastKeepsSight DEF s
<1> QED
  BY <1>1, <1>2

LEMMA AddPlayerKeepsSight ==
  ASSUME NEW r, Sound(r), ~ IsFull(r), NEW id \in PlayerId
  PROVE  KeepsSight(AddPlayer(r, id), r)
<1> DEFINE a == GetAvailableAssignment(r)
           other == OtherAssignment(a)
           seated == [r EXCEPT !.players[a] = NewPlayer(id)]
           otherDTO == IF IsSeated(r, other) THEN BuildLobbyDTO(r, other)
                                             ELSE NULL
           hello == [messageType |-> "ROOM_JOINED", playerAssignment |-> a,
                     otherPlayer |-> otherDTO]
           joined == Publish(seated, id, hello)
           news == [messageType |-> "PLAYER_JOINED_GAME",
                    player |-> BuildLobbyDTO(seated, a)]
<1>1. r \in RoomState /\ r.gameplayState = "WAITING_PLAYERS"
  BY DEF Sound, ValuesAreHeld
<1>2. a \in Assignment /\ ~ IsSeated(r, a)
  BY DEF GetAvailableAssignment, IsFull, Assignment
<1>3. other \in Assignment
  <2> HIDE DEF a
  <2> QED
    BY <1>2, OtherSeat
<1>4. AddPlayer(r, id) = PublishToSeat(joined, other, news)
  BY DEF AddPlayer
<1>5. hello \in GameplayMessage /\ hello.messageType = "ROOM_JOINED"
  <2>1. otherDTO \in PlayerLobbyDTO \cup {NULL}
    <3> HIDE DEF other
    <3> QED
      BY <1>1, <1>3, LobbyDTOType
  <2> HIDE DEF otherDTO, a
  <2> QED
    BY <1>2, <2>1 DEF GameplayMessage, RoomJoinedMessage
<1> HIDE DEF a, other, hello
<1>6. /\ seated \in RoomState
      /\ seated.players[a] = NewPlayer(id)
      /\ \A b \in Assignment \ {a} : seated.players[b] = r.players[b]
      /\ seated.gameplayState = "WAITING_PLAYERS"
      /\ seated.published = r.published
  BY <1>1, <1>2, NewPlayerType DEF RoomState
<1>7. NewPlayer(id).id = id /\ NewPlayer(id) # NULL
  BY NewPlayerType DEF NewPlayer
<1>8. news \in GameplayMessage /\ news.messageType = "PLAYER_JOINED_GAME"
  <2> HIDE DEF seated
  <2>1. IsSeated(seated, a)
    BY <1>6, <1>7 DEF IsSeated
  <2> QED
    BY <1>2, <1>6, <2>1, LobbyDTOType
    DEF GameplayMessage, PlayerJoinedRoomMessage
<1> HIDE DEF seated, news
<1>9. \A y \in PlayerId \ {id} :
        HasPlayerWithId(seated, y) => HasPlayerWithId(r, y)
  BY <1>2, <1>6, <1>7 DEF HasPlayerWithId, SeatsOf, IsSeated
<1>10. joined \in RoomState /\ SameGame(joined, seated)
  BY <1>5, <1>6, PublishKeepsGame
<1>11. \A y, view : SeenAfter(joined, y, view)
                      = IF y = id THEN After(view, hello)
                                  ELSE SeenAfter(seated, y, view)
  BY <1>5, <1>6, PublishIsSeen, PhaseTold DEF Tells
<1> HIDE DEF joined
<1>12. KeepsSight(joined, r)
  <2> SUFFICES ASSUME NEW y \in PlayerId, HasPlayerWithId(joined, y), NEW view,
                      HasPlayerWithId(r, y) => Sees(r, y, view)
               PROVE  Sees(joined, y, view)
    BY DEF KeepsSight
  <2>1. joined.gameplayState = "WAITING_PLAYERS" /\ HasPlayerWithId(seated, y)
    BY <1>6, <1>10 DEF SameGame, HasPlayerWithId, SeatsOf, IsSeated
  <2>2. CASE y = id
    BY <1>5, <1>11, <2>1, <2>2, PhaseTold DEF Sees
  <2>3. CASE y # id
    <3>1. Sees(r, y, view)
      BY <1>9, <2>1, <2>3
    <3>2. SeenAfter(joined, y, view) = SeenAfter(r, y, view)
      BY <1>6, <1>11, <2>3 DEF SeenAfter
    <3> QED
      BY <1>1, <2>1, <3>1, <3>2 DEF Sees
  <2> QED
    BY <2>2, <2>3
<1> DEFINE s == PublishToSeat(joined, other, news)
<1>13. SameGame(s, joined)
  BY <1>3, <1>8, <1>10, PublishToSeatKeepsGame
<1>14. \A y, view : SeenAfter(s, y, view) = SeenAfter(joined, y, view)
  <2>1. IsSeated(joined, other) => joined.players[other].id \in PlayerId
    BY <1>3, <1>10, SeatedPlayer DEF Player
  <2>2. ~ Tells(news)
    BY <1>8, PhaseTold
  <2> QED
    BY <1>8, <1>10, <2>1, <2>2, PublishIsSeen DEF PublishToSeat, Tells
<1> HIDE DEF s
<1>15. KeepsSight(s, joined)
  BY <1>13, <1>14
  DEF KeepsSight, Sees, SameGame, HasPlayerWithId, SeatsOf, IsSeated
<1> QED
  BY <1>4, <1>12, <1>15, KeepsSightTransitive DEF s
=============================================================================
