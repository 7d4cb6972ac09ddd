---------------------------- MODULE RoomManager ----------------------------
(***************************************************************************)
(* The state of the game thread and the calls that change it: the rooms of *)
(* RoomManager.cpp and the subscriptions of GameplayMessageBroker.cpp, as  *)
(* operators from the game before a call to the game after it.             *)
(*                                                                         *)
(* A room is known by its address, as its callbacks know it: a subscriber  *)
(* keeps the address of a room after the room is gone, and a later room    *)
(* may be allocated where an earlier one was.                              *)
(***************************************************************************)
EXTENDS RoomHandlers

LOCAL INSTANCE SequencesExt

CONSTANTS
  Address,    \* bound: where rooms can be allocated
  GAMEPLAY    \* the context of the subscriptions of Gameplay.cpp

ASSUME ContextAssumption ==
  /\ GAMEPLAY \notin Address
  /\ NULL \notin RoomState

(***************************************************************************)
(* rooms: the vector of RoomManager, in order.                             *)
(* room: what is at an address, NULL where no room is alive.               *)
(* callbacks: playerActionCallbacksWithContextByPlayerId; a player has an  *)
(* entry in the map once its sequence is not empty.                        *)
(* published: the messages of the current step of the game thread.         *)
(***************************************************************************)
Game == [rooms: Seq(Address),
         room: [Address -> RoomState \cup {NULL}],
         callbacks: [PlayerId -> Seq(Address \cup {GAMEPLAY})],
         published: Seq(Published)]

NewGame == [rooms |-> << >>,
            room |-> [address \in Address |-> NULL],
            callbacks |-> [id \in PlayerId |-> << >>],
            published |-> << >>]

Alive(game, address) == game.room[address] # NULL

RoomsOf(g, id) ==
  {address \in Address :
     Alive(g, address) /\ HasPlayerWithId(g.room[address], id)}

HasCallback(g, id, context) ==
  \E i \in DOMAIN g.callbacks[id] : g.callbacks[id][i] = context

(* The call that leaves the room at an address as room. *)
CallRoom(game, address, room) ==
  [game EXCEPT !.room[address] = Begin(room),
               !.published = @ \o room.published]

-----------------------------------------------------------------------------
(* Subscriptions *)

(* Mutation: one callback a player, as NetworkMessageBroker keeps them. *)
SubscribeOnly(game, id, context) ==
  [game EXCEPT !.callbacks[id] = <<context>>]

Subscribe(game, id, context) ==
  [game EXCEPT !.callbacks[id] = Append(@, context)]

(* Mutation: the entry of the player leaves the map. *)
UnsubscribePlayer(game, id, context) == [game EXCEPT !.callbacks[id] = NULL]

(* It erases from a copy of the player's callbacks, and drops the copy. *)
Unsubscribe(game, id, context) == game

-----------------------------------------------------------------------------
(* RoomManager *)

JoinRoom(game, address, id) ==
  Subscribe(CallRoom(game, address, AddPlayer(game.room[address], id)),
            id, address)

(* Mutation: any room that is not full. *)
FindRoomOfAnyDifficulty(game, difficulty) ==
  LET Suits(address) == ~ IsFull(game.room[address])
  IN SelectInSeq(game.rooms, Suits)

(* Mutation: a room whose second seat is taken is taken to be full. *)
FindRoomBySecondSeat(game, difficulty) ==
  LET Suits(address) == /\ ~ IsSeated(game.room[address], "P2")
                        /\ game.room[address].difficulty = difficulty
  IN SelectInSeq(game.rooms, Suits)

(* The index of the first room a newcomer can join, 0 when there is none. *)
FindRoom(game, difficulty) ==
  LET Suits(address) == /\ ~ IsFull(game.room[address])
                        /\ game.room[address].difficulty = difficulty
  IN SelectInSeq(game.rooms, Suits)

(* fresh is the address the new room gets, if one is made. *)
AddPlayerToRoom(game, id, difficulty, fresh) ==
  LET found == FindRoom(game, difficulty)
  IN IF found # 0
       THEN JoinRoom(game, game.rooms[found], id)
       ELSE JoinRoom([game EXCEPT !.rooms = Append(@, fresh),
                                  !.room[fresh] = NewRoom(difficulty)],
                     fresh, id)

FindPlayer(game, id) ==
  LET Seats(address) == HasPlayerWithId(game.room[address], id)
  IN SelectInSeq(game.rooms, Seats)

LeaveRoom(game, address, id) ==
  Unsubscribe(CallRoom(game, address, RemovePlayer(game.room[address], id)),
              id, address)

(* Mutation: only the first room is searched. *)
RemovePlayerFromFirstRoom(game, id) ==
  IF FindPlayer(game, id) # 1
    THEN game
    ELSE LET address == game.rooms[1]
             left == LeaveRoom(game, address, id)
         IN IF IsEmpty(left.room[address])
              THEN [left EXCEPT !.rooms = Tail(@), !.room[address] = NULL]
              ELSE left

RemovePlayerFromRoom(game, id) ==
  LET found == FindPlayer(game, id)
  IN IF found = 0
       THEN game
       ELSE LET address == game.rooms[found]
                left == LeaveRoom(game, address, id)
            IN IF IsEmpty(left.room[address])
                 THEN [left EXCEPT !.rooms = RemoveAt(@, found),
                                   !.room[address] = NULL]
                 ELSE left

TickRoom(game, address, input) ==
  CallRoom(game, address, Tick(game.room[address], input))

(* input[address] is the button the room at the address draws, if it asks. *)
TickAllRooms(game, input) ==
  LET rooms == game.rooms
      ticked[n \in 0..Len(rooms)] ==
        IF n = 0 THEN game
                 ELSE TickRoom(ticked[n - 1], rooms[n], input[rooms[n]])
  IN ticked[Len(rooms)]

(* Mutation: LEAVE_GAME is left to the callback of the room. *)
ManagerHandleJoinOnly(game, id, message, fresh) ==
  IF message.messageType = "JOIN_GAME"
    THEN AddPlayerToRoom(game, id, message.gameDifficulty, fresh)
    ELSE game

ManagerHandlePlayerMessage(game, id, message, fresh) ==
  CASE message.messageType = "JOIN_GAME" ->
         AddPlayerToRoom(game, id, message.gameDifficulty, fresh)
    [] message.messageType = "LEAVE_GAME" -> RemovePlayerFromRoom(game, id)
    [] OTHER -> game

-----------------------------------------------------------------------------
(* Callbacks *)

(***************************************************************************)
(* The callback of a room that is gone runs on freed memory.  What is left *)
(* there of an emptied room holds no player, so the call returns at once;  *)
(* where a new room was allocated, the call is a call of the new room.     *)
(* It may also end the process: a behaviour that stops there is among      *)
(* those of any specification that obliges nobody to go on.                *)
(***************************************************************************)
Callback(game, id, message, context, fresh) ==
  IF context = GAMEPLAY
    THEN ManagerHandlePlayerMessage(game, id, message, fresh)
  ELSE IF Alive(game, context)
    THEN CallRoom(game, context,
                  HandlePlayerMessage(game.room[context], id, message))
  ELSE game

(* A message is handed to every callback copied when the drain began. *)
Dispatch(game, id, message, callbacks, fresh) ==
  LET handed[n \in 0..Len(callbacks)] ==
        IF n = 0 THEN game
                 ELSE Callback(handed[n - 1], id, message, callbacks[n], fresh)
  IN handed[Len(callbacks)]
=============================================================================
