---------------------------- MODULE MCRoomClients ----------------------------
(***************************************************************************)
(* A room and its clients for TLC, with the same two ids as MCRoom.        *)
(***************************************************************************)
EXTENDS RoomClients, TLC

(* No handler compares ids with anything but ids of the same room. *)
AnyPlayer == Permutations(PlayerId)
=============================================================================
