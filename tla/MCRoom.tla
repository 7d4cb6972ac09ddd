------------------------------- MODULE MCRoom -------------------------------
(***************************************************************************)
(* A room for TLC.  Two ids are enough: a room has two seats, and a player *)
(* who leaves and joins again is to the room a new player.                 *)
(***************************************************************************)
EXTENDS Room, TLC

(* No handler compares ids with anything but ids of the same room. *)
AnyPlayer == Permutations(PlayerId)
=============================================================================
