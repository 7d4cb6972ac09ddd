----------------------------- MODULE MCGameplay -----------------------------
(***************************************************************************)
(* The game thread for TLC.  Addresses and ids are only ever compared for  *)
(* equality.                                                               *)
(***************************************************************************)
EXTENDS Gameplay, TLC

TurnReady == {[messageType |-> "SET_READY_STATE", isReady |-> TRUE]}

Alike == Permutations(PlayerId) \cup Permutations(Address)
=============================================================================
