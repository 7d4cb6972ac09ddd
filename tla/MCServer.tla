------------------------------ MODULE MCServer ------------------------------
(* The server for TLC. *)
EXTENDS Server, TLC

TurnReady == {[messageType |-> "SET_READY_STATE", isReady |-> TRUE]}

Alike == Permutations(PlayerId) \cup Permutations(Address)
=============================================================================
