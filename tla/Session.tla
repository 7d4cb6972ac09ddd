------------------------------ MODULE Session -------------------------------
(***************************************************************************)
(* What the network thread promises the game thread, whatever clients do:  *)
(* an id is announced by one CONNECT before anything else of it, its       *)
(* actions are queued only while it is connected, and it ends with one     *)
(* DISCONNECT, or with two if its connection broke.  The module Gameplay   *)
(* assumes no more than this of the network.                               *)
(***************************************************************************)
EXTENDS Sequences

CONSTANTS PlayerId, Text

VARIABLES connectivity, actions, link

vars == <<connectivity, actions, link>>

Publish(type, id) ==
  connectivity' = Append(connectivity, [messageType |-> type, id |-> id])

Turn(id, from, to) ==
  /\ link[id] \in from
  /\ link' = [link EXCEPT ![id] = to]
  /\ UNCHANGED actions

Open(id) == Turn(id, {"AWAY"}, "CONNECTED") /\ Publish("CONNECT", id)

Break(id) == Turn(id, {"CONNECTED"}, "FAILED") /\ Publish("DISCONNECT", id)

End(id) ==
  Turn(id, {"CONNECTED", "FAILED"}, "CLOSED") /\ Publish("DISCONNECT", id)

Speak(id) ==
  /\ link[id] = "CONNECTED"
  /\ \E text \in Text : actions' = [actions EXCEPT ![id] = Append(@, text)]
  /\ UNCHANGED <<connectivity, link>>

(* The game thread takes what is queued, in order. *)
TakeConnectivity ==
  /\ connectivity # << >>
  /\ connectivity' = Tail(connectivity)
  /\ UNCHANGED <<actions, link>>

TakeAction(id) ==
  /\ actions[id] # << >>
  /\ actions' = [actions EXCEPT ![id] = Tail(@)]
  /\ UNCHANGED <<connectivity, link>>

Init ==
  /\ connectivity = << >>
  /\ actions = [id \in PlayerId |-> << >>]
  /\ link = [id \in PlayerId |-> "AWAY"]

Next ==
  \/ TakeConnectivity
  \/ \E id \in PlayerId :
       Open(id) \/ Break(id) \/ End(id) \/ Speak(id) \/ TakeAction(id)

Spec == Init /\ [][Next]_vars
=============================================================================
