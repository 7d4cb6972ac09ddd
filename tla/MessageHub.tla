----------------------------- MODULE MessageHub -----------------------------
(***************************************************************************)
(* The containers of the MessageHub as the two threads access them: a      *)
(* queue of connectivity messages and two unordered_maps from players to   *)
(* queues, none of them guarded by a lock.  Here an access to a container  *)
(* takes time: it goes on from the step that starts it to the step that    *)
(* finishes it, and the other thread may access a container meanwhile.     *)
(*                                                                         *)
(* A thread produces into a queue (operator[] of its map, push) and        *)
(* consumes one (operator[], then empty, front and pop until it is empty); *)
(* the callback the game thread runs between front and pop publishes.      *)
(***************************************************************************)
EXTENDS Naturals

CONSTANTS
  PlayerId,
  MaxLength   \* bound: messages in a queue

VARIABLES
  keys,        \* the keys of each map
  length,      \* how long each queue is
  producing,   \* the call of each thread that pushes
  consuming    \* the loop of each thread that pops

vars == <<keys, length, producing, consuming>>

Thread == {"network", "game"}

Connectivity == <<"connectivity">>

ActionQueue == {"actions"} \X PlayerId

GameplayQueue == {"gameplay"} \X PlayerId

Queue == {Connectivity} \cup ActionQueue \cup GameplayQueue

ToGame == {Connectivity} \cup ActionQueue

Produces == [network |-> ToGame, game |-> GameplayQueue]

Consumes == [network |-> GameplayQueue, game |-> ToGame]

(* Where a call on a queue begins: with operator[] if it is in a map. *)
Entry(queue, first) ==
  [at |-> IF queue = Connectivity THEN first ELSE "FIND", queue |-> queue]

Idle == [at |-> "IDLE", queue |-> Connectivity]

To(call, t, at) == [call EXCEPT ![t].at = at]

-----------------------------------------------------------------------------
(* publishPlayerConnectivityMessage, publishPlayerActionMessage and        *)
(* publishGameplayMessage                                                  *)

Produce(t, queue) ==
  /\ producing[t] = Idle
  /\ consuming[t].at \in {"IDLE"} \cup (IF t = "game" THEN {"CALLBACK"} ELSE {})
  /\ queue \in Produces[t]
  /\ length[queue] < MaxLength
  /\ producing' = [producing EXCEPT ![t] = Entry(queue, "PUSH")]
  /\ UNCHANGED <<keys, length, consuming>>

FindToPush(t) ==
  /\ producing[t].at = "FIND"
  /\ keys' = [keys EXCEPT ![producing[t].queue[1]] =
                @ \cup {producing[t].queue[2]}]
  /\ producing' = To(producing, t, "PUSH")
  /\ UNCHANGED <<length, consuming>>

Push(t) ==
  /\ producing[t].at = "PUSH"
  /\ length' = [length EXCEPT ![producing[t].queue] = @ + 1]
  /\ producing' = [producing EXCEPT ![t] = Idle]
  /\ UNCHANGED <<keys, consuming>>

-----------------------------------------------------------------------------
(* the dispatchMessages of both brokers *)

Consume(t, queue) ==
  /\ producing[t] = Idle
  /\ consuming[t] = Idle
  /\ queue \in Consumes[t]
  /\ consuming' = [consuming EXCEPT ![t] = Entry(queue, "EMPTY")]
  /\ UNCHANGED <<keys, length, producing>>

FindToPop(t) ==
  /\ consuming[t].at = "FIND"
  /\ keys' = [keys EXCEPT ![consuming[t].queue[1]] =
                @ \cup {consuming[t].queue[2]}]
  /\ consuming' = To(consuming, t, "EMPTY")
  /\ UNCHANGED <<length, producing>>

Empty(t) ==
  /\ consuming[t].at = "EMPTY"
  /\ consuming' = IF length[consuming[t].queue] = 0
                    THEN [consuming EXCEPT ![t] = Idle]
                    ELSE To(consuming, t, "FRONT")
  /\ UNCHANGED <<keys, length, producing>>

Front(t) ==
  /\ consuming[t].at = "FRONT"
  /\ consuming' = To(consuming, t, "CALLBACK")
  /\ UNCHANGED <<keys, length, producing>>

Return(t) ==
  /\ consuming[t].at = "CALLBACK"
  /\ producing[t] = Idle
  /\ consuming' = To(consuming, t, "POP")
  /\ UNCHANGED <<keys, length, producing>>

Pop(t) ==
  /\ consuming[t].at = "POP"
  /\ length' = [length EXCEPT ![consuming[t].queue] = @ - 1]
  /\ consuming' = To(consuming, t, "EMPTY")
  /\ UNCHANGED <<keys, producing>>

-----------------------------------------------------------------------------

Init ==
  /\ keys = [map \in {"actions", "gameplay"} |-> {}]
  /\ length = [queue \in Queue |-> 0]
  /\ producing = [t \in Thread |-> Idle]
  /\ consuming = [t \in Thread |-> Idle]

Next ==
  \E t \in Thread :
    \/ \E queue \in Queue : Produce(t, queue) \/ Consume(t, queue)
    \/ FindToPush(t) \/ Push(t)
    \/ FindToPop(t) \/ Empty(t) \/ Front(t) \/ Return(t) \/ Pop(t)

Spec == Init /\ [][Next]_vars

-----------------------------------------------------------------------------

(***************************************************************************)
(* As long as the containers survive their unguarded accesses, front() and *)
(* pop() find a message: what empty() saw is not taken by the other thread *)
(* nor by what the callback publishes.  The modules that treat each call   *)
(* of a broker as one step rest on it.                                     *)
(***************************************************************************)
PopsFindAMessage ==
  \A t \in Thread :
    consuming[t].at \in {"FRONT", "CALLBACK", "POP"} =>
      length[consuming[t].queue] > 0

-----------------------------------------------------------------------------
(* What the documentation says, and the code does not do *)

(* The call a thread is in. *)
Call(t) == IF producing[t] # Idle THEN producing[t] ELSE consuming[t]

(* operator[] writes to its map when it inserts. *)
Writes(t) ==
  LET call == Call(t)
  IN CASE call.at = "FIND" ->
            {<<call.queue[1]>> : id \in {call.queue[2]} \ keys[call.queue[1]]}
       [] call.at \in {"PUSH", "POP"} -> {call.queue}
       [] OTHER -> {}

Reads(t) ==
  LET call == Call(t)
  IN CASE call.at = "FIND" -> {<<call.queue[1]>>}
       [] call.at \in {"EMPTY", "FRONT"} -> {call.queue}
       [] OTHER -> {}

(***************************************************************************)
(* "There is never two threads writing at the same time in the same map,   *)
(* and never two threads reading at the same, so there should not be any   *)
(* data race." (README.md:38): while one thread writes to a map or to a    *)
(* queue of it, the other does not access it.                              *)
(***************************************************************************)
NoDataRace ==
  (Writes("network") \cap (Writes("game") \cup Reads("game")))
    \cup (Writes("game") \cap Reads("network"))
      \subseteq {Connectivity}
=============================================================================
