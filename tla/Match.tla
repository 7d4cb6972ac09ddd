------------------------------- MODULE Match -------------------------------
(***************************************************************************)
(* What a room promises its two players, told by what each of them is      *)
(* shown: the players of a match always look at the same phase of the same *)
(* game, every game they are shown has one verdict that both are shown     *)
(* alike, a verdict is only followed by a rematch or by somebody leaving,  *)
(* and whoever stays when the other leaves is back in the lobby.           *)
(***************************************************************************)
CONSTANTS Nobody   \* no player in the seat, no winner, no verdict

VARIABLE view      \* what the player of each seat is shown

Seat == {"P1", "P2"}

Phase == {"WAITING_PLAYERS", "STARTED", "EXPECTING_INPUT", "OVER"}

(***************************************************************************)
(* The verdicts a game may have.  Only a draw has no winner.               *)
(***************************************************************************)
Verdict ==
  [type: {"GAME_OVER_EARLY_INPUT", "GAME_OVER_WRONG_INPUT", "GAME_OVER_WIN"},
   winner: Seat]
    \cup [type: {"GAME_OVER_DRAW"}, winner: {Nobody}]

View == [phase: Phase, verdict: Verdict \cup {Nobody}]

Shows(phase) == [phase |-> phase, verdict |-> Nobody]

Seated == {s \in Seat : view[s] # Nobody}

BothShown(phase) == Seated = Seat /\ \A s \in Seat : view[s].phase = phase

ShowBoth(v) == view' = [s \in Seat |-> v]

-----------------------------------------------------------------------------

Init == view = [s \in Seat |-> Nobody]

Sit(s) ==
  /\ s \notin Seated
  /\ view' = [view EXCEPT ![s] = Shows("WAITING_PLAYERS")]

Stand(s) ==
  /\ s \in Seated
  /\ view' = [t \in Seat |-> IF t \in Seated \ {s}
                               THEN Shows("WAITING_PLAYERS") ELSE Nobody]

Start == BothShown("WAITING_PLAYERS") /\ ShowBoth(Shows("STARTED"))

Request == BothShown("STARTED") /\ ShowBoth(Shows("EXPECTING_INPUT"))

(* A press before the request was seen to be early only before the request. *)
Decide(verdict) ==
  /\ \/ BothShown("STARTED")
     \/ BothShown("EXPECTING_INPUT") /\ verdict.type # "GAME_OVER_EARLY_INPUT"
  /\ ShowBoth([phase |-> "OVER", verdict |-> verdict])

Rematch == BothShown("OVER") /\ ShowBoth(Shows("STARTED"))

(* A step of a match is one that its players see. *)
Next ==
  /\ view' # view
  /\ \/ \E s \in Seat : Sit(s) \/ Stand(s)
     \/ Start
     \/ Request
     \/ \E verdict \in Verdict : Decide(verdict)
     \/ Rematch

Spec == Init /\ [][Next]_view
=============================================================================
