-------------------------------- MODULE Gate --------------------------------
(***************************************************************************)
(* modules/advisor/biz/market/news/gate.go: what the digest tells the      *)
(* model about the calendar at a moment, and the calendar's range read     *)
(* behind it.  The wording of the line is left out; the state is the tag   *)
(* the prompt's rule looks for.                                            *)
(***************************************************************************)
EXTENDS Integers

CONSTANTS
  Events,
  Time,        (* event -> when it happens                                 *)
  Impact,      (* event -> "high" or "medium"; feed.go drops the others    *)
  PreMin, ActivePre, ActivePost, RecoverPost

ASSUME GateAssumption ==
  /\ Time \in [Events -> Nat]
  /\ Impact \in [Events -> {"high", "medium"}]
  /\ PreMin \in Nat /\ ActivePre \in 0 .. PreMin
  /\ RecoverPost \in Nat /\ ActivePost \in 0 .. RecoverPost

(* Calendar.EventsAround: both ends included.                              *)
EventsAround(calendar, t) ==
  {e \in calendar : Time[e] >= t - RecoverPost /\ Time[e] <= t + PreMin}

(* Seeded fault: the blackout begins after its first minute.               *)
classifyLate(t, e) ==
  LET delta == Time[e] - t
  IN  IF delta > 0 /\ delta < ActivePre THEN "active"
      ELSE IF delta > 0 /\ delta <= PreMin
           THEN IF Impact[e] = "high" THEN "pre" ELSE ""
      ELSE IF delta <= 0 /\ -delta <= ActivePost THEN "active"
      ELSE IF delta <= 0 /\ -delta <= RecoverPost THEN "recovery"
      ELSE ""

(* Only a high-impact event is worth a word before its blackout.           *)
classify(t, e) ==
  LET delta == Time[e] - t
  IN  IF delta > 0 /\ delta <= ActivePre THEN "active"
      ELSE IF delta > 0 /\ delta <= PreMin
           THEN IF Impact[e] = "high" THEN "pre" ELSE ""
      ELSE IF delta <= 0 /\ -delta <= ActivePost THEN "active"
      ELSE IF delta <= 0 /\ -delta <= RecoverPost THEN "recovery"
      ELSE ""

Rank(state) ==
  CASE state = "active"   -> 3
    [] state = "pre"      -> 2
    [] state = "recovery" -> 1
    [] OTHER              -> 0

Away(t, e) == IF Time[e] >= t THEN Time[e] - t ELSE t - Time[e]

(* Event a is more telling than event b: the severer state, then the       *)
(* closer event.                                                           *)
better(t, a, b) ==
  \/ Rank(classify(t, a)) > Rank(classify(t, b))
  \/ /\ Rank(classify(t, a)) = Rank(classify(t, b))
     /\ Away(t, a) < Away(t, b)

(* The state of the best candidate, "" without one.  Of two that are       *)
(* equally good the code keeps the first, and they have the same state.    *)
WindowAt(calendar, t) ==
  LET candidates == {e \in EventsAround(calendar, t) : classify(t, e) # ""}
  IN  IF candidates = {} THEN ""
      ELSE classify(t, CHOOSE e \in candidates :
                          \A other \in candidates : ~better(t, other, e))

=============================================================================
