----------------------------- MODULE ScanWorker ------------------------------
(***************************************************************************)
(* biz/scan_worker.go over the decision parser and the decision store: the *)
(* periodic scan, its card and its row, and the process around them, which *)
(* may be killed and started again at any time.                            *)
(*                                                                         *)
(* Time is counted in units of which an M5 bar has Interval.  It does not  *)
(* pass while the worker or the pruner has something to do; it passes      *)
(* while a call is out, up to the deadline of its context.                 *)
(* External: the market data, the LLM and Telegram.                        *)
(***************************************************************************)
EXTENDS DecisionStore, Decision, Sequences

CONSTANTS
  Users,         (* whoever may be on the allowlist                        *)
  Allowlists,    (* values of ADVISOR_ALLOWED_USER_IDS, or NoList when unset *)
  NoList,
  Payloads,      (* decision blocks an LLM may write                       *)
  Interval,      (* scanInterval                                           *)
  LLMTimeout,    (* scanLLMTimeout                                         *)
  SendTimeout,   (* scanSendTimeout, and that of Save                      *)
  MaxNow,        (* bounds the clock                                       *)
  MaxRestarts    (* bounds the kills                                       *)

(* A scan whose calls all take their time is over before the next tick.    *)
(* (90 s, and 5 s for the row and for each of up to 40 users, in 5 min.)   *)
ASSUME ScanAssumption ==
  /\ IsFiniteSet(Users)
  /\ Interval \in Nat /\ LLMTimeout \in Nat /\ SendTimeout \in Nat
  /\ LLMTimeout + (1 + Cardinality(Users)) * SendTimeout < Interval
  /\ \A list \in Allowlists : list = NoList \/ list \subseteq Users
  /\ Payloads \subseteq [symbol : STRING, action : STRING, confidence : STRING,
                        entry : Int, sl : Int, tp : Int, lot : Int]
  /\ MaxNow \in Nat /\ MaxRestarts \in Nat

VARIABLES
  allowed,     (* UserFilter.allowed                                       *)
  pc,          (* where Run is                                             *)
  wake,        (* when it fires first                                      *)
  nextTick,    (* when the ticker fires next; 0 before there is one        *)
  ticked,      (* a tick is in the ticker's channel, which holds one       *)
  deadline,    (* of the call that is out                                  *)
  card,        (* the card of the running scan, or None                    *)
  todo,        (* subscribers it has still to be sent to                   *)
  tries,       (* history: sends of this card, per user                    *)
  saves,       (* history: rows asked for by this scan                     *)
  scans,       (* history: per M5 bar, the scans begun before the next     *)
  upSince,     (* history: since when the worker has been waiting or scanning *)
  restarts     (* history: kills                                           *)

workerVars == <<allowed, pc, wake, nextTick, ticked, deadline, card, todo,
                tries, saves, scans, upSince, restarts>>
vars == <<now, storeVars, workerVars>>

(* How many bars have closed. *)
Bar(t) == t \div Interval

NoTries == [u \in Users |-> 0]

(* UserFilter.Subscribers: an unset list is nobody, not everybody. *)
Subscribers == IF allowed = NoList THEN {} ELSE allowed

(* timeUntilNextFire: from a boundary it is a whole interval. *)
NextFire(from) == (Bar(from) + 1) * Interval

Init ==
  /\ now \in 0 .. Interval - 1
  /\ StoreInit
  /\ allowed \in Allowlists
  /\ pc = "down" /\ wake = 0 /\ nextTick = 0 /\ ticked = FALSE /\ deadline = 0
  /\ card = None /\ todo = {} /\ tries = NoTries /\ saves = 0
  /\ scans = [b \in 0 .. Bar(MaxNow) |-> 0] /\ upSince = 0 /\ restarts = 0

-----------------------------------------------------------------------------
(* The process starts: the pruner with its first purge, and Run, which     *)
(* gives up when there is nobody to send to.                               *)
Start ==
  /\ pc = "down"
  /\ StartPruner
  /\ upSince' = now
  /\ IF Subscribers = {}
     THEN pc' = "disabled" /\ wake' = wake
     ELSE pc' = "first" /\ wake' = NextFire(now)
  /\ UNCHANGED <<now, rows, created, purgedTo, young, failures, allowed,
                 nextTick, ticked, deadline, card, todo, tries, saves, scans,
                 restarts>>

(* runOnce, from the first fire or from a tick. *)
Fire ==
  /\ \/ pc = "first" /\ now = wake
     \/ pc = "idle" /\ ticked
  /\ ticked' = FALSE /\ wake' = 0
  /\ scans' = [scans EXCEPT ![Bar(now)] = @ + 1]
  /\ pc' = "ask" /\ deadline' = now + LLMTimeout
  /\ card' = None /\ tries' = NoTries /\ saves' = 0
  /\ UNCHANGED <<now, storeVars, allowed, nextTick, todo, upSince, restarts>>

FirstScan == nextTick = 0

(* Seeded fault: a pause of Interval after every scan in place of a ticker. *)
ScanOverSleeping ==
  /\ pc' = "idle"
  /\ nextTick' = now + Interval
  /\ ticked' = FALSE

(* Back in Run, which makes its ticker after the first scan. *)
ScanOver ==
  /\ pc' = "idle"
  /\ nextTick' = IF FirstScan THEN now + Interval ELSE nextTick
  /\ ticked' = ticked

(* MaybeEnrich and the stream: an error, an empty digest, a blank reply, or *)
(* one without a valid decision ends the scan; otherwise there is a card.  *)
NoDecision ==
  /\ pc = "ask"
  /\ \E reply \in Payloads \cup {None} : ExtractDecision(reply) = None
  /\ ScanOver
  /\ deadline' = 0
  /\ UNCHANGED <<now, storeVars, allowed, wake, card, todo, tries,
                 saves, scans, upSince, restarts>>

Decide ==
  /\ pc = "ask"
  /\ \E reply \in Payloads :
       /\ ExtractDecision(reply) # None
       /\ card' = TradeCard(ExtractDecision(reply))
  /\ pc' = "save" /\ deadline' = now + SendTimeout
  /\ UNCHANGED <<now, storeVars, allowed, wake, nextTick, ticked, todo, tries,
                 saves, scans, upSince, restarts>>

(* persistDecision: stored or not, and whatever the caller is told, once. *)
PersistDecision ==
  /\ pc = "save"
  /\ Save \/ UNCHANGED <<rows, created>>
  /\ saves' = saves + 1
  /\ todo' = Subscribers
  /\ pc' = "send" /\ deadline' = now + SendTimeout
  /\ UNCHANGED <<now, prunerVars, purgedTo, young, failures, allowed, wake,
                 nextTick, ticked, card, tries, scans, upSince, restarts>>

(* Seeded fault: a failed send ends the broadcast. *)
BroadcastStopping ==
  /\ pc = "send" /\ todo # {}
  /\ \E u \in todo :
       /\ tries' = [tries EXCEPT ![u] = @ + 1]
       /\ todo' \in {todo \ {u}, {}}
  /\ deadline' = now + SendTimeout
  /\ UNCHANGED <<now, storeVars, allowed, pc, wake, nextTick, ticked, card,
                 saves, scans, upSince, restarts>>

(* broadcast: one attempt per user, in the order of a map, failed or not. *)
Broadcast ==
  /\ pc = "send" /\ todo # {}
  /\ \E u \in todo :
       /\ tries' = [tries EXCEPT ![u] = @ + 1]
       /\ todo' = todo \ {u}
  /\ deadline' = now + SendTimeout
  /\ UNCHANGED <<now, storeVars, allowed, pc, wake, nextTick, ticked, card,
                 saves, scans, upSince, restarts>>

BroadcastOver ==
  /\ pc = "send" /\ todo = {}
  /\ ScanOver
  /\ deadline' = 0
  /\ UNCHANGED <<now, storeVars, allowed, wake, card, todo, tries,
                 saves, scans, upSince, restarts>>

(* The ticker drops a tick that finds another one waiting. *)
TickerFires ==
  /\ pc \notin {"down", "disabled", "first"}
  /\ nextTick = now
  /\ ticked' = TRUE
  /\ nextTick' = nextTick + Interval
  /\ UNCHANGED <<now, storeVars, allowed, pc, wake, deadline, card, todo,
                 tries, saves, scans, upSince, restarts>>

Worker ==
  \/ Fire \/ NoDecision \/ Decide \/ PersistDecision \/ Broadcast
  \/ BroadcastOver \/ TickerFires

Prune == PrunerStep /\ UNCHANGED <<now, workerVars>>

(* The chat handlers save decisions of their own. *)
ChatSave ==
  /\ pc # "down"
  /\ Save
  /\ UNCHANGED <<now, prunerVars, purgedTo, young, failures, workerVars>>

Kill ==
  /\ pc # "down" /\ restarts < MaxRestarts
  /\ restarts' = restarts + 1
  /\ pc' = "down" /\ ticked' = FALSE /\ card' = None /\ todo' = {}
  /\ tries' = NoTries /\ saves' = 0
  /\ wake' = 0 /\ nextTick' = 0 /\ deadline' = 0
  /\ StopPruner
  /\ UNCHANGED <<now, rows, created, purgedTo, young, failures, allowed,
                 scans, upSince>>

CallIsOut == pc \in {"ask", "save"} \/ (pc = "send" /\ todo # {})

Tick ==
  /\ now < MaxNow
  /\ PrunerIdle
  /\ \/ pc \in {"down", "disabled"}
     \/ pc = "first" /\ now < wake
     \/ pc = "idle" /\ ~ticked /\ now < nextTick
     \/ CallIsOut /\ now < deadline
  /\ now' = now + 1
  /\ UNCHANGED <<storeVars, workerVars>>

Next == Start \/ Worker \/ Prune \/ ChatSave \/ Kill \/ Tick

Spec == Init /\ [][Next]_vars

-----------------------------------------------------------------------------
(* Properties.                                                             *)

(* Every M5 bar that closes while the worker is up is scanned before the   *)
(* next one closes, and no bar is scanned twice, not even by a worker      *)
(* started anew in the middle of it: neither the time a scan takes nor the *)
(* moment the ticker is made adds up (Run, timeUntilNextFire).             *)
EveryBarScannedOnce ==
  /\ \A b \in DOMAIN scans : scans[b] <= 1
  /\ pc \notin {"down", "disabled"} =>
       \A b \in Bar(upSince) + 1 .. Bar(now) - 1 : scans[b] = 1

(* A decision is saved once and shown to every subscriber, each tried      *)
(* once, whatever fails before or among them; and a card goes to nobody    *)
(* who is not on a list (persistDecision, broadcast, Subscribers).         *)
EachCardOnce ==
  /\ saves <= 1
  /\ \A u \in Users : tries[u] <= 1 /\ (tries[u] = 1 => saves = 1 /\ u \in Subscribers)
  /\ pc = "idle" /\ card # None => \A u \in Subscribers : tries[u] = 1

(* While sizing is on the stop costs, or by a stop on the wrong side of    *)
(* the entry gains, the budgeted amount, whatever the symbol's contract;   *)
(* and the ratio shown is the one of the distances, whatever the lot       *)
(* (sizeLotForRisk, estimatedPnLUSDT, riskRewardRatio).                    *)
CardRiskIsTheBudget ==
  card # None =>
    LET d == card.decision
        distance == Magnitude(d.entry - d.sl)
    IN /\ Risk > 0 /\ distance > 0 =>
            Magnitude(card.slPnL.num) = Risk * card.slPnL.den
       /\ card.rr.num * distance = Magnitude(d.tp - d.entry) * card.rr.den \/ distance = 0
       /\ card.slPnL.num > 0 <=> (d.sl > d.entry) = (d.action = "BUY") /\ distance > 0
=============================================================================
