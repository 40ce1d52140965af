----------------------------- MODULE AlertWorker -----------------------------
(***************************************************************************)
(* modules/advisor/biz/market/news/alert_worker.go: every TickInterval (the *)
(* unit of time) the worker scans the calendar for high-impact events and  *)
(* pushes a warning to every subscribed chat, once per event, tier and     *)
(* chat.  A scan fixes its clock reading, its events and its subscribers   *)
(* when it begins; its sends then take time, one after the other.          *)
(*                                                                         *)
(* An event's ID contains its time (makeEventID), so an event that is put  *)
(* off leaves the calendar and another one enters it.  Gate, extended here, *)
(* is the other reader of the calendar: it tells the model what to advise. *)
(*                                                                         *)
(* External: the calendar and the subscriptions, which others change, and  *)
(* Telegram, which may fail, or deliver and report an error.               *)
(***************************************************************************)
EXTENDS Gate, FiniteSets

CONSTANTS
  Chats,
  Tiers,       (* defaultTiers: the set of their offsets                   *)
  Lookahead,
  SentTTL,
  ScanSpan,    (* how long the sends of one scan may take                  *)
  MaxNow,      (* bound: the clock stops here                              *)
  MaxFaults,   (* bound: failed sends, answers lost and restarts           *)
  MaxChanges   (* bound: changes of the calendar and the subscriptions     *)

Keys == Events \X Tiers \X Chats

ASSUME AlertAssumption ==
  /\ Tiers \subseteq Nat \ {0} /\ Tiers # {}
  /\ Lookahead \in Nat /\ \A t \in Tiers : t <= Lookahead
  /\ SentTTL \in Nat /\ \A t \in Tiers : t <= SentTTL
  /\ ScanSpan \in Nat
  /\ MaxNow \in Nat /\ MaxFaults \in Nat /\ MaxChanges \in Nat

(* A send gives up after 5 s and the tightest tier is 5 min: a scan fits   *)
(* as long as it has fewer than 60 sends that all time out.                *)
ASSUME ScansFitTiers == \A t \in Tiers : 1 < t /\ ScanSpan < t

VARIABLES
  now,
  calendar, subscribers,
  ticked,        (* the ticker's channel holds a tick                      *)
  scanAt, todo,  (* the running scan: its clock and the sends left         *)
  sent,          (* key -> when the scan began that sent it                *)
  pushes, lost,  (* history: deliveries per key; those not acknowledged    *)
  failed,        (* history: keys a send of which failed                   *)
  since,         (* history: since when the worker knows event and chat    *)
  faults, restarts, changes

vars == <<now, calendar, subscribers, ticked, scanAt, todo, sent, pushes, lost,
          failed, since, faults, restarts, changes>>

Scanning == todo # {}

-----------------------------------------------------------------------------
(* Seeded fault: a tier is due at its minute only.                         *)
FittingExactly(delta) == {t \in Tiers : delta = t}

(* pickTier: the tightest tier that still bounds delta.                    *)
Fitting(delta)  == {t \in Tiers : delta <= t}
PickTier(delta) == CHOOSE t \in Fitting(delta) : \A u \in Fitting(delta) : t <= u

(* Calendar.HighImpactEventsWithin, and scan's own test for delta <= 0.    *)
Upcoming == {e \in calendar : /\ Impact[e] = "high"
                              /\ Time[e] > now /\ Time[e] - now <= Lookahead}

(* Seeded fault: nothing is collected.                                     *)
KeptForEver == sent

(* gcSent.                                                                 *)
Kept == [k \in {k \in DOMAIN sent : sent[k] + SentTTL >= now} |-> sent[k]]

-----------------------------------------------------------------------------
Init ==
  /\ now = 1
  /\ calendar \in SUBSET Events /\ subscribers \in SUBSET Chats
  /\ ticked = TRUE   (* the immediate scan of Run                          *)
  /\ scanAt = 0 /\ todo = {}
  /\ sent = [k \in {} |-> 0]
  /\ pushes = [k \in Keys |-> 0] /\ lost = [k \in Keys |-> 0]
  /\ failed = {}
  /\ since = [p \in Events \X Chats |-> 1]
  /\ faults = 0 /\ restarts = 0 /\ changes = 0

(* Seeded fault: every tier that fits, not just the tightest.              *)
ScanAllTiers ==
  /\ ticked /\ ~Scanning
  /\ ticked' = FALSE
  /\ scanAt' = now
  /\ sent' = Kept
  /\ todo' = {k \in Upcoming \X Tiers \X subscribers :
                 k[2] \in Fitting(Time[k[1]] - now)}
  /\ UNCHANGED <<now, calendar, subscribers, pushes, lost, failed, since, faults,
                 restarts, changes>>

(* scan, up to its loop.                                                   *)
Scan ==
  /\ ticked /\ ~Scanning
  /\ ticked' = FALSE
  /\ scanAt' = now
  /\ sent' = Kept
  /\ todo' = {<<e, PickTier(Time[e] - now), c>> :
                e \in {e \in Upcoming : Fitting(Time[e] - now) # {}},
                c \in subscribers}
  /\ UNCHANGED <<now, calendar, subscribers, pushes, lost, failed, since, faults,
                 restarts, changes>>

(* The loop's next pair: events by time, chats in any order.               *)
Take(k) ==
  /\ k \in todo
  /\ \A other \in todo : Time[k[1]] <= Time[other[1]]
  /\ todo' = todo \ {k}
  /\ UNCHANGED <<now, calendar, subscribers, ticked, scanAt, since, changes>>

Skip(k) ==
  /\ Take(k)
  /\ k \in DOMAIN sent
  /\ UNCHANGED <<sent, pushes, lost, failed, faults, restarts>>

(* Seeded fault: a mark replaces the earlier ones.                         *)
MarkSentAlone(k) == sent' = [j \in {k} |-> scanAt]

MarkSent(k) ==
  sent' = [j \in DOMAIN sent \cup {k} |-> IF j = k THEN scanAt ELSE sent[j]]

Push(k) ==
  /\ Take(k)
  /\ k \notin DOMAIN sent
  /\ MarkSent(k)
  /\ pushes' = [pushes EXCEPT ![k] = @ + 1]
  /\ UNCHANGED <<lost, failed, faults, restarts>>

Fault == faults < MaxFaults /\ faults' = faults + 1

PushFails(k) ==
  /\ Take(k) /\ Fault
  /\ k \notin DOMAIN sent
  /\ failed' = failed \cup {k}
  /\ UNCHANGED <<sent, pushes, lost, restarts>>

AnswerLost(k) ==
  /\ Take(k) /\ Fault
  /\ k \notin DOMAIN sent
  /\ pushes' = [pushes EXCEPT ![k] = @ + 1]
  /\ lost' = [lost EXCEPT ![k] = @ + 1]
  /\ UNCHANGED <<sent, failed, restarts>>

(* The process dies and comes back: sent is in memory only.                *)
Restart ==
  /\ Fault
  /\ restarts' = restarts + 1
  /\ sent' = [k \in {} |-> 0]
  /\ todo' = {}
  /\ ticked' = TRUE
  /\ since' = [p \in DOMAIN since |-> now]
  /\ UNCHANGED <<now, calendar, subscribers, scanAt, pushes, lost, failed, changes>>

Change == changes < MaxChanges /\ changes' = changes + 1

(* Events enter and leave the calendar with its refreshes ...              *)
Reschedule(e) ==
  /\ Change
  /\ calendar' = IF e \in calendar THEN calendar \ {e} ELSE calendar \cup {e}
  /\ since' = [p \in Events \X Chats |-> IF p[1] = e THEN now ELSE since[p]]
  /\ UNCHANGED <<now, subscribers, ticked, scanAt, todo, sent, pushes, lost,
                 failed, faults, restarts>>

(* ... and chats subscribe, opt out or fall silent.                        *)
Subscribe(c) ==
  /\ Change
  /\ subscribers' = IF c \in subscribers THEN subscribers \ {c}
                    ELSE subscribers \cup {c}
  /\ since' = [p \in Events \X Chats |-> IF p[2] = c THEN now ELSE since[p]]
  /\ UNCHANGED <<now, calendar, ticked, scanAt, todo, sent, pushes, lost, failed,
                 faults, restarts>>

(* Time passes while the worker waits, or while a scan has sends to do;    *)
(* a tick the worker is not there to take stays in the ticker's channel,   *)
(* which holds one.                                                        *)
Tick ==
  /\ now < MaxNow
  /\ IF Scanning THEN now - scanAt < ScanSpan ELSE ~ticked
  /\ now' = now + 1
  /\ ticked' = TRUE
  /\ UNCHANGED <<calendar, subscribers, scanAt, todo, sent, pushes, lost, failed,
                 since, faults, restarts, changes>>

Next ==
  \/ Scan \/ Tick \/ Restart
  \/ \E k \in Keys : Skip(k) \/ Push(k) \/ PushFails(k) \/ AnswerLost(k)
  \/ \E e \in Events : Reschedule(e)
  \/ \E c \in Chats : Subscribe(c)

Spec == Init /\ [][Next]_vars

-----------------------------------------------------------------------------
(* scan, alreadySent, markSent and gcSent together: a chat gets a warning  *)
(* twice only if the answer to an earlier one was lost or the process was  *)
(* restarted, however events and chats come and go, whenever gcSent runs.  *)
PushedOnce == \A k \in Keys : pushes[k] <= 1 + lost[k] + restarts

(* pickTier and the ticker: if chat and event were there since the         *)
(* tightest tier began, the process was up and no send failed, the chat    *)
(* has been warned when the event comes, although scans overrun their tick *)
(* and the ticker drops what it cannot hold.                               *)
Tightest == CHOOSE t \in Tiers : \A u \in Tiers : t <= u

NobodyIsMissed ==
  \A e \in calendar, c \in subscribers :
    LET k == <<e, Tightest, c>> IN
    (/\ Impact[e] = "high" /\ now >= Time[e]
     /\ since[<<e, c>>] + Tightest <= Time[e]
     /\ ~Scanning
     /\ k \notin failed)
      => pushes[k] > 0

(* pickTier: warnings of one event only become more urgent, a chat that    *)
(* was told of the last minutes is not told of the half hour afterwards,   *)
(* not even by the scan that follows a restart.                            *)
WarningsTighten ==
  [][\A e \in Events, c \in Chats, t \in Tiers :
       pushes'[<<e, t, c>>] > pushes[<<e, t, c>>]
         => \A u \in Tiers : u < t => pushes[<<e, u, c>>] = 0]_vars

(* renderAlertMessage promises the warned chat that recommendations pause  *)
(* "until the news is out" (alert_worker.go:274), and before that asks to  *)
(* wait with new setups: the gate, which decides from the same calendar    *)
(* with windows of its own, keeps the promise while the event stands, and  *)
(* no other event talks it out of it.                                      *)
WarnedMeansPaused ==
  \A k \in Keys :
    LET e     == k[1]
        state == WindowAt(calendar, now)
    IN  pushes[k] > 0 /\ e \in calendar /\ now <= Time[e] + ActivePost =>
          /\ k[2] <= ActivePre \/ now >= Time[e] => state = "active"
          /\ k[2] <= PreMin => state \in {"pre", "active"}

(* gcSent: the dedupe table does not grow for ever; what is older than     *)
(* SentTTL goes with the next scan.                                        *)
SentBounded ==
  \A k \in DOMAIN sent : sent[k] + SentTTL + ScanSpan + 1 >= now

=============================================================================
