------------------------------ MODULE Calendar ------------------------------
(***************************************************************************)
(* modules/advisor/biz/market/news/calendar.go: the in-memory calendar of  *)
(* economic events, refreshed from a feed by a background poller and by    *)
(* every reader that finds it cold or stale.                               *)
(*                                                                         *)
(* A refresher is a goroutine that runs Refresh: the Poller, or one that a *)
(* reader's maybeKickRefresh has started.  Time is counted in units of     *)
(* half of HotRefreshTTL or less (the scanner comes once a minute, a hot   *)
(* cache lives for five); a fetch is over within its 5 s or 10 s timeout,  *)
(* so at most one clock step falls into it.                                *)
(*                                                                         *)
(* External: the feed.  It publishes numbered snapshots; Schedule[v] is    *)
(* the set of event times of snapshot v.                                   *)
(***************************************************************************)
EXTENDS Integers, FiniteSets

CONSTANTS
  Readers,        (* slots for the goroutines that readers start           *)
  Poller,         (* the goroutine of StartBackgroundRefresh               *)
  Scanner,        (* the reader that comes every minute: the AlertWorker   *)
  Schedule,       (* snapshot number -> event times                        *)
  RefreshTTL,     (* DefaultRefreshTTL                                     *)
  HotRefreshTTL,
  HotWindow,
  MaxNow          (* bound: the clock stops here                           *)

Refreshers == Readers \cup {Poller}
Versions   == DOMAIN Schedule

ASSUME CalendarAssumption ==
  /\ Scanner \in Readers /\ Poller \notin Readers
  /\ Versions \subseteq Nat /\ 0 \in Versions
  /\ \A v \in Versions : Schedule[v] \subseteq Nat
  /\ Schedule[0] = {}
  /\ RefreshTTL \in Nat \ {0} /\ HotRefreshTTL \in 2 .. RefreshTTL
  /\ HotWindow \in Nat
  /\ MaxNow \in Nat

VARIABLES
  now,
  published,            (* the feed's latest snapshot                      *)
  cached, fetchedAt,    (* events and fetchedAt; 0 is the zero time        *)
  consecutiveFailures,  (* saturates at 4: larger counts act alike         *)
  refreshing,           (* the single-flight flag                          *)
  pc, got, late,        (* per refresher: where it is, what it fetched,    *)
                        (* whether the clock moved since it was started    *)
  due,                  (* when the poller's ticker fires; 0 is not armed  *)
  scanned,              (* the scanner has read since the clock moved      *)
  lastAttempt           (* history: when the last fetch began              *)

vars == <<now, published, cached, fetchedAt, consecutiveFailures, refreshing,
          pc, got, late, due, scanned, lastAttempt>>

Init ==
  /\ now = 1 /\ published = 0
  /\ cached = 0 /\ fetchedAt = 0 /\ consecutiveFailures = 0
  /\ refreshing = FALSE
  /\ pc = [r \in Refreshers |-> IF r = Poller THEN "kicked" ELSE "idle"]
  /\ got = [r \in Refreshers |-> 0]
  /\ late = [r \in Refreshers |-> FALSE]
  /\ due = 0 /\ scanned = FALSE /\ lastAttempt = now

-----------------------------------------------------------------------------
(* effectiveTTLLocked.                                                     *)

Imminent ==
  \E e \in Schedule[cached] : e >= now /\ e - now <= HotWindow

(* Seeded fault: no hot window.                                            *)
BaseTTLNeverHot == RefreshTTL

BaseTTL == IF Imminent THEN HotRefreshTTL ELSE RefreshTTL

Doubled(ttl) ==
  CASE consecutiveFailures = 1 -> 2 * ttl
    [] consecutiveFailures = 2 -> 4 * ttl
    [] OTHER                   -> 8 * ttl

(* Seeded fault: the backoff is not capped.                                *)
EffectiveTTLUncapped ==
  IF consecutiveFailures = 0 THEN BaseTTL ELSE Doubled(BaseTTL)

EffectiveTTL ==
  IF consecutiveFailures = 0 THEN BaseTTL
  ELSE IF Doubled(BaseTTL) > RefreshTTL THEN RefreshTTL ELSE Doubled(BaseTTL)

Cold  == Schedule[cached] = {} /\ fetchedAt = 0
Stale == fetchedAt # 0 /\ now - fetchedAt >= EffectiveTTL

-----------------------------------------------------------------------------
Move(r, from, to) == pc[r] = from /\ pc' = [pc EXCEPT ![r] = to]

(* The feed publishes a new snapshot.                                      *)
Publish ==
  /\ published + 1 \in Versions
  /\ published' = published + 1
  /\ UNCHANGED <<now, cached, fetchedAt, consecutiveFailures, refreshing, pc,
                 got, late, due, scanned, lastAttempt>>

(* A reader looks at the events: EventsAround, HighImpactEventsWithin.  It *)
(* never waits; at most it leaves a refresher behind.                      *)
Read(r) ==
  /\ r \in Readers /\ pc[r] = "idle"
  /\ IF Cold \/ Stale THEN Move(r, "idle", "kicked") ELSE UNCHANGED pc
  /\ late' = [late EXCEPT ![r] = FALSE]
  /\ scanned' = (scanned \/ r = Scanner)
  /\ UNCHANGED <<now, published, cached, fetchedAt, consecutiveFailures,
                 refreshing, got, due, lastAttempt>>

(* Seeded fault: the flag is set but not looked at.                        *)
BeginUnguarded(r) ==
  /\ Move(r, "kicked", "fetching")
  /\ refreshing' = TRUE
  /\ lastAttempt' = now
  /\ UNCHANGED <<now, published, cached, fetchedAt, consecutiveFailures, got,
                 late, due, scanned>>

(* Refresh: the compare-and-swap, won or lost.                             *)
Begin(r) ==
  /\ IF refreshing
     THEN Move(r, "kicked", "idle") /\ UNCHANGED <<refreshing, lastAttempt>>
     ELSE /\ Move(r, "kicked", "fetching")
          /\ refreshing' = TRUE
          /\ lastAttempt' = now
  /\ UNCHANGED <<now, published, cached, fetchedAt, consecutiveFailures, got,
                 late, due, scanned>>

(* The feed answers with the snapshot it has now.                          *)
Answer(r) ==
  /\ Move(r, "fetching", "fetched")
  /\ got' = [got EXCEPT ![r] = published]
  /\ UNCHANGED <<now, published, cached, fetchedAt, consecutiveFailures,
                 refreshing, late, due, scanned, lastAttempt>>

(* Seeded fault: a failed fetch empties the cache.                         *)
FailForgets(r) ==
  /\ Move(r, "fetching", "applied")
  /\ cached' = 0
  /\ consecutiveFailures' = IF consecutiveFailures < 4
                            THEN consecutiveFailures + 1 ELSE 4
  /\ UNCHANGED <<now, published, fetchedAt, refreshing, got, late, due, scanned,
                 lastAttempt>>

(* The fetch fails, by a timeout too: the cache stays as it is.            *)
Fail(r) ==
  /\ Move(r, "fetching", "applied")
  /\ consecutiveFailures' = IF consecutiveFailures < 4
                            THEN consecutiveFailures + 1 ELSE 4
  /\ UNCHANGED <<now, published, cached, fetchedAt, refreshing, got, late, due,
                 scanned, lastAttempt>>

Apply(r) ==
  /\ Move(r, "fetched", "applied")
  /\ cached' = got[r]
  /\ fetchedAt' = now
  /\ consecutiveFailures' = 0
  /\ UNCHANGED <<now, published, refreshing, got, late, due, scanned, lastAttempt>>

(* The deferred release of the flag.                                       *)
Release(r) ==
  /\ Move(r, "applied", "idle")
  /\ refreshing' = FALSE
  /\ UNCHANGED <<now, published, cached, fetchedAt, consecutiveFailures, got,
                 late, due, scanned, lastAttempt>>

(* The poller's loop: reset the ticker to the TTL of this moment ...       *)
Arm ==
  /\ pc[Poller] = "idle" /\ due = 0
  /\ due' = now + EffectiveTTL
  /\ UNCHANGED <<now, published, cached, fetchedAt, consecutiveFailures,
                 refreshing, pc, got, late, scanned, lastAttempt>>

(* ... and refresh when it fires.                                          *)
Fire ==
  /\ due # 0 /\ now >= due
  /\ Move(Poller, "idle", "kicked")
  /\ late' = [late EXCEPT ![Poller] = FALSE]
  /\ due' = 0
  /\ UNCHANGED <<now, published, cached, fetchedAt, consecutiveFailures,
                 refreshing, got, scanned, lastAttempt>>

(* Time passes once the scanner had its turn, the poller's timer is served *)
(* and every refresh that began before the last step is over.              *)
Tick ==
  /\ now < MaxNow
  /\ scanned
  /\ IF due = 0 THEN pc[Poller] # "idle" ELSE due > now
  /\ \A r \in Refreshers : pc[r] # "idle" => ~late[r]
  /\ now' = now + 1
  /\ late' = [r \in Refreshers |-> pc[r] # "idle"]
  /\ scanned' = FALSE
  /\ UNCHANGED <<published, cached, fetchedAt, consecutiveFailures, refreshing,
                 pc, got, due, lastAttempt>>

RefresherStep(r) ==
  Begin(r) \/ Answer(r) \/ Fail(r) \/ Apply(r) \/ Release(r)

Next ==
  \/ Publish \/ Arm \/ Fire \/ Tick
  \/ \E r \in Readers : Read(r)
  \/ \E r \in Refreshers : RefresherStep(r)

Spec == Init /\ [][Next]_vars

-----------------------------------------------------------------------------
Busy == {"fetching", "fetched", "applied"}

(* The compare-and-swap of Refresh with its deferred release: however many *)
(* readers find the cache stale together with the poller, one fetch is in  *)
(* flight, and the flag is never left set by a refresher that has ended.   *)
SingleFlight ==
  /\ \A r, s \in Refreshers : pc[r] \in Busy /\ pc[s] \in Busy => r = s
  /\ refreshing <=> \E r \in Refreshers : pc[r] \in Busy

(* Refresh against the abstract cache: a slow fetch that answers after a   *)
(* newer snapshot was stored would put readers back to the older one.      *)
Cache == INSTANCE Follower WITH source <- published, copy <- cached
NeverGoesBack == Cache!Spec

Lag == 2

(* effectiveTTLLocked and StartBackgroundRefresh: however long an outage   *)
(* lasts, backoff never makes the poller try less often than once per      *)
(* RefreshTTL, and Lag: the fetch before and the start of the next take up *)
(* to a step each.                                                         *)
PollNeverSilent == now - lastAttempt <= RefreshTTL + Lag

(* HotWindow and HotRefreshTTL: once an event is well inside the window    *)
(* and the feed is healthy, what readers see of it is no older than        *)
(* HotRefreshTTL and Lag, although the poller armed its ticker for an hour *)
(* before the window opened: maybeKickRefresh, called by the worker's      *)
(* scans, has to notice.                                                   *)
RunUpFresh ==
  (/\ consecutiveFailures = 0
   /\ \E e \in Schedule[cached] : e >= now /\ e - now < HotWindow - Lag)
     => now - fetchedAt <= HotRefreshTTL + Lag

=============================================================================
