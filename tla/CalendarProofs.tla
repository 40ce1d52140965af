--------------------------- MODULE CalendarProofs ---------------------------
(***************************************************************************)
(* Proofs about the news calendar, for any number of readers, any feed and *)
(* any TTLs.                                                               *)
(***************************************************************************)
EXTENDS Calendar, TLAPS

(* The types, without the bounds of the clock, which nothing below needs.  *)
Shape ==
  /\ published \in Versions /\ cached \in Versions
  /\ refreshing \in BOOLEAN
  /\ pc \in [Refreshers -> Busy \cup {"idle", "kicked"}]
  /\ got \in [Refreshers -> Versions]

(* What a refresher has in its hands is between the cache and the feed.    *)
InBetween ==
  /\ cached <= published
  /\ \A r \in Refreshers :
       pc[r] = "fetched" => cached <= got[r] /\ got[r] <= published

IInv == Shape /\ SingleFlight /\ InBetween

LEMMA RefreshersFact == Poller \in Refreshers
  BY DEF Refreshers

LEMMA InitIInv == Init => IInv
<1> SUFFICES ASSUME Init PROVE IInv
  OBVIOUS
<1>1. \A r \in Refreshers : pc[r] \in {"idle", "kicked"}
  BY DEF Init
<1>2. Shape
  BY CalendarAssumption DEF Init, Shape
<1>3. SingleFlight
  BY <1>1 DEF Init, SingleFlight, Busy
<1>4. InBetween
  BY <1>1 DEF Init, InBetween
<1> QED BY <1>2, <1>3, <1>4 DEF IInv

LEMMA NextIInv == IInv /\ [Next]_vars => IInv'
<1> SUFFICES ASSUME IInv, [Next]_vars PROVE IInv'
  OBVIOUS
<1> USE DEF IInv, Shape, Busy
<1>n. Versions \subseteq Nat
  BY CalendarAssumption
<1>1. CASE Publish
  <2>1. Shape'
    BY <1>1 DEF Publish
  <2>2. SingleFlight'
    BY <1>1 DEF Publish, SingleFlight
  <2>3. InBetween'
    <3>1. published' = published + 1 /\ UNCHANGED <<cached, pc, got>>
      BY <1>1 DEF Publish
    <3>2. \A r \in Refreshers : got[r] \in Nat
      BY <1>n
    <3>3. cached \in Nat /\ published \in Nat
      BY <1>n
    <3> QED BY <3>1, <3>2, <3>3 DEF InBetween
  <2> QED BY <2>1, <2>2, <2>3
<1>2. CASE Arm
  BY <1>2 DEF Arm, SingleFlight, InBetween
<1>3. CASE Tick
  BY <1>3 DEF Tick, SingleFlight, InBetween
<1>4. CASE Fire
  BY <1>4, RefreshersFact DEF Fire, Move, SingleFlight, InBetween
<1>5. ASSUME NEW r \in Readers, Read(r) PROVE IInv'
  <2>1. r \in Refreshers
    BY DEF Refreshers
  <2> QED BY <1>5, <2>1 DEF Read, Move, SingleFlight, InBetween
<1>6. ASSUME NEW r \in Refreshers, Begin(r) PROVE IInv'
  <2>1. CASE refreshing
    BY <1>6, <2>1 DEF Begin, Move, SingleFlight, InBetween
  <2>2. CASE ~refreshing
    <3>1. pc' = [pc EXCEPT ![r] = "fetching"] /\ refreshing' = TRUE
      BY <1>6, <2>2 DEF Begin, Move
    <3>2. \A s \in Refreshers : pc[s] \notin Busy
      BY <2>2 DEF SingleFlight
    <3>3. UNCHANGED <<published, cached, got>>
      BY <1>6 DEF Begin
    <3> QED BY <3>1, <3>2, <3>3 DEF SingleFlight, InBetween
  <2> QED BY <2>1, <2>2
<1>7. ASSUME NEW r \in Refreshers, Answer(r) PROVE IInv'
  BY <1>7, <1>n DEF Answer, Move, SingleFlight, InBetween
<1>8. ASSUME NEW r \in Refreshers, Fail(r) PROVE IInv'
  BY <1>8 DEF Fail, Move, SingleFlight, InBetween
<1>9. ASSUME NEW r \in Refreshers, Apply(r) PROVE IInv'
  <2>1. /\ pc[r] = "fetched"
        /\ pc' = [pc EXCEPT ![r] = "applied"]
        /\ cached' = got[r]
        /\ UNCHANGED <<published, refreshing, got>>
    BY <1>9 DEF Apply, Move
  (* Nobody else holds an older snapshot.                                  *)
  <2>2. \A s \in Refreshers : pc'[s] # "fetched"
    BY <2>1 DEF SingleFlight
  <2>3. Shape' /\ SingleFlight'
    BY <2>1 DEF SingleFlight
  <2> QED BY <2>1, <2>2, <2>3 DEF InBetween
<1>10. ASSUME NEW r \in Refreshers, Release(r) PROVE IInv'
  <2>1. /\ pc[r] = "applied"
        /\ pc' = [pc EXCEPT ![r] = "idle"]
        /\ refreshing' = FALSE
        /\ UNCHANGED <<published, cached, got>>
    BY <1>10 DEF Release, Move
  <2>2. \A s \in Refreshers : pc'[s] \notin Busy
    BY <2>1 DEF SingleFlight
  <2> QED BY <2>1, <2>2 DEF SingleFlight, InBetween
<1>11. CASE UNCHANGED vars
  BY <1>11 DEF vars, SingleFlight, InBetween
<1> QED
  BY <1>1, <1>2, <1>3, <1>4, <1>5, <1>6, <1>7, <1>8, <1>9, <1>10, <1>11
     DEF Next, RefresherStep

(* However many readers and the poller meet at a stale cache, one fetch is *)
(* in flight and the flag is not left behind (Refresh).                    *)
THEOREM SingleFlightAlways == Spec => []SingleFlight
<1>1. IInv => SingleFlight
  BY DEF IInv
<1> QED BY InitIInv, NextIInv, <1>1, PTL DEF Spec

(* The cache follows the feed and never goes back: every step of the       *)
(* calendar is a step of Follower on published and cached, or leaves both. *)
THEOREM CacheFollowsFeed == Spec => NeverGoesBack
<1>1. Init => Cache!Init
  BY DEF Init, Cache!Init
<1>2. IInv /\ [Next]_vars => [Cache!Next]_<<published, cached>>
  <2> SUFFICES ASSUME IInv, [Next]_vars
               PROVE Cache!Next \/ UNCHANGED <<published, cached>>
    OBVIOUS
  <2>1. CASE Publish
    BY <2>1 DEF Publish, Cache!Next, Cache!Advance
  <2>2. ASSUME NEW r \in Refreshers, Apply(r) PROVE Cache!Next
    <3>1. cached <= got[r] /\ got[r] <= published
      BY <2>2 DEF Apply, Move, IInv, InBetween
    <3>2. cached \in Nat /\ published \in Nat /\ got[r] \in Nat
      BY CalendarAssumption DEF IInv, Shape
    <3> QED BY <2>2, <3>1, <3>2 DEF Apply, Cache!Next, Cache!Catch
  <2>3. ASSUME NEW r \in Refreshers,
               Begin(r) \/ Answer(r) \/ Fail(r) \/ Release(r)
        PROVE UNCHANGED <<published, cached>>
    BY <2>3 DEF Begin, Answer, Fail, Release
  <2>4. ASSUME NEW r \in Readers, Read(r) PROVE UNCHANGED <<published, cached>>
    BY <2>4 DEF Read
  <2>5. CASE Arm \/ Fire \/ Tick \/ UNCHANGED vars
    BY <2>5 DEF Arm, Fire, Tick, vars
  <2> QED BY <2>1, <2>2, <2>3, <2>4, <2>5 DEF Next, RefresherStep
<1> QED BY InitIInv, NextIInv, <1>1, <1>2, PTL DEF Spec, NeverGoesBack, Cache!Spec

-----------------------------------------------------------------------------
(* The poller's rhythm.  R is in flight since the last step of the clock   *)
(* at most; a ticker that is armed was armed within a step of the last     *)
(* attempt, for RefreshTTL at most.                                        *)
Slack(r) == IF late[r] THEN 1 ELSE 0

Clock ==
  /\ now \in Nat \ {0} /\ lastAttempt \in Nat /\ lastAttempt <= now
  /\ due \in Nat /\ consecutiveFailures \in 0 .. 4
  /\ late \in [Refreshers -> BOOLEAN]

Rhythm ==
  /\ \A r \in Refreshers : pc[r] \in Busy => now <= lastAttempt + Slack(r)
  /\ pc[Poller] = "kicked" => now <= lastAttempt + RefreshTTL + 1 + Slack(Poller)
  /\ pc[Poller] # "idle" => due = 0
  /\ pc[Poller] = "idle" /\ due = 0 => now <= lastAttempt + 1
  /\ pc[Poller] = "idle" /\ due # 0 =>
       now <= due /\ due <= lastAttempt + RefreshTTL + 1

PInv == IInv /\ Clock /\ Rhythm

(* Backoff saturates at the steady-state TTL.                              *)
LEMMA EffectiveTTLBounds ==
  ASSUME Clock PROVE EffectiveTTL \in 1 .. RefreshTTL
<1>1. BaseTTL \in 1 .. RefreshTTL
  BY CalendarAssumption DEF BaseTTL
<1>2. Doubled(BaseTTL) \in Nat \ {0}
  BY <1>1 DEF Doubled
<1> QED BY <1>1, <1>2, CalendarAssumption DEF EffectiveTTL

LEMMA InitPInv == Init => PInv
<1> SUFFICES ASSUME Init PROVE PInv
  OBVIOUS
<1>1. Clock
  BY DEF Init, Clock
<1>2. Rhythm
  BY RefreshersFact, CalendarAssumption DEF Init, Rhythm, Busy, Slack
<1> QED BY <1>1, <1>2, InitIInv DEF PInv

LEMMA NextPInv == PInv /\ [Next]_vars => PInv'
<1> SUFFICES ASSUME PInv, [Next]_vars PROVE PInv'
  OBVIOUS
<1>0. IInv'
  BY NextIInv DEF PInv
<1>r. RefreshTTL \in Nat \ {0} /\ Poller \in Refreshers /\ Poller \notin Readers
  BY CalendarAssumption, RefreshersFact
<1>c. Clock /\ pc \in [Refreshers -> Busy \cup {"idle", "kicked"}]
  BY DEF PInv, IInv, Shape
<1>h. Rhythm
  BY DEF PInv
<1> SUFFICES Clock' /\ Rhythm'
  BY <1>0 DEF PInv
<1> USE DEF Clock, Rhythm, Slack, Busy
<1>1. CASE Publish
  BY <1>1, <1>c, <1>h DEF Publish
<1>2. CASE Arm
  <2>1. EffectiveTTL \in 1 .. RefreshTTL
    BY <1>c, EffectiveTTLBounds
  <2> QED BY <1>2, <2>1, <1>c, <1>h, <1>r DEF Arm
<1>3. CASE Tick
  <2>1. /\ now' = now + 1
        /\ late' = [r \in Refreshers |-> pc[r] # "idle"]
        /\ \A r \in Refreshers : pc[r] # "idle" => ~late[r]
        /\ IF due = 0 THEN pc[Poller] # "idle" ELSE due > now
        /\ UNCHANGED <<pc, due, lastAttempt, consecutiveFailures>>
    BY <1>3 DEF Tick
  <2>2. Clock'
    BY <2>1, <1>c
  <2>3. \A r \in Refreshers : pc[r] # "idle" => Slack(r) = 0 /\ Slack(r)' = 1
    BY <2>1, <1>c
  <2>4. \A r \in Refreshers : pc'[r] \in Busy => now' <= lastAttempt' + Slack(r)'
    BY <2>1, <2>3, <1>c, <1>h
  <2>5. pc'[Poller] = "kicked"
          => now' <= lastAttempt' + RefreshTTL + 1 + Slack(Poller)'
    BY <2>1, <2>3, <1>c, <1>h, <1>r
  <2>6. pc'[Poller] = "idle" => due' # 0 /\ now' <= due'
    BY <2>1, <1>c, <1>h, <1>r
  <2> QED BY <2>1, <2>2, <2>4, <2>5, <2>6, <1>c, <1>h, <1>r
<1>4. CASE Fire
  <2>1. /\ due # 0 /\ pc[Poller] = "idle"
        /\ pc' = [pc EXCEPT ![Poller] = "kicked"]
        /\ late' = [late EXCEPT ![Poller] = FALSE]
        /\ due' = 0
        /\ UNCHANGED <<now, lastAttempt, consecutiveFailures>>
    BY <1>4 DEF Fire, Move
  <2> QED BY <2>1, <1>c, <1>h, <1>r
<1>5. ASSUME NEW r \in Readers, Read(r) PROVE Clock' /\ Rhythm'
  <2>1. r \in Refreshers /\ r # Poller
    BY <1>r DEF Refreshers
  <2>2. /\ pc[r] = "idle"
        /\ pc' = [pc EXCEPT ![r] = "kicked"] \/ pc' = pc
        /\ late' = [late EXCEPT ![r] = FALSE]
        /\ UNCHANGED <<now, due, lastAttempt, consecutiveFailures>>
    BY <1>5 DEF Read, Move
  <2>3. Clock'
    BY <2>1, <2>2, <1>c
  <2>4. \A s \in Refreshers : s # r => pc'[s] = pc[s] /\ late'[s] = late[s]
    BY <2>1, <2>2, <1>c
  <2>5. pc'[r] \notin Busy
    BY <2>1, <2>2, <1>c
  <2>6. Rhythm'
    BY <2>1, <2>2, <2>4, <2>5, <1>h, <1>r
  <2> QED BY <2>3, <2>6
<1>6. ASSUME NEW r \in Refreshers, Begin(r) PROVE Clock' /\ Rhythm'
  <2>1. pc[r] = "kicked" /\ UNCHANGED <<now, due, late, consecutiveFailures>>
    BY <1>6 DEF Begin, Move
  <2>2. CASE refreshing
    (* Whoever won has begun within the last step of the clock.            *)
    <3>1. PICK s \in Refreshers : pc[s] \in Busy
      BY <2>2 DEF PInv, IInv, SingleFlight
    <3>2. now <= lastAttempt + 1
      BY <3>1, <1>c, <1>h
    <3>3. pc' = [pc EXCEPT ![r] = "idle"] /\ UNCHANGED lastAttempt
      BY <1>6, <2>2 DEF Begin, Move
    <3> QED BY <2>1, <3>2, <3>3, <1>c, <1>h, <1>r
  <2>3. CASE ~refreshing
    <3>1. pc' = [pc EXCEPT ![r] = "fetching"] /\ lastAttempt' = now
      BY <1>6, <2>3 DEF Begin, Move
    <3> QED BY <2>1, <3>1, <1>c, <1>h, <1>r
  <2> QED BY <2>2, <2>3
<1>7. ASSUME NEW r \in Refreshers, Answer(r) \/ Fail(r) \/ Apply(r)
      PROVE Clock' /\ Rhythm'
  <2>1. /\ pc[r] \in Busy
        /\ \E to \in Busy : pc' = [pc EXCEPT ![r] = to]
        /\ UNCHANGED <<now, due, late, lastAttempt>>
    BY <1>7 DEF Answer, Fail, Apply, Move
  <2>2. consecutiveFailures' \in 0 .. 4
    BY <1>7, <1>c DEF Answer, Fail, Apply
  <2> QED BY <2>1, <2>2, <1>c, <1>h, <1>r
<1>8. ASSUME NEW r \in Refreshers, Release(r) PROVE Clock' /\ Rhythm'
  <2>1. /\ pc[r] = "applied"
        /\ pc' = [pc EXCEPT ![r] = "idle"]
        /\ UNCHANGED <<now, due, late, lastAttempt, consecutiveFailures>>
    BY <1>8 DEF Release, Move
  <2> QED BY <2>1, <1>c, <1>h, <1>r
<1>9. CASE UNCHANGED vars
  BY <1>9, <1>c, <1>h DEF vars
<1> QED
  BY <1>1, <1>2, <1>3, <1>4, <1>5, <1>6, <1>7, <1>8, <1>9
     DEF Next, RefresherStep

(* An outage of any length, met by any number of readers, never makes the  *)
(* calendar try less often than once per RefreshTTL and Lag                *)
(* (effectiveTTLLocked's cap, StartBackgroundRefresh).                     *)
THEOREM PollNeverSilentAlways == Spec => []PollNeverSilent
<1>1. PInv => PollNeverSilent
  <2> SUFFICES ASSUME PInv PROVE PollNeverSilent
    OBVIOUS
  <2>1. RefreshTTL \in Nat /\ Poller \in Refreshers
    BY CalendarAssumption, RefreshersFact
  <2>2. pc[Poller] \in Busy \cup {"idle", "kicked"}
    BY <2>1 DEF PInv, IInv, Shape
  <2>3. now <= lastAttempt + RefreshTTL + 2
    BY <2>1, <2>2 DEF PInv, Clock, Rhythm, Slack, Busy
  <2> QED BY <2>1, <2>3 DEF PInv, Clock, PollNeverSilent, Lag
<1> QED BY InitPInv, NextPInv, <1>1, PTL DEF Spec

-----------------------------------------------------------------------------
(* The run-up to an event.  Long counts the steps for which what readers   *)
(* see has been stale and the event in the hot window: with none, a        *)
(* scanner that had its turn has left a refresher behind; after one it is  *)
(* fetching, or lost the flag to another that is; after two that one is    *)
(* late, and the clock waits for it.                                       *)
Flight == {"fetching", "fetched"}

InWindow(k) ==
  \E e \in Schedule[cached] : e >= now /\ e - now + k <= HotWindow

Long(k) ==
  /\ consecutiveFailures = 0
  /\ now - fetchedAt >= HotRefreshTTL + k
  /\ InWindow(k)

RunUp ==
  /\ fetchedAt \in Nat /\ fetchedAt <= now
  /\ fetchedAt = 0 => Schedule[cached] = {}
  /\ \A r \in Refreshers : pc[r] = "applied" /\ consecutiveFailures = 0 =>
       now <= fetchedAt + Slack(r)
  /\ Long(0) /\ scanned => \E r \in Refreshers : pc[r] \in Flight \cup {"kicked"}
  /\ Long(1) => \E r \in Refreshers : pc[r] \in Flight \/ (pc[r] = "kicked" /\ late[r])
  /\ Long(2) => \E r \in Refreshers : pc[r] \in Flight /\ late[r]
  /\ ~Long(3)

(* A step that leaves the cache and the clock alone, by a refresher that   *)
(* is not fetching or goes on to do so, keeps who is to refresh.           *)
LEMMA KeepsRunUp ==
  ASSUME PInv, RunUp,
         UNCHANGED <<now, cached, fetchedAt, consecutiveFailures, scanned>>,
         \A r \in Refreshers : late'[r] = late[r] \/ pc[r] = "idle",
         \A r \in Refreshers : pc[r] \in Flight => pc'[r] \in Flight,
         \A r \in Refreshers : pc[r] = "kicked" =>
           pc'[r] = "kicked" \/ \E s \in Refreshers : pc'[s] \in Flight,
         \A r \in Refreshers : pc'[r] = "applied" => pc[r] = "applied"
  PROVE  RunUp'
<1>1. \A k \in 0 .. 3 : Long(k)' <=> Long(k)
  BY DEF Long, InWindow
<1> HIDE DEF Long
<1> QED  BY <1>1 DEF RunUp, Flight, Slack

LEMMA InitRunUp == Init => RunUp
<1> SUFFICES ASSUME Init PROVE RunUp
  OBVIOUS
<1>1. fetchedAt = 0 /\ Schedule[cached] = {} /\ now = 1
  BY CalendarAssumption DEF Init
<1>2. \A k \in 0 .. 3 : ~Long(k)
  BY <1>1 DEF Long, InWindow
<1>3. \A r \in Refreshers : pc[r] # "applied"
  BY DEF Init
<1> QED  BY <1>1, <1>2, <1>3 DEF RunUp

LEMMA NextRunUp == PInv /\ RunUp /\ [Next]_vars => RunUp'
<1> SUFFICES ASSUME PInv, RunUp, [Next]_vars PROVE RunUp'
  OBVIOUS
<1>c. /\ now \in Nat \ {0} /\ fetchedAt \in Nat /\ fetchedAt <= now
      /\ consecutiveFailures \in 0 .. 4
      /\ late \in [Refreshers -> BOOLEAN]
      /\ pc \in [Refreshers -> Busy \cup {"idle", "kicked"}]
      /\ HotRefreshTTL \in Nat /\ HotRefreshTTL >= 2 /\ HotWindow \in Nat
      /\ Poller \in Refreshers
      /\ cached \in Versions /\ Schedule[cached] \subseteq Nat
  BY CalendarAssumption, RefreshersFact DEF PInv, IInv, Shape, Clock, RunUp
<1>1. CASE Publish \/ Arm \/ UNCHANGED vars
  <2>1. UNCHANGED <<now, cached, fetchedAt, consecutiveFailures, scanned, late, pc>>
    BY <1>1 DEF Publish, Arm, vars
  <2> QED  BY <2>1, KeepsRunUp
<1>2. CASE Fire
  <2>1. /\ UNCHANGED <<now, cached, fetchedAt, consecutiveFailures, scanned>>
        /\ pc[Poller] = "idle" /\ pc' = [pc EXCEPT ![Poller] = "kicked"]
        /\ late' = [late EXCEPT ![Poller] = FALSE]
    BY <1>2 DEF Fire, Move
  <2> QED  BY <1>c, <2>1, KeepsRunUp DEF Flight
<1>3. CASE Tick
  <2>1. /\ now' = now + 1 /\ scanned /\ scanned' = FALSE
        /\ late' = [r \in Refreshers |-> pc[r] # "idle"]
        /\ \A r \in Refreshers : pc[r] # "idle" => ~late[r]
        /\ UNCHANGED <<pc, cached, fetchedAt, consecutiveFailures>>
    BY <1>3 DEF Tick
  (* The event was in the window a step ago, and the cache as old.         *)
  <2>2. \A k \in 0 .. 2 : Long(k + 1)' => Long(k)
    BY <1>c, <2>1 DEF Long, InWindow
  <2>3. Long(1)' => Long(0) /\ scanned
    BY <2>1, <2>2
  <2>4. (Long(2)' => Long(1)) /\ (Long(3)' => Long(2))
    BY <2>2
  <2>5. \A r \in Refreshers : pc[r] # "idle" => late'[r]
    BY <2>1
  <2> HIDE DEF Long
  <2>6. Long(1)' => \E r \in Refreshers : pc'[r] \in Flight \/ (pc'[r] = "kicked" /\ late'[r])
    BY <2>1, <2>3, <2>5 DEF RunUp, Flight
  <2>7. Long(2)' => \E r \in Refreshers : pc'[r] \in Flight /\ late'[r]
    BY <2>1, <2>4, <2>5 DEF RunUp, Flight
  <2>8. ~Long(3)'
    BY <2>1, <2>4 DEF RunUp, Flight
  <2>9. ASSUME NEW r \in Refreshers, pc'[r] = "applied", consecutiveFailures' = 0
        PROVE  now' <= fetchedAt' + Slack(r)'
    <3>1. pc[r] = "applied" /\ ~late[r] /\ late'[r]
      BY <2>1, <2>9
    <3>2. now <= fetchedAt
      BY <1>c, <2>1, <2>9, <3>1 DEF RunUp, Slack
    <3> QED  BY <1>c, <2>1, <3>1, <3>2 DEF Slack
  <2>10. fetchedAt' \in Nat /\ fetchedAt' <= now' /\ (fetchedAt' = 0 => Schedule[cached'] = {})
    BY <1>c, <2>1 DEF RunUp
  <2> QED  BY <2>1, <2>6, <2>7, <2>8, <2>9, <2>10 DEF RunUp
<1>4. ASSUME NEW r \in Readers, Read(r) PROVE RunUp'
  <2>1. /\ UNCHANGED <<now, cached, fetchedAt, consecutiveFailures>>
        /\ pc[r] = "idle" /\ r \in Refreshers
        /\ pc' = IF Cold \/ Stale THEN [pc EXCEPT ![r] = "kicked"] ELSE pc
        /\ late' = [late EXCEPT ![r] = FALSE]
    BY <1>4 DEF Read, Move, Refreshers
  <2>2. \A k \in 0 .. 3 : Long(k)' <=> Long(k)
    BY <2>1 DEF Long, InWindow
  <2>3. \A s \in Refreshers : pc[s] # "idle" => pc'[s] = pc[s] /\ late'[s] = late[s]
    BY <1>c, <2>1
  (* Who reads in the run-up finds the cache stale.                        *)
  <2>4. Long(0) => Stale
    <3>1. SUFFICES ASSUME Long(0) PROVE Stale
      OBVIOUS
    <3>2. Imminent /\ fetchedAt # 0
      BY <1>c, <3>1 DEF Long, InWindow, Imminent, RunUp
    <3>3. EffectiveTTL = HotRefreshTTL
      BY <3>1, <3>2 DEF EffectiveTTL, BaseTTL, Long
    <3> QED  BY <1>c, <3>1, <3>2, <3>3 DEF Stale, Long
  <2>5. Long(0) => pc'[r] = "kicked"
    BY <1>c, <2>1, <2>4
  <2> HIDE DEF Long
  <2>6. \A s \in Refreshers : pc'[s] = "applied" => pc[s] = "applied" /\ late'[s] = late[s]
    BY <1>c, <2>1
  <2> QED  BY <2>1, <2>2, <2>3, <2>5, <2>6 DEF RunUp, Flight, Slack
<1>5. ASSUME NEW r \in Refreshers, Begin(r) PROVE RunUp'
  <2>1. /\ UNCHANGED <<now, cached, fetchedAt, consecutiveFailures, scanned, late>>
        /\ pc[r] = "kicked"
        /\ pc' = [pc EXCEPT ![r] = IF refreshing THEN "idle" ELSE "fetching"]
    BY <1>5 DEF Begin, Move
  <2>2. CASE ~refreshing
    BY <1>c, <2>1, <2>2, KeepsRunUp DEF Flight
  <2>3. CASE refreshing
    <3>1. PICK s \in Refreshers : pc[s] \in Busy
      BY <2>3 DEF PInv, IInv, SingleFlight
    <3>2. s # r /\ pc'[s] = pc[s]
      BY <1>c, <2>1, <3>1 DEF Busy
    <3>3. CASE pc[s] \in Flight
      BY <1>c, <2>1, <2>3, <3>2, <3>3, KeepsRunUp DEF Flight
    (* Whoever has the flag has just stored what it fetched, or failed.    *)
    <3>4. CASE pc[s] = "applied"
      <4>1. consecutiveFailures = 0 => now <= fetchedAt + 1
        BY <1>c, <3>4 DEF RunUp, Slack
      <4>2. \A k \in 0 .. 3 : ~Long(k)'
        BY <1>c, <2>1, <4>1 DEF Long
      <4>3. \A q \in Refreshers : pc'[q] = "applied" => pc[q] = "applied"
        BY <1>c, <2>1, <2>3
      <4> HIDE DEF Long
      <4> QED  BY <2>1, <4>2, <4>3 DEF RunUp, Slack
    <3> QED  BY <3>1, <3>3, <3>4 DEF Busy, Flight
  <2> QED  BY <2>2, <2>3
<1>6. ASSUME NEW r \in Refreshers, Answer(r) \/ Release(r) PROVE RunUp'
  <2>1. /\ UNCHANGED <<now, cached, fetchedAt, consecutiveFailures, scanned, late>>
        /\ \/ pc[r] = "fetching" /\ pc' = [pc EXCEPT ![r] = "fetched"]
           \/ pc[r] = "applied" /\ pc' = [pc EXCEPT ![r] = "idle"]
    BY <1>6 DEF Answer, Release, Move
  <2>2. \A s \in Refreshers : pc[s] \in Flight => pc'[s] \in Flight
    BY <1>c, <2>1 DEF Flight
  <2>3. \A s \in Refreshers : pc[s] = "kicked" => pc'[s] = "kicked"
    BY <1>c, <2>1
  <2>4. \A s \in Refreshers : pc'[s] = "applied" => pc[s] = "applied"
    BY <1>c, <2>1
  <2> QED  BY <2>1, <2>2, <2>3, <2>4, KeepsRunUp
<1>7. ASSUME NEW r \in Refreshers, Fail(r) PROVE RunUp'
  <2>1. /\ UNCHANGED <<now, cached, fetchedAt>>
        /\ consecutiveFailures' # 0
    BY <1>7, <1>c DEF Fail
  <2>2. \A k \in 0 .. 3 : ~Long(k)'
    BY <2>1 DEF Long
  <2> HIDE DEF Long
  <2> QED  BY <2>1, <2>2 DEF RunUp
<1>8. ASSUME NEW r \in Refreshers, Apply(r) PROVE RunUp'
  <2>1. fetchedAt' = now /\ now' = now /\ consecutiveFailures' = 0 /\ late' = late
    BY <1>8 DEF Apply
  <2>2. \A k \in 0 .. 3 : ~Long(k)'
    BY <1>c, <2>1 DEF Long
  <2> HIDE DEF Long
  <2> QED  BY <1>c, <2>1, <2>2 DEF RunUp, Slack
<1> QED
  BY <1>1, <1>2, <1>3, <1>4, <1>5, <1>6, <1>7, <1>8 DEF Next, RefresherStep

(* In the run-up to an event, with a feed that answers, readers see        *)
(* nothing older than HotRefreshTTL and Lag, whoever wins the flag and     *)
(* whenever the poller's ticker was armed (effectiveTTLLocked,             *)
(* maybeKickRefresh).                                                      *)
THEOREM RunUpFreshAlways == Spec => []RunUpFresh
<1>1. PInv /\ RunUp => RunUpFresh
  <2> SUFFICES ASSUME PInv, RunUp, consecutiveFailures = 0,
                      NEW e \in Schedule[cached], e >= now, e - now < HotWindow - Lag
               PROVE  now - fetchedAt <= HotRefreshTTL + Lag
    BY DEF RunUpFresh
  <2>1. /\ now \in Nat /\ fetchedAt \in Nat /\ HotRefreshTTL \in Nat
        /\ HotWindow \in Nat /\ e \in Nat
    BY CalendarAssumption DEF PInv, IInv, Shape, Clock, RunUp
  <2>2. InWindow(3)
    BY <2>1 DEF InWindow, Lag
  <2>3. ~(now - fetchedAt >= HotRefreshTTL + 3)
    BY <2>2 DEF RunUp, Long
  <2> QED  BY <2>1, <2>3 DEF Lag
<1> QED  BY InitPInv, NextPInv, InitRunUp, NextRunUp, <1>1, PTL DEF Spec

=============================================================================
