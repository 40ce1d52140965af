-------------------------- MODULE AlertWorkerProofs --------------------------
(***************************************************************************)
(* Proofs about the alert worker, for any events, chats and tiers.         *)
(***************************************************************************)
EXTENDS AlertWorker, WellFoundedInduction, TLAPS

LEMMA HasLeast ==
  ASSUME NEW T, T \subseteq Nat, T # {}
  PROVE  \E t \in T : \A u \in T : t <= u
<1>1. IsWellFoundedOn(OpToRel(<, Nat), Nat)
  BY NatLessThanWellFounded, Zenon
<1>2. PICK t \in T : \A u \in T : ~(<<u, t>> \in OpToRel(<, Nat))
  BY <1>1, WFMin
<1>3. \A u \in T : ~(u < t)
  BY <1>2 DEF OpToRel
<1> QED BY <1>3

LEMMA PickTierFits ==
  ASSUME NEW delta \in Nat, Fitting(delta) # {}
  PROVE  PickTier(delta) \in Tiers /\ delta <= PickTier(delta)
         /\ \A t \in Tiers : delta <= t => PickTier(delta) <= t
<1>1. Fitting(delta) \subseteq Nat
  BY AlertAssumption DEF Fitting
<1>2. \E t \in Fitting(delta) : \A u \in Fitting(delta) : t <= u
  BY <1>1, HasLeast
<1> QED BY <1>2 DEF PickTier, Fitting

-----------------------------------------------------------------------------
Shape ==
  /\ now \in Nat /\ scanAt \in Nat /\ scanAt <= now
  /\ calendar \subseteq Events /\ subscribers \subseteq Chats
  /\ todo \subseteq Keys
  /\ DOMAIN sent \subseteq Keys /\ \A k \in DOMAIN sent : sent[k] \in Nat
  /\ pushes \in [Keys -> Nat] /\ lost \in [Keys -> Nat]
  /\ restarts \in Nat

(* The sends of a scan are for high-impact events ahead of its clock, in   *)
(* the tier pickTier chose.                                                *)
Ahead ==
  \A k \in todo :
    /\ Impact[k[1]] = "high"
    /\ scanAt < Time[k[1]]
    /\ Time[k[1]] - scanAt <= k[2]
    /\ \A u \in Tiers : Time[k[1]] - scanAt <= u => k[2] <= u

(* An entry of the dedupe table is no older than its tier is wide.         *)
Dated == \A k \in DOMAIN sent : Time[k[1]] <= sent[k] + k[2]

(* A delivery not explained by a lost answer or a restart is still in the  *)
(* dedupe table, or its event is over: gcSent does not come too early.     *)
Accounted ==
  \A k \in Keys :
    \/ pushes[k] <= lost[k] + restarts
    \/ /\ pushes[k] <= 1 + lost[k] + restarts
       /\ k \in DOMAIN sent \/ Time[k[1]] <= scanAt

(* Whatever was pushed, the scans have come as close to the event.         *)
Closing ==
  \A k \in Keys :
    pushes[k] > 0 => Impact[k[1]] = "high" /\ Time[k[1]] <= scanAt + k[2]

IInv == Shape /\ Ahead /\ Dated /\ Accounted /\ Closing

LEMMA KeyParts ==
  ASSUME NEW k \in Keys
  PROVE  k[1] \in Events /\ k[2] \in Tiers /\ k[3] \in Chats
         /\ Time[k[1]] \in Nat /\ k[2] \in Nat
  BY AlertAssumption, GateAssumption DEF Keys

LEMMA InitIInv == Init => IInv
<1> SUFFICES ASSUME Init PROVE IInv
  OBVIOUS
<1>1. Shape
  BY DEF Init, Shape
<1>2. Ahead /\ Dated
  BY DEF Init, Ahead, Dated
<1>3. Accounted /\ Closing
  BY DEF Init, Accounted, Closing
<1> QED BY <1>1, <1>2, <1>3 DEF IInv

LEMMA NextIInv == IInv /\ [Next]_vars => IInv'
<1> SUFFICES ASSUME IInv, [Next]_vars PROVE IInv'
  OBVIOUS
<1>s. Shape /\ Ahead /\ Dated /\ Accounted /\ Closing
  BY DEF IInv
<1> SUFFICES Shape' /\ Ahead' /\ Dated' /\ Accounted' /\ Closing'
  BY DEF IInv
<1>k. \A k \in Keys : Time[k[1]] \in Nat /\ k[2] \in Nat /\ k[2] <= SentTTL
  BY KeyParts, AlertAssumption
<1>c. SentTTL \in Nat
  BY AlertAssumption
<1>1. CASE Scan
  <2>1. /\ todo = {} /\ scanAt' = now /\ sent' = Kept
        /\ UNCHANGED <<now, calendar, subscribers, pushes, lost, restarts>>
    BY <1>1 DEF Scan, Scanning
  <2>2. \A k \in todo' :
          /\ k \in Keys /\ Impact[k[1]] = "high" /\ Time[k[1]] > now
          /\ k[2] = PickTier(Time[k[1]] - now)
          /\ Fitting(Time[k[1]] - now) # {}
    <3> SUFFICES ASSUME NEW k \in todo'
                 PROVE  /\ k \in Keys /\ Impact[k[1]] = "high" /\ Time[k[1]] > now
                        /\ k[2] = PickTier(Time[k[1]] - now)
                        /\ Fitting(Time[k[1]] - now) # {}
      OBVIOUS
    <3>1. PICK e \in Upcoming, c \in subscribers :
            Fitting(Time[e] - now) # {} /\ k = <<e, PickTier(Time[e] - now), c>>
      BY <1>1 DEF Scan
    <3>2. e \in Events /\ Impact[e] = "high" /\ Time[e] > now /\ c \in Chats /\ Time[e] \in Nat
      BY <3>1, <1>s, GateAssumption DEF Upcoming, Shape
    <3>3. Time[e] - now \in Nat
      BY <3>2, <1>s DEF Shape
    <3>4. PickTier(Time[e] - now) \in Tiers
      BY <3>1, <3>3, PickTierFits
    <3> QED BY <3>1, <3>2, <3>4 DEF Keys
  <2>3. Ahead'
    <3> SUFFICES ASSUME NEW k \in todo'
                 PROVE  /\ Impact[k[1]] = "high" /\ now < Time[k[1]]
                        /\ Time[k[1]] - now <= k[2]
                        /\ \A u \in Tiers : Time[k[1]] - now <= u => k[2] <= u
      BY <2>1 DEF Ahead
    <3>1. Time[k[1]] \in Nat /\ now \in Nat /\ now < Time[k[1]]
      BY <2>2, <1>k, <1>s DEF Shape
    <3>2. Time[k[1]] - now \in Nat
      BY <3>1
    <3> QED BY <3>1, <3>2, <2>2, PickTierFits
  <2>4. /\ DOMAIN sent' = {k \in DOMAIN sent : sent[k] + SentTTL >= now}
        /\ \A k \in DOMAIN sent' : sent'[k] = sent[k]
    BY <2>1 DEF Kept
  <2>5. Shape'
    BY <2>1, <2>2, <2>4, <1>s DEF Shape
  <2>6. Dated'
    BY <2>4, <1>s DEF Dated
  <2>7. Accounted'
    <3> SUFFICES ASSUME NEW k \in Keys,
                        k \in DOMAIN sent \/ Time[k[1]] <= scanAt
                 PROVE  k \in DOMAIN sent' \/ Time[k[1]] <= now
      BY <2>1, <1>s DEF Accounted
    <3>1. CASE k \in DOMAIN sent /\ sent[k] + SentTTL < now
      BY <3>1, <1>s, <1>k, <1>c DEF Shape, Dated
    <3>2. CASE Time[k[1]] <= scanAt
      BY <3>2, <1>s, <1>k DEF Shape
    <3>3. CASE k \in DOMAIN sent /\ ~(sent[k] + SentTTL < now)
      BY <3>3, <2>4, <1>s, <1>c DEF Shape
    <3> QED BY <3>1, <3>2, <3>3
  <2>8. Closing'
    BY <2>1, <1>s, <1>k DEF Shape, Closing
  <2> QED BY <2>3, <2>5, <2>6, <2>7, <2>8
<1>2. ASSUME NEW k \in Keys, Skip(k)
      PROVE Shape' /\ Ahead' /\ Dated' /\ Accounted' /\ Closing'
  BY <1>2, <1>s DEF Skip, Take, Shape, Ahead, Dated, Accounted, Closing
<1>3. ASSUME NEW k \in Keys, Push(k)
      PROVE Shape' /\ Ahead' /\ Dated' /\ Accounted' /\ Closing'
  <2>1. /\ k \in todo /\ k \notin DOMAIN sent
        /\ todo' = todo \ {k}
        /\ pushes' = [pushes EXCEPT ![k] = @ + 1]
        /\ UNCHANGED <<now, calendar, subscribers, scanAt, lost, restarts>>
    BY <1>3 DEF Push, Take
  <2>2. /\ DOMAIN sent' = DOMAIN sent \cup {k}
        /\ sent'[k] = scanAt
        /\ \A j \in DOMAIN sent : sent'[j] = sent[j]
    BY <1>3, <2>1 DEF Push, MarkSent
  <2>3. Shape' /\ Ahead'
    BY <2>1, <2>2, <1>s DEF Shape, Ahead
  <2>4. /\ Impact[k[1]] = "high"
        /\ Time[k[1]] <= scanAt + k[2] /\ scanAt < Time[k[1]]
    BY <2>1, <1>s, <1>k DEF Ahead, Shape
  <2>5. Dated'
    BY <2>2, <2>4, <1>s DEF Dated
  <2>6. pushes[k] <= lost[k] + restarts
    BY <2>1, <2>4, <1>s, <1>k DEF Accounted, Shape
  <2>7. Accounted'
    BY <2>1, <2>2, <2>6, <1>s DEF Accounted, Shape
  <2>8. Closing'
    BY <2>1, <2>4, <1>s DEF Closing, Shape
  <2> QED BY <2>3, <2>5, <2>7, <2>8
<1>4. ASSUME NEW k \in Keys, PushFails(k)
      PROVE Shape' /\ Ahead' /\ Dated' /\ Accounted' /\ Closing'
  BY <1>4, <1>s DEF PushFails, Take, Fault, Shape, Ahead, Dated, Accounted, Closing
<1>5. ASSUME NEW k \in Keys, AnswerLost(k)
      PROVE Shape' /\ Ahead' /\ Dated' /\ Accounted' /\ Closing'
  <2>1. /\ k \in todo
        /\ todo' = todo \ {k}
        /\ pushes' = [pushes EXCEPT ![k] = @ + 1]
        /\ lost' = [lost EXCEPT ![k] = @ + 1]
        /\ UNCHANGED <<now, calendar, subscribers, scanAt, sent, restarts>>
    BY <1>5 DEF AnswerLost, Take, Fault
  <2>2. Shape' /\ Ahead' /\ Dated'
    BY <2>1, <1>s DEF Shape, Ahead, Dated
  <2>3. Accounted'
    BY <2>1, <1>s DEF Accounted, Shape
  <2>4. Impact[k[1]] = "high" /\ Time[k[1]] <= scanAt + k[2]
    BY <2>1, <1>s, <1>k DEF Ahead, Shape
  <2>5. Closing'
    BY <2>1, <2>4, <1>s DEF Closing, Shape
  <2> QED BY <2>2, <2>3, <2>5
<1>6. CASE Restart
  <2>1. /\ todo' = {} /\ DOMAIN sent' = {} /\ restarts' = restarts + 1
        /\ UNCHANGED <<now, calendar, subscribers, scanAt, pushes, lost>>
    BY <1>6 DEF Restart, Fault
  <2> QED BY <2>1, <1>s DEF Shape, Ahead, Dated, Accounted, Closing
<1>7. ASSUME NEW e \in Events, Reschedule(e)
      PROVE Shape' /\ Ahead' /\ Dated' /\ Accounted' /\ Closing'
  BY <1>7, <1>s DEF Reschedule, Change, Shape, Ahead, Dated, Accounted, Closing
<1>8. ASSUME NEW c \in Chats, Subscribe(c)
      PROVE Shape' /\ Ahead' /\ Dated' /\ Accounted' /\ Closing'
  BY <1>8, <1>s DEF Subscribe, Change, Shape, Ahead, Dated, Accounted, Closing
<1>9. CASE Tick
  BY <1>9, <1>s DEF Tick, Shape, Ahead, Dated, Accounted, Closing
<1>10. CASE UNCHANGED vars
  BY <1>10, <1>s DEF vars, Shape, Ahead, Dated, Accounted, Closing
<1> QED
  BY <1>1, <1>2, <1>3, <1>4, <1>5, <1>6, <1>7, <1>8, <1>9, <1>10 DEF Next

(* A chat gets a warning twice only after a lost answer or a restart,      *)
(* whatever the calendar, the subscribers and gcSent do in between (scan,  *)
(* alreadySent, markSent, gcSent).                                         *)
THEOREM PushedOnceAlways == Spec => []PushedOnce
<1>1. IInv => PushedOnce
  BY DEF IInv, Shape, Accounted, PushedOnce
<1> QED BY InitIInv, NextIInv, <1>1, PTL DEF Spec

(* The warnings of an event only become more urgent (pickTier).            *)
THEOREM WarningsOnlyTighten == Spec => WarningsTighten
<1> DEFINE Tightens ==
      \A e \in Events, c \in Chats, t \in Tiers :
        pushes'[<<e, t, c>>] > pushes[<<e, t, c>>]
          => \A u \in Tiers : u < t => pushes[<<e, u, c>>] = 0
<1>1. IInv /\ [Next]_vars => [Tightens]_vars
  <2> SUFFICES ASSUME IInv, [Next]_vars,
                      NEW e \in Events, NEW c \in Chats, NEW t \in Tiers,
                      pushes'[<<e, t, c>>] > pushes[<<e, t, c>>],
                      NEW u \in Tiers, u < t
               PROVE  pushes[<<e, u, c>>] = 0
    OBVIOUS
  <2> DEFINE key == <<e, t, c>>
             tighter == <<e, u, c>>
  <2>1. key \in Keys /\ tighter \in Keys
    BY DEF Keys
  <2>2. pushes \in [Keys -> Nat] /\ scanAt \in Nat /\ Time[e] \in Nat
        /\ t \in Nat /\ u \in Nat
    BY AlertAssumption, GateAssumption DEF IInv, Shape
  <2>3. pushes' # pushes
    BY <2>1, <2>2
  <2>4. PICK k \in Keys : Push(k) \/ AnswerLost(k)
    BY <2>3 DEF Next, vars, Scan, Tick, Restart, Skip, PushFails, Reschedule,
                Subscribe
  <2>5. k \in todo /\ pushes' = [pushes EXCEPT ![k] = @ + 1]
    BY <2>4 DEF Push, AnswerLost, Take
  <2>6. k = key
    BY <2>1, <2>2, <2>5
  <2>7. Time[e] - scanAt <= u => t <= u
    BY <2>5, <2>6 DEF IInv, Ahead
  <2>8. pushes[tighter] > 0 => Time[e] <= scanAt + u
    BY <2>1 DEF IInv, Closing
  <2> QED BY <2>1, <2>2, <2>7, <2>8
<1>2. WarningsTighten <=> [][Tightens]_vars
  BY PTL DEF WarningsTighten
<1> QED BY InitIInv, NextIInv, <1>1, <1>2, PTL DEF Spec

-----------------------------------------------------------------------------
LEMMA RankTells ==
  ASSUME NEW state
  PROVE  /\ Rank(state) \in 0 .. 3
         /\ state = "active" => Rank(state) = 3
         /\ state = "pre" => Rank(state) = 2
         /\ state # "active" => Rank(state) # 3
         /\ state \notin {"pre", "active"} => Rank(state) \in 0 .. 1
  BY DEF Rank

LEMMA AwayNat ==
  ASSUME NEW t \in Nat, NEW e \in Events
  PROVE  Away(t, e) \in Nat
<1>1. Time[e] \in Nat
  BY GateAssumption
<1> QED BY <1>1 DEF Away

(* The events the gate chooses between. *)
Candidates(events, t) == {o \in EventsAround(events, t) : classify(t, o) # ""}

(* The gate shows a state as severe as any event of the calendar calls     *)
(* for: no event hides another one's blackout (WindowAt, better).  The     *)
(* comparison has a greatest candidate: of the severest ones, a closest.   *)
LEMMA SeverestShown ==
  ASSUME NEW events \in SUBSET Events, NEW t \in Nat,
         NEW e \in Candidates(events, t)
  PROVE  Rank(WindowAt(events, t)) >= Rank(classify(t, e))
<1> DEFINE candidates == Candidates(events, t)
           rank       == [o \in Events |-> Rank(classify(t, o))]
           away       == [o \in Events |-> Away(t, o)]
<1>1. candidates \subseteq Events /\ e \in candidates
  BY DEF Candidates, EventsAround
<1>2. /\ rank \in [Events -> Nat] /\ away \in [Events -> Nat]
      /\ \A o \in Events : rank[o] <= 3
  <2>1. rank \in [Events -> 0 .. 3] /\ away \in [Events -> Nat]
    BY RankTells, AwayNat
  <2> HIDE DEF rank, away
  <2> QED BY <2>1
<1>3. \A a, b \in Events :
        better(t, a, b) <=> \/ rank[a] > rank[b]
                            \/ rank[a] = rank[b] /\ away[a] < away[b]
  BY DEF better
<1>4. \A o \in Events : rank[o] = Rank(classify(t, o))
  OBVIOUS
<1> HIDE DEF rank, away, candidates
<1> DEFINE lacks     == {3 - rank[o] : o \in candidates}
           severest  == {o \in candidates : \A other \in candidates : rank[other] <= rank[o]}
           distances == {away[o] : o \in severest}
<1>5. severest # {}
  <2>1. lacks \subseteq Nat /\ lacks # {}
    <3>1. ASSUME NEW o \in candidates
          PROVE  3 - rank[o] \in Nat
      <4>1. o \in Events
        BY <1>1
      <4> QED BY <1>2, <4>1
    <3> QED BY <1>1, <3>1
  <2>2. PICK l \in lacks : \A u \in lacks : l <= u
    <3> HIDE DEF lacks
    <3> QED BY <2>1, HasLeast
  <2>3. PICK o \in candidates : l = 3 - rank[o]
    BY <2>2
  <2>4. \A other \in candidates : 3 - rank[o] <= 3 - rank[other]
    BY <2>2, <2>3
  <2>5. ASSUME NEW other \in candidates
        PROVE  rank[other] <= rank[o]
    <3>1. other \in Events /\ o \in Events
      BY <1>1
    <3>2. 3 - rank[o] <= 3 - rank[other]
      BY <2>4
    <3> QED BY <1>2, <3>1, <3>2
  <2> QED BY <2>5
<1>6. PICK best \in severest : \A o \in severest : away[best] <= away[o]
  <2>1. distances \subseteq Nat /\ distances # {}
    BY <1>1, <1>2, <1>5
  <2>2. PICK d \in distances : \A u \in distances : d <= u
    <3> HIDE DEF distances
    <3> QED BY <2>1, HasLeast
  <2> QED BY <2>2
<1>7. ASSUME NEW other \in candidates
      PROVE  ~better(t, other, best)
  <2>1. other \in Events /\ best \in Events
    BY <1>1
  <2>2. rank[other] <= rank[best]
    OBVIOUS
  <2>3. rank[other] = rank[best] => away[best] <= away[other]
    <3>1. rank[other] = rank[best] => other \in severest
      OBVIOUS
    <3> QED BY <1>6, <3>1
  <2>4. ~(rank[other] > rank[best] \/ (rank[other] = rank[best] /\ away[other] < away[best]))
    BY <1>2, <2>1, <2>2, <2>3
  <2>5. better(t, other, best)
          <=> (rank[other] > rank[best] \/ (rank[other] = rank[best] /\ away[other] < away[best]))
    BY <1>3, <2>1, Zenon
  <2> QED BY <2>4, <2>5, Zenon
<1> DEFINE chosen == CHOOSE o \in candidates :
                       \A other \in candidates : ~better(t, other, o)
<1>8. chosen \in candidates /\ ~better(t, e, chosen)
  BY <1>1, <1>7
<1> HIDE DEF chosen
<1>9. ~(rank[e] > rank[chosen]) /\ chosen \in Events
  BY <1>1, <1>3, <1>8
<1>10. rank[chosen] >= rank[e]
  <2>1. e \in Events
    BY <1>1
  <2> QED BY <1>2, <1>9, <2>1
<1>11. candidates # {} => WindowAt(events, t) = classify(t, chosen)
  BY DEF WindowAt, Candidates, candidates, chosen
<1>12. /\ Rank(WindowAt(events, t)) = rank[chosen]
       /\ Rank(classify(t, e)) = rank[e]
  BY <1>1, <1>4, <1>9, <1>11
<1> QED BY <1>10, <1>12

(* An event's own windows: the gate calls a blackout in the last ActivePre *)
(* minutes and until ActivePost, and warns of a high-impact event before   *)
(* that (classify, EventsAround).                                          *)
LEMMA EventShown ==
  ASSUME NEW events \in SUBSET Events, NEW t \in Nat, NEW e \in events
  PROVE  LET state == WindowAt(events, t) IN
         /\ Time[e] - t <= ActivePre /\ t - Time[e] <= ActivePost => state = "active"
         /\ Impact[e] = "high" /\ Time[e] - t <= PreMin /\ t - Time[e] <= ActivePost
              => state \in {"pre", "active"}
<1> DEFINE state == WindowAt(events, t)
           own   == classify(t, e)
<1>1. /\ Time[e] \in Nat /\ PreMin \in Nat /\ RecoverPost \in Nat
      /\ ActivePre \in Nat /\ ActivePost \in Nat
      /\ ActivePre <= PreMin /\ ActivePost <= RecoverPost
  BY GateAssumption
<1>2. Time[e] - t <= PreMin /\ t - Time[e] <= ActivePost
        => e \in EventsAround(events, t)
  <2>1. Time[e] - t <= PreMin /\ t - Time[e] <= ActivePost
          => Time[e] >= t - RecoverPost /\ Time[e] <= t + PreMin
    BY <1>1
  <2> QED BY <2>1 DEF EventsAround
<1>3. Time[e] - t <= ActivePre /\ t - Time[e] <= ActivePost => own = "active"
  BY <1>1 DEF classify
<1>4. Impact[e] = "high" /\ Time[e] - t <= PreMin /\ t - Time[e] <= ActivePost
        => own \in {"pre", "active"}
  BY <1>1 DEF classify
<1>5. Time[e] - t <= ActivePre => Time[e] - t <= PreMin
  BY <1>1
<1>6. e \in EventsAround(events, t) /\ own # "" => Rank(state) >= Rank(own)
  BY SeverestShown DEF Candidates
<1> HIDE DEF state, own
<1>7. e \in EventsAround(events, t) /\ own = "active" => state = "active"
  <2> SUFFICES ASSUME e \in EventsAround(events, t), own = "active"
               PROVE  state = "active"
    OBVIOUS
  <2>1. Rank(own) = 3 /\ Rank(state) \in 0 .. 3
    BY RankTells
  <2>2. Rank(state) >= Rank(own)
    BY <1>6
  <2>3. \A x \in 0 .. 3 : x >= 3 => x = 3
    OBVIOUS
  <2>4. Rank(state) = 3
    BY <2>1, <2>2, <2>3
  <2> QED BY <2>4, RankTells
<1>8. e \in EventsAround(events, t) /\ own = "pre" => state \in {"pre", "active"}
  <2> SUFFICES ASSUME e \in EventsAround(events, t), own = "pre"
               PROVE  state \in {"pre", "active"}
    OBVIOUS
  <2>1. Rank(own) = 2
    BY RankTells
  <2>2. Rank(state) >= Rank(own)
    BY <1>6
  <2>3. \A x \in 0 .. 1 : ~(x >= 2)
    OBVIOUS
  <2>4. Rank(state) \notin 0 .. 1
    BY <2>1, <2>2, <2>3
  <2> QED BY <2>4, RankTells
<1>9. /\ Time[e] - t <= ActivePre /\ t - Time[e] <= ActivePost => state = "active"
      /\ Impact[e] = "high" /\ Time[e] - t <= PreMin /\ t - Time[e] <= ActivePost
           => state \in {"pre", "active"}
  BY <1>2, <1>3, <1>4, <1>5, <1>7, <1>8
<1> QED BY <1>9 DEF state

(* A chat that was warned is not advised to trade against the warning:     *)
(* what renderAlertMessage promises, the gate of the digest keeps, whatever *)
(* other events, restarts and lost answers there are.                      *)
THEOREM WarnedMeansPausedAlways == Spec => []WarnedMeansPaused
<1>1. IInv => WarnedMeansPaused
  <2> SUFFICES ASSUME IInv, NEW k \in Keys,
                      pushes[k] > 0, k[1] \in calendar, now <= Time[k[1]] + ActivePost
               PROVE  LET state == WindowAt(calendar, now) IN
                      /\ k[2] <= ActivePre \/ now >= Time[k[1]] => state = "active"
                      /\ k[2] <= PreMin => state \in {"pre", "active"}
    BY DEF WarnedMeansPaused
  <2> DEFINE e == k[1]
  <2>1. /\ now \in Nat /\ scanAt \in Nat /\ scanAt <= now
        /\ calendar \in SUBSET Events
        /\ Impact[e] = "high" /\ Time[e] <= scanAt + k[2]
    BY DEF IInv, Shape, Closing
  <2>2. Time[e] \in Nat /\ k[2] \in Nat
    BY KeyParts
  <2>3. ActivePre \in Nat /\ PreMin \in Nat /\ ActivePost \in Nat
    BY GateAssumption
  <2> HIDE DEF e
  <2>4. now - Time[e] <= ActivePost
    BY <2>1, <2>2, <2>3 DEF e
  <2>5. k[2] <= ActivePre \/ now >= Time[e] => Time[e] - now <= ActivePre
    BY <2>1, <2>2, <2>3
  <2>6. k[2] <= PreMin => Time[e] - now <= PreMin
    BY <2>1, <2>2, <2>3
  <2>7. e \in calendar
    BY DEF e
  <2> QED BY <2>1, <2>4, <2>5, <2>6, <2>7, EventShown DEF e
<1> QED BY InitIInv, NextIInv, <1>1, PTL DEF Spec

-----------------------------------------------------------------------------
(* The pace of the scans: a scan begins when the ticker has fired, the     *)
(* ticker fires while it runs or once after it, and what the scan leaves   *)
(* in the dedupe table is no older than SentTTL when it begins.            *)
Paced ==
  /\ ~ticked => now = scanAt
  /\ Scanning => now <= scanAt + ScanSpan
  /\ now <= scanAt + 1 \/ now <= scanAt + ScanSpan
  /\ \A k \in DOMAIN sent : sent[k] + SentTTL >= scanAt

LEMMA AlwaysIInv == Spec => []IInv
  BY InitIInv, NextIInv, PTL DEF Spec

LEMMA TakePaced ==
  ASSUME IInv, Paced, NEW k, Take(k), UNCHANGED sent \/ MarkSent(k)
  PROVE  Paced'
<1>1. /\ UNCHANGED <<now, ticked, scanAt>> /\ now \in Nat /\ scanAt \in Nat /\ SentTTL \in Nat
      /\ Scanning
  BY AlertAssumption DEF Take, IInv, Shape, Scanning
<1>2. \A j \in DOMAIN sent' : sent'[j] + SentTTL >= scanAt
  <2>1. CASE UNCHANGED sent
    BY <2>1 DEF Paced
  <2>2. CASE MarkSent(k)
    BY <1>1, <2>2 DEF MarkSent, Paced
  <2> QED  BY <2>1, <2>2
<1> QED  BY <1>1, <1>2 DEF Paced

LEMMA NextPaced == IInv /\ Paced /\ [Next]_vars => Paced'
<1> SUFFICES ASSUME IInv, Paced, [Next]_vars PROVE Paced'
  OBVIOUS
<1>0. now \in Nat /\ scanAt \in Nat /\ SentTTL \in Nat /\ ScanSpan \in Nat
  BY AlertAssumption DEF IInv, Shape
<1>1. CASE Scan
  <2>1. scanAt' = now /\ now' = now /\ sent' = Kept
    BY <1>1 DEF Scan
  <2>2. \A k \in DOMAIN sent' : sent'[k] + SentTTL >= now
    BY <2>1 DEF Kept
  <2> QED  BY <1>0, <2>1, <2>2 DEF Paced
<1>2. ASSUME NEW k \in Keys, Skip(k) \/ Push(k) \/ PushFails(k) \/ AnswerLost(k)
      PROVE  Paced'
  <2>1. Take(k) /\ (UNCHANGED sent \/ MarkSent(k))
    BY <1>2 DEF Skip, Push, PushFails, AnswerLost
  <2> QED  BY <2>1, TakePaced
<1>3. CASE Restart
  BY <1>3 DEF Restart, Paced, Scanning
<1>4. CASE Tick
  <2>1. /\ now' = now + 1 /\ ticked' = TRUE /\ UNCHANGED <<scanAt, sent, todo>>
        /\ IF Scanning THEN now - scanAt < ScanSpan ELSE ~ticked
    BY <1>4 DEF Tick
  <2> QED  BY <1>0, <2>1 DEF Paced, Scanning
<1>5. CASE \/ \E e \in Events : Reschedule(e)
           \/ \E c \in Chats : Subscribe(c)
           \/ UNCHANGED vars
  BY <1>5 DEF Reschedule, Subscribe, vars, Paced, Scanning
<1> QED  BY <1>1, <1>2, <1>3, <1>4, <1>5 DEF Next

LEMMA AlwaysPaced == Spec => []Paced
<1>1. Init => Paced
  BY DEF Init, Paced, Scanning
<1> QED  BY <1>1, NextPaced, AlwaysIInv, PTL DEF Spec

(* The dedupe table does not grow for ever, whatever the scans overrun     *)
(* (gcSent).                                                               *)
THEOREM SentBoundedAlways == Spec => []SentBounded
<1>1. IInv /\ Paced => SentBounded
  <2> SUFFICES ASSUME IInv, Paced, NEW k \in DOMAIN sent
               PROVE  sent[k] + SentTTL + ScanSpan + 1 >= now
    BY DEF SentBounded
  <2>1. /\ now \in Nat /\ scanAt \in Nat /\ SentTTL \in Nat /\ ScanSpan \in Nat
        /\ sent[k] \in Nat
    BY AlertAssumption DEF IInv, Shape
  <2>2. sent[k] + SentTTL >= scanAt /\ (now <= scanAt + 1 \/ now <= scanAt + ScanSpan)
    BY DEF Paced
  <2> QED  BY <2>1, <2>2
<1> QED  BY <1>1, AlwaysIInv, AlwaysPaced, PTL

-----------------------------------------------------------------------------
(* Event and chat were there when the tightest tier began, and a scan has  *)
(* begun since. *)
Reached(e, c) ==
  /\ Impact[e] = "high" /\ since[<<e, c>>] + Tightest <= Time[e]
  /\ scanAt > Time[e] - Tightest

(* Then the warning is among the sends of the scan, or was tried before.   *)
Covered ==
  /\ since \in [Events \X Chats -> Nat]
  /\ \A k \in DOMAIN sent : pushes[k] > 0
  /\ \A e \in calendar, c \in subscribers : Reached(e, c) =>
       LET k == <<e, Tightest, c>> IN pushes[k] > 0 \/ k \in failed \/ k \in todo

LEMMA TightestTier ==
  /\ Tightest \in Tiers /\ Tightest \in Nat /\ \A u \in Tiers : Tightest <= u
  /\ \A e \in Events, c \in Chats : <<e, Tightest, c>> \in Keys
<1>1. \E t \in Tiers : \A u \in Tiers : t <= u
  BY AlertAssumption, HasLeast
<1>2. Tightest \in Tiers /\ \A u \in Tiers : Tightest <= u
  BY <1>1 DEF Tightest
<1> QED  BY <1>2, AlertAssumption DEF Keys

(* The first scan in the tier's time sends the warning. *)
LEMMA ScanReaches ==
  ASSUME IInv, Paced, Covered, Scan,
         NEW e \in calendar, NEW c \in subscribers, Reached(e, c)', ~Reached(e, c)
  PROVE  <<e, Tightest, c>> \in todo'
<1>1. /\ e \in Events /\ Time[e] \in Nat /\ Impact[e] = "high" /\ now \in Nat /\ scanAt \in Nat
      /\ since' = since /\ scanAt' = now /\ Tightest \in Nat /\ ScanSpan \in Nat
      /\ Lookahead \in Nat /\ Tightest \in Tiers
  BY GateAssumption, AlertAssumption, TightestTier DEF IInv, Shape, Scan, Reached
<1>2. scanAt <= Time[e] - Tightest /\ now > Time[e] - Tightest
  BY <1>1 DEF Reached
<1>3. (now <= scanAt + 1 \/ now <= scanAt + ScanSpan) /\ 1 < Tightest /\ ScanSpan < Tightest
  BY <1>1, ScansFitTiers DEF Paced
<1>4. Time[e] > now /\ Time[e] - now <= Tightest /\ Time[e] - now \in Nat
  BY <1>1, <1>2, <1>3
<1>5. Tightest <= Lookahead
  BY <1>1, AlertAssumption
<1>6. e \in Upcoming
  BY <1>1, <1>4, <1>5 DEF Upcoming
<1>7. Tightest \in Fitting(Time[e] - now)
  BY <1>1, <1>4 DEF Fitting
<1>8. PickTier(Time[e] - now) = Tightest
  <2> DEFINE t == PickTier(Time[e] - now)
  <2>1. t \in Tiers /\ t <= Tightest
    BY <1>1, <1>4, <1>7, PickTierFits
  <2>2. Tightest <= t /\ t \in Nat
    BY <2>1, TightestTier, AlertAssumption
  <2> HIDE DEF t
  <2>3. t = Tightest
    BY <1>1, <2>1, <2>2
  <2> QED  BY <2>3 DEF t
<1> QED  BY <1>6, <1>7, <1>8 DEF Scan

LEMMA NextCovered ==
  ASSUME IInv, Paced, Covered, [Next]_vars
  PROVE  Covered'
<1>0. /\ now \in Nat /\ scanAt \in Nat /\ scanAt <= now /\ Tightest \in Nat
      /\ calendar \subseteq Events /\ subscribers \subseteq Chats
      /\ pushes \in [Keys -> Nat] /\ since \in [Events \X Chats -> Nat]
      /\ \A e \in Events : Time[e] \in Nat
  BY TightestTier, GateAssumption DEF IInv, Shape, Covered
<1>1. CASE Scan
  <2>1. /\ UNCHANGED <<calendar, subscribers, pushes, failed, since>> /\ todo = {} /\ sent' = Kept
    BY <1>1 DEF Scan, Scanning
  <2>2. \A k \in DOMAIN sent' : pushes[k] > 0
    BY <2>1 DEF Kept, Covered
  <2>3. ASSUME NEW e \in calendar, NEW c \in subscribers, Reached(e, c)'
        PROVE  LET k == <<e, Tightest, c>> IN pushes[k] > 0 \/ k \in failed \/ k \in todo'
    <3>1. CASE Reached(e, c)
      BY <2>1, <3>1 DEF Covered
    <3>2. CASE ~Reached(e, c)
      BY <1>1, <2>3, <3>2, ScanReaches
    <3> QED  BY <3>1, <3>2
  <2> QED  BY <1>0, <2>1, <2>2, <2>3 DEF Covered
<1>2. ASSUME NEW k \in Keys, Skip(k) \/ Push(k) \/ PushFails(k) \/ AnswerLost(k)
      PROVE  Covered'
  <2>1. /\ UNCHANGED <<calendar, subscribers, scanAt, since>> /\ todo' = todo \ {k}
        /\ failed \subseteq failed'
    BY <1>2 DEF Skip, Push, PushFails, AnswerLost, Take
  <2>2. \/ pushes' = pushes
        \/ pushes' = [pushes EXCEPT ![k] = @ + 1]
    BY <1>2 DEF Skip, Push, PushFails, AnswerLost
  <2>3. \A j \in Keys : pushes[j] > 0 => pushes'[j] > 0
    BY <1>0, <2>2
  <2>4. pushes'[k] > 0 \/ k \in failed'
    BY <1>0, <1>2 DEF Skip, Push, PushFails, AnswerLost, Covered
  <2>5. \A j \in DOMAIN sent' : pushes'[j] > 0
    <3>1. DOMAIN sent \subseteq Keys
      BY DEF IInv, Shape
    <3>2. sent' = sent \/ (MarkSent(k) /\ Push(k))
      BY <1>2 DEF Skip, Push, PushFails, AnswerLost
    <3>3. Push(k) => pushes'[k] > 0
      BY <1>0 DEF Push
    <3> QED  BY <2>3, <3>1, <3>2, <3>3 DEF MarkSent, Covered
  <2>6. ASSUME NEW e \in calendar, NEW c \in subscribers, Reached(e, c)'
        PROVE  LET j == <<e, Tightest, c>> IN pushes'[j] > 0 \/ j \in failed' \/ j \in todo'
    <3> DEFINE j == <<e, Tightest, c>>
    <3>1. j \in Keys
      BY <1>0, TightestTier
    <3>2. pushes[j] > 0 \/ j \in failed \/ j \in todo
      BY <2>1, <2>6 DEF Covered, Reached
    <3> HIDE DEF j
    <3>3. pushes'[j] > 0 \/ j \in failed' \/ j \in todo'
      BY <2>1, <2>3, <2>4, <3>1, <3>2
    <3> QED  BY <3>3 DEF j
  <2> QED  BY <1>0, <2>1, <2>5, <2>6 DEF Covered
<1>3. ASSUME NEW changed \in SUBSET (Events \X Chats),
             since' = [p \in Events \X Chats |-> IF p \in changed THEN now ELSE since[p]],
             \A e \in calendar', c \in subscribers' :
               <<e, c>> \in changed \/ (e \in calendar /\ c \in subscribers),
             UNCHANGED <<scanAt, pushes, failed>>,
             DOMAIN sent' = DOMAIN sent \/ DOMAIN sent' = {},
             todo' = todo \/ changed = Events \X Chats,
             calendar' \subseteq Events, subscribers' \subseteq Chats
      PROVE  Covered'
  <2>1. since' \in [Events \X Chats -> Nat]
    BY <1>0, <1>3
  <2>2. \A k \in DOMAIN sent' : pushes[k] > 0
    BY <1>3 DEF Covered
  <2>3. ASSUME NEW e \in calendar', NEW c \in subscribers', Reached(e, c)'
        PROVE  LET k == <<e, Tightest, c>> IN pushes[k] > 0 \/ k \in failed \/ k \in todo'
    <3>1. <<e, c>> \in Events \X Chats /\ Time[e] \in Nat
      BY <1>0, <1>3
    <3>2. <<e, c>> \notin changed
      <4>1. SUFFICES ASSUME <<e, c>> \in changed PROVE FALSE
        OBVIOUS
      <4>2. since'[<<e, c>>] = now
        BY <1>3, <3>1, <4>1
      <4>3. now + Tightest <= Time[e] /\ scanAt > Time[e] - Tightest
        BY <1>3, <2>3, <4>2 DEF Reached
      <4> QED  BY <1>0, <3>1, <4>3
    <3>3. since'[<<e, c>>] = since[<<e, c>>] /\ todo' = todo
      BY <1>3, <3>1, <3>2
    <3>4. e \in calendar /\ c \in subscribers /\ Reached(e, c)
      BY <1>3, <2>3, <3>2, <3>3 DEF Reached
    <3> QED  BY <3>3, <3>4 DEF Covered
  <2> QED  BY <1>3, <2>1, <2>2, <2>3 DEF Covered
<1>4. CASE Restart
  <2>1. since' = [p \in Events \X Chats |-> IF p \in Events \X Chats THEN now ELSE since[p]]
    BY <1>0, <1>4 DEF Restart
  <2>2. \A e \in calendar', c \in subscribers' : <<e, c>> \in Events \X Chats
    BY <1>0, <1>4 DEF Restart
  <2>3. /\ UNCHANGED <<scanAt, pushes, failed, calendar, subscribers>>
        /\ DOMAIN sent' = {}
    BY <1>4 DEF Restart
  <2> QED  BY <1>0, <1>3, <2>1, <2>2, <2>3
<1>5. ASSUME NEW e \in Events, Reschedule(e)
      PROVE  Covered'
  <2> DEFINE changed == {p \in Events \X Chats : p[1] = e}
  <2>1. since' = [p \in Events \X Chats |-> IF p \in changed THEN now ELSE since[p]]
    BY <1>5 DEF Reschedule
  <2>2. /\ UNCHANGED <<scanAt, pushes, failed, subscribers, sent, todo>>
        /\ calendar' \subseteq calendar \cup {e}
    BY <1>5 DEF Reschedule
  <2>3. \A f \in calendar', c \in subscribers' :
          <<f, c>> \in changed \/ (f \in calendar /\ c \in subscribers)
    BY <1>0, <2>2
  <2>4. changed \subseteq Events \X Chats /\ calendar' \subseteq Events
    BY <1>0, <2>2
  <2> HIDE DEF changed
  <2> QED  BY <1>0, <1>3, <2>1, <2>2, <2>3, <2>4
<1>6. ASSUME NEW c \in Chats, Subscribe(c)
      PROVE  Covered'
  <2> DEFINE changed == {p \in Events \X Chats : p[2] = c}
  <2>1. since' = [p \in Events \X Chats |-> IF p \in changed THEN now ELSE since[p]]
    BY <1>6 DEF Subscribe
  <2>2. /\ UNCHANGED <<scanAt, pushes, failed, calendar, sent, todo>>
        /\ subscribers' \subseteq subscribers \cup {c}
    BY <1>6 DEF Subscribe
  <2>3. \A e \in calendar', d \in subscribers' :
          <<e, d>> \in changed \/ (e \in calendar /\ d \in subscribers)
    BY <1>0, <2>2
  <2>4. changed \subseteq Events \X Chats /\ subscribers' \subseteq Chats
    BY <1>0, <2>2
  <2> HIDE DEF changed
  <2> QED  BY <1>0, <1>3, <2>1, <2>2, <2>3, <2>4
<1>7. CASE Tick \/ UNCHANGED vars
  BY <1>7 DEF Tick, vars, Covered, Reached
<1> QED  BY <1>1, <1>2, <1>4, <1>5, <1>6, <1>7 DEF Next

(* If a scan takes less time than the tightest tier leaves, no overrun     *)
(* tick and no full ticker channel keeps a warning from a chat that was    *)
(* there in time (Run, pickTier).                                          *)
THEOREM NobodyIsMissedAlways == Spec => []NobodyIsMissed
<1>1. Init => Covered
  <2> SUFFICES ASSUME Init PROVE Covered
    OBVIOUS
  <2>1. /\ since \in [Events \X Chats -> Nat] /\ DOMAIN sent = {} /\ scanAt = 0
        /\ calendar \subseteq Events /\ subscribers \subseteq Chats
    BY DEF Init
  <2>2. ASSUME NEW e \in calendar, NEW c \in subscribers
        PROVE  ~Reached(e, c)
    <3>1. since[<<e, c>>] = 1 /\ Time[e] \in Nat /\ Tightest \in Nat
      BY <2>1, GateAssumption, TightestTier DEF Init
    <3> QED  BY <2>1, <3>1 DEF Reached
  <2> QED  BY <2>1, <2>2 DEF Covered
<1>2. IInv /\ Paced /\ Covered => NobodyIsMissed
  <2> SUFFICES ASSUME IInv, Paced, Covered,
                      NEW e \in calendar, NEW c \in subscribers,
                      Impact[e] = "high", now >= Time[e],
                      since[<<e, c>>] + Tightest <= Time[e], ~Scanning,
                      <<e, Tightest, c>> \notin failed
               PROVE  pushes[<<e, Tightest, c>>] > 0
    BY DEF NobodyIsMissed
  <2>1. /\ now \in Nat /\ scanAt \in Nat /\ Time[e] \in Nat /\ Tightest \in Nat
        /\ ScanSpan \in Nat /\ 1 < Tightest /\ ScanSpan < Tightest
    BY TightestTier, GateAssumption, AlertAssumption, ScansFitTiers DEF IInv, Shape
  <2>2. now <= scanAt + 1 \/ now <= scanAt + ScanSpan
    BY DEF Paced
  <2>3. scanAt > Time[e] - Tightest
    BY <2>1, <2>2
  <2> QED  BY <2>3 DEF Covered, Reached, Scanning
<1>3. IInv /\ Paced /\ Covered /\ [Next]_vars => Covered'
  BY NextCovered
<1> QED  BY <1>1, <1>2, <1>3, AlwaysIInv, AlwaysPaced, PTL DEF Spec

=============================================================================
