-------------------------- MODULE ScanWorkerProofs ---------------------------
(***************************************************************************)
(* Proofs about ScanWorker and the decision store it composes: what is     *)
(* kept and purged (Retained), who is shown a card (Carded), what the card *)
(* says (Priced) and which bars are scanned (Scanned), each inductive on   *)
(* the types alone.                                                        *)
(***************************************************************************)
EXTENDS ScanWorker, FiniteSetTheorems, TLAPS

Rows == [id : Nat, at : 0 .. now]

(* Everything a purge holds is old enough, and it holds everything that is *)
(* too old; the ticker of the pruner never falls behind.                   *)
Retained ==
  /\ now \in Nat /\ created \in Nat /\ failures \in Nat
  /\ pruner \in {"down", "wait", "purge"}
  /\ nextPrune \in Nat /\ cutoff \in Int /\ purgedTo \in Int
  /\ rows \subseteq Rows /\ found \subseteq Rows /\ batch \subseteq Rows
  /\ young = {}
  /\ cutoff <= now - Retention /\ purgedTo <= now - Retention
  /\ \A row \in found \cup batch : row.at < cutoff
  /\ \A row \in rows : row.at >= purgedTo
  /\ pruner = "purge" => \A row \in rows : row.at < cutoff => row \in found \cup batch
  /\ pruner # "down" => now <= nextPrune /\ cutoff = nextPrune - PruneEvery - Retention
  /\ pruner = "wait" /\ failures = 0 => purgedTo = cutoff

(* Who has been shown the card, by where the scan is. *)
NotShown == card = None /\ saves = 0 /\ tries = NoTries
Shown(users) ==
  /\ saves = 1
  /\ tries = [u \in Users |-> IF u \in users THEN 1 ELSE 0]

Carded ==
  /\ allowed \in Allowlists
  /\ pc \in {"down", "disabled", "first", "ask", "save", "send", "idle"}
  /\ pc \in {"down", "disabled", "first", "ask"} => NotShown
  /\ pc = "save" => saves = 0 /\ tries = NoTries
  /\ pc = "send" => todo \subseteq Subscribers /\ Shown(Subscribers \ todo)
  /\ pc = "idle" => NotShown \/ Shown(Subscribers)

(* A card is that of a payload of the model. *)
Priced ==
  card # None =>
    \E p \in Payloads : valid(p) /\ card = TradeCard(normalise(p))

(* When the scan that is running began, or the last one. *)
Began == IF nextTick = 0 THEN Bar(now) * Interval ELSE nextTick - Interval

(* The last bar scanned for sure. *)
ScannedTo ==
  CASE pc \in {"down", "disabled"} -> Bar(now)
    [] pc = "first"                -> Bar(upSince)
    [] OTHER                       -> IF ticked THEN Bar(Began) - 1 ELSE Bar(Began)

Scanning == pc \in {"ask", "save", "send"}
Budget == LLMTimeout + (1 + Cardinality(Subscribers)) * SendTimeout
Spent ==
  CASE pc = "ask"  -> LLMTimeout
    [] pc = "save" -> LLMTimeout + SendTimeout
    [] OTHER       -> LLMTimeout + (2 + Cardinality(Subscribers \ todo)) * SendTimeout

ScanTypes ==
  /\ now \in Nat /\ (now < Interval \/ now <= MaxNow)
  /\ allowed \in Allowlists
  /\ pc \in {"down", "disabled", "first", "ask", "save", "send", "idle"}
  /\ wake \in Nat /\ nextTick \in Nat /\ deadline \in Nat /\ ticked \in BOOLEAN
  /\ todo \subseteq Subscribers
  /\ scans \in [0 .. Bar(MaxNow) -> Nat]
  /\ upSince \in Nat /\ upSince <= now

(* A scan ends before its budget is spent, hence before the next tick, so  *)
(* that the ticker finds the worker idle and keeps the phase of its start. *)
Scanned ==
  /\ ScanTypes
  /\ ticked => pc = "idle"
  /\ pc \in {"down", "disabled", "first"} => nextTick = 0
  /\ nextTick = 0 \/ nextTick >= 2 * Interval
  /\ pc = "first" => wake = NextFire(upSince) /\ now <= wake
  /\ pc = "idle" => /\ nextTick # 0 /\ Began <= now /\ now <= nextTick
                    /\ ticked => now = Began
  /\ Scanning => /\ Interval <= Began /\ Began <= now /\ now <= Began + Budget
                 /\ CallIsOut => now <= deadline /\ deadline <= Began + Spent
  /\ \A b \in DOMAIN scans : scans[b] <= 1 /\ (b > ScannedTo => scans[b] = 0)
  /\ pc \notin {"down", "disabled"} =>
       \A b \in Bar(upSince) + 1 .. ScannedTo : b \in DOMAIN scans /\ scans[b] = 1

-----------------------------------------------------------------------------
(* Rows.                                                                   *)

LEMMA SaveRetains ==
  ASSUME Retained, Save, UNCHANGED <<now, prunerVars, purgedTo, young, failures>>
  PROVE  Retained'
<1> DEFINE new == [id |-> created + 1, at |-> now]
<1> USE StoreAssumption
<1>1. /\ rows' = rows \cup {new} /\ created' = created + 1 /\ Rows' = Rows
      /\ new \in Rows /\ new.at = now
  BY DEF Retained, Save, Rows
<1> HIDE DEF new
<1>2. rows' \subseteq Rows' /\ \A row \in rows' : row.at >= purgedTo'
  BY <1>1 DEF Retained
<1>3. pruner' = "purge" => \A row \in rows' : row.at < cutoff' => row \in (found \cup batch)'
  BY <1>1 DEF Retained, prunerVars
<1> QED  BY <1>1, <1>2, <1>3 DEF Retained, prunerVars

LEMMA PurgeRetains ==
  ASSUME Retained, Purge, nextPrune' = now + PruneEvery,
         UNCHANGED <<now, rows, created, purgedTo, young, failures>>
  PROVE  Retained'
<1> USE StoreAssumption
<1>1. /\ Rows' = Rows /\ pruner' = "purge" /\ cutoff' = now - Retention
      /\ found' = {row \in rows : row.at < cutoff'} /\ batch' = {}
  BY DEF Purge, Rows
<1>2. \A row \in (found \cup batch)' : row.at < cutoff'
  BY <1>1
<1>3. \A row \in rows' : row.at < cutoff' => row \in (found \cup batch)'
  BY <1>1
<1> QED  BY <1>1, <1>2, <1>3 DEF Retained

(* Deleting what a purge holds deletes nothing that is young. *)
LEMMA CommitIsOld ==
  ASSUME Retained, NEW docs, docs \subseteq found \cup batch, Commit(docs)
  PROVE  young' = {} /\ rows' = rows \ docs
<1> USE StoreAssumption
<1>1. \A row \in docs : ~(now - row.at <= Retention)
  <2> SUFFICES ASSUME NEW row \in docs PROVE ~(now - row.at <= Retention)
    OBVIOUS
  <2>1. row \in Rows /\ row.at < cutoff
    BY DEF Retained
  <2>2. row.at \in Int
    BY <2>1 DEF Rows, Retained
  <2> QED  BY <2>1, <2>2 DEF Retained
<1> QED  BY <1>1 DEF Commit, Retained

LEMMA PrunerRetains ==
  ASSUME Retained, PrunerStep, UNCHANGED now
  PROVE  Retained'
<1> USE StoreAssumption
<1>0. Rows' = Rows
  BY DEF Rows
<1>1. CASE PruneTick
  BY <1>1, PurgeRetains DEF PruneTick, Retained
<1>2. CASE PurgeNext
  <2>1. PICK row \in found :
          LET docs == batch \cup {row}
          IN /\ found' = found \ {row}
             /\ \/ Commit(docs) /\ batch' = {}
                \/ batch' = docs /\ UNCHANGED <<rows, young>>
    BY <1>2 DEF PurgeNext
  <2> DEFINE docs == batch \cup {row}
  <2>2. pruner = "purge" /\ UNCHANGED <<created, pruner, nextPrune, cutoff, purgedTo, failures>>
    BY <1>2 DEF PurgeNext
  <2>3. /\ rows' \subseteq rows /\ (found \cup batch)' \subseteq found \cup batch
        /\ young' = {}
        /\ \A r \in rows' : r \in found \cup batch => r \in (found \cup batch)'
    <3>1. CASE Commit(docs) /\ batch' = {}
      <4>1. young' = {} /\ rows' = rows \ docs
        BY <3>1, CommitIsOld
      <4> QED  BY <2>1, <3>1, <4>1
    <3>2. CASE batch' = docs /\ UNCHANGED <<rows, young>>
      BY <2>1, <3>2 DEF Retained
    <3> QED  BY <2>1, <3>1, <3>2
  <2>4. /\ \A r \in rows' : r.at >= purgedTo'
        /\ \A r \in (found \cup batch)' : r.at < cutoff'
        /\ \A r \in rows' : r.at < cutoff' => r \in (found \cup batch)'
    BY <2>2, <2>3 DEF Retained
  <2> QED  BY <1>0, <2>2, <2>3, <2>4 DEF Retained
<1>3. CASE PurgeDone
  <2>1. /\ pruner = "purge" /\ found = {} /\ batch' = {} /\ pruner' = "wait"
        /\ purgedTo' = cutoff
        /\ UNCHANGED <<created, nextPrune, found, cutoff, failures>>
    BY <1>3 DEF PurgeDone
  <2>2. young' = {} /\ rows' = rows \ batch
    BY <1>3, CommitIsOld DEF PurgeDone
  <2>3. \A row \in rows' : row.at >= purgedTo'
    <3> SUFFICES ASSUME NEW row \in rows' PROVE row.at >= cutoff
      BY <2>1
    <3>1. row \in Rows /\ ~(row.at < cutoff)
      BY <2>1, <2>2 DEF Retained
    <3> QED  BY <3>1 DEF Rows, Retained
  <2> QED  BY <1>0, <2>1, <2>2, <2>3 DEF Retained
<1>4. CASE PurgeFails
  BY <1>0, <1>4 DEF PurgeFails, Retained
<1> QED  BY <1>1, <1>2, <1>3, <1>4 DEF PrunerStep

LEMMA InitRetained == Init => Retained
  BY StoreAssumption, ScanAssumption DEF Init, StoreInit, Retained, Rows

LEMMA NextRetains == Retained /\ [Next]_vars => Retained'
<1> SUFFICES ASSUME Retained, [Next]_vars PROVE Retained'
  OBVIOUS
<1> USE StoreAssumption
<1>1. CASE Start
  BY <1>1, PurgeRetains DEF Start, StartPruner
<1>2. CASE PersistDecision
  BY <1>2, SaveRetains DEF PersistDecision, Retained, Rows, prunerVars
<1>3. CASE UNCHANGED <<now, storeVars>>
  BY <1>3 DEF storeVars, prunerVars, Retained, Rows
<1>4. CASE Fire \/ NoDecision \/ Decide \/ Broadcast \/ BroadcastOver \/ TickerFires
  BY <1>3, <1>4 DEF Fire, NoDecision, Decide, Broadcast, BroadcastOver, TickerFires
<1>5. CASE Prune
  BY <1>5, PrunerRetains DEF Prune
<1>6. CASE ChatSave
  BY <1>6, SaveRetains DEF ChatSave
<1>7. CASE Kill
  BY <1>7 DEF Kill, StopPruner, Retained, Rows
<1>8. CASE Tick
  <2>1. /\ now' = now + 1 /\ UNCHANGED storeVars
        /\ pruner # "down" => pruner = "wait" /\ now < nextPrune
    BY <1>8 DEF Tick, PrunerIdle
  <2>2. Rows \subseteq Rows'
    BY <2>1 DEF Rows, Retained
  <2> QED  BY <2>1, <2>2 DEF Retained, storeVars, prunerVars
<1>9. CASE UNCHANGED vars
  BY <1>3, <1>9 DEF vars
<1> QED  BY <1>1, <1>2, <1>4, <1>5, <1>6, <1>7, <1>8, <1>9 DEF Next, Worker

(* The pruner deletes nothing younger than Retention and leaves nothing    *)
(* older than Retention and one period of its ticker, unless a purge has   *)
(* failed: for any number of rows, batches and restarts (PurgeOlderThan,   *)
(* startDecisionPruner).                                                   *)
THEOREM RetentionAlways == Spec => []RetentionHolds
<1>1. Retained => RetentionHolds
  <2> SUFFICES ASSUME Retained, pruner = "wait", failures = 0, NEW row \in rows
               PROVE  now - row.at <= Retention + PruneEvery
    BY DEF Retained, RetentionHolds
  <2>1. row.at \in Int /\ row.at >= cutoff
    BY DEF Retained, Rows
  <2> QED  BY <2>1, StoreAssumption DEF Retained
<1> QED  BY <1>1, InitRetained, NextRetains, PTL DEF Spec

-----------------------------------------------------------------------------
(* Cards.                                                                  *)

LEMMA InitCarded == Init => Carded
  BY DEF Init, Carded, NotShown

LEMMA NextCards == Carded /\ [Next]_vars => Carded'
<1> SUFFICES ASSUME Carded, [Next]_vars PROVE Carded'
  OBVIOUS
<1> USE DEF Carded
<1>0. ASSUME UNCHANGED allowed PROVE Subscribers' = Subscribers
  BY <1>0 DEF Subscribers
<1>1. CASE Start
  <2>1. pc = "down" /\ pc' \in {"disabled", "first"} /\ UNCHANGED <<allowed, card, saves, tries>>
    BY <1>1 DEF Start
  <2> QED  BY <2>1 DEF NotShown
<1>2. CASE Fire
  BY <1>2 DEF Fire, NotShown
<1>3. CASE NoDecision
  BY <1>3 DEF NoDecision, ScanOver, NotShown
<1>4. CASE Decide
  BY <1>4 DEF Decide, NotShown
<1>5. CASE PersistDecision
  <2>1. /\ pc' = "send" /\ todo' = Subscribers /\ saves' = 1 /\ tries' = NoTries
        /\ UNCHANGED allowed
    BY <1>5 DEF PersistDecision
  <2> QED  BY <1>0, <2>1 DEF Shown, NoTries
<1>6. CASE Broadcast
  <2>1. PICK u \in todo : tries' = [tries EXCEPT ![u] = @ + 1] /\ todo' = todo \ {u}
    BY <1>6 DEF Broadcast
  <2>2. /\ pc = "send" /\ pc' = "send" /\ UNCHANGED <<allowed, saves>>
        /\ todo \subseteq Subscribers /\ Shown(Subscribers \ todo)
    BY <1>6 DEF Broadcast
  <2>3. tries' = [v \in Users |-> IF v \in Subscribers \ todo' THEN 1 ELSE 0]
    BY <2>1, <2>2 DEF Shown
  <2> QED  BY <1>0, <2>1, <2>2, <2>3 DEF Shown
<1>7. CASE BroadcastOver
  <2>1. /\ pc = "send" /\ pc' = "idle" /\ todo = {} /\ UNCHANGED <<allowed, saves, tries>>
        /\ Shown(Subscribers)
    BY <1>7 DEF BroadcastOver, ScanOver
  <2> QED  BY <1>0, <2>1 DEF Shown
<1>8. CASE UNCHANGED <<allowed, pc, card, todo, tries, saves>>
  BY <1>0, <1>8 DEF NotShown, Shown
<1>9. CASE TickerFires \/ Prune \/ ChatSave \/ Tick \/ UNCHANGED vars
  BY <1>8, <1>9 DEF TickerFires, Prune, ChatSave, Tick, vars, workerVars
<1>10. CASE Kill
  BY <1>10 DEF Kill, NotShown
<1> QED  BY <1>1, <1>2, <1>3, <1>4, <1>5, <1>6, <1>7, <1>9, <1>10 DEF Next, Worker

(* A decision is saved once and every subscriber is tried once with its    *)
(* card, whatever fails on the way and whenever the process is killed      *)
(* (persistDecision, broadcast, Subscribers).                              *)
THEOREM EachCardOnceAlways == Spec => []EachCardOnce
<1>1. Carded => EachCardOnce
  <2> SUFFICES ASSUME Carded PROVE EachCardOnce
    OBVIOUS
  <2>1. CASE NotShown \/ (pc = "save" /\ saves = 0 /\ tries = NoTries)
    <3>1. /\ saves = 0 /\ \A u \in Users : tries[u] = 0
          /\ pc = "idle" => card = None
      BY <2>1 DEF NotShown, NoTries
    <3> QED  BY <3>1 DEF EachCardOnce
  <2>2. CASE pc = "send" /\ Shown(Subscribers \ todo)
    BY <2>2 DEF Shown, EachCardOnce
  <2>3. CASE pc = "idle" /\ Shown(Subscribers)
    <3>1. Subscribers \subseteq Users
      BY ScanAssumption DEF Carded, Subscribers
    <3> QED  BY <2>3, <3>1 DEF Shown, EachCardOnce
  <2> QED  BY <2>1, <2>2, <2>3 DEF Carded
<1> QED  BY <1>1, InitCarded, NextCards, PTL DEF Spec

-----------------------------------------------------------------------------
(* What a card says.                                                       *)

LEMMA MagnitudeOfProduct ==
  ASSUME NEW x \in Int, NEW a \in Nat
  PROVE  Magnitude(x * a) = Magnitude(x) * a /\ x * a \in Int
<1>1. CASE x >= 0
  <2>1. x * a >= 0
    BY <1>1
  <2> QED  BY <1>1, <2>1 DEF Magnitude
<1>2. CASE x < 0
  <2>1. x * a <= 0 /\ -(x * a) = (-x) * a
    BY <1>2
  <2>2. CASE x * a = 0
    BY <1>2, <2>1, <2>2 DEF Magnitude
  <2>3. CASE x * a < 0
    BY <1>2, <2>1, <2>3 DEF Magnitude
  <2> QED  BY <2>1, <2>2, <2>3
<1> QED  BY <1>1, <1>2

LEMMA Positive ==
  ASSUME NEW a \in Nat, NEW b \in Nat, a > 0, b > 0
  PROVE  a * b \in Nat /\ a * b > 0
  OBVIOUS

(* The arithmetic of a card: `stop` and `target` are the signed distances  *)
(* of its prices from the entry, m / w its lot times the contract.         *)
LEMMA SignOfProduct ==
  ASSUME NEW stop \in Int, NEW m \in Nat, m > 0
  PROVE  (stop * m > 0 <=> stop > 0) /\ (stop * m = 0 <=> stop = 0)
<1>1. stop * m > 0 <=> stop > 0
  OBVIOUS
<1>2. stop * m = 0 <=> stop = 0
  OBVIOUS
<1> QED  BY <1>1, <1>2

LEMMA RatioOfProducts ==
  ASSUME NEW a \in Nat, NEW b \in Nat, NEW m \in Nat, NEW w \in Nat
  PROVE  (a * m) * w * b = a * ((b * m) * w)
  OBVIOUS

(* The card of any valid payload keeps to the budget. *)
LEMMA CardOfPayload ==
  ASSUME NEW p \in Payloads, valid(p), card = TradeCard(normalise(p))
  PROVE  CardRiskIsTheBudget
<1> DEFINE d        == normalise(p)
           distance == Magnitude(d.entry - d.sl)
           stop     == IF d.action = "BUY" THEN d.sl - d.entry ELSE d.entry - d.sl
           target   == IF d.action = "BUY" THEN d.tp - d.entry ELSE d.entry - d.tp
           c        == contractSizePerLot(d.symbol)
           sized    == sizeLotForRisk(d)
           lot      == IF Risk > 0 /\ sized.num > 0 THEN sized ELSE Whole(d.lot)
           tpPnL    == estimatedPnLUSDT(d, d.tp, lot)
           slPnL    == estimatedPnLUSDT(d, d.sl, lot)
<1>1. /\ d.entry \in Int /\ d.sl \in Int /\ d.tp \in Int /\ d.lot \in Nat /\ d.lot > 0
      /\ d.action \in {"BUY", "SELL"}
  <2>1. p \in [symbol : STRING, action : STRING, confidence : STRING,
                entry : Int, sl : Int, tp : Int, lot : Int]
    BY ScanAssumption
  <2>2. /\ d.entry = p.entry /\ d.sl = p.sl /\ d.tp = p.tp /\ d.lot = p.lot
        /\ d.action = Canonical[p.action]
    BY <2>1 DEF normalise
  <2> HIDE DEF d
  <2>3. d.entry \in Int /\ d.sl \in Int /\ d.tp \in Int
    BY <2>1, <2>2
  <2>4. d.lot \in Nat /\ d.lot > 0
    <3>1. p.lot > 0
      BY DEF valid
    <3>2. p.lot \in Int
      BY <2>1
    <3> QED  BY <2>2, <3>1, <3>2
  <2>5. d.action \in {"BUY", "SELL"}
    BY <2>2 DEF valid
  <2> QED  BY <2>3, <2>4, <2>5
<1>2. /\ card.decision = d /\ card.slPnL = slPnL /\ card.rr = riskRewardRatio(tpPnL, slPnL)
  BY DEF TradeCard
<1>3. c \in Nat /\ c > 0
  BY DEF contractSizePerLot
<1> HIDE DEF d
<1>4. /\ stop \in Int /\ target \in Int /\ distance \in Nat
      /\ Magnitude(stop) = distance /\ Magnitude(d.tp - d.entry) = Magnitude(target)
      /\ distance = 0 <=> d.entry = d.sl
  BY <1>1 DEF Magnitude
<1>5. sized = IF d.entry = d.sl THEN Whole(0) ELSE Fraction(Risk, distance * c)
  BY DEF sizeLotForRisk
<1>6. stop > 0 <=> (d.sl > d.entry) = (d.action = "BUY") /\ distance > 0
  BY <1>1 DEF Magnitude
<1> HIDE DEF stop, target, distance, c, sized
<1>7. PICK n \in Nat, w \in Nat :
        /\ n > 0 /\ w > 0 /\ lot = Fraction(n, w)
        /\ Risk > 0 /\ distance > 0 => n = Risk /\ w = distance * c
  <2>1. CASE Risk > 0 /\ distance > 0
    <3>1. sized = Fraction(Risk, distance * c) /\ lot = sized
      BY <1>4, <1>5, <2>1 DEF Fraction
    <3>2. distance * c \in Nat /\ distance * c > 0
      BY <1>3, <1>4, <2>1, Positive
    <3>3. Risk \in Nat
      BY DecisionAssumption
    <3> QED  BY <2>1, <3>1, <3>2, <3>3
  <2>2. CASE ~(Risk > 0 /\ distance > 0)
    <3>1. lot = Fraction(d.lot, 1)
      <4>1. CASE Risk > 0
        BY <1>4, <1>5, <2>2, <4>1 DEF Whole, Fraction
      <4>2. CASE ~(Risk > 0)
        BY <4>2 DEF Whole
      <4> QED  BY <4>1, <4>2
    <3> QED  BY <1>1, <2>2, <3>1
  <2> QED  BY <2>1, <2>2
<1> HIDE DEF lot
<1>8. lot.num = n /\ lot.den = w
  BY <1>7 DEF Fraction
<1> DEFINE m == n * c
<1>9. /\ m \in Nat /\ m > 0
      /\ tpPnL = Fraction(target * m, w) /\ slPnL = Fraction(stop * m, w)
  <2>1. tpPnL = Fraction(target * n * c, w) /\ slPnL = Fraction(stop * n * c, w)
    BY <1>8 DEF estimatedPnLUSDT, target, stop, c
  <2>2. target * n * c = target * m /\ stop * n * c = stop * m
    BY <1>3, <1>4, <1>7
  <2>3. m \in Nat /\ m > 0
    BY <1>3, <1>7, Positive
  <2> QED  BY <2>1, <2>2, <2>3
<1> HIDE DEF tpPnL, slPnL, m
<1>10. /\ slPnL.num = stop * m /\ slPnL.den = w
       /\ tpPnL.num = target * m /\ tpPnL.den = w
  BY <1>9 DEF Fraction
<1>11. /\ Magnitude(stop * m) = distance * m
       /\ Magnitude(target * m) = Magnitude(target) * m
  BY <1>4, <1>9, MagnitudeOfProduct
<1>12. Risk > 0 /\ distance > 0 => Magnitude(slPnL.num) = Risk * slPnL.den
  <2> SUFFICES ASSUME Risk > 0, distance > 0 PROVE distance * (Risk * c) = Risk * (distance * c)
    BY <1>7, <1>10, <1>11 DEF m
  <2> QED  BY <1>3, <1>4, DecisionAssumption
<1>13. card.rr.num * distance = Magnitude(d.tp - d.entry) * card.rr.den \/ distance = 0
  <2>1. CASE stop = 0
    BY <1>4, <2>1 DEF Magnitude
  <2>2. CASE stop # 0
    <3>1. slPnL.num # 0
      BY <1>4, <1>9, <1>10, <2>2, SignOfProduct
    <3>2. card.rr = Fraction((Magnitude(target) * m) * w, (distance * m) * w)
      BY <1>2, <1>10, <1>11, <3>1 DEF riskRewardRatio
    <3>3. card.rr.num = (Magnitude(target) * m) * w /\ card.rr.den = (distance * m) * w
      BY <3>2 DEF Fraction
    <3>4. Magnitude(target) \in Nat
      BY <1>4 DEF Magnitude
    <3>5. (Magnitude(target) * m) * w * distance = Magnitude(target) * ((distance * m) * w)
      BY <1>4, <1>9, <3>4, RatioOfProducts
    <3> QED  BY <1>4, <3>3, <3>5
  <2> QED  BY <2>1, <2>2
<1>14. slPnL.num > 0 <=> (d.sl > d.entry) = (d.action = "BUY") /\ distance > 0
  <2>1. slPnL.num > 0 <=> stop > 0
    BY <1>4, <1>9, <1>10, SignOfProduct
  <2> QED  BY <1>6, <2>1
<1> QED  BY <1>2, <1>12, <1>13, <1>14 DEF CardRiskIsTheBudget, distance

LEMMA NextPrices == Priced /\ [Next]_vars => Priced'
<1> SUFFICES ASSUME Priced, [Next]_vars PROVE Priced'
  OBVIOUS
<1>1. CASE Decide
  <2>1. PICK reply \in Payloads : /\ ExtractDecision(reply) # None
                                  /\ card' = TradeCard(ExtractDecision(reply))
    BY <1>1 DEF Decide
  <2>2. valid(reply) /\ ExtractDecision(reply) = normalise(reply)
    BY <2>1 DEF ExtractDecision
  <2> QED  BY <2>1, <2>2 DEF Priced
<1>2. CASE card' \in {None, card}
  BY <1>2 DEF Priced
<1>3. CASE Start \/ Fire \/ NoDecision \/ PersistDecision \/ Broadcast \/ BroadcastOver
           \/ TickerFires \/ Kill
  BY <1>2, <1>3 DEF Start, Fire, NoDecision, PersistDecision, Broadcast, BroadcastOver,
                    TickerFires, Kill
<1>4. CASE Prune \/ ChatSave \/ Tick \/ UNCHANGED vars
  BY <1>2, <1>4 DEF Prune, ChatSave, Tick, vars, workerVars
<1> QED  BY <1>1, <1>3, <1>4 DEF Next, Worker

(* For every account, risk, contract and payload that is valid: the stop   *)
(* of a card costs the budget exactly, and its ratio is that of the        *)
(* distances (sizeLotForRisk, estimatedPnLUSDT, riskRewardRatio).          *)
THEOREM CardRiskAlways == Spec => []CardRiskIsTheBudget
<1>1. Init => Priced
  BY DEF Init, Priced
<1>2. Priced => CardRiskIsTheBudget
  BY CardOfPayload DEF Priced, CardRiskIsTheBudget
<1> QED  BY <1>1, <1>2, NextPrices, PTL DEF Spec

-----------------------------------------------------------------------------
(* Bars.                                                                   *)

LEMMA IntervalIsPositive == Interval \in Nat /\ Interval > 0
<1> DEFINE n == Cardinality(Users)
<1>1. n \in Nat
  BY ScanAssumption, FS_CardinalityType
<1>2. /\ LLMTimeout \in Nat /\ SendTimeout \in Nat /\ Interval \in Nat
      /\ LLMTimeout + (1 + n) * SendTimeout < Interval
  BY ScanAssumption
<1> HIDE DEF n
<1>3. (1 + n) * SendTimeout \in Nat
  BY <1>1, <1>2
<1> QED  BY <1>2, <1>3

LEMMA BarOf ==
  ASSUME NEW t \in Nat
  PROVE  Bar(t) \in Nat /\ Bar(t) * Interval <= t /\ t < (Bar(t) + 1) * Interval
  BY IntervalIsPositive DEF Bar

LEMMA BarIs ==
  ASSUME NEW t \in Nat, NEW b \in Int, b * Interval <= t, t < (b + 1) * Interval
  PROVE  Bar(t) = b
<1>1. Bar(t) \in Nat /\ Bar(t) * Interval <= t /\ t < (Bar(t) + 1) * Interval
  BY BarOf
<1> DEFINE a == Bar(t)
           i == Interval
<1>2. a \in Nat /\ i \in Nat /\ i > 0 /\ a * i < (b + 1) * i /\ b * i < (a + 1) * i
  <2>1. a * i \in Int /\ (a + 1) * i \in Int /\ b * i \in Int /\ (b + 1) * i \in Int
    BY <1>1, IntervalIsPositive
  <2> QED  BY <1>1, <2>1, IntervalIsPositive
<1> HIDE DEF a, i
<1>3. ASSUME NEW x \in Int, NEW y \in Int, x * i < y * i PROVE x < y
  <2> SUFFICES ASSUME x >= y PROVE FALSE
    OBVIOUS
  <2>1. (x - y) * i >= 0
    BY <1>2
  <2>2. (x - y) * i = x * i - y * i
    BY <1>2
  <2>3. x * i \in Int /\ y * i \in Int
    BY <1>2
  <2> QED  BY <1>3, <2>1, <2>2, <2>3
<1>4. a < b + 1 /\ b < a + 1
  BY <1>2, <1>3
<1> QED  BY <1>2, <1>4 DEF a

LEMMA BarMonotone ==
  ASSUME NEW s \in Nat, NEW t \in Nat, s <= t
  PROVE  Bar(s) <= Bar(t)
<1> DEFINE a == Bar(s)
           b == Bar(t)
           i == Interval
<1>1. /\ a \in Nat /\ b \in Nat /\ i \in Nat /\ i > 0 /\ a * i <= s /\ t < (b + 1) * i
  BY BarOf, IntervalIsPositive
<1> HIDE DEF a, b, i
<1>2. SUFFICES ASSUME a >= b + 1 PROVE FALSE
  BY <1>1 DEF a, b
<1>3. (a - (b + 1)) * i >= 0 /\ (a - (b + 1)) * i = a * i - (b + 1) * i
  BY <1>1, <1>2
<1>4. a * i \in Int /\ (b + 1) * i \in Int
  BY <1>1
<1> QED  BY <1>1, <1>3, <1>4

LEMMA BarLater ==
  ASSUME NEW t \in Nat
  PROVE  Bar(t + Interval) = Bar(t) + 1
<1> DEFINE b == Bar(t)
           i == Interval
<1>1. b \in Nat /\ i \in Nat /\ b * i <= t /\ t < (b + 1) * i
  BY BarOf, IntervalIsPositive
<1>2. (b + 1) * i = b * i + i /\ (b + 1 + 1) * i = (b + 1) * i + i
  BY <1>1
<1>3. (b + 1) * i <= t + i /\ t + i < (b + 1 + 1) * i
  <2> HIDE DEF b, i
  <2>1. b * i \in Int /\ (b + 1) * i \in Int
    BY <1>1
  <2> QED  BY <1>1, <1>2, <2>1
<1>4. t + i \in Nat /\ b + 1 \in Int
  BY <1>1
<1> QED  BY <1>3, <1>4, BarIs

LEMMA BarOfMultiple ==
  ASSUME NEW b \in Nat
  PROVE  b * Interval \in Nat /\ Bar(b * Interval) = b
<1> DEFINE i == Interval
<1>1. i \in Nat /\ i > 0 /\ b * i \in Nat /\ (b + 1) * i = b * i + i
  BY IntervalIsPositive
<1>2. b * i <= b * i /\ b * i < (b + 1) * i
  <2> DEFINE bi == b * i
  <2> HIDE DEF bi, i
  <2> QED  BY <1>1 DEF bi
<1> QED  BY <1>1, <1>2, BarIs

-----------------------------------------------------------------------------
(* Scans.                                                                  *)

LEMMA BudgetFits ==
  ASSUME allowed \in Allowlists, todo \subseteq Subscribers
  PROVE  /\ IsFiniteSet(Subscribers) /\ IsFiniteSet(todo)
         /\ Cardinality(Subscribers \ todo) \in Nat /\ Cardinality(Subscribers) \in Nat
         /\ Budget \in Nat /\ Budget < Interval /\ Spent \in Nat
         /\ CallIsOut => Spent <= Budget
<1>1. Subscribers \subseteq Users /\ IsFiniteSet(Users)
  BY ScanAssumption DEF Subscribers
<1>2. /\ IsFiniteSet(Subscribers) /\ IsFiniteSet(todo) /\ IsFiniteSet(Subscribers \ todo)
      /\ Cardinality(Subscribers) <= Cardinality(Users)
  BY <1>1, FS_Subset
<1> DEFINE u == Cardinality(Users)
           n == Cardinality(Subscribers)
           k == Cardinality(Subscribers \ todo)
<1>3. u \in Nat /\ n \in Nat /\ k \in Nat
  BY <1>1, <1>2, FS_CardinalityType
<1>4. todo # {} => k <= n - 1
  <2> SUFFICES ASSUME NEW x \in todo PROVE k <= n - 1
    OBVIOUS
  <2>1. /\ Cardinality(Subscribers \ {x}) = n - 1 /\ IsFiniteSet(Subscribers \ {x})
    BY <1>2, FS_RemoveElement
  <2>2. Subscribers \ todo \subseteq Subscribers \ {x}
    OBVIOUS
  <2>3. Cardinality(Subscribers \ todo) <= Cardinality(Subscribers \ {x})
    BY <2>1, <2>2, FS_Subset
  <2> QED  BY <2>1, <2>3
<1>5. n <= u /\ LLMTimeout \in Nat /\ SendTimeout \in Nat /\ LLMTimeout + (1 + u) * SendTimeout < Interval
  BY <1>2, ScanAssumption
<1> HIDE DEF u, n, k
<1> DEFINE t == SendTimeout
<1>6. /\ Budget = LLMTimeout + (1 + n) * t
      /\ Spent = IF pc = "ask" THEN LLMTimeout
                 ELSE IF pc = "save" THEN LLMTimeout + t ELSE LLMTimeout + (2 + k) * t
  BY DEF Budget, Spent, n, k
<1>7. t \in Nat /\ (1 + n) * t \in Nat /\ (1 + u) * t \in Nat /\ (2 + k) * t \in Nat
  BY <1>3, <1>5
<1>8. (1 + n) * t <= (1 + u) * t /\ t <= (1 + n) * t
  <2>1. (u - n) * t >= 0 /\ n * t >= 0
    BY <1>3, <1>5
  <2>2. (1 + u) * t = (1 + n) * t + (u - n) * t /\ (1 + n) * t = t + n * t
    BY <1>3, <1>5
  <2>3. (u - n) * t \in Int /\ n * t \in Int
    BY <1>3, <1>5
  <2> HIDE DEF t
  <2> QED  BY <1>7, <2>1, <2>2, <2>3
<1>9. todo # {} => (2 + k) * t <= (1 + n) * t
  <2> SUFFICES ASSUME todo # {} PROVE (2 + k) * t <= (1 + n) * t
    OBVIOUS
  <2>1. (n - k - 1) * t >= 0
    BY <1>3, <1>4, <1>5
  <2>2. (1 + n) * t = (2 + k) * t + (n - k - 1) * t /\ (n - k - 1) * t \in Int
    BY <1>3, <1>5
  <2> HIDE DEF t
  <2> QED  BY <1>7, <2>1, <2>2
<1> HIDE DEF t
<1>10. Budget \in Nat /\ Budget < Interval /\ Spent \in Nat
  BY <1>5, <1>6, <1>7, <1>8, IntervalIsPositive DEF t
<1>11. CallIsOut => Spent <= Budget
  BY <1>5, <1>6, <1>7, <1>8, <1>9 DEF CallIsOut
<1> QED  BY <1>2, <1>3, <1>10, <1>11 DEF n, k

LEMMA InitScanned == Init => Scanned
<1> SUFFICES ASSUME Init PROVE Scanned
  OBVIOUS
<1>1. Bar(MaxNow) \in Nat
  BY BarOf, ScanAssumption
<1>2. ScanTypes
  <2>1. scans \in [0 .. Bar(MaxNow) -> Nat]
    BY <1>1 DEF Init
  <2>2. now \in Nat /\ now < Interval /\ upSince = 0
    BY IntervalIsPositive DEF Init
  <2>3. wake \in Nat /\ nextTick \in Nat /\ deadline \in Nat /\ ticked \in BOOLEAN
    BY DEF Init
  <2>4. allowed \in Allowlists /\ pc = "down" /\ todo = {}
    BY DEF Init
  <2> QED  BY <2>1, <2>2, <2>3, <2>4 DEF ScanTypes
<1>3. \A b \in DOMAIN scans : scans[b] = 0
  BY DEF Init
<1> QED  BY <1>2, <1>3 DEF Init, Scanned, Scanning

LEMMA StartScans ==
  ASSUME Scanned, Start
  PROVE  Scanned'
<1>1. /\ pc = "down" /\ upSince' = now /\ nextTick' = 0 /\ ticked' = FALSE
      /\ UNCHANGED <<now, allowed, nextTick, ticked, deadline, todo, scans>>
      /\ \/ pc' = "disabled" /\ wake' = wake
         \/ pc' = "first" /\ wake' = NextFire(now)
  BY DEF Start, Scanned, ScanTypes
<1>2. now \in Nat /\ Bar(now) \in Nat /\ NextFire(now) \in Nat /\ now <= NextFire(now)
  <2>1. now \in Nat
    BY DEF Scanned, ScanTypes
  <2>2. (Bar(now) + 1) * Interval \in Nat
    BY <2>1, BarOf, IntervalIsPositive
  <2> QED  BY <2>1, <2>2, BarOf DEF NextFire
<1>3. ScannedTo = Bar(now) /\ ScannedTo' = Bar(now)
  BY <1>1 DEF ScannedTo, Bar
<1>4. Subscribers' = Subscribers
  BY <1>1 DEF Subscribers
<1>5. ScanTypes'
  BY <1>1, <1>2, <1>4 DEF Scanned, ScanTypes
<1>6. pc' = "first" => wake' = NextFire(upSince)' /\ now' <= wake'
  BY <1>1, <1>2 DEF NextFire, Bar
<1>7. \A b \in DOMAIN scans' : scans'[b] <= 1 /\ (b > ScannedTo' => scans'[b] = 0)
  BY <1>1, <1>3 DEF Scanned
<1>8. \A b \in (Bar(upSince) + 1 .. ScannedTo)' : FALSE
  BY <1>1, <1>2, <1>3 DEF Bar
<1> QED  BY <1>1, <1>5, <1>6, <1>7, <1>8 DEF Scanned, Scanning

(* A scan begins with the first bar that is not scanned yet. *)
LEMMA FireScans ==
  ASSUME Scanned, Fire
  PROVE  Scanned'
<1> USE IntervalIsPositive
<1>1. /\ ticked' = FALSE /\ wake' = 0 /\ pc' = "ask" /\ deadline' = now + LLMTimeout
      /\ scans' = [scans EXCEPT ![Bar(now)] = @ + 1]
      /\ UNCHANGED <<now, allowed, nextTick, todo, upSince>>
      /\ \/ pc = "first" /\ now = wake
         \/ pc = "idle" /\ ticked
  BY DEF Fire
<1>2. /\ now \in Nat /\ upSince \in Nat /\ nextTick \in Nat /\ deadline' \in Nat
      /\ Bar(now) \in Nat /\ Bar(upSince) \in Nat
  <2>1. now \in Nat /\ upSince \in Nat /\ nextTick \in Nat
    BY DEF Scanned, ScanTypes
  <2>2. deadline' \in Nat
    BY <1>1, <2>1, ScanAssumption
  <2> QED  BY <2>1, <2>2, BarOf
<1>3. /\ Began' = now /\ Interval <= now /\ ScannedTo = Bar(now) - 1
  <2>1. CASE pc = "first"
    <3>1. nextTick = 0 /\ now = (Bar(upSince) + 1) * Interval
      BY <1>1, <2>1 DEF Scanned, NextFire
    <3>2. Bar(now) = Bar(upSince) + 1
      BY <1>2, <3>1, BarOfMultiple
    <3>3. now >= Interval
      BY <1>2, <3>1
    <3> QED  BY <1>1, <1>2, <2>1, <3>1, <3>2, <3>3 DEF Began, ScannedTo, Bar
  <2>2. CASE pc = "idle"
    <3>1. nextTick >= 2 * Interval /\ now = Began /\ nextTick # 0 /\ ticked
      BY <1>1, <2>2 DEF Scanned
    <3>2. now = nextTick - Interval /\ nextTick' = nextTick
      BY <1>1, <3>1 DEF Began
    <3> QED  BY <1>2, <2>2, <3>1, <3>2 DEF Began, ScannedTo
  <2> QED  BY <1>1, <2>1, <2>2
<1>4. ScannedTo' = Bar(now)
  BY <1>1, <1>3 DEF ScannedTo, Bar
<1>5. Bar(now) \in DOMAIN scans /\ scans[Bar(now)] = 0 /\ DOMAIN scans' = DOMAIN scans
  <2>1. now <= MaxNow /\ MaxNow \in Nat
    BY <1>2, <1>3, ScanAssumption DEF Scanned, ScanTypes
  <2>2. Bar(now) <= Bar(MaxNow) /\ Bar(MaxNow) \in Nat
    BY <1>2, <2>1, BarMonotone, BarOf
  <2>3. Bar(now) \in DOMAIN scans
    BY <1>2, <2>2 DEF Scanned, ScanTypes
  <2> QED  BY <1>1, <1>2, <1>3, <2>3 DEF Scanned, ScanTypes
<1>6. Subscribers' = Subscribers
  BY <1>1 DEF Subscribers
<1>7. ScanTypes'
  <2>1. scans' \in [0 .. Bar(MaxNow) -> Nat]
    BY <1>1, <1>5 DEF Scanned, ScanTypes
  <2>2. Bar(MaxNow)' = Bar(MaxNow)
    BY DEF Bar
  <2> QED  BY <1>1, <1>2, <1>6, <2>1, <2>2 DEF Scanned, ScanTypes
<1>8. /\ Spent' = LLMTimeout /\ Budget' = Budget /\ Budget \in Nat /\ LLMTimeout \in Nat
  BY <1>1, <1>6, BudgetFits, ScanAssumption DEF Scanned, ScanTypes, Spent, Budget
<1>9. Scanning' => /\ Interval <= Began' /\ Began' <= now' /\ now' <= Began' + Budget'
                   /\ CallIsOut' => now' <= deadline' /\ deadline' <= Began' + Spent'
  BY <1>1, <1>2, <1>3, <1>8
<1>10. \A b \in DOMAIN scans' : scans'[b] <= 1 /\ (b > ScannedTo' => scans'[b] = 0)
  <2> SUFFICES ASSUME NEW b \in DOMAIN scans
               PROVE  scans'[b] <= 1 /\ (b > Bar(now) => scans'[b] = 0)
    BY <1>4, <1>5
  <2>1. scans[b] <= 1 /\ (b > Bar(now) - 1 => scans[b] = 0) /\ b \in Int
    BY <1>3 DEF Scanned, ScanTypes
  <2>2. scans'[b] = IF b = Bar(now) THEN scans[b] + 1 ELSE scans[b]
    BY <1>1, <1>5
  <2> QED  BY <1>2, <1>5, <2>1, <2>2
<1>11. \A b \in Bar(upSince) + 1 .. Bar(now) : b \in DOMAIN scans /\ scans'[b] = 1
  <2> SUFFICES ASSUME NEW b \in Bar(upSince) + 1 .. Bar(now)
               PROVE  b \in DOMAIN scans /\ scans'[b] = 1
    OBVIOUS
  <2>1. CASE b = Bar(now)
    BY <1>1, <1>5, <2>1
  <2>2. CASE b # Bar(now)
    <3>1. b \in Bar(upSince) + 1 .. ScannedTo
      BY <1>2, <1>3, <2>2
    <3>2. b \in DOMAIN scans /\ scans[b] = 1
      BY <1>1, <3>1 DEF Scanned
    <3> QED  BY <1>1, <2>2, <3>2
  <2> QED  BY <2>1, <2>2
<1>12. \A b \in (Bar(upSince) + 1 .. ScannedTo)' : b \in DOMAIN scans' /\ scans'[b] = 1
  BY <1>1, <1>4, <1>5, <1>11 DEF Bar
<1> QED  BY <1>1, <1>7, <1>9, <1>10, <1>12 DEF Scanned

(* What a running scan knows of its time. *)
LEMMA ScanningFacts ==
  ASSUME Scanned, Scanning
  PROVE  /\ now \in Nat /\ deadline \in Nat /\ nextTick \in Nat /\ Began \in Nat
         /\ Budget \in Nat /\ Budget < Interval /\ Spent \in Nat
         /\ ticked = FALSE /\ ScannedTo = Bar(Began)
         /\ Interval <= Began /\ Began <= now /\ now <= Began + Budget
         /\ CallIsOut => now <= deadline /\ deadline <= Began + Spent /\ Spent <= Budget
         /\ nextTick = 0 => Bar(Began) = Bar(now)
         /\ nextTick # 0 => nextTick = Began + Interval /\ now < nextTick
<1>1. /\ now \in Nat /\ deadline \in Nat /\ nextTick \in Nat /\ Interval \in Nat
      /\ pc \in {"ask", "save", "send"} /\ ticked = FALSE
      /\ Interval <= Began /\ Began <= now /\ now <= Began + Budget
      /\ CallIsOut => now <= deadline /\ deadline <= Began + Spent
      /\ nextTick = 0 \/ nextTick >= 2 * Interval
  BY IntervalIsPositive DEF Scanned, Scanning, ScanTypes
<1>2. /\ Budget \in Nat /\ Budget < Interval /\ Spent \in Nat
      /\ CallIsOut => Spent <= Budget
  BY BudgetFits DEF Scanned, ScanTypes
<1>3. nextTick # 0 => nextTick = Began + Interval /\ now < nextTick /\ Began \in Nat
  BY <1>1, <1>2 DEF Began
<1>4. nextTick = 0 => Bar(Began) = Bar(now) /\ Began \in Nat
  BY <1>1, BarOf, BarOfMultiple DEF Began
<1>5. ScannedTo = Bar(Began)
  BY <1>1 DEF ScannedTo
<1> QED  BY <1>1, <1>2, <1>3, <1>4, <1>5

(* A scan that is over leaves the ticker in the phase of its beginning. *)
LEMMA ScanOverScans ==
  ASSUME Scanned, Scanning, ScanOver, deadline' = 0,
         UNCHANGED <<now, allowed, wake, todo, scans, upSince>>
  PROVE  Scanned'
<1> USE IntervalIsPositive
<1>1. /\ pc' = "idle" /\ ticked' = FALSE
      /\ nextTick' = IF nextTick = 0 THEN now + Interval ELSE nextTick
  BY ScanningFacts DEF ScanOver, FirstScan
<1>2. nextTick' \in Nat /\ nextTick' # 0 /\ nextTick' >= 2 * Interval
  <2>1. nextTick = 0 \/ nextTick >= 2 * Interval
    BY DEF Scanned
  <2> QED  BY <1>1, <2>1, ScanningFacts
<1>3. Began' = IF nextTick = 0 THEN now ELSE Began
  BY <1>1, <1>2, ScanningFacts DEF Began
<1>4. Bar(Began') = Bar(Began)
  BY <1>3, ScanningFacts
<1>5. ScannedTo' = ScannedTo
  BY <1>1, <1>4, ScanningFacts DEF ScannedTo, Bar
<1>6. Began' <= now' /\ now' <= nextTick'
  BY <1>1, <1>3, ScanningFacts
<1>7. Subscribers' = Subscribers
  BY DEF Subscribers
<1>8. ScanTypes'
  BY <1>1, <1>2, <1>7 DEF Scanned, ScanTypes, Bar
<1>9. pc \notin {"down", "disabled"}
  BY DEF Scanning
<1>10. /\ \A b \in DOMAIN scans' : scans'[b] <= 1 /\ (b > ScannedTo' => scans'[b] = 0)
       /\ \A b \in (Bar(upSince) + 1 .. ScannedTo)' : b \in DOMAIN scans' /\ scans'[b] = 1
  BY <1>5, <1>9 DEF Scanned, Bar
<1> QED  BY <1>1, <1>2, <1>6, <1>8, <1>10 DEF Scanned, Scanning

(* The next call of a scan is given its time, and there is enough of it. *)
LEMMA NextCallScans ==
  ASSUME Scanned, Scanning, CallIsOut, Scanning',
         todo' \subseteq Subscribers,
         deadline' = now + SendTimeout, Spent' = Spent + SendTimeout,
         UNCHANGED <<now, allowed, wake, nextTick, ticked, scans, upSince>>
  PROVE  Scanned'
<1>1. SendTimeout \in Nat
  BY ScanAssumption
<1>2. Subscribers' = Subscribers /\ Began' = Began /\ Budget' = Budget
  BY DEF Subscribers, Began, Budget, Bar
<1>3. pc' \in {"ask", "save", "send"} /\ ticked' = FALSE
  BY ScanningFacts DEF Scanning
<1>4. ScannedTo' = ScannedTo
  BY <1>2, <1>3, ScanningFacts DEF ScannedTo, Bar
<1>5. /\ Interval <= Began' /\ Began' <= now' /\ now' <= Began' + Budget'
      /\ now' <= deadline' /\ deadline' <= Began' + Spent'
  BY <1>1, <1>2, ScanningFacts
<1>6. ScanTypes'
  <2>1. deadline' \in Nat
    BY <1>1, ScanningFacts
  <2> QED  BY <1>2, <1>3, <2>1 DEF Scanned, ScanTypes, Bar
<1>7. pc \notin {"down", "disabled"}
  BY DEF Scanning
<1>8. /\ \A b \in DOMAIN scans' : scans'[b] <= 1 /\ (b > ScannedTo' => scans'[b] = 0)
      /\ \A b \in (Bar(upSince) + 1 .. ScannedTo)' : b \in DOMAIN scans' /\ scans'[b] = 1
  BY <1>4, <1>7 DEF Scanned, Bar
<1>9. nextTick' = 0 \/ nextTick' >= 2 * Interval
  BY DEF Scanned
<1> QED  BY <1>3, <1>5, <1>6, <1>8, <1>9 DEF Scanned

LEMMA CallsScan ==
  ASSUME Scanned, Decide \/ PersistDecision \/ Broadcast
  PROVE  Scanned'
<1> USE DEF Scanning, CallIsOut
<1>0. SendTimeout \in Nat /\ LLMTimeout \in Nat /\ todo \subseteq Subscribers
  BY ScanAssumption DEF Scanned, ScanTypes
<1>1. CASE Decide
  <2>1. /\ pc = "ask" /\ pc' = "save" /\ deadline' = now + SendTimeout
        /\ UNCHANGED <<now, allowed, wake, nextTick, ticked, todo, scans, upSince>>
    BY <1>1 DEF Decide
  <2>2. Spent' = Spent + SendTimeout
    BY <2>1 DEF Spent
  <2> QED  BY <1>0, <2>1, <2>2, NextCallScans
<1>2. CASE PersistDecision
  <2>1. /\ pc = "save" /\ pc' = "send" /\ deadline' = now + SendTimeout /\ todo' = Subscribers
        /\ UNCHANGED <<now, allowed, wake, nextTick, ticked, scans, upSince>>
    BY <1>2 DEF PersistDecision
  <2>2. Cardinality((Subscribers \ todo)') = 0
    <3>1. (Subscribers \ todo)' = {}
      BY <2>1 DEF Subscribers
    <3> QED  BY <3>1, FS_EmptySet
  <2>3. Spent' = Spent + SendTimeout
    BY <1>0, <2>1, <2>2 DEF Spent
  <2> QED  BY <1>0, <2>1, <2>3, NextCallScans
<1>3. CASE Broadcast
  <2>1. PICK u \in todo : todo' = todo \ {u}
    BY <1>3 DEF Broadcast
  <2>2. /\ pc = "send" /\ pc' = "send" /\ todo # {} /\ deadline' = now + SendTimeout
        /\ UNCHANGED <<now, allowed, wake, nextTick, ticked, scans, upSince>>
    BY <1>3 DEF Broadcast
  <2>3. /\ (Subscribers \ todo)' = (Subscribers \ todo) \cup {u} /\ u \notin Subscribers \ todo
        /\ IsFiniteSet(Subscribers \ todo)
    <3>1. IsFiniteSet(Subscribers)
      BY BudgetFits DEF Scanned, ScanTypes
    <3>2. IsFiniteSet(Subscribers \ todo)
      BY <3>1, FS_Subset
    <3> QED  BY <1>0, <2>1, <2>2, <3>2 DEF Subscribers
  <2> DEFINE k == Cardinality(Subscribers \ todo)
  <2>4. Cardinality((Subscribers \ todo)') = k + 1 /\ k \in Nat
    BY <2>3, FS_AddElement, FS_CardinalityType
  <2>5. Spent = LLMTimeout + (2 + k) * SendTimeout /\ Spent' = LLMTimeout + (2 + (k + 1)) * SendTimeout
    BY <2>2, <2>4 DEF Spent
  <2> HIDE DEF k
  <2>6. (2 + (k + 1)) * SendTimeout = (2 + k) * SendTimeout + SendTimeout
        /\ (2 + k) * SendTimeout \in Nat
    BY <1>0, <2>4
  <2>7. Spent' = Spent + SendTimeout
    BY <1>0, <2>5, <2>6
  <2> QED  BY <1>0, <2>1, <2>2, <2>7, NextCallScans
<1> QED  BY <1>1, <1>2, <1>3

(* A tick finds the worker idle. *)
LEMMA TickerScans ==
  ASSUME Scanned, TickerFires
  PROVE  Scanned'
<1> USE IntervalIsPositive
<1>1. /\ pc \notin {"down", "disabled", "first"} /\ nextTick = now /\ ticked' = TRUE
      /\ nextTick' = nextTick + Interval
      /\ UNCHANGED <<now, allowed, pc, wake, deadline, todo, scans, upSince>>
  BY DEF TickerFires
<1>2. now \in Nat /\ nextTick \in Nat
  BY DEF Scanned, ScanTypes
<1>3. pc = "idle"
  <2>1. ~Scanning
    <3> SUFFICES ASSUME Scanning PROVE FALSE
      OBVIOUS
    <3>1. /\ Began \in Nat /\ Interval <= Began /\ Began <= now
          /\ nextTick # 0 => now < nextTick
      BY ScanningFacts
    <3> QED  BY <1>1, <1>2, <3>1
  <2> QED  BY <1>1, <2>1 DEF Scanned, ScanTypes, Scanning
<1>4. nextTick >= 2 * Interval /\ Began = now - Interval /\ ~ticked /\ Began' = now
  BY <1>1, <1>2, <1>3 DEF Scanned, Began
<1>5. ScannedTo' = ScannedTo
  <2>1. Began \in Nat /\ now = Began + Interval
    BY <1>1, <1>2, <1>4
  <2>2. Bar(now) = Bar(Began) + 1 /\ Bar(Began) \in Nat
    BY <2>1, BarLater, BarOf
  <2> QED  BY <1>1, <1>3, <1>4, <2>2 DEF ScannedTo, Bar
<1>6. Subscribers' = Subscribers
  BY <1>1 DEF Subscribers
<1>7. ScanTypes'
  BY <1>1, <1>2, <1>6 DEF Scanned, ScanTypes, Bar
<1>8. /\ \A b \in DOMAIN scans' : scans'[b] <= 1 /\ (b > ScannedTo' => scans'[b] = 0)
      /\ \A b \in (Bar(upSince) + 1 .. ScannedTo)' : b \in DOMAIN scans' /\ scans'[b] = 1
  BY <1>1, <1>5 DEF Scanned, Bar
<1>9. nextTick' # 0 /\ nextTick' >= 2 * Interval /\ now' <= nextTick'
  BY <1>1, <1>2, <1>4
<1> QED  BY <1>1, <1>2, <1>3, <1>4, <1>7, <1>8, <1>9 DEF Scanned, Scanning

LEMMA KillScans ==
  ASSUME Scanned, Kill
  PROVE  Scanned'
<1> USE IntervalIsPositive
<1>1. /\ pc' = "down" /\ ticked' = FALSE /\ todo' = {}
      /\ wake' = 0 /\ nextTick' = 0 /\ deadline' = 0
      /\ UNCHANGED <<now, allowed, scans, upSince>>
  BY DEF Kill
<1>2. /\ now \in Nat /\ nextTick \in Nat /\ upSince \in Nat /\ upSince <= now
      /\ pc \in {"down", "disabled", "first", "ask", "save", "send", "idle"}
  BY DEF Scanned, ScanTypes
<1>3. ScannedTo \in Int /\ ScannedTo <= Bar(now) /\ Bar(now) \in Int
  <2>1. Bar(now) \in Nat /\ Bar(upSince) \in Nat /\ Bar(upSince) <= Bar(now)
    BY <1>2, BarOf, BarMonotone
  <2>2. CASE pc \in {"down", "disabled", "first"}
    BY <2>1, <2>2 DEF ScannedTo
  <2>3. CASE pc = "idle" \/ Scanning
    <3>1. Began \in Nat /\ Began <= now
      <4>1. CASE Scanning
        BY <4>1, ScanningFacts
      <4>2. CASE pc = "idle"
        BY <1>2, <4>2 DEF Scanned, Began
      <4> QED  BY <2>3, <4>1, <4>2
    <3>2. Bar(Began) \in Nat /\ Bar(Began) <= Bar(now)
      BY <1>2, <3>1, BarOf, BarMonotone
    <3>3. ScannedTo = Bar(Began) \/ ScannedTo = Bar(Began) - 1
      BY <2>3 DEF ScannedTo, Scanning
    <3> QED  BY <2>1, <3>2, <3>3
  <2> QED  BY <1>2, <2>2, <2>3 DEF Scanning
<1>4. ScannedTo' = Bar(now)
  BY <1>1 DEF ScannedTo, Bar
<1>5. ScanTypes'
  BY <1>1 DEF Scanned, ScanTypes, Bar
<1>6. \A b \in DOMAIN scans' : scans'[b] <= 1 /\ (b > ScannedTo' => scans'[b] = 0)
  <2> SUFFICES ASSUME NEW b \in DOMAIN scans
               PROVE  scans[b] <= 1 /\ (b > Bar(now) => scans[b] = 0)
    BY <1>1, <1>4
  <2>1. b \in Int /\ scans[b] <= 1 /\ (b > ScannedTo => scans[b] = 0)
    BY DEF Scanned, ScanTypes
  <2> QED  BY <1>3, <2>1
<1> QED  BY <1>1, <1>5, <1>6 DEF Scanned, Scanning

(* Time passes up to the next thing that is due. *)
LEMMA TickScans ==
  ASSUME Scanned, Tick
  PROVE  Scanned'
<1> USE IntervalIsPositive
<1>1. /\ now' = now + 1 /\ now < MaxNow
      /\ UNCHANGED <<allowed, pc, wake, nextTick, ticked, deadline, todo, scans, upSince>>
      /\ \/ pc \in {"down", "disabled"}
         \/ pc = "first" /\ now < wake
         \/ pc = "idle" /\ ~ticked /\ now < nextTick
         \/ CallIsOut /\ now < deadline
  BY DEF Tick, workerVars
<1>2. now \in Nat /\ now' \in Nat /\ nextTick \in Nat /\ wake \in Nat /\ MaxNow \in Nat
      /\ upSince \in Nat /\ upSince <= now'
  <2>1. now \in Nat /\ nextTick \in Nat /\ upSince \in Nat /\ upSince <= now /\ wake \in Nat
    BY DEF Scanned, ScanTypes
  <2> QED  BY <1>1, <2>1, ScanAssumption
<1>3. Subscribers' = Subscribers
  BY <1>1 DEF Subscribers
<1>4. ScanTypes'
  BY <1>1, <1>2, <1>3 DEF Scanned, ScanTypes, Bar
<1>5. CASE pc \in {"down", "disabled"}
  <2>1. /\ ScannedTo = Bar(now) /\ ScannedTo' = Bar(now') /\ Bar(now) <= Bar(now')
        /\ Bar(now) \in Nat /\ Bar(now') \in Nat
    BY <1>1, <1>2, <1>5, BarOf, BarMonotone DEF ScannedTo, Bar
  <2>2. \A b \in DOMAIN scans' : scans'[b] <= 1 /\ (b > ScannedTo' => scans'[b] = 0)
    <3> SUFFICES ASSUME NEW b \in DOMAIN scans
                 PROVE  scans[b] <= 1 /\ (b > Bar(now') => scans[b] = 0)
      BY <1>1, <2>1
    <3>1. b \in Int /\ scans[b] <= 1 /\ (b > Bar(now) => scans[b] = 0)
      BY <2>1 DEF Scanned, ScanTypes
    <3> QED  BY <2>1, <3>1
  <2> QED  BY <1>1, <1>4, <1>5, <2>2 DEF Scanned, Scanning
<1>6. CASE /\ Began' = Began /\ pc \notin {"down", "disabled"}
           /\ pc = "first" => now < wake
           /\ pc = "idle" => ~ticked /\ now < nextTick
           /\ Scanning => CallIsOut /\ now < deadline
  <2>1. ScannedTo' = ScannedTo
    BY <1>1, <1>6 DEF ScannedTo, Bar
  <2>2. /\ \A b \in DOMAIN scans' : scans'[b] <= 1 /\ (b > ScannedTo' => scans'[b] = 0)
        /\ \A b \in (Bar(upSince) + 1 .. ScannedTo)' : b \in DOMAIN scans' /\ scans'[b] = 1
    BY <1>1, <1>6, <2>1 DEF Scanned, Bar
  <2>3. pc' = "first" => wake' = NextFire(upSince)' /\ now' <= wake'
    BY <1>1, <1>2, <1>6 DEF Scanned, NextFire, Bar
  <2>4. pc' = "idle" => /\ nextTick' # 0 /\ Began' <= now' /\ now' <= nextTick'
                        /\ ticked' => now' = Began'
    <3> SUFFICES ASSUME pc = "idle"
                 PROVE  /\ nextTick # 0 /\ Began <= now' /\ now' <= nextTick /\ ~ticked
      BY <1>1, <1>6
    <3>1. nextTick # 0 /\ Began <= now /\ Began = nextTick - Interval
      BY DEF Scanned, Began
    <3> QED  BY <1>1, <1>2, <1>6, <3>1
  <2>5. Scanning' => /\ Interval <= Began' /\ Began' <= now' /\ now' <= Began' + Budget'
                     /\ CallIsOut' => now' <= deadline' /\ deadline' <= Began' + Spent'
    <3>1. Scanning' = Scanning /\ CallIsOut' = CallIsOut /\ Spent' = Spent /\ Budget' = Budget
      BY <1>1, <1>3 DEF Scanning, CallIsOut, Spent, Budget
    <3> SUFFICES ASSUME Scanning
                 PROVE  /\ Interval <= Began /\ Began <= now' /\ now' <= Began + Budget
                        /\ now' <= deadline /\ deadline <= Began + Spent
      BY <1>1, <1>6, <3>1
    <3> QED  BY <1>1, <1>2, <1>6, ScanningFacts
  <2> QED  BY <1>1, <1>4, <1>6, <2>2, <2>3, <2>4, <2>5 DEF Scanned
<1>7. CASE pc = "first" /\ now < wake
  <2>1. ScannedTo' = ScannedTo /\ ~Scanning /\ ~Scanning'
    BY <1>1, <1>7 DEF ScannedTo, Bar, Scanning
  <2>2. /\ \A b \in DOMAIN scans' : scans'[b] <= 1 /\ (b > ScannedTo' => scans'[b] = 0)
        /\ \A b \in (Bar(upSince) + 1 .. ScannedTo)' : b \in DOMAIN scans' /\ scans'[b] = 1
    BY <1>1, <1>7, <2>1 DEF Scanned, Bar
  <2>3. pc' = "first" => wake' = NextFire(upSince)' /\ now' <= wake'
    BY <1>1, <1>2, <1>7 DEF Scanned, NextFire, Bar
  <2> QED  BY <1>1, <1>4, <1>7, <2>1, <2>2, <2>3 DEF Scanned
<1>8. CASE pc = "idle" /\ ~ticked /\ now < nextTick
  BY <1>1, <1>6, <1>8 DEF Began, Scanned, Scanning
<1>9. CASE CallIsOut /\ now < deadline
  <2>1. Scanning
    BY <1>9 DEF CallIsOut, Scanning
  <2>2. Began' = Began
    <3>1. CASE nextTick # 0
      BY <1>1, <3>1 DEF Began
    <3>2. CASE nextTick = 0
      <4>1. /\ Began = Bar(now) * Interval /\ Bar(now) \in Nat
        BY <1>2, <3>2, BarOf DEF Began
      <4>2. now' < Began + Interval /\ Began <= now' /\ Began \in Nat
        BY <1>1, <1>2, <1>9, <2>1, ScanningFacts
      <4>3. Bar(now') = Bar(now)
        <5>1. (Bar(now) + 1) * Interval = Began + Interval
          BY <4>1
        <5> QED  BY <1>2, <4>1, <4>2, <5>1, BarIs
      <4> QED  BY <1>1, <3>2, <4>1, <4>3 DEF Began, Bar
    <3> QED  BY <3>1, <3>2
  <2> QED  BY <1>6, <1>9, <2>1, <2>2 DEF Scanning
<1> QED  BY <1>1, <1>5, <1>7, <1>8, <1>9

LEMMA NextScans == Scanned /\ [Next]_vars => Scanned'
<1> SUFFICES ASSUME Scanned, [Next]_vars PROVE Scanned'
  OBVIOUS
<1>1. CASE UNCHANGED <<now, workerVars>>
  BY <1>1 DEF workerVars, Scanned, ScanTypes, Scanning, ScannedTo, Began, Bar, NextFire,
              Budget, Spent, CallIsOut, Subscribers
<1>2. CASE NoDecision
  BY <1>2, ScanOverScans DEF NoDecision, Scanning
<1>3. CASE BroadcastOver
  BY <1>3, ScanOverScans DEF BroadcastOver, Scanning
<1>4. CASE Prune \/ ChatSave \/ UNCHANGED vars
  BY <1>1, <1>4 DEF Prune, ChatSave, vars
<1> QED  BY <1>2, <1>3, <1>4, StartScans, FireScans, CallsScan, TickerScans, KillScans, TickScans
         DEF Next, Worker

(* Every bar that closes while the worker is up is scanned before the next *)
(* one closes and none twice, for every interval and allowlist whose scans *)
(* fit between two ticks: neither the time a scan takes nor the moment the *)
(* ticker is made adds up (Run, timeUntilNextFire).                        *)
THEOREM EveryBarAlways == Spec => []EveryBarScannedOnce
<1>1. Scanned => EveryBarScannedOnce
  <2> SUFFICES ASSUME Scanned, pc \notin {"down", "disabled"},
                      NEW b \in Bar(upSince) + 1 .. Bar(now) - 1
               PROVE  scans[b] = 1
    BY DEF Scanned, EveryBarScannedOnce
  <2> USE IntervalIsPositive
  <2>1. now \in Nat /\ upSince \in Nat /\ nextTick \in Nat
        /\ pc \in {"first", "ask", "save", "send", "idle"}
    BY DEF Scanned, ScanTypes
  <2>2. Bar(now) \in Nat /\ Bar(upSince) \in Nat
    BY <2>1, BarOf
  <2>3. ScannedTo \in Int /\ Bar(now) - 1 <= ScannedTo
    <3>1. CASE pc = "first"
      <4>1. now <= NextFire(upSince) /\ NextFire(upSince) = (Bar(upSince) + 1) * Interval
        BY <3>1 DEF Scanned, NextFire
      <4>2. Bar(NextFire(upSince)) = Bar(upSince) + 1 /\ NextFire(upSince) \in Nat
        BY <2>2, <4>1, BarOfMultiple
      <4>3. Bar(now) <= Bar(upSince) + 1
        BY <2>1, <4>1, <4>2, BarMonotone
      <4> QED  BY <2>2, <3>1, <4>3 DEF ScannedTo
    <3>2. CASE pc # "first"
      <4>1. /\ Began \in Nat /\ now <= Began + Interval
            /\ ticked => now = Began
        <5>1. CASE Scanning
          BY <5>1, ScanningFacts
        <5>2. CASE pc = "idle"
          BY <2>1, <5>2 DEF Scanned, Began
        <5> QED  BY <2>1, <3>2, <5>1, <5>2 DEF Scanning
      <4>2. Bar(Began + Interval) = Bar(Began) + 1 /\ Bar(Began) \in Nat
        BY <4>1, BarLater, BarOf
      <4>3. Bar(now) <= Bar(Began + Interval)
        BY <2>1, <4>1, BarMonotone
      <4>4. ScannedTo = IF ticked THEN Bar(Began) - 1 ELSE Bar(Began)
        BY <2>1, <3>2 DEF ScannedTo
      <4> QED  BY <2>2, <4>1, <4>2, <4>3, <4>4
    <3> QED  BY <3>1, <3>2
  <2>4. b \in Bar(upSince) + 1 .. ScannedTo
    BY <2>2, <2>3
  <2> QED  BY <2>4 DEF Scanned
<1> QED  BY <1>1, InitScanned, NextScans, PTL DEF Spec
=============================================================================
