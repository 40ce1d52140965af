------------------------- MODULE MarketDigestProofs -------------------------
(***************************************************************************)
(* What holds of the digest for any bars, windows, limits and tolerances,  *)
(* in this order: what the verdict can never advise, and that the mode in  *)
(* the digest follows it; how the outcome of a trade is settled; that the  *)
(* newest pivots are the swings; that no digest takes back what an earlier *)
(* one printed of a bar (pivots, labels, patterns), nor what it said       *)
(* became of a break or a gap; that all its fields are in range; and that  *)
(* a market and its mirror image are read alike, detector by detector.     *)
(***************************************************************************)
EXTENDS MarketDigest, SequenceTheorems, FiniteSetTheorems, WellFoundedInduction, TLAPS

(* A directional vote needs a regime of that direction: the timeframe's    *)
(* own or, for a consolidation, its parent's.                              *)
VoteMatches(vote, regime, parent) ==
    /\ vote \in {"TREND_UP", "TREND_DOWN", "TREND_UP_FADING", "TREND_DOWN_FADING",
                 "CHOPPY"} => regime = vote
    /\ vote = "CONSOLIDATING_BULL" =>
          regime \in {"TREND_UP_FADING", "RANGE"} /\ parent = "TREND_UP"
    /\ vote = "CONSOLIDATING_BEAR" =>
          regime \in {"TREND_DOWN_FADING", "RANGE"} /\ parent = "TREND_DOWN"
    /\ vote = "RANGE" => regime \notin Rising \cup Falling

(* A timeframe votes for a direction only if its regime, or its parent's,  *)
(* has it.                                                                 *)
LEMMA VoteDirection ==
    ASSUME NEW sum, NEW parent
    PROVE  VoteMatches(voteForTF(sum, parent), sum.regime, parent)
  BY DEF VoteMatches, voteForTF, Rising, Falling

(* The modes of a verdict, told from the two bias votes. *)
LEMMA ModeFromVotes ==
    ASSUME NEW h4, NEW h1, NEW m15
    PROVE  LET mode == deriveOverall(h4, h1, m15).mode IN
           /\ mode \in BuyModes =>
                 \/ h4 = "TREND_UP" /\ h1 \in {"TREND_UP", "CONSOLIDATING_BULL",
                                               "TREND_UP_FADING", "RANGE", "CHOPPY"}
                 \/ h4 \in {"TREND_UP_FADING", "CONSOLIDATING_BULL"} /\ h1 = "TREND_UP"
           /\ mode \in SellModes =>
                 \/ h4 = "TREND_DOWN" /\ h1 \in {"TREND_DOWN", "CONSOLIDATING_BEAR",
                                                 "TREND_DOWN_FADING", "RANGE", "CHOPPY"}
                 \/ h4 \in {"TREND_DOWN_FADING", "CONSOLIDATING_BEAR"} /\ h1 = "TREND_DOWN"
           /\ mode = "range_trade" =>
                 h4 \in {"RANGE", "CHOPPY"} /\ isRangeOrChoppy(h1)
  BY DEF deriveOverall, Verdict, BuyModes, SellModes, isRangeOrChoppy

(* Whatever the three timeframes read, the mode never fights the regimes   *)
(* of H4 and H1 (ComputeRegimeVerdict).                                    *)
THEOREM VerdictFollowsBias ==
    ASSUME NEW s \in [TFs -> Summaries]
    PROVE  FollowsBias(s, ComputeRegimeVerdict(s).mode)
<1> DEFINE h4   == voteForTF(s["H4"], "")
           h1   == voteForTF(s["H1"], s["H4"].regime)
           m15  == voteForTF(s["M15"], s["H1"].regime)
           mode == deriveOverall(h4, h1, m15).mode
           r4   == s["H4"].regime
           r1   == s["H1"].regime
<1>1. ComputeRegimeVerdict(s).mode = mode
  BY DEF ComputeRegimeVerdict
<1>4. VoteMatches(h4, r4, "") /\ VoteMatches(h1, r1, r4)
  BY VoteDirection
<1> HIDE DEF h4, h1, m15, mode, r4, r1
<1>6. mode \in BuyModes => /\ r4 \notin Falling /\ r1 \notin Falling
                           /\ r4 \in Rising
  <2>1. SUFFICES ASSUME mode \in BuyModes
                 PROVE  r4 \notin Falling /\ r1 \notin Falling /\ r4 \in Rising
    OBVIOUS
  <2>2. \/ h4 = "TREND_UP" /\ h1 \in {"TREND_UP", "CONSOLIDATING_BULL",
                                      "TREND_UP_FADING", "RANGE", "CHOPPY"}
        \/ h4 \in {"TREND_UP_FADING", "CONSOLIDATING_BULL"} /\ h1 = "TREND_UP"
    BY <2>1, ModeFromVotes DEF mode
  <2>3. QED  BY <2>2, <1>4 DEF VoteMatches, Rising, Falling
<1>7. mode \in SellModes => /\ r4 \notin Rising /\ r1 \notin Rising
                            /\ r4 \in Falling
  <2>1. SUFFICES ASSUME mode \in SellModes
                 PROVE  r4 \notin Rising /\ r1 \notin Rising /\ r4 \in Falling
    OBVIOUS
  <2>2. \/ h4 = "TREND_DOWN" /\ h1 \in {"TREND_DOWN", "CONSOLIDATING_BEAR",
                                        "TREND_DOWN_FADING", "RANGE", "CHOPPY"}
        \/ h4 \in {"TREND_DOWN_FADING", "CONSOLIDATING_BEAR"} /\ h1 = "TREND_DOWN"
    BY <2>1, ModeFromVotes DEF mode
  <2>3. QED  BY <2>2, <1>4 DEF VoteMatches, Rising, Falling
<1>8. mode = "range_trade" => r4 \notin Rising \cup Falling /\ r1 \notin Rising \cup Falling
  <2>1. SUFFICES ASSUME mode = "range_trade"
                 PROVE  r4 \notin Rising \cup Falling /\ r1 \notin Rising \cup Falling
    OBVIOUS
  <2>2. h4 \in {"RANGE", "CHOPPY"} /\ isRangeOrChoppy(h1)
    BY <2>1, ModeFromVotes DEF mode
  <2>3. r4 \notin Rising \cup Falling
    BY <2>2, <1>4 DEF VoteMatches, Rising, Falling
  <2>4. QED  BY <2>2, <2>3, <1>4 DEF VoteMatches, isRangeOrChoppy, Rising, Falling
<1>9. /\ AsymmetricRange(s) = "buy_side" => r4 \in Rising \/ r1 \in Rising
      /\ AsymmetricRange(s) = "sell_side" => r4 \in Falling \/ r1 \in Falling
  BY DEF AsymmetricRange, Rising, Falling, r4, r1
<1>10. /\ AsymmetricRange(s) = "buy_side" => mode \notin SellModes \cup {"range_trade"}
       /\ AsymmetricRange(s) = "sell_side" => mode \notin BuyModes \cup {"range_trade"}
  BY <1>6, <1>7, <1>8, <1>9
<1>11. QED  BY <1>1, <1>6, <1>7, <1>8, <1>10 DEF FollowsBias, r4, r1

(* M15 "refines but does not override": the mode is decided by H4 and H1. *)
THEOREM M15NeverOverrides ==
    ASSUME NEW s \in [TFs -> Summaries], NEW t \in [TFs -> Summaries],
           s["H4"] = t["H4"], s["H1"] = t["H1"]
    PROVE  ComputeRegimeVerdict(s).mode = ComputeRegimeVerdict(t).mode
<1>1. ASSUME NEW h4, NEW h1, NEW m, NEW n
      PROVE  deriveOverall(h4, h1, m).mode = deriveOverall(h4, h1, n).mode
  BY DEF deriveOverall, Verdict
<1> DEFINE h4 == voteForTF(s["H4"], "")
           h1 == voteForTF(s["H1"], s["H4"].regime)
           m  == voteForTF(s["M15"], s["H1"].regime)
           n  == voteForTF(t["M15"], t["H1"].regime)
<1>2. /\ ComputeRegimeVerdict(s) = deriveOverall(h4, h1, m)
      /\ ComputeRegimeVerdict(t) = deriveOverall(h4, h1, n)
  BY DEF ComputeRegimeVerdict
<1> HIDE DEF h4, h1, m, n
<1>3. QED  BY <1>1, <1>2

-----------------------------------------------------------------------------
(* The verdict shown is that of the regimes as they are now. *)
VerdictCurrent ==
    /\ summary \in [TFs -> Summaries]
    /\ verdict = ComputeRegimeVerdict(summary)

(* In every behaviour the verdict is what regime_verdict.go says of the    *)
(* summary of the moment: no step leaves an old one.                       *)
THEOREM VerdictIsCurrent == Spec => []VerdictCurrent
<1>1. Init => VerdictCurrent
  BY DEF Init, VerdictCurrent, Summaries
<1>2. VerdictCurrent /\ [Next]_vars => VerdictCurrent'
  <2>1. SUFFICES ASSUME VerdictCurrent, [Next]_vars
                 PROVE  VerdictCurrent'
    OBVIOUS
  <2>2. CASE Tick
    BY <2>1, <2>2 DEF Tick, VerdictCurrent
  <2>3. CASE CloseBar
    BY <2>1, <2>3 DEF CloseBar, VerdictCurrent
  <2>4. CASE Reclassify
    <3>1. PICK tf \in TFs, s \in Summaries : summary' = [summary EXCEPT ![tf] = s]
      BY <2>4 DEF Reclassify
    <3>2. summary' \in [TFs -> Summaries]
      BY <2>1, <3>1 DEF VerdictCurrent
    <3>3. QED  BY <2>4, <3>2 DEF Reclassify, VerdictCurrent
  <2>5. CASE UNCHANGED vars
    BY <2>1, <2>5 DEF vars, VerdictCurrent
  <2>6. QED  BY <2>1, <2>2, <2>3, <2>4, <2>5 DEF Next
<1>3. QED  BY <1>1, <1>2, PTL DEF Spec

(* No step ever shows a mode that fights H4 or H1, and none that moves M15 *)
(* alone changes the mode.                                                 *)
THEOREM ModeFollowsBias == Spec => NeverAgainstTheBias
<1>1. VerdictCurrent /\ VerdictCurrent' /\ [Next]_vars =>
        [/\ FollowsBias(summary', verdict'.mode)
         /\ (\A tf \in {"H4", "H1"} : summary'[tf] = summary[tf]) =>
                verdict'.mode = verdict.mode]_vars
  <2>1. SUFFICES ASSUME VerdictCurrent, VerdictCurrent'
                 PROVE  /\ FollowsBias(summary', verdict'.mode)
                        /\ (\A tf \in {"H4", "H1"} : summary'[tf] = summary[tf]) =>
                               verdict'.mode = verdict.mode
    OBVIOUS
  <2>2. FollowsBias(summary', verdict'.mode)
    BY <2>1, VerdictFollowsBias DEF VerdictCurrent
  <2>3. ASSUME \A tf \in {"H4", "H1"} : summary'[tf] = summary[tf]
        PROVE  verdict'.mode = verdict.mode
    BY <2>1, <2>3, M15NeverOverrides DEF VerdictCurrent
  <2>4. QED  BY <2>2, <2>3
<1>2. QED  BY <1>1, VerdictIsCurrent, PTL DEF Spec, NeverAgainstTheBias

-----------------------------------------------------------------------------
(* Lemmas about least and greatest elements.                               *)

LEMMA HasLeast ==
    ASSUME NEW T, T \subseteq Nat, T # {}
    PROVE  \E t \in T : \A u \in T : t <= u
<1>1. IsWellFoundedOn(OpToRel(<, Nat), Nat)
  BY NatLessThanWellFounded, Zenon
<1>2. PICK t \in T : \A u \in T : ~(<<u, t>> \in OpToRel(<, Nat))
  BY <1>1, WFMin
<1>3. \A u \in T : ~(u < t)
  BY <1>2 DEF OpToRel
<1> QED  BY <1>3

(* Every nonempty set of naturals has its least element as Min.            *)
LEMMA MinIsLeast ==
    ASSUME NEW T, T \subseteq Nat, T # {}
    PROVE  Min(T) \in T /\ \A u \in T : Min(T) <= u
  BY HasLeast DEF Min

(* The least position without a greatest value before it would follow one  *)
(* that has.                                                               *)
LEMMA PrefixHasGreatest ==
    ASSUME NEW n \in Nat, NEW g \in [1..n -> Int]
    PROVE  \E m \in {0} \cup {g[i] : i \in 1..n} :
              m >= 0 /\ \A i \in 1..n : m >= g[i]
<1> DEFINE Greatest(k, m) == /\ m \in Int /\ m >= 0
                             /\ m \in {0} \cup {g[i] : i \in 1..k}
                             /\ \A i \in 1..k : m >= g[i]
           Without == {k \in 0..n : ~ \E m \in Int : Greatest(k, m)}
<1>1. Without = {}
  <2>1. SUFFICES ASSUME Without # {} PROVE FALSE
    OBVIOUS
  <2>2. PICK k \in Without : \A j \in Without : k <= j
    <3>1. Without \subseteq Nat
      OBVIOUS
    <3> HIDE DEF Without
    <3> QED  BY <2>1, <3>1, HasLeast
  <2>3. k \in 0..n /\ ~ \E m \in Int : Greatest(k, m)
    BY <2>2
  <2>4. Greatest(0, 0)
    OBVIOUS
  <2>5. k # 0
    BY <2>3, <2>4
  <2>6. k - 1 \in 0..n /\ k \in 1..n /\ k - 1 \notin Without
    <3>1. k \in 0..n
      BY <2>3
    <3> HIDE DEF Without
    <3>2. k - 1 \in Without => k <= k - 1
      BY <2>2
    <3> QED  BY <2>5, <3>1, <3>2
  <2>7. PICK m \in Int : Greatest(k - 1, m)
    BY <2>6
  <2>8. \A i \in 1..k : i = k \/ i \in 1..(k - 1)
    BY <2>6
  <2>9. 1..(k - 1) \subseteq 1..k /\ k \in 1..k /\ g[k] \in Int
    BY <2>6
  <2>10. CASE m >= g[k]
    <3>1. Greatest(k, m)
      BY <2>7, <2>8, <2>9, <2>10
    <3> QED  BY <2>3, <3>1
  <2>11. CASE ~(m >= g[k])
    <3>1. g[k] >= 0 /\ \A i \in 1..(k - 1) : g[k] >= g[i]
      <4>1. 1..(k - 1) \subseteq 1..n
        BY <2>6
      <4> QED  BY <2>7, <2>9, <2>11, <4>1
    <3>2. Greatest(k, g[k])
      BY <2>8, <2>9, <3>1
    <3> QED  BY <2>3, <2>9, <3>2
  <2> QED  BY <2>10, <2>11
<1>2. \E m \in Int : Greatest(n, m)
  <2>1. n \in 0..n
    OBVIOUS
  <2>2. n \notin Without
    BY <1>1
  <2> HIDE DEF Greatest
  <2> QED  BY <2>1, <2>2
<1> QED  BY <1>2

(* The greatest of 0 and the values of a prefix is one of them and bounds  *)
(* them all.                                                               *)
LEMMA MaxOfPrefix ==
    ASSUME NEW n \in Nat, NEW g \in [1..n -> Int], NEW k \in 0..n
    PROVE  LET S == {0} \cup {g[i] : i \in 1..k}
           IN  Max(S) \in S /\ Max(S) \in Int /\ Max(S) >= 0 /\ \A i \in 1..k : Max(S) >= g[i]
<1> DEFINE S == {0} \cup {g[i] : i \in 1..k}
           h == [i \in 1..k |-> g[i]]
<1>1. h \in [1..k -> Int] /\ k \in Nat /\ S = {0} \cup {h[i] : i \in 1..k} /\ S \subseteq Int
  OBVIOUS
<1>2. PICK m \in S : m >= 0 /\ \A i \in 1..k : m >= g[i]
  <2>1. PICK m \in {0} \cup {h[i] : i \in 1..k} : m >= 0 /\ \A i \in 1..k : m >= h[i]
    <3> HIDE DEF h
    <3> QED  BY <1>1, PrefixHasGreatest
  <2> QED  BY <1>1, <2>1
<1>3. \A x \in S : m >= x
  BY <1>1, <1>2
<1>4. Max(S) \in S /\ \A x \in S : Max(S) >= x
  <2> HIDE DEF S
  <2> QED  BY <1>2, <1>3 DEF Max
<1>5. 0 \in S /\ \A i \in 1..k : g[i] \in S
  OBVIOUS
<1> HIDE DEF S
<1>6. Max(S) \in Int /\ Max(S) >= 0 /\ \A i \in 1..k : Max(S) >= g[i]
  BY <1>1, <1>4, <1>5
<1> QED  BY <1>4, <1>6 DEF S

-----------------------------------------------------------------------------
(* The walk over the candles after a decision.                             *)
Candle == [time : Int, open : Nat, high : Nat, low : Nat, close : Nat]

Stopped(d, c) == IF d.action = "BUY" THEN c.low <= d.sl ELSE c.high >= d.sl
Filled(d, c)  == IF d.action = "BUY" THEN c.high >= d.tp ELSE c.low <= d.tp
Gain(d, c)    == IF d.action = "BUY" THEN c.high - d.entry ELSE d.entry - c.low
Loss(d, c)    == IF d.action = "BUY" THEN d.entry - c.low ELSE c.high - d.entry
Risk(d)       == IF d.action = "BUY" THEN d.entry - d.sl ELSE d.sl - d.entry

Hits(d, f) == {i \in 1..Len(f) : Stopped(d, f[i]) \/ Filled(d, f[i])}
End(d, f) == IF Hits(d, f) = {} THEN Len(f) ELSE Min(Hits(d, f))

Best(d, f)  == Max({0} \cup {Gain(d, f[i]) : i \in 1..End(d, f)})
Worst(d, f) == Max({0} \cup {Loss(d, f[i]) : i \in 1..End(d, f)})

(* The walk over the bars after a decision as one expression: the bar it   *)
(* ends at, whether the stop or the target was hit there, and the          *)
(* excursions up to it.                                                    *)
LEMMA ResolvedTrade ==
    ASSUME NEW d, d.action \in {"BUY", "SELL"}, NEW f \in Seq(Candle), f # << >>
    PROVE  resolveOutcome(d, f) =
             [kind |-> IF Hits(d, f) = {} THEN "timeout"
                       ELSE IF Stopped(d, f[End(d, f)]) THEN "sl" ELSE "tp",
              bars |-> IF Hits(d, f) = {} THEN 0 ELSE End(d, f),
              mfe  |-> Best(d, f),
              mae  |-> Worst(d, f)]
<1>1. d.action = "BUY" \/ d.action = "SELL"
  OBVIOUS
<1>2. CASE d.action = "BUY"
  <2>1. resolveOutcome(d, f) = walkBuy(d, f)
    BY <1>2 DEF resolveOutcome
  <2>2. Hits(d, f) = {i \in 1..Len(f) : f[i].low <= d.sl \/ f[i].high >= d.tp}
    BY <1>2 DEF Hits, Stopped, Filled
  <2>3. \A k : /\ {Gain(d, f[i]) : i \in 1..k} = {f[i].high - d.entry : i \in 1..k}
               /\ {Loss(d, f[i]) : i \in 1..k} = {d.entry - f[i].low : i \in 1..k}
    BY <1>2 DEF Gain, Loss
  <2>4. Stopped(d, f[End(d, f)]) <=> f[End(d, f)].low <= d.sl
    BY <1>2 DEF Stopped
  <2> QED  BY <2>1, <2>2, <2>3, <2>4 DEF walkBuy, Walk, End, Best, Worst
<1>3. CASE d.action = "SELL"
  <2>1. resolveOutcome(d, f) = walkSell(d, f) /\ d.action # "BUY"
    BY <1>3 DEF resolveOutcome
  <2>2. Hits(d, f) = {i \in 1..Len(f) : f[i].high >= d.sl \/ f[i].low <= d.tp}
    BY <2>1 DEF Hits, Stopped, Filled
  <2>3. \A k : /\ {Gain(d, f[i]) : i \in 1..k} = {d.entry - f[i].low : i \in 1..k}
               /\ {Loss(d, f[i]) : i \in 1..k} = {f[i].high - d.entry : i \in 1..k}
    BY <2>1 DEF Gain, Loss
  <2>4. Stopped(d, f[End(d, f)]) <=> f[End(d, f)].high >= d.sl
    BY <2>1 DEF Stopped
  <2> QED  BY <2>1, <2>2, <2>3, <2>4 DEF walkSell, Walk, End, Best, Worst
<1> QED  BY <1>1, <1>2, <1>3

(* The outcome of a trade in one expression: the first bar that hits, if   *)
(* any, and the excursions up to it.                                       *)
LEMMA Resolved ==
    ASSUME NEW d \in Decisions, NEW f \in Seq(Candle), f # << >>
    PROVE  resolveOutcome(d, f) =
             [kind |-> IF Hits(d, f) = {} THEN "timeout"
                       ELSE IF Stopped(d, f[End(d, f)]) THEN "sl" ELSE "tp",
              bars |-> IF Hits(d, f) = {} THEN 0 ELSE End(d, f),
              mfe  |-> Best(d, f),
              mae  |-> Worst(d, f)]
<1>1. d.action \in {"BUY", "SELL"}
  BY DigestConstants
<1> QED  BY <1>1, ResolvedTrade

(* The walk ends at the first bar that hits, or at the last one, with      *)
(* excursions that bars before its end attain.                             *)
LEMMA WalkEnds ==
    ASSUME NEW d \in Decisions, NEW f \in Seq(Candle), f # << >>
    PROVE  /\ End(d, f) \in 1..Len(f) /\ Len(f) \in Nat
           /\ Hits(d, f) # {} => End(d, f) \in Hits(d, f)
           /\ \A i \in 1..(End(d, f) - 1) : i \notin Hits(d, f)
           /\ Best(d, f) \in Int /\ Worst(d, f) \in Int
           /\ Worst(d, f) \in {0} \cup {Loss(d, f[i]) : i \in 1..End(d, f)}
           /\ Best(d, f) \in {0} \cup {Gain(d, f[i]) : i \in 1..End(d, f)}
           /\ Best(d, f) >= 0 /\ Worst(d, f) >= 0
           /\ \A i \in 1..End(d, f) : /\ f[i] \in Candle
                                       /\ Best(d, f) >= Gain(d, f[i])
                                       /\ Worst(d, f) >= Loss(d, f[i])
<1> DEFINE n == Len(f)
           k == End(d, f)
           gains == [i \in 1..n |-> Gain(d, f[i])]
           losses == [i \in 1..n |-> Loss(d, f[i])]
<1>1. n \in Nat \ {0} /\ \A i \in 1..n : f[i] \in Candle
  OBVIOUS
<1>2. {d.entry, d.sl, d.tp} \subseteq Nat
  BY DigestConstants
<1>3. \A i \in 1..n : Gain(d, f[i]) \in Int /\ Loss(d, f[i]) \in Int
  <2>1. SUFFICES ASSUME NEW i \in 1..n
                 PROVE  Gain(d, f[i]) \in Int /\ Loss(d, f[i]) \in Int
    OBVIOUS
  <2>2. f[i].high \in Nat /\ f[i].low \in Nat
    BY <1>1 DEF Candle
  <2> QED  BY <1>2, <2>2 DEF Gain, Loss
<1>4. gains \in [1..n -> Int] /\ losses \in [1..n -> Int]
  BY <1>3
<1>5. Hits(d, f) \subseteq Nat /\ Hits(d, f) \subseteq 1..n
  BY DEF Hits
<1>6. /\ k \in 1..n
      /\ Hits(d, f) # {} => k \in Hits(d, f)
      /\ \A i \in 1..(k - 1) : i \notin Hits(d, f)
  <2>1. CASE Hits(d, f) = {}
    BY <1>1, <2>1 DEF End
  <2>2. CASE Hits(d, f) # {}
    <3>1. k \in Hits(d, f) /\ \A u \in Hits(d, f) : k <= u
      BY <1>5, <2>2, MinIsLeast DEF End
    <3> HIDE DEF k
    <3> QED  BY <1>5, <3>1
  <2> QED  BY <2>1, <2>2
<1> HIDE DEF k, n
<1>7. 1..k \subseteq 1..n /\ k \in 0..n /\ n \in Nat
  BY <1>1, <1>6
<1>8. /\ {gains[i] : i \in 1..k} = {Gain(d, f[i]) : i \in 1..k}
      /\ {losses[i] : i \in 1..k} = {Loss(d, f[i]) : i \in 1..k}
      /\ \A i \in 1..k : gains[i] = Gain(d, f[i]) /\ losses[i] = Loss(d, f[i])
  BY <1>7
<1> HIDE DEF gains, losses
<1>9. LET S == {0} \cup {gains[i] : i \in 1..k}
      IN  Max(S) \in S /\ Max(S) \in Int /\ Max(S) >= 0 /\ \A i \in 1..k : Max(S) >= gains[i]
  BY <1>4, <1>7, MaxOfPrefix
<1>10. LET S == {0} \cup {losses[i] : i \in 1..k}
       IN  Max(S) \in S /\ Max(S) \in Int /\ Max(S) >= 0 /\ \A i \in 1..k : Max(S) >= losses[i]
  BY <1>4, <1>7, MaxOfPrefix
<1>11. /\ Best(d, f) = Max({0} \cup {gains[i] : i \in 1..k})
       /\ Worst(d, f) = Max({0} \cup {losses[i] : i \in 1..k})
  BY <1>8 DEF Best, Worst, k
<1>12. /\ Best(d, f) \in {0} \cup {Gain(d, f[i]) : i \in 1..k} /\ Best(d, f) \in Int
       /\ Best(d, f) >= 0 /\ \A i \in 1..k : Best(d, f) >= Gain(d, f[i])
  BY <1>8, <1>9, <1>11
<1>13. /\ Worst(d, f) \in {0} \cup {Loss(d, f[i]) : i \in 1..k} /\ Worst(d, f) \in Int
       /\ Worst(d, f) >= 0 /\ \A i \in 1..k : Worst(d, f) >= Loss(d, f[i])
  BY <1>8, <1>10, <1>11
<1>14. \A i \in 1..k : f[i] \in Candle
  BY <1>1, <1>7
<1> QED  BY <1>1, <1>6, <1>12, <1>13, <1>14 DEF k, n

(* A stop is where it costs the risk; a target comes before it.            *)
LEMMA StopsCostTheRisk ==
    ASSUME NEW d \in Decisions, NEW f \in Seq(Candle)
    PROVE  LET b == resolveOutcome(d, f)
           IN  /\ b.kind = "tp" /\ Risk(d) > 0 => b.mae < Risk(d)
               /\ b.kind = "sl" => b.mae >= Risk(d)
<1> DEFINE k == End(d, f)
<1>1. CASE f = << >>
  BY <1>1 DEF resolveOutcome, OutcomeError
<1>2. CASE f # << >>
  <2>1. /\ k \in Nat \ {0} /\ Worst(d, f) \in Int /\ Worst(d, f) >= 0
        /\ Hits(d, f) # {} => k \in Hits(d, f)
        /\ \A i \in 1..(k - 1) : i \notin Hits(d, f)
        /\ Worst(d, f) \in {0} \cup {Loss(d, f[i]) : i \in 1..k}
        /\ \A i \in 1..k : i \in 1..Len(f) /\ f[i] \in Candle /\ Worst(d, f) >= Loss(d, f[i])
    BY <1>2, WalkEnds
  <2>2. {d.entry, d.sl, d.tp} \subseteq Nat
    BY DigestConstants
  <2>3. \A i \in 1..k : f[i].high \in Nat /\ f[i].low \in Nat
    BY <2>1 DEF Candle
  <2>4. \A i \in 1..k : Stopped(d, f[i]) <=> Loss(d, f[i]) >= Risk(d)
    <3>1. SUFFICES ASSUME NEW i \in 1..k
                   PROVE  Stopped(d, f[i]) <=> Loss(d, f[i]) >= Risk(d)
      OBVIOUS
    <3> DEFINE hi == f[i].high
               lo == f[i].low
    <3>2. hi \in Nat /\ lo \in Nat
      BY <2>3
    <3>3. /\ lo <= d.sl <=> d.entry - lo >= d.entry - d.sl
          /\ hi >= d.sl <=> hi - d.entry >= d.sl - d.entry
      <4> HIDE DEF hi, lo
      <4>1. \A x, y, z \in Int : (x <= y <=> z - x >= z - y) /\ (x >= y <=> x - z >= y - z)
        OBVIOUS
      <4>2. d.entry \in Int /\ d.sl \in Int /\ hi \in Int /\ lo \in Int
        BY <2>2, <3>2
      <4> QED  BY <4>1, <4>2
    <3> QED  BY <3>3 DEF Stopped, Loss, Risk
  <2>5. Risk(d) \in Int
    BY <2>2 DEF Risk
  <2>6. \A i \in 1..k : Loss(d, f[i]) \in Int
    BY <2>2, <2>3 DEF Loss
  <2>7. /\ resolveOutcome(d, f).mae = Worst(d, f)
        /\ resolveOutcome(d, f).kind \in {"tp", "sl"} => Hits(d, f) # {}
        /\ resolveOutcome(d, f).kind = "tp" => ~Stopped(d, f[k])
        /\ resolveOutcome(d, f).kind = "sl" => Stopped(d, f[k])
    BY <1>2, Resolved
  <2> HIDE DEF k
  <2>8. ASSUME resolveOutcome(d, f).kind = "sl" PROVE Worst(d, f) >= Risk(d)
    <3>1. k \in 1..k
      BY <2>1
    <3> QED  BY <2>1, <2>4, <2>5, <2>6, <2>7, <2>8, <3>1
  <2>9. ASSUME resolveOutcome(d, f).kind = "tp", Risk(d) > 0 PROVE Worst(d, f) < Risk(d)
    <3>1. ASSUME NEW i \in 1..k PROVE ~Stopped(d, f[i])
      <4>1. CASE i = k
        BY <2>7, <2>9, <4>1
      <4>2. CASE i # k
        <5>1. i \in 1..(k - 1) /\ i \in 1..Len(f)
          BY <2>1, <4>2
        <5> QED  BY <2>1, <5>1 DEF Hits
      <4> QED  BY <4>1, <4>2
    <3>2. \A i \in 1..k : Loss(d, f[i]) < Risk(d)
      BY <2>4, <2>5, <2>6, <3>1
    <3> QED  BY <2>1, <2>9, <3>2
  <2> QED  BY <2>7, <2>8, <2>9
<1> QED  BY <1>1, <1>2

(* One candle more.                                                        *)
LEMMA OneMore ==
    ASSUME NEW d \in Decisions, NEW f \in Seq(Candle), NEW c \in Candle
    PROVE  LET a == resolveOutcome(d, f)
               b == resolveOutcome(d, Append(f, c))
           IN  /\ a.kind \in {"tp", "sl"} => b = a
               /\ a.kind = "timeout" => /\ b.mfe >= a.mfe /\ b.mae >= a.mae
                                        /\ b.kind # "timeout" => b.bars = Len(f) + 1
<1> DEFINE e == Append(f, c)
           n == Len(f)
<1>1. CASE f = << >>
  BY <1>1 DEF resolveOutcome, OutcomeError
<1>2. CASE f # << >>
  <2>1. /\ e \in Seq(Candle) /\ e # << >> /\ n \in Nat /\ Len(e) = n + 1
        /\ \A i \in 1..n : e[i] = f[i]
    OBVIOUS
  <2> HIDE DEF e, n
  <2>2. Hits(d, e) \cap (1..n) = Hits(d, f) /\ Hits(d, e) \subseteq 1..(n + 1)
    <3>1. Hits(d, f) = {i \in 1..n : Stopped(d, f[i]) \/ Filled(d, f[i])}
      BY DEF Hits, n
    <3>2. Hits(d, e) = {i \in 1..(n + 1) : Stopped(d, e[i]) \/ Filled(d, e[i])}
      BY <2>1 DEF Hits
    <3>3. 1..n \subseteq 1..(n + 1)
      BY <2>1
    <3> QED  BY <2>1, <3>1, <3>2, <3>3
  <2>3. /\ End(d, f) \in 1..n /\ End(d, e) \in 1..(n + 1)
        /\ Hits(d, f) # {} => End(d, f) \in Hits(d, f)
        /\ Hits(d, e) # {} => End(d, e) \in Hits(d, e)
        /\ \A i \in 1..(End(d, f) - 1) : i \notin Hits(d, f)
        /\ \A i \in 1..(End(d, e) - 1) : i \notin Hits(d, e)
    BY <1>2, <2>1, WalkEnds DEF n
  <2>4. CASE Hits(d, f) # {}
    <3>1. End(d, f) \in Hits(d, e) /\ Hits(d, e) # {} /\ End(d, f) \in Hits(d, f)
      BY <2>2, <2>3, <2>4
    <3>2. ~(End(d, e) < End(d, f))
      <4>1. SUFFICES ASSUME End(d, e) < End(d, f) PROVE FALSE
        OBVIOUS
      <4>2. End(d, e) \in 1..(End(d, f) - 1) /\ End(d, e) \in 1..n
        BY <2>1, <2>3, <4>1
      <4> QED  BY <2>2, <2>3, <3>1, <4>2
    <3>3. ~(End(d, f) < End(d, e))
      <4>1. SUFFICES ASSUME End(d, f) < End(d, e) PROVE FALSE
        OBVIOUS
      <4>2. End(d, f) \in 1..(End(d, e) - 1)
        BY <2>1, <2>3, <4>1
      <4> QED  BY <2>3, <3>1, <4>2
    <3>4. End(d, e) = End(d, f)
      BY <2>1, <2>3, <3>2, <3>3
    <3>5. 1..End(d, f) \subseteq 1..n /\ End(d, f) \in 1..n
      BY <2>1, <2>3
    <3>6. /\ {Gain(d, e[i]) : i \in 1..End(d, e)} = {Gain(d, f[i]) : i \in 1..End(d, f)}
          /\ {Loss(d, e[i]) : i \in 1..End(d, e)} = {Loss(d, f[i]) : i \in 1..End(d, f)}
      BY <2>1, <3>4, <3>5
    <3>7. Best(d, e) = Best(d, f) /\ Worst(d, e) = Worst(d, f)
      BY <3>6 DEF Best, Worst
    <3>8. Stopped(d, e[End(d, e)]) <=> Stopped(d, f[End(d, f)])
      BY <2>1, <3>4, <3>5
    <3>9. resolveOutcome(d, e) = resolveOutcome(d, f)
      BY <1>2, <2>1, <2>4, <3>1, <3>4, <3>7, <3>8, Resolved
    <3>10. resolveOutcome(d, f).kind # "timeout"
      BY <1>2, <2>4, Resolved
    <3> QED  BY <3>9, <3>10 DEF e
  <2>5. CASE Hits(d, f) = {}
    <3>1. /\ End(d, f) = n
          /\ Hits(d, e) \subseteq {n + 1}
      BY <2>1, <2>2, <2>5 DEF End, n
    <3>2. End(d, e) = n + 1
      <4>1. CASE Hits(d, e) = {}
        BY <2>1, <4>1 DEF End
      <4>2. CASE Hits(d, e) # {}
        BY <2>3, <3>1, <4>2
      <4> QED  BY <4>1, <4>2
    <3>3. \A i \in 1..n : i \in 1..(n + 1) /\ Gain(d, f[i]) = Gain(d, e[i]) /\ Loss(d, f[i]) = Loss(d, e[i])
      BY <2>1
    <3>4. /\ Best(d, f) \in {0} \cup {Gain(d, f[i]) : i \in 1..n}
          /\ Worst(d, f) \in {0} \cup {Loss(d, f[i]) : i \in 1..n}
          /\ Best(d, f) \in Int /\ Worst(d, f) \in Int
      BY <1>2, <2>1, <3>1, WalkEnds
    <3>5. /\ Best(d, e) >= 0 /\ Worst(d, e) >= 0 /\ Best(d, e) \in Int /\ Worst(d, e) \in Int
          /\ \A i \in 1..(n + 1) : Best(d, e) >= Gain(d, e[i]) /\ Worst(d, e) >= Loss(d, e[i])
      BY <2>1, <3>2, WalkEnds
    <3>6. Best(d, e) >= Best(d, f) /\ Worst(d, e) >= Worst(d, f)
      BY <3>3, <3>4, <3>5
    <3>7. /\ resolveOutcome(d, f).kind = "timeout"
          /\ resolveOutcome(d, f).mfe = Best(d, f) /\ resolveOutcome(d, f).mae = Worst(d, f)
          /\ resolveOutcome(d, e).mfe = Best(d, e) /\ resolveOutcome(d, e).mae = Worst(d, e)
          /\ resolveOutcome(d, e).kind # "timeout" => resolveOutcome(d, e).bars = n + 1
      BY <1>2, <2>1, <2>5, <3>2, Resolved
    <3> QED  BY <3>6, <3>7 DEF e, n
  <2> QED  BY <2>4, <2>5
<1> QED  BY <1>1, <1>2

-----------------------------------------------------------------------------
(* The bars of the market; ticks leave the closed ones alone.              *)
Market == bars \in Seq(Candle) /\ bars # << >>

(* A bar of any shape or opening at any time is a candle.                  *)
LEMMA BarTyped ==
    ASSUME NEW t \in Int, NEW s, s \in Shapes \/ s \in Openings
    PROVE  Bar(t, s) \in Candle
<1>1. s \in [open : Nat, high : Nat, low : Nat, close : Nat]
  <2>1. CASE s \in Shapes
    BY <2>1, DigestConstants
  <2>2. CASE s \in Openings
    <3>1. PICK q \in Shapes : s = Opening(q.open)
      BY <2>2 DEF Openings
    <3>2. q.open \in Nat
      BY DigestConstants
    <3> QED  BY <3>1, <3>2 DEF Opening
  <2> QED  BY <2>1, <2>2
<1> QED  BY <1>1 DEF Bar, Candle

(* The history a run begins with is a series of candles.                   *)
LEMMA InitMarket == Init => Market
<1> SUFFICES ASSUME Init PROVE Market
  OBVIOUS
<1>1. PICK h \in Histories, s \in Openings : bars = Append(Past(h), Bar(1, s))
  BY DEF Init
<1>2. h \in Seq(Shapes)
  BY DigestConstants
<1>3. \A i \in 1..Len(h) : i - Len(h) \in Int /\ h[i] \in Shapes
  BY <1>2
<1>4. \A i \in 1..Len(h) : Bar(i - Len(h), h[i]) \in Candle
  BY <1>3, BarTyped
<1>5. Past(h) = [i \in 1..Len(h) |-> Bar(i - Len(h), h[i])] /\ Len(h) \in Nat
  BY <1>2 DEF Past
<1>6. Past(h) \in Seq(Candle)
  BY <1>4, <1>5
<1>7. Bar(1, s) \in Candle
  BY BarTyped
<1> QED  BY <1>1, <1>6, <1>7 DEF Market

(* A trade changes the forming bar alone.                                  *)
LEMMA TickKeepsClosed ==
    ASSUME Market, Tick
    PROVE  Market' /\ ClosedCandles(bars') = ClosedCandles(bars)
<1>1. PICK s \in Shapes : bars' = [bars EXCEPT ![Len(bars)] = Bar(bars[Len(bars)].time, s)]
  BY DEF Tick
<1>2. bars \in Seq(Candle) /\ Len(bars) \in Nat \ {0} /\ bars[Len(bars)] \in Candle
  BY DEF Market
<1>3. bars[Len(bars)].time \in Int
  BY <1>2 DEF Candle
<1> DEFINE b == Bar(bars[Len(bars)].time, s)
<1>4. b \in Candle
  BY <1>3, BarTyped
<1> HIDE DEF b
<1>5. bars' = [bars EXCEPT ![Len(bars)] = b]
  BY <1>1 DEF b
<1>6. bars' \in Seq(Candle) /\ Len(bars') = Len(bars) /\ bars' # << >>
      /\ \A i \in 1..(Len(bars) - 1) : bars'[i] = bars[i]
  BY <1>2, <1>4, <1>5
<1>7. SubSeq(bars', 1, Len(bars) - 1) = SubSeq(bars, 1, Len(bars) - 1)
  BY <1>2, <1>6
<1> QED  BY <1>6, <1>7 DEF Market, ClosedCandles, Front

(* Closing a bar appends it, as it was last seen, to the closed ones.      *)
LEMMA CloseBarCloses ==
    ASSUME Market, CloseBar
    PROVE  /\ Market'
           /\ ClosedCandles(bars') = Append(ClosedCandles(bars), bars[Len(bars)])
           /\ Len(ClosedCandles(bars)) + 1 = Len(bars)
<1>1. PICK s \in Openings : bars' = Append(bars, Bar(bars[Len(bars)].time + 1, s))
  BY DEF CloseBar
<1>2. bars \in Seq(Candle) /\ Len(bars) \in Nat \ {0} /\ bars[Len(bars)] \in Candle
  BY DEF Market
<1>3. bars[Len(bars)].time + 1 \in Int
  BY <1>2 DEF Candle
<1> DEFINE b == Bar(bars[Len(bars)].time + 1, s)
<1>4. b \in Candle
  BY <1>3, BarTyped
<1> HIDE DEF b
<1>5. bars' = Append(bars, b)
  BY <1>1 DEF b
<1>6. bars' \in Seq(Candle) /\ Len(bars') = Len(bars) + 1 /\ bars' # << >>
      /\ \A i \in 1..Len(bars) : bars'[i] = bars[i]
  BY <1>2, <1>4, <1>5
<1>7. ClosedCandles(bars') = SubSeq(bars', 1, Len(bars))
  BY <1>2, <1>6 DEF ClosedCandles, Front
<1>8. SubSeq(bars', 1, Len(bars)) = bars
  BY <1>2, <1>6
<1>9. CASE Len(bars) = 1
  <2>1. ClosedCandles(bars) = << >>
    BY <1>9 DEF ClosedCandles
  <2>2. bars = Append(<< >>, bars[1])
    BY <1>2, <1>9
  <2>3. Len(<< >>) = 0
    OBVIOUS
  <2>4. ClosedCandles(bars') = Append(ClosedCandles(bars), bars[Len(bars)])
    BY <1>7, <1>8, <1>9, <2>1, <2>2
  <2> QED  BY <1>6, <1>9, <2>1, <2>3, <2>4 DEF Market
<1>10. CASE Len(bars) # 1
  <2>1. PICK m \in Nat : Len(bars) = m + 1
    BY <1>2
  <2>2. ClosedCandles(bars) = SubSeq(bars, 1, m)
    BY <1>2, <1>10, <2>1 DEF ClosedCandles, Front
  <2>3. SubSeq(bars, 1, m) \in Seq(Candle) /\ Len(SubSeq(bars, 1, m)) = m
        /\ \A i \in 1..m : SubSeq(bars, 1, m)[i] = bars[i]
    BY <1>2, <2>1
  <2>4. Append(SubSeq(bars, 1, m), bars[m + 1]) = bars
    BY <1>2, <2>1, <2>3
  <2>5. ClosedCandles(bars') = Append(ClosedCandles(bars), bars[Len(bars)])
    BY <1>7, <1>8, <2>1, <2>2, <2>4
  <2>6. Len(ClosedCandles(bars)) + 1 = Len(bars)
    BY <2>1, <2>2, <2>3
  <2> QED  BY <1>6, <2>5, <2>6 DEF Market
<1> QED  BY <1>9, <1>10

(* The bars are candles in every behaviour, and never none.                *)
LEMMA AlwaysMarket == Spec => []Market
<1>1. Market /\ [Next]_vars => Market'
  <2> SUFFICES ASSUME Market, [Next]_vars PROVE Market'
    OBVIOUS
  <2>1. CASE Reclassify \/ UNCHANGED vars
    BY <2>1 DEF Reclassify, vars, Market
  <2> QED  BY <2>1, TickKeepsClosed, CloseBarCloses DEF Next
<1> QED  BY InitMarket, <1>1, PTL DEF Spec

(* The closed bars are candles too.                                        *)
LEMMA ClosedTyped ==
    ASSUME NEW f \in Seq(Candle)
    PROVE  ClosedCandles(f) \in Seq(Candle)
  BY DEF ClosedCandles, Front

(* What the backtest says of a trade that is decided never changes, and    *)
(* what it says of one that is not only grows; a loss cost the risk and a  *)
(* win less (walkBuy, walkSell).                                           *)
THEOREM OutcomeIsFinal == Spec => VerdictIsFinal
<1> DEFINE Final(d) ==
             LET a == resolveOutcome(d, ClosedCandles(bars))
                 b == resolveOutcome(d, ClosedCandles(bars'))
                 risk == IF d.action = "BUY" THEN d.entry - d.sl ELSE d.sl - d.entry
             IN  /\ a.kind \in {"tp", "sl"} => b = a
                 /\ a.kind = "timeout" => /\ b.mfe >= a.mfe /\ b.mae >= a.mae
                                          /\ b.kind # "timeout" => b.bars = Len(bars)
                 /\ b.kind = "tp" /\ risk > 0 => b.mae < risk
                 /\ b.kind = "sl" => b.mae >= risk
<1>1. Market /\ Market' /\ [Next]_vars => [\A d \in Decisions : Final(d)]_vars
  <2> SUFFICES ASSUME Market, Market', Next, NEW d \in Decisions PROVE Final(d)
    OBVIOUS
  <2> DEFINE f == ClosedCandles(bars)
             g == ClosedCandles(bars')
  <2>1. f \in Seq(Candle) /\ g \in Seq(Candle)
    BY ClosedTyped DEF Market
  <2>2. g = f \/ \E c \in Candle : g = Append(f, c) /\ Len(f) + 1 = Len(bars)
    <3>1. bars[Len(bars)] \in Candle
      BY DEF Market
    <3> QED  BY <3>1, TickKeepsClosed, CloseBarCloses DEF Next, Reclassify
  <2>3. LET b == resolveOutcome(d, g)
        IN  /\ b.kind = "tp" /\ Risk(d) > 0 => b.mae < Risk(d)
            /\ b.kind = "sl" => b.mae >= Risk(d)
    <3> HIDE DEF g
    <3> QED  BY <2>1, StopsCostTheRisk
  <2>4. LET a == resolveOutcome(d, f)
            b == resolveOutcome(d, g)
        IN  /\ a.kind \in {"tp", "sl"} => b = a
            /\ a.kind = "timeout" => /\ b.mfe >= a.mfe /\ b.mae >= a.mae
                                     /\ b.kind # "timeout" => b.bars = Len(bars)
    <3> HIDE DEF f, g
    <3>1. CASE g = f
      <4>1. resolveOutcome(d, f).kind = "timeout" =>
              resolveOutcome(d, f).mfe \in Int /\ resolveOutcome(d, f).mae \in Int
        <5>1. CASE f = << >>
          BY <5>1 DEF resolveOutcome, OutcomeError
        <5>2. CASE f # << >>
          BY <2>1, <5>2, Resolved, WalkEnds
        <5> QED  BY <5>1, <5>2
      <4> QED  BY <3>1, <4>1
    <3>2. ASSUME NEW c \in Candle, g = Append(f, c), Len(f) + 1 = Len(bars)
          PROVE  LET a == resolveOutcome(d, f)
                     b == resolveOutcome(d, g)
                 IN  /\ a.kind \in {"tp", "sl"} => b = a
                     /\ a.kind = "timeout" => /\ b.mfe >= a.mfe /\ b.mae >= a.mae
                                              /\ b.kind # "timeout" => b.bars = Len(bars)
      BY <2>1, <3>2, OneMore
    <3> QED  BY <2>2, <3>1, <3>2
  <2> QED  BY <2>3, <2>4 DEF Risk
<1>2. QED  BY <1>1, AlwaysMarket, PTL DEF Spec, VerdictIsFinal

-----------------------------------------------------------------------------
(* FlattenSeq appends one sequence after the other.                        *)

LEMMA PartialSequences ==
    ASSUME NEW P, NEW sq \in Seq(Seq(P))
    PROVE  \E f : f = [i \in 1..Len(sq) |-> IF i = 1 THEN sq[i] ELSE f[i - 1] \o sq[i]]
<1> DEFINE n == Len(sq)
           Next1(f, i) == IF i = 1 THEN sq[i] ELSE f[i - 1] \o sq[i]
           Fits(f, k) == \A i \in 1..k : f[i] = Next1(f, i)
           Without == {k \in 0..n : ~ \E f \in [1..k -> Seq(P)] : Fits(f, k)}
<1>0. n \in Nat /\ \A i \in 1..n : sq[i] \in Seq(P)
  OBVIOUS
<1>1. Without = {}
  <2>1. SUFFICES ASSUME Without # {} PROVE FALSE
    OBVIOUS
  <2>2. PICK k \in Without : \A j \in Without : k <= j
    <3>1. Without \subseteq Nat
      OBVIOUS
    <3> HIDE DEF Without
    <3> QED  BY <2>1, <3>1, HasLeast
  <2>3. k \in 0..n /\ ~ \E f \in [1..k -> Seq(P)] : Fits(f, k)
    BY <2>2
  <2>4. k # 0
    <3>1. SUFFICES ASSUME k = 0 PROVE FALSE
      OBVIOUS
    <3>2. [i \in 1..0 |-> << >>] \in [1..0 -> Seq(P)] /\ 1..0 = {}
      OBVIOUS
    <3>3. \A f : Fits(f, 0)
      BY <3>2
    <3> HIDE DEF Fits
    <3> QED  BY <2>3, <3>1, <3>2, <3>3
  <2>5. k - 1 \in 0..n /\ k \in 1..n /\ k - 1 \notin Without
    <3>1. k \in 0..n
      BY <2>3
    <3> HIDE DEF Without
    <3>2. k - 1 \in Without => k <= k - 1
      BY <2>2
    <3> QED  BY <1>0, <2>4, <3>1, <3>2
  <2>6. PICK f \in [1..(k - 1) -> Seq(P)] : Fits(f, k - 1)
    BY <2>5
  <2> DEFINE last == Next1(f, k)
             g == [i \in 1..k |-> IF i = k THEN last ELSE f[i]]
  <2>7. last \in Seq(P)
    <3>1. CASE k = 1
      BY <1>0, <3>1
    <3>2. CASE k # 1
      <4>1. k - 1 \in 1..(k - 1)
        BY <2>5, <3>2
      <4>2. f[k - 1] \in Seq(P) /\ sq[k] \in Seq(P)
        BY <1>0, <2>5, <2>6, <4>1
      <4> QED  BY <3>2, <4>2
    <3> QED  BY <3>1, <3>2
  <2> HIDE DEF last
  <2>8. \A i \in 1..k : i = k \/ i \in 1..(k - 1)
    BY <2>5
  <2>9. g \in [1..k -> Seq(P)]
    BY <2>6, <2>7, <2>8
  <2>10. \A i \in 1..(k - 1) : i \in 1..k /\ g[i] = f[i]
    BY <2>5
  <2>11. k \in 1..k /\ g[k] = last
    BY <2>5
  <2> HIDE DEF g
  <2>12. ASSUME NEW i \in 1..k PROVE g[i] = Next1(g, i)
    <3>1. CASE i = 1
      BY <2>6, <2>8, <2>10, <2>11, <3>1 DEF last
    <3>2. CASE i # 1
      <4>1. i - 1 \in 1..(k - 1)
        BY <2>5, <3>2
      <4>2. g[i - 1] = f[i - 1]
        BY <2>10, <4>1
      <4>3. CASE i = k
        BY <2>11, <3>2, <4>2, <4>3 DEF last
      <4>4. CASE i \in 1..(k - 1)
        BY <2>6, <2>10, <3>2, <4>2, <4>4
      <4> QED  BY <2>8, <4>3, <4>4
    <3> QED  BY <3>1, <3>2
  <2> QED  BY <2>3, <2>9, <2>12
<1>2. PICK f \in [1..n -> Seq(P)] : Fits(f, n)
  <2>1. n \in 0..n
    BY <1>0
  <2>2. n \notin Without
    BY <1>1
  <2> HIDE DEF Fits
  <2> QED  BY <2>1, <2>2
<1>3. f = [i \in 1..n |-> Next1(f, i)]
  BY <1>2
<1> QED  BY <1>3

(* FlattenSeq, a recursion in the library, as a sequence of partial        *)
(* concatenations.                                                         *)
LEMMA FlattenSteps ==
    ASSUME NEW P, NEW sq \in Seq(Seq(P)), sq # << >>
    PROVE  \E g : /\ FlattenSeq(sq) = g[Len(sq)]
                  /\ g[1] = sq[1]
                  /\ \A i \in 2..Len(sq) : g[i] = g[i - 1] \o sq[i]
<1> DEFINE n == Len(sq)
           g == CHOOSE f : f = [i \in 1..n |-> IF i = 1 THEN sq[i] ELSE f[i - 1] \o sq[i]]
<1>1. n \in Nat \ {0}
  OBVIOUS
<1>2. g = [i \in 1..n |-> IF i = 1 THEN sq[i] ELSE g[i - 1] \o sq[i]]
  <2>1. \E f : f = [i \in 1..n |-> IF i = 1 THEN sq[i] ELSE f[i - 1] \o sq[i]]
    BY PartialSequences
  <2> QED  BY <2>1
<1>3. FlattenSeq(sq) = g[n]
  BY <1>1 DEF FlattenSeq
<1> HIDE DEF g, n
<1>4. g[1] = sq[1]
  <2>1. 1 \in 1..n
    BY <1>1
  <2>2. g[1] = IF 1 = 1 THEN sq[1] ELSE g[1 - 1] \o sq[1]
    BY <1>2, <2>1, Zenon
  <2> QED  BY <2>2
<1>5. ASSUME NEW i \in 2..n PROVE g[i] = g[i - 1] \o sq[i]
  <2>1. i \in 1..n /\ i # 1
    BY <1>1
  <2>2. g[i] = IF i = 1 THEN sq[i] ELSE g[i - 1] \o sq[i]
    BY <1>2, <2>1, Zenon
  <2> QED  BY <2>1, <2>2
<1> QED  BY <1>3, <1>4, <1>5 DEF n

-----------------------------------------------------------------------------
(* The pivots and the swing levels (pivots.go, indicators.go).             *)
Pivot == [time : Int, price : Nat, type : {"SH", "SL"}]

Confirms(c, i, type) ==
    IF type = "SH" THEN isPivotHigh(c, i, LeftRight) ELSE isPivotLow(c, i, LeftRight)

Level(c, i, type) == IF type = "SH" THEN c[i].high ELSE c[i].low

IsNewest(s, m) == \A x \in (m + 1)..Len(s) : s[x].type # s[m].type

(* The newest pivot of each kind in s is the newest of the bars up to b.   *)
NewestUpTo(c, b, s) ==
    \A m \in 1..Len(s) : IsNewest(s, m) =>
        \E i \in (LeftRight + 1)..b :
            /\ Confirms(c, i, s[m].type)
            /\ s[m].price = Level(c, i, s[m].type)
            /\ \A h \in (i + 1)..b : ~Confirms(c, h, s[m].type)

(* The pivots made of one bar are those its neighbours confirm, with its   *)
(* own levels.                                                             *)
LEMMA PivotsOfABar ==
    ASSUME NEW c \in Seq(Candle), NEW i \in 1..Len(c)
    PROVE  LET q == PivotsAt(c, i, LeftRight)
           IN  /\ q \in Seq(Pivot)
               /\ \A m \in 1..Len(q) : /\ Confirms(c, i, q[m].type)
                                       /\ q[m].price = Level(c, i, q[m].type)
               /\ \A type \in {"SH", "SL"} :
                      Confirms(c, i, type) => \E m \in 1..Len(q) : q[m].type = type
<1> DEFINE hi == [time |-> c[i].time, price |-> c[i].high, type |-> "SH"]
           lo == [time |-> c[i].time, price |-> c[i].low, type |-> "SL"]
           q == PivotsAt(c, i, LeftRight)
<1>1. c[i].time \in Int /\ c[i].high \in Nat /\ c[i].low \in Nat
  <2>1. c[i] \in Candle
    OBVIOUS
  <2> QED  BY <2>1 DEF Candle
<1>2. /\ hi \in Pivot /\ hi.type = "SH" /\ hi.price = Level(c, i, "SH")
      /\ lo \in Pivot /\ lo.type = "SL" /\ lo.price = Level(c, i, "SL")
  BY <1>1 DEF Pivot, Level
<1>3. q = (IF Confirms(c, i, "SH") THEN << hi >> ELSE << >>)
          \o (IF Confirms(c, i, "SL") THEN << lo >> ELSE << >>)
  BY DEF PivotsAt, Confirms
<1> HIDE DEF hi, lo, q
<1>4. CASE Confirms(c, i, "SH") /\ Confirms(c, i, "SL")
  <2>1. Len(q) = 2 /\ q[1] = hi /\ q[2] = lo /\ q \in Seq(Pivot)
    BY <1>2, <1>3, <1>4
  <2> QED  BY <1>2, <1>4, <2>1 DEF q
<1>5. CASE Confirms(c, i, "SH") /\ ~Confirms(c, i, "SL")
  <2>1. Len(q) = 1 /\ q[1] = hi /\ q \in Seq(Pivot)
    BY <1>2, <1>3, <1>5
  <2> QED  BY <1>2, <1>5, <2>1 DEF q
<1>6. CASE ~Confirms(c, i, "SH") /\ Confirms(c, i, "SL")
  <2>1. Len(q) = 1 /\ q[1] = lo /\ q \in Seq(Pivot)
    BY <1>2, <1>3, <1>6
  <2> QED  BY <1>2, <1>6, <2>1 DEF q
<1>7. CASE ~Confirms(c, i, "SH") /\ ~Confirms(c, i, "SL")
  <2>1. Len(q) = 0 /\ q \in Seq(Pivot)
    BY <1>3, <1>7
  <2> QED  BY <1>7, <2>1 DEF q
<1> QED  BY <1>4, <1>5, <1>6, <1>7

(* Appending the pivots of the next bar keeps the newest of each kind      *)
(* where they say it is.                                                   *)
LEMMA NewestAfterABar ==
    ASSUME NEW c \in Seq(Candle), NEW b \in (LeftRight + 1)..Len(c),
           NEW s \in Seq(Pivot), NewestUpTo(c, b - 1, s)
    PROVE  LET t == s \o PivotsAt(c, b, LeftRight)
           IN  t \in Seq(Pivot) /\ NewestUpTo(c, b, t)
<1> DEFINE q == PivotsAt(c, b, LeftRight)
           t == s \o q
<1>1. LeftRight \in Nat \ {0} /\ b \in Int /\ b \in 1..Len(c)
  BY DigestConstants
<1>2. /\ q \in Seq(Pivot)
      /\ \A m \in 1..Len(q) : /\ Confirms(c, b, q[m].type)
                              /\ q[m].price = Level(c, b, q[m].type)
      /\ \A type \in {"SH", "SL"} :
             Confirms(c, b, type) => \E m \in 1..Len(q) : q[m].type = type
  BY <1>1, PivotsOfABar
<1> HIDE DEF q
<1>3. /\ t \in Seq(Pivot) /\ Len(t) = Len(s) + Len(q) /\ Len(s) \in Nat /\ Len(q) \in Nat
      /\ \A m \in 1..Len(s) : t[m] = s[m]
      /\ \A m \in 1..Len(q) : t[Len(s) + m] = q[m]
      /\ \A m \in 1..Len(s) : s[m].type \in {"SH", "SL"}
  <2>1. /\ t \in Seq(Pivot) /\ Len(t) = Len(s) + Len(q) /\ Len(s) \in Nat /\ Len(q) \in Nat
        /\ \A m \in 1..Len(s) : t[m] = s[m]
    BY <1>2
  <2>2. \A m \in 1..Len(q) : t[Len(s) + m] = q[m]
    BY <1>2, <2>1
  <2>3. \A m \in 1..Len(s) : s[m] \in Pivot
    OBVIOUS
  <2> QED  BY <2>1, <2>2, <2>3 DEF Pivot
<1> HIDE DEF t
<1>4. ASSUME NEW m \in 1..Len(t), IsNewest(t, m)
      PROVE  \E i \in (LeftRight + 1)..b :
                 /\ Confirms(c, i, t[m].type)
                 /\ t[m].price = Level(c, i, t[m].type)
                 /\ \A h \in (i + 1)..b : ~Confirms(c, h, t[m].type)
  <2>1. CASE m \in 1..Len(s)
    <3>1. IsNewest(s, m)
      <4> SUFFICES ASSUME NEW x \in (m + 1)..Len(s) PROVE s[x].type # s[m].type
        BY DEF IsNewest
      <4>1. x \in (m + 1)..Len(t) /\ x \in 1..Len(s)
        BY <1>3, <2>1
      <4> QED  BY <1>3, <1>4, <2>1, <4>1 DEF IsNewest
    <3>2. ~Confirms(c, b, s[m].type)
      <4> SUFFICES ASSUME Confirms(c, b, s[m].type) PROVE FALSE
        OBVIOUS
      <4>1. PICK x \in 1..Len(q) : q[x].type = s[m].type
        BY <1>2, <1>3, <2>1
      <4>2. Len(s) + x \in (m + 1)..Len(t)
        BY <1>3, <2>1
      <4> QED  BY <1>3, <1>4, <2>1, <4>1, <4>2 DEF IsNewest
    <3>3. PICK i \in (LeftRight + 1)..(b - 1) :
              /\ Confirms(c, i, s[m].type)
              /\ s[m].price = Level(c, i, s[m].type)
              /\ \A h \in (i + 1)..(b - 1) : ~Confirms(c, h, s[m].type)
      BY <2>1, <3>1 DEF NewestUpTo
    <3>4. i \in (LeftRight + 1)..b /\ \A h \in (i + 1)..b : h = b \/ h \in (i + 1)..(b - 1)
      BY <1>1
    <3> QED  BY <1>3, <2>1, <3>2, <3>3, <3>4
  <2>2. CASE m \notin 1..Len(s)
    <3>1. PICK x \in 1..Len(q) : m = Len(s) + x
      <4>1. m - Len(s) \in 1..Len(q) /\ m = Len(s) + (m - Len(s))
        BY <1>3, <2>2
      <4> QED  BY <4>1
    <3>2. t[m] = q[x] /\ b \in (LeftRight + 1)..b /\ (b + 1)..b = {}
      BY <1>1, <1>3, <3>1
    <3> QED  BY <1>2, <3>2
  <2> QED  BY <2>1, <2>2
<1> QED  BY <1>3, <1>4 DEF NewestUpTo, t, q

(* Of all pivots of a window the last of a kind is that of the newest bar  *)
(* that confirms one.                                                      *)
LEMMA NewestOfAll ==
    ASSUME NEW c \in Seq(Candle), Len(c) >= 2 * LeftRight + 1
    PROVE  LET n == Len(c) - 2 * LeftRight
               all == FlattenSeq([m \in 1..n |-> PivotsAt(c, m + LeftRight, LeftRight)])
           IN  all \in Seq(Pivot) /\ NewestUpTo(c, Len(c) - LeftRight, all)
<1>1. LeftRight \in Nat \ {0} /\ Len(c) \in Nat
  BY DigestConstants
<1>2. PICK n \in Nat : n = Len(c) - 2 * LeftRight /\ n > 0
  BY <1>1
<1> DEFINE sq == [m \in 1..n |-> PivotsAt(c, m + LeftRight, LeftRight)]
<1>3. \A m \in 1..n : m + LeftRight \in (LeftRight + 1)..Len(c) /\ m + LeftRight \in 1..Len(c)
  BY <1>1, <1>2
<1>4. ASSUME NEW m \in 1..n PROVE PivotsAt(c, m + LeftRight, LeftRight) \in Seq(Pivot)
  <2>1. PICK b \in 1..Len(c) : b = m + LeftRight
    BY <1>3
  <2>2. PivotsAt(c, b, LeftRight) \in Seq(Pivot)
    BY PivotsOfABar
  <2> QED  BY <2>1, <2>2
<1>5. /\ sq \in Seq(Seq(Pivot)) /\ Len(sq) = n /\ sq # << >>
      /\ \A m \in 1..n : sq[m] = PivotsAt(c, m + LeftRight, LeftRight)
  <2>1. sq \in [1..n -> Seq(Pivot)]
    BY <1>4
  <2>2. \A m \in 1..n : sq[m] = PivotsAt(c, m + LeftRight, LeftRight)
    OBVIOUS
  <2>3. DOMAIN sq = 1..n
    OBVIOUS
  <2> HIDE DEF sq
  <2>4. sq \in Seq(Seq(Pivot)) /\ Len(sq) = n
    BY <1>2, <2>1, <2>3
  <2>5. sq # << >>
    BY <1>2, <2>4
  <2> QED  BY <2>2, <2>4, <2>5
<1> HIDE DEF sq
<1>6. PICK g : /\ FlattenSeq(sq) = g[n]
               /\ g[1] = sq[1]
               /\ \A i \in 2..n : g[i] = g[i - 1] \o sq[i]
  BY <1>5, FlattenSteps
<1> DEFINE Good(k) == g[k] \in Seq(Pivot) /\ NewestUpTo(c, k + LeftRight, g[k])
           Bad == {k \in 1..n : ~Good(k)}
<1>7. Bad = {}
  <2>1. SUFFICES ASSUME Bad # {} PROVE FALSE
    OBVIOUS
  <2>2. PICK k \in Bad : \A j \in Bad : k <= j
    <3>1. Bad \subseteq Nat
      OBVIOUS
    <3> HIDE DEF Bad
    <3> QED  BY <2>1, <3>1, HasLeast
  <2>3. k \in 1..n /\ ~Good(k)
    BY <2>2
  <2>5. PICK b \in (LeftRight + 1)..Len(c) : b = k + LeftRight
    BY <1>3, <2>3
  <2>4. PICK s \in Seq(Pivot) : /\ NewestUpTo(c, b - 1, s)
                                /\ g[k] = s \o sq[k]
    <3>1. CASE k = 1
      <4>1. NewestUpTo(c, b - 1, << >>)
        BY DEF NewestUpTo
      <4>2. << >> \in Seq(Pivot) /\ sq[1] \in Seq(Pivot)
        BY <1>4, <1>5, <2>3, <3>1
      <4>3. g[k] = << >> \o sq[k]
        BY <1>6, <3>1, <4>2
      <4> QED  BY <4>1, <4>2, <4>3
    <3>2. CASE k # 1
      <4>1. k \in 2..n /\ k - 1 \in 1..n /\ k - 1 < k /\ (k - 1) + LeftRight = b - 1
        BY <1>1, <2>3, <2>5, <3>2
      <4>2. k - 1 \notin Bad
        <5> HIDE DEF Bad
        <5>1. k - 1 \in Bad => k <= k - 1
          BY <2>2
        <5> QED  BY <2>3, <4>1, <5>1
      <4>3. Good(k - 1)
        BY <4>1, <4>2
      <4> QED  BY <1>6, <4>1, <4>3
    <3> QED  BY <3>1, <3>2
  <2>6. sq[k] = PivotsAt(c, b, LeftRight)
    BY <1>5, <2>3, <2>5
  <2>7. g[k] \in Seq(Pivot) /\ NewestUpTo(c, b, g[k])
    BY <2>4, <2>6, NewestAfterABar
  <2> QED  BY <2>3, <2>5, <2>7
<1>8. n \in 1..n /\ n + LeftRight = Len(c) - LeftRight
  BY <1>1, <1>2
<1>9. g[n] \in Seq(Pivot) /\ NewestUpTo(c, n + LeftRight, g[n])
  BY <1>7, <1>8
<1> QED  BY <1>2, <1>6, <1>8, <1>9 DEF sq

(* The greater of two integers.                                            *)
LEMMA MaxOfTwo ==
    ASSUME NEW a \in Int, NEW b \in Int
    PROVE  Max({a, b}) = IF a >= b THEN a ELSE b
<1>1. \E x \in {a, b} : \A y \in {a, b} : x >= y
  OBVIOUS
<1>2. Max({a, b}) \in {a, b} /\ \A y \in {a, b} : Max({a, b}) >= y
  BY <1>1, Zenon DEF Max
<1> QED  BY <1>2

(* A confirmed bar that no later one of the two ends confirms is Max.      *)
LEMMA NewestIsMax ==
    ASSUME NEW S, S \subseteq Int, NEW i \in S, \A h \in S : h <= i
    PROVE  Max(S) = i
<1>1. Max(S) \in S /\ \A y \in S : Max(S) >= y
  <2>1. \E x \in S : \A y \in S : x >= y
    OBVIOUS
  <2> QED  BY <2>1, Zenon DEF Max
<1>2. PICK m \in Int : m = Max(S)
  BY <1>1
<1>3. m >= i /\ m <= i
  BY <1>1, <1>2
<1> QED  BY <1>2, <1>3

(* The last `limit` of a sequence, as RecentPivots and Fetch cut it.       *)
LastFrom(s, limit) == Max({1, Len(s) - limit + 1})
LastOf(s, limit) == SubSeq(s, LastFrom(s, limit), Len(s))

(* The cut is a suffix of the sequence, of no more than `limit` elements.  *)
LEMMA TailOf ==
    ASSUME NEW T, NEW s \in Seq(T), NEW limit \in Nat \ {0},
           NEW from, from = LastFrom(s, limit),
           NEW t, t = LastOf(s, limit)
    PROVE  /\ from \in Nat \ {0}
           /\ Len(t) = Len(s) - from + 1 /\ t \in Seq(T)
           /\ \A i \in 1..Len(t) : i + from - 1 \in 1..Len(s) /\ t[i] = s[i + from - 1]
           /\ Len(t) <= limit
<1>1. PICK n \in Nat : n = Len(s)
  OBVIOUS
<1>2. from = IF 1 >= n - limit + 1 THEN 1 ELSE n - limit + 1
  <2>1. n - limit + 1 \in Int
    OBVIOUS
  <2> QED  BY <1>1, <2>1, MaxOfTwo DEF LastFrom
<1>3. PICK f \in Nat \ {0} : f = from /\ f <= n + 1 /\ n - f + 1 <= limit
  BY <1>2
<1>4. \A i \in f..n : s[i] \in T
  BY <1>1
<1>5. t = SubSeq(s, f, n) /\ f \in Int /\ n \in Int
  BY <1>1, <1>3 DEF LastOf
<1>6. /\ t \in Seq(T)
      /\ Len(t) = IF f <= n THEN n - f + 1 ELSE 0
      /\ \A i \in 1..(n - f + 1) : t[i] = s[f + i - 1]
  <2>1. \A x : x = SubSeq(s, f, n) =>
           /\ x \in Seq(T)
           /\ Len(x) = IF f <= n THEN n - f + 1 ELSE 0
           /\ \A i \in 1..(n - f + 1) : x[i] = s[f + i - 1]
    BY <1>4, SubSeqProperties
  <2> QED  BY <1>5, <2>1, Zenon
<1>7. Len(t) = n - f + 1
  BY <1>3, <1>6
<1>8. ASSUME NEW i \in 1..(n - f + 1)
      PROVE  i + f - 1 \in 1..n /\ t[i] = s[i + f - 1]
  <2>1. i + f - 1 = f + i - 1
    OBVIOUS
  <2>2. i + f - 1 \in 1..n
    OBVIOUS
  <2> QED  BY <1>6, <2>1, <2>2
<1> QED  BY <1>1, <1>3, <1>6, <1>7, <1>8

(* The pivots the model reads and the swing levels printed beside them.    *)
LEMMA PivotsAgree ==
    ASSUME NEW c \in Seq(Candle), NEW limit \in Nat,
           NEW i \in DOMAIN RecentPivots(c, LeftRight, limit)
    PROVE  LET v     == RecentPivots(c, LeftRight, limit)
               later == {j \in DOMAIN v : j > i /\ v[j].type = v[i].type}
               swing == SwingHighLow(c, LeftRight)
           IN  later = {} => v[i].price = IF v[i].type = "SH" THEN swing.high ELSE swing.low
<1> DEFINE v == RecentPivots(c, LeftRight, limit)
           n == Len(c) - 2 * LeftRight
           all == FlattenSeq([m \in 1..n |-> PivotsAt(c, m + LeftRight, LeftRight)])
           labelled == [m \in DOMAIN all |->
                            [time  |-> all[m].time, price |-> all[m].price,
                             type  |-> all[m].type, label |-> PivotLabel(all, m)]]
           from == Max({1, Len(all) - limit + 1})
<1>1. LeftRight \in Nat \ {0} /\ Len(c) \in Nat
  BY DigestConstants
<1>2. Len(c) >= 2 * LeftRight + 1 /\ limit # 0 /\ v = SubSeq(labelled, from, Len(all))
  <2>1. v = IF Len(c) < 2 * LeftRight + 1 \/ limit <= 0 THEN << >>
            ELSE SubSeq(labelled, from, Len(all))
    BY DEF RecentPivots
  <2>2. i \in DOMAIN v
    OBVIOUS
  <2> HIDE DEF v, labelled, from, all
  <2>3. v # << >>
    BY <2>2
  <2>4. ~(Len(c) < 2 * LeftRight + 1 \/ limit <= 0)
    BY <2>1, <2>3, Zenon
  <2>5. v = SubSeq(labelled, from, Len(all))
    BY <2>1, <2>4, Zenon
  <2> QED  BY <1>1, <2>4, <2>5
<1>3. all \in Seq(Pivot) /\ NewestUpTo(c, Len(c) - LeftRight, all)
  BY <1>2, NewestOfAll
<1> HIDE DEF all
<1> DEFINE T == {labelled[m] : m \in 1..Len(all)}
<1>4. /\ labelled \in Seq(T)
      /\ Len(labelled) = Len(all)
      /\ \A m \in 1..Len(all) : /\ labelled[m].price = all[m].price
                                /\ labelled[m].type = all[m].type
  <2>1. DOMAIN all = 1..Len(all) /\ Len(all) \in Nat
    BY <1>3
  <2>2. /\ DOMAIN labelled = 1..Len(all)
        /\ labelled = [m \in 1..Len(all) |-> labelled[m]]
    BY <2>1
  <2>3. \A m \in 1..Len(all) : /\ labelled[m].price = all[m].price
                               /\ labelled[m].type = all[m].type
    BY <2>1
  <2> HIDE DEF labelled
  <2>4. labelled \in [1..Len(all) -> T]
    BY <2>2
  <2> HIDE DEF T
  <2>5. labelled \in Seq(T) /\ Len(labelled) = Len(all)
    BY <2>1, <2>2, <2>4
  <2> QED  BY <2>3, <2>5
<1> HIDE DEF labelled, T
<1>5. /\ from \in Nat \ {0} /\ Len(v) = Len(all) - from + 1
      /\ v \in Seq(T) /\ Len(all) \in Nat
      /\ \A m \in 1..Len(v) : m + from - 1 \in 1..Len(all) /\ v[m] = labelled[m + from - 1]
  <2>1. limit \in Nat \ {0} /\ Len(all) \in Nat
    BY <1>2, <1>3
  <2> HIDE DEF v
  <2>2. PICK N \in Nat : N = Len(all) /\ N = Len(labelled)
    BY <1>4, <2>1
  <2>3. from = Max({1, Len(labelled) - limit + 1}) /\ v = SubSeq(labelled, from, Len(labelled))
    BY <1>2, <1>4
  <2> HIDE DEF from
  <2>4. /\ from \in Nat \ {0} /\ Len(v) = Len(labelled) - from + 1 /\ v \in Seq(T)
        /\ \A m \in 1..Len(v) : m + from - 1 \in 1..Len(labelled) /\ v[m] = labelled[m + from - 1]
    <3>1. labelled \in Seq(T) /\ limit \in Nat \ {0}
      BY <1>4, <2>1
    <3>2. from = LastFrom(labelled, limit) /\ v = LastOf(labelled, limit)
      BY <2>3, Zenon DEF LastFrom, LastOf
    <3> QED  BY <3>1, <3>2, TailOf
  <2> QED  BY <2>2, <2>4
<1> HIDE DEF v, from
<1>6. SUFFICES ASSUME {j \in DOMAIN v : j > i /\ v[j].type = v[i].type} = {}
               PROVE  v[i].price = IF v[i].type = "SH" THEN SwingHighLow(c, LeftRight).high
                                                       ELSE SwingHighLow(c, LeftRight).low
  BY DEF v
<1>7. PICK m \in 1..Len(all) : /\ i \in 1..Len(v) /\ m = i + from - 1
                               /\ v[i].type = all[m].type /\ v[i].price = all[m].price
  <2>1. i \in 1..Len(v)
    BY <1>5 DEF v
  <2> QED  BY <1>4, <1>5, <2>1
<1>8. IsNewest(all, m)
  <2> SUFFICES ASSUME NEW x \in (m + 1)..Len(all), all[x].type = all[m].type PROVE FALSE
    BY DEF IsNewest
  <2>0. x \in Int /\ i \in Int /\ from \in Nat /\ x > m /\ x <= Len(all) /\ i >= 1
    BY <1>5, <1>7
  <2>1. PICK j \in Int : j = x - from + 1
    BY <2>0
  <2>2. j > i /\ j \in 1..Len(v) /\ x \in 1..Len(all) /\ x = j + from - 1
    BY <1>5, <1>7, <2>0, <2>1
  <2>3. v[j].type = all[x].type
    BY <1>4, <1>5, <2>2
  <2>4. j \in DOMAIN v
    BY <1>5, <2>2
  <2> QED  BY <1>6, <1>7, <2>2, <2>3, <2>4
<1> DEFINE ty == all[m].type
           mid == (LeftRight + 1)..(Len(c) - LeftRight)
<1>9. PICK b \in mid : /\ Confirms(c, b, ty)
                       /\ all[m].price = Level(c, b, ty)
                       /\ \A h \in (b + 1)..(Len(c) - LeftRight) : ~Confirms(c, h, ty)
  BY <1>3, <1>8 DEF NewestUpTo
<1>10. ty \in {"SH", "SL"}
  <2>1. all[m] \in Pivot
    BY <1>3
  <2> QED  BY <2>1 DEF Pivot
<1>11. \A h \in {x \in mid : Confirms(c, x, ty)} : h <= b
  BY <1>1, <1>9
<1>12. Max({x \in mid : Confirms(c, x, ty)}) = b
  <2> DEFINE S == {x \in mid : Confirms(c, x, ty)}
  <2>1. S \subseteq Int /\ b \in S
    BY <1>1, <1>9
  <2> HIDE DEF S
  <2> QED  BY <1>11, <2>1, NewestIsMax DEF S
<1>13. CASE ty = "SH"
  <2>1. {x \in mid : Confirms(c, x, ty)} = {x \in mid : isSwingHigh(c, x, LeftRight)}
    BY <1>13 DEF Confirms, isPivotHigh, isSwingHigh
  <2>2. SwingHighLow(c, LeftRight).high = c[b].high
    BY <1>9, <1>12, <2>1 DEF SwingHighLow
  <2> QED  BY <1>7, <1>9, <1>13, <2>2 DEF Level
<1>14. CASE ty = "SL"
  <2>1. {x \in mid : Confirms(c, x, ty)} = {x \in mid : isSwingLow(c, x, LeftRight)}
    BY <1>14 DEF Confirms, isPivotLow, isSwingLow
  <2>2. SwingHighLow(c, LeftRight).low = c[b].low
    BY <1>9, <1>12, <2>1 DEF SwingHighLow
  <2> QED  BY <1>7, <1>9, <1>14, <2>2 DEF Level
<1> QED  BY <1>10, <1>13, <1>14

(* The digest of the moment is what Build says of the bars the exchange    *)
(* would return.                                                           *)
DigestCurrent == Market /\ digest = Build(Fetch(bars), reading)

(* The digest shown is never one of earlier bars.                          *)
LEMMA AlwaysCurrent == Spec => []DigestCurrent
<1>1. Init => DigestCurrent
  BY InitMarket DEF Init, DigestCurrent
<1>2. DigestCurrent /\ [Next]_vars => DigestCurrent'
  <2> SUFFICES ASSUME DigestCurrent, [Next]_vars PROVE DigestCurrent'
    OBVIOUS
  <2>1. CASE Reclassify \/ UNCHANGED vars
    BY <2>1 DEF Reclassify, vars, Market, DigestCurrent
  <2>2. CASE Tick
    <3>1. Market'
      BY <2>2, TickKeepsClosed DEF DigestCurrent
    <3> QED  BY <2>2, <3>1 DEF Tick, DigestCurrent
  <2>3. CASE CloseBar
    <3>1. Market'
      BY <2>3, CloseBarCloses DEF DigestCurrent
    <3> QED  BY <2>3, <3>1 DEF CloseBar, DigestCurrent
  <2> QED  BY <2>1, <2>2, <2>3 DEF Next
<1> QED  BY <1>1, <1>2, PTL DEF Spec

(* The newest pivot of each kind the model is shown is the swing level     *)
(* printed beside it, for any bars and windows (pivots.go, which keeps its *)
(* own copy of indicators.go's test).                                      *)
THEOREM SwingsAlwaysAgree == Spec => []SwingsAgree
<1>1. DigestCurrent => SwingsAgree
  <2> SUFFICES ASSUME DigestCurrent, NEW i \in DOMAIN digest.pivots,
                      {j \in DOMAIN digest.pivots :
                          j > i /\ digest.pivots[j].type = digest.pivots[i].type} = {}
               PROVE  digest.pivots[i].price = IF digest.pivots[i].type = "SH"
                                               THEN digest.swing.high ELSE digest.swing.low
    BY DEF SwingsAgree
  <2>1. PICK c \in Seq(Candle) : c = ClosedCandles(Fetch(bars))
    <3>1. FetchLimit \in Nat \ {0}
      BY DigestConstants
    <3>2. Fetch(bars) \in Seq(Candle)
      <4>1. bars \in Seq(Candle)
        BY DEF DigestCurrent, Market
      <4>2. Fetch(bars) = LastOf(bars, FetchLimit)
        BY Zenon DEF Fetch, LastOf, LastFrom
      <4> QED  BY <3>1, <4>1, <4>2, TailOf
    <3> QED  BY <3>2, ClosedTyped
  <2>2. PivotLimit \in Nat
    BY DigestConstants DEF PivotLimit
  <2>3. /\ digest.pivots = RecentPivots(c, LeftRight, PivotLimit)
        /\ digest.swing = SwingHighLow(c, LeftRight)
    BY <2>1 DEF DigestCurrent, Build
  <2> QED  BY <2>2, <2>3, PivotsAgree
<1> QED  BY <1>1, AlwaysCurrent, PTL

-----------------------------------------------------------------------------
(* Each bar opens one unit after the one before it, its prices are in      *)
(* order, and the newest opened at MaxBars or earlier.                     *)
Timed ==
    /\ \A i \in DOMAIN bars : bars[i].time = bars[1].time + i - 1
    /\ bars[Len(bars)].time \in 1..MaxBars

Ordered(b) == b.low <= Min({b.open, b.close}) /\ Max({b.open, b.close}) <= b.high

(* The lesser of two integers.                                             *)
LEMMA MinOfTwo ==
    ASSUME NEW a \in Int, NEW b \in Int
    PROVE  Min({a, b}) = IF a <= b THEN a ELSE b
<1>1. \E x \in {a, b} : \A y \in {a, b} : x <= y
  OBVIOUS
<1>2. Min({a, b}) \in {a, b} /\ \A y \in {a, b} : Min({a, b}) <= y
  BY <1>1, Zenon DEF Min
<1> QED  BY <1>2

(* A bar made of a shape or an opening has its prices in order, and its    *)
(* own time.                                                               *)
LEMMA BarOrdered ==
    ASSUME NEW t \in Int, NEW s, s \in Shapes \/ s \in Openings
    PROVE  Ordered(Bar(t, s)) /\ Bar(t, s).time = t
<1>1. CASE s \in Shapes
  BY <1>1, DigestConstants DEF Ordered, Bar
<1>2. CASE s \in Openings
  <2>1. PICK q \in Shapes : s = Opening(q.open)
    BY <1>2 DEF Openings
  <2>2. PICK p \in Nat : p = q.open
    BY DigestConstants
  <2>3. Min({p, p}) = p /\ Max({p, p}) = p
    BY MinOfTwo, MaxOfTwo
  <2>4. LET b == Bar(t, s)
        IN  b.low = p /\ b.high = p /\ b.open = p /\ b.close = p /\ b.time = t
    BY <2>1, <2>2 DEF Bar, Opening
  <2> QED  BY <2>3, <2>4 DEF Ordered
<1> QED  BY <1>1, <1>2

(* The bars stay a series in time order of bars whose prices are in order. *)
History == Market /\ Timed /\ \A i \in DOMAIN bars : Ordered(bars[i])

(* No step puts a bar out of time order or its prices out of order.        *)
LEMMA AlwaysHistory == Spec => []History
<1>1. Init => History
  <2> SUFFICES ASSUME Init PROVE History
    OBVIOUS
  <2>0. Market
    BY InitMarket
  <2>1. PICK h \in Histories, s \in Openings : bars = Append(Past(h), Bar(1, s))
    BY DEF Init
  <2>2. PICK n \in Nat : n = Len(h) /\ DOMAIN h = 1..n /\ \A i \in 1..n : h[i] \in Shapes
    <3>1. h \in Seq(Shapes)
      BY DigestConstants
    <3> QED  BY <3>1
  <2>3. Past(h) = [i \in 1..n |-> Bar(i - n, h[i])]
    BY <2>2 DEF Past
  <2>4. \A i \in 1..n : i - n \in Int
    BY <2>2
  <2>5. \A i \in 1..n : Past(h)[i].time = i - n /\ Ordered(Past(h)[i])
    BY <2>2, <2>3, <2>4, BarOrdered
  <2>6. Past(h) \in Seq({Bar(i - n, h[i]) : i \in 1..n}) /\ Len(Past(h)) = n
    BY <2>2, <2>3
  <2>7. /\ Len(bars) = n + 1 /\ DOMAIN bars = 1..(n + 1) /\ bars[n + 1] = Bar(1, s)
        /\ \A i \in 1..n : bars[i] = Past(h)[i]
    BY <2>1, <2>2, <2>6
  <2>8. Bar(1, s).time = 1 /\ Ordered(Bar(1, s))
    BY BarOrdered
  <2>9. ASSUME NEW i \in 1..(n + 1) PROVE bars[i].time = i - n /\ Ordered(bars[i])
    BY <2>2, <2>5, <2>7, <2>8
  <2>10. 1 \in 1..(n + 1)
    BY <2>2
  <2>11. bars[1].time = 1 - n
    BY <2>9, <2>10
  <2>12. \A i \in 1..(n + 1) : i - n = (1 - n) + i - 1
    BY <2>2
  <2>13. 1 \in 1..MaxBars
    BY DigestConstants
  <2> QED  BY <2>0, <2>7, <2>8, <2>9, <2>11, <2>12, <2>13 DEF History, Timed
<1>2. History /\ [Next]_vars => History'
  <2> SUFFICES ASSUME History, [Next]_vars PROVE History'
    OBVIOUS
  <2>1. /\ bars \in Seq(Candle) /\ Len(bars) \in Nat \ {0} /\ DOMAIN bars = 1..Len(bars)
        /\ bars[1].time \in Int /\ bars[Len(bars)].time \in Int
    <3>1. bars \in Seq(Candle) /\ Len(bars) \in Nat \ {0} /\ DOMAIN bars = 1..Len(bars)
      BY DEF History, Market
    <3>2. bars[1] \in Candle /\ bars[Len(bars)] \in Candle
      BY <3>1
    <3> QED  BY <3>1, <3>2 DEF Candle
  <2>2. PICK n \in Nat \ {0} : n = Len(bars)
    BY <2>1
  <2>3. bars[n].time \in 1..MaxBars /\ MaxBars \in Nat /\ bars[n].time = bars[1].time + n - 1
    <3>1. n \in DOMAIN bars
      BY <2>1, <2>2
    <3>2. MaxBars \in Nat
      BY DigestConstants
    <3> QED  BY <2>2, <3>1, <3>2 DEF History, Timed
  <2>4. CASE Tick
    <3>1. PICK s \in Shapes : bars' = [bars EXCEPT ![n] = Bar(bars[n].time, s)]
      BY <2>2, <2>4 DEF Tick
    <3>2. Bar(bars[n].time, s).time = bars[n].time /\ Ordered(Bar(bars[n].time, s))
      BY <2>1, <2>2, BarOrdered
    <3>3. /\ DOMAIN bars' = 1..n /\ Len(bars') = n
          /\ \A i \in 1..n : bars'[i] = IF i = n THEN Bar(bars[n].time, s) ELSE bars[i]
      BY <2>1, <2>2, <3>1
    <3>4. \A i \in 1..n : bars'[i].time = bars[i].time /\ Ordered(bars'[i])
      BY <2>1, <2>2, <3>2, <3>3 DEF History
    <3>5. 1 \in 1..n /\ n \in 1..n
      BY <2>2
    <3>6. Market'
      BY <2>4, TickKeepsClosed DEF History
    <3> QED  BY <2>1, <2>2, <2>3, <3>3, <3>4, <3>5, <3>6 DEF History, Timed
  <2>5. CASE CloseBar
    <3>1. PICK s \in Openings : bars' = Append(bars, Bar(bars[n].time + 1, s))
      BY <2>2, <2>5 DEF CloseBar
    <3>2. Bar(bars[n].time + 1, s).time = bars[n].time + 1 /\ Ordered(Bar(bars[n].time + 1, s))
      BY <2>1, <2>2, BarOrdered
    <3>3. /\ DOMAIN bars' = 1..(n + 1) /\ Len(bars') = n + 1
          /\ bars'[n + 1] = Bar(bars[n].time + 1, s)
          /\ \A i \in 1..n : bars'[i] = bars[i]
      BY <2>1, <2>2, <3>1
    <3>4. bars[n].time < MaxBars
      BY <2>2, <2>5 DEF CloseBar
    <3>5. Market'
      BY <2>5, CloseBarCloses DEF History
    <3>6. 1 \in 1..n /\ \A i \in 1..(n + 1) : i = n + 1 \/ i \in 1..n
      BY <2>2
    <3>7. \A i \in 1..n : bars[i].time = bars[1].time + i - 1 /\ Ordered(bars[i])
      BY <2>1, <2>2 DEF History, Timed
    <3>8. ASSUME NEW i \in 1..(n + 1)
          PROVE  bars'[i].time = bars'[1].time + i - 1 /\ Ordered(bars'[i])
      <4>1. CASE i = n + 1
        BY <2>1, <2>3, <3>2, <3>3, <3>6, <4>1
      <4>2. CASE i \in 1..n
        BY <3>3, <3>6, <3>7, <4>2
      <4> QED  BY <3>6, <4>1, <4>2
    <3>9. bars[n].time + 1 \in 1..MaxBars
      BY <2>3, <3>4
    <3> QED  BY <3>2, <3>3, <3>5, <3>8, <3>9 DEF History, Timed
  <2>6. CASE Reclassify \/ UNCHANGED vars
    BY <2>6 DEF Reclassify, vars, History, Timed, Market
  <2> QED  BY <2>4, <2>5, <2>6 DEF Next
<1> QED  BY <1>1, <1>2, PTL DEF Spec

-----------------------------------------------------------------------------
(* Sequences with the same elements are the same.                          *)
LEMMA SameSequence ==
    ASSUME NEW T, NEW s \in Seq(T), NEW t \in Seq(T), Len(s) = Len(t),
           \A i \in 1..Len(s) : s[i] = t[i]
    PROVE  s = t
<1>1. PICK n \in Nat : n = Len(s) /\ n = Len(t)
  OBVIOUS
<1>2. s = [i \in 1..n |-> s[i]] /\ t = [i \in 1..n |-> t[i]]
  BY <1>1
<1>3. \A i \in 1..n : s[i] = t[i]
  BY <1>1
<1>4. [i \in 1..n |-> s[i]] = [i \in 1..n |-> t[i]]
  BY <1>3
<1> QED  BY <1>2, <1>4, Zenon

(* The closed bars of two digests in a row: the same bars, or the later    *)
(* digest has one more at the end and has perhaps lost the oldest.         *)

Seen(history) == ClosedCandles(Fetch(history))

(* How many bars of the history are too old to be fetched. *)
Lost(history) == IF Len(history) > FetchLimit THEN Len(history) - FetchLimit ELSE 0

(* What the detectors read is the history without the bars too old to be   *)
(* fetched and without the forming one.                                    *)
LEMMA SeenOf ==
    ASSUME NEW h \in Seq(Candle), h # << >>
    PROVE  /\ Lost(h) \in Nat /\ Seen(h) \in Seq(Candle)
           /\ Len(Seen(h)) = Len(h) - 1 - Lost(h)
           /\ \A j \in 1..Len(Seen(h)) : Lost(h) + j \in 1..Len(h) /\ Seen(h)[j] = h[Lost(h) + j]
<1>1. PICK l \in Nat : l = FetchLimit /\ l >= 3
  BY DigestConstants
<1>2. PICK n \in Nat \ {0} : n = Len(h)
  OBVIOUS
<1>3. PICK o \in Nat : o = Lost(h) /\ o = (IF n > l THEN n - l ELSE 0) /\ o < n
  <2>1. Lost(h) = IF n > l THEN n - l ELSE 0
    BY <1>1, <1>2, Zenon DEF Lost
  <2>2. CASE n > l
    <3>1. n - l \in Nat /\ n - l < n
      BY <1>1, <2>2
    <3> QED  BY <2>1, <2>2, <3>1
  <2>3. CASE ~(n > l)
    BY <1>2, <2>1, <2>3
  <2> QED  BY <2>2, <2>3
<1>4. LastFrom(h, FetchLimit) = o + 1
  <2>1. n - l + 1 \in Int
    BY <1>1, <1>2
  <2>2. LastFrom(h, FetchLimit) = IF 1 >= n - l + 1 THEN 1 ELSE n - l + 1
    BY <1>1, <1>2, <2>1, MaxOfTwo DEF LastFrom
  <2> QED  BY <1>1, <1>2, <1>3, <2>2
<1> DEFINE f == Fetch(h)
<1>5. /\ f \in Seq(Candle) /\ Len(f) = n - o
      /\ \A i \in 1..Len(f) : i + o \in 1..n /\ f[i] = h[i + o]
  <2>1. Fetch(h) = LastOf(h, FetchLimit)
    BY Zenon DEF Fetch, LastOf, LastFrom
  <2>2. PICK t : t = f
    OBVIOUS
  <2>3. PICK from : from = LastFrom(h, FetchLimit)
    OBVIOUS
  <2>4. FetchLimit \in Nat \ {0}
    BY <1>1
  <2>5. /\ Len(t) = Len(h) - from + 1 /\ t \in Seq(Candle)
        /\ \A i \in 1..Len(t) : i + from - 1 \in 1..Len(h) /\ t[i] = h[i + from - 1]
    BY <2>1, <2>2, <2>3, <2>4, TailOf
  <2>6. from = o + 1 /\ \A i \in Int : i + from - 1 = i + o
    BY <1>4, <2>3
  <2>7. Len(t) = n - o
    BY <1>2, <1>3, <2>5, <2>6
  <2>8. \A i \in 1..Len(t) : i + o \in 1..n /\ t[i] = h[i + o]
    BY <1>2, <2>5, <2>6, <2>7
  <2> QED  BY <2>2, <2>5, <2>7, <2>8
<1> HIDE DEF f
<1>6. Seen(h) = IF n - o < 2 THEN << >> ELSE SubSeq(f, 1, n - o - 1)
  BY <1>5 DEF Seen, ClosedCandles, Front, f
<1>7. /\ Seen(h) \in Seq(Candle) /\ Len(Seen(h)) = n - 1 - o
      /\ \A j \in 1..Len(Seen(h)) : Seen(h)[j] = f[j] /\ j \in 1..Len(f)
  <2>1. CASE n - o < 2
    <3>1. n - 1 - o = 0
      BY <1>2, <1>3, <2>1
    <3> QED  BY <1>6, <2>1, <3>1
  <2>2. CASE ~(n - o < 2)
    <3>1. PICK m \in Nat : m = n - o - 1 /\ m = n - 1 - o /\ Len(f) = m + 1
      <4>1. n - o - 1 \in Nat /\ n - o - 1 = n - 1 - o /\ n - o = (n - o - 1) + 1
        BY <1>2, <1>3, <2>2
      <4> QED  BY <1>5, <4>1
    <3>2. Seen(h) = SubSeq(f, 1, m)
      BY <1>6, <2>2, <3>1
    <3>3. /\ SubSeq(f, 1, m) \in Seq(Candle) /\ Len(SubSeq(f, 1, m)) = m
          /\ \A j \in 1..m : SubSeq(f, 1, m)[j] = f[j] /\ j \in 1..Len(f)
      BY <1>5, <3>1
    <3> QED  BY <3>1, <3>2, <3>3
  <2> QED  BY <2>1, <2>2
<1>8. \A j \in 1..Len(Seen(h)) : o + j \in 1..n /\ Seen(h)[j] = h[o + j]
  <2> SUFFICES ASSUME NEW j \in 1..Len(Seen(h)) PROVE o + j \in 1..n /\ Seen(h)[j] = h[o + j]
    OBVIOUS
  <2>1. j \in 1..Len(f) /\ Seen(h)[j] = f[j]
    BY <1>7
  <2>2. j + o \in 1..n /\ f[j] = h[j + o] /\ j \in Int
    BY <1>5, <2>1
  <2>3. j + o = o + j
    BY <2>2
  <2> QED  BY <2>1, <2>2, <2>3
<1> QED  BY <1>2, <1>3, <1>7, <1>8

(* The first bar of c is dated t + 1 and later ones follow one by one. *)
Dated(c, t) == \A j \in 1..Len(c) : c[j].time = t + j

(* d continues c, shifted by s: bar j of d is bar j + s of c. *)
Continues(d, c, s) ==
    /\ s \in {0, 1} /\ Len(d) + s \in {Len(c), Len(c) + 1}
    /\ \A j \in 1..Len(d) : j + s \in 1..Len(c) => d[j] = c[j + s]
    /\ s = 1 => Len(c) > PatternLookback + 1 /\ Len(d) = Len(c)
    /\ \E t \in Int : Dated(c, t) /\ Dated(d, t + s)

(* The bars the detectors read are numbered by their times, from an offset *)
(* of their own.                                                           *)
LEMMA SeenDated ==
    ASSUME NEW h \in Seq(Candle), h # << >>,
           \A i \in DOMAIN h : h[i].time = h[1].time + i - 1
    PROVE  h[1].time \in Int /\ Dated(Seen(h), h[1].time + Lost(h) - 1)
<1>1. PICK t \in Int : t = h[1].time
  <2>1. h[1] \in Candle
    OBVIOUS
  <2> QED  BY <2>1 DEF Candle
<1>2. PICK o \in Nat : o = Lost(h)
  BY SeenOf
<1>3. SUFFICES ASSUME NEW j \in 1..Len(Seen(h)) PROVE Seen(h)[j].time = (t + o - 1) + j
  BY <1>1, <1>2 DEF Dated
<1>4. o + j \in 1..Len(h) /\ Seen(h)[j] = h[o + j] /\ Len(Seen(h)) \in Nat
  BY <1>2, SeenOf
<1>5. o + j \in DOMAIN h /\ j \in Int
  BY <1>4
<1>6. h[o + j].time = t + (o + j) - 1
  BY <1>1, <1>5
<1> QED  BY <1>4, <1>5, <1>6

(* From one digest to the next the bars read stay where they are, or all   *)
(* move down one place when the window slides.                             *)
LEMMA SeenContinues ==
    ASSUME History, History', Next
    PROVE  \E s \in {0, 1} : /\ Continues(Seen(bars'), Seen(bars), s)
                             /\ Lost(bars') = Lost(bars) + s
                             /\ \/ CloseBar
                                \/ s = 0 /\ Seen(bars') = Seen(bars) /\ Len(bars') = Len(bars)
<1>1. /\ bars \in Seq(Candle) /\ bars # << >> /\ bars' \in Seq(Candle) /\ bars' # << >>
      /\ Len(bars) \in Nat /\ Len(bars') \in Nat
  BY DEF History, Market
<1>2. PICK t \in Int : t = bars[1].time + Lost(bars) - 1 /\ Dated(Seen(bars), t)
  <2>1. bars[1].time \in Int /\ Dated(Seen(bars), bars[1].time + Lost(bars) - 1) /\ Lost(bars) \in Nat
    BY <1>1, SeenDated, SeenOf DEF History, Timed
  <2> QED  BY <2>1
<1>3. bars'[1].time \in Int /\ Dated(Seen(bars'), bars'[1].time + Lost(bars') - 1)
  <2>1. \A i \in DOMAIN bars' : bars'[i].time = bars'[1].time + i - 1
    BY DEF History, Timed
  <2> QED  BY <1>1, <2>1, SeenDated
<1>4. /\ Lost(bars) \in Nat /\ Len(Seen(bars)) = Len(bars) - 1 - Lost(bars)
      /\ \A j \in 1..Len(Seen(bars)) :
            Lost(bars) + j \in 1..Len(bars) /\ Seen(bars)[j] = bars[Lost(bars) + j]
      /\ Seen(bars) \in Seq(Candle)
  BY <1>1, SeenOf
<1>5. /\ Lost(bars') \in Nat /\ Len(Seen(bars')) = Len(bars') - 1 - Lost(bars')
      /\ \A j \in 1..Len(Seen(bars')) :
            Lost(bars') + j \in 1..Len(bars') /\ Seen(bars')[j] = bars'[Lost(bars') + j]
      /\ Seen(bars') \in Seq(Candle)
  BY <1>1, SeenOf
<1>6. PICK l \in Nat : l = FetchLimit /\ PatternLookback \in Nat /\ l > PatternLookback + 2
  BY DigestConstants
<1> DEFINE c == Seen(bars)
           d == Seen(bars')
<1>7. CASE Tick \/ Reclassify
  <2>1. /\ Len(bars') = Len(bars)
        /\ \A i \in 1..(Len(bars) - 1) : bars'[i] = bars[i]
    <3>1. CASE Tick
      <4>1. PICK b : bars' = [bars EXCEPT ![Len(bars)] = b]
        BY <3>1 DEF Tick
      <4> QED  BY <1>1, <4>1
    <3> QED  BY <1>7, <3>1 DEF Reclassify
  <2>2. Lost(bars') = Lost(bars)
    BY <2>1 DEF Lost
  <2>3. Len(d) = Len(c)
    BY <1>4, <1>5, <2>1, <2>2
  <2>4. ASSUME NEW j \in 1..Len(c) PROVE d[j] = c[j]
    <3>1. Lost(bars) + j \in 1..(Len(bars) - 1)
      BY <1>1, <1>4
    <3> QED  BY <1>4, <1>5, <2>1, <2>2, <2>3, <2>4, <3>1
  <2>5. d = c
    <3>1. d \in Seq(Candle) /\ c \in Seq(Candle)
      BY <1>4, <1>5
    <3> HIDE DEF c, d
    <3> QED  BY <2>3, <2>4, <3>1, SameSequence
  <2> HIDE DEF c, d
  <2>6. Continues(c, c, 0)
    <3>1. Len(c) \in Nat /\ Len(c) + 0 = Len(c) /\ t + 0 = t
      BY <1>4 DEF c
    <3>2. \A j \in 1..Len(c) : j + 0 = j
      OBVIOUS
    <3> QED  BY <1>2, <3>1, <3>2 DEF Continues, c
  <2>7. Lost(bars') = Lost(bars) + 0
    BY <1>4, <2>2
  <2> QED  BY <2>1, <2>5, <2>6, <2>7 DEF c, d
<1>8. CASE CloseBar
  <2>1. Len(bars') = Len(bars) + 1 /\ \A i \in 1..Len(bars) : bars'[i] = bars[i]
    <3>1. PICK b : bars' = Append(bars, b)
      BY <1>8 DEF CloseBar
    <3> QED  BY <1>1, <3>1
  <2>2. PICK n \in Nat \ {0} : n = Len(bars)
    BY <1>1
  <2>3. PICK o \in Nat : o = Lost(bars) /\ o = IF n > l THEN n - l ELSE 0
    BY <1>4, <1>6, <2>2 DEF Lost
  <2>4. Lost(bars') = IF n + 1 > l THEN n + 1 - l ELSE 0
    BY <1>6, <2>1, <2>2 DEF Lost
  <2>5. PICK s \in {0, 1} : Lost(bars') = o + s /\ (s = 1 => n >= l /\ o = n - l)
    BY <1>6, <2>3, <2>4
  <2>6. Len(c) = n - 1 - o /\ Len(d) = n - o - s
    <3>1. Len(c) = n - 1 - o
      BY <1>4, <2>2, <2>3
    <3>2. Len(d) = (n + 1) - 1 - (o + s)
      BY <1>5, <2>1, <2>2, <2>5
    <3>3. (n + 1) - 1 - (o + s) = n - o - s
      OBVIOUS
    <3> QED  BY <3>1, <3>2, <3>3
  <2>7. bars'[1].time = bars[1].time
    BY <2>1, <2>2
  <2>8. bars'[1].time + Lost(bars') - 1 = t + s
    <3>1. bars[1].time \in Int
      BY <1>3, <2>7
    <3> QED  BY <1>2, <2>3, <2>5, <2>7, <3>1
  <2>9. ASSUME NEW j \in 1..Len(d), j + s \in 1..Len(c) PROVE d[j] = c[j + s]
    <3>1. c[j + s] = bars[o + (j + s)] /\ o + (j + s) \in 1..n
      BY <1>4, <2>2, <2>3, <2>9
    <3>2. d[j] = bars'[(o + s) + j]
      BY <1>5, <2>5
    <3>3. (o + s) + j = o + (j + s)
      BY <2>6
    <3> QED  BY <2>1, <2>2, <3>1, <3>2, <3>3
  <2>10. Dated(c, t) /\ Dated(d, t + s)
    BY <1>2, <1>3, <2>8
  <2> HIDE DEF c, d
  <2>11. Len(d) + s \in {Len(c), Len(c) + 1} /\ (s = 1 => Len(c) > PatternLookback + 1 /\ Len(d) = Len(c))
    BY <1>6, <2>5, <2>6
  <2>12. Continues(d, c, s)
    BY <2>9, <2>10, <2>11 DEF Continues
  <2>13. Lost(bars') = Lost(bars) + s
    BY <2>3, <2>5
  <2>14. Continues(Seen(bars'), Seen(bars), s)
    BY <2>12 DEF c, d
  <2> QED  BY <1>8, <2>13, <2>14, Zenon
<1> QED  BY <1>7, <1>8 DEF Next

-----------------------------------------------------------------------------
(* The pivots of the closed bars, bar by bar: which there are, in which    *)
(* order, and how each is labelled.                                        *)

LEMMA MaxIsGreatest ==
    ASSUME NEW n \in Nat, NEW T, T \subseteq 1..n, T # {}
    PROVE  Max(T) \in T /\ \A u \in T : u <= Max(T)
<1> DEFINE R == {n - u : u \in T}
<1>1. R \subseteq Nat /\ R # {}
  <2>1. ASSUME NEW u \in T PROVE n - u \in Nat
    <3>1. u \in 1..n
      OBVIOUS
    <3> QED  BY <3>1
  <2> QED  BY <2>1
<1>2. PICK r \in R : \A x \in R : r <= x
  <2> HIDE DEF R
  <2> QED  BY <1>1, HasLeast
<1>3. PICK m \in T : r = n - m
  BY <1>2
<1>4. ASSUME NEW u \in T PROVE u <= m
  <2>1. n - m <= n - u
    BY <1>2, <1>3
  <2>2. u \in Int /\ m \in Int
    OBVIOUS
  <2> QED  BY <2>1, <2>2
<1>5. T \subseteq Int
  OBVIOUS
<1>6. Max(T) = m
  BY <1>4, <1>5, NewestIsMax
<1> QED  BY <1>4, <1>6

Compared(price, before, type) ==
    IF price > before THEN IF type = "SH" THEN "HH" ELSE "HL"
    ELSE IF price < before THEN IF type = "SH" THEN "LH" ELSE "LL"
    ELSE IF type = "SH" THEN "EH" ELSE "EL"

(* The label of a pivot compares it with the pivot of its kind before it,  *)
(* if there is one.                                                        *)
LEMMA LabelOf ==
    ASSUME NEW s \in Seq(Pivot), NEW m \in 1..Len(s),
           NEW E, E = {e \in 1..(m - 1) : s[e].type = s[m].type}
    PROVE  PivotLabel(s, m) = IF E = {} THEN ""
                              ELSE Compared(s[m].price, s[Max(E)].price, s[m].type)
<1>1. CASE E = {}
  BY <1>1 DEF PivotLabel
<1>2. CASE E # {}
  <2> DEFINE before == s[Max(E)].price
             price == s[m].price
             high == s[m].type = "SH"
  <2>1. PivotLabel(s, m) = CASE E = {}   -> ""
          [] price > before /\ E # {} -> IF high THEN "HH" ELSE "HL"
          [] price < before /\ E # {} -> IF high THEN "LH" ELSE "LL"
          [] OTHER          -> IF high THEN "EH" ELSE "EL"
    BY DEF PivotLabel
  <2> DEFINE more == price > before
             less == price < before
  <2>6. ~(more /\ less)
    <3>1. E \subseteq 1..Len(s) /\ Len(s) \in Nat
      OBVIOUS
    <3>2. Max(E) \in 1..Len(s)
      BY <1>2, <3>1, MaxIsGreatest
    <3>3. s[Max(E)] \in Pivot /\ s[m] \in Pivot
      BY <3>2
    <3>4. price \in Int /\ before \in Int
      BY <3>3 DEF Pivot
    <3> HIDE DEF price, before
    <3> QED  BY <3>4
  <2> HIDE DEF before, price, high
  <2>4. PivotLabel(s, m) = CASE E = {}   -> ""
          [] more /\ E # {} -> IF high THEN "HH" ELSE "HL"
          [] less /\ E # {} -> IF high THEN "LH" ELSE "LL"
          [] OTHER          -> IF high THEN "EH" ELSE "EL"
    BY <2>1
  <2> HIDE DEF more, less
  <2>5. PivotLabel(s, m) = IF more THEN IF high THEN "HH" ELSE "HL"
                           ELSE IF less THEN IF high THEN "LH" ELSE "LL"
                           ELSE IF high THEN "EH" ELSE "EL"
    BY <1>2, <2>4, <2>6
  <2>2. PivotLabel(s, m) = IF price > before THEN IF high THEN "HH" ELSE "HL"
                           ELSE IF price < before THEN IF high THEN "LH" ELSE "LL"
                           ELSE IF high THEN "EH" ELSE "EL"
    BY <2>5 DEF more, less
  <2>3. PivotLabel(s, m) = Compared(price, before, s[m].type)
    BY <2>2, Zenon DEF Compared, high
  <2> QED  BY <1>2, <2>3 DEF before, price
<1> QED  BY <1>1, <1>2

(* The confirmed bars before b, and the label they give a pivot of bar b. *)
Earlier(c, b, type) == {h \in (LeftRight + 1)..(b - 1) : Confirms(c, h, type)}

LabelAt(c, b, type) ==
    IF Earlier(c, b, type) = {} THEN ""
    ELSE Compared(Level(c, b, type), Level(c, Max(Earlier(c, b, type)), type), type)

(* The label of a pivot does not depend on the pivots after it.            *)
LEMMA LabelOfPrefix ==
    ASSUME NEW s \in Seq(Pivot), NEW q \in Seq(Pivot), NEW m \in 1..Len(s)
    PROVE  PivotLabel(s \o q, m) = PivotLabel(s, m)
<1> DEFINE t == s \o q
           E == {e \in 1..(m - 1) : s[e].type = s[m].type}
           F == {e \in 1..(m - 1) : t[e].type = t[m].type}
<1>1. PICK n \in Nat : n = Len(s) /\ \A e \in 1..n : t[e] = s[e]
  OBVIOUS
<1> HIDE DEF t
<1>2. m \in 1..n /\ \A e \in 1..(m - 1) : e \in 1..n
  BY <1>1
<1>3. F = E
  BY <1>1, <1>2
<1>4. E # {} => Max(E) \in 1..n
  <2>1. E \subseteq 1..n
    BY <1>2
  <2> HIDE DEF E
  <2> QED  BY <2>1, MaxIsGreatest
<1>5. PivotLabel(s, m) = IF E = {} THEN ""
                         ELSE Compared(s[m].price, s[Max(E)].price, s[m].type)
  BY LabelOf
<1>6. PivotLabel(t, m) = IF F = {} THEN ""
                         ELSE Compared(t[m].price, t[Max(F)].price, t[m].type)
  <2>1. t \in Seq(Pivot) /\ m \in 1..Len(t)
    BY DEF t
  <2> QED  BY <2>1, LabelOf
<1> HIDE DEF E, F
<1>7. CASE E = {}
  BY <1>3, <1>5, <1>6, <1>7 DEF t
<1>8. CASE E # {}
  <2>1. t[m] = s[m] /\ t[Max(E)] = s[Max(E)]
    BY <1>1, <1>2, <1>4, <1>8
  <2> QED  BY <1>3, <1>5, <1>6, <1>8, <2>1 DEF t
<1> QED  BY <1>7, <1>8

(* One bar's pivots carry its time, and the high comes first.              *)
LEMMA OrderOfABar ==
    ASSUME NEW c \in Seq(Candle), NEW i \in 1..Len(c)
    PROVE  LET q == PivotsAt(c, i, LeftRight)
           IN  /\ \A m \in 1..Len(q) : q[m].time = c[i].time
               /\ \A m, x \in 1..Len(q) : m < x => q[m].type = "SH" /\ q[x].type = "SL"
<1> DEFINE hi == [time |-> c[i].time, price |-> c[i].high, type |-> "SH"]
           lo == [time |-> c[i].time, price |-> c[i].low, type |-> "SL"]
           q == PivotsAt(c, i, LeftRight)
<1>2. hi.time = c[i].time /\ hi.type = "SH" /\ lo.time = c[i].time /\ lo.type = "SL"
  OBVIOUS
<1>3. q = (IF Confirms(c, i, "SH") THEN << hi >> ELSE << >>)
          \o (IF Confirms(c, i, "SL") THEN << lo >> ELSE << >>)
  BY DEF PivotsAt, Confirms
<1> HIDE DEF hi, lo, q
<1>4. CASE Confirms(c, i, "SH") /\ Confirms(c, i, "SL")
  <2>1. Len(q) = 2 /\ q[1] = hi /\ q[2] = lo
    BY <1>3, <1>4
  <2> QED  BY <1>2, <2>1 DEF q
<1>5. CASE Confirms(c, i, "SH") /\ ~Confirms(c, i, "SL")
  <2>1. Len(q) = 1 /\ q[1] = hi
    BY <1>3, <1>5
  <2> QED  BY <1>2, <2>1 DEF q
<1>6. CASE ~Confirms(c, i, "SH") /\ Confirms(c, i, "SL")
  <2>1. Len(q) = 1 /\ q[1] = lo
    BY <1>3, <1>6
  <2> QED  BY <1>2, <2>1 DEF q
<1>7. CASE ~Confirms(c, i, "SH") /\ ~Confirms(c, i, "SL")
  <2>1. Len(q) = 0
    BY <1>3, <1>7
  <2> QED  BY <2>1 DEF q
<1> QED  BY <1>4, <1>5, <1>6, <1>7

(* Pivot m of s is the pivot of bar i. *)
IsOf(c, s, m, i) ==
    /\ Confirms(c, i, s[m].type)
    /\ s[m].time = c[i].time /\ s[m].price = Level(c, i, s[m].type)
    /\ PivotLabel(s, m) = LabelAt(c, i, s[m].type)

(* s holds the pivots of the bars up to b, oldest first. *)
PivotsUpTo(c, b, s) ==
    /\ s \in Seq(Pivot)
    /\ NewestUpTo(c, b, s)
    /\ \A m \in 1..Len(s) : \E i \in (LeftRight + 1)..b : IsOf(c, s, m, i)
    /\ \A type \in {"SH", "SL"} : \A i \in (LeftRight + 1)..b :
          Confirms(c, i, type) => \E m \in 1..Len(s) : s[m].type = type /\ s[m].time = c[i].time
    /\ \A m, x \in 1..Len(s) :
          m < x => \/ s[m].time < s[x].time
                   \/ s[m].time = s[x].time /\ s[m].type = "SH" /\ s[x].type = "SL"

(* The label of a pivot of bar b: it is compared with the newest before.   *)
LEMMA LabelAfterABar ==
    ASSUME NEW c \in Seq(Candle), NEW b \in (LeftRight + 1)..Len(c),
           NEW s, PivotsUpTo(c, b - 1, s),
           NEW x \in 1..Len(PivotsAt(c, b, LeftRight))
    PROVE  LET q == PivotsAt(c, b, LeftRight)
           IN  PivotLabel(s \o q, Len(s) + x) = LabelAt(c, b, q[x].type)
<1> DEFINE q == PivotsAt(c, b, LeftRight)
           t == s \o q
           ty == q[x].type
           M == Len(s) + x
           E == {e \in 1..(M - 1) : t[e].type = t[M].type}
           F == {e \in 1..Len(s) : s[e].type = ty}
<1>1. LeftRight \in Nat \ {0} /\ b \in Int /\ b \in 1..Len(c)
  <2>1. LeftRight \in Nat \ {0} /\ Len(c) \in Nat
    BY DigestConstants
  <2> QED  BY <2>1
<1>2. /\ q \in Seq(Pivot) /\ s \in Seq(Pivot)
      /\ \A m \in 1..Len(q) : /\ Confirms(c, b, q[m].type)
                              /\ q[m].price = Level(c, b, q[m].type)
      /\ \A m, y \in 1..Len(q) : m < y => q[m].type = "SH" /\ q[y].type = "SL"
  BY <1>1, PivotsOfABar, OrderOfABar DEF PivotsUpTo
<1> HIDE DEF q
<1>3. PICK n \in Nat : n = Len(s)
  BY <1>2
<1>4. /\ \A e \in 1..n : t[e] = s[e]
      /\ \A y \in 1..Len(q) : t[n + y] = q[y]
      /\ x \in 1..Len(q) /\ x \in Nat /\ M = n + x /\ Len(q) \in Nat
  BY <1>2, <1>3 DEF q
<1>5. ty \in {"SH", "SL"}
  <2>1. q[x] \in Pivot
    BY <1>2, <1>4
  <2> QED  BY <2>1 DEF Pivot
<1> HIDE DEF t, M, ty
<1>6. E = F
  <2>1. t[M].type = ty
    BY <1>4 DEF ty
  <2>2. ASSUME NEW e \in E PROVE e \in F
    <3>1. CASE e \in 1..n
      BY <1>3, <1>4, <2>1, <3>1
    <3>2. CASE e \notin 1..n
      <4>1. e - n \in 1..Len(q) /\ e - n < x /\ e = n + (e - n)
        BY <1>4, <2>2, <3>2
      <4>2. q[e - n].type = "SH" /\ q[x].type = "SL"
        BY <1>2, <1>4, <4>1
      <4>3. t[e] = q[e - n]
        BY <1>4, <4>1
      <4> QED  BY <2>1, <2>2, <4>2, <4>3 DEF ty
    <3> QED  BY <3>1, <3>2
  <2>3. ASSUME NEW e \in F PROVE e \in E
    <3>1. e \in 1..n /\ e \in 1..(M - 1)
      BY <1>3, <1>4, <2>3
    <3> QED  BY <1>4, <2>1, <2>3, <3>1
  <2> HIDE DEF E, F
  <2> QED  BY <2>2, <2>3
<1>7. PivotLabel(t, M) = IF F = {} THEN ""
                         ELSE Compared(t[M].price, t[Max(F)].price, t[M].type)
  <2> HIDE DEF F
  <2>1. PivotLabel(t, M) = IF E = {} THEN ""
                           ELSE Compared(t[M].price, t[Max(E)].price, t[M].type)
    <3>1. t \in Seq(Pivot) /\ M \in 1..Len(t)
      <4>1. t \in Seq(Pivot) /\ Len(t) = n + Len(q)
        BY <1>2, <1>3 DEF t
      <4> QED  BY <1>4, <4>1
    <3> QED  BY <3>1, LabelOf
  <2> QED  BY <1>6, <2>1, Zenon
<1>8. t[M].price = Level(c, b, ty) /\ t[M].type = ty
  BY <1>2, <1>4 DEF ty
<1>9. CASE F = {}
  <2>1. Earlier(c, b, ty) = {}
    <3> SUFFICES ASSUME NEW h \in (LeftRight + 1)..(b - 1), Confirms(c, h, ty) PROVE FALSE
      BY DEF Earlier
    <3>1. PICK m \in 1..Len(s) : s[m].type = ty
      BY <1>5 DEF PivotsUpTo
    <3> QED  BY <1>9, <3>1
  <2> QED  BY <1>7, <1>9, <2>1 DEF LabelAt, t, M, ty, q
<1>10. CASE F # {}
  <2>1. Max(F) \in F /\ \A u \in F : u <= Max(F)
    <3>1. F \subseteq 1..n
      BY <1>3
    <3> HIDE DEF F
    <3> QED  BY <1>10, <3>1, MaxIsGreatest
  <2>2. PICK f \in 1..n : f = Max(F) /\ s[f].type = ty
    BY <1>3, <2>1
  <2>3. IsNewest(s, f)
    <3> SUFFICES ASSUME NEW y \in (f + 1)..Len(s), s[y].type = ty PROVE FALSE
      BY <2>2 DEF IsNewest
    <3>1. y \in 1..n /\ y > f
      BY <1>3
    <3>2. y \in F
      BY <1>3, <3>1
    <3> HIDE DEF F
    <3> QED  BY <2>1, <2>2, <3>1, <3>2
  <2>4. PICK i \in (LeftRight + 1)..(b - 1) :
            /\ Confirms(c, i, ty) /\ s[f].price = Level(c, i, ty)
            /\ \A h \in (i + 1)..(b - 1) : ~Confirms(c, h, ty)
    <3>1. NewestUpTo(c, b - 1, s)
      BY DEF PivotsUpTo
    <3>2. f \in 1..Len(s)
      BY <1>3
    <3> QED  BY <2>2, <2>3, <3>1, <3>2 DEF NewestUpTo
  <2>5. Max(Earlier(c, b, ty)) = i /\ Earlier(c, b, ty) # {}
    <3> DEFINE S == Earlier(c, b, ty)
    <3>1. S \subseteq Int /\ i \in S
      BY <2>4 DEF Earlier
    <3>2. ASSUME NEW h \in S PROVE h <= i
      <4>1. h \in (LeftRight + 1)..(b - 1) /\ Confirms(c, h, ty)
        BY <3>2 DEF Earlier
      <4>2. h \notin (i + 1)..(b - 1)
        BY <2>4, <4>1
      <4> QED  BY <1>1, <4>1, <4>2
    <3> HIDE DEF S
    <3> QED  BY <3>1, <3>2, NewestIsMax DEF S
  <2>6. t[Max(F)].price = Level(c, i, ty)
    BY <1>4, <2>2, <2>4
  <2> HIDE DEF F
  <2>7. PivotLabel(t, M) = Compared(Level(c, b, ty), Level(c, i, ty), ty)
    BY <1>7, <1>8, <1>10, <2>6
  <2> QED  BY <2>5, <2>7 DEF LabelAt, t, M, ty, q
<1> QED  BY <1>9, <1>10

-----------------------------------------------------------------------------
(* Appending the pivots of the next bar keeps the list one of all pivots   *)
(* so far, in time order, with the right labels.                           *)
LEMMA PivotsAfterABar ==
    ASSUME NEW c \in Seq(Candle), NEW t0 \in Int, Dated(c, t0),
           NEW b \in (LeftRight + 1)..Len(c),
           NEW s, PivotsUpTo(c, b - 1, s)
    PROVE  PivotsUpTo(c, b, s \o PivotsAt(c, b, LeftRight))
<1> DEFINE q == PivotsAt(c, b, LeftRight)
           t == s \o q
<1>1. LeftRight \in Nat \ {0} /\ b \in Int /\ b \in 1..Len(c)
  <2>1. LeftRight \in Nat \ {0} /\ Len(c) \in Nat
    BY DigestConstants
  <2> QED  BY <2>1
<1>2. /\ q \in Seq(Pivot) /\ s \in Seq(Pivot)
      /\ \A m \in 1..Len(q) : /\ Confirms(c, b, q[m].type)
                              /\ q[m].price = Level(c, b, q[m].type)
      /\ \A type \in {"SH", "SL"} :
             Confirms(c, b, type) => \E m \in 1..Len(q) : q[m].type = type
      /\ \A m \in 1..Len(q) : q[m].time = c[b].time
      /\ \A m, y \in 1..Len(q) : m < y => q[m].type = "SH" /\ q[y].type = "SL"
  BY <1>1, PivotsOfABar, OrderOfABar DEF PivotsUpTo
<1>3. /\ \A m \in 1..Len(s) : \E i \in (LeftRight + 1)..(b - 1) : IsOf(c, s, m, i)
      /\ \A type \in {"SH", "SL"} : \A i \in (LeftRight + 1)..(b - 1) :
            Confirms(c, i, type) => \E m \in 1..Len(s) : s[m].type = type /\ s[m].time = c[i].time
      /\ \A m, x \in 1..Len(s) :
            m < x => \/ s[m].time < s[x].time
                     \/ s[m].time = s[x].time /\ s[m].type = "SH" /\ s[x].type = "SL"
  BY DEF PivotsUpTo
<1>4. t \in Seq(Pivot) /\ NewestUpTo(c, b, t)
  BY NewestAfterABar DEF PivotsUpTo
<1>5. \A x \in 1..Len(q) : PivotLabel(t, Len(s) + x) = LabelAt(c, b, q[x].type)
  BY LabelAfterABar
<1>6. \A m \in 1..Len(s) : PivotLabel(t, m) = PivotLabel(s, m)
  BY <1>2, LabelOfPrefix
<1> HIDE DEF q
<1>7. PICK n \in Nat : n = Len(s)
  BY <1>2
<1>8. /\ Len(t) = n + Len(q) /\ Len(q) \in Nat
      /\ \A m \in 1..n : t[m] = s[m] /\ m \in 1..Len(t)
      /\ \A x \in 1..Len(q) : t[n + x] = q[x] /\ n + x \in 1..Len(t)
  BY <1>2, <1>7
<1> HIDE DEF t
<1>9. ASSUME NEW m \in 1..Len(t)
      PROVE  m \in 1..n \/ \E x \in 1..Len(q) : m = n + x
  <2>1. m \notin 1..n => m - n \in 1..Len(q) /\ m = n + (m - n)
    BY <1>8
  <2> QED  BY <2>1
<1>10. \A i \in (LeftRight + 1)..b : i = b \/ i \in (LeftRight + 1)..(b - 1)
  BY <1>1
<1>11. ASSUME NEW i \in (LeftRight + 1)..(b - 1)
       PROVE  i \in (LeftRight + 1)..b /\ i \in Int /\ i < b /\ i \in 1..Len(c)
  BY <1>1
<1>12. ASSUME NEW m \in 1..Len(t)
       PROVE  \E i \in (LeftRight + 1)..b : IsOf(c, t, m, i)
  <2>1. CASE m \in 1..n
    <3>1. PICK i \in (LeftRight + 1)..(b - 1) : IsOf(c, s, m, i)
      BY <1>3, <1>7, <2>1
    <3>2. IsOf(c, t, m, i)
      <4>1. t[m] = s[m] /\ PivotLabel(t, m) = PivotLabel(s, m)
        BY <1>6, <1>7, <1>8, <2>1
      <4> QED  BY <3>1, <4>1 DEF IsOf
    <3> QED  BY <1>11, <3>2
  <2>2. ASSUME NEW x \in 1..Len(q), m = n + x PROVE IsOf(c, t, m, b)
    <3>1. t[m] = q[x] /\ PivotLabel(t, m) = LabelAt(c, b, q[x].type)
      BY <1>5, <1>7, <1>8, <2>2
    <3> QED  BY <1>2, <3>1 DEF IsOf
  <2>3. b \in (LeftRight + 1)..b
    BY <1>1
  <2> QED  BY <1>9, <2>1, <2>2, <2>3
<1>13. ASSUME NEW type \in {"SH", "SL"}, NEW i \in (LeftRight + 1)..b, Confirms(c, i, type)
       PROVE  \E m \in 1..Len(t) : t[m].type = type /\ t[m].time = c[i].time
  <2>1. CASE i = b
    <3>1. PICK x \in 1..Len(q) : q[x].type = type
      BY <1>2, <1>13, <2>1
    <3>2. t[n + x] = q[x] /\ n + x \in 1..Len(t) /\ q[x].time = c[b].time
      BY <1>2, <1>8
    <3> QED  BY <2>1, <3>1, <3>2
  <2>2. CASE i \in (LeftRight + 1)..(b - 1)
    <3>1. PICK m \in 1..Len(s) : s[m].type = type /\ s[m].time = c[i].time
      BY <1>3, <1>13, <2>2
    <3> QED  BY <1>7, <1>8, <3>1
  <2> QED  BY <1>10, <2>1, <2>2
<1>14. \A m \in 1..n : s[m].time < c[b].time
  <2> SUFFICES ASSUME NEW m \in 1..n PROVE s[m].time < c[b].time
    OBVIOUS
  <2>1. PICK i \in (LeftRight + 1)..(b - 1) : s[m].time = c[i].time
    BY <1>3, <1>7 DEF IsOf
  <2>2. c[i].time = t0 + i /\ c[b].time = t0 + b
    BY <1>1, <1>11 DEF Dated
  <2> QED  BY <1>1, <1>11, <2>1, <2>2
<1>15. ASSUME NEW m \in 1..Len(t), NEW x \in 1..Len(t), m < x
       PROVE  \/ t[m].time < t[x].time
              \/ t[m].time = t[x].time /\ t[m].type = "SH" /\ t[x].type = "SL"
  <2>1. CASE x \in 1..n
    <3>1. m \in 1..n
      BY <1>8, <1>15, <2>1
    <3> QED  BY <1>3, <1>7, <1>8, <1>15, <2>1, <3>1
  <2>2. ASSUME NEW y \in 1..Len(q), x = n + y
        PROVE  \/ t[m].time < t[x].time
               \/ t[m].time = t[x].time /\ t[m].type = "SH" /\ t[x].type = "SL"
    <3>1. CASE m \in 1..n
      <4>1. t[m].time = s[m].time /\ t[x].time = q[y].time
        BY <1>8, <2>2, <3>1
      <4>2. q[y].time = c[b].time
        BY <1>2
      <4> QED  BY <1>14, <3>1, <4>1, <4>2
    <3>2. ASSUME NEW z \in 1..Len(q), m = n + z
          PROVE  t[m].time = t[x].time /\ t[m].type = "SH" /\ t[x].type = "SL"
      <4>1. z < y
        BY <1>8, <1>15, <2>2, <3>2
      <4>2. t[m] = q[z] /\ t[x] = q[y]
        BY <1>8, <2>2, <3>2
      <4>3. q[z].time = c[b].time /\ q[y].time = c[b].time /\ q[z].type = "SH" /\ q[y].type = "SL"
        BY <1>2, <4>1
      <4> QED  BY <4>2, <4>3
    <3> QED  BY <1>9, <3>1, <3>2
  <2> QED  BY <1>9, <2>1, <2>2
<1> QED  BY <1>4, <1>12, <1>13, <1>15 DEF PivotsUpTo, t, q

AllPivots(c) == FlattenSeq([m \in 1..(Len(c) - 2 * LeftRight) |-> PivotsAt(c, m + LeftRight, LeftRight)])

(* AllPivots lists exactly the confirmed bars of the window, in time       *)
(* order.                                                                  *)
LEMMA PivotsOfAll ==
    ASSUME NEW c \in Seq(Candle), NEW t0 \in Int, Dated(c, t0), Len(c) >= 2 * LeftRight + 1
    PROVE  PivotsUpTo(c, Len(c) - LeftRight, AllPivots(c))
<1>1. LeftRight \in Nat \ {0} /\ Len(c) \in Nat
  BY DigestConstants
<1>2. PICK n \in Nat : n = Len(c) - 2 * LeftRight /\ n > 0
  BY <1>1
<1> DEFINE sq == [m \in 1..n |-> PivotsAt(c, m + LeftRight, LeftRight)]
<1>3. \A m \in 1..n : m + LeftRight \in (LeftRight + 1)..Len(c) /\ m + LeftRight \in 1..Len(c)
  BY <1>1, <1>2
<1>4. ASSUME NEW m \in 1..n PROVE PivotsAt(c, m + LeftRight, LeftRight) \in Seq(Pivot)
  <2>1. PICK b \in 1..Len(c) : b = m + LeftRight
    BY <1>3
  <2>2. PivotsAt(c, b, LeftRight) \in Seq(Pivot)
    BY PivotsOfABar
  <2> QED  BY <2>1, <2>2
<1>5. /\ sq \in Seq(Seq(Pivot)) /\ Len(sq) = n /\ sq # << >>
      /\ \A m \in 1..n : sq[m] = PivotsAt(c, m + LeftRight, LeftRight)
  <2>1. sq \in [1..n -> Seq(Pivot)]
    BY <1>4
  <2>2. \A m \in 1..n : sq[m] = PivotsAt(c, m + LeftRight, LeftRight)
    OBVIOUS
  <2>3. DOMAIN sq = 1..n
    OBVIOUS
  <2> HIDE DEF sq
  <2>4. sq \in Seq(Seq(Pivot)) /\ Len(sq) = n
    BY <1>2, <2>1, <2>3
  <2>5. sq # << >>
    BY <1>2, <2>4
  <2> QED  BY <2>2, <2>4, <2>5
<1> HIDE DEF sq
<1>6. PICK g : /\ FlattenSeq(sq) = g[n]
               /\ g[1] = sq[1]
               /\ \A i \in 2..n : g[i] = g[i - 1] \o sq[i]
  BY <1>5, FlattenSteps
<1> DEFINE Good(k) == PivotsUpTo(c, k + LeftRight, g[k])
           Bad == {k \in 1..n : ~Good(k)}
<1>7. Bad = {}
  <2>1. SUFFICES ASSUME Bad # {} PROVE FALSE
    OBVIOUS
  <2>2. PICK k \in Bad : \A j \in Bad : k <= j
    <3>1. Bad \subseteq Nat
      OBVIOUS
    <3> HIDE DEF Bad
    <3> QED  BY <2>1, <3>1, HasLeast
  <2>3. k \in 1..n /\ ~Good(k)
    BY <2>2
  <2>5. PICK b \in (LeftRight + 1)..Len(c) : b = k + LeftRight
    BY <1>3, <2>3
  <2>4. PICK s : PivotsUpTo(c, b - 1, s) /\ g[k] = s \o sq[k]
    <3>1. CASE k = 1
      <4>1. b - 1 = LeftRight /\ (LeftRight + 1)..LeftRight = {}
        BY <1>1, <2>5, <3>1
      <4>2. Len(<< >>) = 0 /\ 1..0 = {} /\ << >> \in Seq(Pivot)
        OBVIOUS
      <4>3. PivotsUpTo(c, b - 1, << >>)
        BY <4>1, <4>2 DEF PivotsUpTo, NewestUpTo
      <4>4. << >> \in Seq(Pivot) /\ sq[1] \in Seq(Pivot)
        BY <1>4, <1>5, <2>3, <3>1
      <4>5. g[k] = << >> \o sq[k]
        BY <1>6, <3>1, <4>4
      <4> QED  BY <4>3, <4>5
    <3>2. CASE k # 1
      <4>1. k \in 2..n /\ k - 1 \in 1..n /\ k - 1 < k /\ (k - 1) + LeftRight = b - 1
        BY <1>1, <2>3, <2>5, <3>2
      <4>2. k - 1 \notin Bad
        <5> HIDE DEF Bad
        <5>1. k - 1 \in Bad => k <= k - 1
          BY <2>2
        <5> QED  BY <2>3, <4>1, <5>1
      <4>3. Good(k - 1)
        BY <4>1, <4>2
      <4> QED  BY <1>6, <4>1, <4>3
    <3> QED  BY <3>1, <3>2
  <2>6. sq[k] = PivotsAt(c, b, LeftRight)
    BY <1>5, <2>3, <2>5
  <2>7. PivotsUpTo(c, b, g[k])
    BY <2>4, <2>6, PivotsAfterABar
  <2> QED  BY <2>3, <2>5, <2>7
<1>8. n \in 1..n /\ n + LeftRight = Len(c) - LeftRight
  BY <1>1, <1>2
<1>9. PivotsUpTo(c, n + LeftRight, g[n])
  BY <1>7, <1>8
<1> QED  BY <1>2, <1>6, <1>8, <1>9 DEF sq, AllPivots

(* What the model is shown of each pivot: bar i's, labelled in full.       *)
Shows(c, p, i) ==
    /\ i \in (LeftRight + 1)..(Len(c) - LeftRight)
    /\ p.type \in {"SH", "SL"} /\ Confirms(c, i, p.type)
    /\ p.time = c[i].time /\ p.price = Level(c, i, p.type)
    /\ p.label = LabelAt(c, i, p.type)

Shown == [time : Int, price : Nat, type : {"SH", "SL"}, label : {"", "HH", "HL", "LH", "LL", "EH", "EL"}]

(* A pivot of bar i comes after p in the list of all. *)
ListedAfter(c, p, i, type) ==
    p.time < c[i].time \/ (p.time = c[i].time /\ p.type = "SH" /\ type = "SL")

(* The pivots printed are the newest of all, each at its bar and with its  *)
(* label, and none is left out from the first one printed on.              *)
LEMMA PivotsShown ==
    ASSUME NEW c \in Seq(Candle), NEW t0 \in Int, Dated(c, t0), NEW limit \in Nat
    PROVE  LET v == RecentPivots(c, LeftRight, limit)
               all == AllPivots(c)
           IN  /\ v \in Seq(Shown) /\ Len(v) <= limit
               /\ \A m \in 1..Len(v) : \E i \in 1..Len(c) : Shows(c, v[m], i)
               /\ \A m, x \in 1..Len(v) :
                      m < x => \/ v[m].time < v[x].time
                               \/ v[m].time = v[x].time /\ v[m].type = "SH" /\ v[x].type = "SL"
               /\ Len(v) < limit =>
                    \A type \in {"SH", "SL"} : \A i \in (LeftRight + 1)..(Len(c) - LeftRight) :
                       Confirms(c, i, type) =>
                          \E m \in 1..Len(v) : v[m].type = type /\ v[m].time = c[i].time
               /\ \A x \in 1..Len(v) : \A type \in {"SH", "SL"} :
                    \A i \in (LeftRight + 1)..(Len(c) - LeftRight) :
                       Confirms(c, i, type) /\ ListedAfter(c, v[x], i, type) =>
                          \E m \in 1..Len(v) : v[m].type = type /\ v[m].time = c[i].time
<1> DEFINE v == RecentPivots(c, LeftRight, limit)
           all == AllPivots(c)
           labelled == [m \in DOMAIN all |->
                            [time  |-> all[m].time, price |-> all[m].price,
                             type  |-> all[m].type, label |-> PivotLabel(all, m)]]
<1>1. LeftRight \in Nat \ {0} /\ Len(c) \in Nat
  BY DigestConstants
<1>2. v = IF Len(c) < 2 * LeftRight + 1 \/ limit <= 0 THEN << >>
          ELSE LastOf(labelled, limit)
  <2>1. v = IF Len(c) < 2 * LeftRight + 1 \/ limit <= 0 THEN << >>
            ELSE SubSeq(labelled, Max({1, Len(all) - limit + 1}), Len(all))
    BY DEF RecentPivots, AllPivots
  <2>2. CASE Len(c) < 2 * LeftRight + 1 \/ limit <= 0
    BY <2>1, <2>2
  <2>3. CASE ~(Len(c) < 2 * LeftRight + 1 \/ limit <= 0)
    <3>1. all \in Seq(Pivot)
      BY <1>1, <2>3, PivotsOfAll DEF PivotsUpTo
    <3>2. Len(labelled) = Len(all)
      <4> HIDE DEF all
      <4> QED  BY <3>1
    <3> HIDE DEF v, all, labelled
    <3>3. v = SubSeq(labelled, Max({1, Len(all) - limit + 1}), Len(all))
      BY <2>1, <2>3, Zenon
    <3> QED  BY <2>3, <3>2, <3>3, Zenon DEF LastOf, LastFrom
  <2> QED  BY <2>2, <2>3
<1> HIDE DEF v
<1>3. CASE Len(c) < 2 * LeftRight + 1 \/ limit <= 0
  <2>1. v = << >>
    BY <1>2, <1>3
  <2>2. v \in Seq(Shown) /\ Len(v) = 0
    BY <2>1
  <2>3. 0 < limit => (LeftRight + 1)..(Len(c) - LeftRight) = {}
    BY <1>1, <1>3
  <2> QED  BY <2>2, <2>3 DEF v
<1>4. CASE ~(Len(c) < 2 * LeftRight + 1 \/ limit <= 0)
  <2>1. PivotsUpTo(c, Len(c) - LeftRight, all) /\ limit \in Nat \ {0}
    BY <1>1, <1>4, PivotsOfAll
  <2>2. v = LastOf(labelled, limit)
    <3> HIDE DEF labelled
    <3> QED  BY <1>2, <1>4, Zenon
  <2> HIDE DEF all
  <2>3. PICK n \in Nat : n = Len(all) /\ DOMAIN all = 1..n
    BY <2>1 DEF PivotsUpTo
  <2>4. ASSUME NEW m \in 1..n
        PROVE  /\ \E i \in 1..Len(c) : Shows(c, labelled[m], i)
               /\ labelled[m] \in Shown
               /\ labelled[m].time = all[m].time /\ labelled[m].type = all[m].type
    <3>1. PICK i \in (LeftRight + 1)..(Len(c) - LeftRight) : IsOf(c, all, m, i)
      BY <2>1, <2>3 DEF PivotsUpTo
    <3>2. i \in 1..Len(c)
      BY <1>1
    <3>3. all[m] \in Pivot
      BY <2>1, <2>3 DEF PivotsUpTo
    <3>4. /\ labelled[m].time = all[m].time /\ labelled[m].type = all[m].type
          /\ labelled[m].price = all[m].price /\ labelled[m].label = PivotLabel(all, m)
      BY <2>3
    <3>5. PivotLabel(all, m) \in {"", "HH", "HL", "LH", "LL", "EH", "EL"}
      BY <3>1 DEF IsOf, LabelAt, Compared
    <3>6. labelled[m] = [time |-> all[m].time, price |-> all[m].price,
                         type |-> all[m].type, label |-> PivotLabel(all, m)]
      BY <2>3
    <3>7. labelled[m] \in Shown
      <4>1. all[m].time \in Int /\ all[m].price \in Nat /\ all[m].type \in {"SH", "SL"}
        BY <3>3 DEF Pivot
      <4> HIDE DEF labelled
      <4>2. ASSUME NEW a \in Int, NEW p \in Nat, NEW ty \in {"SH", "SL"},
                   NEW l \in {"", "HH", "HL", "LH", "LL", "EH", "EL"}
            PROVE  [time |-> a, price |-> p, type |-> ty, label |-> l] \in Shown
        BY DEF Shown
      <4>3. [time |-> all[m].time, price |-> all[m].price,
             type |-> all[m].type, label |-> PivotLabel(all, m)] \in Shown
        BY <3>5, <4>1, <4>2, Zenon
      <4> QED  BY <3>6, <4>3, Zenon
    <3>8. all[m].type \in {"SH", "SL"}
      BY <3>3 DEF Pivot
    <3> HIDE DEF labelled
    <3>9. Shows(c, labelled[m], i)
      BY <3>1, <3>4, <3>8 DEF Shows, IsOf
    <3> QED  BY <3>2, <3>4, <3>7, <3>9
  <2>5. labelled \in Seq(Shown) /\ Len(labelled) = n
    <3>1. DOMAIN labelled = 1..n
      BY <2>3
    <3>2. labelled = [m \in 1..n |-> labelled[m]]
      BY <2>3
    <3> HIDE DEF labelled
    <3> QED  BY <2>3, <2>4, <3>1, <3>2
  <2> HIDE DEF labelled
  <2>6. PICK from \in Nat \ {0} :
           /\ Len(v) = n - from + 1 /\ v \in Seq(Shown)
           /\ \A i \in 1..Len(v) : i + from - 1 \in 1..n /\ v[i] = labelled[i + from - 1]
           /\ Len(v) <= limit
           /\ Len(v) < limit => from = 1
    <3>1. PICK f : f = LastFrom(labelled, limit)
      OBVIOUS
    <3>2. /\ f \in Nat \ {0} /\ Len(v) = Len(labelled) - f + 1 /\ v \in Seq(Shown)
          /\ \A i \in 1..Len(v) : i + f - 1 \in 1..Len(labelled) /\ v[i] = labelled[i + f - 1]
          /\ Len(v) <= limit
      <4>1. limit \in Nat \ {0} /\ labelled \in Seq(Shown)
        BY <2>1, <2>5
      <4> QED  BY <2>2, <3>1, <4>1, TailOf
    <3>3. f = IF 1 >= n - limit + 1 THEN 1 ELSE n - limit + 1
      <4>1. n - limit + 1 \in Int
        BY <2>1
      <4> QED  BY <2>5, <3>1, <4>1, MaxOfTwo DEF LastFrom
    <3>4. Len(v) < limit => f = 1
      BY <2>1, <2>5, <3>2, <3>3
    <3> QED  BY <2>5, <3>2, <3>4
  <2>7. ASSUME NEW m \in 1..Len(v), NEW x \in 1..Len(v), m < x
        PROVE  \/ v[m].time < v[x].time
               \/ v[m].time = v[x].time /\ v[m].type = "SH" /\ v[x].type = "SL"
    <3>1. PICK k \in 1..n, l \in 1..n : k < l /\ v[m] = labelled[k] /\ v[x] = labelled[l]
      <4>1. m + from - 1 < x + from - 1
        BY <2>7
      <4> QED  BY <2>6, <4>1
    <3>2. \/ all[k].time < all[l].time
          \/ all[k].time = all[l].time /\ all[k].type = "SH" /\ all[l].type = "SL"
      BY <2>1, <2>3, <3>1 DEF PivotsUpTo
    <3> QED  BY <2>4, <3>1, <3>2
  <2>8. ASSUME Len(v) < limit, NEW type \in {"SH", "SL"},
               NEW i \in (LeftRight + 1)..(Len(c) - LeftRight), Confirms(c, i, type)
        PROVE  \E m \in 1..Len(v) : v[m].type = type /\ v[m].time = c[i].time
    <3>1. PICK m \in 1..n : all[m].type = type /\ all[m].time = c[i].time
      BY <2>1, <2>3, <2>8 DEF PivotsUpTo
    <3>2. from = 1 /\ Len(v) = n /\ m + 1 - 1 = m
      BY <2>6, <2>8
    <3>3. v[m] = labelled[m] /\ m \in 1..Len(v)
      BY <2>6, <3>2
    <3> QED  BY <2>4, <3>1, <3>3
  <2>9. \A m \in 1..Len(v) : \E i \in 1..Len(c) : Shows(c, v[m], i)
    BY <2>4, <2>6
  <2>10. ASSUME NEW x \in 1..Len(v), NEW type \in {"SH", "SL"},
                NEW i \in (LeftRight + 1)..(Len(c) - LeftRight),
                Confirms(c, i, type), ListedAfter(c, v[x], i, type)
         PROVE  \E m \in 1..Len(v) : v[m].type = type /\ v[m].time = c[i].time
    <3>1. PICK k \in 1..n : all[k].type = type /\ all[k].time = c[i].time
      BY <2>1, <2>3, <2>10 DEF PivotsUpTo
    <3>2. PICK l \in 1..n : l = x + from - 1 /\ v[x] = labelled[l]
      BY <2>6
    <3>3. all[l].time = v[x].time /\ all[l].type = v[x].type /\ all[l] \in Pivot
      BY <2>1, <2>3, <2>4, <3>2 DEF PivotsUpTo
    <3>4. all[l].time \in Int /\ all[k].time \in Int
      <4>1. all[k] \in Pivot
        BY <2>1, <2>3 DEF PivotsUpTo
      <4> QED  BY <3>3, <4>1 DEF Pivot
    <3>5. \/ all[l].time < all[k].time
          \/ all[l].time = all[k].time /\ all[l].type = "SH" /\ all[k].type = "SL"
      BY <2>10, <3>1, <3>3 DEF ListedAfter
    <3>6. k < l => \/ all[k].time < all[l].time
                   \/ all[k].time = all[l].time /\ all[k].type = "SH" /\ all[l].type = "SL"
      BY <2>1, <2>3 DEF PivotsUpTo
    <3>7. ~(k < l) /\ k # l
      BY <3>4, <3>5, <3>6
    <3>8. PICK m \in Int : m = k - from + 1
      BY <2>6
    <3>9. m \in 1..Len(v) /\ m + from - 1 = k
      BY <2>3, <2>6, <3>2, <3>7, <3>8
    <3>10. v[m] = labelled[k]
      BY <2>6, <3>9
    <3> QED  BY <2>4, <3>1, <3>9, <3>10
  <2> QED  BY <2>6, <2>7, <2>8, <2>9, <2>10 DEF v
<1> QED  BY <1>3, <1>4

-----------------------------------------------------------------------------
(* Bars that two digests share are confirmed, labelled and read alike.     *)

LEMMA SharedBar ==
    ASSUME NEW c \in Seq(Candle), NEW d \in Seq(Candle), NEW s \in {0, 1}, Continues(d, c, s),
           NEW x \in 1..Len(c), NEW y \in 1..Len(d), c[x].time = d[y].time
    PROVE  x = y + s /\ d[y] = c[x]
<1>1. PICK t \in Int : Dated(c, t) /\ Dated(d, t + s) /\ s \in {0, 1}
  BY DEF Continues
<1>2. c[x].time = t + x /\ d[y].time = (t + s) + y
  BY <1>1 DEF Dated
<1>3. x \in Int /\ y \in Int
  OBVIOUS
<1>4. x = y + s
  <2>1. t + x = (t + s) + y
    BY <1>2
  <2> QED  BY <1>1, <1>3, <2>1
<1>5. \A j \in 1..Len(d) : j + s \in 1..Len(c) => d[j] = c[j + s]
  BY DEF Continues
<1> QED  BY <1>4, <1>5

(* Whether a bar is a pivot is the same in both digests, wherever both see *)
(* its neighbours.                                                         *)
LEMMA ConfirmedAlike ==
    ASSUME NEW c \in Seq(Candle), NEW d \in Seq(Candle), NEW s \in {0, 1}, Continues(d, c, s), NEW ty,
           NEW h \in (LeftRight + 1)..(Len(d) - LeftRight), NEW g, g = h + s, g <= Len(c) - LeftRight
    PROVE  Confirms(d, h, ty) <=> Confirms(c, g, ty)
<1>1. LeftRight \in Nat \ {0} /\ Len(d) \in Nat /\ Len(c) \in Nat /\ h \in Int /\ g \in Int /\ s \in {0, 1}
  <2>1. s \in {0, 1}
    BY DEF Continues
  <2>2. LeftRight \in Nat \ {0}
    BY DigestConstants
  <2> QED  BY <2>1, <2>2
<1>2. ASSUME NEW j \in (h - LeftRight)..(h + LeftRight)
      PROVE  j + s \in (g - LeftRight)..(g + LeftRight) /\ d[j] = c[j + s] /\ j \in Int
  <2>1. j \in 1..Len(d) /\ j + s \in 1..Len(c) /\ j \in Int
    BY <1>1
  <2>2. j + s \in (g - LeftRight)..(g + LeftRight)
    BY <1>1
  <2> QED  BY <2>1, <2>2 DEF Continues
<1>3. ASSUME NEW j \in (g - LeftRight)..(g + LeftRight)
      PROVE  j - s \in (h - LeftRight)..(h + LeftRight) /\ d[j - s] = c[j] /\ j \in Int
  <2>1. j - s \in (h - LeftRight)..(h + LeftRight) /\ (j - s) + s = j /\ j \in Int
    BY <1>1
  <2> QED  BY <1>2, <2>1
<1>4. d[h] = c[g]
  <2>1. h \in (h - LeftRight)..(h + LeftRight)
    BY <1>1
  <2> QED  BY <1>2, <2>1
<1>5. isPivotHigh(d, h, LeftRight) <=> isPivotHigh(c, g, LeftRight)
  <2>1. ASSUME isPivotHigh(d, h, LeftRight)
        PROVE  isPivotHigh(c, g, LeftRight)
    <3>1. \A j \in (h - LeftRight)..(h + LeftRight) : j # h => d[j].high < d[h].high
      BY <2>1 DEF isPivotHigh
    <3>2. ASSUME NEW j \in (g - LeftRight)..(g + LeftRight), j # g
          PROVE  c[j].high < c[g].high
      <4>1. j - s \in (h - LeftRight)..(h + LeftRight) /\ d[j - s] = c[j] /\ j \in Int
        BY <1>3
      <4>2. j - s # h
        BY <1>1, <3>2, <4>1
      <4>3. d[j - s].high < d[h].high
        BY <3>1, <4>1, <4>2
      <4> QED  BY <1>4, <4>1, <4>3
    <3> QED  BY <3>2, Zenon DEF isPivotHigh
  <2>2. ASSUME isPivotHigh(c, g, LeftRight)
        PROVE  isPivotHigh(d, h, LeftRight)
    <3>1. \A j \in (g - LeftRight)..(g + LeftRight) : j # g => c[j].high < c[g].high
      BY <2>2, Zenon DEF isPivotHigh
    <3>2. ASSUME NEW j \in (h - LeftRight)..(h + LeftRight), j # h
          PROVE  d[j].high < d[h].high
      <4>1. j + s \in (g - LeftRight)..(g + LeftRight) /\ d[j] = c[j + s] /\ j \in Int
        BY <1>2
      <4>2. j + s # g
        BY <1>1, <3>2, <4>1
      <4>3. c[j + s].high < c[g].high
        BY <3>1, <4>1, <4>2
      <4> QED  BY <1>4, <4>1, <4>3
    <3> QED  BY <3>2 DEF isPivotHigh
  <2> QED  BY <2>1, <2>2, Zenon
<1>6. isPivotLow(d, h, LeftRight) <=> isPivotLow(c, g, LeftRight)
  <2>1. ASSUME isPivotLow(d, h, LeftRight)
        PROVE  isPivotLow(c, g, LeftRight)
    <3>1. \A j \in (h - LeftRight)..(h + LeftRight) : j # h => d[j].low > d[h].low
      BY <2>1 DEF isPivotLow
    <3>2. ASSUME NEW j \in (g - LeftRight)..(g + LeftRight), j # g
          PROVE  c[j].low > c[g].low
      <4>1. j - s \in (h - LeftRight)..(h + LeftRight) /\ d[j - s] = c[j] /\ j \in Int
        BY <1>3
      <4>2. j - s # h
        BY <1>1, <3>2, <4>1
      <4>3. d[j - s].low > d[h].low
        BY <3>1, <4>1, <4>2
      <4> QED  BY <1>4, <4>1, <4>3
    <3> QED  BY <3>2, Zenon DEF isPivotLow
  <2>2. ASSUME isPivotLow(c, g, LeftRight)
        PROVE  isPivotLow(d, h, LeftRight)
    <3>1. \A j \in (g - LeftRight)..(g + LeftRight) : j # g => c[j].low > c[g].low
      BY <2>2, Zenon DEF isPivotLow
    <3>2. ASSUME NEW j \in (h - LeftRight)..(h + LeftRight), j # h
          PROVE  d[j].low > d[h].low
      <4>1. j + s \in (g - LeftRight)..(g + LeftRight) /\ d[j] = c[j + s] /\ j \in Int
        BY <1>2
      <4>2. j + s # g
        BY <1>1, <3>2, <4>1
      <4>3. c[j + s].low > c[g].low
        BY <3>1, <4>1, <4>2
      <4> QED  BY <1>4, <4>1, <4>3
    <3> QED  BY <3>2 DEF isPivotLow
  <2> QED  BY <2>1, <2>2, Zenon
<1> QED  BY <1>5, <1>6 DEF Confirms

(* A pivot keeps its price, and its label unless what it was compared with *)
(* is no longer there.                                                     *)
LEMMA PivotKept ==
    ASSUME NEW c \in Seq(Candle), NEW d \in Seq(Candle), NEW s \in {0, 1}, Continues(d, c, s),
           NEW p, NEW x \in 1..Len(c), Shows(c, p, x),
           NEW q, NEW y \in 1..Len(d), Shows(d, q, y),
           p.time = q.time, p.type = q.type
    PROVE  p.price = q.price /\ q.label \in {p.label, ""}
<1>1. LeftRight \in Nat \ {0} /\ Len(d) \in Nat /\ Len(c) \in Nat /\ s \in {0, 1}
  <2>1. s \in {0, 1}
    BY DEF Continues
  <2>2. LeftRight \in Nat \ {0}
    BY DigestConstants
  <2> QED  BY <2>1, <2>2
<1>2. x = y + s /\ d[y] = c[x]
  <2>1. c[x].time = d[y].time
    BY DEF Shows
  <2> QED  BY <2>1, SharedBar
<1>3. PICK ty \in {"SH", "SL"} : ty = p.type /\ ty = q.type
  BY DEF Shows
<1>4. Level(d, y, ty) = Level(c, x, ty)
  BY <1>2 DEF Level
<1>5. p.price = q.price
  BY <1>3, <1>4 DEF Shows
<1> DEFINE E == Earlier(c, x, ty)
           F == Earlier(d, y, ty)
<1>6. x \in (LeftRight + 1)..(Len(c) - LeftRight) /\ y \in (LeftRight + 1)..(Len(d) - LeftRight)
  BY DEF Shows
<1>7. p.label = LabelAt(c, x, ty) /\ q.label = LabelAt(d, y, ty)
  BY <1>3 DEF Shows
<1>8. CASE F = {}
  <2>1. LabelAt(d, y, ty) = ""
    BY <1>8 DEF LabelAt
  <2> QED  BY <1>5, <1>7, <2>1
<1>9. CASE F # {}
  <2>1. F \subseteq 1..Len(d)
    BY <1>1, <1>6 DEF Earlier
  <2>2. PICK m \in F : m = Max(F) /\ \A u \in F : u <= m
    <3> HIDE DEF F
    <3> QED  BY <1>1, <1>9, <2>1, MaxIsGreatest
  <2>3. m \in (LeftRight + 1)..(y - 1) /\ Confirms(d, m, ty)
    BY <2>2 DEF Earlier
  <2>4. m \in (LeftRight + 1)..(Len(d) - LeftRight) /\ m + s <= Len(c) - LeftRight /\ m \in Int
    BY <1>1, <1>2, <1>6, <2>3
  <2>5. m + s \in E
    <3>1. PICK g : g = m + s
      OBVIOUS
    <3>3. Confirms(c, g, ty)
      BY <2>3, <2>4, <3>1, ConfirmedAlike
    <3>2. m + s \in (LeftRight + 1)..(x - 1)
      BY <1>1, <1>2, <1>6, <2>3
    <3> QED  BY <3>1, <3>2, <3>3 DEF Earlier
  <2>6. ASSUME NEW u \in E PROVE u <= m + s
    <3>1. u \in (LeftRight + 1)..(x - 1) /\ Confirms(c, u, ty)
      BY <2>6 DEF Earlier
    <3>2. CASE u = LeftRight + 1 /\ s = 1
      BY <1>1, <2>3, <2>4, <3>2
    <3>3. CASE ~(u = LeftRight + 1 /\ s = 1)
      <4>1. PICK h \in Int : h = u - s
        BY <1>1, <3>1
      <4>2. h \in (LeftRight + 1)..(Len(d) - LeftRight) /\ h + s = u /\ h + s <= Len(c) - LeftRight
            /\ h \in (LeftRight + 1)..(y - 1)
        BY <1>1, <1>2, <1>6, <3>1, <3>3, <4>1
      <4>3. Confirms(d, h, ty)
        BY <3>1, <4>2, ConfirmedAlike
      <4>4. h \in F
        BY <4>2, <4>3 DEF Earlier
      <4>5. h <= m
        BY <2>2, <4>4
      <4> QED  BY <1>1, <2>4, <4>2, <4>5
    <3> QED  BY <3>2, <3>3
  <2>7. E \subseteq Int
    BY DEF Earlier
  <2>8. Max(E) = m + s
    <3> HIDE DEF E
    <3> QED  BY <2>5, <2>6, <2>7, NewestIsMax
  <2>9. d[m] = c[m + s]
    <3>1. m \in 1..Len(d) /\ m + s \in 1..Len(c)
      BY <1>1, <2>4
    <3> QED  BY <3>1 DEF Continues
  <2>10. Level(d, m, ty) = Level(c, m + s, ty)
    BY <2>9 DEF Level
  <2>11. LabelAt(d, y, ty) = Compared(Level(d, y, ty), Level(d, m, ty), ty)
    BY <1>9, <2>2 DEF LabelAt
  <2>12. LabelAt(c, x, ty) = Compared(Level(c, x, ty), Level(c, m + s, ty), ty)
    BY <2>5, <2>8 DEF LabelAt
  <2> QED  BY <1>4, <1>5, <1>7, <2>10, <2>11, <2>12
<1> QED  BY <1>5, <1>8, <1>9

(* What AnalyzeLastBars prints of a bar.                                   *)
Reads(c, p, i) ==
    /\ i >= Len(c) - PatternLookback + 1
    /\ p.time = c[i].time /\ p.kind = DetectPattern(c, i)
    /\ p.invalidated = Invalidated(c, i, DetectPattern(c, i))

(* Every pattern printed was read off a bar of the lookback.               *)
LEMMA PatternsRead ==
    ASSUME NEW c \in Seq(Candle), NEW r,
           NEW k \in DOMAIN analyzeTFPatterns(c, r, PatternLookback)
    PROVE  \E i \in 1..Len(c) : Reads(c, analyzeTFPatterns(c, r, PatternLookback)[k], i)
<1>1. PatternLookback \in Nat /\ Len(c) \in Nat
  BY DigestConstants
<1>2. c # << >>
  <2> SUFFICES ASSUME c = << >> PROVE FALSE
    OBVIOUS
  <2>1. analyzeTFPatterns(c, r, PatternLookback) = << >>
    BY DEF analyzeTFPatterns
  <2> QED  BY <2>1
<1>3. PICK lvl : analyzeTFPatterns(c, r, PatternLookback) = AnalyzeLastBars(c, PatternLookback, lvl)
  BY <1>2 DEF analyzeTFPatterns
<1> DEFINE start == Max({1, Len(c) - PatternLookback + 1})
           i == start + k - 1
           kind == DetectPattern(c, i)
<1>4. start = IF 1 >= Len(c) - PatternLookback + 1 THEN 1 ELSE Len(c) - PatternLookback + 1
  <2>1. Len(c) - PatternLookback + 1 \in Int
    BY <1>1
  <2> QED  BY <2>1, MaxOfTwo
<1> HIDE DEF start
<1>5. k \in 1..(Len(c) - start + 1)
      /\ AnalyzeLastBars(c, PatternLookback, lvl)[k] =
            [time |-> c[i].time, kind |-> kind, context |-> enrichContext(c, i, lvl),
             invalidated |-> Invalidated(c, i, kind)]
  BY <1>3 DEF AnalyzeLastBars, start
<1>6. i \in 1..Len(c) /\ i >= Len(c) - PatternLookback + 1
  BY <1>1, <1>4, <1>5
<1> HIDE DEF i
<1>7. Reads(c, AnalyzeLastBars(c, PatternLookback, lvl)[k], i)
  BY <1>5, <1>6 DEF Reads
<1> QED  BY <1>3, <1>6, <1>7

(* A pattern printed for a bar is printed as the same kind by the next     *)
(* digest, and stays invalidated.                                          *)
LEMMA PatternKept ==
    ASSUME NEW c \in Seq(Candle), NEW d \in Seq(Candle), NEW s \in {0, 1}, Continues(d, c, s),
           NEW p, NEW x \in 1..Len(c), Reads(c, p, x),
           NEW q, NEW y \in 1..Len(d), Reads(d, q, y),
           p.time = q.time
    PROVE  p.kind = q.kind /\ (p.invalidated => q.invalidated)
<1>1. Len(d) \in Nat /\ Len(c) \in Nat /\ s \in {0, 1} /\ PatternLookback \in Nat
  <2>1. s \in {0, 1}
    BY DEF Continues
  <2>2. PatternLookback \in Nat
    BY DigestConstants
  <2> QED  BY <2>1, <2>2
<1>2. x = y + s /\ d[y] = c[x]
  <2>1. c[x].time = d[y].time
    BY DEF Reads
  <2> QED  BY <2>1, SharedBar
<1>3. s = 1 => y >= 3 /\ x >= 3
  <2> SUFFICES ASSUME s = 1 PROVE y >= 3 /\ x >= 3
    OBVIOUS
  <2>1. Len(c) > PatternLookback + 1 /\ Len(d) = Len(c)
    BY DEF Continues
  <2>2. y >= Len(d) - PatternLookback + 1
    BY DEF Reads
  <2> QED  BY <1>1, <1>2, <2>1, <2>2
<1>4. x >= 3 <=> y >= 3
  BY <1>1, <1>2, <1>3
<1>5. x >= 2 <=> y >= 2
  BY <1>1, <1>2, <1>3
<1>6. y >= 2 => d[y - 1] = c[x - 1]
  <2> SUFFICES ASSUME y >= 2 PROVE d[y - 1] = c[x - 1]
    OBVIOUS
  <2>1. y - 1 \in 1..Len(d) /\ (y - 1) + s \in 1..Len(c) /\ (y - 1) + s = x - 1
    BY <1>1, <1>2
  <2> QED  BY <2>1 DEF Continues
<1>7. y >= 3 => d[y - 2] = c[x - 2]
  <2> SUFFICES ASSUME y >= 3 PROVE d[y - 2] = c[x - 2]
    OBVIOUS
  <2>1. y - 2 \in 1..Len(d) /\ (y - 2) + s \in 1..Len(c) /\ (y - 2) + s = x - 2
    BY <1>1, <1>2
  <2> QED  BY <2>1 DEF Continues
<1>8. DetectPattern(d, y) = DetectPattern(c, x)
  <2> DEFINE three == IF x >= 3 THEN detectThreeBar(c[x - 2], c[x - 1], c[x]) ELSE ""
             two   == IF x >= 2 THEN detectTwoBar(c[x], c[x - 1]) ELSE ""
  <2>1. (IF y >= 3 THEN detectThreeBar(d[y - 2], d[y - 1], d[y]) ELSE "") = three
    <3>1. CASE x >= 3
      <4>1. y >= 3 /\ y >= 2
        BY <1>1, <1>4, <3>1
      <4> QED  BY <1>2, <1>6, <1>7, <3>1, <4>1, Zenon
    <3>2. CASE ~(x >= 3)
      BY <1>4, <3>2, Zenon
    <3> QED  BY <3>1, <3>2
  <2>2. (IF y >= 2 THEN detectTwoBar(d[y], d[y - 1]) ELSE "") = two
    BY <1>2, <1>5, <1>6, Zenon
  <2>3. DetectPattern(c, x) = IF three # "" THEN three ELSE IF two # "" THEN two
                              ELSE detectSingleBar(c[x])
    BY Zenon DEF DetectPattern
  <2>4. DetectPattern(d, y) = IF three # "" THEN three ELSE IF two # "" THEN two
                              ELSE detectSingleBar(d[y])
    BY <2>1, <2>2, Zenon DEF DetectPattern
  <2> QED  BY <1>2, <2>3, <2>4, Zenon
<1>9. ASSUME NEW kind, Invalidated(c, x, kind) PROVE Invalidated(d, y, kind)
  <2>1. PICK j \in (x + 1)..Len(c) :
           \/ kind \in BullishReversals /\ c[j].close < c[x].low
           \/ kind \in BearishReversals /\ c[j].close > c[x].high
           \/ kind = "three_white_soldiers" /\ x >= 3 /\ c[j].close < c[x - 2].open
           \/ kind = "three_black_crows" /\ x >= 3 /\ c[j].close > c[x - 2].open
    BY <1>9 DEF Invalidated
  <2>2. j - s \in (y + 1)..Len(d) /\ j - s \in 1..Len(d) /\ (j - s) + s = j /\ j \in 1..Len(c)
    <3>1. Len(d) + s >= Len(c)
      BY <1>1 DEF Continues
    <3> QED  BY <1>1, <1>2, <3>1
  <2>3. d[j - s] = c[j]
    BY <2>2 DEF Continues
  <2> QED  BY <1>2, <1>4, <1>7, <2>1, <2>2, <2>3 DEF Invalidated
<1> QED  BY <1>8, <1>9 DEF Reads

-----------------------------------------------------------------------------
(* The parts of a digest, told from the closed bars of the fetch.          *)
Scaled(r) == PivotLimit > 0 /\ r.atr > 0

(* Which detector fills which part of a digest, and from which bars.       *)
LEMMA DigestParts ==
    ASSUME NEW h, NEW r, NEW e, e = Build(Fetch(h), r)
    PROVE  /\ e.pivots = RecentPivots(Seen(h), LeftRight, PivotLimit)
           /\ e.patterns = analyzeTFPatterns(Seen(h), r, PatternLookback)
           /\ e.bos = IF Scaled(r) THEN DetectBOSRetest(Seen(h), e.pivots, r.atr, BOSScanWindow)
                      ELSE NoBOS
           /\ e.failed = IF Scaled(r) THEN DetectFailedBreakout(Seen(h), e.pivots, BOSScanWindow)
                         ELSE NoFailure
           /\ e.gap = IF PivotLimit > 0 /\ TF \in {EntryTF, "M5", "H4"}
                      THEN DetectRecentFVG(Seen(h), FVGScanWindow) ELSE NoGap
<1>1. PICK c : c = Seen(h) /\ c = ClosedCandles(Fetch(h))
  BY DEF Seen
<1>2. /\ e.pivots = RecentPivots(c, LeftRight, PivotLimit)
      /\ e.patterns = analyzeTFPatterns(c, r, PatternLookback)
  BY <1>1 DEF Build
<1>3. e.bos = IF Scaled(r) THEN DetectBOSRetest(c, e.pivots, r.atr, BOSScanWindow) ELSE NoBOS
  BY <1>1 DEF Build, Scaled
<1>4. e.failed = IF Scaled(r) THEN DetectFailedBreakout(c, e.pivots, BOSScanWindow) ELSE NoFailure
  BY <1>1 DEF Build, Scaled
<1>5. e.gap = IF PivotLimit > 0 /\ TF \in {EntryTF, "M5", "H4"}
              THEN DetectRecentFVG(c, FVGScanWindow) ELSE NoGap
  BY <1>1 DEF Build
<1> QED  BY <1>1, <1>2, <1>3, <1>4, <1>5

(* The digest of the moment over a market in time order. *)
Told == History /\ DigestCurrent

(* The digest of every moment is that of bars in time order.               *)
LEMMA AlwaysTold == Spec => []Told
  BY AlwaysHistory, AlwaysCurrent, PTL DEF Told

(* A digest asked for while no bar closed is the digest of before. *)
LEMMA SameBarsSameDigest ==
    ASSUME Told, Told', Next, Len(bars') = Len(bars)
    PROVE  digest' = digest
<1>1. CASE Reclassify
  BY <1>1 DEF Reclassify
<1>2. CASE CloseBar
  <2>1. Len(bars) \in Nat /\ Len(bars') = Len(bars) + 1
    <3>1. PICK b : bars' = Append(bars, b)
      BY <1>2 DEF CloseBar
    <3>2. bars \in Seq(Candle)
      BY DEF Told, History, Market
    <3> QED  BY <3>1, <3>2
  <2> QED  BY <2>1
<1>3. CASE Tick
  <2>1. Seen(bars') = Seen(bars)
    <3>1. ~CloseBar
      <4>1. bars \in Seq(Candle)
        BY DEF Told, History, Market
      <4>2. \A b : Len(Append(bars, b)) = Len(bars) + 1 /\ Len(bars) \in Nat
        BY <4>1
      <4> QED  BY <4>2 DEF CloseBar
    <3> QED  BY <3>1, SeenContinues DEF Told
  <2>2. digest = Build(Fetch(bars), reading) /\ digest' = Build(Fetch(bars'), reading)
    BY <1>3 DEF Tick, Told, DigestCurrent
  <2>3. ClosedCandles(Fetch(bars')) = ClosedCandles(Fetch(bars))
    BY <2>1 DEF Seen
  <2> QED  BY <2>2, <2>3, Zenon DEF Build
<1> QED  BY <1>1, <1>2, <1>3 DEF Next

(* The bars that two digests in a row are read from. *)
LEMMA NextDigest ==
    ASSUME Told, Told', Next
    PROVE  \E c \in Seq(Candle), d \in Seq(Candle), s \in {0, 1}, t \in Int :
             /\ c = Seen(bars) /\ d = Seen(bars') /\ Continues(d, c, s)
             /\ Dated(c, t) /\ Dated(d, t + s) /\ t + s \in Int
<1>1. PICK s \in {0, 1} : Continues(Seen(bars'), Seen(bars), s)
  BY SeenContinues DEF Told
<1>2. PICK t \in Int : Dated(Seen(bars), t) /\ Dated(Seen(bars'), t + s)
  BY <1>1, Zenon DEF Continues
<1>3. bars \in Seq(Candle) /\ bars # << >> /\ bars' \in Seq(Candle) /\ bars' # << >>
  BY DEF Told, History, Market
<1>4. Seen(bars) \in Seq(Candle) /\ Seen(bars') \in Seq(Candle)
  BY <1>3, SeenOf
<1>5. t + s \in Int
  OBVIOUS
<1> QED  BY <1>1, <1>2, <1>4, <1>5, Zenon

(* No digest takes back what an earlier one said of a closed bar: its      *)
(* pivots keep their prices and labels, its patterns their names, and what *)
(* is invalidated stays so, for any bars, windows and confirmation width   *)
(* (digest.go feeds every detector closed candles only).                   *)
THEOREM DigestsNeverRepaint == Spec => NeverRepaints
<1> DEFINE Kept ==
      /\ Len(bars') = Len(bars) => digest' = digest
      /\ \A i \in DOMAIN digest.pivots, j \in DOMAIN digest'.pivots :
            LET p == digest.pivots[i]
                q == digest'.pivots[j]
            IN  p.time = q.time /\ p.type = q.type =>
                    p.price = q.price /\ q.label \in {p.label, ""}
      /\ \A i \in DOMAIN digest.patterns, j \in DOMAIN digest'.patterns :
            LET p == digest.patterns[i]
                q == digest'.patterns[j]
            IN  p.time = q.time => p.kind = q.kind /\ (p.invalidated => q.invalidated)
<1>1. ASSUME Told, Told', Next PROVE Kept
  <2>1. Len(bars') = Len(bars) => digest' = digest
    BY <1>1, SameBarsSameDigest
  <2>2. PICK c \in Seq(Candle), d \in Seq(Candle), s \in {0, 1}, t \in Int :
           /\ c = Seen(bars) /\ d = Seen(bars') /\ Continues(d, c, s)
           /\ Dated(c, t) /\ Dated(d, t + s) /\ t + s \in Int
    BY <1>1, NextDigest
  <2>3. digest = Build(Fetch(bars), reading) /\ digest' = Build(Fetch(bars'), reading')
    BY <1>1 DEF Told, DigestCurrent
  <2>4. /\ digest.pivots = RecentPivots(c, LeftRight, PivotLimit)
        /\ digest.patterns = analyzeTFPatterns(c, reading, PatternLookback)
    BY <2>2, <2>3, DigestParts
  <2>5. /\ digest'.pivots = RecentPivots(d, LeftRight, PivotLimit)
        /\ digest'.patterns = analyzeTFPatterns(d, reading', PatternLookback)
    BY <2>2, <2>3, DigestParts
  <2>6. PivotLimit \in Nat
    BY DigestConstants DEF PivotLimit
  <2>7. ASSUME NEW i \in DOMAIN digest.pivots, NEW j \in DOMAIN digest'.pivots,
               digest.pivots[i].time = digest'.pivots[j].time,
               digest.pivots[i].type = digest'.pivots[j].type
        PROVE  /\ digest.pivots[i].price = digest'.pivots[j].price
               /\ digest'.pivots[j].label \in {digest.pivots[i].label, ""}
    <3>1. /\ digest.pivots \in Seq(Shown)
          /\ \A m \in 1..Len(digest.pivots) : \E x \in 1..Len(c) : Shows(c, digest.pivots[m], x)
      BY <2>2, <2>4, <2>6, PivotsShown
    <3>2. /\ digest'.pivots \in Seq(Shown)
          /\ \A m \in 1..Len(digest'.pivots) : \E y \in 1..Len(d) : Shows(d, digest'.pivots[m], y)
      BY <2>2, <2>5, <2>6, PivotsShown
    <3>3. i \in 1..Len(digest.pivots) /\ j \in 1..Len(digest'.pivots)
      BY <3>1, <3>2
    <3>4. PICK x \in 1..Len(c) : Shows(c, digest.pivots[i], x)
      BY <3>1, <3>3
    <3>5. PICK y \in 1..Len(d) : Shows(d, digest'.pivots[j], y)
      BY <3>2, <3>3
    <3>6. PICK p, q : p = digest.pivots[i] /\ q = digest'.pivots[j]
      OBVIOUS
    <3>7. p.time = q.time /\ p.type = q.type /\ Shows(c, p, x) /\ Shows(d, q, y)
      BY <2>7, <3>4, <3>5, <3>6
    <3>8. p.price = q.price /\ q.label \in {p.label, ""}
      BY <2>2, <3>7, PivotKept
    <3> QED  BY <3>6, <3>8
  <2>8. ASSUME NEW i \in DOMAIN digest.patterns, NEW j \in DOMAIN digest'.patterns,
               digest.patterns[i].time = digest'.patterns[j].time
        PROVE  /\ digest.patterns[i].kind = digest'.patterns[j].kind
               /\ digest.patterns[i].invalidated => digest'.patterns[j].invalidated
    <3>1. PICK x \in 1..Len(c) : Reads(c, digest.patterns[i], x)
      BY <2>4, PatternsRead
    <3>2. PICK y \in 1..Len(d) : Reads(d, digest'.patterns[j], y)
      BY <2>5, PatternsRead
    <3>3. PICK p, q : p = digest.patterns[i] /\ q = digest'.patterns[j]
      OBVIOUS
    <3>4. p.time = q.time /\ Reads(c, p, x) /\ Reads(d, q, y)
      BY <2>8, <3>1, <3>2, <3>3
    <3>5. p.kind = q.kind /\ (p.invalidated => q.invalidated)
      BY <2>2, <3>4, PatternKept
    <3> QED  BY <3>3, <3>5
  <2> QED  BY <2>1, <2>7, <2>8
<1>3. Told /\ Told' /\ [Next]_vars => [Kept]_vars
  BY <1>1
<1> HIDE DEF Kept
<1>4. Spec => [][Kept]_vars
  BY <1>3, AlwaysTold, PTL DEF Spec
<1> QED  BY <1>4 DEF NeverRepaints, Kept

-----------------------------------------------------------------------------
(* A fresh event exists: Freshest picks one of the events it is given.     *)
LEMMA FreshestIsBest ==
    ASSUME NEW l \in Nat, NEW n \in Nat, NEW F, F \subseteq 1..l, F # {}, NEW at \in [F -> 1..n]
    PROVE  /\ Freshest(at) \in F
           /\ \A m \in F : \/ at[m] < at[Freshest(at)]
                           \/ at[m] = at[Freshest(at)] /\ m <= Freshest(at)
<1> DEFINE T == {at[k] : k \in F}
           S(v) == {k \in F : at[k] = v}
<1>1. T \subseteq 1..n /\ T # {}
  OBVIOUS
<1>2. PICK v \in T : \A u \in T : u <= v
  <2> HIDE DEF T
  <2> QED  BY <1>1, MaxIsGreatest
<1>3. S(v) \subseteq 1..l /\ S(v) # {}
  BY <1>2
<1>4. PICK k \in S(v) : \A m \in S(v) : m <= k
  <2> HIDE DEF S
  <2> QED  BY <1>3, MaxIsGreatest
<1>5. DOMAIN at = F /\ k \in F /\ at[k] = v
  BY <1>4
<1>6. ASSUME NEW m \in F PROVE at[m] < at[k] \/ (at[m] = at[k] /\ m <= k)
  <2>1. at[m] \in 1..n /\ v \in 1..n /\ at[m] <= v
    BY <1>1, <1>2
  <2>2. CASE at[m] = v
    BY <1>4, <1>5, <2>2
  <2>3. CASE at[m] # v
    BY <1>5, <2>1, <2>3
  <2> QED  BY <2>2, <2>3
<1>7. \E x \in DOMAIN at : \A m \in DOMAIN at : \/ at[m] < at[x]
                                                \/ at[m] = at[x] /\ m <= x
  BY <1>5, <1>6, Zenon
<1>8. /\ Freshest(at) \in DOMAIN at
      /\ \A m \in DOMAIN at : \/ at[m] < at[Freshest(at)]
                              \/ at[m] = at[Freshest(at)] /\ m <= Freshest(at)
  BY <1>7, Zenon DEF Freshest
<1> QED  BY <1>5, <1>8

(* The break of a bar through a pivot, as reported. *)
Breaks(c, pv, atr, maxAge, a, k, i) ==
    /\ i >= WindowStart(c, maxAge) /\ ClosedThrough(c, pv[k], i)
    /\ a.direction = (IF pv[k].type = "SL" THEN "down" ELSE "up")
    /\ a.level = pv[k].price /\ a.age = Len(c) - i
    /\ a.state = RetestState(c, pv[k], i, atr)

(* A break of structure that is reported is that of a printed pivot by a   *)
(* bar of the window.                                                      *)
LEMMA BreakReported ==
    ASSUME NEW c \in Seq(Candle), NEW pv \in Seq(Shown),
           \A m \in 1..Len(pv) : \E x \in 1..Len(c) : Shows(c, pv[m], x),
           NEW atr, NEW maxAge, NEW a, a = DetectBOSRetest(c, pv, atr, maxAge), a # NoBOS
    PROVE  \E k \in 1..Len(pv), i \in 1..Len(c) : Breaks(c, pv, atr, maxAge, a, k, i)
<1> DEFINE n           == Len(c)
           origin(k)   == CHOOSE i \in 1..n : c[i].time = pv[k].time
           breaks(k)   == {j \in (origin(k) + 1)..n : ClosedThrough(c, pv[k], j)}
           breakIdx(k) == Min(breaks(k))
           found       == {k \in DOMAIN pv : /\ breaks(k) # {}
                                             /\ breakIdx(k) >= WindowStart(c, maxAge)}
           at          == [k \in found |-> breakIdx(k)]
           best        == Freshest(at)
<1>1. /\ found # {}
      /\ a = [direction |-> IF pv[best].type = "SL" THEN "down" ELSE "up",
              level     |-> pv[best].price,
              age       |-> n - breakIdx(best),
              state     |-> RetestState(c, pv[best], breakIdx(best), atr)]
  BY DEF DetectBOSRetest
<1>2. n \in Nat /\ Len(pv) \in Nat /\ DOMAIN pv = 1..Len(pv)
  OBVIOUS
<1>3. ASSUME NEW k \in found
      PROVE  breakIdx(k) \in 1..n /\ ClosedThrough(c, pv[k], breakIdx(k))
  <2>1. k \in 1..Len(pv) /\ breaks(k) # {}
    BY <1>2
  <2>2. PICK x \in 1..n : c[x].time = pv[k].time
    BY <2>1, Zenon DEF Shows
  <2>3. origin(k) \in 1..n
    BY <2>2, Zenon
  <2> HIDE DEF origin
  <2>4. breaks(k) \subseteq 1..n /\ breaks(k) \subseteq Nat
    BY <1>2, <2>3
  <2>5. breakIdx(k) \in breaks(k)
    <3> HIDE DEF breaks
    <3> QED  BY <2>1, <2>4, MinIsLeast
  <2>6. ClosedThrough(c, pv[k], breakIdx(k))
    <3>1. \A j \in breaks(k) : ClosedThrough(c, pv[k], j)
      OBVIOUS
    <3> HIDE DEF breaks
    <3> QED  BY <2>5, <3>1
  <2> HIDE DEF breaks
  <2> QED  BY <2>4, <2>5, <2>6
<1>4. found \subseteq 1..Len(pv) /\ \A k \in found : breakIdx(k) >= WindowStart(c, maxAge)
  BY <1>2
<1> HIDE DEF breakIdx, found, n
<1>5. at \in [found -> 1..n]
  BY <1>3
<1>6. best \in found
  <2> HIDE DEF at
  <2> QED  BY <1>1, <1>2, <1>4, <1>5, FreshestIsBest
<1> HIDE DEF best
<1>7. Breaks(c, pv, atr, maxAge, a, best, breakIdx(best))
  BY <1>1, <1>3, <1>4, <1>6 DEF Breaks, n
<1> QED  BY <1>3, <1>4, <1>6, <1>7 DEF n

(* A wider tolerance keeps every touch. *)
LEMMA TouchKept ==
    ASSUME NEW p \in Shown, NEW q \in Shown, p.type = q.type, p.price = q.price,
           NEW atr \in Nat, NEW atr2 \in Nat, atr2 >= atr,
           NEW c, NEW i, NEW d, NEW j, c[i] \in Candle, d[j] = c[i]
    PROVE  /\ Touches(c, p, i, atr) => Touches(d, q, j, atr2)
           /\ ClosedThrough(c, p, i) => ClosedThrough(d, q, j)
<1>1. PICK lo \in Nat, hi \in Nat, pr \in Nat :
         lo = c[i].low /\ hi = c[i].high /\ pr = p.price /\ pr = q.price
  <2>1. c[i].low \in Nat /\ c[i].high \in Nat /\ p.price \in Nat
    BY DEF Candle, Shown
  <2> QED  BY <2>1
<1>2. d[j].low = lo /\ d[j].high = hi /\ d[j].close = c[i].close
  BY <1>1
<1>3. \A x \in Int : 10 * x <= 3 * atr => 10 * x <= 3 * atr2
  OBVIOUS
<1>4. lo - pr \in Int /\ pr - hi \in Int
  OBVIOUS
<1>5. ClosedThrough(c, p, i) => ClosedThrough(d, q, j)
  BY <1>1, <1>2 DEF ClosedThrough
<1>6. CASE p.type = "SH"
  BY <1>1, <1>2, <1>3, <1>4, <1>5, <1>6 DEF Touches, WithinTolerance
<1>7. CASE p.type # "SH"
  BY <1>1, <1>2, <1>3, <1>4, <1>5, <1>7 DEF Touches, WithinTolerance
<1> QED  BY <1>6, <1>7

(* Bar i of one digest is bar j of the next. *)
Shifted(i, j, s) == i = j + s

(* d and c are the bars of two digests in a row. *)
Follows(d, c, s) ==
    c \in Seq(Candle) /\ d \in Seq(Candle) /\ s \in {0, 1} /\ Continues(d, c, s)

(* Two pivots at one level. *)
SameLevel(p, q) == p \in Shown /\ q \in Shown /\ p.type = q.type /\ p.price = q.price

(* The tolerance did not shrink. *)
Wider(atr, atr2) == atr \in Nat /\ atr2 \in Nat /\ atr2 >= atr

(* A retest the earlier bars saw, the later ones see too. *)
LEMMA RetestKept ==
    ASSUME NEW c, NEW d, NEW s, Follows(d, c, s), NEW p, NEW q, SameLevel(p, q),
           NEW atr, NEW atr2, Wider(atr, atr2),
           NEW i \in 1..Len(c), NEW j \in 1..Len(d), Shifted(i, j, s)
    PROVE  /\ RetestState(c, p, i, atr) = "confirmed" => RetestState(d, q, j, atr2) = "confirmed"
           /\ RetestState(c, p, i, atr) = "retesting" /\ Len(c) - i > 0
                 => RetestState(d, q, j, atr2) # "pending"
<1>0. i = j + s
  BY DEF Shifted
<1>a. c \in Seq(Candle) /\ d \in Seq(Candle) /\ s \in {0, 1} /\ Continues(d, c, s)
  BY DEF Follows
<1>b. p \in Shown /\ q \in Shown /\ p.type = q.type /\ p.price = q.price
  BY DEF SameLevel
<1>c. atr \in Nat /\ atr2 \in Nat /\ atr2 >= atr
  BY DEF Wider
<1> USE <1>a, <1>b, <1>c
<1>1. /\ Len(c) \in Nat /\ Len(d) \in Nat /\ Len(d) + s >= Len(c)
      /\ \A x \in 1..Len(d) : x + s \in 1..Len(c) => d[x] = c[x + s]
  <2>1. Len(d) + s \in {Len(c), Len(c) + 1}
    BY DEF Continues
  <2> QED  BY <2>1 DEF Continues
<1>2. ASSUME NEW x \in (i + 1)..Len(c)
      PROVE  /\ x - s \in (j + 1)..Len(d) /\ x - s \in Int /\ x \in 1..Len(c)
             /\ Touches(c, p, x, atr) => Touches(d, q, x - s, atr2)
             /\ ClosedThrough(c, p, x) => ClosedThrough(d, q, x - s)
  <2>1. x \in 1..Len(c) /\ x - s \in (j + 1)..Len(d) /\ x - s \in 1..Len(d) /\ (x - s) + s = x
    BY <1>0, <1>1
  <2>2. c[x] \in Candle /\ d[x - s] = c[x]
    BY <1>1, <2>1
  <2>3. PICK y \in Int : y = x - s
    BY <2>1
  <2>4. d[y] = c[x]
    BY <2>2, <2>3
  <2>5. /\ Touches(c, p, x, atr) => Touches(d, q, y, atr2)
        /\ ClosedThrough(c, p, x) => ClosedThrough(d, q, y)
    BY <2>2, <2>4, TouchKept
  <2> QED  BY <2>1, <2>3, <2>5
<1> DEFINE T == {x \in (i + 1)..Len(c) : Touches(c, p, x, atr)}
           U == {x \in (j + 1)..Len(d) : Touches(d, q, x, atr2)}
<1>3. \A x \in T : x - s \in U
  BY <1>2
<1>4. (\E t \in T : \E x \in t..Len(c) : ClosedThrough(c, p, x))
        => \E t \in U : \E x \in t..Len(d) : ClosedThrough(d, q, x)
  <2> SUFFICES ASSUME NEW t \in T, NEW x \in t..Len(c), ClosedThrough(c, p, x)
               PROVE  \E u \in U : \E y \in u..Len(d) : ClosedThrough(d, q, y)
    OBVIOUS
  <2>1. x \in (i + 1)..Len(c)
    BY <1>1
  <2>2. x - s \in (j + 1)..Len(d) /\ ClosedThrough(d, q, x - s)
    BY <1>2, <2>1
  <2>3. x - s \in (t - s)..Len(d)
    BY <1>1, <2>1, <2>2
  <2>4. t - s \in U
    BY <1>3
  <2> QED  BY <2>2, <2>3, <2>4
<1>5. T # {} => U # {}
  BY <1>3
<1>6. Len(c) - i > 0 /\ Touches(c, p, Len(c), atr) => T # {}
  <2> SUFFICES ASSUME Len(c) - i > 0, Touches(c, p, Len(c), atr) PROVE T # {}
    OBVIOUS
  <2>1. Len(c) \in (i + 1)..Len(c)
    BY <1>1
  <2>2. Len(c) \in T
    BY <2>1
  <2> QED  BY <2>2
<1>7. RetestState(c, p, i, atr) =
        IF \E t \in T : \E x \in t..Len(c) : ClosedThrough(c, p, x) THEN "confirmed"
        ELSE IF T # {} \/ Touches(c, p, Len(c), atr) THEN "retesting" ELSE "pending"
  BY Zenon DEF RetestState
<1>8. RetestState(d, q, j, atr2) =
        IF \E t \in U : \E x \in t..Len(d) : ClosedThrough(d, q, x) THEN "confirmed"
        ELSE IF U # {} \/ Touches(d, q, Len(d), atr2) THEN "retesting" ELSE "pending"
  BY Zenon DEF RetestState
<1> HIDE DEF T, U
<1> QED  BY <1>4, <1>5, <1>6, <1>7, <1>8

-----------------------------------------------------------------------------
(* The event happened on bar i. *)
Aged(e, c, i) == e.age = Len(c) - i

(* Events on one bar. *)
InStep(a, c, b, d, s) ==
    \A i \in 1..Len(c), j \in 1..Len(d) : Aged(a, c, i) /\ Aged(b, d, j) => Shifted(i, j, s)

(* Every pivot of the list is one of a bar. *)
AllShown(c, pv) ==
    pv \in Seq(Shown) /\ \A m \in 1..Len(pv) : \E x \in 1..Len(c) : Shows(c, pv[m], x)

(* A gap that is reported is the gap of a bar that is not yet filled. *)
GapOf(c, maxAge, a, i) ==
    /\ i >= 3 /\ i >= WindowStart(c, maxAge)
    /\ BullGap(c, i) \/ BearGap(c, i)
    /\ a = GapAt(c, i)

(* A gap that is reported lies at a bar of the window, between it and the  *)
(* second bar before.                                                      *)
LEMMA GapReported ==
    ASSUME NEW c \in Seq(Candle), NEW maxAge \in Nat,
           NEW a, a = DetectRecentFVG(c, maxAge), a # NoGap
    PROVE  maxAge >= 3 /\ \E i \in 1..Len(c) : GapOf(c, maxAge, a, i)
<1> DEFINE n       == Len(c)
           w       == WindowStart(c, maxAge)
           gaps    == {i \in Max({3, w})..n : /\ BullGap(c, i) \/ BearGap(c, i)
                                              /\ ~GapFilled(c, i)}
           filling == {i \in gaps : GapAt(c, i).state = "filling"}
           pick    == IF filling # {} THEN filling ELSE gaps
<1>1. maxAge >= 3 /\ gaps # {} /\ a = GapAt(c, Max(pick))
  <2>1. DetectRecentFVG(c, maxAge) = IF n < 3 \/ maxAge < 3 \/ gaps = {} THEN NoGap
                                     ELSE GapAt(c, Max(pick))
    BY DEF DetectRecentFVG
  <2> HIDE DEF gaps, pick
  <2>2. ~(n < 3 \/ maxAge < 3 \/ gaps = {})
    BY <2>1
  <2>3. maxAge >= 3
    BY <2>2
  <2> QED  BY <2>1, <2>2, <2>3
<1>2. n \in Nat
  OBVIOUS
<1>3. w \in Nat \ {0} /\ Max({3, w}) \in Nat /\ Max({3, w}) >= 3 /\ Max({3, w}) >= w
  <2>1. n - maxAge + 1 \in Int
    BY <1>2
  <2>2. w = IF 1 >= n - maxAge + 1 THEN 1 ELSE n - maxAge + 1
    BY <2>1, MaxOfTwo DEF WindowStart
  <2>3. w \in Nat \ {0}
    BY <2>1, <2>2
  <2> HIDE DEF w
  <2>4. Max({3, w}) = IF 3 >= w THEN 3 ELSE w
    BY <2>3, MaxOfTwo
  <2> QED  BY <2>3, <2>4
<1> HIDE DEF w
<1>4. gaps \subseteq 1..n /\ \A i \in gaps : i >= 3 /\ i >= w /\ (BullGap(c, i) \/ BearGap(c, i))
  <2>1. PICK lo \in Nat : lo = Max({3, w}) /\ lo >= 3 /\ lo >= w
    BY <1>3
  <2>2. ASSUME NEW i \in gaps
        PROVE  i \in 1..n /\ i >= 3 /\ i >= w /\ (BullGap(c, i) \/ BearGap(c, i))
    <3>1. i \in lo..n /\ (BullGap(c, i) \/ BearGap(c, i))
      BY <2>1
    <3> QED  BY <1>2, <1>3, <2>1, <3>1
  <2> QED  BY <2>2
<1>5. pick \subseteq gaps /\ pick # {}
  BY <1>1
<1> HIDE DEF gaps, filling, pick
<1>6. Max(pick) \in pick
  <2>1. pick \subseteq 1..n
    BY <1>4, <1>5
  <2> HIDE DEF n
  <2> QED  BY <1>2, <1>5, <2>1, MaxIsGreatest
<1>7. PICK i \in gaps : i = Max(pick)
  BY <1>5, <1>6
<1>8. GapOf(c, maxAge, a, i)
  BY <1>1, <1>4, <1>7 DEF GapOf, w
<1>9. i \in 1..Len(c)
  BY <1>4, <1>7 DEF n
<1> QED  BY <1>1, <1>8, <1>9

(* The gap of a bar keeps its zone, and being filled, while bars follow. *)
LEMMA GapKept ==
    ASSUME NEW c, NEW d, NEW s, Follows(d, c, s),
           NEW i \in 3..Len(c), NEW j \in 3..Len(d), Shifted(i, j, s)
    PROVE  /\ GapAt(c, i).direction = GapAt(d, j).direction
           /\ GapAt(c, i).top = GapAt(d, j).top /\ GapAt(c, i).bottom = GapAt(d, j).bottom
           /\ GapAt(c, i).state = "filling" => GapAt(d, j).state = "filling"
<1>a. c \in Seq(Candle) /\ d \in Seq(Candle) /\ s \in {0, 1} /\ Continues(d, c, s)
  BY DEF Follows
<1> USE <1>a
<1>1. /\ Len(c) \in Nat /\ Len(d) \in Nat /\ Len(d) + s >= Len(c)
      /\ \A x \in 1..Len(d) : x + s \in 1..Len(c) => d[x] = c[x + s]
  <2>1. Len(d) + s \in {Len(c), Len(c) + 1}
    BY DEF Continues
  <2> QED  BY <2>1 DEF Continues
<1>0. i = j + s
  BY DEF Shifted
<1>2. d[j] = c[i] /\ d[j - 2] = c[i - 2]
  <2>1. j \in 1..Len(d) /\ j - 2 \in 1..Len(d) /\ j + s \in 1..Len(c) /\ (j - 2) + s \in 1..Len(c)
        /\ (j - 2) + s = i - 2
    BY <1>0, <1>1
  <2> QED  BY <1>0, <1>1, <2>1
<1>3. BullGap(d, j) <=> BullGap(c, i)
  BY <1>2 DEF BullGap
<1> DEFINE top == IF BullGap(c, i) THEN c[i].low ELSE c[i - 2].low
           bot == IF BullGap(c, i) THEN c[i - 2].high ELSE c[i].high
           In(b) == IF BullGap(c, i) THEN b.low < top /\ b.low > bot
                                     ELSE b.high > bot /\ b.high < top
<1>4. /\ GapAt(c, i).direction = (IF BullGap(c, i) THEN "bull" ELSE "bear")
      /\ GapAt(c, i).top = top /\ GapAt(c, i).bottom = bot
      /\ GapAt(c, i).state = IF \E x \in (i + 1)..Len(c) : In(c[x]) THEN "filling" ELSE "open"
  BY DEF GapAt
<1>5. /\ GapAt(d, j).direction = (IF BullGap(c, i) THEN "bull" ELSE "bear")
      /\ GapAt(d, j).top = top /\ GapAt(d, j).bottom = bot
      /\ GapAt(d, j).state = IF \E x \in (j + 1)..Len(d) : In(d[x]) THEN "filling" ELSE "open"
  BY <1>2, <1>3 DEF GapAt
<1>6. ASSUME NEW x \in (i + 1)..Len(c), In(c[x]) PROVE \E y \in (j + 1)..Len(d) : In(d[y])
  <2>1. x - s \in (j + 1)..Len(d) /\ x - s \in 1..Len(d) /\ (x - s) + s = x /\ x \in 1..Len(c)
    BY <1>0, <1>1
  <2>2. d[x - s] = c[x]
    BY <1>1, <2>1
  <2> HIDE DEF In
  <2>3. In(d[x - s])
    BY <1>6, <2>2
  <2> QED  BY <2>1, <2>3
<1> HIDE DEF In, top, bot
<1> QED  BY <1>4, <1>5, <1>6

(* The indicators read are always values they can have. *)
LEMMA AlwaysRead == Spec => [](reading \in Readings)
<1>1. Init => reading \in Readings
  BY DEF Init
<1>2. reading \in Readings /\ [Next]_vars => (reading \in Readings)'
  BY DEF Next, Tick, CloseBar, Reclassify, vars
<1> QED  BY <1>1, <1>2, PTL DEF Spec

(* An event bar is the bar of the history the event was seen on. *)
LEMMA EventBarOf ==
    ASSUME NEW h \in Seq(Candle), h # << >>, NEW e, NEW i \in 1..Len(Seen(h)),
           e.age = Len(Seen(h)) - i
    PROVE  EventBar(e, h) = Lost(h) + i
<1>1. Lost(h) \in Nat /\ Len(Seen(h)) = Len(h) - 1 - Lost(h) /\ Len(h) \in Nat /\ i \in Int
  BY SeenOf
<1>2. PICK n \in Nat, o \in Nat, m \in Int : n = Len(h) /\ o = Lost(h) /\ m = n - 1 - o
  BY <1>1
<1>3. EventBar(e, h) = n - 1 - (m - i)
  BY <1>1, <1>2 DEF EventBar
<1> QED  BY <1>1, <1>2, <1>3

(* Two breaks of one level on one bar: the later report of the retest does *)
(* not go back behind the earlier one.                                     *)
LEMMA BreakKept ==
    ASSUME NEW c, NEW d, NEW s, Follows(d, c, s),
           NEW pv, AllShown(c, pv), NEW qv, AllShown(d, qv),
           NEW atr, NEW atr2, Wider(atr, atr2), NEW maxAge,
           NEW a, a = DetectBOSRetest(c, pv, atr, maxAge), a # NoBOS,
           NEW b, b = DetectBOSRetest(d, qv, atr2, maxAge), b # NoBOS,
           a.direction = b.direction, a.level = b.level,
           InStep(a, c, b, d, s)
    PROVE  /\ a.state = "confirmed" => b.state = "confirmed"
           /\ a.state = "retesting" /\ a.age > 0 => b.state # "pending"
<1>0. /\ c \in Seq(Candle) /\ d \in Seq(Candle) /\ pv \in Seq(Shown) /\ qv \in Seq(Shown)
      /\ \A m \in 1..Len(pv) : \E x \in 1..Len(c) : Shows(c, pv[m], x)
      /\ \A m \in 1..Len(qv) : \E x \in 1..Len(d) : Shows(d, qv[m], x)
  BY DEF Follows, AllShown
<1>1. PICK k \in 1..Len(pv), i \in 1..Len(c) : Breaks(c, pv, atr, maxAge, a, k, i)
  BY <1>0, BreakReported
<1>2. PICK m \in 1..Len(qv), j \in 1..Len(d) : Breaks(d, qv, atr2, maxAge, b, m, j)
  BY <1>0, BreakReported
<1>3. PICK p \in Shown : p = pv[k]
  BY <1>0
<1>4. PICK q \in Shown : q = qv[m]
  BY <1>0
<1>5. a.age = Len(c) - i /\ b.age = Len(d) - j
  BY <1>1, <1>2, Zenon DEF Breaks
<1>6. Shifted(i, j, s)
  BY <1>5, Zenon DEF Aged, InStep
<1>7. SameLevel(p, q)
  <2>1. a.direction = (IF p.type = "SL" THEN "down" ELSE "up") /\ a.level = p.price
    BY <1>1, <1>3, Zenon DEF Breaks
  <2>2. b.direction = (IF q.type = "SL" THEN "down" ELSE "up") /\ b.level = q.price
    BY <1>2, <1>4, Zenon DEF Breaks
  <2>3. p.type \in {"SH", "SL"} /\ q.type \in {"SH", "SL"}
    BY DEF Shown
  <2> QED  BY <2>1, <2>2, <2>3 DEF SameLevel
<1>8. a.state = RetestState(c, p, i, atr) /\ b.state = RetestState(d, q, j, atr2)
  BY <1>1, <1>2, <1>3, <1>4, Zenon DEF Breaks
<1>9. /\ RetestState(c, p, i, atr) = "confirmed" => RetestState(d, q, j, atr2) = "confirmed"
      /\ RetestState(c, p, i, atr) = "retesting" /\ Len(c) - i > 0
            => RetestState(d, q, j, atr2) # "pending"
  BY <1>6, <1>7, RetestKept
<1> QED  BY <1>5, <1>8, <1>9

(* A gap of one bar has the same zone in both digests and does not go back *)
(* to untouched.                                                           *)
LEMMA GapsAlike ==
    ASSUME NEW c, NEW d, NEW s, Follows(d, c, s),
           NEW maxAge \in Nat,
           NEW a, a = DetectRecentFVG(c, maxAge), a # NoGap,
           NEW b, b = DetectRecentFVG(d, maxAge), b # NoGap,
           InStep(a, c, b, d, s)
    PROVE  /\ a.direction = b.direction /\ a.top = b.top /\ a.bottom = b.bottom
           /\ a.state = "filling" => b.state = "filling"
<1>0. c \in Seq(Candle) /\ d \in Seq(Candle) /\ s \in {0, 1} /\ Continues(d, c, s)
  BY DEF Follows
<1>1. PICK i \in 1..Len(c) : GapOf(c, maxAge, a, i)
  BY <1>0, GapReported
<1>2. PICK j \in 1..Len(d) : GapOf(d, maxAge, b, j)
  BY <1>0, GapReported
<1>3. a = GapAt(c, i) /\ b = GapAt(d, j) /\ i >= 3 /\ j >= 3
  BY <1>1, <1>2 DEF GapOf
<1>4. a.age = Len(c) - i
  BY <1>3 DEF GapAt
<1>5. b.age = Len(d) - j
  BY <1>3 DEF GapAt
<1>6. Shifted(i, j, s)
  BY <1>4, <1>5, Zenon DEF Aged, InStep
<1>7. i \in 3..Len(c) /\ j \in 3..Len(d)
  <2>1. Len(c) \in Nat /\ Len(d) \in Nat
    BY <1>0
  <2> QED  BY <1>3, <2>1
<1>8. /\ GapAt(c, i).direction = GapAt(d, j).direction /\ GapAt(c, i).top = GapAt(d, j).top
      /\ GapAt(c, i).bottom = GapAt(d, j).bottom
      /\ GapAt(c, i).state = "filling" => GapAt(d, j).state = "filling"
  BY <1>6, <1>7, GapKept
<1> QED  BY <1>3, <1>8, Zenon

(* Events on one bar of the history are as far apart as the bars are seen. *)
LEMMA SameEventBar ==
    ASSUME NEW h \in Seq(Candle), h # << >>, NEW g \in Seq(Candle), g # << >>,
           NEW s \in {0, 1}, Lost(g) = Lost(h) + s,
           NEW a, NEW b, EventBar(a, h) = EventBar(b, g)
    PROVE  InStep(a, Seen(h), b, Seen(g), s)
<1> SUFFICES ASSUME NEW i \in 1..Len(Seen(h)), NEW j \in 1..Len(Seen(g)),
                    a.age = Len(Seen(h)) - i, b.age = Len(Seen(g)) - j
             PROVE  i = j + s
  BY DEF Aged, Shifted, InStep
<1>1. EventBar(a, h) = Lost(h) + i
  BY EventBarOf
<1>2. EventBar(b, g) = Lost(g) + j
  BY EventBarOf
<1>3. PICK o \in Nat : o = Lost(h)
  BY SeenOf
<1>4. i \in Int /\ j \in Int /\ s \in Int
  <2>1. Len(Seen(h)) \in Int /\ Len(Seen(g)) \in Int
    BY SeenOf
  <2> QED  BY <2>1
<1>5. o + i = (o + s) + j
  BY <1>1, <1>2, <1>3, Zenon
<1> QED  BY <1>3, <1>4, <1>5

(* What the detectors are given and what they are asked for has its type. *)
Inputs ==
    /\ bars \in Seq(Candle) /\ bars # << >> /\ Seen(bars) \in Seq(Candle)
    /\ reading \in Readings /\ reading.atr \in Nat
    /\ digest = Build(Fetch(bars), reading)
    /\ digest.pivots \in Seq(Shown) /\ Len(digest.pivots) <= PivotLimit
    /\ \A m \in 1..Len(digest.pivots) : \E x \in 1..Len(Seen(bars)) :
           Shows(Seen(bars), digest.pivots[m], x)

(* The bars read, the readings and the pivots are what the detectors'      *)
(* lemmas ask for.                                                         *)
LEMMA InputsTyped ==
    ASSUME Told, reading \in Readings
    PROVE  Inputs
<1>1. bars \in Seq(Candle) /\ bars # << >>
  BY DEF Told, History, Market
<1>2. Seen(bars) \in Seq(Candle) /\ Lost(bars) \in Nat
  BY <1>1, SeenOf
<1>3. PICK t \in Int : Dated(Seen(bars), t)
  <2>1. \A i \in DOMAIN bars : bars[i].time = bars[1].time + i - 1
    BY DEF Told, History, Timed
  <2>2. bars[1].time \in Int /\ Dated(Seen(bars), bars[1].time + Lost(bars) - 1)
    BY <1>1, <2>1, SeenDated
  <2>3. bars[1].time + Lost(bars) - 1 \in Int
    BY <1>2, <2>2
  <2> QED  BY <2>2, <2>3
<1>4. PivotLimit \in Nat
  BY DigestConstants DEF PivotLimit
<1>6. reading.atr \in Nat
  BY ReadingConstants
<1>7. digest = Build(Fetch(bars), reading)
  BY DEF Told, DigestCurrent
<1>8. digest.pivots = RecentPivots(Seen(bars), LeftRight, PivotLimit)
  BY <1>7, DigestParts
<1>9. /\ digest.pivots \in Seq(Shown) /\ Len(digest.pivots) <= PivotLimit
      /\ \A m \in 1..Len(digest.pivots) : \E x \in 1..Len(Seen(bars)) :
             Shows(Seen(bars), digest.pivots[m], x)
  BY <1>2, <1>3, <1>4, <1>8, PivotsShown
<1> QED  BY <1>1, <1>2, <1>6, <1>7, <1>9 DEF Inputs

(* They are so in every behaviour, and so in the next state of every step. *)
LEMMA AlwaysInputs == Spec => []Inputs
<1>1. Told /\ reading \in Readings => Inputs
  BY InputsTyped
<1> QED  BY <1>1, AlwaysTold, AlwaysRead, PTL

(* What a digest says happened to a level or a gap, the next one says too, *)
(* for any bars, windows and tolerances: a retest that was confirmed stays *)
(* so, a gap being filled keeps its zone and is not untouched again        *)
(* (structure.go judges every event over all bars since, never over the    *)
(* newest one alone).                                                      *)
THEOREM StructureIsKept == Spec => StructureNeverRegresses
<1> DEFINE Kept ==
      /\ LET a == digest.bos
             b == digest'.bos
         IN  /\ a.direction # "" /\ a.direction = b.direction /\ a.level = b.level
             /\ EventBar(a, bars) = EventBar(b, bars')
             /\ reading'.atr >= reading.atr
             => /\ a.state = "confirmed" => b.state = "confirmed"
                /\ a.state = "retesting" /\ a.age > 0 => b.state # "pending"
      /\ LET a == digest.gap
             b == digest'.gap
         IN  /\ a.direction # "" /\ b.direction # ""
             /\ EventBar(a, bars) = EventBar(b, bars')
             => /\ a.direction = b.direction /\ a.top = b.top /\ a.bottom = b.bottom
                /\ a.state = "filling" => b.state = "filling"
<1>1. ASSUME Told, Told', Inputs, Inputs', Next
      PROVE  Kept
  <2>1. PICK s \in {0, 1} : Continues(Seen(bars'), Seen(bars), s) /\ Lost(bars') = Lost(bars) + s
    BY <1>1, SeenContinues DEF Told
  <2>2. /\ bars \in Seq(Candle) /\ bars # << >> /\ Seen(bars) \in Seq(Candle)
        /\ reading.atr \in Nat /\ FVGScanWindow \in Nat
        /\ digest = Build(Fetch(bars), reading)
        /\ AllShown(Seen(bars), digest.pivots)
    BY <1>1, DigestConstants DEF Inputs, AllShown
  <2>3. /\ bars' \in Seq(Candle) /\ bars' # << >> /\ Seen(bars') \in Seq(Candle)
        /\ reading'.atr \in Nat
        /\ digest' = Build(Fetch(bars'), reading')
        /\ AllShown(Seen(bars'), digest'.pivots)
    BY <1>1 DEF Inputs, AllShown
  <2>4. /\ digest.bos # NoBOS =>
              digest.bos = DetectBOSRetest(Seen(bars), digest.pivots, reading.atr, BOSScanWindow)
        /\ digest.gap # NoGap => digest.gap = DetectRecentFVG(Seen(bars), FVGScanWindow)
    BY <2>2, DigestParts
  <2>5. /\ digest'.bos # NoBOS =>
              digest'.bos = DetectBOSRetest(Seen(bars'), digest'.pivots, reading'.atr, BOSScanWindow)
        /\ digest'.gap # NoGap => digest'.gap = DetectRecentFVG(Seen(bars'), FVGScanWindow)
    BY <2>3, DigestParts
  <2>6. NoBOS.direction = "" /\ NoGap.direction = ""
    BY DEF NoBOS, NoGap
  <2>7. PICK a : a = digest.bos
    OBVIOUS
  <2>8. PICK b : b = digest'.bos
    OBVIOUS
  <2>14. Follows(Seen(bars'), Seen(bars), s)
    BY <2>1, <2>2, <2>3 DEF Follows
  <2>9. ASSUME a.direction # "", a.direction = b.direction, a.level = b.level,
               EventBar(a, bars) = EventBar(b, bars'), reading'.atr >= reading.atr
        PROVE  /\ a.state = "confirmed" => b.state = "confirmed"
               /\ a.state = "retesting" /\ a.age > 0 => b.state # "pending"
    <3>1. /\ a # NoBOS /\ b # NoBOS
          /\ a = DetectBOSRetest(Seen(bars), digest.pivots, reading.atr, BOSScanWindow)
          /\ b = DetectBOSRetest(Seen(bars'), digest'.pivots, reading'.atr, BOSScanWindow)
      <4>1. a # NoBOS /\ b # NoBOS
        BY <2>6, <2>9
      <4> QED  BY <2>4, <2>5, <2>7, <2>8, <4>1
    <3>2. InStep(a, Seen(bars), b, Seen(bars'), s)
      BY <2>1, <2>2, <2>3, <2>9, SameEventBar, Zenon
    <3>3. Wider(reading.atr, reading'.atr)
      BY <2>2, <2>3, <2>9 DEF Wider
    <3>4. PICK c, d, pv, qv : /\ c = Seen(bars) /\ d = Seen(bars')
                              /\ pv = digest.pivots /\ qv = digest'.pivots
      OBVIOUS
    <3>5. PICK atr, atr2, w : atr = reading.atr /\ atr2 = reading'.atr /\ w = BOSScanWindow
      OBVIOUS
    <3>6. /\ a # NoBOS /\ b # NoBOS /\ a = DetectBOSRetest(c, pv, atr, w)
          /\ b = DetectBOSRetest(d, qv, atr2, w)
          /\ InStep(a, c, b, d, s) /\ Wider(atr, atr2) /\ Follows(d, c, s)
          /\ AllShown(c, pv) /\ AllShown(d, qv)
          /\ a.direction = b.direction /\ a.level = b.level
      BY <2>14, <2>2, <2>3, <2>9, <3>1, <3>2, <3>3, <3>4, <3>5
    <3> QED  BY <3>6, BreakKept
  <2>10. PICK e : e = digest.gap
    OBVIOUS
  <2>11. PICK f : f = digest'.gap
    OBVIOUS
  <2>12. ASSUME e.direction # "", f.direction # "", EventBar(e, bars) = EventBar(f, bars')
         PROVE  /\ e.direction = f.direction /\ e.top = f.top /\ e.bottom = f.bottom
                /\ e.state = "filling" => f.state = "filling"
    <3>1. /\ e # NoGap /\ f # NoGap
          /\ e = DetectRecentFVG(Seen(bars), FVGScanWindow)
          /\ f = DetectRecentFVG(Seen(bars'), FVGScanWindow)
      <4>1. e # NoGap /\ f # NoGap
        BY <2>6, <2>12
      <4> QED  BY <2>4, <2>5, <2>10, <2>11, <4>1
    <3>2. InStep(e, Seen(bars), f, Seen(bars'), s)
      BY <2>1, <2>2, <2>3, <2>12, SameEventBar, Zenon
    <3> QED  BY <2>14, <2>2, <3>1, <3>2, GapsAlike
  <2> QED  BY <2>7, <2>8, <2>9, <2>10, <2>11, <2>12
<1>2. Told /\ Told' /\ Inputs /\ Inputs' /\ [Next]_vars
        => [Kept]_vars
  BY <1>1
<1> HIDE DEF Kept
<1>3. Spec => [][Kept]_vars
  BY <1>2, AlwaysTold, AlwaysInputs, PTL DEF Spec
<1> QED  BY <1>3 DEF StructureNeverRegresses, Kept

-----------------------------------------------------------------------------
(* A failed breakout that is reported came back on a bar after its break, *)
(* so it is at most two bars younger than the window.                     *)
LEMMA FailureReported ==
    ASSUME NEW c \in Seq(Candle), NEW pv \in Seq(Shown), NEW maxAge \in Nat,
           NEW a, a = DetectFailedBreakout(c, pv, maxAge), a # NoFailure
    PROVE  \E i \in 1..Len(c) : a.age = Len(c) - i /\ i >= WindowStart(c, maxAge) + 1
<1> DEFINE n          == Len(c)
           w          == WindowStart(c, maxAge)
           breaks(k)  == {j \in w..n : ClosedThrough(c, pv[k], j)}
           backs(k)   == {j \in (Min(breaks(k)) + 1)..n : ClosedBack(c, pv[k], j)}
           failIdx(k) == Min(backs(k))
           found      == {k \in DOMAIN pv : breaks(k) # {} /\ backs(k) # {}}
           at         == [k \in found |-> failIdx(k)]
           best       == Freshest(at)
<1>1. found # {} /\ a.age = n - failIdx(best)
  BY DEF DetectFailedBreakout
<1>2. n \in Nat /\ Len(pv) \in Nat /\ DOMAIN pv = 1..Len(pv)
  OBVIOUS
<1>3. w \in Nat \ {0}
  <2>1. n - maxAge + 1 \in Int
    BY <1>2
  <2> QED  BY <2>1, MaxOfTwo DEF WindowStart
<1> HIDE DEF w
<1>4. ASSUME NEW k \in found PROVE failIdx(k) \in 1..n /\ failIdx(k) >= w + 1
  <2>1. breaks(k) # {} /\ backs(k) # {}
    OBVIOUS
  <2>2. breaks(k) \subseteq Nat /\ \A j \in breaks(k) : j >= w
    BY <1>2, <1>3
  <2>3. Min(breaks(k)) \in Nat /\ Min(breaks(k)) >= w
    <3> HIDE DEF breaks
    <3>1. Min(breaks(k)) \in breaks(k)
      BY <2>1, <2>2, MinIsLeast
    <3> QED  BY <2>2, <3>1
  <2> HIDE DEF breaks
  <2>4. backs(k) \subseteq Nat /\ \A j \in backs(k) : j \in 1..n /\ j >= w + 1
    BY <1>2, <1>3, <2>3
  <2>5. failIdx(k) \in backs(k)
    <3> HIDE DEF backs
    <3> QED  BY <2>1, <2>4, MinIsLeast
  <2> HIDE DEF backs, failIdx
  <2> QED  BY <2>4, <2>5
<1>5. found \subseteq 1..Len(pv)
  BY <1>2
<1> HIDE DEF failIdx, found, n
<1>6. at \in [found -> 1..n]
  BY <1>4
<1>7. best \in found
  <2> HIDE DEF at
  <2> QED  BY <1>1, <1>2, <1>5, <1>6, FreshestIsBest
<1> HIDE DEF best
<1>8. PICK i : i = failIdx(best) /\ i \in 1..n /\ i >= w + 1
  BY <1>4, <1>7
<1> QED  BY <1>1, <1>8 DEF n, w

(* An event inside the window is younger than the window is wide. *)
LEMMA AgeInWindow ==
    ASSUME NEW c \in Seq(Candle), NEW maxAge \in Nat, NEW x \in {0, 1},
           NEW i \in 1..Len(c), i >= WindowStart(c, maxAge) + x
    PROVE  Len(c) - i \in 0..(maxAge - 1 - x)
<1>1. PICK n \in Nat : n = Len(c)
  OBVIOUS
<1>2. n - maxAge + 1 \in Int /\ i \in Int /\ i <= n
  BY <1>1
<1>3. WindowStart(c, maxAge) = IF 1 >= n - maxAge + 1 THEN 1 ELSE n - maxAge + 1
  BY <1>1, <1>2, MaxOfTwo DEF WindowStart
<1>4. i >= n - maxAge + 1 + x
  <2>1. CASE 1 >= n - maxAge + 1
    BY <1>2, <1>3, <2>1
  <2>2. CASE ~(1 >= n - maxAge + 1)
    BY <1>2, <1>3, <2>2
  <2> QED  BY <2>1, <2>2
<1> QED  BY <1>1, <1>2, <1>4

(* The zone of a gap lies between the two bars that left it. *)
LEMMA GapHasAZone ==
    ASSUME NEW c \in Seq(Candle), NEW i \in 3..Len(c), BullGap(c, i) \/ BearGap(c, i)
    PROVE  GapAt(c, i).bottom < GapAt(c, i).top /\ GapAt(c, i).age = Len(c) - i
<1>1. c[i] \in Candle /\ c[i - 2] \in Candle
  <2>1. i \in 1..Len(c) /\ i - 2 \in 1..Len(c)
    OBVIOUS
  <2> QED  BY <2>1
<1>2. PICK lo \in Nat, hi \in Nat, lo2 \in Nat, hi2 \in Nat :
         lo = c[i].low /\ hi = c[i].high /\ lo2 = c[i - 2].low /\ hi2 = c[i - 2].high
  BY <1>1 DEF Candle
<1>3. (BullGap(c, i) <=> lo > hi2) /\ (BearGap(c, i) <=> hi < lo2)
  BY <1>2 DEF BullGap, BearGap
<1>4. /\ GapAt(c, i).bottom = (IF BullGap(c, i) THEN hi2 ELSE hi)
      /\ GapAt(c, i).top = (IF BullGap(c, i) THEN lo ELSE lo2)
      /\ GapAt(c, i).age = Len(c) - i
  BY <1>2 DEF GapAt
<1> QED  BY <1>2, <1>3, <1>4

(* Every value has its type and every event its place in the window it is  *)
(* looked for in, for any bars and windows; the bars stay in time order    *)
(* with their prices in order.                                             *)
THEOREM TypesHold == Spec => []TypeOK
<1>1. ASSUME History, Inputs, VerdictCurrent PROVE TypeOK
  <2>1. /\ bars \in Seq([time : Int, open : Nat, high : Nat, low : Nat, close : Nat])
        /\ bars[Len(bars)].time \in 1..MaxBars
        /\ reading \in Readings /\ summary \in [TFs -> Summaries]
        /\ Len(digest.pivots) <= PivotLimit
    BY <1>1 DEF History, Market, Candle, Timed, Inputs, VerdictCurrent
  <2>2. ASSUME NEW i \in DOMAIN bars
        PROVE  /\ bars[i].time = bars[1].time + i - 1
               /\ bars[i].low <= Min({bars[i].open, bars[i].close})
               /\ bars[i].high >= Max({bars[i].open, bars[i].close})
    <3>1. bars[i].time = bars[1].time + i - 1
      BY <1>1 DEF History, Timed
    <3>2. /\ bars[i].low <= Min({bars[i].open, bars[i].close})
          /\ Max({bars[i].open, bars[i].close}) <= bars[i].high
      BY <1>1 DEF History, Ordered
    <3> QED  BY <3>1, <3>2
  <2>3. PICK c \in Seq(Candle) : c = Seen(bars)
    BY <1>1 DEF Inputs
  <2>4. digest.pivots \in Seq(Shown)
        /\ \A m \in 1..Len(digest.pivots) : \E x \in 1..Len(c) : Shows(c, digest.pivots[m], x)
    BY <1>1, <2>3 DEF Inputs
  <2>5. /\ digest.bos # NoBOS =>
              digest.bos = DetectBOSRetest(c, digest.pivots, reading.atr, BOSScanWindow)
        /\ digest.failed # NoFailure =>
              digest.failed = DetectFailedBreakout(c, digest.pivots, BOSScanWindow)
        /\ digest.gap # NoGap => digest.gap = DetectRecentFVG(c, FVGScanWindow)
    BY <1>1, <2>3, DigestParts DEF Inputs
  <2>6. BOSScanWindow \in Nat /\ FVGScanWindow \in Nat
    BY DigestConstants
  <2>7. ASSUME digest.bos # NoBOS PROVE digest.bos.age \in 0..(BOSScanWindow - 1)
    <3>1. PICK k \in 1..Len(digest.pivots), i \in 1..Len(c) :
             Breaks(c, digest.pivots, reading.atr, BOSScanWindow, digest.bos, k, i)
      BY <2>3, <2>4, <2>5, <2>7, BreakReported
    <3>2. digest.bos.age = Len(c) - i /\ i >= WindowStart(c, BOSScanWindow)
      BY <3>1 DEF Breaks
    <3>3. WindowStart(c, BOSScanWindow) \in Int
      BY <2>3, <2>6, MaxOfTwo DEF WindowStart
    <3>4. i >= WindowStart(c, BOSScanWindow) + 0
      BY <3>2, <3>3
    <3>5. Len(c) - i \in 0..(BOSScanWindow - 1 - 0)
      BY <2>3, <2>6, <3>4, AgeInWindow
    <3> QED  BY <2>6, <3>2, <3>5
  <2>8. ASSUME digest.failed # NoFailure PROVE digest.failed.age \in 0..(BOSScanWindow - 2)
    <3>1. PICK i \in 1..Len(c) : /\ digest.failed.age = Len(c) - i
                                 /\ i >= WindowStart(c, BOSScanWindow) + 1
      BY <2>3, <2>4, <2>5, <2>6, <2>8, FailureReported
    <3>2. Len(c) - i \in 0..(BOSScanWindow - 1 - 1)
      BY <2>3, <2>6, <3>1, AgeInWindow
    <3> QED  BY <2>6, <3>1, <3>2
  <2>9. ASSUME digest.gap # NoGap
        PROVE  /\ digest.gap.bottom < digest.gap.top
               /\ digest.gap.age \in 0..(FVGScanWindow - 1)
    <3>1. PICK i \in 1..Len(c) : GapOf(c, FVGScanWindow, digest.gap, i)
      BY <2>3, <2>5, <2>6, <2>9, GapReported
    <3>2. /\ digest.gap = GapAt(c, i) /\ i >= 3 /\ i >= WindowStart(c, FVGScanWindow)
          /\ BullGap(c, i) \/ BearGap(c, i)
      BY <3>1 DEF GapOf
    <3>3. i \in 3..Len(c)
      BY <2>3, <3>2
    <3>4. digest.gap.bottom < digest.gap.top /\ digest.gap.age = Len(c) - i
      BY <2>3, <3>2, <3>3, GapHasAZone
    <3>5. WindowStart(c, FVGScanWindow) \in Int
      BY <2>3, <2>6, MaxOfTwo DEF WindowStart
    <3>6. i >= WindowStart(c, FVGScanWindow) + 0
      BY <3>2, <3>5
    <3>7. Len(c) - i \in 0..(FVGScanWindow - 1 - 0)
      BY <2>3, <2>6, <3>6, AgeInWindow
    <3> QED  BY <2>6, <3>4, <3>7
  <2> QED  BY <2>1, <2>2, <2>7, <2>8, <2>9 DEF TypeOK
<1> QED  BY <1>1, AlwaysHistory, AlwaysInputs, VerdictIsCurrent, PTL

-----------------------------------------------------------------------------
(* A name that is in one pair only has the other name of the pair as twin. *)
LEMMA TwinOf ==
    ASSUME NEW x, NEW y, <<x, y>> \in Twins,
           \A t \in Twins : t[1] \in {x, y} \/ t[2] \in {x, y} => t = <<x, y>>
    PROVE  Twin(x) = y /\ Twin(y) = x
<1>1. \A n \in {x, y} : {t \in Twins : n \in {t[1], t[2]}} = {<<x, y>>}
  OBVIOUS
<1>2. (CHOOSE t \in {<<x, y>>} : TRUE) = <<x, y>>
  OBVIOUS
<1> HIDE DEF Twins
<1>3. {t \in Twins : x \in {t[1], t[2]}} = {<<x, y>>} /\ {t \in Twins : y \in {t[1], t[2]}} = {<<x, y>>}
  BY <1>1
<1>4. Twin(x) = (IF x = <<x, y>>[1] THEN <<x, y>>[2] ELSE <<x, y>>[1])
  BY <1>2, <1>3 DEF Twin
<1>5. Twin(y) = (IF y = <<x, y>>[1] THEN <<x, y>>[2] ELSE <<x, y>>[1])
  BY <1>2, <1>3 DEF Twin
<1> QED  BY <1>4, <1>5

(* A name in no pair is its own twin. *)
LEMMA NoTwin ==
    ASSUME NEW x, \A t \in Twins : x # t[1] /\ x # t[2]
    PROVE  Twin(x) = x
  BY DEF Twin

(* Every pair of Twins is a pair of twins, and the other names the digest  *)
(* uses are their own.                                                     *)
IsTwin(x, y) == Twin(x) = y /\ Twin(y) = x

(* Every pair of names the digest has for the two directions is a pair of  *)
(* twins, and every other name is its own.                                 *)
LEMMA TwinTable ==
    /\ IsTwin("up", "down")
    /\ IsTwin("failed_up", "failed_down")
    /\ IsTwin("bull", "bear")
    /\ IsTwin("UP", "DOWN")
    /\ IsTwin("SH", "SL")
    /\ IsTwin("HH", "LL")
    /\ IsTwin("LH", "HL")
    /\ IsTwin("EH", "EL")
    /\ IsTwin("marubozu_bull", "marubozu_bear")
    /\ IsTwin("dragonfly_doji", "gravestone_doji")
    /\ IsTwin("hammer", "shooting_star")
    /\ IsTwin("engulfing_bull", "engulfing_bear")
    /\ IsTwin("piercing_line", "dark_cloud_cover")
    /\ IsTwin("tweezer_bottom", "tweezer_top")
    /\ IsTwin("harami_bull", "harami_bear")
    /\ IsTwin("morning_star", "evening_star")
    /\ IsTwin("three_white_soldiers", "three_black_crows")
    /\ IsTwin("", "")
    /\ IsTwin("doji", "doji")
    /\ IsTwin("spinning_top", "spinning_top")
    /\ IsTwin("normal", "normal")
    /\ IsTwin("inside_bar", "inside_bar")
    /\ IsTwin("FLAT", "FLAT")
<1>1. IsTwin("up", "down")
  BY TwinOf DEF Twins, IsTwin
<1>2. IsTwin("failed_up", "failed_down")
  BY TwinOf DEF Twins, IsTwin
<1>3. IsTwin("bull", "bear")
  BY TwinOf DEF Twins, IsTwin
<1>4. IsTwin("UP", "DOWN")
  BY TwinOf DEF Twins, IsTwin
<1>5. IsTwin("SH", "SL")
  BY TwinOf DEF Twins, IsTwin
<1>6. IsTwin("HH", "LL")
  BY TwinOf DEF Twins, IsTwin
<1>7. IsTwin("LH", "HL")
  BY TwinOf DEF Twins, IsTwin
<1>8. IsTwin("EH", "EL")
  BY TwinOf DEF Twins, IsTwin
<1>9. IsTwin("marubozu_bull", "marubozu_bear")
  BY TwinOf DEF Twins, IsTwin
<1>10. IsTwin("dragonfly_doji", "gravestone_doji")
  BY TwinOf DEF Twins, IsTwin
<1>11. IsTwin("hammer", "shooting_star")
  BY TwinOf DEF Twins, IsTwin
<1>12. IsTwin("engulfing_bull", "engulfing_bear")
  BY TwinOf DEF Twins, IsTwin
<1>13. IsTwin("piercing_line", "dark_cloud_cover")
  BY TwinOf DEF Twins, IsTwin
<1>14. IsTwin("tweezer_bottom", "tweezer_top")
  BY TwinOf DEF Twins, IsTwin
<1>15. IsTwin("harami_bull", "harami_bear")
  BY TwinOf DEF Twins, IsTwin
<1>16. IsTwin("morning_star", "evening_star")
  BY TwinOf DEF Twins, IsTwin
<1>17. IsTwin("three_white_soldiers", "three_black_crows")
  BY TwinOf DEF Twins, IsTwin
<1>18. IsTwin("", "")
  <2> DEFINE N == {"up", "down", "failed_up", "failed_down", "bull", "bear", "UP", "DOWN",
               "SH", "SL", "HH", "LL", "LH", "HL", "EH", "EL", "marubozu_bull",
               "marubozu_bear", "dragonfly_doji", "gravestone_doji", "hammer",
               "shooting_star", "engulfing_bull", "engulfing_bear", "piercing_line",
               "dark_cloud_cover", "tweezer_bottom", "tweezer_top", "harami_bull",
               "harami_bear", "morning_star", "evening_star", "three_white_soldiers",
               "three_black_crows"}
  <2>1. \A t \in Twins : t[1] \in N /\ t[2] \in N
    BY DEF Twins
  <2>2. "" \notin N
    OBVIOUS
  <2> HIDE DEF N
  <2>3. \A t \in Twins : "" # t[1] /\ "" # t[2]
    BY <2>1, <2>2
  <2> QED  BY <2>3, NoTwin DEF IsTwin
<1>19. IsTwin("doji", "doji")
  <2>1. \A t \in Twins : "doji" # t[1] /\ "doji" # t[2]
    BY DEF Twins
  <2> QED  BY <2>1, NoTwin DEF IsTwin
<1>20. IsTwin("spinning_top", "spinning_top")
  <2>1. \A t \in Twins : "spinning_top" # t[1] /\ "spinning_top" # t[2]
    BY DEF Twins
  <2> QED  BY <2>1, NoTwin DEF IsTwin
<1>21. IsTwin("normal", "normal")
  <2>1. \A t \in Twins : "normal" # t[1] /\ "normal" # t[2]
    BY DEF Twins
  <2> QED  BY <2>1, NoTwin DEF IsTwin
<1>22. IsTwin("inside_bar", "inside_bar")
  <2>1. \A t \in Twins : "inside_bar" # t[1] /\ "inside_bar" # t[2]
    BY DEF Twins
  <2> QED  BY <2>1, NoTwin DEF IsTwin
<1>23. IsTwin("FLAT", "FLAT")
  <2>1. \A t \in Twins : "FLAT" # t[1] /\ "FLAT" # t[2]
    BY DEF Twins
  <2> QED  BY <2>1, NoTwin DEF IsTwin
<1> QED  BY <1>1, <1>2, <1>3, <1>4, <1>5, <1>6, <1>7, <1>8, <1>9, <1>10, <1>11, <1>12, <1>13, <1>14, <1>15, <1>16, <1>17, <1>18, <1>19, <1>20, <1>21, <1>22, <1>23

-----------------------------------------------------------------------------
(* A bar with prices in order, each of which has a mirror image.           *)
Upright(b) ==
    /\ b \in Candle
    /\ 0 < b.low /\ b.high < MirrorPrice
    /\ b.low <= b.open /\ b.low <= b.close /\ b.open <= b.high /\ b.close <= b.high

(* Bars that are each other's image. *)
Facing(b, e) ==
    /\ Upright(b) /\ Upright(e) /\ b.time = e.time
    /\ b.open + e.open = MirrorPrice /\ b.close + e.close = MirrorPrice
    /\ b.high + e.low = MirrorPrice /\ b.low + e.high = MirrorPrice

(* Series that are. *)
Reflects(c, d) ==
    /\ c \in Seq(Candle) /\ d \in Seq(Candle) /\ Len(c) = Len(d)
    /\ \A i \in 1..Len(c) : Facing(c[i], d[i])

(* It does not matter which of the two is the image. *)
LEMMA ReflectsBack ==
    ASSUME NEW c, NEW d, Reflects(c, d)
    PROVE  Reflects(d, c)
<1>1. ASSUME NEW b, NEW e, Facing(b, e) PROVE Facing(e, b)
  <2>1. b \in Candle /\ e \in Candle
    BY <1>1 DEF Facing, Upright
  <2> QED  BY <1>1, <2>1 DEF Facing, Candle
<1> QED  BY <1>1 DEF Reflects

(* MirrorCandle makes the image of a bar. *)
LEMMA MirrorFaces ==
    ASSUME NEW b, Upright(b)
    PROVE  Facing(b, MirrorCandle(b))
<1>1. /\ b \in Candle /\ MirrorPrice \in Nat /\ b.time \in Int
      /\ b.open \in Nat /\ b.high \in Nat /\ b.low \in Nat /\ b.close \in Nat
  BY MirrorConstants DEF Upright, Candle
<1>2. /\ 0 < b.low /\ b.high < MirrorPrice
      /\ b.low <= b.open /\ b.low <= b.close /\ b.open <= b.high /\ b.close <= b.high
  BY DEF Upright
<1>3. /\ Flip(b.open) = MirrorPrice - b.open /\ Flip(b.close) = MirrorPrice - b.close
      /\ Flip(b.high) = MirrorPrice - b.high /\ Flip(b.low) = MirrorPrice - b.low
  BY <1>1, <1>2 DEF Flip
<1>4. /\ MirrorPrice - b.open \in Nat /\ MirrorPrice - b.close \in Nat
      /\ MirrorPrice - b.high \in Nat /\ MirrorPrice - b.low \in Nat
  BY <1>1, <1>2
<1>5. PICK e : e = MirrorCandle(b)
  OBVIOUS
<1>6. /\ e.time = b.time /\ e.open = MirrorPrice - b.open /\ e.close = MirrorPrice - b.close
      /\ e.high = MirrorPrice - b.low /\ e.low = MirrorPrice - b.high
      /\ e \in Candle
  BY <1>1, <1>3, <1>4, <1>5 DEF MirrorCandle, Candle
<1>7. Upright(e)
  BY <1>1, <1>2, <1>6 DEF Upright
<1> QED  BY <1>1, <1>5, <1>6, <1>7 DEF Facing

(* The mirror image of a series reflects it.                               *)
LEMMA MirrorReflects ==
    ASSUME NEW f \in Seq(Candle), \A i \in 1..Len(f) : Upright(f[i])
    PROVE  Reflects(f, [i \in DOMAIN f |-> MirrorCandle(f[i])])
<1> DEFINE g == [i \in DOMAIN f |-> MirrorCandle(f[i])]
<1>1. PICK n \in Nat : n = Len(f) /\ DOMAIN f = 1..n
  OBVIOUS
<1>2. g = [i \in 1..n |-> MirrorCandle(f[i])]
  BY <1>1
<1>3. \A i \in 1..n : Facing(f[i], MirrorCandle(f[i]))
  BY <1>1, MirrorFaces
<1>4. \A i \in 1..n : MirrorCandle(f[i]) \in Candle
  BY <1>3 DEF Facing, Upright
<1> HIDE DEF g
<1>5. g \in Seq(Candle) /\ Len(g) = n /\ \A i \in 1..n : g[i] = MirrorCandle(f[i])
  BY <1>1, <1>2, <1>4
<1> QED  BY <1>1, <1>3, <1>5 DEF Reflects, g

(* The first m elements of a sequence. *)
LEMMA PrefixOf ==
    ASSUME NEW T, NEW s \in Seq(T), NEW m \in Nat, m <= Len(s)
    PROVE  /\ SubSeq(s, 1, m) \in Seq(T) /\ Len(SubSeq(s, 1, m)) = m
           /\ \A i \in 1..m : SubSeq(s, 1, m)[i] = s[i] /\ i \in 1..Len(s)
<1>1. \A i \in 1..m : i \in 1..Len(s) /\ s[i] \in T
  OBVIOUS
<1> QED  BY <1>1

(* The closed bars of the image of a series are the image of its closed    *)
(* bars.                                                                   *)
LEMMA ClosedReflects ==
    ASSUME NEW f, NEW g, Reflects(f, g)
    PROVE  Reflects(ClosedCandles(f), ClosedCandles(g))
<1>1. PICK n \in Nat : /\ n = Len(f) /\ n = Len(g) /\ f \in Seq(Candle) /\ g \in Seq(Candle)
                       /\ \A i \in 1..n : Facing(f[i], g[i])
  BY DEF Reflects
<1>2. CASE n < 2
  <2>1. ClosedCandles(f) = << >> /\ ClosedCandles(g) = << >>
    BY <1>1, <1>2 DEF ClosedCandles
  <2> QED  BY <2>1 DEF Reflects
<1>3. CASE ~(n < 2)
  <2>1. PICK m \in Nat : m = n - 1 /\ m <= Len(f) /\ m <= Len(g)
    BY <1>1, <1>3
  <2>2. ClosedCandles(f) = SubSeq(f, 1, m) /\ ClosedCandles(g) = SubSeq(g, 1, m)
    BY <1>1, <1>3, <2>1 DEF ClosedCandles, Front
  <2>3. /\ SubSeq(f, 1, m) \in Seq(Candle) /\ Len(SubSeq(f, 1, m)) = m
        /\ \A i \in 1..m : SubSeq(f, 1, m)[i] = f[i] /\ i \in 1..n
    BY <1>1, <2>1, PrefixOf
  <2>4. /\ SubSeq(g, 1, m) \in Seq(Candle) /\ Len(SubSeq(g, 1, m)) = m
        /\ \A i \in 1..m : SubSeq(g, 1, m)[i] = g[i] /\ i \in 1..n
    BY <1>1, <2>1, PrefixOf
  <2> QED  BY <1>1, <2>2, <2>3, <2>4 DEF Reflects
<1> QED  BY <1>2, <1>3
-----------------------------------------------------------------------------
(* Every bar of the market has a mirror image. *)
Prices == Market /\ \A i \in 1..Len(bars) : Upright(bars[i])

(* A bar of any shape or opening keeps its prices below MirrorPrice and in *)
(* order.                                                                  *)
LEMMA BarUpright ==
    ASSUME NEW t \in Int, NEW s, s \in Shapes \/ s \in Openings
    PROVE  Upright(Bar(t, s))
<1>1. Bar(t, s) \in Candle
  BY BarTyped
<1>2. ASSUME NEW q \in Shapes
      PROVE  /\ q.open \in Nat /\ q.high \in Nat /\ q.low \in Nat /\ q.close \in Nat
             /\ 0 < q.low /\ q.high < MirrorPrice /\ 0 < q.open /\ q.open < MirrorPrice
             /\ q.low <= q.open /\ q.low <= q.close /\ q.open <= q.high /\ q.close <= q.high
  <2>1. /\ q.open \in Nat /\ q.high \in Nat /\ q.low \in Nat /\ q.close \in Nat
        /\ q.low <= Min({q.open, q.close}) /\ Max({q.open, q.close}) <= q.high
    BY DigestConstants
  <2>2. /\ Min({q.open, q.close}) = IF q.open <= q.close THEN q.open ELSE q.close
        /\ Max({q.open, q.close}) = IF q.open >= q.close THEN q.open ELSE q.close
    BY <2>1, MinOfTwo, MaxOfTwo
  <2>3. q.open \in 1..(MirrorPrice - 1) /\ q.low \in 1..(MirrorPrice - 1) /\ q.high \in 1..(MirrorPrice - 1)
        /\ MirrorPrice \in Nat
    BY MirrorConstants
  <2>4. 0 < q.low /\ q.high < MirrorPrice /\ 0 < q.open /\ q.open < MirrorPrice
    BY <2>3
  <2>5. q.low <= q.open /\ q.low <= q.close
    BY <2>1, <2>2
  <2>6. q.open <= q.high /\ q.close <= q.high
    BY <2>1, <2>2
  <2> QED  BY <2>1, <2>4, <2>5, <2>6
<1>3. CASE s \in Shapes
  BY <1>1, <1>2, <1>3 DEF Upright, Bar
<1>4. CASE s \in Openings
  <2>1. PICK q \in Shapes : s = Opening(q.open)
    BY <1>4 DEF Openings
  <2>2. PICK p \in Nat : p = q.open /\ 0 < p /\ p < MirrorPrice
    BY <1>2
  <2>3. LET b == Bar(t, s)
        IN  b.low = p /\ b.high = p /\ b.open = p /\ b.close = p
    BY <2>1, <2>2 DEF Bar, Opening
  <2> QED  BY <1>1, <2>2, <2>3 DEF Upright
<1> QED  BY <1>3, <1>4

(* No step makes a price without an image. *)
LEMMA AlwaysPrices == Spec => []Prices
<1>1. Init => Prices
  <2> SUFFICES ASSUME Init PROVE Prices
    OBVIOUS
  <2>0. Market
    BY InitMarket
  <2>1. PICK h \in Histories, s \in Openings : bars = Append(Past(h), Bar(1, s))
    BY DEF Init
  <2>2. PICK n \in Nat : n = Len(h) /\ DOMAIN h = 1..n /\ \A i \in 1..n : h[i] \in Shapes
    <3>1. h \in Seq(Shapes)
      BY DigestConstants
    <3> QED  BY <3>1
  <2>3. Past(h) = [i \in 1..n |-> Bar(i - n, h[i])]
    BY <2>2 DEF Past
  <2>4. \A i \in 1..n : i - n \in Int
    BY <2>2
  <2>5. \A i \in 1..n : Upright(Past(h)[i])
    BY <2>2, <2>3, <2>4, BarUpright
  <2>6. Past(h) \in Seq({Bar(i - n, h[i]) : i \in 1..n}) /\ Len(Past(h)) = n
    BY <2>2, <2>3
  <2>7. /\ Len(bars) = n + 1 /\ bars[n + 1] = Bar(1, s)
        /\ \A i \in 1..n : bars[i] = Past(h)[i]
    BY <2>1, <2>2, <2>6
  <2>8. Upright(Bar(1, s))
    BY BarUpright
  <2>9. ASSUME NEW i \in 1..(n + 1) PROVE Upright(bars[i])
    BY <2>2, <2>5, <2>7, <2>8
  <2> QED  BY <2>0, <2>7, <2>9 DEF Prices
<1>2. Prices /\ [Next]_vars => Prices'
  <2> SUFFICES ASSUME Prices, [Next]_vars PROVE Prices'
    OBVIOUS
  <2>1. /\ bars \in Seq(Candle) /\ Len(bars) \in Nat \ {0}
        /\ bars[Len(bars)].time \in Int /\ \A i \in 1..Len(bars) : Upright(bars[i])
    <3>1. bars \in Seq(Candle) /\ Len(bars) \in Nat \ {0} /\ \A i \in 1..Len(bars) : Upright(bars[i])
      BY DEF Prices, Market
    <3>2. bars[Len(bars)] \in Candle
      BY <3>1
    <3> QED  BY <3>1, <3>2 DEF Candle
  <2>2. PICK n \in Nat \ {0} : n = Len(bars)
    BY <2>1
  <2>3. CASE Tick
    <3>1. PICK s \in Shapes : bars' = [bars EXCEPT ![n] = Bar(bars[n].time, s)]
      BY <2>2, <2>3 DEF Tick
    <3>2. Upright(Bar(bars[n].time, s))
      BY <2>1, <2>2, BarUpright
    <3>3. /\ Len(bars') = n
          /\ \A i \in 1..n : bars'[i] = IF i = n THEN Bar(bars[n].time, s) ELSE bars[i]
      BY <2>1, <2>2, <3>1
    <3>4. \A i \in 1..n : Upright(bars'[i])
      BY <2>1, <2>2, <3>2, <3>3
    <3>5. Market'
      BY <2>3, TickKeepsClosed DEF Prices
    <3> QED  BY <3>3, <3>4, <3>5 DEF Prices
  <2>4. CASE CloseBar
    <3>1. PICK s \in Openings : bars' = Append(bars, Bar(bars[n].time + 1, s))
      BY <2>2, <2>4 DEF CloseBar
    <3>2. Upright(Bar(bars[n].time + 1, s))
      BY <2>1, <2>2, BarUpright
    <3>3. /\ Len(bars') = n + 1 /\ bars'[n + 1] = Bar(bars[n].time + 1, s)
          /\ \A i \in 1..n : bars'[i] = bars[i]
      BY <2>1, <2>2, <3>1
    <3>4. Market'
      BY <2>4, CloseBarCloses DEF Prices
    <3>5. \A i \in 1..(n + 1) : Upright(bars'[i])
      BY <2>1, <2>2, <3>2, <3>3
    <3> QED  BY <3>3, <3>4, <3>5 DEF Prices
  <2>5. CASE Reclassify \/ UNCHANGED vars
    BY <2>5 DEF Reclassify, vars, Prices, Market
  <2> QED  BY <2>3, <2>4, <2>5 DEF Next
<1> QED  BY <1>1, <1>2, PTL DEF Spec

(* The bars the exchange returns are bars of the market. *)
LEMMA FetchedUpright ==
    ASSUME NEW h \in Seq(Candle), \A i \in 1..Len(h) : Upright(h[i])
    PROVE  Fetch(h) \in Seq(Candle) /\ \A i \in 1..Len(Fetch(h)) : Upright(Fetch(h)[i])
<1>1. Fetch(h) = LastOf(h, FetchLimit)
  BY Zenon DEF Fetch, LastOf, LastFrom
<1>2. PICK t : t = Fetch(h)
  OBVIOUS
<1>3. PICK from : from = LastFrom(h, FetchLimit)
  OBVIOUS
<1>4. FetchLimit \in Nat \ {0}
  BY DigestConstants
<1>5. t \in Seq(Candle) /\ \A i \in 1..Len(t) : i + from - 1 \in 1..Len(h) /\ t[i] = h[i + from - 1]
  BY <1>1, <1>2, <1>3, <1>4, TailOf
<1> QED  BY <1>2, <1>5

-----------------------------------------------------------------------------
(* Pivots of a series and of its image.                                    *)
Opposite(type) == IF type = "SH" THEN "SL" ELSE "SH"

Mid(c) == (LeftRight + 1)..(Len(c) - LeftRight)

(* A high is confirmed where the image has a low, and the other way round. *)
LEMMA ConfirmsFacing ==
    ASSUME NEW c, NEW d, Reflects(c, d), NEW i \in Mid(c), NEW type \in {"SH", "SL"},
           Confirms(c, i, type)
    PROVE  Confirms(d, i, Opposite(type))
<1>1. PICK n \in Nat : /\ n = Len(c) /\ n = Len(d) /\ \A j \in 1..n : Facing(c[j], d[j])
  BY DEF Reflects
<1>2. PICK r \in Nat : r = LeftRight /\ i \in (r + 1)..(n - r) /\ r > 0
  BY <1>1, DigestConstants DEF Mid
<1>3. \A j \in (i - r)..(i + r) : j \in 1..n
  BY <1>1, <1>2
<1>4. \A j \in 1..n : /\ c[j].high \in Nat /\ c[j].low \in Nat /\ d[j].high \in Nat /\ d[j].low \in Nat
                      /\ c[j].high + d[j].low = MirrorPrice /\ c[j].low + d[j].high = MirrorPrice
  BY <1>1 DEF Facing, Upright, Candle
<1>5. i \in 1..n
  BY <1>2
<1>6. \A j \in 1..n : /\ c[j].high < c[i].high => d[j].low > d[i].low
                      /\ c[j].low > c[i].low => d[j].high < d[i].high
  BY <1>4, <1>5
<1>7. CASE type = "SH"
  <2>1. \A j \in (i - r)..(i + r) : j # i => c[j].high < c[i].high
    BY <1>2, <1>7 DEF Confirms, isPivotHigh
  <2>2. \A j \in (i - r)..(i + r) : j # i => d[j].low > d[i].low
    BY <1>3, <1>6, <2>1
  <2> QED  BY <1>2, <1>7, <2>2 DEF Confirms, isPivotLow, Opposite
<1>8. CASE type = "SL"
  <2>1. \A j \in (i - r)..(i + r) : j # i => c[j].low > c[i].low
    BY <1>2, <1>8 DEF Confirms, isPivotLow
  <2>2. \A j \in (i - r)..(i + r) : j # i => d[j].high < d[i].high
    BY <1>3, <1>6, <2>1
  <2> QED  BY <1>2, <1>8, <2>2 DEF Confirms, isPivotHigh, Opposite
<1> QED  BY <1>7, <1>8

(* The opposite of the opposite kind of pivot is the kind itself.          *)
LEMMA OppositeTwice ==
    ASSUME NEW type \in {"SH", "SL"}
    PROVE  Opposite(type) \in {"SH", "SL"} /\ Opposite(Opposite(type)) = type /\ Opposite(type) = Twin(type)
  BY TwinTable DEF Opposite, IsTwin

(* The levels of a bar and of its image add up to MirrorPrice. *)
LEMMA LevelFacing ==
    ASSUME NEW c, NEW d, Reflects(c, d), NEW i \in 1..Len(c), NEW type \in {"SH", "SL"}
    PROVE  /\ Level(c, i, type) \in Nat /\ Level(d, i, Opposite(type)) \in Nat
           /\ Level(c, i, type) > 0 /\ Level(d, i, Opposite(type)) > 0
           /\ Level(c, i, type) + Level(d, i, Opposite(type)) = MirrorPrice
<1>1. Facing(c[i], d[i])
  BY DEF Reflects
<1>2. PICK b, e : b = c[i] /\ e = d[i]
  OBVIOUS
<1>3. /\ b.high \in Nat /\ b.low \in Nat /\ e.high \in Nat /\ e.low \in Nat
      /\ b.high + e.low = MirrorPrice /\ b.low + e.high = MirrorPrice
  BY <1>1, <1>2 DEF Facing, Upright, Candle
<1>4. b.low > 0 /\ e.low > 0 /\ b.high > 0 /\ e.high > 0
  <2>1. /\ 0 < b.low /\ 0 < e.low /\ b.low <= b.open /\ b.open <= b.high /\ e.low <= e.open /\ e.open <= e.high
        /\ b.open \in Nat /\ e.open \in Nat
    BY <1>1, <1>2 DEF Facing, Upright, Candle
  <2>2. b.low < b.high \/ b.low = b.high
    BY <1>3, <2>1
  <2>3. e.low < e.high \/ e.low = e.high
    BY <1>3, <2>1
  <2> QED  BY <1>3, <2>1, <2>2, <2>3
<1>5. CASE type = "SH"
  BY <1>2, <1>3, <1>4, <1>5 DEF Level, Opposite
<1>6. CASE type = "SL"
  BY <1>2, <1>3, <1>4, <1>6 DEF Level, Opposite
<1> QED  BY <1>5, <1>6

(* The same bars come before. *)
LEMMA EarlierFacing ==
    ASSUME NEW c, NEW d, Reflects(c, d), NEW b \in Mid(c), NEW type \in {"SH", "SL"}
    PROVE  Earlier(c, b, type) = Earlier(d, b, Opposite(type))
<1>0. Reflects(d, c)
  BY ReflectsBack
<1>1. Reflects(d, c) /\ Len(c) = Len(d) /\ Len(c) \in Nat /\ LeftRight \in Nat
  BY <1>0, DigestConstants DEF Reflects
<1>2. \A h \in (LeftRight + 1)..(b - 1) : h \in Mid(c) /\ h \in Mid(d)
  BY <1>1 DEF Mid
<1>3. Opposite(type) \in {"SH", "SL"} /\ Opposite(Opposite(type)) = type
  BY OppositeTwice
<1>4. ASSUME NEW h \in (LeftRight + 1)..(b - 1)
      PROVE  Confirms(c, h, type) <=> Confirms(d, h, Opposite(type))
  <2>1. h \in Mid(c) /\ h \in Mid(d)
    BY <1>2
  <2>2. Confirms(c, h, type) => Confirms(d, h, Opposite(type))
    BY <2>1, ConfirmsFacing
  <2>3. Confirms(d, h, Opposite(type)) => Confirms(c, h, Opposite(Opposite(type)))
    BY <1>1, <1>3, <2>1, ConfirmsFacing
  <2> QED  BY <1>3, <2>2, <2>3
<1> QED  BY <1>4 DEF Earlier

(* The label of the image is the twin of the label. *)
LEMMA LabelFacing ==
    ASSUME NEW c, NEW d, Reflects(c, d), NEW b \in Mid(c), NEW type \in {"SH", "SL"}
    PROVE  LabelAt(d, b, Opposite(type)) = Twin(LabelAt(c, b, type))
<1>1. Len(c) \in Nat /\ LeftRight \in Nat
  BY DigestConstants DEF Reflects
<1>2. b \in 1..Len(c)
  BY <1>1 DEF Mid
<1> DEFINE E == Earlier(c, b, type)
<1>3. Earlier(d, b, Opposite(type)) = E
  BY EarlierFacing
<1>4. CASE E = {}
  <2>1. LabelAt(c, b, type) = "" /\ LabelAt(d, b, Opposite(type)) = ""
    BY <1>3, <1>4 DEF LabelAt
  <2> QED  BY <2>1, TwinTable DEF IsTwin
<1>5. CASE E # {}
  <2>1. E \subseteq 1..Len(c)
    BY <1>1, <1>2 DEF Earlier
  <2>2. Max(E) \in 1..Len(c)
    BY <1>1, <1>5, <2>1, MaxIsGreatest
  <2>3. PICK h \in 1..Len(c) : h = Max(E)
    BY <2>2
  <2>4. /\ LabelAt(c, b, type) = Compared(Level(c, b, type), Level(c, h, type), type)
        /\ LabelAt(d, b, Opposite(type))
             = Compared(Level(d, b, Opposite(type)), Level(d, h, Opposite(type)), Opposite(type))
    BY <1>3, <1>5, <2>3 DEF LabelAt
  <2>5. PICK x \in Nat, y \in Nat, u \in Nat, v \in Nat :
           /\ x = Level(c, b, type) /\ y = Level(c, h, type)
           /\ u = Level(d, b, Opposite(type)) /\ v = Level(d, h, Opposite(type))
           /\ x + u = MirrorPrice /\ y + v = MirrorPrice
    BY <1>2, LevelFacing
  <2>6. (x > y <=> u < v) /\ (x < y <=> u > v)
    BY <2>5
  <2>7. Compared(u, v, Opposite(type)) = Twin(Compared(x, y, type))
    <3>1. /\ Twin("HH") = "LL" /\ Twin("LL") = "HH" /\ Twin("LH") = "HL" /\ Twin("HL") = "LH"
          /\ Twin("EH") = "EL" /\ Twin("EL") = "EH"
      BY TwinTable DEF IsTwin
    <3> DEFINE more == x > y
               less == x < y
    <3>2. (u < v <=> more) /\ (u > v <=> less) /\ ~(more /\ less)
      BY <2>5, <2>6
    <3>3. Compared(x, y, type) = IF more THEN IF type = "SH" THEN "HH" ELSE "HL"
                                 ELSE IF less THEN IF type = "SH" THEN "LH" ELSE "LL"
                                 ELSE IF type = "SH" THEN "EH" ELSE "EL"
      BY DEF Compared
    <3>4. Compared(u, v, Opposite(type))
            = IF less THEN IF type = "SL" THEN "HH" ELSE "HL"
              ELSE IF more THEN IF type = "SL" THEN "LH" ELSE "LL"
              ELSE IF type = "SL" THEN "EH" ELSE "EL"
      BY <3>2 DEF Compared, Opposite
    <3> HIDE DEF more, less
    <3>6. CASE type = "SH"
      BY <3>1, <3>2, <3>3, <3>4, <3>6
    <3>7. CASE type = "SL"
      BY <3>1, <3>2, <3>3, <3>4, <3>7
    <3> QED  BY <3>6, <3>7
  <2> QED  BY <2>4, <2>5, <2>7
<1> QED  BY <1>4, <1>5

-----------------------------------------------------------------------------
(* Pivots that are each other's image. *)
Image(p, q) ==
    /\ p.time = q.time /\ p.type \in {"SH", "SL"} /\ q.type = Opposite(p.type)
    /\ p.price \in Nat /\ q.price \in Nat /\ p.price > 0 /\ q.price > 0
    /\ p.price + q.price = MirrorPrice
    /\ q.label = Twin(p.label)

(* A list of all pivots of the bars of a series from bar s on.             *)
Listing(c, s, v) ==
    /\ v \in Seq(Shown)
    /\ \A m \in 1..Len(v) : \E i \in Mid(c) : i >= s /\ Shows(c, v[m], i)
    /\ \A m, x \in 1..Len(v) :
           m < x => \/ v[m].time < v[x].time
                    \/ v[m].time = v[x].time /\ v[m].type = "SH" /\ v[x].type = "SL"
    /\ \A type \in {"SH", "SL"} : \A i \in Mid(c) :
           i >= s /\ Confirms(c, i, type) =>
              \E m \in 1..Len(v) : v[m].type = type /\ v[m].time = c[i].time

(* A list of the newest pivots of a series, as many as the limit allows.   *)
Latest(c, limit, v) ==
    /\ v \in Seq(Shown) /\ Len(v) <= limit
    /\ \A m \in 1..Len(v) : \E i \in Mid(c) : Shows(c, v[m], i)
    /\ \A m, x \in 1..Len(v) :
           m < x => \/ v[m].time < v[x].time
                    \/ v[m].time = v[x].time /\ v[m].type = "SH" /\ v[x].type = "SL"
    /\ \A type \in {"SH", "SL"} : \A i \in Mid(c) :
           /\ Confirms(c, i, type)
           /\ \/ Len(v) < limit
              \/ \E x \in 1..Len(v) : ListedAfter(c, v[x], i, type)
           => \E m \in 1..Len(v) : v[m].type = type /\ v[m].time = c[i].time

(* The pivots that survive the limit are the newest: they lie at interior  *)
(* bars that confirm them, in order, at most as many as allowed, with      *)
(* every confirmed pivot that comes after one of them; and where the list  *)
(* is shorter than its limit, all of them.                                 *)
LEMMA RecentIsLatest ==
    ASSUME NEW c \in Seq(Candle), NEW t0 \in Int, Dated(c, t0), NEW limit \in Nat,
           NEW v, v = RecentPivots(c, LeftRight, limit)
    PROVE  Latest(c, limit, v)
<1> DEFINE u == RecentPivots(c, LeftRight, limit)
<1>0. /\ u \in Seq(Shown) /\ Len(u) <= limit
      /\ \A m \in 1..Len(u) : \E i \in 1..Len(c) : Shows(c, u[m], i)
      /\ \A m, x \in 1..Len(u) :
             m < x => \/ u[m].time < u[x].time
                      \/ u[m].time = u[x].time /\ u[m].type = "SH" /\ u[x].type = "SL"
      /\ Len(u) < limit =>
           \A type \in {"SH", "SL"} : \A i \in (LeftRight + 1)..(Len(c) - LeftRight) :
             Confirms(c, i, type) =>
                \E m \in 1..Len(u) : u[m].type = type /\ u[m].time = c[i].time
      /\ \A x \in 1..Len(u) : \A type \in {"SH", "SL"} :
           \A i \in (LeftRight + 1)..(Len(c) - LeftRight) :
              Confirms(c, i, type) /\ ListedAfter(c, u[x], i, type) =>
                 \E m \in 1..Len(u) : u[m].type = type /\ u[m].time = c[i].time
  BY PivotsShown
<1>v. v = u
  OBVIOUS
<1> HIDE DEF u
<1>1. /\ v \in Seq(Shown) /\ Len(v) <= limit
      /\ \A m \in 1..Len(v) : \E i \in 1..Len(c) : Shows(c, v[m], i)
      /\ \A m, x \in 1..Len(v) :
             m < x => \/ v[m].time < v[x].time
                      \/ v[m].time = v[x].time /\ v[m].type = "SH" /\ v[x].type = "SL"
  BY <1>0, <1>v
<1>2. \A type \in {"SH", "SL"} : \A i \in Mid(c) :
           /\ Confirms(c, i, type)
           /\ \/ Len(v) < limit
              \/ \E x \in 1..Len(v) : ListedAfter(c, v[x], i, type)
           => \E m \in 1..Len(v) : v[m].type = type /\ v[m].time = c[i].time
  <2> SUFFICES ASSUME NEW type \in {"SH", "SL"}, NEW i \in Mid(c), Confirms(c, i, type),
                      Len(v) < limit \/ \E x \in 1..Len(v) : ListedAfter(c, v[x], i, type)
               PROVE  \E m \in 1..Len(v) : v[m].type = type /\ v[m].time = c[i].time
    OBVIOUS
  <2>1. i \in (LeftRight + 1)..(Len(c) - LeftRight)
    BY DEF Mid
  <2>2. CASE Len(v) < limit
    <3>1. \A ty \in {"SH", "SL"} : \A j \in (LeftRight + 1)..(Len(c) - LeftRight) :
            Confirms(c, j, ty) => \E m \in 1..Len(u) : u[m].type = ty /\ u[m].time = c[j].time
      BY <1>0, <1>v, <2>2, Zenon
    <3>2. \E m \in 1..Len(u) : u[m].type = type /\ u[m].time = c[i].time
      BY <2>1, <3>1
    <3> QED  BY <1>v, <3>2
  <2>3. CASE \E x \in 1..Len(v) : ListedAfter(c, v[x], i, type)
    <3>1. PICK x \in 1..Len(u) : ListedAfter(c, u[x], i, type)
      BY <1>v, <2>3
    <3>2. \E m \in 1..Len(u) : u[m].type = type /\ u[m].time = c[i].time
      <4>1. \A y \in 1..Len(u) : \A ty \in {"SH", "SL"} :
              \A j \in (LeftRight + 1)..(Len(c) - LeftRight) :
                 Confirms(c, j, ty) /\ ListedAfter(c, u[y], j, ty) =>
                    \E m \in 1..Len(u) : u[m].type = ty /\ u[m].time = c[j].time
        BY <1>0, Zenon
      <4>2. Confirms(c, i, type)
        OBVIOUS
      <4> QED  BY <2>1, <3>1, <4>1, <4>2
    <3> QED  BY <1>v, <3>2
  <2> QED  BY <2>2, <2>3
<1>3. \A p, i : Shows(c, p, i) => i \in Mid(c)
  BY DEF Shows, Mid
<1> QED  BY <1>1, <1>2, <1>3 DEF Latest

(* A list below its limit is one of the whole series. *)
LEMMA ShortListing ==
    ASSUME NEW c, NEW limit \in Nat, NEW v, Latest(c, limit, v), Len(v) < limit
    PROVE  Listing(c, 1, v)
<1>1. \A i \in Mid(c) : i >= 1
  <2>1. LeftRight \in Nat
    BY DigestConstants
  <2> QED  BY <2>1 DEF Mid
<1> QED  BY <1>1 DEF Latest, Listing

(* The image is dated alike. *)
LEMMA DatedFacing ==
    ASSUME NEW c, NEW d, Reflects(c, d), NEW t0, Dated(c, t0)
    PROVE  Dated(d, t0)
  BY DEF Reflects, Facing, Dated

(* The pivots of one bar and its image are each other's image. *)
LEMMA ImageOfBar ==
    ASSUME NEW c, NEW d, Reflects(c, d), NEW i \in Mid(c),
           NEW p, Shows(c, p, i), NEW q, Shows(d, q, i), q.type = Opposite(p.type)
    PROVE  Image(p, q)
<1>1. Len(c) \in Nat /\ LeftRight \in Nat
  BY DigestConstants DEF Reflects
<1>2. i \in 1..Len(c)
  BY <1>1 DEF Mid
<1>3. /\ p.type \in {"SH", "SL"} /\ p.time = c[i].time /\ q.time = d[i].time
      /\ p.price = Level(c, i, p.type) /\ q.price = Level(d, i, Opposite(p.type))
      /\ p.label = LabelAt(c, i, p.type) /\ q.label = LabelAt(d, i, Opposite(p.type))
  BY DEF Shows
<1>4. c[i].time = d[i].time
  BY <1>2 DEF Reflects, Facing
<1>5. LabelAt(d, i, Opposite(p.type)) = Twin(LabelAt(c, i, p.type))
  BY <1>3, LabelFacing
<1>6. /\ Level(c, i, p.type) \in Nat /\ Level(d, i, Opposite(p.type)) \in Nat
      /\ Level(c, i, p.type) > 0 /\ Level(d, i, Opposite(p.type)) > 0
      /\ Level(c, i, p.type) + Level(d, i, Opposite(p.type)) = MirrorPrice
  BY <1>2, <1>3, LevelFacing
<1> QED  BY <1>3, <1>4, <1>5, <1>6 DEF Image

(* Every pivot of a series has its image in a full list of the other. *)
LEMMA HasImage ==
    ASSUME NEW c, NEW d, Reflects(c, d), NEW t0 \in Int, Dated(c, t0),
           NEW s, NEW w, Listing(d, s, w), NEW p, NEW i \in Mid(c), i >= s, Shows(c, p, i)
    PROVE  \E k \in 1..Len(w) : Image(p, w[k])
<1>0. Dated(d, t0)
  BY DatedFacing
<1>1. Len(c) \in Nat /\ Len(d) = Len(c) /\ LeftRight \in Nat /\ Mid(d) = Mid(c) /\ Dated(d, t0)
  BY <1>0, DigestConstants DEF Reflects, Mid
<1>2. p.type \in {"SH", "SL"} /\ Opposite(p.type) \in {"SH", "SL"} /\ Confirms(c, i, p.type)
  BY OppositeTwice DEF Shows
<1>3. Confirms(d, i, Opposite(p.type))
  BY <1>2, ConfirmsFacing
<1>4. PICK k \in 1..Len(w) : w[k].type = Opposite(p.type) /\ w[k].time = d[i].time
  BY <1>1, <1>2, <1>3 DEF Listing
<1>5. PICK j \in Mid(c) : Shows(d, w[k], j)
  BY <1>1 DEF Listing
<1>6. i \in 1..Len(d) /\ j \in 1..Len(d)
  BY <1>1 DEF Mid
<1>7. d[i].time = t0 + i /\ d[j].time = t0 + j /\ w[k].time = d[j].time
  BY <1>1, <1>5, <1>6 DEF Dated, Shows
<1>8. i = j
  BY <1>1, <1>4, <1>6, <1>7
<1> QED  BY <1>4, <1>5, <1>8, ImageOfBar

(* Pivots with images in part of a list are no more than that part holds.  *)
LEMMA Images ==
    ASSUME NEW v \in Seq(Shown), NEW w \in Seq(Shown), NEW S \in SUBSET (1..Len(v)),
           \A m, x \in 1..Len(w) :
              m < x => \/ w[m].time < w[x].time
                       \/ w[m].time = w[x].time /\ w[m].type = "SH" /\ w[x].type = "SL",
           \A k \in 1..Len(w) : \E m \in S : Image(w[k], v[m])
    PROVE  IsFiniteSet(S) /\ Len(w) <= Cardinality(S)
<1> DEFINE f == [k \in 1..Len(w) |-> CHOOSE m \in S : Image(w[k], v[m])]
<1>1. \A k \in 1..Len(w) : f[k] \in S /\ Image(w[k], v[f[k]])
  OBVIOUS
<1>2. f \in [1..Len(w) -> S]
  BY <1>1
<1> HIDE DEF f
<1>3. ASSUME NEW k \in 1..Len(w), NEW l \in 1..Len(w), k < l, f[k] = f[l]
      PROVE  FALSE
  <2>1. PICK q : q = v[f[k]] /\ Image(w[k], q) /\ Image(w[l], q)
    BY <1>1, <1>3
  <2>2. w[k].time = w[l].time /\ Opposite(w[k].type) = Opposite(w[l].type)
        /\ w[k].type \in {"SH", "SL"} /\ w[l].type \in {"SH", "SL"}
    BY <2>1 DEF Image
  <2>3. w[k].type = w[l].type
    BY <2>2 DEF Opposite
  <2>4. w[k].time < w[l].time
    BY <1>3, <2>3
  <2>5. w[k].time \in Int
    <3>1. w[k] \in Shown
      OBVIOUS
    <3> QED  BY <3>1 DEF Shown
  <2> QED  BY <2>2, <2>4, <2>5
<1>4. Len(w) \in Nat /\ Len(v) \in Nat
  OBVIOUS
<1>5. IsFiniteSet(1..Len(w)) /\ Cardinality(1..Len(w)) = Len(w) /\ IsFiniteSet(1..Len(v))
  <2>1. \A n \in Nat : IsFiniteSet(1..n) /\ Cardinality(1..n) = n
    <3> SUFFICES ASSUME NEW n \in Nat PROVE IsFiniteSet(1..n) /\ Cardinality(1..n) = n
      OBVIOUS
    <3>1. 1 \in Int /\ n \in Int
      OBVIOUS
    <3>2. IsFiniteSet(1..n) /\ Cardinality(1..n) = IF 1 > n THEN 0 ELSE n - 1 + 1
      BY <3>1, FS_Interval
    <3> QED  BY <3>2
  <2> QED  BY <1>4, <2>1
<1>6. IsFiniteSet(S) /\ Cardinality(S) \in Nat
  <2>1. IsFiniteSet(S)
    BY <1>5, FS_Subset
  <2> QED  BY <2>1, FS_CardinalityType
<1>7. Len(w) <= Cardinality(S)
  <2> SUFFICES ASSUME Cardinality(S) < Len(w) PROVE FALSE
    BY <1>4, <1>6
  <2>0. Cardinality(S) < Cardinality(1..Len(w))
    BY <1>5
  <2>1. PICK k, l \in 1..Len(w) : k # l /\ f[k] = f[l]
    <3>1. PICK D : D = 1..Len(w)
      OBVIOUS
    <3>2. /\ f \in [D -> S] /\ IsFiniteSet(D) /\ IsFiniteSet(S)
          /\ Cardinality(S) < Cardinality(D)
      BY <1>2, <1>5, <1>6, <2>0, <3>1
    <3>3. \E k, l \in D : k # l /\ f[k] = f[l]
      BY <3>2, FS_PigeonHole
    <3> QED  BY <3>1, <3>3
  <2>2. k < l \/ l < k
    BY <1>4, <2>1
  <2> QED  BY <1>3, <2>1, <2>2
<1> QED  BY <1>6, <1>7

(* No more than the list, and fewer if one of it is no image.              *)
LEMMA FewerImages ==
    ASSUME NEW v \in Seq(Shown), NEW w \in Seq(Shown),
           \A m, x \in 1..Len(w) :
              m < x => \/ w[m].time < w[x].time
                       \/ w[m].time = w[x].time /\ w[m].type = "SH" /\ w[x].type = "SL"
    PROVE  /\ (\A k \in 1..Len(w) : \E m \in 1..Len(v) : Image(w[k], v[m])) => Len(w) <= Len(v)
           /\ \A x \in 1..Len(v) :
                 (\A k \in 1..Len(w) : \E m \in 1..Len(v) : m # x /\ Image(w[k], v[m]))
                    => Len(w) < Len(v)
<1>1. PICK n \in Nat : n = Len(v)
  OBVIOUS
<1>2. IsFiniteSet(1..n) /\ Cardinality(1..n) = n
  <2>1. 1 \in Int /\ n \in Int
    OBVIOUS
  <2>2. IsFiniteSet(1..n) /\ Cardinality(1..n) = IF 1 > n THEN 0 ELSE n - 1 + 1
    BY <2>1, FS_Interval
  <2> QED  BY <2>2
<1>3. ASSUME \A k \in 1..Len(w) : \E m \in 1..Len(v) : Image(w[k], v[m])
      PROVE  Len(w) <= Len(v)
  <2>1. Len(w) <= Cardinality(1..Len(v))
    BY <1>3, Images
  <2> QED  BY <1>1, <1>2, <2>1
<1>4. ASSUME NEW x \in 1..Len(v),
             \A k \in 1..Len(w) : \E m \in 1..Len(v) : m # x /\ Image(w[k], v[m])
      PROVE  Len(w) < Len(v)
  <2>1. PICK S : S = (1..Len(v)) \ {x}
    OBVIOUS
  <2>2. S \in SUBSET (1..Len(v)) /\ \A k \in 1..Len(w) : \E m \in S : Image(w[k], v[m])
    BY <1>4, <2>1
  <2>3. Len(w) <= Cardinality(S)
    BY <2>2, Images
  <2>4. Cardinality(S) = n - 1
    BY <1>1, <1>2, <1>4, <2>1, FS_RemoveElement
  <2>5. Len(w) \in Nat
    OBVIOUS
  <2> QED  BY <1>1, <2>3, <2>4, <2>5
<1> QED  BY <1>3, <1>4

(* A series with fewer pivots than the limit has an image with fewer.      *)
LEMMA LimitFacing ==
    ASSUME NEW c, NEW d, Reflects(c, d), NEW t0 \in Int, Dated(c, t0), NEW limit \in Nat,
           NEW v, Latest(c, limit, v), Len(v) < limit,
           NEW w, Latest(d, limit, w)
    PROVE  Len(w) < limit
<1>1. Reflects(d, c) /\ Dated(d, t0) /\ Listing(c, 1, v)
  BY ReflectsBack, DatedFacing, ShortListing
<1>2. \A i \in Mid(d) : i >= 1
  <2>1. LeftRight \in Nat
    BY DigestConstants
  <2> QED  BY <2>1 DEF Mid
<1>3. ASSUME NEW k \in 1..Len(w) PROVE \E m \in 1..Len(v) : Image(w[k], v[m])
  <2>1. PICK i \in Mid(d) : Shows(d, w[k], i)
    BY DEF Latest
  <2> QED  BY <1>1, <1>2, <2>1, HasImage
<1>4. v \in Seq(Shown) /\ w \in Seq(Shown)
  BY DEF Latest
<1>5. \A m, x \in 1..Len(w) :
          m < x => \/ w[m].time < w[x].time
                   \/ w[m].time = w[x].time /\ w[m].type = "SH" /\ w[x].type = "SL"
  BY DEF Latest
<1>6. Len(w) <= Len(v)
  BY <1>3, <1>4, <1>5, FewerImages
<1>7. Len(v) \in Nat /\ Len(w) \in Nat
  BY <1>4
<1> QED  BY <1>6, <1>7

-----------------------------------------------------------------------------
(* Candidates of the list v, each with the bar of its event, and their     *)
(* images in w.                                                            *)
Paired(v, w, F, at, bt) == \A k \in F : \E m \in DOMAIN bt : Image(v[k], w[m]) /\ bt[m] = at[k]

(* No two candidates of one bar have their events on one bar.              *)
Apart(v, F, at) == \A k, l \in F : v[k].time = v[l].time /\ at[k] = at[l] => k = l

InOrder(v) == \A m, x \in 1..Len(v) : m <= x => v[m].time <= v[x].time

(* The pivots printed go forward in time.                                  *)
LEMMA ListingInOrder ==
    ASSUME NEW c, NEW s, NEW v, Listing(c, s, v)
    PROVE  InOrder(v) /\ v \in Seq(Shown)
<1>1. v \in Seq(Shown)
  BY DEF Listing
<1>2. \A m \in 1..Len(v) : v[m].time \in Int
  <2>1. \A m \in 1..Len(v) : v[m] \in Shown
    BY <1>1
  <2> QED  BY <2>1 DEF Shown
<1>3. \A m, x \in 1..Len(v) : m <= x => m < x \/ m = x
  OBVIOUS
<1>4. \A m, x \in 1..Len(v) : m < x => v[m].time <= v[x].time
  BY <1>2 DEF Listing
<1> QED  BY <1>1, <1>2, <1>3, <1>4 DEF InOrder

SamePicks(n, v, w, F, at, G, bt) ==
    /\ n \in Nat /\ v \in Seq(Shown) /\ w \in Seq(Shown) /\ InOrder(v) /\ InOrder(w)
    /\ F \subseteq 1..Len(v) /\ at \in [F -> 1..n]
    /\ G \subseteq 1..Len(w) /\ bt \in [G -> 1..n]
    /\ Paired(v, w, F, at, bt) /\ Paired(w, v, G, bt, at) /\ Apart(v, F, at)

(* Then the pivot chosen of the one is the image of that of the other.     *)
LEMMA SameChoice ==
    ASSUME NEW n, NEW v, NEW w, NEW F, NEW at, NEW G, NEW bt,
           SamePicks(n, v, w, F, at, G, bt), F # {}
    PROVE  /\ G # {} /\ Freshest(at) \in F /\ Freshest(bt) \in G
           /\ at[Freshest(at)] = bt[Freshest(bt)]
           /\ Image(v[Freshest(at)], w[Freshest(bt)])
<1>a. /\ n \in Nat /\ v \in Seq(Shown) /\ w \in Seq(Shown) /\ InOrder(v) /\ InOrder(w)
      /\ F \subseteq 1..Len(v) /\ at \in [F -> 1..n]
      /\ G \subseteq 1..Len(w) /\ bt \in [G -> 1..n]
      /\ Paired(v, w, F, at, bt) /\ Paired(w, v, G, bt, at) /\ Apart(v, F, at)
  BY DEF SamePicks
<1> USE <1>a
<1>0. DOMAIN at = F /\ DOMAIN bt = G /\ Len(v) \in Nat /\ Len(w) \in Nat
  OBVIOUS
<1>1. G # {}
  BY <1>0 DEF Paired
<1>2. PICK k : k = Freshest(at)
  OBVIOUS
<1>3. PICK m : m = Freshest(bt)
  OBVIOUS
<1>4. k \in F /\ \A x \in F : at[x] < at[k] \/ (at[x] = at[k] /\ x <= k)
  <2>1. /\ Freshest(at) \in F
        /\ \A x \in F : \/ at[x] < at[Freshest(at)]
                        \/ at[x] = at[Freshest(at)] /\ x <= Freshest(at)
    BY <1>0, FreshestIsBest
  <2> QED  BY <1>2, <2>1
<1>5. m \in G /\ \A x \in G : bt[x] < bt[m] \/ (bt[x] = bt[m] /\ x <= m)
  <2>1. /\ Freshest(bt) \in G
        /\ \A x \in G : \/ bt[x] < bt[Freshest(bt)]
                        \/ bt[x] = bt[Freshest(bt)] /\ x <= Freshest(bt)
    BY <1>0, <1>1, FreshestIsBest
  <2> QED  BY <1>3, <2>1
<1>6. PICK y \in G : Image(v[k], w[y]) /\ bt[y] = at[k]
  BY <1>0, <1>4 DEF Paired
<1>7. PICK x \in F : Image(w[m], v[x]) /\ at[x] = bt[m]
  BY <1>0, <1>5 DEF Paired
<1>8. at[k] = bt[m] /\ x <= k /\ y <= m
  <2>1. at[k] \in 1..n /\ bt[m] \in 1..n /\ at[x] \in 1..n /\ bt[y] \in 1..n
    BY <1>4, <1>5
  <2>2. bt[y] <= bt[m] /\ at[x] <= at[k]
    BY <1>4, <1>5, <2>1
  <2>3. at[k] = bt[m]
    BY <1>6, <1>7, <2>1, <2>2
  <2> QED  BY <1>4, <1>5, <1>6, <1>7, <2>1, <2>3
<1>9. v[x].time <= v[k].time /\ w[y].time <= w[m].time
  BY <1>4, <1>5, <1>8 DEF InOrder
<1>10. v[k].time = w[y].time /\ w[m].time = v[x].time
  BY <1>6, <1>7 DEF Image
<1>11. v[x].time \in Int /\ v[k].time \in Int
  <2>1. v[x] \in Shown /\ v[k] \in Shown
    BY <1>4
  <2> QED  BY <2>1 DEF Shown
<1>12. v[x].time = v[k].time
  BY <1>9, <1>10, <1>11
<1>13. x = k
  BY <1>4, <1>7, <1>8, <1>12 DEF Apart
<1>14. Image(v[k], w[m])
  <2>1. w[m] \in Shown
    BY <1>5
  <2>2. \A label \in {"", "HH", "HL", "LH", "LL", "EH", "EL"} : Twin(Twin(label)) = label
    <3>1. /\ Twin("HH") = "LL" /\ Twin("LL") = "HH" /\ Twin("LH") = "HL" /\ Twin("HL") = "LH"
          /\ Twin("EH") = "EL" /\ Twin("EL") = "EH" /\ Twin("") = ""
      BY TwinTable DEF IsTwin
    <3> QED  BY <3>1
  <2>3. Twin(Twin(w[m].label)) = w[m].label /\ w[m].type \in {"SH", "SL"}
    BY <2>1, <2>2 DEF Shown
  <2>4. PICK p, q : p = v[k] /\ q = w[m] /\ Image(q, p)
    BY <1>7, <1>13
  <2>5. /\ q.time = p.time /\ q.type \in {"SH", "SL"} /\ p.type = Opposite(q.type)
        /\ q.price \in Nat /\ p.price \in Nat /\ q.price > 0 /\ p.price > 0
        /\ q.price + p.price = MirrorPrice
        /\ p.label = Twin(q.label)
    BY <2>4 DEF Image
  <2>6. p.type \in {"SH", "SL"} /\ q.type = Opposite(p.type)
    BY <2>5, OppositeTwice
  <2>7. p.price + q.price = MirrorPrice
    BY <2>5
  <2> QED  BY <2>3, <2>4, <2>5, <2>6, <2>7 DEF Image
<1> QED  BY <1>1, <1>2, <1>3, <1>4, <1>5, <1>8, <1>14

-----------------------------------------------------------------------------
(* What a bar does to a level, its image does to the level's image. *)
LEMMA EventFacing ==
    ASSUME NEW c, NEW d, Reflects(c, d), NEW p, NEW q, Image(p, q), NEW j \in 1..Len(c)
    PROVE  /\ ClosedThrough(c, p, j) <=> ClosedThrough(d, q, j)
           /\ ClosedBack(c, p, j) <=> ClosedBack(d, q, j)
           /\ \A atr \in Nat : Touches(c, p, j, atr) <=> Touches(d, q, j, atr)
<1>1. Facing(c[j], d[j])
  BY DEF Reflects
<1>2. PICK b, e : b = c[j] /\ e = d[j] /\ Facing(b, e)
  BY <1>1
<1>3. /\ b.high \in Nat /\ b.low \in Nat /\ e.high \in Nat /\ e.low \in Nat
      /\ b.close \in Nat /\ e.close \in Nat /\ b.close + e.close = MirrorPrice
      /\ b.high + e.low = MirrorPrice /\ b.low + e.high = MirrorPrice
  BY <1>2 DEF Facing, Upright, Candle
<1>4. /\ p.price \in Nat /\ q.price \in Nat /\ p.price + q.price = MirrorPrice
      /\ p.type \in {"SH", "SL"} /\ q.type = Opposite(p.type)
  BY DEF Image
<1>5. /\ b.close > p.price <=> e.close < q.price
      /\ b.close < p.price <=> e.close > q.price
      /\ b.low - p.price = q.price - e.high
      /\ p.price - b.high = e.low - q.price
  <2>1. PICK x \in Nat, y \in Nat : x = p.price /\ y = q.price /\ x + y = MirrorPrice
    BY <1>4
  <2>2. PICK h \in Nat, l \in Nat, r \in Nat : h = b.high /\ l = b.low /\ r = b.close
    BY <1>3
  <2>3. PICK g \in Nat, k \in Nat, s \in Nat :
           /\ g = e.high /\ k = e.low /\ s = e.close
           /\ r + s = MirrorPrice /\ h + k = MirrorPrice /\ l + g = MirrorPrice
    BY <1>3, <2>2
  <2>4. (r > x <=> s < y) /\ (r < x <=> s > y) /\ l - x = y - g /\ x - h = k - y
    <3>1. r + s = x + y /\ h + k = x + y /\ l + g = x + y
      BY <2>1, <2>3
    <3>2. (r > x <=> s < y) /\ (r < x <=> s > y)
      BY <3>1
    <3>3. l - x = y - g /\ x - h = k - y
      BY <3>1
    <3> QED  BY <3>2, <3>3
  <2> QED  BY <2>1, <2>2, <2>3, <2>4
<1>6. CASE p.type = "SH"
  <2>1. q.type = "SL"
    BY <1>4, <1>6 DEF Opposite
  <2> QED  BY <1>2, <1>5, <1>6, <2>1 DEF ClosedThrough, ClosedBack, Touches
<1>7. CASE p.type = "SL"
  <2>1. q.type = "SH"
    BY <1>4, <1>7 DEF Opposite
  <2> QED  BY <1>2, <1>5, <1>7, <2>1 DEF ClosedThrough, ClosedBack, Touches
<1> QED  BY <1>4, <1>6, <1>7

(* So the retest of the image is at the same stage. *)
LEMMA RetestFacing ==
    ASSUME NEW c, NEW d, Reflects(c, d), NEW p, NEW q, Image(p, q),
           NEW b \in 1..Len(c), NEW atr \in Nat
    PROVE  RetestState(c, p, b, atr) = RetestState(d, q, b, atr)
<1>1. PICK n \in Nat : n = Len(c) /\ n = Len(d)
  BY DEF Reflects
<1>2. \A j \in 1..n : /\ ClosedThrough(c, p, j) <=> ClosedThrough(d, q, j)
                      /\ Touches(c, p, j, atr) <=> Touches(d, q, j, atr)
  BY <1>1, EventFacing
<1>3. b \in 1..n /\ n \in 1..n /\ \A j \in (b + 1)..n : j \in 1..n
  BY <1>1
<1> DEFINE T == {j \in (b + 1)..n : Touches(c, p, j, atr)}
           U == {j \in (b + 1)..n : Touches(d, q, j, atr)}
<1>4. T = U /\ \A t \in T : \A j \in t..n : j \in 1..n
  BY <1>2, <1>3
<1>5. (\E t \in T : \E j \in t..n : ClosedThrough(c, p, j))
        <=> (\E t \in U : \E j \in t..n : ClosedThrough(d, q, j))
  <2> HIDE DEF T, U
  <2> QED  BY <1>2, <1>4
<1>6. Touches(c, p, n, atr) <=> Touches(d, q, n, atr)
  BY <1>2, <1>3
<1>7. RetestState(c, p, b, atr)
        = IF \E t \in T : \E j \in t..n : ClosedThrough(c, p, j) THEN "confirmed"
          ELSE IF T # {} \/ Touches(c, p, n, atr) THEN "retesting" ELSE "pending"
  BY <1>1, Zenon DEF RetestState
<1>8. RetestState(d, q, b, atr)
        = IF \E t \in U : \E j \in t..n : ClosedThrough(d, q, j) THEN "confirmed"
          ELSE IF U # {} \/ Touches(d, q, n, atr) THEN "retesting" ELSE "pending"
  BY <1>1, Zenon DEF RetestState
<1> HIDE DEF T, U
<1> QED  BY <1>4, <1>5, <1>6, <1>7, <1>8
-----------------------------------------------------------------------------
(* Breaks of structure: the bars that break a pivot, and which pivots of a *)
(* list are broken inside the window.                                      *)
Origin(c, p)    == CHOOSE i \in 1..Len(c) : c[i].time = p.time
BreakBars(c, p) == {j \in (Origin(c, p) + 1)..Len(c) : ClosedThrough(c, p, j)}
BreakBar(c, p)  == Min(BreakBars(c, p))
Broken(c, v, maxAge) ==
    {k \in DOMAIN v : BreakBars(c, v[k]) # {} /\ BreakBar(c, v[k]) >= WindowStart(c, maxAge)}
BrokenAt(c, v, maxAge) == [k \in Broken(c, v, maxAge) |-> BreakBar(c, v[k])]

BreakOf(c, p, j, atr) ==
    [direction |-> IF p.type = "SL" THEN "down" ELSE "up",
     level     |-> p.price,
     age       |-> Len(c) - j,
     state     |-> RetestState(c, p, j, atr)]

(* The break of structure as one expression: none, or that of the pivot    *)
(* broken last.                                                            *)
LEMMA BreakDetected ==
    ASSUME NEW c, NEW v, NEW atr, NEW maxAge
    PROVE  DetectBOSRetest(c, v, atr, maxAge) =
             IF atr <= 0 \/ Len(c) < 3 \/ Broken(c, v, maxAge) = {} THEN NoBOS
             ELSE LET best == v[Freshest(BrokenAt(c, v, maxAge))]
                  IN  BreakOf(c, best, BreakBar(c, best), atr)
  BY Zenon DEF DetectBOSRetest, Origin, BreakBars, BreakBar, Broken, BrokenAt, BreakOf

(* A pivot is broken by the same bars as its image.                        *)
LEMMA BreakBarsFacing ==
    ASSUME NEW c, NEW d, Reflects(c, d), NEW t0 \in Int, Dated(c, t0),
           NEW p, NEW q, Image(p, q), NEW i \in Mid(c), Shows(c, p, i)
    PROVE  /\ Origin(c, p) = i /\ BreakBars(c, p) \subseteq 1..Len(c)
           /\ BreakBars(d, q) = BreakBars(c, p)
<1>1. PICK n \in Nat : n = Len(c) /\ n = Len(d)
  BY DEF Reflects
<1>2. LeftRight \in Nat
  BY DigestConstants
<1>3. i \in 1..n /\ \A j \in (i + 1)..n : j \in 1..n
  BY <1>1, <1>2 DEF Mid
<1>4. p.time = t0 + i /\ q.time = t0 + i
  BY <1>1, <1>3 DEF Shows, Dated, Image
<1>5. \A x \in 1..n : c[x].time = t0 + x /\ d[x].time = t0 + x
  <2>1. Dated(d, t0)
    BY DatedFacing
  <2> QED  BY <1>1, <2>1 DEF Dated
<1>6. \A x \in 1..n : (c[x].time = p.time <=> x = i) /\ (d[x].time = q.time <=> x = i)
  BY <1>3, <1>4, <1>5
<1>7. Origin(c, p) = i /\ Origin(d, q) = i
  BY <1>1, <1>3, <1>6, Zenon DEF Origin
<1>8. \A j \in 1..n : ClosedThrough(c, p, j) <=> ClosedThrough(d, q, j)
  BY <1>1, EventFacing
<1> QED  BY <1>1, <1>3, <1>7, <1>8 DEF BreakBars

(* The broken pivots lie in the list, and break at a bar of the series.    *)
LEMMA BrokenTyped ==
    ASSUME NEW c, NEW d, Reflects(c, d), NEW t0 \in Int, Dated(c, t0),
           NEW s, NEW v, Listing(c, s, v), NEW w, Listing(d, s, w), NEW maxAge \in Nat,
           NEW k \in Broken(c, v, maxAge)
    PROVE  /\ k \in 1..Len(v) /\ BreakBar(c, v[k]) \in 1..Len(c)
           /\ ClosedThrough(c, v[k], BreakBar(c, v[k]))
           /\ \E m \in Broken(d, w, maxAge) :
                 Image(v[k], w[m]) /\ BreakBar(d, w[m]) = BreakBar(c, v[k])
<1>1. Len(c) = Len(d) /\ Len(c) \in Nat
  BY DEF Reflects
<1>2. /\ k \in 1..Len(v) /\ BreakBars(c, v[k]) # {}
      /\ BreakBar(c, v[k]) >= WindowStart(c, maxAge)
  BY DEF Broken, Listing
<1>3. PICK i \in Mid(c) : i >= s /\ Shows(c, v[k], i)
  BY <1>2 DEF Listing
<1>4. PICK m \in 1..Len(w) : Image(v[k], w[m])
  BY <1>3, HasImage
<1>5. /\ BreakBars(c, v[k]) \subseteq 1..Len(c)
      /\ BreakBars(d, w[m]) = BreakBars(c, v[k])
  BY <1>3, <1>4, BreakBarsFacing
<1>6. BreakBar(d, w[m]) = BreakBar(c, v[k]) /\ WindowStart(c, maxAge) = WindowStart(d, maxAge)
  BY <1>1, <1>5 DEF BreakBar, WindowStart
<1>7. m \in Broken(d, w, maxAge)
  <2>1. m \in DOMAIN w
    BY DEF Listing
  <2> QED  BY <1>2, <1>5, <1>6, <2>1 DEF Broken
<1>8. BreakBar(c, v[k]) \in BreakBars(c, v[k])
  <2>1. BreakBars(c, v[k]) \subseteq Nat
    BY <1>5
  <2> QED  BY <1>2, <2>1, MinIsLeast DEF BreakBar
<1>9. ClosedThrough(c, v[k], BreakBar(c, v[k]))
  <2>1. \A j \in BreakBars(c, v[k]) : ClosedThrough(c, v[k], j)
    BY DEF BreakBars
  <2> QED  BY <1>8, <2>1
<1> QED  BY <1>2, <1>4, <1>5, <1>6, <1>7, <1>8, <1>9

(* No bar closes above the high of a bar and below its low. *)
LEMMA OneSideThrough ==
    ASSUME NEW c, NEW d, Reflects(c, d), NEW j \in 1..Len(c),
           NEW i \in Mid(c), NEW p, Shows(c, p, i), ClosedThrough(c, p, j),
           NEW h \in Mid(c), NEW r, Shows(c, r, h), ClosedThrough(c, r, j), i = h
    PROVE  p.type = r.type
<1>1. i \in 1..Len(c)
  <2>1. LeftRight \in Nat /\ Len(c) \in Nat
    BY DigestConstants DEF Reflects
  <2> QED  BY <2>1 DEF Mid
<1>2. PICK b, e : b = c[i] /\ e = c[j] /\ Upright(b) /\ Upright(e)
  BY <1>1 DEF Reflects, Facing
<1>3. b.high \in Nat /\ b.low \in Nat /\ b.low <= b.high /\ e.close \in Nat
  <2>1. /\ b.high \in Nat /\ b.low \in Nat /\ b.open \in Nat /\ e.close \in Nat
        /\ b.low <= b.open /\ b.open <= b.high
    BY <1>2 DEF Upright, Candle
  <2> QED  BY <2>1
<1>4. ~(e.close > b.high /\ e.close < b.low)
  BY <1>3
<1>5. ASSUME NEW s, Shows(c, s, i), ClosedThrough(c, s, j)
      PROVE  s.type \in {"SH", "SL"} /\ (IF s.type = "SH" THEN e.close > b.high ELSE e.close < b.low)
  BY <1>2, <1>5 DEF Shows, ClosedThrough, Level
<1> QED  BY <1>4, <1>5

(* Two pivots of one bar are its high and its low, in this order.          *)
LEMMA SamePlace ==
    ASSUME NEW c, NEW s, NEW v, Listing(c, s, v), NEW k \in 1..Len(v), NEW l \in 1..Len(v),
           v[k].time = v[l].time, v[k].type = v[l].type
    PROVE  k = l
<1>1. v[k].time \in Int /\ v[l].time \in Int
  <2>1. v[k] \in Shown /\ v[l] \in Shown
    BY DEF Listing
  <2> QED  BY <2>1 DEF Shown
<1>2. /\ k < l => v[k].time < v[l].time \/ (v[k].type = "SH" /\ v[l].type = "SL")
      /\ l < k => v[l].time < v[k].time \/ (v[l].type = "SH" /\ v[k].type = "SL")
  BY DEF Listing
<1>3. ~(k < l) /\ ~(l < k)
  BY <1>1, <1>2
<1> QED  BY <1>3

(* Bars are told apart by their times. *)
LEMMA SameBar ==
    ASSUME NEW c, NEW t0 \in Int, Dated(c, t0), Len(c) \in Nat,
           NEW i \in Mid(c), NEW p, Shows(c, p, i),
           NEW h \in Mid(c), NEW r, Shows(c, r, h), p.time = r.time
    PROVE  i = h
<1>1. LeftRight \in Nat
  BY DigestConstants
<1>2. i \in 1..Len(c) /\ h \in 1..Len(c)
  BY <1>1 DEF Mid
<1>3. t0 + i = t0 + h
  BY <1>2 DEF Dated, Shows
<1> QED  BY <1>2, <1>3

(* Two printed pivots of one bar are never broken by one bar: it would     *)
(* close above its high and below its low.                                 *)
LEMMA BrokenApart ==
    ASSUME NEW c, NEW d, Reflects(c, d), NEW t0 \in Int, Dated(c, t0),
           NEW s, NEW v, Listing(c, s, v), NEW w, Listing(d, s, w), NEW maxAge \in Nat
    PROVE  Apart(v, Broken(c, v, maxAge), BrokenAt(c, v, maxAge))
<1> SUFFICES ASSUME NEW k \in Broken(c, v, maxAge), NEW l \in Broken(c, v, maxAge),
                    v[k].time = v[l].time, BreakBar(c, v[k]) = BreakBar(c, v[l])
             PROVE  k = l
  BY DEF Apart, BrokenAt
<1>1. k \in 1..Len(v) /\ BreakBar(c, v[k]) \in 1..Len(c) /\ ClosedThrough(c, v[k], BreakBar(c, v[k]))
  BY BrokenTyped
<1>2. l \in 1..Len(v) /\ ClosedThrough(c, v[l], BreakBar(c, v[k]))
  BY BrokenTyped
<1>3. PICK i \in Mid(c) : Shows(c, v[k], i)
  BY <1>1 DEF Listing
<1>4. PICK h \in Mid(c) : Shows(c, v[l], h)
  BY <1>2 DEF Listing
<1>5. Len(c) \in Nat
  BY DEF Reflects
<1>6. i = h
  BY <1>3, <1>4, <1>5, SameBar
<1>7. v[k].type = v[l].type
  BY <1>1, <1>2, <1>3, <1>4, <1>6, OneSideThrough
<1> QED  BY <1>1, <1>2, <1>7, SamePlace

(* Every broken pivot of a series has its image among the broken ones of   *)
(* the image, broken by the same bar.                                      *)
LEMMA BrokenPaired ==
    ASSUME NEW c, NEW d, Reflects(c, d), NEW t0 \in Int, Dated(c, t0),
           NEW s, NEW v, Listing(c, s, v), NEW w, Listing(d, s, w), NEW maxAge \in Nat
    PROVE  /\ Broken(c, v, maxAge) \subseteq 1..Len(v)
           /\ BrokenAt(c, v, maxAge) \in [Broken(c, v, maxAge) -> 1..Len(c)]
           /\ Paired(v, w, Broken(c, v, maxAge), BrokenAt(c, v, maxAge), BrokenAt(d, w, maxAge))
<1>1. \A k \in Broken(c, v, maxAge) :
           /\ k \in 1..Len(v) /\ BreakBar(c, v[k]) \in 1..Len(c)
           /\ \E m \in Broken(d, w, maxAge) :
                 Image(v[k], w[m]) /\ BreakBar(d, w[m]) = BreakBar(c, v[k])
  BY BrokenTyped
<1>2. BrokenAt(c, v, maxAge) \in [Broken(c, v, maxAge) -> 1..Len(c)]
  BY <1>1 DEF BrokenAt
<1>3. Paired(v, w, Broken(c, v, maxAge), BrokenAt(c, v, maxAge), BrokenAt(d, w, maxAge))
  BY <1>1 DEF Paired, BrokenAt
<1> QED  BY <1>1, <1>2, <1>3

-----------------------------------------------------------------------------
(* Flip of a level whose image is another. *)
LEMMA FlipOf ==
    ASSUME NEW x \in Nat, NEW y \in Nat, x > 0, x + y = MirrorPrice
    PROVE  y = Flip(x)
<1>1. PICK m \in Nat : m = MirrorPrice
  BY MirrorConstants
<1>2. y = m - x
  BY <1>1
<1> QED  BY <1>1, <1>2 DEF Flip

(* The break of structure of the image is the image of the break.          *)
LEMMA BreakFacing ==
    ASSUME NEW c, NEW d, Reflects(c, d), NEW t0 \in Int, Dated(c, t0),
           NEW s, NEW v, Listing(c, s, v), NEW w, Listing(d, s, w), NEW maxAge \in Nat, NEW atr \in Nat,
           NEW a, a = DetectBOSRetest(c, v, atr, maxAge),
           NEW b, b = DetectBOSRetest(d, w, atr, maxAge)
    PROVE  /\ b.direction = Twin(a.direction) /\ b.level = Flip(a.level)
           /\ b.age = a.age /\ b.state = a.state
<1>1. Reflects(d, c) /\ Dated(d, t0)
  BY ReflectsBack, DatedFacing
<1>2. PICK n \in Nat : n = Len(c) /\ n = Len(d)
  BY DEF Reflects
<1>3. PICK F, G, at, bt : /\ F = Broken(c, v, maxAge) /\ G = Broken(d, w, maxAge)
                          /\ at = BrokenAt(c, v, maxAge) /\ bt = BrokenAt(d, w, maxAge)
  OBVIOUS
<1>4. /\ F \subseteq 1..Len(v) /\ at \in [F -> 1..n] /\ Paired(v, w, F, at, bt)
      /\ Apart(v, F, at)
  BY <1>2, <1>3, BrokenPaired, BrokenApart
<1>5. G \subseteq 1..Len(w) /\ bt \in [G -> 1..n] /\ Paired(w, v, G, bt, at)
  BY <1>1, <1>2, <1>3, BrokenPaired
<1>6. v \in Seq(Shown) /\ InOrder(v) /\ w \in Seq(Shown) /\ InOrder(w)
  BY ListingInOrder
<1>7. a = IF atr <= 0 \/ n < 3 \/ F = {} THEN NoBOS
          ELSE BreakOf(c, v[Freshest(at)], BreakBar(c, v[Freshest(at)]), atr)
  BY <1>2, <1>3, BreakDetected, Zenon
<1>8. b = IF atr <= 0 \/ n < 3 \/ G = {} THEN NoBOS
          ELSE BreakOf(d, w[Freshest(bt)], BreakBar(d, w[Freshest(bt)]), atr)
  BY <1>2, <1>3, BreakDetected, Zenon
<1>9. F = {} <=> G = {}
  BY <1>4, <1>5 DEF Paired
<1>10. CASE atr <= 0 \/ n < 3 \/ F = {}
  <2>1. a = NoBOS /\ b = NoBOS
    BY <1>7, <1>8, <1>9, <1>10
  <2>2. Twin("") = "" /\ Flip(0) = 0
    BY TwinTable DEF IsTwin, Flip
  <2>3. NoBOS.direction = "" /\ NoBOS.level = 0
    BY DEF NoBOS
  <2> QED  BY <2>1, <2>2, <2>3, Zenon
<1>11. CASE ~(atr <= 0 \/ n < 3 \/ F = {})
  <2>0. F # {}
    BY <1>11
  <2>1. /\ Freshest(at) \in F /\ Freshest(bt) \in G
        /\ at[Freshest(at)] = bt[Freshest(bt)]
        /\ Image(v[Freshest(at)], w[Freshest(bt)])
    <3>1. SamePicks(n, v, w, F, at, G, bt)
      BY <1>2, <1>4, <1>5, <1>6 DEF SamePicks
    <3> QED  BY <2>0, <3>1, SameChoice
  <2>2. PICK p, q, j : /\ p = v[Freshest(at)] /\ q = w[Freshest(bt)] /\ Image(p, q)
                       /\ j = BreakBar(c, p) /\ j = BreakBar(d, q) /\ j \in 1..n
    <3>1. /\ at[Freshest(at)] = BreakBar(c, v[Freshest(at)])
          /\ bt[Freshest(bt)] = BreakBar(d, w[Freshest(bt)])
      BY <1>3, <2>1 DEF BrokenAt
    <3>2. at[Freshest(at)] \in 1..n
      BY <1>4, <2>1
    <3> QED  BY <2>1, <3>1, <3>2
  <2>3. a = BreakOf(c, p, j, atr) /\ b = BreakOf(d, q, j, atr)
    BY <1>7, <1>8, <1>9, <1>11, <2>2
  <2>4. RetestState(c, p, j, atr) = RetestState(d, q, j, atr)
    <3>1. Image(p, q) /\ j \in 1..Len(c)
      BY <1>2, <2>2
    <3> QED  BY <3>1, RetestFacing
  <2>5. q.price = Flip(p.price)
    BY <2>2, FlipOf DEF Image
  <2>6. Twin("up") = "down" /\ Twin("down") = "up"
    BY TwinTable DEF IsTwin
  <2>7. p.type \in {"SH", "SL"} /\ q.type = IF p.type = "SH" THEN "SL" ELSE "SH"
    BY <2>2 DEF Image, Opposite
  <2>8. b.direction = Twin(a.direction)
    BY <2>3, <2>6, <2>7 DEF BreakOf
  <2> QED  BY <1>2, <2>3, <2>4, <2>5, <2>8 DEF BreakOf
<1> QED  BY <1>10, <1>11
-----------------------------------------------------------------------------
(* Failed breakouts: the bars of the window beyond a pivot, those that     *)
(* came back after the first of them, and the pivots that saw both.        *)
PassBars(c, p, maxAge) == {j \in WindowStart(c, maxAge)..Len(c) : ClosedThrough(c, p, j)}
BackBars(c, p, maxAge) == {j \in (Min(PassBars(c, p, maxAge)) + 1)..Len(c) : ClosedBack(c, p, j)}
FailBar(c, p, maxAge)  == Min(BackBars(c, p, maxAge))
Failed(c, v, maxAge) ==
    {k \in DOMAIN v : PassBars(c, v[k], maxAge) # {} /\ BackBars(c, v[k], maxAge) # {}}
FailedAt(c, v, maxAge) == [k \in Failed(c, v, maxAge) |-> FailBar(c, v[k], maxAge)]

FailureOf(c, p, j) ==
    [direction |-> IF p.type = "SH" THEN "failed_up" ELSE "failed_down",
     level     |-> p.price,
     age       |-> Len(c) - j]

(* The failed breakout as one expression: none, or that of the pivot that  *)
(* failed last.                                                            *)
LEMMA FailureDetected ==
    ASSUME NEW c, NEW v, NEW maxAge
    PROVE  DetectFailedBreakout(c, v, maxAge) =
             IF Len(c) < 3 \/ Failed(c, v, maxAge) = {} THEN NoFailure
             ELSE LET best == v[Freshest(FailedAt(c, v, maxAge))]
                  IN  FailureOf(c, best, FailBar(c, best, maxAge))
  BY Zenon DEF DetectFailedBreakout, PassBars, BackBars, FailBar, Failed, FailedAt, FailureOf

(* The bars a failed breakout is looked for in begin at a bar.             *)
LEMMA WindowTyped ==
    ASSUME NEW c, Len(c) \in Nat, NEW maxAge \in Nat
    PROVE  WindowStart(c, maxAge) \in Nat /\ WindowStart(c, maxAge) >= 1
<1>1. Len(c) - maxAge + 1 \in Int
  OBVIOUS
<1> QED  BY <1>1, MaxOfTwo DEF WindowStart

(* The first bar beyond the pivot, and the first one back.                 *)
LEMMA FailedBars ==
    ASSUME NEW c, Len(c) \in Nat, NEW maxAge \in Nat, NEW p,
           PassBars(c, p, maxAge) # {}
    PROVE  /\ Min(PassBars(c, p, maxAge)) \in 1..Len(c)
           /\ Min(PassBars(c, p, maxAge)) \in PassBars(c, p, maxAge)
           /\ \A j \in PassBars(c, p, maxAge) : Min(PassBars(c, p, maxAge)) <= j
           /\ BackBars(c, p, maxAge) \subseteq 1..Len(c)
           /\ BackBars(c, p, maxAge) # {} =>
                /\ FailBar(c, p, maxAge) \in BackBars(c, p, maxAge)
                /\ \A j \in BackBars(c, p, maxAge) : FailBar(c, p, maxAge) <= j
<1>1. WindowStart(c, maxAge) \in Nat /\ WindowStart(c, maxAge) >= 1
  BY WindowTyped
<1>2. PassBars(c, p, maxAge) \subseteq Nat /\ PassBars(c, p, maxAge) \subseteq 1..Len(c)
  BY <1>1 DEF PassBars
<1>3. /\ Min(PassBars(c, p, maxAge)) \in PassBars(c, p, maxAge)
      /\ \A j \in PassBars(c, p, maxAge) : Min(PassBars(c, p, maxAge)) <= j
  BY <1>2, MinIsLeast
<1>4. BackBars(c, p, maxAge) \subseteq 1..Len(c) /\ BackBars(c, p, maxAge) \subseteq Nat
  BY <1>2, <1>3 DEF BackBars
<1>5. BackBars(c, p, maxAge) # {} =>
         /\ FailBar(c, p, maxAge) \in BackBars(c, p, maxAge)
         /\ \A j \in BackBars(c, p, maxAge) : FailBar(c, p, maxAge) <= j
  BY <1>4, MinIsLeast DEF FailBar
<1> QED  BY <1>2, <1>3, <1>4, <1>5

-----------------------------------------------------------------------------
(* The image of a pivot fails on the same bar. *)
LEMMA FailedBarsFacing ==
    ASSUME NEW c, NEW d, Reflects(c, d), NEW maxAge \in Nat, NEW p, NEW q, Image(p, q)
    PROVE  /\ PassBars(d, q, maxAge) = PassBars(c, p, maxAge)
           /\ PassBars(c, p, maxAge) # {} =>
                 /\ BackBars(d, q, maxAge) = BackBars(c, p, maxAge)
                 /\ FailBar(d, q, maxAge) = FailBar(c, p, maxAge)
<1>1. PICK n \in Nat : n = Len(c) /\ n = Len(d)
  BY DEF Reflects
<1>2. \A j \in 1..n : /\ ClosedThrough(c, p, j) <=> ClosedThrough(d, q, j)
                      /\ ClosedBack(c, p, j) <=> ClosedBack(d, q, j)
  BY <1>1, EventFacing
<1>3. PICK s \in Nat : s = WindowStart(c, maxAge) /\ s = WindowStart(d, maxAge) /\ s >= 1
  <2>1. WindowStart(c, maxAge) = WindowStart(d, maxAge)
    BY <1>1 DEF WindowStart
  <2>2. WindowStart(c, maxAge) \in Nat /\ WindowStart(c, maxAge) >= 1
    BY <1>1, WindowTyped
  <2> QED  BY <2>1, <2>2
<1>4. PassBars(d, q, maxAge) = PassBars(c, p, maxAge)
  <2>1. \A j \in s..n : j \in 1..n
    BY <1>3
  <2> QED  BY <1>1, <1>2, <1>3, <2>1 DEF PassBars
<1>5. ASSUME PassBars(c, p, maxAge) # {}
      PROVE  BackBars(d, q, maxAge) = BackBars(c, p, maxAge)
  <2>1. PICK m \in 1..n : m = Min(PassBars(c, p, maxAge)) /\ m = Min(PassBars(d, q, maxAge))
    BY <1>1, <1>4, <1>5, FailedBars
  <2>2. \A j \in (m + 1)..n : j \in 1..n
    BY <2>1
  <2> QED  BY <1>1, <1>2, <2>1, <2>2 DEF BackBars
<1> QED  BY <1>4, <1>5 DEF FailBar

(* The failed pivots lie in the list, and each has a failed image. *)
LEMMA FailedTyped ==
    ASSUME NEW c, NEW d, Reflects(c, d), NEW t0 \in Int, Dated(c, t0),
           NEW s, NEW v, Listing(c, s, v), NEW w, Listing(d, s, w), NEW maxAge \in Nat,
           NEW k \in Failed(c, v, maxAge)
    PROVE  /\ k \in 1..Len(v) /\ FailBar(c, v[k], maxAge) \in 1..Len(c)
           /\ PassBars(c, v[k], maxAge) # {} /\ BackBars(c, v[k], maxAge) # {}
           /\ \E m \in Failed(d, w, maxAge) :
                 Image(v[k], w[m]) /\ FailBar(d, w[m], maxAge) = FailBar(c, v[k], maxAge)
<1>1. k \in 1..Len(v) /\ PassBars(c, v[k], maxAge) # {} /\ BackBars(c, v[k], maxAge) # {}
  BY DEF Failed, Listing
<1>2. PICK i \in Mid(c) : i >= s /\ Shows(c, v[k], i)
  BY <1>1 DEF Listing
<1>3. PICK m \in 1..Len(w) : Image(v[k], w[m])
  BY <1>2, HasImage
<1>4. /\ PassBars(d, w[m], maxAge) # {} /\ BackBars(d, w[m], maxAge) # {}
      /\ FailBar(d, w[m], maxAge) = FailBar(c, v[k], maxAge)
  BY <1>1, <1>3, FailedBarsFacing
<1>5. m \in Failed(d, w, maxAge)
  <2>1. m \in DOMAIN w
    BY DEF Listing
  <2> QED  BY <1>4, <2>1 DEF Failed
<1>6. FailBar(c, v[k], maxAge) \in 1..Len(c)
  <2>1. Len(c) \in Nat
    BY DEF Reflects
  <2> QED  BY <1>1, <2>1, FailedBars
<1> QED  BY <1>1, <1>3, <1>4, <1>5, <1>6

(* A bar cannot bring back both the high and the low of one bar: after the *)
(* later of the two breaks the earlier level is crossed back already.      *)
LEMMA OneFailure ==
    ASSUME NEW c, Len(c) \in Nat, \A j \in 1..Len(c) : c[j].close \in Nat, NEW maxAge \in Nat,
           NEW p, NEW r, p.type = "SH", r.type = "SL", p.price \in Nat, r.price \in Nat,
           r.price <= p.price,
           PassBars(c, p, maxAge) # {}, BackBars(c, p, maxAge) # {},
           PassBars(c, r, maxAge) # {}, BackBars(c, r, maxAge) # {}
    PROVE  FailBar(c, p, maxAge) # FailBar(c, r, maxAge)
<1> DEFINE n == Len(c)
<1>1. PICK x : /\ x = Min(PassBars(c, p, maxAge)) /\ x \in 1..n /\ x \in PassBars(c, p, maxAge)
  BY FailedBars
<1>2. PICK y : /\ y = Min(PassBars(c, r, maxAge)) /\ y \in 1..n /\ y \in PassBars(c, r, maxAge)
  BY FailedBars
<1>3. PICK j : /\ j = FailBar(c, p, maxAge) /\ j \in BackBars(c, p, maxAge)
               /\ \A i \in BackBars(c, p, maxAge) : j <= i
  BY FailedBars
<1>4. PICK k : /\ k = FailBar(c, r, maxAge) /\ k \in BackBars(c, r, maxAge)
               /\ \A i \in BackBars(c, r, maxAge) : k <= i
  BY FailedBars
<1>5. c[x].close > p.price /\ c[y].close < r.price
  BY <1>1, <1>2 DEF PassBars, ClosedThrough
<1>6. j \in (x + 1)..n /\ k \in (y + 1)..n
  BY <1>1, <1>2, <1>3, <1>4 DEF BackBars
<1>7. c[x].close \in Nat /\ c[y].close \in Nat
  BY <1>1, <1>2
<1>8. x # y
  BY <1>5, <1>7
<1>9. CASE x < y
  <2>1. c[y].close < p.price /\ y \in (x + 1)..n
    BY <1>1, <1>2, <1>5, <1>7, <1>9
  <2>2. y \in BackBars(c, p, maxAge)
    BY <1>1, <2>1 DEF BackBars, ClosedBack
  <2>3. j <= y
    BY <1>3, <2>2
  <2> QED  BY <1>2, <1>3, <1>4, <1>6, <2>3
<1>10. CASE y < x
  <2>1. c[x].close > r.price /\ x \in (y + 1)..n
    BY <1>1, <1>2, <1>5, <1>7, <1>10
  <2>2. x \in BackBars(c, r, maxAge)
    BY <1>2, <2>1 DEF BackBars, ClosedBack
  <2>3. k <= x
    BY <1>4, <2>2
  <2> QED  BY <1>1, <1>3, <1>4, <1>6, <2>3
<1> QED  BY <1>1, <1>2, <1>8, <1>9, <1>10

(* The high of a bar is no lower than its low. *)
LEMMA HighOverLow ==
    ASSUME NEW c, NEW d, Reflects(c, d), NEW i \in Mid(c),
           NEW p, Shows(c, p, i), p.type = "SH", NEW r, Shows(c, r, i), r.type = "SL"
    PROVE  p.price \in Nat /\ r.price \in Nat /\ r.price <= p.price
<1>1. i \in 1..Len(c)
  <2>1. LeftRight \in Nat /\ Len(c) \in Nat
    BY DigestConstants DEF Reflects
  <2> QED  BY <2>1 DEF Mid
<1>2. PICK b : b = c[i] /\ Upright(b)
  BY <1>1 DEF Reflects, Facing
<1>3. b.high \in Nat /\ b.low \in Nat /\ b.low <= b.high
  <2>1. b.high \in Nat /\ b.low \in Nat /\ b.open \in Nat /\ b.low <= b.open /\ b.open <= b.high
    BY <1>2 DEF Upright, Candle
  <2> QED  BY <2>1
<1>4. p.price = b.high /\ r.price = b.low
  BY <1>2 DEF Shows, Level
<1> QED  BY <1>3, <1>4

(* Two printed pivots of one bar never fail at one bar.                    *)
LEMMA FailedApart ==
    ASSUME NEW c, NEW d, Reflects(c, d), NEW t0 \in Int, Dated(c, t0),
           NEW s, NEW v, Listing(c, s, v), NEW w, Listing(d, s, w), NEW maxAge \in Nat
    PROVE  Apart(v, Failed(c, v, maxAge), FailedAt(c, v, maxAge))
<1> SUFFICES ASSUME NEW k \in Failed(c, v, maxAge), NEW l \in Failed(c, v, maxAge),
                    v[k].time = v[l].time, FailBar(c, v[k], maxAge) = FailBar(c, v[l], maxAge)
             PROVE  k = l
  BY DEF Apart, FailedAt
<1>1. /\ k \in 1..Len(v)
      /\ PassBars(c, v[k], maxAge) # {} /\ BackBars(c, v[k], maxAge) # {}
  BY FailedTyped
<1>2. /\ l \in 1..Len(v)
      /\ PassBars(c, v[l], maxAge) # {} /\ BackBars(c, v[l], maxAge) # {}
  BY FailedTyped
<1>3. PICK i \in Mid(c) : Shows(c, v[k], i)
  BY <1>1 DEF Listing
<1>4. PICK h \in Mid(c) : Shows(c, v[l], h)
  BY <1>2 DEF Listing
<1>5. Len(c) \in Nat /\ \A j \in 1..Len(c) : c[j].close \in Nat
  <2>1. Len(c) \in Nat /\ \A j \in 1..Len(c) : c[j] \in Candle
    BY DEF Reflects
  <2> QED  BY <2>1 DEF Candle
<1>6. i = h
  BY <1>3, <1>4, <1>5, SameBar
<1>7. ASSUME NEW p, NEW r, Shows(c, p, i), p.type = "SH", Shows(c, r, i), r.type = "SL",
             PassBars(c, p, maxAge) # {}, BackBars(c, p, maxAge) # {},
             PassBars(c, r, maxAge) # {}, BackBars(c, r, maxAge) # {}
      PROVE  FailBar(c, p, maxAge) # FailBar(c, r, maxAge)
  <2>1. p.price \in Nat /\ r.price \in Nat /\ r.price <= p.price
    BY <1>7, HighOverLow
  <2> QED  BY <1>5, <1>7, <2>1, OneFailure
<1>8. v[k].type \in {"SH", "SL"} /\ v[l].type \in {"SH", "SL"}
  BY <1>3, <1>4 DEF Shows
<1>9. v[k].type = v[l].type
  BY <1>1, <1>2, <1>3, <1>4, <1>6, <1>7, <1>8
<1> QED  BY <1>1, <1>2, <1>9, SamePlace

(* Every failed pivot of a series has its image among the failed ones of   *)
(* the image, failed at the same bar.                                      *)
LEMMA FailedPaired ==
    ASSUME NEW c, NEW d, Reflects(c, d), NEW t0 \in Int, Dated(c, t0),
           NEW s, NEW v, Listing(c, s, v), NEW w, Listing(d, s, w), NEW maxAge \in Nat
    PROVE  /\ Failed(c, v, maxAge) \subseteq 1..Len(v)
           /\ FailedAt(c, v, maxAge) \in [Failed(c, v, maxAge) -> 1..Len(c)]
           /\ Paired(v, w, Failed(c, v, maxAge), FailedAt(c, v, maxAge), FailedAt(d, w, maxAge))
<1>1. \A k \in Failed(c, v, maxAge) :
           /\ k \in 1..Len(v) /\ FailBar(c, v[k], maxAge) \in 1..Len(c)
           /\ \E m \in Failed(d, w, maxAge) :
                 Image(v[k], w[m]) /\ FailBar(d, w[m], maxAge) = FailBar(c, v[k], maxAge)
  BY FailedTyped
<1>2. FailedAt(c, v, maxAge) \in [Failed(c, v, maxAge) -> 1..Len(c)]
  BY <1>1 DEF FailedAt
<1>3. Paired(v, w, Failed(c, v, maxAge), FailedAt(c, v, maxAge), FailedAt(d, w, maxAge))
  BY <1>1 DEF Paired, FailedAt
<1> QED  BY <1>1, <1>2, <1>3

(* The failed breakout of the image is the image of the failure. *)
LEMMA FailureFacing ==
    ASSUME NEW c, NEW d, Reflects(c, d), NEW t0 \in Int, Dated(c, t0),
           NEW s, NEW v, Listing(c, s, v), NEW w, Listing(d, s, w), NEW maxAge \in Nat,
           NEW a, a = DetectFailedBreakout(c, v, maxAge),
           NEW b, b = DetectFailedBreakout(d, w, maxAge)
    PROVE  b.direction = Twin(a.direction) /\ b.level = Flip(a.level) /\ b.age = a.age
<1>1. Reflects(d, c) /\ Dated(d, t0)
  BY ReflectsBack, DatedFacing
<1>2. PICK n \in Nat : n = Len(c) /\ n = Len(d)
  BY DEF Reflects
<1>3. PICK F, G, at, bt : /\ F = Failed(c, v, maxAge) /\ G = Failed(d, w, maxAge)
                          /\ at = FailedAt(c, v, maxAge) /\ bt = FailedAt(d, w, maxAge)
  OBVIOUS
<1>4. /\ F \subseteq 1..Len(v) /\ at \in [F -> 1..n] /\ Paired(v, w, F, at, bt)
      /\ Apart(v, F, at)
  BY <1>2, <1>3, FailedPaired, FailedApart
<1>5. G \subseteq 1..Len(w) /\ bt \in [G -> 1..n] /\ Paired(w, v, G, bt, at)
  BY <1>1, <1>2, <1>3, FailedPaired
<1>6. v \in Seq(Shown) /\ InOrder(v) /\ w \in Seq(Shown) /\ InOrder(w)
  BY ListingInOrder
<1>7. a = IF n < 3 \/ F = {} THEN NoFailure
          ELSE FailureOf(c, v[Freshest(at)], FailBar(c, v[Freshest(at)], maxAge))
  BY <1>2, <1>3, FailureDetected, Zenon
<1>8. b = IF n < 3 \/ G = {} THEN NoFailure
          ELSE FailureOf(d, w[Freshest(bt)], FailBar(d, w[Freshest(bt)], maxAge))
  BY <1>2, <1>3, FailureDetected, Zenon
<1>9. F = {} <=> G = {}
  BY <1>4, <1>5 DEF Paired
<1>10. CASE n < 3 \/ F = {}
  <2>1. a = NoFailure /\ b = NoFailure
    BY <1>7, <1>8, <1>9, <1>10
  <2>2. Twin("") = "" /\ Flip(0) = 0
    BY TwinTable DEF IsTwin, Flip
  <2>3. NoFailure.direction = "" /\ NoFailure.level = 0
    BY DEF NoFailure
  <2> QED  BY <2>1, <2>2, <2>3, Zenon
<1>11. CASE ~(n < 3 \/ F = {})
  <2>0. F # {}
    BY <1>11
  <2>1. /\ Freshest(at) \in F /\ Freshest(bt) \in G
        /\ at[Freshest(at)] = bt[Freshest(bt)]
        /\ Image(v[Freshest(at)], w[Freshest(bt)])
    <3>1. SamePicks(n, v, w, F, at, G, bt)
      BY <1>2, <1>4, <1>5, <1>6 DEF SamePicks
    <3> QED  BY <2>0, <3>1, SameChoice
  <2>2. PICK p, q, j : /\ p = v[Freshest(at)] /\ q = w[Freshest(bt)] /\ Image(p, q)
                       /\ j = FailBar(c, p, maxAge) /\ j = FailBar(d, q, maxAge)
    <3>1. /\ at[Freshest(at)] = FailBar(c, v[Freshest(at)], maxAge)
          /\ bt[Freshest(bt)] = FailBar(d, w[Freshest(bt)], maxAge)
      BY <1>3, <2>1 DEF FailedAt
    <3> QED  BY <2>1, <3>1
  <2>3. a = FailureOf(c, p, j) /\ b = FailureOf(d, q, j)
    BY <1>7, <1>8, <1>9, <1>11, <2>2
  <2>4. q.price = Flip(p.price)
    BY <2>2, FlipOf DEF Image
  <2>5. Twin("failed_up") = "failed_down" /\ Twin("failed_down") = "failed_up"
    BY TwinTable DEF IsTwin
  <2>6. p.type \in {"SH", "SL"} /\ q.type = IF p.type = "SH" THEN "SL" ELSE "SH"
    BY <2>2 DEF Image, Opposite
  <2>7. b.direction = Twin(a.direction)
    BY <2>3, <2>5, <2>6 DEF FailureOf
  <2> QED  BY <1>2, <2>3, <2>4, <2>7 DEF FailureOf
<1> QED  BY <1>10, <1>11

-----------------------------------------------------------------------------
(* The prices of a bar and of its image. *)
LEMMA PricesFacing ==
    ASSUME NEW c, NEW d, Reflects(c, d), NEW i \in 1..Len(c)
    PROVE  /\ c[i].high \in Nat /\ c[i].low \in Nat /\ c[i].open \in Nat /\ c[i].close \in Nat
           /\ d[i].high \in Nat /\ d[i].low \in Nat /\ d[i].open \in Nat /\ d[i].close \in Nat
           /\ c[i].open + d[i].open = MirrorPrice /\ c[i].close + d[i].close = MirrorPrice
           /\ c[i].high + d[i].low = MirrorPrice /\ c[i].low + d[i].high = MirrorPrice
           /\ c[i].low > 0 /\ c[i].high > 0 /\ d[i].low > 0 /\ d[i].high > 0
           /\ c[i].low <= c[i].high /\ d[i].low <= d[i].high
           /\ c[i].time = d[i].time
<1>1. PICK b, e : b = c[i] /\ e = d[i] /\ Facing(b, e)
  BY DEF Reflects
<1>2. ASSUME NEW u, Upright(u)
      PROVE  /\ u.high \in Nat /\ u.low \in Nat /\ u.open \in Nat /\ u.close \in Nat
             /\ u.low > 0 /\ u.low <= u.high /\ u.high > 0
  <2>1. u.high \in Nat /\ u.low \in Nat /\ u.open \in Nat /\ u.close \in Nat
    BY <1>2 DEF Upright, Candle
  <2>2. u.low > 0 /\ u.low <= u.open /\ u.open <= u.high
    BY <1>2, <2>1 DEF Upright
  <2> QED  BY <2>1, <2>2
<1>3. Upright(b) /\ Upright(e)
  BY <1>1 DEF Facing
<1> QED  BY <1>1, <1>2, <1>3 DEF Facing

(* A bullish gap is a bearish one in the image, and bar i completes one of *)
(* them only.                                                              *)
LEMMA GapFacing ==
    ASSUME NEW c, NEW d, Reflects(c, d), NEW i \in 3..Len(c)
    PROVE  /\ BullGap(c, i) <=> BearGap(d, i)
           /\ BearGap(c, i) <=> BullGap(d, i)
           /\ ~(BullGap(c, i) /\ BearGap(c, i))
<1>1. Len(c) \in Nat
  BY DEF Reflects
<1>2. i \in 1..Len(c) /\ i - 2 \in 1..Len(c)
  BY <1>1
<1>a. ASSUME NEW j \in 1..Len(c)
      PROVE  /\ c[j].high \in Nat /\ c[j].low \in Nat /\ d[j].high \in Nat /\ d[j].low \in Nat
             /\ c[j].high + d[j].low = MirrorPrice /\ c[j].low + d[j].high = MirrorPrice
             /\ c[j].low <= c[j].high
  BY PricesFacing
<1>3. PICK h, l, h2, l2 : h = c[i].high /\ l = c[i].low /\ h2 = c[i - 2].high /\ l2 = c[i - 2].low
  OBVIOUS
<1>4. PICK g, k, g2, k2 : g = d[i].high /\ k = d[i].low /\ g2 = d[i - 2].high /\ k2 = d[i - 2].low
  OBVIOUS
<1>b. /\ h \in Nat /\ l \in Nat /\ g \in Nat /\ k \in Nat
      /\ h + k = MirrorPrice /\ l + g = MirrorPrice /\ l <= h
  BY <1>2, <1>3, <1>4, <1>a
<1>c. /\ h2 \in Nat /\ l2 \in Nat /\ g2 \in Nat /\ k2 \in Nat
      /\ h2 + k2 = MirrorPrice /\ l2 + g2 = MirrorPrice /\ l2 <= h2
  BY <1>2, <1>3, <1>4, <1>a
<1>5. h + k = l + g /\ h2 + k2 = l + g /\ l2 + g2 = l + g
  BY <1>b, <1>c
<1>6. l > h2 <=> g < k2
  BY <1>5, <1>b, <1>c
<1>7. h < l2 <=> k > g2
  BY <1>5, <1>b, <1>c
<1>8. ~(l > h2 /\ h < l2)
  BY <1>b, <1>c
<1> QED  BY <1>3, <1>4, <1>6, <1>7, <1>8 DEF BullGap, BearGap

(* The edges of the gap that bar i completed, and what a later bar does.   *)
Edges(c, i) ==
    IF BullGap(c, i) THEN <<c[i].low, c[i - 2].high>> ELSE <<c[i - 2].low, c[i].high>>

(* The gap of a bar by its two edges, whichever way it points.             *)
LEMMA GapState ==
    ASSUME NEW c, NEW i
    PROVE  GapAt(c, i) = [direction |-> IF BullGap(c, i) THEN "bull" ELSE "bear",
                          top |-> Edges(c, i)[1], bottom |-> Edges(c, i)[2],
                          age |-> Len(c) - i,
                          state |-> IF \E j \in (i + 1)..Len(c) :
                                         IF BullGap(c, i)
                                           THEN c[j].low < Edges(c, i)[1] /\ c[j].low > Edges(c, i)[2]
                                           ELSE c[j].high > Edges(c, i)[2] /\ c[j].high < Edges(c, i)[1]
                                    THEN "filling" ELSE "open"]
<1>1. CASE BullGap(c, i)
  BY <1>1 DEF GapAt, Edges
<1>2. CASE ~BullGap(c, i)
  BY <1>2 DEF GapAt, Edges
<1> QED  BY <1>1, <1>2

(* The gap of the image is the image of the gap, filled or being filled by *)
(* the same bars.                                                          *)
LEMMA GapAtFacing ==
    ASSUME NEW c, NEW d, Reflects(c, d), NEW i \in 3..Len(c), BullGap(c, i), BearGap(d, i)
    PROVE  /\ GapAt(c, i).direction = "bull" /\ GapAt(d, i).direction = "bear"
           /\ GapAt(c, i).top \in Nat /\ GapAt(c, i).bottom \in Nat
           /\ GapAt(d, i).top \in Nat /\ GapAt(d, i).bottom \in Nat
           /\ GapAt(c, i).top > 0 /\ GapAt(c, i).bottom > 0
           /\ GapAt(d, i).top > 0 /\ GapAt(d, i).bottom > 0
           /\ GapAt(c, i).top + GapAt(d, i).bottom = MirrorPrice
           /\ GapAt(c, i).bottom + GapAt(d, i).top = MirrorPrice
           /\ GapAt(c, i).age = GapAt(d, i).age
           /\ GapAt(c, i).state = GapAt(d, i).state
           /\ GapFilled(c, i) <=> GapFilled(d, i)
<1>0. PICK n \in Nat : n = Len(c) /\ n = Len(d)
  BY DEF Reflects
<1>1. i \in 1..n /\ i - 2 \in 1..n /\ \A j \in (i + 1)..n : j \in 1..n
  BY <1>0
<1>2. ~BullGap(d, i)
  <2>1. Reflects(d, c) /\ i \in 3..Len(d)
    BY <1>0, ReflectsBack
  <2> QED  BY <2>1, GapFacing
<1>3. PICK top, bot, top2, bot2 :
        /\ top = c[i].low /\ bot = c[i - 2].high /\ top2 = d[i - 2].low /\ bot2 = d[i].high
  OBVIOUS
<1>4. /\ top \in Nat /\ bot \in Nat /\ top2 \in Nat /\ bot2 \in Nat
      /\ top > 0 /\ bot > 0 /\ top2 > 0 /\ bot2 > 0
      /\ top + bot2 = MirrorPrice /\ bot + top2 = MirrorPrice
  <2>1. top \in Nat /\ top > 0 /\ bot2 \in Nat /\ bot2 > 0 /\ top + bot2 = MirrorPrice
    <3>1. i \in 1..Len(c)
      BY <1>0, <1>1
    <3> QED  BY <1>3, <3>1, PricesFacing
  <2>2. PICK j \in 1..Len(c) : j = i - 2
    BY <1>0, <1>1
  <2>3. c[j].high \in Nat /\ c[j].high > 0 /\ d[j].low \in Nat /\ d[j].low > 0
        /\ c[j].high + d[j].low = MirrorPrice
    BY PricesFacing
  <2> QED  BY <1>3, <2>1, <2>2, <2>3
<1>5. Edges(c, i)[1] = top /\ Edges(c, i)[2] = bot /\ Edges(d, i)[1] = top2 /\ Edges(d, i)[2] = bot2
  BY <1>2, <1>3 DEF Edges
<1>6. ASSUME NEW j \in (i + 1)..n
      PROVE  /\ c[j].low < top <=> d[j].high > bot2
             /\ c[j].low > bot <=> d[j].high < top2
             /\ c[j].low <= bot <=> d[j].high >= top2
  <2>1. PICK l, g : l = c[j].low /\ g = d[j].high
    OBVIOUS
  <2>4. l \in Nat /\ g \in Nat /\ l + g = MirrorPrice
    <3>1. j \in 1..Len(c)
      BY <1>0, <1>1
    <3> QED  BY <2>1, <3>1, PricesFacing
  <2>2. l + g = top + bot2 /\ l + g = bot + top2
    BY <1>4, <2>4
  <2>3. (l < top <=> g > bot2) /\ (l > bot <=> g < top2) /\ (l <= bot <=> g >= top2)
    BY <1>4, <2>2, <2>4
  <2> QED  BY <2>1, <2>3
<1>7. GapAt(c, i) = [direction |-> "bull", top |-> top, bottom |-> bot, age |-> n - i,
                     state |-> IF \E j \in (i + 1)..n : c[j].low < top /\ c[j].low > bot
                               THEN "filling" ELSE "open"]
  BY <1>0, <1>5, GapState
<1>8. GapAt(d, i) = [direction |-> "bear", top |-> top2, bottom |-> bot2, age |-> n - i,
                     state |-> IF \E j \in (i + 1)..n : d[j].high > bot2 /\ d[j].high < top2
                               THEN "filling" ELSE "open"]
  BY <1>0, <1>2, <1>5, GapState
<1>9. GapFilled(c, i) <=> GapFilled(d, i)
  <2>1. GapFilled(c, i) <=> \E j \in (i + 1)..n : c[j].low <= bot
    BY <1>0, <1>3 DEF GapFilled
  <2>2. GapFilled(d, i) <=> \E j \in (i + 1)..n : d[j].high >= top2
    BY <1>0, <1>2, <1>3 DEF GapFilled
  <2> QED  BY <1>6, <2>1, <2>2
<1>10. GapAt(c, i).state = GapAt(d, i).state
  BY <1>6, <1>7, <1>8
<1> QED  BY <1>4, <1>7, <1>8, <1>9, <1>10

-----------------------------------------------------------------------------
(* Every bar's gap, of either kind, and its image. *)
GapsMirror(a, b) ==
    /\ b.direction = Twin(a.direction)
    /\ b.top = Flip(a.bottom) /\ b.bottom = Flip(a.top)
    /\ b.age = a.age /\ b.state = a.state

(* The gap of a bar is mirrored by the gap of its image, as open or as     *)
(* filled as it is.                                                        *)
LEMMA GapAtMirrors ==
    ASSUME NEW c, NEW d, Reflects(c, d), NEW i \in 3..Len(c), BullGap(c, i) \/ BearGap(c, i)
    PROVE  /\ GapsMirror(GapAt(c, i), GapAt(d, i))
           /\ GapFilled(c, i) <=> GapFilled(d, i)
           /\ GapAt(c, i).state = GapAt(d, i).state
<1>1. Reflects(d, c) /\ i \in 3..Len(d)
  BY ReflectsBack DEF Reflects
<1>2. Twin("bull") = "bear" /\ Twin("bear") = "bull"
  BY TwinTable DEF IsTwin
<1>3. CASE BullGap(c, i)
  <2>1. BearGap(d, i)
    BY <1>3, GapFacing
  <2>2. PICK a, b : a = GapAt(c, i) /\ b = GapAt(d, i)
    OBVIOUS
  <2>3. /\ a.direction = "bull" /\ b.direction = "bear"
        /\ a.top \in Nat /\ a.bottom \in Nat /\ b.top \in Nat /\ b.bottom \in Nat
        /\ a.top > 0 /\ a.bottom > 0
        /\ a.top + b.bottom = MirrorPrice /\ a.bottom + b.top = MirrorPrice
        /\ a.age = b.age /\ a.state = b.state /\ (GapFilled(c, i) <=> GapFilled(d, i))
    BY <1>3, <2>1, <2>2, GapAtFacing
  <2>4. b.bottom = Flip(a.top)
    BY <2>3, FlipOf
  <2>5. b.top = Flip(a.bottom)
    BY <2>3, FlipOf
  <2> QED  BY <1>2, <2>2, <2>3, <2>4, <2>5 DEF GapsMirror
<1>4. CASE BearGap(c, i)
  <2>1. BullGap(d, i)
    BY <1>4, GapFacing
  <2>2. PICK a, b : a = GapAt(c, i) /\ b = GapAt(d, i)
    OBVIOUS
  <2>3. /\ a.direction = "bear" /\ b.direction = "bull"
        /\ a.top \in Nat /\ a.bottom \in Nat /\ b.top \in Nat /\ b.bottom \in Nat
        /\ a.top > 0 /\ a.bottom > 0
        /\ b.top + a.bottom = MirrorPrice /\ b.bottom + a.top = MirrorPrice
        /\ a.age = b.age /\ a.state = b.state /\ (GapFilled(c, i) <=> GapFilled(d, i))
    BY <1>1, <1>4, <2>1, <2>2, GapAtFacing
  <2>6. a.top + b.bottom = MirrorPrice /\ a.bottom + b.top = MirrorPrice
    BY <2>3
  <2>4. b.bottom = Flip(a.top)
    BY <2>3, <2>6, FlipOf
  <2>5. b.top = Flip(a.bottom)
    BY <2>3, <2>6, FlipOf
  <2> QED  BY <1>2, <2>2, <2>3, <2>4, <2>5 DEF GapsMirror
<1> QED  BY <1>3, <1>4

(* The gaps of the window that are not filled, those being filled, and the *)
(* one that is reported.                                                   *)
GapsLeft(c, maxAge) ==
    {i \in Max({3, WindowStart(c, maxAge)})..Len(c) :
        (BullGap(c, i) \/ BearGap(c, i)) /\ ~GapFilled(c, i)}
GapsFilling(c, maxAge) == {i \in GapsLeft(c, maxAge) : GapAt(c, i).state = "filling"}
GapChosen(c, maxAge) ==
    Max(IF GapsFilling(c, maxAge) # {} THEN GapsFilling(c, maxAge) ELSE GapsLeft(c, maxAge))

(* The gap reported as one expression: none, or the newest being filled,   *)
(* or else the newest.                                                     *)
LEMMA GapDetected ==
    ASSUME NEW c, NEW maxAge
    PROVE  DetectRecentFVG(c, maxAge) =
             IF Len(c) < 3 \/ maxAge < 3 \/ GapsLeft(c, maxAge) = {} THEN NoGap
             ELSE GapAt(c, GapChosen(c, maxAge))
  BY Zenon DEF DetectRecentFVG, GapsLeft, GapsFilling, GapChosen

(* A gap that is left lies at a bar with two before it.                    *)
LEMMA GapsLeftTyped ==
    ASSUME NEW c, Len(c) \in Nat, NEW maxAge \in Nat
    PROVE  GapsLeft(c, maxAge) \subseteq 3..Len(c)
<1>1. WindowStart(c, maxAge) \in Nat
  BY WindowTyped
<1>2. PICK m : m = Max({3, WindowStart(c, maxAge)})
  OBVIOUS
<1>3. m \in Int /\ m >= 3
  BY <1>1, <1>2, MaxOfTwo
<1> QED  BY <1>2, <1>3 DEF GapsLeft

(* Every gap that is left in a series is left in its image.                *)
LEMMA GapsLeftFacing ==
    ASSUME NEW c, NEW d, Reflects(c, d), NEW maxAge \in Nat
    PROVE  GapsLeft(c, maxAge) \subseteq GapsLeft(d, maxAge)
<1>1. Len(c) = Len(d) /\ Len(c) \in Nat
  BY DEF Reflects
<1>2. WindowStart(c, maxAge) = WindowStart(d, maxAge)
  BY <1>1 DEF WindowStart
<1> SUFFICES ASSUME NEW i \in GapsLeft(c, maxAge) PROVE i \in GapsLeft(d, maxAge)
  OBVIOUS
<1>3. i \in 3..Len(c) /\ (BullGap(c, i) \/ BearGap(c, i)) /\ ~GapFilled(c, i)
  <2>1. i \in 3..Len(c)
    BY <1>1, GapsLeftTyped
  <2> QED  BY <2>1 DEF GapsLeft
<1>4. ~GapFilled(d, i)
  BY <1>3, GapAtMirrors
<1>5. BullGap(d, i) \/ BearGap(d, i)
  BY <1>3, GapFacing
<1>6. i \in Max({3, WindowStart(d, maxAge)})..Len(d)
  BY <1>1, <1>2 DEF GapsLeft
<1> QED  BY <1>4, <1>5, <1>6 DEF GapsLeft

(* The gap of the image is the image of the gap. *)
LEMMA GapsFacing ==
    ASSUME NEW c, NEW d, Reflects(c, d), NEW maxAge \in Nat
    PROVE  GapsMirror(DetectRecentFVG(c, maxAge), DetectRecentFVG(d, maxAge))
<1>1. Len(c) = Len(d) /\ Len(c) \in Nat /\ Reflects(d, c)
  BY ReflectsBack DEF Reflects
<1>2. PICK G : G = GapsLeft(c, maxAge) /\ G = GapsLeft(d, maxAge) /\ G \subseteq 3..Len(c)
  <2>1. GapsLeft(c, maxAge) \subseteq GapsLeft(d, maxAge)
    BY GapsLeftFacing
  <2>2. GapsLeft(d, maxAge) \subseteq GapsLeft(c, maxAge)
    BY <1>1, GapsLeftFacing
  <2>3. GapsLeft(c, maxAge) = GapsLeft(d, maxAge)
    BY <2>1, <2>2
  <2>4. GapsLeft(c, maxAge) \subseteq 3..Len(c)
    BY <1>1, GapsLeftTyped
  <2> QED  BY <2>3, <2>4
<1>3. \A i \in G : BullGap(c, i) \/ BearGap(c, i)
  BY <1>2 DEF GapsLeft
<1>4. PICK H : H = GapsFilling(c, maxAge) /\ H = GapsFilling(d, maxAge) /\ H \subseteq G
  <2>1. \A i \in G : GapAt(c, i).state = GapAt(d, i).state
    BY <1>2, <1>3, GapAtMirrors
  <2> QED  BY <1>2, <2>1 DEF GapsFilling
<1>5. CASE Len(c) < 3 \/ maxAge < 3 \/ G = {}
  <2>1. DetectRecentFVG(c, maxAge) = NoGap
    BY <1>2, <1>5, GapDetected
  <2>2. DetectRecentFVG(d, maxAge) = NoGap
    BY <1>1, <1>2, <1>5, GapDetected
  <2>3. Twin("") = "" /\ Flip(0) = 0
    BY TwinTable DEF IsTwin, Flip
  <2>4. NoGap.direction = "" /\ NoGap.top = 0 /\ NoGap.bottom = 0
    BY DEF NoGap
  <2> QED  BY <2>1, <2>2, <2>3, <2>4, Zenon DEF GapsMirror
<1>6. CASE ~(Len(c) < 3 \/ maxAge < 3 \/ G = {})
  <2>1. PICK i : i = GapChosen(c, maxAge) /\ i = GapChosen(d, maxAge)
    BY <1>2, <1>4 DEF GapChosen
  <2>2. i \in G
    <3> DEFINE K == IF H # {} THEN H ELSE G
    <3>1. K \subseteq 1..Len(c) /\ K # {} /\ K \subseteq G
      BY <1>1, <1>2, <1>4, <1>6
    <3>2. i = Max(K)
      BY <1>2, <1>4, <2>1 DEF GapChosen
    <3> HIDE DEF K
    <3> QED  BY <1>1, <3>1, <3>2, MaxIsGreatest
  <2>3. GapsMirror(GapAt(c, i), GapAt(d, i))
    BY <1>2, <1>3, <2>2, GapAtMirrors
  <2>4. DetectRecentFVG(c, maxAge) = GapAt(c, i)
    BY <1>2, <1>6, <2>1, GapDetected
  <2>5. DetectRecentFVG(d, maxAge) = GapAt(d, i)
    BY <1>1, <1>2, <1>6, <2>1, GapDetected
  <2> QED  BY <2>3, <2>4, <2>5
<1> QED  BY <1>5, <1>6

-----------------------------------------------------------------------------
(* The highest of the bars and the lowest of their images add up. *)
FacingSets(n, g, h, S, T) ==
    /\ n \in Nat \ {0} /\ S = {g[i] : i \in 1..n} /\ T = {h[i] : i \in 1..n}
    /\ \A i \in 1..n : g[i] \in Nat /\ h[i] \in Nat /\ g[i] + h[i] = MirrorPrice

(* The greatest of some prices and the least of their images are images of *)
(* each other.                                                             *)
LEMMA ExtremesFacing ==
    ASSUME NEW n, NEW g, NEW h, NEW S, NEW T, FacingSets(n, g, h, S, T)
    PROVE  Max(S) \in Nat /\ Min(T) \in Nat /\ Max(S) + Min(T) = MirrorPrice
<1>0. /\ n \in Nat \ {0} /\ S = {g[i] : i \in 1..n} /\ T = {h[i] : i \in 1..n}
      /\ \A i \in 1..n : g[i] \in Nat /\ h[i] \in Nat /\ g[i] + h[i] = MirrorPrice
  BY DEF FacingSets
<1> USE <1>0
<1>1. T \subseteq Nat /\ T # {}
  <2>1. h[1] \in T
    OBVIOUS
  <2> QED  BY <2>1
<1>2. Min(T) \in T /\ \A u \in T : Min(T) <= u
  BY <1>1, MinIsLeast
<1>3. PICK m \in 1..n : Min(T) = h[m]
  BY <1>2
<1>4. \A i \in 1..n : Min(T) <= h[i]
  BY <1>2
<1>5. \A i \in 1..n : g[i] <= g[m]
  BY <1>3, <1>4
<1>6. S \subseteq Int /\ g[m] \in S /\ \A u \in S : u <= g[m]
  BY <1>5
<1>7. Max(S) = g[m]
  BY <1>6, NewestIsMax
<1> QED  BY <1>3, <1>7

(* The bars of the range's window, and the parts of its answer. *)
Slice(c, window) == SubSeq(c, Len(c) - window + 1, Len(c))
Top(s, window) == Max({s[i].high : i \in 1..window})
Bottom(s, window) == Min({s[i].low : i \in 1..window})
TouchTop(s, atr, window) == {i \in 1..window : WithinTolerance(Top(s, window) - s[i].high, atr)}
TouchBottom(s, atr, window) == {i \in 1..window : WithinTolerance(s[i].low - Bottom(s, window), atr)}
Outside(s, atr, window) ==
    {i \in 1..window : \/ ~WithinTolerance(s[i].high - Top(s, window), atr)
                       \/ ~WithinTolerance(Bottom(s, window) - s[i].low, atr)}

RangeOf(s, atr, window) ==
    IF Top(s, window) - Bottom(s, window) > WidthMax * atr
    THEN [NoRange EXCEPT !.top = Top(s, window), !.bottom = Bottom(s, window)]
    ELSE [isRange |-> /\ Cardinality(TouchTop(s, atr, window)) >= MinTouches
                      /\ Cardinality(TouchBottom(s, atr, window)) >= MinTouches,
          top     |-> Top(s, window),
          bottom  |-> Bottom(s, window),
          age     |-> IF Outside(s, atr, window) = {} THEN window
                      ELSE window - Max(Outside(s, atr, window))]

(* The range as one expression of the window: its edges, the bars that     *)
(* touch them and the last bar outside.                                    *)
LEMMA RangeDetected ==
    ASSUME NEW c, NEW atr, NEW window
    PROVE  DetectRange(c, atr, window) =
             IF Len(c) < window \/ atr <= 0 THEN NoRange ELSE RangeOf(Slice(c, window), atr, window)
  BY Zenon DEF DetectRange, RangeOf, Slice, Top, Bottom, TouchTop, TouchBottom, Outside

(* The window over the image is the image of the window.                   *)
LEMMA SliceFacing ==
    ASSUME NEW c, NEW d, Reflects(c, d), NEW window \in Nat, window <= Len(c)
    PROVE  \A i \in 1..window : /\ Slice(c, window)[i].high \in Nat /\ Slice(c, window)[i].low \in Nat
                                /\ Slice(d, window)[i].high \in Nat /\ Slice(d, window)[i].low \in Nat
                                /\ Slice(c, window)[i].high + Slice(d, window)[i].low = MirrorPrice
                                /\ Slice(c, window)[i].low + Slice(d, window)[i].high = MirrorPrice
<1>1. PICK n \in Nat : n = Len(c) /\ n = Len(d) /\ c \in Seq(Candle) /\ d \in Seq(Candle)
  BY DEF Reflects
<1> SUFFICES ASSUME NEW i \in 1..window
             PROVE  /\ Slice(c, window)[i].high \in Nat /\ Slice(c, window)[i].low \in Nat
                    /\ Slice(d, window)[i].high \in Nat /\ Slice(d, window)[i].low \in Nat
                    /\ Slice(c, window)[i].high + Slice(d, window)[i].low = MirrorPrice
                    /\ Slice(c, window)[i].low + Slice(d, window)[i].high = MirrorPrice
  OBVIOUS
<1>w. window <= n
  BY <1>1
<1>2. PICK k \in Nat : k = n - window
  BY <1>w
<1>3. k + i \in 1..n
  BY <1>2
<1>4. Slice(c, window)[i] = c[k + i] /\ Slice(d, window)[i] = d[k + i]
  <2>1. \A s \in Seq(Candle) : Len(s) = n => SubSeq(s, k + 1, n)[i] = s[k + i]
    BY <1>1, <1>2
  <2> QED  BY <1>1, <1>2, <2>1 DEF Slice
<1>5. k + i \in 1..Len(c)
  BY <1>1, <1>3
<1> QED  BY <1>4, <1>5, PricesFacing

(* A range is a range upside down, and as old. *)
LEMMA RangeFacing ==
    ASSUME NEW c, NEW d, Reflects(c, d), NEW atr \in Nat, NEW window \in Nat,
           NEW a, a = DetectRange(c, atr, window), NEW b, b = DetectRange(d, atr, window)
    PROVE  a.isRange = b.isRange /\ a.age = b.age
<1>1. PICK n \in Nat : n = Len(c) /\ n = Len(d)
  BY DEF Reflects
<1>2. PICK s, t : s = Slice(c, window) /\ t = Slice(d, window)
  OBVIOUS
<1>3. /\ a = IF n < window \/ atr <= 0 THEN NoRange ELSE RangeOf(s, atr, window)
      /\ b = IF n < window \/ atr <= 0 THEN NoRange ELSE RangeOf(t, atr, window)
  BY <1>1, <1>2, RangeDetected
<1>4. CASE n < window \/ atr <= 0
  BY <1>3, <1>4
<1>5. CASE ~(n < window \/ atr <= 0) /\ window = 0
  <2>1. 1..window = {}
    BY <1>5
  <2>2. /\ Top(s, window) = Max({}) /\ Top(t, window) = Max({})
        /\ Bottom(s, window) = Min({}) /\ Bottom(t, window) = Min({})
    BY <2>1 DEF Top, Bottom
  <2>3. /\ TouchTop(s, atr, window) = {} /\ TouchTop(t, atr, window) = {}
        /\ TouchBottom(s, atr, window) = {} /\ TouchBottom(t, atr, window) = {}
        /\ Outside(s, atr, window) = {} /\ Outside(t, atr, window) = {}
    BY <2>1 DEF TouchTop, TouchBottom, Outside
  <2>4. RangeOf(s, atr, window) = RangeOf(t, atr, window)
    BY <2>2, <2>3 DEF RangeOf
  <2> QED  BY <1>3, <1>5, <2>4
<1>6. CASE ~(n < window \/ atr <= 0) /\ window # 0
  <2>1. \A i \in 1..window : /\ s[i].high \in Nat /\ s[i].low \in Nat /\ t[i].high \in Nat /\ t[i].low \in Nat
                             /\ s[i].high + t[i].low = MirrorPrice /\ s[i].low + t[i].high = MirrorPrice
    <3>1. window <= Len(c)
      BY <1>1, <1>6
    <3> QED  BY <1>2, <3>1, SliceFacing
  <2>2. /\ Top(s, window) \in Nat /\ Bottom(t, window) \in Nat
        /\ Top(s, window) + Bottom(t, window) = MirrorPrice
    <3> DEFINE g == [i \in 1..window |-> s[i].high]
               h == [i \in 1..window |-> t[i].low]
    <3>1. \A i \in 1..window : g[i] \in Nat /\ h[i] \in Nat /\ g[i] + h[i] = MirrorPrice
      BY <2>1
    <3>2. PICK S, T : /\ S = {g[i] : i \in 1..window} /\ S = {s[i].high : i \in 1..window}
                      /\ T = {h[i] : i \in 1..window} /\ T = {t[i].low : i \in 1..window}
      OBVIOUS
    <3>3. window \in Nat \ {0}
      BY <1>6
    <3> HIDE DEF g, h
    <3>4. Max(S) \in Nat /\ Min(T) \in Nat /\ Max(S) + Min(T) = MirrorPrice
      <4>1. FacingSets(window, g, h, S, T)
        BY <3>1, <3>2, <3>3 DEF FacingSets
      <4> QED  BY <4>1, ExtremesFacing
    <3> QED  BY <3>2, <3>4 DEF Top, Bottom
  <2>3. /\ Top(t, window) \in Nat /\ Bottom(s, window) \in Nat
        /\ Top(t, window) + Bottom(s, window) = MirrorPrice
    <3> DEFINE g == [i \in 1..window |-> t[i].high]
               h == [i \in 1..window |-> s[i].low]
    <3>1. \A i \in 1..window : g[i] \in Nat /\ h[i] \in Nat /\ g[i] + h[i] = MirrorPrice
      BY <2>1
    <3>2. PICK S, T : /\ S = {g[i] : i \in 1..window} /\ S = {t[i].high : i \in 1..window}
                      /\ T = {h[i] : i \in 1..window} /\ T = {s[i].low : i \in 1..window}
      OBVIOUS
    <3>3. window \in Nat \ {0}
      BY <1>6
    <3> HIDE DEF g, h
    <3>4. Max(S) \in Nat /\ Min(T) \in Nat /\ Max(S) + Min(T) = MirrorPrice
      <4>1. FacingSets(window, g, h, S, T)
        BY <3>1, <3>2, <3>3 DEF FacingSets
      <4> QED  BY <4>1, ExtremesFacing
    <3> QED  BY <3>2, <3>4 DEF Top, Bottom
  <2>4. \A i \in 1..window :
           /\ Top(s, window) - s[i].high = t[i].low - Bottom(t, window)
           /\ s[i].low - Bottom(s, window) = Top(t, window) - t[i].high
           /\ s[i].high - Top(s, window) = Bottom(t, window) - t[i].low
           /\ Bottom(s, window) - s[i].low = t[i].high - Top(t, window)
    <3> SUFFICES ASSUME NEW i \in 1..window
                 PROVE  /\ Top(s, window) - s[i].high = t[i].low - Bottom(t, window)
                        /\ s[i].low - Bottom(s, window) = Top(t, window) - t[i].high
                        /\ s[i].high - Top(s, window) = Bottom(t, window) - t[i].low
                        /\ Bottom(s, window) - s[i].low = t[i].high - Top(t, window)
      OBVIOUS
    <3>1. PICK x, y, u, v : x = s[i].high /\ y = t[i].low /\ u = Top(s, window) /\ v = Bottom(t, window)
      OBVIOUS
    <3>2. x \in Nat /\ y \in Nat /\ u \in Nat /\ v \in Nat /\ x + y = u + v
      BY <2>1, <2>2, <3>1
    <3>3. u - x = y - v /\ x - u = v - y
      BY <3>2
    <3>4. PICK p, q, e, f : p = t[i].high /\ q = s[i].low /\ e = Top(t, window) /\ f = Bottom(s, window)
      OBVIOUS
    <3>5. p \in Nat /\ q \in Nat /\ e \in Nat /\ f \in Nat /\ p + q = e + f
      BY <2>1, <2>3, <3>4
    <3>6. q - f = e - p /\ f - q = p - e
      BY <3>5
    <3> QED  BY <3>1, <3>3, <3>4, <3>6
  <2>5. TouchTop(s, atr, window) = TouchBottom(t, atr, window) /\ TouchBottom(s, atr, window) = TouchTop(t, atr, window)
    BY <2>4 DEF TouchTop, TouchBottom
  <2>6. Outside(s, atr, window) = Outside(t, atr, window)
    BY <2>4 DEF Outside
  <2>7. Top(s, window) - Bottom(s, window) = Top(t, window) - Bottom(t, window)
    <3>1. Top(s, window) + Bottom(t, window) = Top(t, window) + Bottom(s, window)
      BY <2>2, <2>3
    <3> QED  BY <2>2, <2>3, <3>1
  <2>8. RangeOf(s, atr, window).isRange = RangeOf(t, atr, window).isRange
        /\ RangeOf(s, atr, window).age = RangeOf(t, atr, window).age
    <3>1. CASE Top(s, window) - Bottom(s, window) > WidthMax * atr
      BY <2>7, <3>1 DEF RangeOf, NoRange
    <3>2. CASE ~(Top(s, window) - Bottom(s, window) > WidthMax * atr)
      BY <2>5, <2>6, <2>7, <3>2 DEF RangeOf
    <3> QED  BY <3>1, <3>2
  <2> QED  BY <1>3, <1>6, <2>8
<1> QED  BY <1>4, <1>5, <1>6

-----------------------------------------------------------------------------
(* Levels that are each other's image; 0 is the image of 0.                *)
Faces(x, y) ==
    /\ x \in Nat /\ y \in Nat /\ (x = 0 <=> y = 0)
    /\ x # 0 => x + y = MirrorPrice

(* A level, or the 0 that says there is none, faces its mirror image.      *)
LEMMA FacesFlip ==
    ASSUME NEW x \in 0..(MirrorPrice - 1)
    PROVE  Faces(x, Flip(x)) /\ Faces(Flip(x), x)
<1>1. PICK m \in Nat : m = MirrorPrice
  BY MirrorConstants
<1>2. x \in Nat /\ x < m
  BY <1>1
<1>3. Flip(x) = IF x = 0 THEN 0 ELSE m - x
  BY <1>1 DEF Flip
<1>4. CASE x = 0
  BY <1>3, <1>4 DEF Faces
<1>5. CASE x # 0
  <2>1. PICK y : y = Flip(x)
    OBVIOUS
  <2>2. y = m - x
    BY <1>3, <1>5, <2>1
  <2>3. y \in Nat /\ y # 0 /\ x + y = m /\ y + x = m
    BY <1>2, <1>5, <2>2
  <2> QED  BY <1>1, <1>2, <1>5, <2>1, <2>3 DEF Faces
<1> QED  BY <1>4, <1>5

(* The confirmed bars of a kind. *)
Swings(c, type) == {i \in Mid(c) : Confirms(c, i, type)}

(* The last swing high and low are those of the newest bars that confirm   *)
(* one.                                                                    *)
LEMMA SwingsOf ==
    ASSUME NEW c
    PROVE  LET highs == Swings(c, "SH")
               lows  == Swings(c, "SL")
           IN  SwingHighLow(c, LeftRight) =
                 [high |-> IF highs = {} THEN 0 ELSE c[Max(highs)].high,
                  low  |-> IF lows = {} THEN 0 ELSE c[Max(lows)].low]
<1>1. \A i : Confirms(c, i, "SH") <=> isSwingHigh(c, i, LeftRight)
  BY DEF Confirms, isPivotHigh, isSwingHigh
<1>2. \A i : Confirms(c, i, "SL") <=> isSwingLow(c, i, LeftRight)
  BY DEF Confirms, isPivotLow, isSwingLow
<1>3. Swings(c, "SH") = {i \in (LeftRight + 1)..(Len(c) - LeftRight) : isSwingHigh(c, i, LeftRight)}
  BY <1>1 DEF Swings, Mid
<1>4. Swings(c, "SL") = {i \in (LeftRight + 1)..(Len(c) - LeftRight) : isSwingLow(c, i, LeftRight)}
  BY <1>2 DEF Swings, Mid
<1> QED  BY <1>3, <1>4 DEF SwingHighLow

(* The bars that confirm a high are those whose images confirm a low.      *)
LEMMA SwingsSame ==
    ASSUME NEW c, NEW d, Reflects(c, d)
    PROVE  Swings(c, "SH") = Swings(d, "SL") /\ Swings(c, "SL") = Swings(d, "SH")
<1>1. Reflects(d, c)
  BY ReflectsBack
<1>2. Mid(c) = Mid(d)
  BY DEF Reflects, Mid
<1>3. Opposite("SH") = "SL" /\ Opposite("SL") = "SH"
  BY DEF Opposite
<1>4. ASSUME NEW i \in Mid(c)
      PROVE  /\ Confirms(c, i, "SH") <=> Confirms(d, i, "SL")
             /\ Confirms(c, i, "SL") <=> Confirms(d, i, "SH")
  <2>1. i \in Mid(d)
    BY <1>2
  <2>2. Confirms(c, i, "SH") => Confirms(d, i, "SL")
    BY <1>3, ConfirmsFacing
  <2>3. Confirms(c, i, "SL") => Confirms(d, i, "SH")
    BY <1>3, ConfirmsFacing
  <2>4. Confirms(d, i, "SH") => Confirms(c, i, "SL")
    BY <1>1, <1>3, <2>1, ConfirmsFacing
  <2>5. Confirms(d, i, "SL") => Confirms(c, i, "SH")
    BY <1>1, <1>3, <2>1, ConfirmsFacing
  <2> QED  BY <2>2, <2>3, <2>4, <2>5
<1> QED  BY <1>2, <1>4 DEF Swings

(* The swing low of the image is the image of the swing high. *)
LEMMA SwingHighFacing ==
    ASSUME NEW c, NEW d, Reflects(c, d)
    PROVE  Faces(SwingHighLow(c, LeftRight).high, SwingHighLow(d, LeftRight).low)
<1>1. PICK n \in Nat : n = Len(c) /\ n = Len(d)
  BY DEF Reflects
<1>2. PICK S : S = Swings(c, "SH") /\ S = Swings(d, "SL")
  BY SwingsSame
<1>3. S \subseteq 1..n
  <2>1. LeftRight \in Nat
    BY DigestConstants
  <2>2. Mid(c) \subseteq 1..n
    BY <1>1, <2>1 DEF Mid
  <2> QED  BY <1>2, <2>2 DEF Swings
<1>4. /\ SwingHighLow(c, LeftRight).high = IF S = {} THEN 0 ELSE c[Max(S)].high
      /\ SwingHighLow(d, LeftRight).low = IF S = {} THEN 0 ELSE d[Max(S)].low
  BY <1>2, SwingsOf
<1>5. CASE S = {}
  BY <1>4, <1>5 DEF Faces
<1>6. CASE S # {}
  <2>1. PICK i \in 1..Len(c) : i = Max(S)
    <3>1. Max(S) \in S
      BY <1>3, <1>6, MaxIsGreatest
    <3> QED  BY <1>1, <1>3, <3>1
  <2>2. PICK x, y : x = c[i].high /\ y = d[i].low
    OBVIOUS
  <2>3. x \in Nat /\ y \in Nat /\ x > 0 /\ y > 0 /\ x + y = MirrorPrice
    BY <2>2, PricesFacing
  <2>4. Faces(x, y)
    BY <2>3 DEF Faces
  <2> QED  BY <1>4, <1>6, <2>1, <2>2, <2>4
<1> QED  BY <1>5, <1>6

(* Facing is symmetric.                                                    *)
LEMMA FacesBack ==
    ASSUME NEW x, NEW y, Faces(x, y)
    PROVE  Faces(y, x)
<1>1. x \in Nat /\ y \in Nat
  BY DEF Faces
<1>2. y # 0 => x + y = MirrorPrice
  BY DEF Faces
<1>3. y # 0 => y + x = MirrorPrice
  BY <1>1, <1>2
<1> QED  BY <1>1, <1>3 DEF Faces

(* The bands, round numbers and swings that are there. *)
LevelsAt(r, swing) ==
    {r.bbUpper, r.bbLower, r.donchHigh, r.donchLow, r.roundAbove,
     r.roundBelow, swing.high, swing.low} \ {0}

(* Every level has its image among the levels. *)
LevelsFace(L, K) ==
    L \subseteq Nat \ {0} /\ K \subseteq Nat \ {0} /\ \A x \in L : \E y \in K : Faces(x, y)

Above(L, x) == {l \in L : l > x}
Below(L, x) == {l \in L : l < x}

(* The nearest level above faces the nearest below. *)
LEMMA NearestFacing ==
    ASSUME NEW L, NEW K, LevelsFace(L, K), LevelsFace(K, L),
           NEW x \in Nat, NEW y \in Nat, x + y = MirrorPrice
    PROVE  /\ Above(L, x) = {} <=> Below(K, y) = {}
           /\ Above(L, x) # {} => Faces(Min(Above(L, x)), Max(Below(K, y)))
<1>0. PICK A, B : /\ A = Above(L, x) /\ A = {l \in L : l > x}
                  /\ B = Below(K, y) /\ B = {l \in K : l < y}
  BY DEF Above, Below
<1>1. /\ L \subseteq Nat /\ K \subseteq Nat
      /\ \A l \in L : \E k \in K : Faces(l, k) /\ l + k = MirrorPrice
      /\ \A k \in K : \E l \in L : Faces(k, l) /\ l + k = MirrorPrice
  <2>1. \A l, k : Faces(l, k) /\ l # 0 => l + k = MirrorPrice /\ k + l = MirrorPrice
    BY DEF Faces
  <2> QED  BY <2>1 DEF LevelsFace
<1> USE <1>0
<1>2. \A l \in A : \E k \in B : l + k = MirrorPrice
  <2> SUFFICES ASSUME NEW l \in A PROVE \E k \in B : l + k = MirrorPrice
    OBVIOUS
  <2>1. PICK k \in K : l + k = MirrorPrice
    BY <1>1
  <2>2. k < y
    BY <1>1, <2>1
  <2> QED  BY <2>1, <2>2
<1>3. \A k \in B : \E l \in A : l + k = MirrorPrice
  <2> SUFFICES ASSUME NEW k \in B PROVE \E l \in A : l + k = MirrorPrice
    OBVIOUS
  <2>1. PICK l \in L : l + k = MirrorPrice
    BY <1>1
  <2>2. l > x
    BY <1>1, <2>1
  <2> QED  BY <2>1, <2>2
<1>4. ASSUME A # {} PROVE Faces(Min(A), Max(B))
  <2>1. A \subseteq Nat /\ B \subseteq 1..y /\ B # {}
    <3>1. \A k \in B : k \in Nat /\ k # 0 /\ k < y
      BY DEF LevelsFace
    <3>2. \A k \in B : k \in 1..y
      BY <3>1
    <3> QED  BY <1>1, <1>2, <1>4, <3>2
  <2>2. PICK m : m = Min(A) /\ m \in A /\ \A l \in A : m <= l
    BY <1>4, <2>1, MinIsLeast
  <2>3. PICK k \in B : m + k = MirrorPrice
    BY <1>2, <2>2
  <2>4. \A h \in B : h <= k
    <3> SUFFICES ASSUME NEW h \in B PROVE h <= k
      OBVIOUS
    <3>1. PICK l \in A : l + h = MirrorPrice
      BY <1>3
    <3>2. m <= l /\ m \in Nat /\ l \in Nat /\ h \in Nat /\ k \in Nat
      BY <2>1, <2>2, <2>3, <3>1
    <3> QED  BY <2>3, <3>1, <3>2
  <2>5. Max(B) = k
    <3>1. B \subseteq Int
      BY <2>1
    <3> QED  BY <2>4, <3>1, NewestIsMax
  <2>6. m \in Nat /\ k \in Nat /\ m # 0 /\ k # 0
    BY <2>1, <2>2, <2>3 DEF LevelsFace
  <2> QED  BY <2>2, <2>3, <2>5, <2>6 DEF Faces
<1> QED  BY <1>2, <1>3, <1>4

-----------------------------------------------------------------------------
(* Readings that are each other's image. *)
ReadingsFace(r, q) ==
    /\ r.atr \in Nat /\ q.atr = r.atr
    /\ Faces(r.bbUpper, q.bbLower) /\ Faces(r.bbLower, q.bbUpper)
    /\ Faces(r.donchHigh, q.donchLow) /\ Faces(r.donchLow, q.donchHigh)
    /\ Faces(r.roundAbove, q.roundBelow) /\ Faces(r.roundBelow, q.roundAbove)

(* Every reading of the indicators faces the mirrored one.                 *)
LEMMA MirrorReadingFaces ==
    ASSUME NEW r \in Readings
    PROVE  ReadingsFace(r, MirrorReading(r))
<1>1. \A x \in {r.bbUpper, r.bbLower, r.donchHigh, r.donchLow, r.roundAbove, r.roundBelow} :
         Faces(x, Flip(x))
  BY MirrorConstants, FacesFlip
<1>2. r.atr \in Nat
  BY ReadingConstants
<1> QED  BY <1>1, <1>2 DEF ReadingsFace, MirrorReading

(* Facing of readings is symmetric.                                        *)
LEMMA ReadingsFaceBack ==
    ASSUME NEW r, NEW q, ReadingsFace(r, q)
    PROVE  ReadingsFace(q, r)
  BY FacesBack DEF ReadingsFace

(* So are the levels around a series and around its image.                 *)
LEMMA SwingLowFacing ==
    ASSUME NEW c, NEW d, Reflects(c, d)
    PROVE  Faces(SwingHighLow(c, LeftRight).low, SwingHighLow(d, LeftRight).high)
<1>1. Reflects(d, c)
  BY ReflectsBack
<1> QED  BY <1>1, SwingHighFacing, FacesBack

(* The levels above a price face those below its image, one by one.        *)
LEMMA LevelsFacing ==
    ASSUME NEW c, NEW d, Reflects(c, d), NEW r, NEW q, ReadingsFace(r, q)
    PROVE  LevelsFace(LevelsAt(r, SwingHighLow(c, LeftRight)), LevelsAt(q, SwingHighLow(d, LeftRight)))
<1>1. PICK s, t : s = SwingHighLow(c, LeftRight) /\ t = SwingHighLow(d, LeftRight)
  OBVIOUS
<1>2. Faces(s.high, t.low) /\ Faces(s.low, t.high)
  BY <1>1, SwingHighFacing, SwingLowFacing
<1>3. \A x, y : Faces(x, y) => x \in Nat /\ y \in Nat /\ (x # 0 => y # 0)
  BY DEF Faces
<1> DEFINE L == LevelsAt(r, s)
           K == LevelsAt(q, t)
<1>4. L \subseteq Nat \ {0}
  BY <1>2, <1>3 DEF LevelsAt, ReadingsFace
<1>5. K \subseteq Nat \ {0}
  BY <1>2, <1>3 DEF LevelsAt, ReadingsFace
<1>6. ASSUME NEW x \in L PROVE \E y \in K : Faces(x, y)
  <2>0. x # 0
    BY DEF LevelsAt
  <2>1. ASSUME NEW y, y \in {q.bbUpper, q.bbLower, q.donchHigh, q.donchLow, q.roundAbove,
                             q.roundBelow, t.high, t.low}, Faces(x, y)
        PROVE  y \in K
    BY <1>3, <2>0, <2>1 DEF LevelsAt
  <2>2. \/ x = r.bbUpper \/ x = r.bbLower \/ x = r.donchHigh \/ x = r.donchLow
        \/ x = r.roundAbove \/ x = r.roundBelow \/ x = s.high \/ x = s.low
    BY DEF LevelsAt
  <2> HIDE DEF L, K
  <2> QED  BY <1>2, <2>1, <2>2 DEF ReadingsFace
<1> QED  BY <1>1, <1>4, <1>5, <1>6 DEF LevelsFace

NearestTo(c, r) == Nearest(c, r, SwingHighLow(c, LeftRight))

(* The nearest resistance and support: the least level at or above the     *)
(* price, the greatest one at or below it.                                 *)
LEMMA NearestOf ==
    ASSUME NEW c, NEW r
    PROVE  LET L == LevelsAt(r, SwingHighLow(c, LeftRight))
               A == Above(L, c[Len(c)].close)
               B == Below(L, c[Len(c)].close)
           IN  NearestTo(c, r) = [resist  |-> IF r.atr = 0 \/ A = {} THEN 0 ELSE Min(A),
                                  support |-> IF r.atr = 0 \/ B = {} THEN 0 ELSE Max(B)]
  BY Zenon DEF NearestTo, Nearest, LevelsAt, Above, Below

(* The support of the image is the image of the resistance. *)
LEMMA ResistanceFacing ==
    ASSUME NEW c, NEW d, Reflects(c, d), Len(c) > 0, NEW r, NEW q, ReadingsFace(r, q)
    PROVE  Faces(NearestTo(c, r).resist, NearestTo(d, q).support)
<1>1. PICK n \in Nat : n = Len(c) /\ n = Len(d) /\ n > 0
  BY DEF Reflects
<1>2. PICK x, y : x = c[n].close /\ y = d[n].close
  OBVIOUS
<1>3. x \in Nat /\ y \in Nat /\ x + y = MirrorPrice
  <2>1. n \in 1..Len(c)
    BY <1>1
  <2> QED  BY <1>2, <2>1, PricesFacing
<1>4. PICK L, K : /\ L = LevelsAt(r, SwingHighLow(c, LeftRight))
                  /\ K = LevelsAt(q, SwingHighLow(d, LeftRight))
  OBVIOUS
<1>5. LevelsFace(L, K)
  BY <1>4, LevelsFacing
<1>6. LevelsFace(K, L)
  <2>1. Reflects(d, c) /\ ReadingsFace(q, r)
    BY ReflectsBack, ReadingsFaceBack
  <2> QED  BY <1>4, <2>1, LevelsFacing
<1>7. PICK A, B : A = Above(L, x) /\ B = Below(K, y)
  OBVIOUS
<1>8. (A = {} <=> B = {}) /\ (A # {} => Faces(Min(A), Max(B)))
  BY <1>3, <1>5, <1>6, <1>7, NearestFacing
<1>9. NearestTo(c, r).resist = IF r.atr = 0 \/ A = {} THEN 0 ELSE Min(A)
  BY <1>1, <1>2, <1>4, <1>7, NearestOf
<1>10. NearestTo(d, q).support = IF q.atr = 0 \/ B = {} THEN 0 ELSE Max(B)
  BY <1>1, <1>2, <1>4, <1>7, NearestOf
<1>11. q.atr = r.atr
  BY DEF ReadingsFace
<1>12. Faces(0, 0)
  BY DEF Faces
<1> QED  BY <1>8, <1>9, <1>10, <1>11, <1>12

(* The nearest support of the image faces the nearest resistance.          *)
LEMMA SupportFacing ==
    ASSUME NEW c, NEW d, Reflects(c, d), Len(c) > 0, NEW r, NEW q, ReadingsFace(r, q)
    PROVE  Faces(NearestTo(c, r).support, NearestTo(d, q).resist)
<1>1. Reflects(d, c) /\ ReadingsFace(q, r) /\ Len(d) > 0
  BY ReflectsBack, ReadingsFaceBack DEF Reflects
<1>2. Faces(NearestTo(d, q).resist, NearestTo(c, r).support)
  BY <1>1, ResistanceFacing
<1> QED  BY <1>2, FacesBack

(* The levels the patterns are read against. *)
LevelsOf(c, r) ==
    LET swing == SwingHighLow(c, LeftRight)
        near  == NearestTo(c, r)
    IN  [atr |-> r.atr, swingHigh |-> swing.high, swingLow |-> swing.low,
         bbUpper |-> r.bbUpper, bbLower |-> r.bbLower,
         nearestR |-> near.resist, nearestS |-> near.support]

LevelSetsFace(l, k) ==
    /\ l.atr \in Nat /\ k.atr = l.atr
    /\ Faces(l.swingHigh, k.swingLow) /\ Faces(l.swingLow, k.swingHigh)
    /\ Faces(l.bbUpper, k.bbLower) /\ Faces(l.bbLower, k.bbUpper)
    /\ Faces(l.nearestR, k.nearestS) /\ Faces(l.nearestS, k.nearestR)

(* All the levels a pattern is placed against face those of the image.     *)
LEMMA LevelsOfFacing ==
    ASSUME NEW c, NEW d, Reflects(c, d), Len(c) > 0, NEW r, NEW q, ReadingsFace(r, q)
    PROVE  LevelSetsFace(LevelsOf(c, r), LevelsOf(d, q))
<1>1. PICK s, t : s = SwingHighLow(c, LeftRight) /\ t = SwingHighLow(d, LeftRight)
  OBVIOUS
<1>2. PICK m, n : m = NearestTo(c, r) /\ n = NearestTo(d, q)
  OBVIOUS
<1>3. Faces(s.high, t.low) /\ Faces(s.low, t.high)
  BY <1>1, SwingHighFacing, SwingLowFacing
<1>4. Faces(m.resist, n.support) /\ Faces(m.support, n.resist)
  BY <1>2, ResistanceFacing, SupportFacing
<1>5. /\ LevelsOf(c, r) = [atr |-> r.atr, swingHigh |-> s.high, swingLow |-> s.low,
                           bbUpper |-> r.bbUpper, bbLower |-> r.bbLower,
                           nearestR |-> m.resist, nearestS |-> m.support]
      /\ LevelsOf(d, q) = [atr |-> q.atr, swingHigh |-> t.high, swingLow |-> t.low,
                           bbUpper |-> q.bbUpper, bbLower |-> q.bbLower,
                           nearestR |-> n.resist, nearestS |-> n.support]
  BY <1>1, <1>2 DEF LevelsOf
<1> QED  BY <1>3, <1>4, <1>5 DEF LevelSetsFace, ReadingsFace

-----------------------------------------------------------------------------
(* The first rule that holds decides. *)
IsFirst(rules, n, i) ==
    /\ n \in Nat /\ DOMAIN rules = 1..n
    /\ i \in 1..n /\ rules[i].holds /\ \A j \in 1..n : j < i => ~rules[j].holds

(* FirstMatch returns the kind of the first rule that holds.               *)
LEMMA FirstIs ==
    ASSUME NEW rules, NEW n, NEW i, IsFirst(rules, n, i), NEW o
    PROVE  FirstMatch(rules, o) = rules[i].kind
<1>0. /\ n \in Nat /\ DOMAIN rules = 1..n
      /\ i \in 1..n /\ rules[i].holds /\ \A j \in 1..n : j < i => ~rules[j].holds
  BY DEF IsFirst
<1> USE <1>0
<1> DEFINE hits == {k \in DOMAIN rules : rules[k].holds}
<1>1. hits \subseteq Nat /\ i \in hits
  OBVIOUS
<1>2. Min(hits) \in hits /\ \A k \in hits : Min(hits) <= k
  <2> HIDE DEF hits
  <2> QED  BY <1>1, MinIsLeast
<1>3. Min(hits) \in 1..n /\ Min(hits) <= i /\ rules[Min(hits)].holds
  BY <1>1, <1>2
<1>4. Min(hits) = i
  <2> HIDE DEF hits
  <2> QED  BY <1>3
<1>5. FirstMatch(rules, o) = rules[Min(hits)].kind
  <2>1. FirstMatch(rules, o) = IF hits = {} THEN o ELSE rules[Min(hits)].kind
    BY DEF FirstMatch
  <2>2. hits # {}
    BY <1>1
  <2> QED  BY <2>1, <2>2
<1> QED  BY <1>4, <1>5

(* FirstMatch returns the default when no rule holds.                      *)
LEMMA NoneMatches ==
    ASSUME NEW rules, NEW o, \A j \in DOMAIN rules : ~rules[j].holds
    PROVE  FirstMatch(rules, o) = o
<1>1. {k \in DOMAIN rules : rules[k].holds} = {}
  OBVIOUS
<1> QED  BY <1>1 DEF FirstMatch

(* So a list of rules is a chain of conditions. *)
LEMMA FirstOfFour ==
    ASSUME NEW R, DOMAIN R = 1..4, NEW o
    PROVE  FirstMatch(R, o)
             = IF R[1].holds THEN R[1].kind ELSE
             IF R[2].holds THEN R[2].kind ELSE
             IF R[3].holds THEN R[3].kind ELSE
             IF R[4].holds THEN R[4].kind ELSE o
<1>1. CASE R[1].holds
  <2>1. IsFirst(R, 4, 1)
    BY <1>1 DEF IsFirst
  <2> QED  BY <1>1, <2>1, FirstIs
<1>2. CASE ~R[1].holds /\ R[2].holds
  <2>1. IsFirst(R, 4, 2)
    BY <1>2 DEF IsFirst
  <2> QED  BY <1>2, <2>1, FirstIs
<1>3. CASE ~R[1].holds /\ ~R[2].holds /\ R[3].holds
  <2>1. IsFirst(R, 4, 3)
    BY <1>3 DEF IsFirst
  <2> QED  BY <1>3, <2>1, FirstIs
<1>4. CASE ~R[1].holds /\ ~R[2].holds /\ ~R[3].holds /\ R[4].holds
  <2>1. IsFirst(R, 4, 4)
    BY <1>4 DEF IsFirst
  <2> QED  BY <1>4, <2>1, FirstIs
<1>5. CASE ~R[1].holds /\ ~R[2].holds /\ ~R[3].holds /\ ~R[4].holds
  <2>1. \A j \in 1..4 : ~R[j].holds
    BY <1>5
  <2>2. FirstMatch(R, o) = o
    BY <2>1, NoneMatches
  <2> QED  BY <1>5, <2>2
<1> QED  BY <1>1, <1>2, <1>3, <1>4, <1>5

(* FirstMatch over eight rules as nested conditions.                       *)
LEMMA FirstOfEight ==
    ASSUME NEW R, DOMAIN R = 1..8, NEW o
    PROVE  FirstMatch(R, o)
             = IF R[1].holds THEN R[1].kind ELSE
             IF R[2].holds THEN R[2].kind ELSE
             IF R[3].holds THEN R[3].kind ELSE
             IF R[4].holds THEN R[4].kind ELSE
             IF R[5].holds THEN R[5].kind ELSE
             IF R[6].holds THEN R[6].kind ELSE
             IF R[7].holds THEN R[7].kind ELSE
             IF R[8].holds THEN R[8].kind ELSE o
<1>1. CASE R[1].holds
  <2>1. IsFirst(R, 8, 1)
    BY <1>1 DEF IsFirst
  <2> QED  BY <1>1, <2>1, FirstIs
<1>2. CASE ~R[1].holds /\ R[2].holds
  <2>1. IsFirst(R, 8, 2)
    BY <1>2 DEF IsFirst
  <2> QED  BY <1>2, <2>1, FirstIs
<1>3. CASE ~R[1].holds /\ ~R[2].holds /\ R[3].holds
  <2>1. IsFirst(R, 8, 3)
    BY <1>3 DEF IsFirst
  <2> QED  BY <1>3, <2>1, FirstIs
<1>4. CASE ~R[1].holds /\ ~R[2].holds /\ ~R[3].holds /\ R[4].holds
  <2>1. IsFirst(R, 8, 4)
    BY <1>4 DEF IsFirst
  <2> QED  BY <1>4, <2>1, FirstIs
<1>5. CASE ~R[1].holds /\ ~R[2].holds /\ ~R[3].holds /\ ~R[4].holds /\ R[5].holds
  <2>1. IsFirst(R, 8, 5)
    BY <1>5 DEF IsFirst
  <2> QED  BY <1>5, <2>1, FirstIs
<1>6. CASE ~R[1].holds /\ ~R[2].holds /\ ~R[3].holds /\ ~R[4].holds /\ ~R[5].holds /\ R[6].holds
  <2>1. IsFirst(R, 8, 6)
    BY <1>6 DEF IsFirst
  <2> QED  BY <1>6, <2>1, FirstIs
<1>7. CASE ~R[1].holds /\ ~R[2].holds /\ ~R[3].holds /\ ~R[4].holds /\ ~R[5].holds /\ ~R[6].holds /\ R[7].holds
  <2>1. IsFirst(R, 8, 7)
    BY <1>7 DEF IsFirst
  <2> QED  BY <1>7, <2>1, FirstIs
<1>8. CASE ~R[1].holds /\ ~R[2].holds /\ ~R[3].holds /\ ~R[4].holds /\ ~R[5].holds /\ ~R[6].holds /\ ~R[7].holds /\ R[8].holds
  <2>1. IsFirst(R, 8, 8)
    BY <1>8 DEF IsFirst
  <2> QED  BY <1>8, <2>1, FirstIs
<1>9. CASE ~R[1].holds /\ ~R[2].holds /\ ~R[3].holds /\ ~R[4].holds /\ ~R[5].holds /\ ~R[6].holds /\ ~R[7].holds /\ ~R[8].holds
  <2>1. \A j \in 1..8 : ~R[j].holds
    BY <1>9
  <2>2. FirstMatch(R, o) = o
    BY <2>1, NoneMatches
  <2> QED  BY <1>9, <2>2
<1> QED  BY <1>1, <1>2, <1>3, <1>4, <1>5, <1>6, <1>7, <1>8, <1>9

(* FirstMatch over nine rules as nested conditions.                        *)
LEMMA FirstOfNine ==
    ASSUME NEW R, DOMAIN R = 1..9, NEW o
    PROVE  FirstMatch(R, o)
             = IF R[1].holds THEN R[1].kind ELSE
             IF R[2].holds THEN R[2].kind ELSE
             IF R[3].holds THEN R[3].kind ELSE
             IF R[4].holds THEN R[4].kind ELSE
             IF R[5].holds THEN R[5].kind ELSE
             IF R[6].holds THEN R[6].kind ELSE
             IF R[7].holds THEN R[7].kind ELSE
             IF R[8].holds THEN R[8].kind ELSE
             IF R[9].holds THEN R[9].kind ELSE o
<1>1. CASE R[1].holds
  <2>1. IsFirst(R, 9, 1)
    BY <1>1 DEF IsFirst
  <2> QED  BY <1>1, <2>1, FirstIs
<1>2. CASE ~R[1].holds /\ R[2].holds
  <2>1. IsFirst(R, 9, 2)
    BY <1>2 DEF IsFirst
  <2> QED  BY <1>2, <2>1, FirstIs
<1>3. CASE ~R[1].holds /\ ~R[2].holds /\ R[3].holds
  <2>1. IsFirst(R, 9, 3)
    BY <1>3 DEF IsFirst
  <2> QED  BY <1>3, <2>1, FirstIs
<1>4. CASE ~R[1].holds /\ ~R[2].holds /\ ~R[3].holds /\ R[4].holds
  <2>1. IsFirst(R, 9, 4)
    BY <1>4 DEF IsFirst
  <2> QED  BY <1>4, <2>1, FirstIs
<1>5. CASE ~R[1].holds /\ ~R[2].holds /\ ~R[3].holds /\ ~R[4].holds /\ R[5].holds
  <2>1. IsFirst(R, 9, 5)
    BY <1>5 DEF IsFirst
  <2> QED  BY <1>5, <2>1, FirstIs
<1>6. CASE ~R[1].holds /\ ~R[2].holds /\ ~R[3].holds /\ ~R[4].holds /\ ~R[5].holds /\ R[6].holds
  <2>1. IsFirst(R, 9, 6)
    BY <1>6 DEF IsFirst
  <2> QED  BY <1>6, <2>1, FirstIs
<1>7. CASE ~R[1].holds /\ ~R[2].holds /\ ~R[3].holds /\ ~R[4].holds /\ ~R[5].holds /\ ~R[6].holds /\ R[7].holds
  <2>1. IsFirst(R, 9, 7)
    BY <1>7 DEF IsFirst
  <2> QED  BY <1>7, <2>1, FirstIs
<1>8. CASE ~R[1].holds /\ ~R[2].holds /\ ~R[3].holds /\ ~R[4].holds /\ ~R[5].holds /\ ~R[6].holds /\ ~R[7].holds /\ R[8].holds
  <2>1. IsFirst(R, 9, 8)
    BY <1>8 DEF IsFirst
  <2> QED  BY <1>8, <2>1, FirstIs
<1>9. CASE ~R[1].holds /\ ~R[2].holds /\ ~R[3].holds /\ ~R[4].holds /\ ~R[5].holds /\ ~R[6].holds /\ ~R[7].holds /\ ~R[8].holds /\ R[9].holds
  <2>1. IsFirst(R, 9, 9)
    BY <1>9 DEF IsFirst
  <2> QED  BY <1>9, <2>1, FirstIs
<1>10. CASE ~R[1].holds /\ ~R[2].holds /\ ~R[3].holds /\ ~R[4].holds /\ ~R[5].holds /\ ~R[6].holds /\ ~R[7].holds /\ ~R[8].holds /\ ~R[9].holds
  <2>1. \A j \in 1..9 : ~R[j].holds
    BY <1>10
  <2>2. FirstMatch(R, o) = o
    BY <2>1, NoneMatches
  <2> QED  BY <1>10, <2>2
<1> QED  BY <1>1, <1>2, <1>3, <1>4, <1>5, <1>6, <1>7, <1>8, <1>9, <1>10

-----------------------------------------------------------------------------
(* The image of a bar has its span and body, and its wicks exchanged; it   *)
(* rises when the bar does not, unless the bar is flat.                    *)
LEMMA ShapeFacing ==
    ASSUME NEW b, NEW e, Facing(b, e)
    PROVE  /\ Span(e) = Span(b) /\ Body(e) = Body(b)
           /\ Upper(e) = Lower(b) /\ Lower(e) = Upper(b)
           /\ Span(b) \in Nat /\ Body(b) \in Nat /\ Upper(b) \in Nat /\ Lower(b) \in Nat
           /\ b.open # b.close => (Bull(e) <=> ~Bull(b))
<1>1. /\ b.open \in Nat /\ b.high \in Nat /\ b.low \in Nat /\ b.close \in Nat
      /\ e.open \in Nat /\ e.high \in Nat /\ e.low \in Nat /\ e.close \in Nat
  BY DEF Facing, Upright, Candle
<1>2. /\ b.open + e.open = MirrorPrice /\ b.close + e.close = MirrorPrice
      /\ b.high + e.low = MirrorPrice /\ b.low + e.high = MirrorPrice
  BY DEF Facing
<1>3. /\ b.low <= b.open /\ b.low <= b.close /\ b.open <= b.high /\ b.close <= b.high
  BY DEF Facing, Upright
<1>4. PICK o, h, l, k, p, q, r, s :
        /\ o = b.open /\ h = b.high /\ l = b.low /\ k = b.close
        /\ p = e.open /\ q = e.high /\ r = e.low /\ s = e.close
  OBVIOUS
<1>5. /\ o \in Nat /\ h \in Nat /\ l \in Nat /\ k \in Nat
      /\ p \in Nat /\ q \in Nat /\ r \in Nat /\ s \in Nat
      /\ l <= o /\ l <= k /\ o <= h /\ k <= h
  BY <1>1, <1>3, <1>4
<1>6. o + p = l + q /\ k + s = l + q /\ h + r = l + q
  BY <1>2, <1>4
<1>7. /\ Max({o, k}) = (IF o >= k THEN o ELSE k) /\ Min({o, k}) = (IF o <= k THEN o ELSE k)
      /\ Max({p, s}) = (IF p >= s THEN p ELSE s) /\ Min({p, s}) = (IF p <= s THEN p ELSE s)
  BY <1>5, MaxOfTwo, MinOfTwo
<1>8. /\ Span(b) = h - l /\ Span(e) = q - r
      /\ Body(b) = (IF k >= o THEN k - o ELSE o - k) /\ Body(e) = (IF s >= p THEN s - p ELSE p - s)
      /\ Upper(b) = h - (IF o >= k THEN o ELSE k) /\ Upper(e) = q - (IF p >= s THEN p ELSE s)
      /\ Lower(b) = (IF o <= k THEN o ELSE k) - l /\ Lower(e) = (IF p <= s THEN p ELSE s) - r
  BY <1>4, <1>7 DEF Span, Body, Distance, Upper, Lower
<1>9. (Bull(b) <=> k > o) /\ (Bull(e) <=> s > p)
  BY <1>4 DEF Bull
<1>10. q - r = h - l /\ h - l \in Nat
  BY <1>5, <1>6
<1>11. CASE k > o
  <2>1. p > s
    BY <1>5, <1>6, <1>11
  <2>2. /\ Body(b) = k - o /\ Body(e) = p - s
        /\ Upper(b) = h - k /\ Upper(e) = q - p
        /\ Lower(b) = o - l /\ Lower(e) = s - r
    BY <1>5, <1>8, <1>11, <2>1
  <2>3. p - s = k - o /\ q - p = o - l /\ s - r = h - k
    BY <1>5, <1>6
  <2>4. k - o \in Nat /\ h - k \in Nat /\ o - l \in Nat
    BY <1>5, <1>11
  <2>5. Bull(b) /\ ~Bull(e)
    BY <1>5, <1>9, <1>11, <2>1
  <2> QED  BY <1>8, <1>10, <2>2, <2>3, <2>4, <2>5
<1>12. CASE k <= o
  <2>1. p <= s
    BY <1>5, <1>6, <1>12
  <2>2. /\ Body(b) = o - k /\ Body(e) = s - p
        /\ Upper(b) = h - o /\ Upper(e) = q - s
        /\ Lower(b) = k - l /\ Lower(e) = p - r
    <3>1. CASE k = o
      <4>1. p = s
        BY <1>5, <1>6, <3>1
      <4> QED  BY <1>5, <1>8, <3>1, <4>1
    <3>2. CASE k # o
      <4>1. p < s /\ k < o
        BY <1>5, <1>6, <1>12, <3>2
      <4> QED  BY <1>5, <1>8, <4>1
    <3> QED  BY <3>1, <3>2
  <2>3. s - p = o - k /\ q - s = k - l /\ p - r = h - o
    BY <1>5, <1>6
  <2>4. o - k \in Nat /\ h - o \in Nat /\ k - l \in Nat
    BY <1>5, <1>12
  <2>5. o # k => ~Bull(b) /\ Bull(e)
    <3>1. o # k => p < s
      BY <1>5, <1>6, <1>12
    <3> QED  BY <1>5, <1>9, <1>12, <3>1
  <2> QED  BY <1>4, <1>8, <1>10, <2>2, <2>3, <2>4, <2>5
<1> QED  BY <1>5, <1>11, <1>12

(* The kind of a bar by its measures. *)
SingleKind(span, body, up, low, bull) ==
    LET full  == 10 * body >= 9 * span
        tiny  == 10 * body < span
        small == 10 * body < 3 * span
    IN  IF full /\ bull THEN "marubozu_bull"
        ELSE IF full THEN "marubozu_bear"
        ELSE IF tiny /\ 10 * low >= 6 * span /\ 10 * up <= span THEN "dragonfly_doji"
        ELSE IF tiny /\ 10 * up >= 6 * span /\ 10 * low <= span THEN "gravestone_doji"
        ELSE IF tiny THEN "doji"
        ELSE IF small /\ low >= 2 * body /\ up <= body THEN "hammer"
        ELSE IF small /\ up >= 2 * body /\ low <= body THEN "shooting_star"
        ELSE IF small /\ 5 * low >= span /\ 5 * up >= span THEN "spinning_top"
        ELSE "normal"

(* The kind of a single bar from its span, its body and its two wicks.     *)
LEMMA SingleOf ==
    ASSUME NEW b
    PROVE  detectSingleBar(b) = IF Span(b) <= 0 THEN "normal"
                                ELSE SingleKind(Span(b), Body(b), Upper(b), Lower(b), Bull(b))
<1> DEFINE full  == 10 * Body(b) >= 9 * Span(b)
           tiny  == 10 * Body(b) < Span(b)
           small == 10 * Body(b) < 3 * Span(b)
           h1 == full /\ Bull(b)
           h3 == tiny /\ 10 * Lower(b) >= 6 * Span(b) /\ 10 * Upper(b) <= Span(b)
           h4 == tiny /\ 10 * Upper(b) >= 6 * Span(b) /\ 10 * Lower(b) <= Span(b)
           h6 == small /\ Lower(b) >= 2 * Body(b) /\ Upper(b) <= Body(b)
           h7 == small /\ Upper(b) >= 2 * Body(b) /\ Lower(b) <= Body(b)
           h8 == small /\ 5 * Lower(b) >= Span(b) /\ 5 * Upper(b) >= Span(b)
           chain == IF h1 THEN "marubozu_bull" ELSE IF full THEN "marubozu_bear"
                    ELSE IF h3 THEN "dragonfly_doji" ELSE IF h4 THEN "gravestone_doji"
                    ELSE IF tiny THEN "doji" ELSE IF h6 THEN "hammer"
                    ELSE IF h7 THEN "shooting_star" ELSE IF h8 THEN "spinning_top" ELSE "normal"
           rules == <<Rule("marubozu_bull", h1), Rule("marubozu_bear", full),
                      Rule("dragonfly_doji", h3), Rule("gravestone_doji", h4), Rule("doji", tiny),
                      Rule("hammer", h6), Rule("shooting_star", h7), Rule("spinning_top", h8)>>
<1>1. detectSingleBar(b) = IF Span(b) <= 0 THEN "normal" ELSE FirstMatch(rules, "normal")
  BY Zenon DEF detectSingleBar
<1>2. SingleKind(Span(b), Body(b), Upper(b), Lower(b), Bull(b)) = chain
  BY Zenon DEF SingleKind
<1>3. FirstMatch(rules, "normal") = chain
  <2>1. DOMAIN rules = 1..8
    OBVIOUS
  <2>2. /\ (rules[1].holds <=> h1) /\ rules[1].kind = "marubozu_bull"
        /\ (rules[2].holds <=> full) /\ rules[2].kind = "marubozu_bear"
        /\ (rules[3].holds <=> h3) /\ rules[3].kind = "dragonfly_doji"
        /\ (rules[4].holds <=> h4) /\ rules[4].kind = "gravestone_doji"
        /\ (rules[5].holds <=> tiny) /\ rules[5].kind = "doji"
        /\ (rules[6].holds <=> h6) /\ rules[6].kind = "hammer"
        /\ (rules[7].holds <=> h7) /\ rules[7].kind = "shooting_star"
        /\ (rules[8].holds <=> h8) /\ rules[8].kind = "spinning_top"
    BY DEF Rule
  <2> HIDE DEF rules, h1, full, h3, h4, tiny, h6, h7, h8
  <2> QED  BY <2>1, <2>2, FirstOfEight
<1> HIDE DEF rules, chain
<1> QED  BY <1>1, <1>2, <1>3, Zenon

(* A bar with the wicks exchanged and the other direction is of the twin   *)
(* kind.                                                                   *)
LEMMA SingleTwin ==
    ASSUME NEW span \in Nat, NEW body \in Nat, NEW up \in Nat, NEW low \in Nat, span > 0,
           NEW bull, NEW bear, bear <=> ~bull
    PROVE  SingleKind(span, body, low, up, bear) = Twin(SingleKind(span, body, up, low, bull))
<1>1. /\ Twin("marubozu_bull") = "marubozu_bear" /\ Twin("marubozu_bear") = "marubozu_bull"
      /\ Twin("dragonfly_doji") = "gravestone_doji" /\ Twin("gravestone_doji") = "dragonfly_doji"
      /\ Twin("hammer") = "shooting_star" /\ Twin("shooting_star") = "hammer"
      /\ Twin("doji") = "doji" /\ Twin("spinning_top") = "spinning_top" /\ Twin("normal") = "normal"
  BY TwinTable DEF IsTwin
<1> DEFINE full  == 10 * body >= 9 * span
           tiny  == 10 * body < span
           small == 10 * body < 3 * span
           fly   == 10 * low >= 6 * span /\ 10 * up <= span
           stone == 10 * up >= 6 * span /\ 10 * low <= span
           hamm  == low >= 2 * body /\ up <= body
           star  == up >= 2 * body /\ low <= body
           top   == 5 * low >= span /\ 5 * up >= span
           pot   == 5 * up >= span /\ 5 * low >= span
<1>2. ~(fly /\ stone) /\ (top <=> pot)
  OBVIOUS
<1>3. hamm /\ star => tiny
  <2>1. hamm /\ star => body = 0
    OBVIOUS
  <2> QED  BY <2>1
<1>4. SingleKind(span, body, up, low, bull) =
        IF full /\ bull THEN "marubozu_bull" ELSE IF full THEN "marubozu_bear"
        ELSE IF tiny /\ fly THEN "dragonfly_doji" ELSE IF tiny /\ stone THEN "gravestone_doji"
        ELSE IF tiny THEN "doji" ELSE IF small /\ hamm THEN "hammer"
        ELSE IF small /\ star THEN "shooting_star" ELSE IF small /\ top THEN "spinning_top" ELSE "normal"
  BY Zenon DEF SingleKind
<1>5. SingleKind(span, body, low, up, bear) =
        IF full /\ bear THEN "marubozu_bull" ELSE IF full THEN "marubozu_bear"
        ELSE IF tiny /\ stone THEN "dragonfly_doji" ELSE IF tiny /\ fly THEN "gravestone_doji"
        ELSE IF tiny THEN "doji" ELSE IF small /\ star THEN "hammer"
        ELSE IF small /\ hamm THEN "shooting_star" ELSE IF small /\ pot THEN "spinning_top" ELSE "normal"
  BY Zenon DEF SingleKind
<1> HIDE DEF full, tiny, small, fly, stone, hamm, star, top, pot
<1>6. CASE full
  BY <1>1, <1>4, <1>5, <1>6
<1>7. CASE ~full /\ tiny
  BY <1>1, <1>2, <1>4, <1>5, <1>7
<1>8. CASE ~full /\ ~tiny
  BY <1>1, <1>2, <1>3, <1>4, <1>5, <1>8
<1> QED  BY <1>6, <1>7, <1>8

(* A single bar's kind is the twin of its image's. *)
LEMMA SingleFacing ==
    ASSUME NEW b, NEW e, Facing(b, e), b.open # b.close
    PROVE  detectSingleBar(e) = Twin(detectSingleBar(b))
<1>1. PICK span \in Nat, body \in Nat, up \in Nat, low \in Nat :
         /\ span = Span(b) /\ body = Body(b) /\ up = Upper(b) /\ low = Lower(b)
  BY ShapeFacing
<1>2. /\ span = Span(e) /\ body = Body(e) /\ low = Upper(e) /\ up = Lower(e)
      /\ Bull(e) <=> ~Bull(b)
  BY <1>1, ShapeFacing
<1> DEFINE bull == Bull(b)
           bear == Bull(e)
<1>3. bear <=> ~bull
  BY <1>2 DEF Bull
<1>4. detectSingleBar(b) = IF span <= 0 THEN "normal" ELSE SingleKind(span, body, up, low, bull)
  BY <1>1, SingleOf, Zenon
<1>5. detectSingleBar(e) = IF span <= 0 THEN "normal" ELSE SingleKind(span, body, low, up, bear)
  BY <1>2, SingleOf, Zenon
<1> HIDE DEF bull, bear
<1>6. ASSUME span > 0
      PROVE  SingleKind(span, body, low, up, bear) = Twin(SingleKind(span, body, up, low, bull))
  BY <1>3, <1>6, SingleTwin
<1>7. Twin("normal") = "normal"
  BY TwinTable DEF IsTwin
<1> QED  BY <1>4, <1>5, <1>6, <1>7

-----------------------------------------------------------------------------
(* A bar faces its image and the image the bar.                            *)
LEMMA FacingBack ==
    ASSUME NEW b, NEW e, Facing(b, e)
    PROVE  Facing(e, b)
<1>1. b \in Candle /\ e \in Candle
  BY DEF Facing, Upright
<1> QED  BY <1>1 DEF Facing, Candle

(* The conditions of detectTwoBar. *)
Rise(c, p) == Bull(c) /\ ~Bull(p)
Fall(c, p) == ~Bull(c) /\ Bull(p)
Solid(c, p) == 2 * Body(c) >= Span(c) /\ Body(c) > Body(p)
Narrow(c, p) == Min({Span(c), Span(p)})
Held(c, p) ==
    /\ Body(p) > 2 * Body(c)
    /\ Body(c) > 0
    /\ Max({c.open, c.close}) <= Max({p.open, p.close})
    /\ Min({c.open, c.close}) >= Min({p.open, p.close})
EngulfsUp(c, p)   == /\ Solid(c, p) /\ Rise(c, p)
                     /\ c.open <= p.close /\ c.close >= p.open
EngulfsDown(c, p) == /\ Solid(c, p) /\ Fall(c, p)
                     /\ c.open >= p.close /\ c.close <= p.open
Pierces(c, p) ==
    /\ Rise(c, p) /\ 2 * Body(p) >= Body(c)
    /\ c.open < p.close
    /\ 2 * c.close > p.open + p.close /\ c.close < p.open
Darkens(c, p) ==
    /\ Fall(c, p) /\ 2 * Body(p) >= Body(c)
    /\ c.open > p.close
    /\ 2 * c.close < p.open + p.close /\ c.close > p.open
TweezesLow(c, p)  == 10 * Distance(c.low, p.low) <= Narrow(c, p) /\ Rise(c, p)
TweezesHigh(c, p) == 10 * Distance(c.high, p.high) <= Narrow(c, p) /\ Fall(c, p)
HeldUp(c, p)   == Held(c, p) /\ Rise(c, p)
HeldDown(c, p) == Held(c, p) /\ Fall(c, p)
Inside(c, p)   == c.high < p.high /\ c.low > p.low

(* The kind of two bars as nested conditions in the order the code tries   *)
(* them.                                                                   *)
LEMMA TwoOf ==
    ASSUME NEW c, NEW p
    PROVE  detectTwoBar(c, p) =
             IF Span(c) <= 0 \/ Span(p) <= 0 THEN ""
             ELSE IF EngulfsUp(c, p) THEN "engulfing_bull"
             ELSE IF EngulfsDown(c, p) THEN "engulfing_bear"
             ELSE IF Pierces(c, p) THEN "piercing_line"
             ELSE IF Darkens(c, p) THEN "dark_cloud_cover"
             ELSE IF TweezesLow(c, p) THEN "tweezer_bottom"
             ELSE IF TweezesHigh(c, p) THEN "tweezer_top"
             ELSE IF HeldUp(c, p) THEN "harami_bull"
             ELSE IF HeldDown(c, p) THEN "harami_bear"
             ELSE IF Inside(c, p) THEN "inside_bar" ELSE ""
<1> DEFINE rules == <<Rule("engulfing_bull", EngulfsUp(c, p)), Rule("engulfing_bear", EngulfsDown(c, p)),
                      Rule("piercing_line", Pierces(c, p)), Rule("dark_cloud_cover", Darkens(c, p)),
                      Rule("tweezer_bottom", TweezesLow(c, p)), Rule("tweezer_top", TweezesHigh(c, p)),
                      Rule("harami_bull", HeldUp(c, p)), Rule("harami_bear", HeldDown(c, p)),
                      Rule("inside_bar", Inside(c, p))>>
<1>1. detectTwoBar(c, p) = IF Span(c) <= 0 \/ Span(p) <= 0 THEN "" ELSE FirstMatch(rules, "")
  BY Zenon DEF detectTwoBar, EngulfsUp, EngulfsDown, Pierces, Darkens, TweezesLow,
              TweezesHigh, HeldUp, HeldDown, Inside, Rise, Fall, Solid, Narrow, Held
<1>2. DOMAIN rules = 1..9
  OBVIOUS
<1>3. /\ (rules[1].holds <=> EngulfsUp(c, p)) /\ rules[1].kind = "engulfing_bull"
      /\ (rules[2].holds <=> EngulfsDown(c, p)) /\ rules[2].kind = "engulfing_bear"
      /\ (rules[3].holds <=> Pierces(c, p)) /\ rules[3].kind = "piercing_line"
      /\ (rules[4].holds <=> Darkens(c, p)) /\ rules[4].kind = "dark_cloud_cover"
      /\ (rules[5].holds <=> TweezesLow(c, p)) /\ rules[5].kind = "tweezer_bottom"
      /\ (rules[6].holds <=> TweezesHigh(c, p)) /\ rules[6].kind = "tweezer_top"
      /\ (rules[7].holds <=> HeldUp(c, p)) /\ rules[7].kind = "harami_bull"
      /\ (rules[8].holds <=> HeldDown(c, p)) /\ rules[8].kind = "harami_bear"
      /\ (rules[9].holds <=> Inside(c, p)) /\ rules[9].kind = "inside_bar"
  BY DEF Rule
<1> HIDE DEF rules
<1>4. FirstMatch(rules, "") =
         IF EngulfsUp(c, p) THEN "engulfing_bull"
         ELSE IF EngulfsDown(c, p) THEN "engulfing_bear"
         ELSE IF Pierces(c, p) THEN "piercing_line"
         ELSE IF Darkens(c, p) THEN "dark_cloud_cover"
         ELSE IF TweezesLow(c, p) THEN "tweezer_bottom"
         ELSE IF TweezesHigh(c, p) THEN "tweezer_top"
         ELSE IF HeldUp(c, p) THEN "harami_bull"
         ELSE IF HeldDown(c, p) THEN "harami_bear"
         ELSE IF Inside(c, p) THEN "inside_bar" ELSE ""
  BY <1>2, <1>3, FirstOfNine
<1> QED  BY <1>1, <1>4, Zenon

-----------------------------------------------------------------------------
(* Two bars and their images, none of them flat. *)
Pair(c, p, e, q) ==
    /\ Facing(c, e) /\ Facing(p, q)
    /\ c.open # c.close /\ p.open # p.close

(* Being a pair of bars with their images is symmetric.                    *)
LEMMA PairBack ==
    ASSUME NEW c, NEW p, NEW e, NEW q, Pair(c, p, e, q)
    PROVE  Pair(e, q, c, p)
<1>1. Facing(e, c) /\ Facing(q, p)
  BY FacingBack DEF Pair
<1>2. ASSUME NEW x, NEW y, Facing(x, y), x.open # x.close PROVE y.open # y.close
  <2>1. /\ x.open \in Nat /\ x.close \in Nat /\ y.open \in Nat /\ y.close \in Nat
        /\ x.open + y.open = MirrorPrice /\ x.close + y.close = MirrorPrice
    BY <1>2 DEF Facing, Upright, Candle
  <2>2. ASSUME y.open = y.close PROVE FALSE
    <3>1. x.open = x.close
      BY <2>1, <2>2
    <3> QED  BY <1>2, <3>1
  <2> QED  BY <2>2
<1>3. e.open # e.close /\ q.open # q.close
  BY <1>2 DEF Pair
<1> QED  BY <1>1, <1>3 DEF Pair

(* Distances, wholes and order between the two. *)
LEMMA PairNumbers ==
    ASSUME NEW c, NEW p, NEW e, NEW q, Pair(c, p, e, q)
    PROVE  /\ c.open <= p.close <=> e.open >= q.close
           /\ c.close >= p.open <=> e.close <= q.open
           /\ c.open >= p.close <=> e.open <= q.close
           /\ c.close <= p.open <=> e.close >= q.open
           /\ c.open < p.close <=> e.open > q.close
           /\ c.close < p.open <=> e.close > q.open
           /\ c.open > p.close <=> e.open < q.close
           /\ c.close > p.open <=> e.close < q.open
           /\ 2 * c.close > p.open + p.close <=> 2 * e.close < q.open + q.close
           /\ 2 * c.close < p.open + p.close <=> 2 * e.close > q.open + q.close
           /\ c.high < p.high <=> e.low > q.low
           /\ c.low > p.low <=> e.high < q.high
           /\ Distance(c.low, p.low) = Distance(e.high, q.high)
           /\ Distance(c.high, p.high) = Distance(e.low, q.low)
<1>1. /\ c.open \in Nat /\ c.high \in Nat /\ c.low \in Nat /\ c.close \in Nat
      /\ e.open \in Nat /\ e.high \in Nat /\ e.low \in Nat /\ e.close \in Nat
      /\ p.open \in Nat /\ p.high \in Nat /\ p.low \in Nat /\ p.close \in Nat
      /\ q.open \in Nat /\ q.high \in Nat /\ q.low \in Nat /\ q.close \in Nat
  BY DEF Pair, Facing, Upright, Candle
<1>2. PICK M \in Nat : M = MirrorPrice
  BY MirrorConstants
<1>3. /\ c.open + e.open = M /\ c.close + e.close = M /\ c.high + e.low = M /\ c.low + e.high = M
      /\ p.open + q.open = M /\ p.close + q.close = M /\ p.high + q.low = M /\ p.low + q.high = M
  BY <1>2 DEF Pair, Facing
<1>4. ASSUME NEW x \in Nat, NEW y \in Nat, NEW u \in Nat, NEW v \in Nat, x + u = M, y + v = M
      PROVE  /\ x <= y <=> u >= v
             /\ x >= y <=> u <= v
             /\ x < y <=> u > v
             /\ x > y <=> u < v
             /\ Distance(x, y) = Distance(u, v)
  <2>1. /\ x <= y <=> u >= v
        /\ x >= y <=> u <= v
        /\ x < y <=> u > v
        /\ x > y <=> u < v
    BY <1>4
  <2>2. x - y = v - u /\ y - x = u - v
    BY <1>4
  <2>3. CASE x = y
    <3>1. u = v
      BY <1>4, <2>3
    <3> QED  BY <2>1, <2>3, <3>1 DEF Distance
  <2>4. CASE x > y
    BY <2>1, <2>2, <2>4 DEF Distance
  <2>5. CASE x < y
    BY <2>1, <2>2, <2>5 DEF Distance
  <2> QED  BY <2>1, <2>3, <2>4, <2>5
<1>5. ASSUME NEW x \in Nat, NEW y \in Nat, NEW z \in Nat, NEW u \in Nat, NEW v \in Nat, NEW w \in Nat,
             x + u = M, y + v = M, z + w = M
      PROVE  /\ 2 * x > y + z <=> 2 * u < v + w
             /\ 2 * x < y + z <=> 2 * u > v + w
  <2>1. u = M - x /\ v = M - y /\ w = M - z
    BY <1>5
  <2> QED  BY <2>1
<1>6. /\ c.open <= p.close <=> e.open >= q.close
      /\ c.open >= p.close <=> e.open <= q.close
      /\ c.open < p.close <=> e.open > q.close
      /\ c.open > p.close <=> e.open < q.close
  BY <1>1, <1>3, <1>4
<1>7. /\ c.close >= p.open <=> e.close <= q.open
      /\ c.close <= p.open <=> e.close >= q.open
      /\ c.close < p.open <=> e.close > q.open
      /\ c.close > p.open <=> e.close < q.open
  BY <1>1, <1>3, <1>4
<1>8. /\ c.high < p.high <=> e.low > q.low
      /\ Distance(c.high, p.high) = Distance(e.low, q.low)
  BY <1>1, <1>3, <1>4
<1>9. /\ c.low > p.low <=> e.high < q.high
      /\ Distance(c.low, p.low) = Distance(e.high, q.high)
  BY <1>1, <1>3, <1>4
<1>10. /\ 2 * c.close > p.open + p.close <=> 2 * e.close < q.open + q.close
       /\ 2 * c.close < p.open + p.close <=> 2 * e.close > q.open + q.close
  BY <1>1, <1>3, <1>5
<1> QED  BY <1>6, <1>7, <1>8, <1>9, <1>10

(* The ends of the body of a bar and of its image.                         *)
BodyTop(b)    == Max({b.open, b.close})
BodyBottom(b) == Min({b.open, b.close})

(* The top of a body and the bottom of its image's are images of each      *)
(* other.                                                                  *)
LEMMA BodyEnds ==
    ASSUME NEW b, NEW e, Facing(b, e)
    PROVE  /\ BodyTop(b) \in Nat /\ BodyBottom(e) \in Nat
           /\ BodyTop(b) + BodyBottom(e) = MirrorPrice
<1>1. PICK o, k, p, s : o = b.open /\ k = b.close /\ p = e.open /\ s = e.close
  OBVIOUS
<1>2. o \in Nat /\ k \in Nat /\ p \in Nat /\ s \in Nat /\ o + p = MirrorPrice /\ k + s = MirrorPrice
  BY <1>1 DEF Facing, Upright, Candle
<1>3. Max({o, k}) = (IF o >= k THEN o ELSE k) /\ Min({p, s}) = (IF p <= s THEN p ELSE s)
  BY <1>2, MaxOfTwo, MinOfTwo
<1>4. o + p = k + s
  BY <1>2
<1>5. o >= k <=> p <= s
  BY <1>2, <1>4
<1>6. Max({o, k}) \in Nat /\ Min({p, s}) \in Nat /\ Max({o, k}) + Min({p, s}) = MirrorPrice
  BY <1>2, <1>3, <1>5
<1> QED  BY <1>1, <1>6 DEF BodyTop, BodyBottom

(* The body of the one lies in that of the other. *)
LEMMA HeldFacing ==
    ASSUME NEW c, NEW p, NEW e, NEW q, Pair(c, p, e, q)
    PROVE  Held(c, p) => Held(e, q)
<1>1. Facing(c, e) /\ Facing(p, q) /\ Facing(e, c) /\ Facing(q, p)
  BY FacingBack DEF Pair
<1>2. PICK ct, cb, et, eb, pt, pb, qt, qb :
         /\ ct = BodyTop(c) /\ cb = BodyBottom(c) /\ et = BodyTop(e) /\ eb = BodyBottom(e)
         /\ pt = BodyTop(p) /\ pb = BodyBottom(p) /\ qt = BodyTop(q) /\ qb = BodyBottom(q)
  OBVIOUS
<1>3. /\ ct \in Nat /\ eb \in Nat /\ ct + eb = MirrorPrice
      /\ et \in Nat /\ cb \in Nat /\ et + cb = MirrorPrice
      /\ pt \in Nat /\ qb \in Nat /\ pt + qb = MirrorPrice
      /\ qt \in Nat /\ pb \in Nat /\ qt + pb = MirrorPrice
  BY <1>1, <1>2, BodyEnds
<1>4. ct + eb = pt + qb /\ et + cb = qt + pb
  BY <1>3
<1>5. ct <= pt /\ cb >= pb => et <= qt /\ eb >= qb
  BY <1>3, <1>4
<1>6. Body(e) = Body(c) /\ Body(q) = Body(p)
  BY <1>1, ShapeFacing
<1> QED  BY <1>2, <1>5, <1>6 DEF Held, BodyTop, BodyBottom

(* What makes a bullish kind of two bars makes its twin of their images,   *)
(* and the other way round.                                                *)
LEMMA TwoParts ==
    ASSUME NEW c, NEW p, NEW e, NEW q, Pair(c, p, e, q)
    PROVE  /\ (EngulfsUp(c, p) => EngulfsDown(e, q)) /\ (EngulfsDown(c, p) => EngulfsUp(e, q))
           /\ (Pierces(c, p) => Darkens(e, q)) /\ (Darkens(c, p) => Pierces(e, q))
           /\ (TweezesLow(c, p) => TweezesHigh(e, q)) /\ (TweezesHigh(c, p) => TweezesLow(e, q))
           /\ (HeldUp(c, p) => HeldDown(e, q)) /\ (HeldDown(c, p) => HeldUp(e, q))
           /\ (Inside(c, p) => Inside(e, q))
<1>1. /\ Body(e) = Body(c) /\ Body(q) = Body(p) /\ Span(e) = Span(c) /\ Span(q) = Span(p)
      /\ (Bull(e) <=> ~Bull(c)) /\ (Bull(q) <=> ~Bull(p))
  BY ShapeFacing DEF Pair
<1>2. (Rise(c, p) => Fall(e, q)) /\ (Fall(c, p) => Rise(e, q))
  BY <1>1 DEF Rise, Fall
<1>3. (Solid(c, p) <=> Solid(e, q)) /\ Narrow(e, q) = Narrow(c, p)
  BY <1>1 DEF Solid, Narrow
<1>4. (EngulfsUp(c, p) => EngulfsDown(e, q)) /\ (EngulfsDown(c, p) => EngulfsUp(e, q))
  BY <1>2, <1>3, PairNumbers DEF EngulfsUp, EngulfsDown
<1>5. Pierces(c, p) => Darkens(e, q)
  BY <1>1, <1>2, PairNumbers DEF Pierces, Darkens
<1>6. Darkens(c, p) => Pierces(e, q)
  BY <1>1, <1>2, PairNumbers DEF Pierces, Darkens
<1>7. (TweezesLow(c, p) => TweezesHigh(e, q)) /\ (TweezesHigh(c, p) => TweezesLow(e, q))
  BY <1>2, <1>3, PairNumbers DEF TweezesLow, TweezesHigh
<1>8. (HeldUp(c, p) => HeldDown(e, q)) /\ (HeldDown(c, p) => HeldUp(e, q))
  BY <1>2, HeldFacing DEF HeldUp, HeldDown
<1>9. Inside(c, p) => Inside(e, q)
  BY PairNumbers DEF Inside
<1> QED  BY <1>4, <1>5, <1>6, <1>7, <1>8, <1>9

(* Two bars that are not flat make the twin of the pattern their images    *)
(* make.                                                                   *)
LEMMA TwoFacing ==
    ASSUME NEW c, NEW p, NEW e, NEW q, Pair(c, p, e, q)
    PROVE  detectTwoBar(e, q) = Twin(detectTwoBar(c, p))
<1>1. Span(e) = Span(c) /\ Span(q) = Span(p)
  BY ShapeFacing DEF Pair
<1>2. Pair(e, q, c, p)
  BY PairBack
<1>3. /\ EngulfsUp(c, p) <=> EngulfsDown(e, q)
      /\ EngulfsDown(c, p) <=> EngulfsUp(e, q)
      /\ Pierces(c, p) <=> Darkens(e, q)
      /\ Darkens(c, p) <=> Pierces(e, q)
      /\ TweezesLow(c, p) <=> TweezesHigh(e, q)
      /\ TweezesHigh(c, p) <=> TweezesLow(e, q)
      /\ HeldUp(c, p) <=> HeldDown(e, q)
      /\ HeldDown(c, p) <=> HeldUp(e, q)
      /\ Inside(c, p) <=> Inside(e, q)
  BY <1>2, TwoParts
<1>4. ~(Rise(c, p) /\ Fall(c, p))
  BY DEF Rise, Fall
<1>5. /\ ~(EngulfsUp(c, p) /\ EngulfsDown(c, p))
      /\ ~(Pierces(c, p) /\ Darkens(c, p))
      /\ ~(TweezesLow(c, p) /\ TweezesHigh(c, p))
      /\ ~(HeldUp(c, p) /\ HeldDown(c, p))
  BY <1>4 DEF EngulfsUp, EngulfsDown, Pierces, Darkens, TweezesLow, TweezesHigh, HeldUp, HeldDown
<1>6. /\ Twin("engulfing_bull") = "engulfing_bear" /\ Twin("engulfing_bear") = "engulfing_bull"
      /\ Twin("piercing_line") = "dark_cloud_cover" /\ Twin("dark_cloud_cover") = "piercing_line"
      /\ Twin("tweezer_bottom") = "tweezer_top" /\ Twin("tweezer_top") = "tweezer_bottom"
      /\ Twin("harami_bull") = "harami_bear" /\ Twin("harami_bear") = "harami_bull"
      /\ Twin("inside_bar") = "inside_bar" /\ Twin("") = ""
  BY TwinTable DEF IsTwin
<1> QED  BY <1>1, <1>3, <1>5, <1>6, TwoOf

-----------------------------------------------------------------------------
(* The conditions of detectThreeBar, x being the oldest bar.               *)
Star(x, y, z)    == 2 * Body(y) < Body(x) /\ 2 * Body(z) >= Body(x)
Strong(x, y, z)  == \A b \in {x, y, z} : 2 * Body(b) >= Span(b)
Climb(x, y, z)   == /\ y.close > x.close /\ z.close > y.close
                    /\ y.open > x.open /\ y.open < x.close
                    /\ z.open > y.open /\ z.open < y.close
Sink(x, y, z)    == /\ y.close < x.close /\ z.close < y.close
                    /\ y.open < x.open /\ y.open > x.close
                    /\ z.open < y.open /\ z.open > y.close
Morning(x, y, z)  == ~Bull(x) /\ Star(x, y, z) /\ Bull(z) /\ 2 * z.close > x.open + x.close
Evening(x, y, z)  == Bull(x) /\ Star(x, y, z) /\ ~Bull(z) /\ 2 * z.close < x.open + x.close
Soldiers(x, y, z) == Bull(x) /\ Bull(y) /\ Bull(z) /\ Climb(x, y, z) /\ Strong(x, y, z)
Crows(x, y, z)    == ~Bull(x) /\ ~Bull(y) /\ ~Bull(z) /\ Sink(x, y, z) /\ Strong(x, y, z)

(* The kind of three bars as nested conditions in the order the code tries *)
(* them.                                                                   *)
LEMMA ThreeOf ==
    ASSUME NEW x, NEW y, NEW z
    PROVE  detectThreeBar(x, y, z) =
             IF \E b \in {x, y, z} : Span(b) <= 0 THEN ""
             ELSE IF Morning(x, y, z) THEN "morning_star"
             ELSE IF Evening(x, y, z) THEN "evening_star"
             ELSE IF Soldiers(x, y, z) THEN "three_white_soldiers"
             ELSE IF Crows(x, y, z) THEN "three_black_crows" ELSE ""
<1> DEFINE rules == <<Rule("morning_star", Morning(x, y, z)), Rule("evening_star", Evening(x, y, z)),
                      Rule("three_white_soldiers", Soldiers(x, y, z)),
                      Rule("three_black_crows", Crows(x, y, z))>>
<1>1. detectThreeBar(x, y, z) = IF \E b \in {x, y, z} : Span(b) <= 0 THEN "" ELSE FirstMatch(rules, "")
  BY Zenon DEF detectThreeBar, Morning, Evening, Soldiers, Crows, Star, Strong, Climb, Sink
<1>2. DOMAIN rules = 1..4
  OBVIOUS
<1>3. /\ (rules[1].holds <=> Morning(x, y, z)) /\ rules[1].kind = "morning_star"
      /\ (rules[2].holds <=> Evening(x, y, z)) /\ rules[2].kind = "evening_star"
      /\ (rules[3].holds <=> Soldiers(x, y, z)) /\ rules[3].kind = "three_white_soldiers"
      /\ (rules[4].holds <=> Crows(x, y, z)) /\ rules[4].kind = "three_black_crows"
  BY DEF Rule
<1> HIDE DEF rules
<1>4. FirstMatch(rules, "") =
         IF Morning(x, y, z) THEN "morning_star"
         ELSE IF Evening(x, y, z) THEN "evening_star"
         ELSE IF Soldiers(x, y, z) THEN "three_white_soldiers"
         ELSE IF Crows(x, y, z) THEN "three_black_crows" ELSE ""
  BY <1>2, <1>3, FirstOfFour
<1> QED  BY <1>1, <1>4, Zenon

(* Three bars and their images, none of them flat. *)
Trio(x, y, z, u, v, w) == Pair(x, y, u, v) /\ Pair(z, x, w, u)

(* Being a trio of bars with their images is symmetric.                    *)
LEMMA TrioBack ==
    ASSUME NEW x, NEW y, NEW z, NEW u, NEW v, NEW w, Trio(x, y, z, u, v, w)
    PROVE  Trio(u, v, w, x, y, z)
  BY PairBack DEF Trio

(* Each rule for three bars holds of the images exactly as its counterpart *)
(* does of the bars.                                                       *)
LEMMA ThreeParts ==
    ASSUME NEW x, NEW y, NEW z, NEW u, NEW v, NEW w, Trio(x, y, z, u, v, w)
    PROVE  /\ (Morning(x, y, z) => Evening(u, v, w)) /\ (Evening(x, y, z) => Morning(u, v, w))
           /\ (Soldiers(x, y, z) => Crows(u, v, w)) /\ (Crows(x, y, z) => Soldiers(u, v, w))
           /\ (\E b \in {x, y, z} : Span(b) <= 0) <=> (\E b \in {u, v, w} : Span(b) <= 0)
<1>0. Facing(x, u) /\ Facing(y, v) /\ Facing(z, w) /\ x.open # x.close /\ y.open # y.close /\ z.open # z.close
  BY DEF Trio, Pair
<1>1. /\ Body(u) = Body(x) /\ Body(v) = Body(y) /\ Body(w) = Body(z)
      /\ Span(u) = Span(x) /\ Span(v) = Span(y) /\ Span(w) = Span(z)
      /\ (Bull(u) <=> ~Bull(x)) /\ (Bull(v) <=> ~Bull(y)) /\ (Bull(w) <=> ~Bull(z))
  BY <1>0, ShapeFacing
<1>2. (Star(x, y, z) <=> Star(u, v, w)) /\ (Strong(x, y, z) <=> Strong(u, v, w))
  BY <1>1 DEF Star, Strong
<1>3. (Climb(x, y, z) => Sink(u, v, w)) /\ (Sink(x, y, z) => Climb(u, v, w))
  <2>1. /\ x.open \in Nat /\ x.close \in Nat /\ u.open \in Nat /\ u.close \in Nat
        /\ y.open \in Nat /\ y.close \in Nat /\ v.open \in Nat /\ v.close \in Nat
        /\ z.open \in Nat /\ z.close \in Nat /\ w.open \in Nat /\ w.close \in Nat
        /\ x.open + u.open = MirrorPrice /\ x.close + u.close = MirrorPrice
        /\ y.open + v.open = MirrorPrice /\ y.close + v.close = MirrorPrice
        /\ z.open + w.open = MirrorPrice /\ z.close + w.close = MirrorPrice
    BY <1>0 DEF Facing, Upright, Candle
  <2>2. ASSUME NEW a \in Nat, NEW b \in Nat, NEW e \in Nat, NEW f \in Nat,
               a + e = MirrorPrice, b + f = MirrorPrice
        PROVE  (a > b <=> e < f) /\ (a < b <=> e > f)
    <3>1. a + e = b + f
      BY <2>2
    <3> QED  BY <2>2, <3>1
  <2>3. /\ (y.close > x.close <=> v.close < u.close) /\ (y.close < x.close <=> v.close > u.close)
        /\ (z.close > y.close <=> w.close < v.close) /\ (z.close < y.close <=> w.close > v.close)
    BY <2>1, <2>2
  <2>4. /\ (y.open > x.open <=> v.open < u.open) /\ (y.open < x.open <=> v.open > u.open)
        /\ (z.open > y.open <=> w.open < v.open) /\ (z.open < y.open <=> w.open > v.open)
    BY <2>1, <2>2
  <2>5. /\ (y.open < x.close <=> v.open > u.close) /\ (y.open > x.close <=> v.open < u.close)
        /\ (z.open < y.close <=> w.open > v.close) /\ (z.open > y.close <=> w.open < v.close)
    BY <2>1, <2>2
  <2> QED  BY <2>3, <2>4, <2>5 DEF Climb, Sink
<1>4. /\ 2 * z.close > x.open + x.close <=> 2 * w.close < u.open + u.close
      /\ 2 * z.close < x.open + x.close <=> 2 * w.close > u.open + u.close
  BY PairNumbers DEF Trio
<1>5. (Morning(x, y, z) => Evening(u, v, w)) /\ (Evening(x, y, z) => Morning(u, v, w))
  BY <1>1, <1>2, <1>4 DEF Morning, Evening
<1>6. (Soldiers(x, y, z) => Crows(u, v, w)) /\ (Crows(x, y, z) => Soldiers(u, v, w))
  BY <1>1, <1>2, <1>3 DEF Soldiers, Crows
<1>7. (\E b \in {x, y, z} : Span(b) <= 0) <=> (\E b \in {u, v, w} : Span(b) <= 0)
  BY <1>1
<1> QED  BY <1>5, <1>6, <1>7

(* Three bars that are not flat make the twin of the pattern their images  *)
(* make.                                                                   *)
LEMMA ThreeFacing ==
    ASSUME NEW x, NEW y, NEW z, NEW u, NEW v, NEW w, Trio(x, y, z, u, v, w)
    PROVE  detectThreeBar(u, v, w) = Twin(detectThreeBar(x, y, z))
<1>1. Trio(u, v, w, x, y, z)
  BY TrioBack
<1>2. /\ Morning(x, y, z) <=> Evening(u, v, w)
      /\ Evening(x, y, z) <=> Morning(u, v, w)
      /\ Soldiers(x, y, z) <=> Crows(u, v, w)
      /\ Crows(x, y, z) <=> Soldiers(u, v, w)
  BY <1>1, ThreeParts
<1>3. (\E b \in {x, y, z} : Span(b) <= 0) <=> (\E b \in {u, v, w} : Span(b) <= 0)
  BY ThreeParts
<1>4. ~(Morning(x, y, z) /\ Evening(x, y, z)) /\ ~(Soldiers(x, y, z) /\ Crows(x, y, z))
  BY DEF Morning, Evening, Soldiers, Crows
<1>5. /\ Twin("morning_star") = "evening_star" /\ Twin("evening_star") = "morning_star"
      /\ Twin("three_white_soldiers") = "three_black_crows"
      /\ Twin("three_black_crows") = "three_white_soldiers" /\ Twin("") = ""
  BY TwinTable DEF IsTwin
<1> DEFINE flat == \E b \in {x, y, z} : Span(b) <= 0
<1>6. detectThreeBar(x, y, z) =
             IF flat THEN "" ELSE IF Morning(x, y, z) THEN "morning_star"
             ELSE IF Evening(x, y, z) THEN "evening_star"
             ELSE IF Soldiers(x, y, z) THEN "three_white_soldiers"
             ELSE IF Crows(x, y, z) THEN "three_black_crows" ELSE ""
  BY ThreeOf
<1>7. detectThreeBar(u, v, w) =
             IF flat THEN "" ELSE IF Evening(x, y, z) THEN "morning_star"
             ELSE IF Morning(x, y, z) THEN "evening_star"
             ELSE IF Crows(x, y, z) THEN "three_white_soldiers"
             ELSE IF Soldiers(x, y, z) THEN "three_black_crows" ELSE ""
  BY <1>2, <1>3, ThreeOf
<1> HIDE DEF flat
<1> QED  BY <1>4, <1>5, <1>6, <1>7
-----------------------------------------------------------------------------
(* The pattern of a bar of the image is the twin of the pattern.           *)
LEMMA PatternFacing ==
    ASSUME NEW c, NEW d, Reflects(c, d), \A j \in 1..Len(c) : c[j].open # c[j].close, NEW i \in 1..Len(c)
    PROVE  DetectPattern(d, i) = Twin(DetectPattern(c, i))
<1>1. \A j \in 1..Len(c) : Facing(c[j], d[j])
  BY DEF Reflects
<1>2. Len(c) \in Nat
  BY DEF Reflects
<1> DEFINE three == IF i >= 3 THEN detectThreeBar(c[i - 2], c[i - 1], c[i]) ELSE ""
           two == IF i >= 2 THEN detectTwoBar(c[i], c[i - 1]) ELSE ""
           Three == IF i >= 3 THEN detectThreeBar(d[i - 2], d[i - 1], d[i]) ELSE ""
           Two == IF i >= 2 THEN detectTwoBar(d[i], d[i - 1]) ELSE ""
<1>3. Twin("") = ""
  BY TwinTable DEF IsTwin
<1>4. Three = Twin(three) /\ three = Twin(Three)
  <2>1. ASSUME i >= 3 PROVE Trio(c[i - 2], c[i - 1], c[i], d[i - 2], d[i - 1], d[i])
    <3>1. i - 2 \in 1..Len(c) /\ i - 1 \in 1..Len(c)
      BY <1>2, <2>1
    <3> QED  BY <1>1, <3>1 DEF Trio, Pair
  <2>2. ASSUME i >= 3 PROVE Trio(d[i - 2], d[i - 1], d[i], c[i - 2], c[i - 1], c[i])
    BY <2>1, <2>2, TrioBack
  <2>3. CASE i >= 3
    <3>1. detectThreeBar(d[i - 2], d[i - 1], d[i]) = Twin(detectThreeBar(c[i - 2], c[i - 1], c[i]))
      BY <2>1, <2>3, ThreeFacing
    <3>2. detectThreeBar(c[i - 2], c[i - 1], c[i]) = Twin(detectThreeBar(d[i - 2], d[i - 1], d[i]))
      BY <2>2, <2>3, ThreeFacing
    <3> QED  BY <2>3, <3>1, <3>2
  <2>4. CASE ~(i >= 3)
    BY <1>3, <2>4, Zenon
  <2> QED  BY <2>3, <2>4
<1>5. Two = Twin(two) /\ two = Twin(Two)
  <2>1. ASSUME i >= 2 PROVE Pair(c[i], c[i - 1], d[i], d[i - 1])
    <3>1. i - 1 \in 1..Len(c)
      BY <1>2, <2>1
    <3> QED  BY <1>1, <3>1 DEF Pair
  <2>2. ASSUME i >= 2 PROVE Pair(d[i], d[i - 1], c[i], c[i - 1])
    BY <2>1, <2>2, PairBack
  <2>3. CASE i >= 2
    <3>1. detectTwoBar(d[i], d[i - 1]) = Twin(detectTwoBar(c[i], c[i - 1]))
      BY <2>1, <2>3, TwoFacing
    <3>2. detectTwoBar(c[i], c[i - 1]) = Twin(detectTwoBar(d[i], d[i - 1]))
      BY <2>2, <2>3, TwoFacing
    <3> QED  BY <2>3, <3>1, <3>2
  <2>4. CASE ~(i >= 2)
    BY <1>3, <2>4, Zenon
  <2> QED  BY <2>3, <2>4
<1>6. detectSingleBar(d[i]) = Twin(detectSingleBar(c[i]))
  BY <1>1, SingleFacing
<1>7. /\ DetectPattern(c, i) = IF three # "" THEN three ELSE IF two # "" THEN two ELSE detectSingleBar(c[i])
      /\ DetectPattern(d, i) = IF Three # "" THEN Three ELSE IF Two # "" THEN Two ELSE detectSingleBar(d[i])
  BY Zenon DEF DetectPattern
<1> HIDE DEF three, two, Three, Two
<1>8. (three = "" <=> Three = "") /\ (two = "" <=> Two = "")
  BY <1>3, <1>4, <1>5
<1> QED  BY <1>4, <1>5, <1>6, <1>7, <1>8

-----------------------------------------------------------------------------
(* The twin of a bullish reversal is a bearish one. *)
LEMMA ReversalTwins ==
    /\ \A k \in BullishReversals : Twin(k) \in BearishReversals
    /\ \A k \in BearishReversals : Twin(k) \in BullishReversals
    /\ Twin("three_white_soldiers") = "three_black_crows"
    /\ Twin("three_black_crows") = "three_white_soldiers"
<1>0. /\ Twin("hammer") = "shooting_star" /\ Twin("shooting_star") = "hammer"
      /\ Twin("piercing_line") = "dark_cloud_cover" /\ Twin("dark_cloud_cover") = "piercing_line"
      /\ Twin("engulfing_bull") = "engulfing_bear" /\ Twin("engulfing_bear") = "engulfing_bull"
      /\ Twin("dragonfly_doji") = "gravestone_doji" /\ Twin("gravestone_doji") = "dragonfly_doji"
      /\ Twin("tweezer_bottom") = "tweezer_top" /\ Twin("tweezer_top") = "tweezer_bottom"
      /\ Twin("harami_bull") = "harami_bear" /\ Twin("harami_bear") = "harami_bull"
      /\ Twin("morning_star") = "evening_star" /\ Twin("evening_star") = "morning_star"
  BY TwinTable, Zenon DEF IsTwin
<1>1. \A k \in BullishReversals : Twin(k) \in BearishReversals
  <2>1. ASSUME NEW k \in BullishReversals PROVE Twin(k) \in BearishReversals
    <3>1. \/ k = "hammer" \/ k = "piercing_line" \/ k = "engulfing_bull" \/ k = "dragonfly_doji"
          \/ k = "tweezer_bottom" \/ k = "harami_bull" \/ k = "morning_star"
      BY DEF BullishReversals
    <3>2. Twin(k) \in {"shooting_star", "dark_cloud_cover", "engulfing_bear", "gravestone_doji",
                      "tweezer_top", "harami_bear", "evening_star"}
      BY <1>0, <3>1
    <3> QED  BY <3>2 DEF BearishReversals
  <2> QED  BY <2>1
<1>2. \A k \in BearishReversals : Twin(k) \in BullishReversals
  <2>1. ASSUME NEW k \in BearishReversals PROVE Twin(k) \in BullishReversals
    <3>1. \/ k = "shooting_star" \/ k = "dark_cloud_cover" \/ k = "engulfing_bear" \/ k = "gravestone_doji"
          \/ k = "tweezer_top" \/ k = "harami_bear" \/ k = "evening_star"
      BY DEF BearishReversals
    <3>2. Twin(k) \in {"hammer", "piercing_line", "engulfing_bull", "dragonfly_doji",
                      "tweezer_bottom", "harami_bull", "morning_star"}
      BY <1>0, <3>1
    <3> QED  BY <3>2 DEF BullishReversals
  <2> QED  BY <2>1
<1> QED  BY <1>1, <1>2, TwinTable DEF IsTwin

(* What disproves a pattern disproves its twin in the image. *)
LEMMA DisprovedToo ==
    ASSUME NEW c, NEW d, Reflects(c, d), NEW i \in 1..Len(c), NEW k, NEW l, l = Twin(k),
           Invalidated(c, i, k)
    PROVE  Invalidated(d, i, l)
<1>1. PICK j \in (i + 1)..Len(c) :
         \/ k \in BullishReversals /\ c[j].close < c[i].low
         \/ k \in BearishReversals /\ c[j].close > c[i].high
         \/ k = "three_white_soldiers" /\ i >= 3 /\ c[j].close < c[i - 2].open
         \/ k = "three_black_crows" /\ i >= 3 /\ c[j].close > c[i - 2].open
  BY Zenon DEF Invalidated
<1>2. /\ Len(c) \in Nat /\ Len(d) = Len(c) /\ j \in 1..Len(c) /\ MirrorPrice \in Nat
      /\ i >= 3 => i - 2 \in 1..Len(c)
  BY MirrorConstants DEF Reflects
<1>3. /\ c[j].close \in Nat /\ d[j].close \in Nat /\ c[j].close + d[j].close = MirrorPrice
      /\ c[i].low \in Nat /\ d[i].high \in Nat /\ c[i].low + d[i].high = MirrorPrice
      /\ c[i].high \in Nat /\ d[i].low \in Nat /\ c[i].high + d[i].low = MirrorPrice
  BY <1>2, PricesFacing
<1>p. PICK x, y, lo, hi, Lo, Hi, m :
         /\ x = c[j].close /\ y = d[j].close /\ lo = c[i].low /\ hi = c[i].high
         /\ Lo = d[i].low /\ Hi = d[i].high /\ m = MirrorPrice
  OBVIOUS
<1>n.    /\ x \in Nat /\ y \in Nat /\ lo \in Nat /\ hi \in Nat /\ Lo \in Nat /\ Hi \in Nat /\ m \in Nat
         /\ x + y = m /\ lo + Hi = m /\ hi + Lo = m
  BY <1>2, <1>3, <1>p
<1>4. ASSUME i >= 3
      PROVE  \E o, e \in Nat : o = c[i - 2].open /\ e = d[i - 2].open /\ o + e = m
  <2>0. PICK t \in 1..Len(c) : t = i - 2
    BY <1>2, <1>4
  <2>1. /\ c[t].open \in Nat /\ d[t].open \in Nat
        /\ c[t].open + d[t].open = MirrorPrice
    BY PricesFacing
  <2> QED  BY <1>p, <2>0, <2>1
<1>5. \/ l \in BearishReversals /\ d[j].close > d[i].high
      \/ l \in BullishReversals /\ d[j].close < d[i].low
      \/ l = "three_black_crows" /\ i >= 3 /\ d[j].close > d[i - 2].open
      \/ l = "three_white_soldiers" /\ i >= 3 /\ d[j].close < d[i - 2].open
  <2>1. CASE k \in BullishReversals /\ c[j].close < c[i].low
    <3>0. x < lo
      BY <1>p, <2>1
    <3>1. y > Hi
      BY <1>n, <3>0
    <3> QED  BY <1>p, <2>1, <3>1, ReversalTwins
  <2>2. CASE k \in BearishReversals /\ c[j].close > c[i].high
    <3>0. x > hi
      BY <1>p, <2>2
    <3>1. y < Lo
      BY <1>n, <3>0
    <3> QED  BY <1>p, <2>2, <3>1, ReversalTwins
  <2>3. CASE k = "three_white_soldiers" /\ i >= 3 /\ c[j].close < c[i - 2].open
    <3>1. PICK o, e \in Nat : o = c[i - 2].open /\ e = d[i - 2].open /\ o + e = m
      BY <1>4, <2>3
    <3>2. x < o
      BY <1>p, <2>3, <3>1
    <3>3. y > e
      <4>1. /\ x \in Nat /\ y \in Nat /\ o \in Nat /\ e \in Nat
            /\ x + y = o + e /\ x < o
        BY <1>n, <3>1, <3>2
      <4> QED  BY <4>1
    <3> QED  BY <1>p, <2>3, <3>1, <3>3, ReversalTwins
  <2>4. CASE k = "three_black_crows" /\ i >= 3 /\ c[j].close > c[i - 2].open
    <3>1. PICK o, e \in Nat : o = c[i - 2].open /\ e = d[i - 2].open /\ o + e = m
      BY <1>4, <2>4
    <3>2. x > o
      BY <1>p, <2>4, <3>1
    <3>3. y < e
      <4>1. /\ x \in Nat /\ y \in Nat /\ o \in Nat /\ e \in Nat
            /\ x + y = o + e /\ o < x
        BY <1>n, <3>1, <3>2
      <4> QED  BY <4>1
    <3> QED  BY <1>p, <2>4, <3>1, <3>3, ReversalTwins
  <2> QED  BY <1>1, <2>1, <2>2, <2>3, <2>4
<1>6. j \in (i + 1)..Len(d)
  BY <1>2
<1> QED  BY <1>5, <1>6, Zenon DEF Invalidated

(* Equivalent truth values are equal.                                      *)
LEMMA SameTruth ==
    ASSUME NEW x \in BOOLEAN, NEW y \in BOOLEAN, x <=> y
    PROVE  x = y
  OBVIOUS

(* The twin of a pattern is disproved when the pattern is. *)
LEMMA PatternsFacing ==
    ASSUME NEW c, NEW d, Reflects(c, d), \A j \in 1..Len(c) : c[j].open # c[j].close, NEW i \in 1..Len(c)
    PROVE  /\ DetectPattern(d, i) = Twin(DetectPattern(c, i))
           /\ Invalidated(d, i, DetectPattern(d, i)) = Invalidated(c, i, DetectPattern(c, i))
<1>1. Reflects(d, c) /\ Len(d) = Len(c)
  BY ReflectsBack DEF Reflects
<1>2. ASSUME NEW j \in 1..Len(d) PROVE d[j].open # d[j].close
  <2>1. Facing(c[j], d[j]) /\ c[j].open # c[j].close
    BY <1>1 DEF Reflects
  <2> QED  BY <2>1, PairBack DEF Pair
<1>3. PICK k, l : k = DetectPattern(c, i) /\ l = DetectPattern(d, i)
  OBVIOUS
<1>4. l = Twin(k)
  BY <1>3, PatternFacing
<1>5. k = Twin(l)
  BY <1>1, <1>2, <1>3, PatternFacing
<1>6. Invalidated(c, i, k) => Invalidated(d, i, l)
  BY <1>4, DisprovedToo
<1>7. Invalidated(d, i, l) => Invalidated(c, i, k)
  BY <1>1, <1>5, DisprovedToo
<1>8. Invalidated(c, i, k) \in BOOLEAN /\ Invalidated(d, i, l) \in BOOLEAN
  BY Zenon DEF Invalidated
<1>9. Invalidated(d, i, l) = Invalidated(c, i, k)
  BY <1>6, <1>7, <1>8, SameTruth, Zenon
<1> QED  BY <1>3, <1>4, <1>9

-----------------------------------------------------------------------------
(* The partial sums of f. *)
Sums(n, f, s) ==
    /\ s \in [0..n -> Int] /\ s[0] = 0
    /\ \A k \in 1..n : s[k] = s[k - 1] + f[k - 1]

(* Every finite list of integers has partial sums.                         *)
LEMMA PartialSums ==
    ASSUME NEW n \in Nat, NEW f, \A k \in 0..(n - 1) : f[k] \in Int
    PROVE  \E s : Sums(n, f, s)
<1> DEFINE Without == {k \in 0..n : ~ \E s : Sums(k, f, s)}
<1>1. Without = {}
  <2>1. SUFFICES ASSUME Without # {} PROVE FALSE
    OBVIOUS
  <2>2. PICK k \in Without : \A j \in Without : k <= j
    <3>1. Without \subseteq Nat
      OBVIOUS
    <3> HIDE DEF Without
    <3> QED  BY <2>1, <3>1, HasLeast
  <2>3. k \in 0..n /\ ~ \E s : Sums(k, f, s)
    BY <2>2
  <2>4. k # 0
    <3>1. ASSUME NEW s, s = [i \in 0..0 |-> 0] PROVE Sums(0, f, s)
      <4>1. 1..0 = {} /\ 0 \in 0..0
        OBVIOUS
      <4> QED  BY <3>1, <4>1 DEF Sums
    <3> QED  BY <2>3, <3>1
  <2>5. k - 1 \in 0..n /\ k \in 1..n /\ k - 1 \notin Without
    <3>1. k \in 0..n
      BY <2>3
    <3> HIDE DEF Without
    <3>2. k - 1 \in Without => k <= k - 1
      BY <2>2
    <3> QED  BY <2>4, <3>1, <3>2
  <2>6. PICK s : Sums(k - 1, f, s)
    BY <2>5
  <2> DEFINE g == [i \in 0..k |-> IF i = k THEN s[k - 1] + f[k - 1] ELSE s[i]]
  <2>7. s \in [0..(k - 1) -> Int] /\ s[0] = 0 /\ \A i \in 1..(k - 1) : s[i] = s[i - 1] + f[i - 1]
    BY <2>6 DEF Sums
  <2>8. s[k - 1] + f[k - 1] \in Int
    <3>1. k - 1 \in 0..(k - 1) /\ k - 1 \in 0..(n - 1)
      BY <2>5
    <3> QED  BY <2>7, <3>1
  <2>9. \A i \in 0..k : i = k \/ i \in 0..(k - 1)
    BY <2>5
  <2>10. g \in [0..k -> Int]
    BY <2>7, <2>8, <2>9
  <2>11. g[0] = 0
    BY <2>5, <2>7
  <2>12. ASSUME NEW i \in 1..k PROVE g[i] = g[i - 1] + f[i - 1]
    <3>1. i \in 0..k /\ i - 1 \in 0..k /\ i - 1 # k
      BY <2>5
    <3>2. g[i - 1] = s[i - 1] /\ g[i] = IF i = k THEN s[k - 1] + f[k - 1] ELSE s[i]
      BY <3>1
    <3> HIDE DEF g
    <3>3. CASE i = k
      BY <3>2, <3>3
    <3>4. CASE i # k
      <4>1. i \in 1..(k - 1)
        BY <2>5, <3>4
      <4> QED  BY <2>7, <3>2, <3>4, <4>1
    <3> QED  BY <3>3, <3>4
  <2> HIDE DEF g
  <2> QED  BY <2>3, <2>10, <2>11, <2>12 DEF Sums
<1>2. n \in 0..n /\ n \notin Without
  BY <1>1
<1> QED  BY <1>2

(* Total, a recursion, is the last partial sum. *)
LEMMA TotalIs ==
    ASSUME NEW n \in Nat, NEW f, \A k \in 0..(n - 1) : f[k] \in Int
    PROVE  \E s : Sums(n, f, s) /\ Total(f, n) = s[n]
<1> DEFINE g == CHOOSE s : s = [k \in 0..n |-> IF k = 0 THEN 0 ELSE s[k - 1] + f[k - 1]]
<1>1. PICK s : Sums(n, f, s)
  BY PartialSums
<1>2. s = [k \in 0..n |-> IF k = 0 THEN 0 ELSE s[k - 1] + f[k - 1]]
  <2>1. s = [k \in 0..n |-> s[k]]
    BY <1>1 DEF Sums
  <2>2. \A k \in 0..n : s[k] = IF k = 0 THEN 0 ELSE s[k - 1] + f[k - 1]
    BY <1>1 DEF Sums
  <2> QED  BY <2>1, <2>2
<1>3. g = [k \in 0..n |-> IF k = 0 THEN 0 ELSE g[k - 1] + f[k - 1]]
  BY <1>2
<1>4. Total(f, n) = g[n]
  BY DEF Total
<1> HIDE DEF g
<1>5. \A k \in 0..n : g[k] = IF k = 0 THEN 0 ELSE g[k - 1] + f[k - 1]
  BY <1>3
<1>6. g[0] = 0 /\ \A k \in 1..n : g[k] = g[k - 1] + f[k - 1]
  BY <1>5
<1> DEFINE Unlike == {k \in 0..n : g[k] # s[k]}
<1>7. Unlike = {}
  <2>1. SUFFICES ASSUME Unlike # {} PROVE FALSE
    OBVIOUS
  <2>2. PICK k \in Unlike : \A j \in Unlike : k <= j
    <3>1. Unlike \subseteq Nat
      OBVIOUS
    <3> HIDE DEF Unlike
    <3> QED  BY <2>1, <3>1, HasLeast
  <2>3. k \in 0..n /\ g[k] # s[k]
    BY <2>2
  <2>4. k # 0 /\ k \in 1..n /\ k - 1 \in 0..n
    BY <1>1, <1>6, <2>3 DEF Sums
  <2>5. k - 1 \notin Unlike
    <3> HIDE DEF Unlike
    <3>1. k - 1 \in Unlike => k <= k - 1
      BY <2>2
    <3> QED  BY <2>4, <3>1
  <2>6. g[k - 1] = s[k - 1]
    BY <2>4, <2>5
  <2> QED  BY <1>1, <1>6, <2>3, <2>4, <2>6 DEF Sums
<1>8. g[n] = s[n]
  <2>1. n \in 0..n
    OBVIOUS
  <2> QED  BY <1>7, <2>1
<1> QED  BY <1>1, <1>4, <1>8

(* The sums of values that complete each other to a multiple of m. *)
Completes(n, m, f, g, h) ==
    \A k \in 0..(n - 1) : /\ f[k] \in Int /\ g[k] \in Int /\ h[k] \in Int
                          /\ f[k] + g[k] = m * h[k]

(* Values that complete each other to m times a third have sums that do so *)
(* too.                                                                    *)
LEMMA SumsFacing ==
    ASSUME NEW n \in Nat, NEW m \in Int, NEW f, NEW g, NEW h, NEW s, NEW t, NEW u,
           Completes(n, m, f, g, h), Sums(n, f, s), Sums(n, g, t), Sums(n, h, u)
    PROVE  s[n] + t[n] = m * u[n]
<1> DEFINE Unlike == {k \in 0..n : s[k] + t[k] # m * u[k]}
<1>1. Unlike = {}
  <2>1. SUFFICES ASSUME Unlike # {} PROVE FALSE
    OBVIOUS
  <2>2. PICK k \in Unlike : \A j \in Unlike : k <= j
    <3>1. Unlike \subseteq Nat
      OBVIOUS
    <3> HIDE DEF Unlike
    <3> QED  BY <2>1, <3>1, HasLeast
  <2>3. k \in 0..n /\ s[k] + t[k] # m * u[k]
    BY <2>2
  <2>4. k # 0
    BY <2>3 DEF Sums
  <2>5. k \in 1..n /\ k - 1 \in 0..n /\ k - 1 \in 0..(n - 1)
    BY <2>3, <2>4
  <2>6. k - 1 \notin Unlike
    <3> HIDE DEF Unlike
    <3>1. k - 1 \in Unlike => k <= k - 1
      BY <2>2
    <3> QED  BY <2>5, <3>1
  <2>7. s[k - 1] + t[k - 1] = m * u[k - 1]
    BY <2>5, <2>6
  <2>8. PICK x, y, z, p, q, r : /\ x = s[k - 1] /\ y = t[k - 1] /\ z = u[k - 1]
                                /\ p = f[k - 1] /\ q = g[k - 1] /\ r = h[k - 1]
    OBVIOUS
  <2>9. /\ x \in Int /\ y \in Int /\ z \in Int /\ p \in Int /\ q \in Int /\ r \in Int
    BY <2>5, <2>8 DEF Sums, Completes
  <2>10. s[k] = x + p /\ t[k] = y + q /\ u[k] = z + r
    BY <2>5, <2>8 DEF Sums
  <2>11. p + q = m * r /\ x + y = m * z
    BY <2>5, <2>7, <2>8 DEF Completes
  <2>12. (x + p) + (y + q) = m * (z + r)
    <3>1. m * (z + r) = m * z + m * r
      BY <2>9
    <3>2. PICK v, w \in Int : v = m * z /\ w = m * r
      BY <2>9
    <3> QED  BY <2>9, <2>11, <3>1, <3>2
  <2> QED  BY <2>3, <2>10, <2>12
<1>2. n \in 0..n
  OBVIOUS
<1> QED  BY <1>1, <1>2

-----------------------------------------------------------------------------
(* One more bar spreads the bars no less. *)
LEMMA SpreadStep ==
    ASSUME NEW j \in Nat, NEW x \in Int, NEW q \in Nat, 2 * x = j * j - j, j * q >= x * x
    PROVE  /\ 2 * (x + j) = (j + 1) * (j + 1) - (j + 1)
           /\ q + j * j \in Nat
           /\ (j + 1) * (q + j * j) >= (x + j) * (x + j)
<1>1. PICK jj \in Nat : jj = j * j
  OBVIOUS
<1>2. (j + 1) * (j + 1) = jj + 2 * j + 1
  BY <1>1
<1>3. 2 * (x + j) = (j + 1) * (j + 1) - (j + 1)
  BY <1>1, <1>2
<1>4. PICK jq, xx, jjj, xj \in Int : jq = j * q /\ xx = x * x /\ jjj = j * jj /\ xj = x * j
  BY <1>1
<1>5. (j + 1) * (q + jj) = jq + jjj + q + jj
  <2>1. (j + 1) * (q + jj) = j * q + j * jj + q + jj
    BY <1>1
  <2> QED  BY <1>4, <2>1
<1>6. (x + j) * (x + j) = xx + 2 * xj + jj
  <2>1. (x + j) * (x + j) = x * x + 2 * (x * j) + j * j
    OBVIOUS
  <2> QED  BY <1>1, <1>4, <2>1
<1>7. 2 * xj = jjj - jj
  <2>1. (2 * x) * j = (jj - j) * j
    BY <1>1
  <2>2. (2 * x) * j = 2 * (x * j) /\ (jj - j) * j = j * jj - j * j
    BY <1>1
  <2> QED  BY <1>1, <1>4, <2>1, <2>2
<1>8. jq >= xx
  BY <1>4
<1>9. (j + 1) * (q + jj) >= (x + j) * (x + j)
  BY <1>1, <1>4, <1>5, <1>6, <1>7, <1>8
<1> QED  BY <1>1, <1>3, <1>9

(* The bars 0..(n - 1) never spread by less than nothing. *)
LEMMA SpreadIsNat ==
    ASSUME NEW n \in Nat, NEW f, NEW g, NEW u, NEW v,
           \A k \in 0..(n - 1) : f[k] = k /\ g[k] = k * k,
           Sums(n, f, u), Sums(n, g, v)
    PROVE  n * v[n] - u[n] * u[n] >= 0
<1> DEFINE Spread(k) == 2 * u[k] = k * k - k /\ v[k] \in Nat /\ k * v[k] >= u[k] * u[k]
           Without == {k \in 0..n : ~Spread(k)}
<1>1. Without = {}
  <2>1. SUFFICES ASSUME Without # {} PROVE FALSE
    OBVIOUS
  <2>2. PICK k \in Without : \A j \in Without : k <= j
    <3>1. Without \subseteq Nat
      OBVIOUS
    <3> HIDE DEF Without
    <3> QED  BY <2>1, <3>1, HasLeast
  <2>3. k \in 0..n /\ ~Spread(k)
    BY <2>2
  <2>4. k # 0
    BY <2>3 DEF Sums
  <2>5. k \in 1..n /\ k - 1 \in 0..n /\ k - 1 \in 0..(n - 1)
    BY <2>3, <2>4
  <2>6. k - 1 \notin Without
    <3> HIDE DEF Without
    <3>1. k - 1 \in Without => k <= k - 1
      BY <2>2
    <3> QED  BY <2>5, <3>1
  <2>7. PICK j \in Nat : j = k - 1 /\ k = j + 1
    BY <2>5
  <2>8. Spread(j)
    BY <2>5, <2>6, <2>7
  <2>9. PICK x, q : x = u[j] /\ q = v[j]
    OBVIOUS
  <2>10. x \in Int /\ q \in Nat /\ 2 * x = j * j - j /\ j * q >= x * x
    BY <2>5, <2>7, <2>8, <2>9 DEF Sums
  <2>11. u[k] = x + j /\ v[k] = q + j * j
    BY <2>5, <2>7, <2>9 DEF Sums
  <2>12. /\ 2 * (x + j) = (j + 1) * (j + 1) - (j + 1)
         /\ q + j * j \in Nat
         /\ (j + 1) * (q + j * j) >= (x + j) * (x + j)
    BY <2>10, SpreadStep
  <2>13. Spread(k)
    BY <2>7, <2>11, <2>12
  <2> QED  BY <2>3, <2>13
<1>2. Spread(n)
  <2>1. n \in 0..n
    OBVIOUS
  <2>2. n \notin Without
    BY <1>1
  <2> HIDE DEF Spread
  <2> QED  BY <2>1, <2>2
<1>3. u[n] \in Int /\ v[n] \in Nat
  BY <1>2 DEF Sums
<1>4. PICK a, b \in Int : a = n * v[n] /\ b = u[n] * u[n] /\ a >= b
  BY <1>2, <1>3
<1> QED  BY <1>4

(* The slope of values that complete each other to m. *)
LEMMA SlopeFacing ==
    ASSUME NEW n \in Int, NEW m \in Int, NEW x \in Int, NEW y \in Int, NEW xy \in Int,
           NEW z \in Int, NEW xz \in Int, y + z = m * n, xy + xz = m * x
    PROVE  n * xz - x * z = -(n * xy - x * y)
<1>1. z = m * n - y /\ xz = m * x - xy
  <2>1. PICK v, w \in Int : v = m * n /\ w = m * x
    OBVIOUS
  <2> QED  BY <2>1
<1>2. n * xz = n * (m * x) - n * xy
  BY <1>1
<1>3. x * z = x * (m * n) - x * y
  BY <1>1
<1>4. n * (m * x) = x * (m * n)
  OBVIOUS
<1>5. PICK p, q, r, a, b \in Int : /\ p = n * (m * x) /\ q = n * xy /\ r = x * y
                                   /\ a = n * xz /\ b = x * z
  OBVIOUS
<1> QED  BY <1>2, <1>3, <1>4, <1>5

-----------------------------------------------------------------------------
(* The parts of the slope. *)
Places(n) == [k \in 0..(n - 1) |-> k]
Closes(c, from, n) == [k \in 0..(n - 1) |-> c[from + k].close]
Products(n, x, y) == [k \in 0..(n - 1) |-> x[k] * y[k]]

Slope(c, from, n) ==
    n * Total(Products(n, Places(n), Closes(c, from, n)), n)
      - Total(Places(n), n) * Total(Closes(c, from, n), n)

Spread(n) ==
    n * Total(Products(n, Places(n), Places(n)), n) - Total(Places(n), n) * Total(Places(n), n)

(* The trend compares the least-squares slope with a tenth of the ATR,     *)
(* both multiplied by the spread of the places.                            *)
LEMMA TrendOf ==
    ASSUME NEW c, NEW from, NEW to, NEW atr, NEW n, n = to - from + 1
    PROVE  PriorTrend(c, from, to, atr) = IF 10 * Slope(c, from, n) < -(atr * Spread(n)) THEN "DOWN"
                                          ELSE IF 10 * Slope(c, from, n) > atr * Spread(n) THEN "UP"
                                          ELSE "FLAT"
<1>1. PriorTrend(c, from, to, atr) =
        IF 10 * Slope(c, from, to - from + 1) < -(atr * Spread(to - from + 1)) THEN "DOWN"
        ELSE IF 10 * Slope(c, from, to - from + 1) > atr * Spread(to - from + 1) THEN "UP"
        ELSE "FLAT"
  BY Zenon DEF PriorTrend, Slope, Spread, Places, Closes, Products
<1> QED  BY <1>1, Zenon

(* A rise is a fall of the image, and bars do not spread by less than 0. *)
LEMMA SlopesFacing ==
    ASSUME NEW c, NEW d, Reflects(c, d), NEW from \in Nat, NEW n \in Nat, from >= 1,
           from + n - 1 <= Len(c)
    PROVE  /\ Slope(c, from, n) \in Int /\ Slope(d, from, n) = -Slope(c, from, n)
           /\ Spread(n) \in Int /\ Spread(n) >= 0
<1> DEFINE x == Places(n)
           y == Closes(c, from, n)
           z == Closes(d, from, n)
           xx == Products(n, x, x)
           xy == Products(n, x, y)
           xz == Products(n, x, z)
<1>1. PICK m \in Nat : m = MirrorPrice
  BY MirrorConstants
<1>2. ASSUME NEW k \in 0..(n - 1)
      PROVE  /\ x[k] = k /\ y[k] \in Int /\ z[k] \in Int /\ y[k] + z[k] = m
             /\ xx[k] = k * k /\ xy[k] = k * y[k] /\ xz[k] = k * z[k]
  <2>1. PICK i \in 1..Len(c) : i = from + k
    <3>1. Len(c) \in Nat
      BY DEF Reflects
    <3> QED  BY <3>1
  <2>2. x[k] = k /\ y[k] = c[i].close /\ z[k] = d[i].close
    BY <2>1 DEF Places, Closes
  <2>3. c[i].close \in Int /\ d[i].close \in Int /\ c[i].close + d[i].close = m
    BY <1>1, PricesFacing
  <2>4. xx[k] = x[k] * x[k] /\ xy[k] = x[k] * y[k] /\ xz[k] = x[k] * z[k]
    BY DEF Products
  <2> QED  BY <2>2, <2>3, <2>4
<1> HIDE DEF x, y, z, xx, xy, xz
<1>3. ASSUME NEW k \in 0..(n - 1)
      PROVE  /\ x[k] \in Int /\ xx[k] \in Int /\ xy[k] \in Int /\ xz[k] \in Int
             /\ xy[k] + xz[k] = m * x[k]
  <2>1. PICK v, w \in Int : v = y[k] /\ w = z[k] /\ v + w = m
    BY <1>2
  <2>2. xy[k] = k * v /\ xz[k] = k * w /\ x[k] = k /\ xx[k] = k * k
    BY <1>2, <2>1
  <2>3. k * v + k * w = k * (v + w)
    OBVIOUS
  <2>4. k * v + k * w = m * k
    BY <2>1, <2>3
  <2> QED  BY <2>2, <2>4
<1>4. /\ \A k \in 0..(n - 1) : x[k] \in Int
      /\ \A k \in 0..(n - 1) : y[k] \in Int
      /\ \A k \in 0..(n - 1) : z[k] \in Int
      /\ \A k \in 0..(n - 1) : xx[k] \in Int
      /\ \A k \in 0..(n - 1) : xy[k] \in Int
      /\ \A k \in 0..(n - 1) : xz[k] \in Int
  BY <1>2, <1>3
<1>5. /\ \E s : Sums(n, x, s) /\ Total(x, n) = s[n]
      /\ \E s : Sums(n, y, s) /\ Total(y, n) = s[n]
      /\ \E s : Sums(n, z, s) /\ Total(z, n) = s[n]
      /\ \E s : Sums(n, xx, s) /\ Total(xx, n) = s[n]
      /\ \E s : Sums(n, xy, s) /\ Total(xy, n) = s[n]
      /\ \E s : Sums(n, xz, s) /\ Total(xz, n) = s[n]
  BY <1>4, TotalIs
<1>6. PICK sx : Sums(n, x, sx) /\ Total(x, n) = sx[n]
  BY <1>5
<1>7. PICK sy : Sums(n, y, sy) /\ Total(y, n) = sy[n]
  BY <1>5
<1>8. PICK sz : Sums(n, z, sz) /\ Total(z, n) = sz[n]
  BY <1>5
<1>9. PICK sxx : Sums(n, xx, sxx) /\ Total(xx, n) = sxx[n]
  BY <1>5
<1>10. PICK sxy : Sums(n, xy, sxy) /\ Total(xy, n) = sxy[n]
  BY <1>5
<1>11. PICK sxz : Sums(n, xz, sxz) /\ Total(xz, n) = sxz[n]
  BY <1>5
<1>12. \A f, s : Sums(n, f, s) => s[n] \in Int
  BY DEF Sums
<1>13. sy[n] + sz[n] = m * n
  <2> DEFINE one == [k \in 0..(n - 1) |-> 1]
             id == [k \in 0..n |-> k]
  <2>1. Sums(n, one, id) /\ id[n] = n
    BY DEF Sums
  <2>2. \A k \in 0..(n - 1) : one[k] \in Int /\ y[k] + z[k] = m * one[k]
    BY <1>2
  <2>3. \A k \in 0..(n - 1) : y[k] \in Int /\ z[k] \in Int /\ one[k] \in Int
    BY <1>4, <2>2
  <2> HIDE DEF one, id
  <2>4. Completes(n, m, y, z, one)
    BY <2>2, <2>3 DEF Completes
  <2>5. sy[n] + sz[n] = m * id[n]
    BY <1>7, <1>8, <2>1, <2>4, SumsFacing
  <2> QED  BY <2>1, <2>5
<1>14. sxy[n] + sxz[n] = m * sx[n]
  <2>1. Completes(n, m, xy, xz, x)
    BY <1>3 DEF Completes
  <2> QED  BY <1>6, <1>10, <1>11, <2>1, SumsFacing
<1>15. n * sxx[n] - sx[n] * sx[n] >= 0
  BY <1>2, <1>6, <1>9, SpreadIsNat
<1>16. PICK a, b, e, p, q, r \in Int : /\ a = sx[n] /\ b = sy[n] /\ e = sz[n]
                                       /\ p = sxx[n] /\ q = sxy[n] /\ r = sxz[n]
  BY <1>6, <1>7, <1>8, <1>9, <1>10, <1>11, <1>12
<1>17. b + e = m * n /\ q + r = m * a /\ n * p - a * a >= 0
  BY <1>13, <1>14, <1>15, <1>16
<1>18. n * r - a * e = -(n * q - a * b)
  BY <1>17, SlopeFacing
<1>19. Slope(c, from, n) = n * q - a * b /\ Slope(d, from, n) = n * r - a * e /\ Spread(n) = n * p - a * a
  BY <1>6, <1>7, <1>8, <1>9, <1>10, <1>11, <1>16 DEF Slope, Spread, x, y, z, xx, xy, xz
<1>20. n * q - a * b \in Int /\ n * p - a * a \in Int
  OBVIOUS
<1> QED  BY <1>17, <1>18, <1>19, <1>20

(* A trend of the image is the twin of the trend. *)
LEMMA TrendFacing ==
    ASSUME NEW c, NEW d, Reflects(c, d), NEW from \in Nat, NEW to \in Nat, from >= 1,
           from <= to + 1, to <= Len(c), NEW atr \in Nat
    PROVE  PriorTrend(d, from, to, atr) = Twin(PriorTrend(c, from, to, atr))
<1>0. Len(c) \in Nat
  BY DEF Reflects
<1>1. PICK n \in Nat : n = to - from + 1 /\ from + n - 1 <= Len(c)
  BY <1>0
<1>2. PICK s \in Int, w \in Nat : s = Slope(c, from, n) /\ -s = Slope(d, from, n) /\ w = Spread(n)
  <2>1. PICK a, b, w : a = Slope(c, from, n) /\ b = Slope(d, from, n) /\ w = Spread(n)
    OBVIOUS
  <2>2. a \in Int /\ b = -a /\ w \in Int /\ w >= 0
    BY <1>1, <2>1, SlopesFacing
  <2> QED  BY <2>1, <2>2
<1>3. PICK v \in Nat : v = atr * w
  OBVIOUS
<1>4. /\ PriorTrend(c, from, to, atr) = IF 10 * s < -v THEN "DOWN" ELSE IF 10 * s > v THEN "UP" ELSE "FLAT"
      /\ PriorTrend(d, from, to, atr) = IF 10 * (-s) < -v THEN "DOWN" ELSE IF 10 * (-s) > v THEN "UP" ELSE "FLAT"
  BY <1>1, <1>2, <1>3, TrendOf
<1>5. Twin("UP") = "DOWN" /\ Twin("DOWN") = "UP" /\ Twin("FLAT") = "FLAT"
  BY TwinTable DEF IsTwin
<1>6. (10 * (-s) < -v <=> 10 * s > v) /\ (10 * (-s) > v <=> 10 * s < -v) /\ ~(10 * s < -v /\ 10 * s > v)
  OBVIOUS
<1>7. CASE 10 * s < -v
  BY <1>4, <1>5, <1>6, <1>7
<1>8. CASE 10 * s > v
  BY <1>4, <1>5, <1>6, <1>8
<1>9. CASE ~(10 * s < -v) /\ ~(10 * s > v)
  BY <1>4, <1>5, <1>6, <1>9
<1> QED  BY <1>7, <1>8, <1>9

-----------------------------------------------------------------------------
(* A price is as far from a level as their images are, on the other side.  *)
LEMMA NearFacing ==
    ASSUME NEW x, NEW y, Faces(x, y), NEW p \in Nat, NEW q \in Nat, p + q = MirrorPrice
    PROVE  /\ x > 0 <=> y > 0
           /\ x > 0 => /\ Distance(p, x) = Distance(q, y)
                       /\ p > x <=> q < y
                       /\ p < x <=> q > y
<1>1. x \in Nat /\ y \in Nat /\ (x = 0 <=> y = 0)
  BY DEF Faces
<1>2. x > 0 <=> y > 0
  BY <1>1
<1>3. ASSUME x > 0
      PROVE  Distance(p, x) = Distance(q, y) /\ (p > x <=> q < y) /\ (p < x <=> q > y)
  <2>1. x + y = p + q
    BY <1>1, <1>3 DEF Faces
  <2>2. p > x <=> q < y
    BY <1>1, <2>1
  <2>3. p < x <=> q > y
    BY <1>1, <2>1
  <2>4. Distance(p, x) = Distance(q, y)
    BY <1>1, <2>1 DEF Distance
  <2> QED  BY <2>2, <2>3, <2>4
<1> QED  BY <1>2, <1>3

(* A bar is the lowest of the last ones when its image is the highest.     *)
Lowest(c, i) == i > ExtremeBars /\ \A j \in (i - ExtremeBars)..(i - 1) : c[i].low <= c[j].low
Highest(c, i) == i > ExtremeBars /\ \A j \in (i - ExtremeBars)..(i - 1) : c[i].high >= c[j].high

(* A bar is the lowest of the last ones when its image is the highest.     *)
LEMMA LowestFacing ==
    ASSUME NEW c, NEW d, Reflects(c, d), NEW i \in 1..Len(c)
    PROVE  Lowest(d, i) <=> Highest(c, i)
<1>1. ExtremeBars \in Nat /\ Len(c) \in Nat
  BY PatternConstants DEF Reflects
<1>2. ASSUME i > ExtremeBars, NEW j \in (i - ExtremeBars)..(i - 1)
      PROVE  d[i].low <= d[j].low <=> c[i].high >= c[j].high
  <2>1. j \in 1..Len(c)
    BY <1>1, <1>2
  <2>2. PICK a, b, e, f : a = c[i].high /\ b = d[i].low /\ e = c[j].high /\ f = d[j].low
    OBVIOUS
  <2>3. a \in Nat /\ b \in Nat /\ a + b = MirrorPrice
    BY <2>2, PricesFacing
  <2>4. e \in Nat /\ f \in Nat /\ e + f = MirrorPrice
    BY <2>1, <2>2, PricesFacing
  <2>5. b <= f <=> a >= e
    BY <2>3, <2>4
  <2> QED  BY <2>2, <2>5
<1> QED  BY <1>2 DEF Lowest, Highest

(* The traps and the levels of a bar.                                      *)
At(p, x, atr) == atr > 0 /\ x > 0 /\ WithinTolerance(Distance(p, x), atr)
GrabbedAbove(b, x) == x > 0 /\ b.high > x /\ b.close < x
GrabbedBelow(b, x) == x > 0 /\ b.low < x /\ b.close > x

(* The image touches and grabs at a facing level from the other side.      *)
LEMMA TrapsFacing ==
    ASSUME NEW c, NEW d, Reflects(c, d), NEW i \in 1..Len(c), NEW x, NEW y, Faces(x, y), NEW atr
    PROVE  /\ At(d[i].low, y, atr) <=> At(c[i].high, x, atr)
           /\ At(d[i].high, y, atr) <=> At(c[i].low, x, atr)
           /\ GrabbedAbove(d[i], y) <=> GrabbedBelow(c[i], x)
           /\ GrabbedBelow(d[i], y) <=> GrabbedAbove(c[i], x)
<1>1. /\ c[i].high \in Nat /\ d[i].low \in Nat /\ c[i].high + d[i].low = MirrorPrice
      /\ c[i].low \in Nat /\ d[i].high \in Nat /\ c[i].low + d[i].high = MirrorPrice
      /\ c[i].close \in Nat /\ d[i].close \in Nat /\ c[i].close + d[i].close = MirrorPrice
  BY PricesFacing
<1>2. /\ x > 0 <=> y > 0
      /\ x > 0 => /\ Distance(c[i].high, x) = Distance(d[i].low, y)
                  /\ c[i].high > x <=> d[i].low < y
  <2>1. PICK p \in Nat, q \in Nat : p = c[i].high /\ q = d[i].low /\ p + q = MirrorPrice
    BY <1>1
  <2>2. x > 0 <=> y > 0
    BY DEF Faces
  <2>3. x > 0 => Distance(p, x) = Distance(q, y) /\ (p > x <=> q < y)
    BY <2>1, NearFacing
  <2> QED  BY <2>1, <2>2, <2>3
<1>3. x > 0 => /\ Distance(c[i].low, x) = Distance(d[i].high, y)
               /\ c[i].low < x <=> d[i].high > y
  <2>1. PICK p \in Nat, q \in Nat : p = c[i].low /\ q = d[i].high /\ p + q = MirrorPrice
    BY <1>1
  <2>2. x > 0 => Distance(p, x) = Distance(q, y) /\ (p < x <=> q > y)
    BY <2>1, NearFacing
  <2> QED  BY <2>1, <2>2
<1>4. x > 0 => /\ c[i].close > x <=> d[i].close < y
               /\ c[i].close < x <=> d[i].close > y
  <2>1. PICK p \in Nat, q \in Nat : p = c[i].close /\ q = d[i].close /\ p + q = MirrorPrice
    BY <1>1
  <2>2. x > 0 => (p > x <=> q < y) /\ (p < x <=> q > y)
    BY <2>1, NearFacing
  <2> QED  BY <2>1, <2>2
<1>5. At(d[i].low, y, atr) <=> At(c[i].high, x, atr)
  BY <1>2, Zenon DEF At
<1>6. At(d[i].high, y, atr) <=> At(c[i].low, x, atr)
  BY <1>2, <1>3, Zenon DEF At
<1>7. GrabbedAbove(d[i], y) <=> GrabbedBelow(c[i], x)
  BY <1>2, <1>3, <1>4, Zenon DEF GrabbedAbove, GrabbedBelow
<1>8. GrabbedBelow(d[i], y) <=> GrabbedAbove(c[i], x)
  BY <1>2, <1>4, Zenon DEF GrabbedAbove, GrabbedBelow
<1> QED  BY <1>5, <1>6, <1>7, <1>8

(* The body of a bar is as long as that of its image. *)
LEMMA BodyFacing ==
    ASSUME NEW c, NEW d, Reflects(c, d), NEW i \in 1..Len(c)
    PROVE  Body(d[i]) = Body(c[i])
<1>1. PICK o, cl, p, q : o = c[i].open /\ cl = c[i].close /\ p = d[i].open /\ q = d[i].close
  OBVIOUS
<1>2. /\ o \in Nat /\ cl \in Nat /\ p \in Nat /\ q \in Nat
      /\ o + p = MirrorPrice /\ cl + q = MirrorPrice
  BY <1>1, PricesFacing
<1>3. o + p = cl + q
  BY <1>2
<1>4. Distance(q, p) = Distance(cl, o)
  BY <1>2, <1>3 DEF Distance
<1> QED  BY <1>1, <1>4 DEF Body

(* The trend before a bar, if there are bars enough.                       *)
TrendBefore(c, i, atr) ==
    IF i > TrendBars /\ atr > 0 THEN PriorTrend(c, i - TrendBars, i - 1, atr) ELSE ""

(* The trend before the image of a bar is the twin of the trend before it. *)
LEMMA TrendBeforeFacing ==
    ASSUME NEW c, NEW d, Reflects(c, d), NEW i \in 1..Len(c), NEW atr \in Nat
    PROVE  TrendBefore(d, i, atr) = Twin(TrendBefore(c, i, atr))
<1>1. TrendBars \in Nat /\ TrendBars > 1 /\ Len(c) \in Nat
  BY PatternConstants DEF Reflects
<1>2. CASE i > TrendBars /\ atr > 0
  <2>1. PICK from \in Nat, to \in Nat : /\ from = i - TrendBars /\ to = i - 1 /\ from >= 1
                                        /\ from <= to + 1 /\ to <= Len(c)
    BY <1>1, <1>2
  <2>2. PriorTrend(d, from, to, atr) = Twin(PriorTrend(c, from, to, atr))
    BY <2>1, TrendFacing
  <2> QED  BY <1>2, <2>1, <2>2 DEF TrendBefore
<1>3. CASE ~(i > TrendBars /\ atr > 0)
  <2>1. TrendBefore(d, i, atr) = "" /\ TrendBefore(c, i, atr) = ""
    BY <1>3, Zenon DEF TrendBefore
  <2> QED  BY <2>1, TwinTable DEF IsTwin
<1> QED  BY <1>2, <1>3
-----------------------------------------------------------------------------
(* What surrounds a bar, bullish and bearish exchanged.                    *)
MirrorContext(c) ==
    [priorTrend    |-> Twin(c.priorTrend),
     windowLow     |-> c.windowHigh,
     windowHigh    |-> c.windowLow,
     atSupport     |-> c.atResistance,
     atResistance  |-> c.atSupport,
     wickGrabHigh  |-> c.wickGrabLow,
     wickGrabLow   |-> c.wickGrabHigh,
     bbFakeoutUp   |-> c.bbFakeoutDown,
     bbFakeoutDown |-> c.bbFakeoutUp,
     exhaustion    |-> c.exhaustion]

(* The context of a bar, field by field.                                   *)
LEMMA ContextOf ==
    ASSUME NEW c, NEW i, NEW l
    PROVE  enrichContext(c, i, l) =
             [priorTrend |-> TrendBefore(c, i, l.atr),
              windowLow |-> Lowest(c, i), windowHigh |-> Highest(c, i),
              atSupport |-> At(c[i].low, l.nearestS, l.atr),
              atResistance |-> At(c[i].high, l.nearestR, l.atr),
              wickGrabHigh |-> GrabbedAbove(c[i], l.swingHigh),
              wickGrabLow |-> GrabbedBelow(c[i], l.swingLow),
              bbFakeoutUp |-> GrabbedAbove(c[i], l.bbUpper),
              bbFakeoutDown |-> GrabbedBelow(c[i], l.bbLower),
              exhaustion |-> l.atr > 0 /\ Body(c[i]) > 2 * l.atr]
  BY Zenon DEF enrichContext, TrendBefore, Lowest, Highest, At, GrabbedAbove, GrabbedBelow

(* The context of a bar is the mirrored context of its image.              *)
LEMMA ContextFacing ==
    ASSUME NEW c, NEW d, Reflects(c, d), NEW i \in 1..Len(c), NEW l, NEW k, LevelSetsFace(l, k)
    PROVE  enrichContext(d, i, k) = MirrorContext(enrichContext(c, i, l))
<1>1. Reflects(d, c) /\ Len(d) = Len(c) /\ k.atr = l.atr /\ l.atr \in Nat
  BY ReflectsBack DEF Reflects, LevelSetsFace
<1>2. TrendBefore(d, i, l.atr) = Twin(TrendBefore(c, i, l.atr))
  BY <1>1, TrendBeforeFacing
<1>3. Lowest(d, i) = Highest(c, i)
  <2>1. Lowest(d, i) <=> Highest(c, i)
    BY LowestFacing
  <2> QED  BY <2>1 DEF Lowest, Highest
<1>4. Highest(d, i) = Lowest(c, i)
  <2>1. Lowest(c, i) <=> Highest(d, i)
    BY <1>1, LowestFacing
  <2> QED  BY <2>1 DEF Lowest, Highest
<1>5. At(d[i].low, k.nearestS, l.atr) = At(c[i].high, l.nearestR, l.atr)
  <2>1. At(d[i].low, k.nearestS, l.atr) <=> At(c[i].high, l.nearestR, l.atr)
    BY TrapsFacing DEF LevelSetsFace
  <2> QED  BY <2>1 DEF At
<1>6. At(d[i].high, k.nearestR, l.atr) = At(c[i].low, l.nearestS, l.atr)
  <2>1. At(d[i].high, k.nearestR, l.atr) <=> At(c[i].low, l.nearestS, l.atr)
    BY TrapsFacing DEF LevelSetsFace
  <2> QED  BY <2>1 DEF At
<1>7. GrabbedAbove(d[i], k.swingHigh) = GrabbedBelow(c[i], l.swingLow)
  <2>1. GrabbedAbove(d[i], k.swingHigh) <=> GrabbedBelow(c[i], l.swingLow)
    BY TrapsFacing DEF LevelSetsFace
  <2> QED  BY <2>1 DEF GrabbedAbove, GrabbedBelow
<1>8. GrabbedBelow(d[i], k.swingLow) = GrabbedAbove(c[i], l.swingHigh)
  <2>1. GrabbedBelow(d[i], k.swingLow) <=> GrabbedAbove(c[i], l.swingHigh)
    BY TrapsFacing DEF LevelSetsFace
  <2> QED  BY <2>1 DEF GrabbedAbove, GrabbedBelow
<1>9. GrabbedAbove(d[i], k.bbUpper) = GrabbedBelow(c[i], l.bbLower)
  <2>1. GrabbedAbove(d[i], k.bbUpper) <=> GrabbedBelow(c[i], l.bbLower)
    BY TrapsFacing DEF LevelSetsFace
  <2> QED  BY <2>1 DEF GrabbedAbove, GrabbedBelow
<1>10. GrabbedBelow(d[i], k.bbLower) = GrabbedAbove(c[i], l.bbUpper)
  <2>1. GrabbedBelow(d[i], k.bbLower) <=> GrabbedAbove(c[i], l.bbUpper)
    BY TrapsFacing DEF LevelSetsFace
  <2> QED  BY <2>1 DEF GrabbedAbove, GrabbedBelow
<1>11. Body(d[i]) = Body(c[i])
  BY BodyFacing
<1>12. PICK a, e : a = enrichContext(c, i, l) /\ e = enrichContext(d, i, k)
  OBVIOUS
<1>13. e = [priorTrend |-> Twin(TrendBefore(c, i, l.atr)),
            windowLow |-> Highest(c, i), windowHigh |-> Lowest(c, i),
            atSupport |-> At(c[i].high, l.nearestR, l.atr),
            atResistance |-> At(c[i].low, l.nearestS, l.atr),
            wickGrabHigh |-> GrabbedBelow(c[i], l.swingLow),
            wickGrabLow |-> GrabbedAbove(c[i], l.swingHigh),
            bbFakeoutUp |-> GrabbedBelow(c[i], l.bbLower),
            bbFakeoutDown |-> GrabbedAbove(c[i], l.bbUpper),
            exhaustion |-> l.atr > 0 /\ Body(c[i]) > 2 * l.atr]
  <2>1. e = [priorTrend |-> TrendBefore(d, i, k.atr),
             windowLow |-> Lowest(d, i), windowHigh |-> Highest(d, i),
             atSupport |-> At(d[i].low, k.nearestS, k.atr),
             atResistance |-> At(d[i].high, k.nearestR, k.atr),
             wickGrabHigh |-> GrabbedAbove(d[i], k.swingHigh),
             wickGrabLow |-> GrabbedBelow(d[i], k.swingLow),
             bbFakeoutUp |-> GrabbedAbove(d[i], k.bbUpper),
             bbFakeoutDown |-> GrabbedBelow(d[i], k.bbLower),
             exhaustion |-> k.atr > 0 /\ Body(d[i]) > 2 * k.atr]
    BY <1>12, ContextOf
  <2> QED  BY <1>1, <1>2, <1>3, <1>4, <1>5, <1>6, <1>7, <1>8, <1>9, <1>10, <1>11, <2>1, Zenon
<1>14. /\ a.priorTrend = TrendBefore(c, i, l.atr)
       /\ a.windowLow = Lowest(c, i) /\ a.windowHigh = Highest(c, i)
       /\ a.atSupport = At(c[i].low, l.nearestS, l.atr)
       /\ a.atResistance = At(c[i].high, l.nearestR, l.atr)
       /\ a.wickGrabHigh = GrabbedAbove(c[i], l.swingHigh)
       /\ a.wickGrabLow = GrabbedBelow(c[i], l.swingLow)
       /\ a.bbFakeoutUp = GrabbedAbove(c[i], l.bbUpper)
       /\ a.bbFakeoutDown = GrabbedBelow(c[i], l.bbLower)
       /\ a.exhaustion = (l.atr > 0 /\ Body(c[i]) > 2 * l.atr)
  BY <1>12, ContextOf
<1> QED  BY <1>12, <1>13, <1>14, Zenon DEF MirrorContext

-----------------------------------------------------------------------------
(* What the digest prints of bar i.                                        *)
Printed(c, i, l) ==
    [time |-> c[i].time, kind |-> DetectPattern(c, i), context |-> enrichContext(c, i, l),
     invalidated |-> Invalidated(c, i, DetectPattern(c, i))]

PrintedFrom(c, start, l) == [k \in 1..(Len(c) - start + 1) |-> Printed(c, start + k - 1, l)]

(* The patterns printed are those of the bars of the lookback, each in the *)
(* context of its bar.                                                     *)
LEMMA PrintedBars ==
    ASSUME NEW c, c # << >>, NEW r, NEW start, start = Max({1, Len(c) - PatternLookback + 1})
    PROVE  analyzeTFPatterns(c, r, PatternLookback) = PrintedFrom(c, start, LevelsOf(c, r))
<1>1. analyzeTFPatterns(c, r, PatternLookback) = AnalyzeLastBars(c, PatternLookback, LevelsOf(c, r))
  BY Zenon DEF analyzeTFPatterns, LevelsOf, NearestTo
<1>2. AnalyzeLastBars(c, PatternLookback, LevelsOf(c, r)) =
        PrintedFrom(c, Max({1, Len(c) - PatternLookback + 1}), LevelsOf(c, r))
  BY Zenon DEF AnalyzeLastBars, Printed, PrintedFrom
<1> QED  BY <1>1, <1>2, Zenon

(* What is printed of a bar is the mirror image of what is printed of its  *)
(* image.                                                                  *)
MirrorsPrinted(flat, p, q) ==
    /\ ~flat => q.kind = Twin(p.kind) /\ q.invalidated = p.invalidated
    /\ q.context = MirrorContext(p.context)

(* Every pattern printed for a bar is mirrored by the one printed for its  *)
(* image.                                                                  *)
LEMMA PrintedFacing ==
    ASSUME NEW c, NEW d, Reflects(c, d), NEW r, NEW q, ReadingsFace(r, q),
           NEW flat, flat <=> \E j \in 1..Len(c) : c[j].open = c[j].close,
           NEW a, a = analyzeTFPatterns(c, r, PatternLookback),
           NEW b, b = analyzeTFPatterns(d, q, PatternLookback)
    PROVE  \A k \in DOMAIN a : MirrorsPrinted(flat, a[k], b[k])
<1>1. PICK n \in Nat : n = Len(c) /\ n = Len(d) /\ c \in Seq(Candle) /\ d \in Seq(Candle)
  BY DEF Reflects
<1>2. CASE c = << >>
  <2>1. a = << >>
    BY <1>2 DEF analyzeTFPatterns
  <2> QED  BY <2>1
<1>3. CASE c # << >>
  <2>1. d # << >> /\ n > 0
    <3>1. n # 0
      BY <1>1, <1>3, EmptySeq
    <3>2. ASSUME d = << >> PROVE FALSE
      <4>1. Len(d) = 0
        BY <3>2
      <4> QED  BY <1>1, <3>1, <4>1
    <3> QED  BY <1>1, <3>1, <3>2
  <2>2. PICK l, k : l = LevelsOf(c, r) /\ k = LevelsOf(d, q)
    OBVIOUS
  <2>3. LevelSetsFace(l, k)
    BY <1>1, <2>1, <2>2, LevelsOfFacing
  <2>4. PICK lookback \in Nat : lookback = PatternLookback
    BY DigestConstants
  <2>5. PICK start \in Nat : start = Max({1, n - lookback + 1}) /\ start >= 1
    <3>1. n - lookback + 1 \in Int
      BY <1>1, <2>4
    <3>2. Max({1, n - lookback + 1}) = IF 1 >= n - lookback + 1 THEN 1 ELSE n - lookback + 1
      BY <3>1, MaxOfTwo
    <3>3. PICK x \in Int : x = n - lookback + 1
      BY <3>1
    <3> QED  BY <3>2, <3>3
  <2>s. start = Max({1, Len(c) - PatternLookback + 1}) /\ start = Max({1, Len(d) - PatternLookback + 1})
    BY <1>1, <2>4, <2>5
  <2>6. a = [m \in 1..(n - start + 1) |-> Printed(c, start + m - 1, l)]
    <3>1. a = PrintedFrom(c, start, LevelsOf(c, r))
      BY <1>3, <2>s, PrintedBars
    <3> QED  BY <1>1, <2>2, <3>1 DEF PrintedFrom
  <2>7. b = [m \in 1..(n - start + 1) |-> Printed(d, start + m - 1, k)]
    <3>1. b = PrintedFrom(d, start, LevelsOf(d, q))
      BY <2>1, <2>s, PrintedBars
    <3> QED  BY <1>1, <2>2, <3>1 DEF PrintedFrom
  <2>8. ASSUME NEW m \in 1..(n - start + 1) PROVE MirrorsPrinted(flat, a[m], b[m])
    <3>1. PICK i \in 1..Len(c) : i = start + m - 1
      BY <1>1, <2>5
    <3>2. a[m] = Printed(c, i, l) /\ b[m] = Printed(d, i, k)
      BY <2>6, <2>7, <3>1
    <3>3. enrichContext(d, i, k) = MirrorContext(enrichContext(c, i, l))
      BY <2>3, ContextFacing
    <3>4. ASSUME ~flat
          PROVE  /\ DetectPattern(d, i) = Twin(DetectPattern(c, i))
                 /\ Invalidated(d, i, DetectPattern(d, i)) = Invalidated(c, i, DetectPattern(c, i))
      BY <3>4, PatternsFacing
    <3>5. PICK x, y : x = a[m] /\ y = b[m]
      OBVIOUS
    <3>6. /\ x.kind = DetectPattern(c, i) /\ x.context = enrichContext(c, i, l)
          /\ x.invalidated = Invalidated(c, i, DetectPattern(c, i))
      BY <3>2, <3>5 DEF Printed
    <3>7. /\ y.kind = DetectPattern(d, i) /\ y.context = enrichContext(d, i, k)
          /\ y.invalidated = Invalidated(d, i, DetectPattern(d, i))
      BY <3>2, <3>5 DEF Printed
    <3> QED  BY <3>3, <3>4, <3>5, <3>6, <3>7, Zenon DEF MirrorsPrinted
  <2> QED  BY <2>6, <2>8
<1> QED  BY <1>2, <1>3
-----------------------------------------------------------------------------
(* Every pivot of a list in which all pivots are has its image in such a   *)
(* list of the image, and so it is the other way round.                    *)
AsSeen(p) == [time |-> p.time, type |-> p.type, price |-> p.price, label |-> p.label]
Flipped(p) == [time |-> p.time, type |-> Twin(p.type), price |-> Flip(p.price), label |-> Twin(p.label)]

(* A printed pivot, as it is shown, is the flipped one of its image.       *)
LEMMA FlippedOf ==
    ASSUME NEW p, NEW q, Image(p, q)
    PROVE  AsSeen(q) = Flipped(AsSeen(p))
<1>1. Opposite(p.type) = Twin(p.type)
  BY TwinTable DEF Image, IsTwin, Opposite
<1>2. PICK x \in Nat, y \in Nat : x = p.price /\ y = q.price /\ x > 0 /\ x + y = MirrorPrice
  BY DEF Image
<1>3. Flip(x) = y
  BY <1>2, MirrorConstants DEF Flip
<1>4. PICK t : t = AsSeen(p)
  OBVIOUS
<1>5. t.time = q.time /\ Twin(t.type) = q.type /\ Flip(t.price) = q.price /\ Twin(t.label) = q.label
  BY <1>1, <1>2, <1>3, <1>4 DEF AsSeen, Image
<1> QED  BY <1>4, <1>5, Zenon DEF AsSeen, Flipped

-----------------------------------------------------------------------------
(* A list of the newest pivots that begins with a pivot of bar s.          *)
StartsAt(c, limit, v, s) ==
    Latest(c, limit, v) /\ Len(v) > 0 /\ s \in Mid(c) /\ Shows(c, v[1], s)

(* Its pivots are of bar s or later bars, and only a low comes second.     *)
LEMMA StartsFirst ==
    ASSUME NEW c \in Seq(Candle), NEW t0 \in Int, Dated(c, t0), NEW limit \in Nat,
           NEW v, NEW s, StartsAt(c, limit, v, s), NEW m \in 1..Len(v)
    PROVE  \E i \in Mid(c) : /\ Shows(c, v[m], i) /\ i >= s
                             /\ m > 1 => \/ i > s
                                         \/ i = s /\ v[1].type = "SH" /\ v[m].type = "SL"
<1>1. PICK i \in Mid(c) : Shows(c, v[m], i)
  BY DEF StartsAt, Latest
<1>2. i \in 1..Len(c) /\ s \in 1..Len(c)
  <2>1. LeftRight \in Nat /\ Len(c) \in Nat
    BY DigestConstants
  <2> QED  BY <2>1 DEF Mid, StartsAt
<1>3. v[m].time = t0 + i /\ v[1].time = t0 + s
  BY <1>1, <1>2 DEF StartsAt, Shows, Dated
<1>4. CASE m = 1
  BY <1>1, <1>2, <1>3, <1>4
<1>5. CASE m > 1
  <2>1. \/ v[1].time < v[m].time
        \/ v[1].time = v[m].time /\ v[1].type = "SH" /\ v[m].type = "SL"
    BY <1>5 DEF StartsAt, Latest
  <2>2. i > s \/ (i = s /\ v[1].type = "SH" /\ v[m].type = "SL")
    BY <1>2, <1>3, <2>1
  <2> QED  BY <1>1, <1>2, <2>2
<1> QED  BY <1>4, <1>5

(* Such a list is cut in a bar when it begins with the low of an outside   *)
(* one.                                                                    *)
LEMMA CutOf ==
    ASSUME NEW c \in Seq(Candle), NEW t0 \in Int, Dated(c, t0), NEW limit \in Nat,
           NEW v, NEW s, StartsAt(c, limit, v, s)
    PROVE  CutInABar(c, v) <=> v[1].type = "SL" /\ Confirms(c, s, "SH")
<1>1. v # << >> /\ Head(v) = v[1] /\ DOMAIN c = 1..Len(c)
  BY DEF StartsAt, Latest
<1>2. s \in 1..Len(c)
  <2>1. LeftRight \in Nat /\ Len(c) \in Nat
    BY DigestConstants
  <2> QED  BY <2>1 DEF Mid, StartsAt
<1>3. \A i \in 1..Len(c) : c[i].time = v[1].time <=> i = s
  BY <1>2 DEF StartsAt, Shows, Dated
<1>4. Confirms(c, s, "SH") <=> isPivotHigh(c, s, LeftRight)
  BY DEF Confirms
<1>5. (\E i \in 1..Len(c) : c[i].time = v[1].time /\ isPivotHigh(c, i, LeftRight))
        <=> isPivotHigh(c, s, LeftRight)
  BY <1>2, <1>3, Zenon
<1> QED  BY <1>1, <1>4, <1>5, Zenon DEF CutInABar

(* Below its limit it is not, for all pivots are there.                    *)
LEMMA ShortUncut ==
    ASSUME NEW c \in Seq(Candle), NEW t0 \in Int, Dated(c, t0), NEW limit \in Nat,
           NEW v, Latest(c, limit, v), Len(v) < limit
    PROVE  ~CutInABar(c, v)
<1>1. CASE Len(v) = 0
  <2>1. v = << >>
    BY <1>1 DEF Latest
  <2> QED  BY <2>1, Zenon DEF CutInABar
<1>2. CASE Len(v) # 0
  <2> SUFFICES ASSUME CutInABar(c, v) PROVE FALSE
    OBVIOUS
  <2>1. 1 \in 1..Len(v) /\ Len(v) > 0
    BY <1>2 DEF Latest
  <2>2. PICK s \in Mid(c) : Shows(c, v[1], s)
    BY <2>1 DEF Latest
  <2>3. StartsAt(c, limit, v, s)
    BY <2>1, <2>2 DEF StartsAt
  <2>4. v[1].type = "SL" /\ Confirms(c, s, "SH")
    BY <2>3, CutOf
  <2>5. PICK m \in 1..Len(v) : v[m].type = "SH" /\ v[m].time = c[s].time
    BY <2>4 DEF Latest
  <2>6. v[1].time = c[s].time
    BY <2>2 DEF Shows
  <2>7. m > 1
    BY <2>4, <2>5
  <2>8. v[1].time < v[m].time
    BY <2>1, <2>4, <2>7 DEF Latest
  <2>9. v[1].time \in Int
    <3>1. v[1] \in Shown
      BY <2>1 DEF Latest
    <3> QED  BY <3>1 DEF Shown
  <2> QED  BY <2>5, <2>6, <2>8, <2>9
<1> QED  BY <1>1, <1>2

(* A full list that is not cut in a bar holds all pivots from bar s on. *)
LEMMA WholeListing ==
    ASSUME NEW c \in Seq(Candle), NEW t0 \in Int, Dated(c, t0), NEW limit \in Nat,
           NEW v, NEW s, StartsAt(c, limit, v, s), ~CutInABar(c, v)
    PROVE  Listing(c, s, v)
<1>1. ASSUME NEW m \in 1..Len(v) PROVE \E i \in Mid(c) : i >= s /\ Shows(c, v[m], i)
  <2>1. \E i \in Mid(c) : /\ Shows(c, v[m], i) /\ i >= s
                          /\ m > 1 => \/ i > s
                                      \/ i = s /\ v[1].type = "SH" /\ v[m].type = "SL"
    BY StartsFirst
  <2> QED  BY <2>1
<1>2. \A i \in Mid(c) : i \in 1..Len(c)
  <2>1. LeftRight \in Nat /\ Len(c) \in Nat
    BY DigestConstants
  <2> QED  BY <2>1 DEF Mid
<1>3. s \in Mid(c) /\ v[1].time = c[s].time /\ v[1].type \in {"SH", "SL"} /\ 1 \in 1..Len(v)
  BY DEF StartsAt, Shows, Latest
<1>4. ASSUME NEW type \in {"SH", "SL"}, NEW i \in Mid(c), i >= s, Confirms(c, i, type)
      PROVE  \E m \in 1..Len(v) : v[m].type = type /\ v[m].time = c[i].time
  <2>1. CASE ListedAfter(c, v[1], i, type)
    BY <1>3, <1>4, <2>1 DEF StartsAt, Latest
  <2>2. CASE ~ListedAfter(c, v[1], i, type)
    <3>1. c[i].time = t0 + i /\ c[s].time = t0 + s /\ i \in Nat /\ s \in Nat
      BY <1>2, <1>3 DEF Dated
    <3>2. i = s
      BY <1>3, <1>4, <2>2, <3>1 DEF ListedAfter
    <3>3. ~(v[1].type = "SH" /\ type = "SL")
      BY <1>3, <2>2, <3>2 DEF ListedAfter
    <3>4. ~(v[1].type = "SL" /\ type = "SH")
      BY <1>4, <3>2, CutOf
    <3>5. v[1].type = type
      BY <1>3, <3>3, <3>4
    <3> QED  BY <1>3, <3>2, <3>5
  <2> QED  BY <2>1, <2>2
<1>5. /\ v \in Seq(Shown)
      /\ \A m, x \in 1..Len(v) :
             m < x => \/ v[m].time < v[x].time
                      \/ v[m].time = v[x].time /\ v[m].type = "SH" /\ v[x].type = "SL"
  BY DEF StartsAt, Latest
<1> QED  BY <1>1, <1>4, <1>5 DEF Listing

(* A list cut in bar s holds, but for its first, all pivots after bar s.   *)
LEMMA CutListing ==
    ASSUME NEW c \in Seq(Candle), NEW t0 \in Int, Dated(c, t0), NEW limit \in Nat,
           NEW v, NEW s, StartsAt(c, limit, v, s), CutInABar(c, v)
    PROVE  Listing(c, s + 1, Tail(v))
<1>1. v[1].type = "SL"
  BY CutOf
<1>2. PICK n \in Nat : n = Len(v) /\ n > 0 /\ v \in Seq(Shown)
  BY DEF StartsAt, Latest
<1>3. PICK u : u = Tail(v)
  OBVIOUS
<1>4. /\ u \in Seq(Shown) /\ Len(u) = n - 1
      /\ \A m \in 1..Len(u) : u[m] = v[m + 1] /\ m + 1 \in 1..n /\ m + 1 > 1
  BY <1>2, <1>3
<1>5. \A i \in Mid(c) : i \in 1..Len(c)
  <2>1. LeftRight \in Nat /\ Len(c) \in Nat
    BY DigestConstants
  <2> QED  BY <2>1 DEF Mid
<1>6. s \in Mid(c) /\ v[1].time = c[s].time /\ 1 \in 1..Len(v)
  BY <1>2 DEF StartsAt, Shows
<1>7. ASSUME NEW m \in 1..Len(u) PROVE \E i \in Mid(c) : i >= s + 1 /\ Shows(c, u[m], i)
  <2>1. PICK k \in 1..Len(v) : k = m + 1 /\ k > 1 /\ u[m] = v[k]
    BY <1>2, <1>4
  <2>2. PICK i \in Mid(c) : Shows(c, v[k], i) /\ i > s
    <3>1. \E i \in Mid(c) : /\ Shows(c, v[k], i) /\ i >= s
                            /\ k > 1 => \/ i > s
                                        \/ i = s /\ v[1].type = "SH" /\ v[k].type = "SL"
      BY StartsFirst
    <3> QED  BY <1>1, <2>1, <3>1
  <2>3. i \in Nat /\ s \in Nat
    BY <1>5, <1>6
  <2> QED  BY <2>1, <2>2, <2>3
<1>8. ASSUME NEW m \in 1..Len(u), NEW x \in 1..Len(u), m < x
      PROVE  \/ u[m].time < u[x].time
             \/ u[m].time = u[x].time /\ u[m].type = "SH" /\ u[x].type = "SL"
  <2>1. PICK k \in 1..Len(v), l \in 1..Len(v) : k < l /\ u[m] = v[k] /\ u[x] = v[l]
    <3>1. m + 1 < x + 1
      BY <1>8
    <3> QED  BY <1>2, <1>4, <3>1
  <2> QED  BY <2>1 DEF StartsAt, Latest
<1>9. ASSUME NEW type \in {"SH", "SL"}, NEW i \in Mid(c), i >= s + 1, Confirms(c, i, type)
      PROVE  \E m \in 1..Len(u) : u[m].type = type /\ u[m].time = c[i].time
  <2>1. v[1].time < c[i].time /\ c[i].time \in Int
    <3>1. c[i].time = t0 + i /\ c[s].time = t0 + s /\ i \in Nat /\ s \in Nat
      BY <1>5, <1>6 DEF Dated
    <3> QED  BY <1>6, <1>9, <3>1
  <2>2. ListedAfter(c, v[1], i, type)
    BY <2>1 DEF ListedAfter
  <2>3. PICK k \in 1..Len(v) : v[k].type = type /\ v[k].time = c[i].time
    BY <1>6, <1>9, <2>2 DEF StartsAt, Latest
  <2>4. k # 1
    BY <2>1, <2>3
  <2>5. PICK m \in 1..Len(u) : k = m + 1
    <3>1. k - 1 \in 1..Len(u) /\ k = (k - 1) + 1
      BY <1>2, <1>4, <2>4
    <3> QED  BY <3>1
  <2> QED  BY <1>4, <2>3, <2>5
<1> QED  BY <1>3, <1>4, <1>7, <1>8, <1>9 DEF Listing

(* What comes after a pivot of the image's list has its image there.       *)
LEMMA HasLaterImage ==
    ASSUME NEW c, NEW d, Reflects(c, d), NEW t0 \in Int, Dated(c, t0), NEW limit \in Nat,
           NEW w, Latest(d, limit, w), NEW p, NEW i \in Mid(c), Shows(c, p, i),
           NEW x \in 1..Len(w), ListedAfter(d, w[x], i, Opposite(p.type))
    PROVE  \E k \in 1..Len(w) : w[k].time = d[i].time /\ Image(p, w[k])
<1>0. Dated(d, t0)
  BY DatedFacing
<1>1. Len(c) \in Nat /\ Len(d) = Len(c) /\ LeftRight \in Nat /\ Mid(d) = Mid(c)
  BY DigestConstants DEF Reflects, Mid
<1>2. p.type \in {"SH", "SL"} /\ Opposite(p.type) \in {"SH", "SL"} /\ Confirms(c, i, p.type)
  BY OppositeTwice DEF Shows
<1>3. Confirms(d, i, Opposite(p.type))
  BY <1>2, ConfirmsFacing
<1>4. PICK k \in 1..Len(w) : w[k].type = Opposite(p.type) /\ w[k].time = d[i].time
  BY <1>1, <1>2, <1>3 DEF Latest
<1>5. PICK j \in Mid(c) : Shows(d, w[k], j)
  BY <1>1 DEF Latest
<1>6. i \in 1..Len(d) /\ j \in 1..Len(d)
  BY <1>1 DEF Mid
<1>7. d[i].time = t0 + i /\ d[j].time = t0 + j /\ w[k].time = d[j].time
  BY <1>0, <1>5, <1>6 DEF Dated, Shows
<1>8. i = j
  BY <1>1, <1>4, <1>6, <1>7
<1> QED  BY <1>4, <1>5, <1>8, ImageOfBar

(* Lists of one length begin at the same bar: a list that began at an      *)
(* earlier one would hold images of all the other's pivots and one more.   *)
LEMMA NoEarlier ==
    ASSUME NEW c, NEW d, Reflects(c, d), NEW t0 \in Int, Dated(c, t0), NEW limit \in Nat,
           NEW v, NEW s, StartsAt(c, limit, v, s),
           NEW w, NEW t, StartsAt(d, limit, w, t), Len(v) = Len(w)
    PROVE  ~(t < s)
<1> SUFFICES ASSUME t < s PROVE FALSE
  OBVIOUS
<1>1. c \in Seq(Candle) /\ Dated(d, t0) /\ Len(c) \in Nat /\ Len(d) = Len(c)
  BY DatedFacing DEF Reflects
<1>2. /\ v \in Seq(Shown) /\ w \in Seq(Shown) /\ Latest(d, limit, w)
      /\ 1 \in 1..Len(w) /\ w[1].time = d[t].time
      /\ \A m, x \in 1..Len(v) :
             m < x => \/ v[m].time < v[x].time
                      \/ v[m].time = v[x].time /\ v[m].type = "SH" /\ v[x].type = "SL"
  BY DEF StartsAt, Latest, Shows
<1>3. ASSUME NEW k \in 1..Len(v)
      PROVE  \E m \in 1..Len(w) : m # 1 /\ Image(v[k], w[m])
  <2>1. PICK i \in Mid(c) : Shows(c, v[k], i) /\ i >= s
    BY <1>1, StartsFirst
  <2>2. d[i].time = t0 + i /\ d[t].time = t0 + t /\ i \in Nat /\ s \in Nat /\ t \in Nat
    <3>1. LeftRight \in Nat
      BY DigestConstants
    <3>2. i \in 1..Len(d) /\ t \in 1..Len(d) /\ s \in 1..Len(c)
      BY <1>1, <3>1 DEF Mid, StartsAt
    <3> QED  BY <1>1, <3>2 DEF Dated
  <2>3. w[1].time < d[i].time
    BY <1>2, <2>1, <2>2
  <2>4. ListedAfter(d, w[1], i, Opposite(v[k].type))
    BY <2>3 DEF ListedAfter
  <2>5. PICK m \in 1..Len(w) : w[m].time = d[i].time /\ Image(v[k], w[m])
    BY <1>2, <2>1, <2>4, HasLaterImage
  <2>6. m # 1
    BY <1>2, <2>2, <2>3, <2>5
  <2> QED  BY <2>5, <2>6
<1>4. Len(v) < Len(w)
  BY <1>2, <1>3, FewerImages
<1>5. Len(v) \in Nat
  BY <1>2
<1> QED  BY <1>4, <1>5

(* And they are cut in a bar together: a list that is not holds both       *)
(* pivots of the outside bar.                                              *)
LEMMA CutFacing ==
    ASSUME NEW c, NEW d, Reflects(c, d), NEW t0 \in Int, Dated(c, t0), NEW limit \in Nat,
           NEW v, NEW s, StartsAt(c, limit, v, s),
           NEW w, StartsAt(d, limit, w, s), Len(v) = Len(w), CutInABar(d, w)
    PROVE  CutInABar(c, v)
<1> SUFFICES ASSUME ~CutInABar(c, v) PROVE FALSE
  OBVIOUS
<1>1. c \in Seq(Candle) /\ d \in Seq(Candle) /\ Dated(d, t0) /\ Reflects(d, c)
      /\ Len(c) \in Nat /\ Len(d) = Len(c) /\ Mid(d) = Mid(c)
  BY DatedFacing, ReflectsBack DEF Reflects, Mid
<1>2. Listing(c, s, v)
  BY <1>1, WholeListing
<1>3. w[1].type = "SL" /\ Confirms(d, s, "SH")
  BY <1>1, CutOf
<1>4. s \in Mid(c) /\ s \in Nat
  <2>1. LeftRight \in Nat
    BY DigestConstants
  <2> QED  BY <1>1, <2>1 DEF Mid, StartsAt
<1>5. Confirms(c, s, "SL")
  <2>1. Opposite("SH") = "SL" /\ "SH" \in {"SH", "SL"}
    BY DEF Opposite
  <2> QED  BY <1>1, <1>3, <1>4, <2>1, ConfirmsFacing
<1>6. PICK x \in 1..Len(v) : v[x].type = "SL" /\ v[x].time = c[s].time
  BY <1>2, <1>4, <1>5 DEF Listing
<1>7. /\ v \in Seq(Shown) /\ w \in Seq(Shown)
      /\ \A m, y \in 1..Len(w) :
             m < y => \/ w[m].time < w[y].time
                      \/ w[m].time = w[y].time /\ w[m].type = "SH" /\ w[y].type = "SL"
  BY DEF StartsAt, Latest
<1>8. ASSUME NEW k \in 1..Len(w)
      PROVE  \E m \in 1..Len(v) : m # x /\ Image(w[k], v[m])
  <2>1. PICK i \in Mid(c) : Shows(d, w[k], i) /\ i >= s /\ (k > 1 => i > s)
    <3>1. \E i \in Mid(d) : /\ Shows(d, w[k], i) /\ i >= s
                            /\ k > 1 => \/ i > s
                                        \/ i = s /\ w[1].type = "SH" /\ w[k].type = "SL"
      BY <1>1, StartsFirst
    <3> QED  BY <1>1, <1>3, <3>1
  <2>2. PICK m \in 1..Len(v) : Image(w[k], v[m])
    BY <1>1, <1>2, <2>1, HasImage
  <2>3. m # x
    <3> SUFFICES ASSUME m = x PROVE FALSE
      OBVIOUS
    <3>1. w[k].time = c[s].time /\ Opposite(w[k].type) = "SL" /\ w[k].type \in {"SH", "SL"}
      BY <1>6, <2>2 DEF Image
    <3>2. w[k].type = "SH"
      BY <3>1 DEF Opposite
    <3>3. k > 1
      BY <1>3, <3>2
    <3>4. d[i].time = t0 + i /\ c[s].time = t0 + s /\ w[k].time = d[i].time /\ i \in Nat
      <4>1. LeftRight \in Nat
        BY DigestConstants
      <4>2. i \in 1..Len(d) /\ s \in 1..Len(c)
        BY <1>1, <1>4, <4>1 DEF Mid
      <4> QED  BY <1>1, <2>1, <4>2 DEF Dated, Shows
    <3> QED  BY <1>4, <2>1, <3>1, <3>3, <3>4
  <2> QED  BY <2>2, <2>3
<1>9. Len(w) < Len(v)
  BY <1>6, <1>7, <1>8, FewerImages
<1>10. Len(v) \in Nat
  BY <1>7
<1> QED  BY <1>9, <1>10

(* The lists of a series and of its image, each without the pivot of a bar *)
(* that the limit cut in two, hold the pivots of the same bars.            *)
LEMMA AlikeListings ==
    ASSUME NEW c, NEW d, Reflects(c, d), NEW t0 \in Int, Dated(c, t0), NEW limit \in Nat,
           NEW v, Latest(c, limit, v), NEW w, Latest(d, limit, w),
           NEW x, x = IF CutInABar(c, v) THEN Tail(v) ELSE v,
           NEW y, y = IF CutInABar(c, v) THEN Tail(w) ELSE w
    PROVE  \E s \in Nat : Listing(c, s, x) /\ Listing(d, s, y)
<1>1. /\ c \in Seq(Candle) /\ d \in Seq(Candle) /\ Dated(d, t0) /\ Reflects(d, c)
      /\ Len(c) \in Nat /\ Mid(d) = Mid(c)
  BY DatedFacing, ReflectsBack DEF Reflects, Mid
<1>2. /\ v \in Seq(Shown) /\ w \in Seq(Shown) /\ Len(v) \in Nat /\ Len(w) \in Nat
      /\ Len(v) <= limit /\ Len(w) <= limit
  <2>1. v \in Seq(Shown) /\ w \in Seq(Shown) /\ Len(v) <= limit /\ Len(w) <= limit
    BY DEF Latest
  <2> QED  BY <2>1
<1>3. CASE Len(v) < limit
  <2>1. Len(w) < limit
    BY <1>3, LimitFacing
  <2>2. Listing(c, 1, v) /\ Listing(d, 1, w)
    BY <1>3, <2>1, ShortListing
  <2>3. x = v /\ y = w
    BY <1>1, <1>3, ShortUncut
  <2> QED  BY <2>2, <2>3
<1>4. CASE ~(Len(v) < limit)
  <2>1. Len(v) = limit /\ Len(w) = limit
    <3>1. ~(Len(w) < limit)
      <4> SUFFICES ASSUME Len(w) < limit PROVE FALSE
        OBVIOUS
      <4> QED  BY <1>1, <1>4, LimitFacing
    <3> QED  BY <1>2, <1>4, <3>1
  <2>2. CASE limit = 0
    <3>1. v = << >> /\ w = << >>
      BY <1>2, <2>1, <2>2
    <3>2. x = << >> /\ y = << >>
      BY <3>1, Zenon DEF CutInABar
    <3>3. \A i \in Mid(c) : ~(i >= Len(c) + 1)
      <4>1. LeftRight \in Nat
        BY DigestConstants
      <4> QED  BY <1>1, <4>1 DEF Mid
    <3>4. PICK s \in Nat : s = Len(c) + 1
      BY <1>1
    <3>5. PICK e \in Seq(Shown) : e = << >> /\ 1..Len(e) = {}
      <4>1. << >> \in Seq(Shown) /\ Len(<< >>) = 0 /\ 1..0 = {}
        OBVIOUS
      <4>2. 1..Len(<< >>) = {}
        BY <4>1
      <4> QED  BY <4>1, <4>2
    <3>6. Listing(c, s, e) /\ Listing(d, s, e)
      BY <1>1, <3>3, <3>4, <3>5 DEF Listing
    <3> QED  BY <3>2, <3>5, <3>6
  <2>3. CASE limit # 0
    <3>1. 1 \in 1..Len(v) /\ 1 \in 1..Len(w) /\ Len(v) > 0 /\ Len(w) > 0
      BY <1>2, <2>1, <2>3
    <3>2. PICK s \in Mid(c) : StartsAt(c, limit, v, s)
      BY <3>1 DEF StartsAt, Latest
    <3>3. PICK t \in Mid(c) : StartsAt(d, limit, w, t)
      BY <1>1, <3>1 DEF StartsAt, Latest
    <3>4. s \in Nat /\ t \in Nat
      <4>1. LeftRight \in Nat
        BY DigestConstants
      <4> QED  BY <1>1, <4>1 DEF Mid
    <3>5. ~(t < s) /\ ~(s < t)
      BY <1>1, <2>1, <3>2, <3>3, NoEarlier
    <3>6. s = t
      BY <3>4, <3>5
    <3>7. CutInABar(c, v) <=> CutInABar(d, w)
      BY <1>1, <2>1, <3>2, <3>3, <3>6, CutFacing
    <3>8. CASE CutInABar(c, v)
      <4>1. x = Tail(v) /\ y = Tail(w)
        BY <3>8
      <4>2. Listing(c, s + 1, Tail(v)) /\ Listing(d, s + 1, Tail(w))
        BY <1>1, <3>2, <3>3, <3>6, <3>7, <3>8, CutListing
      <4>3. s + 1 \in Nat
        BY <3>4
      <4> QED  BY <4>1, <4>2, <4>3
    <3>9. CASE ~CutInABar(c, v)
      <4>1. x = v /\ y = w
        BY <3>9
      <4>2. Listing(c, s, v) /\ Listing(d, s, w)
        BY <1>1, <3>2, <3>3, <3>6, <3>7, <3>9, WholeListing
      <4> QED  BY <3>4, <4>1, <4>2
    <3> QED  BY <3>8, <3>9
  <2> QED  BY <2>2, <2>3
<1> QED  BY <1>3, <1>4
-----------------------------------------------------------------------------
PivotsMirror(v, w) ==
    {AsSeen(w[k]) : k \in DOMAIN w} = {Flipped(p) : p \in {AsSeen(v[m]) : m \in DOMAIN v}}

(* Lists of all pivots of the same bars say the same. *)
LEMMA PivotsFacing ==
    ASSUME NEW c, NEW d, Reflects(c, d), NEW t0 \in Int, Dated(c, t0),
           NEW s, NEW v, Listing(c, s, v), NEW w, Listing(d, s, w)
    PROVE  PivotsMirror(v, w)
<1>1. Reflects(d, c) /\ Dated(d, t0)
  BY ReflectsBack, DatedFacing
<1>2. v \in Seq(Shown) /\ w \in Seq(Shown)
  BY DEF Listing
<1>3. DOMAIN v = 1..Len(v) /\ DOMAIN w = 1..Len(w) /\ Len(w) \in Nat
  BY <1>2
<1>4. ASSUME NEW m \in 1..Len(v) PROVE \E k \in 1..Len(w) : Image(v[m], w[k])
  <2>1. PICK i \in Mid(c) : i >= s /\ Shows(c, v[m], i)
    BY DEF Listing
  <2> QED  BY <2>1, HasImage
<1>5. ASSUME NEW k \in 1..Len(w) PROVE \E m \in 1..Len(v) : Image(w[k], v[m])
  <2>1. PICK i \in Mid(d) : i >= s /\ Shows(d, w[k], i)
    BY DEF Listing
  <2> QED  BY <1>1, <2>1, HasImage
<1>6. ASSUME NEW k \in 1..Len(w), NEW l \in 1..Len(w), w[k].time = w[l].time, w[k].type = w[l].type
      PROVE  k = l
  <2>1. \A x, y \in 1..Len(w) :
          x < y => \/ w[x].time < w[y].time
                   \/ w[x].time = w[y].time /\ w[x].type = "SH" /\ w[y].type = "SL"
    BY DEF Listing
  <2>2. w[k].time \in Int
    <3>1. w[k] \in Shown
      BY <1>2
    <3> QED  BY <3>1 DEF Shown
  <2>3. ~(w[k].type = "SH" /\ w[l].type = "SL") /\ ~(w[l].type = "SH" /\ w[k].type = "SL")
    BY <1>6
  <2>4. PICK t \in Int : t = w[k].time /\ t = w[l].time
    BY <1>6, <2>2
  <2>5. ASSUME k < l PROVE FALSE
    <3>1. \/ w[k].time < w[l].time
          \/ w[k].time = w[l].time /\ w[k].type = "SH" /\ w[l].type = "SL"
      BY <2>1, <2>5
    <3>2. ~(w[k].time < w[l].time)
      BY <2>4
    <3> QED  BY <2>3, <3>1, <3>2
  <2>6. ASSUME l < k PROVE FALSE
    <3>1. \/ w[l].time < w[k].time
          \/ w[l].time = w[k].time /\ w[l].type = "SH" /\ w[k].type = "SL"
      BY <2>1, <2>6
    <3>2. ~(w[l].time < w[k].time)
      BY <2>4
    <3> QED  BY <2>3, <3>1, <3>2
  <2> QED  BY <1>3, <2>5, <2>6
<1>7. ASSUME NEW k \in 1..Len(w) PROVE \E m \in 1..Len(v) : Image(v[m], w[k])
  <2>1. PICK m \in 1..Len(v) : Image(w[k], v[m])
    BY <1>5
  <2>2. PICK l \in 1..Len(w) : Image(v[m], w[l])
    BY <1>4
  <2>3. w[k].time = w[l].time
    BY <2>1, <2>2 DEF Image
  <2>4. w[k].type = w[l].type
    BY <2>1, <2>2, OppositeTwice DEF Image
  <2>5. k = l
    BY <1>6, <2>3, <2>4
  <2> QED  BY <2>2, <2>5
<1>8. ASSUME NEW k \in 1..Len(w)
       PROVE  \E m \in 1..Len(v) : AsSeen(w[k]) = Flipped(AsSeen(v[m]))
  BY <1>7, FlippedOf
<1>9. ASSUME NEW m \in 1..Len(v)
       PROVE  \E k \in 1..Len(w) : AsSeen(w[k]) = Flipped(AsSeen(v[m]))
  BY <1>4, FlippedOf
<1> QED  BY <1>3, <1>8, <1>9 DEF PivotsMirror
-----------------------------------------------------------------------------
(* A trade and its image are stopped and filled by the same bars, with the *)
(* same gains and losses on the way.                                       *)
DecisionsFace(d, e) ==
    /\ \/ d.action = "BUY" /\ e.action = "SELL"
       \/ d.action = "SELL" /\ e.action = "BUY"
    /\ d.entry \in Nat /\ d.sl \in Nat /\ d.tp \in Nat /\ e.entry \in Nat /\ e.sl \in Nat /\ e.tp \in Nat
    /\ d.entry + e.entry = MirrorPrice /\ d.sl + e.sl = MirrorPrice /\ d.tp + e.tp = MirrorPrice

(* Every decision faces the mirrored one: the other side, with each price  *)
(* reflected.                                                              *)
LEMMA MirrorDecisionFaces ==
    ASSUME NEW d \in Decisions
    PROVE  DecisionsFace(d, MirrorDecision(d))
<1>1. d.action \in {"BUY", "SELL"} /\ d.entry \in Nat /\ d.sl \in Nat /\ d.tp \in Nat
  BY DigestConstants
<1>2. PICK m \in Nat : m = MirrorPrice
  BY MirrorConstants
<1>3. \A x \in {d.entry, d.sl, d.tp} : x \in 1..(m - 1)
  BY <1>2, MirrorConstants
<1>4. \A x \in {d.entry, d.sl, d.tp} : Flip(x) \in Nat /\ x + Flip(x) = m
  BY <1>2, <1>3 DEF Flip
<1>5. PICK e : e = MirrorDecision(d)
  OBVIOUS
<1>6. /\ e.action = IF d.action = "BUY" THEN "SELL" ELSE "BUY"
      /\ e.entry = Flip(d.entry) /\ e.sl = Flip(d.sl) /\ e.tp = Flip(d.tp)
  BY <1>5 DEF MirrorDecision
<1>7. \/ d.action = "BUY" /\ e.action = "SELL"
      \/ d.action = "SELL" /\ e.action = "BUY"
  BY <1>1, <1>6
<1> QED  BY <1>1, <1>2, <1>4, <1>5, <1>6, <1>7 DEF DecisionsFace

(* A bar stops, fills and moves a trade as its image does the mirrored     *)
(* trade.                                                                  *)
LEMMA BarOutcome ==
    ASSUME NEW c, NEW f, Reflects(c, f), NEW i \in 1..Len(c), NEW d, NEW e, DecisionsFace(d, e)
    PROVE  /\ Stopped(e, f[i]) <=> Stopped(d, c[i])
           /\ Filled(e, f[i]) <=> Filled(d, c[i])
           /\ Gain(e, f[i]) = Gain(d, c[i]) /\ Loss(e, f[i]) = Loss(d, c[i])
<1>1. PICK hi, lo, Hi, Lo : hi = c[i].high /\ lo = c[i].low /\ Hi = f[i].high /\ Lo = f[i].low
  OBVIOUS
<1>2. /\ hi \in Nat /\ lo \in Nat /\ Hi \in Nat /\ Lo \in Nat
      /\ hi + Lo = MirrorPrice /\ lo + Hi = MirrorPrice
  BY <1>1, PricesFacing
<1>3. PICK n, s, t, N, S, T : /\ n = d.entry /\ s = d.sl /\ t = d.tp
                              /\ N = e.entry /\ S = e.sl /\ T = e.tp
  OBVIOUS
<1>4. /\ n \in Nat /\ s \in Nat /\ t \in Nat /\ N \in Nat /\ S \in Nat /\ T \in Nat
      /\ n + N = MirrorPrice /\ s + S = MirrorPrice /\ t + T = MirrorPrice
  BY <1>3 DEF DecisionsFace
<1>5. /\ lo <= s <=> Hi >= S
      /\ hi >= s <=> Lo <= S
      /\ hi >= t <=> Lo <= T
      /\ lo <= t <=> Hi >= T
      /\ hi - n = N - Lo /\ n - lo = Hi - N
  BY <1>2, <1>4
<1>6. d.action \in {"BUY", "SELL"} /\ e.action \in {"BUY", "SELL"} /\ (d.action = "BUY" <=> e.action # "BUY")
  BY DEF DecisionsFace
<1>7. CASE d.action = "BUY"
  BY <1>1, <1>3, <1>5, <1>6, <1>7 DEF Stopped, Filled, Gain, Loss
<1>8. CASE d.action # "BUY"
  BY <1>1, <1>3, <1>5, <1>6, <1>8 DEF Stopped, Filled, Gain, Loss
<1> QED  BY <1>7, <1>8

(* The mirrored trade comes out over the mirrored bars as the trade does   *)
(* over the bars.                                                          *)
LEMMA OutcomeFacing ==
    ASSUME NEW c, NEW f, Reflects(c, f), NEW d \in Decisions
    PROVE  resolveOutcome(MirrorDecision(d), f) = resolveOutcome(d, c)
<1>1. PICK e : e = MirrorDecision(d) /\ DecisionsFace(d, e)
  BY MirrorDecisionFaces
<1>2. PICK n \in Nat : n = Len(c) /\ n = Len(f) /\ c \in Seq(Candle) /\ f \in Seq(Candle)
  BY DEF Reflects
<1>3. c = << >> <=> f = << >>
  BY <1>2, EmptySeq
<1>4. CASE c = << >>
  BY <1>3, <1>4, Zenon DEF resolveOutcome
<1>5. CASE c # << >>
  <2>1. ASSUME NEW i \in 1..n
        PROVE  /\ Stopped(e, f[i]) <=> Stopped(d, c[i])
               /\ Filled(e, f[i]) <=> Filled(d, c[i])
               /\ Gain(e, f[i]) = Gain(d, c[i]) /\ Loss(e, f[i]) = Loss(d, c[i])
    <3>1. i \in 1..Len(c)
      BY <1>2
    <3> QED  BY <1>1, <3>1, BarOutcome
  <2>2. Hits(e, f) = Hits(d, c)
    BY <1>2, <2>1 DEF Hits
  <2>3. End(e, f) = End(d, c)
    BY <1>2, <2>2 DEF End
  <2>4. PICK last \in 1..n : last = End(d, c)
    BY <1>2, <1>5, WalkEnds
  <2>5. \A i \in 1..last : i \in 1..n
    BY <1>2, <2>4
  <2>6. /\ {Gain(e, f[i]) : i \in 1..last} = {Gain(d, c[i]) : i \in 1..last}
        /\ {Loss(e, f[i]) : i \in 1..last} = {Loss(d, c[i]) : i \in 1..last}
    BY <2>1, <2>5
  <2>7. Best(e, f) = Best(d, c) /\ Worst(e, f) = Worst(d, c)
    BY <2>3, <2>4, <2>6 DEF Best, Worst
  <2>8. Stopped(e, f[last]) <=> Stopped(d, c[last])
    BY <2>1
  <2>9. resolveOutcome(d, c) =
           [kind |-> IF Hits(d, c) = {} THEN "timeout" ELSE IF Stopped(d, c[last]) THEN "sl" ELSE "tp",
            bars |-> IF Hits(d, c) = {} THEN 0 ELSE last,
            mfe  |-> Best(d, c), mae |-> Worst(d, c)]
    BY <1>2, <1>5, <2>4, Resolved
  <2>10. resolveOutcome(e, f) =
           [kind |-> IF Hits(e, f) = {} THEN "timeout" ELSE IF Stopped(e, f[last]) THEN "sl" ELSE "tp",
            bars |-> IF Hits(e, f) = {} THEN 0 ELSE last,
            mfe  |-> Best(e, f), mae |-> Worst(e, f)]
    <3>1. e.action \in {"BUY", "SELL"}
      BY <1>1 DEF DecisionsFace
    <3> QED  BY <1>2, <1>3, <1>5, <2>3, <2>4, <3>1, ResolvedTrade
  <2> QED  BY <1>1, <2>2, <2>7, <2>8, <2>9, <2>10
<1> QED  BY <1>4, <1>5

-----------------------------------------------------------------------------
(* The parts of a digest, told from the closed bars of any candles.        *)
LEMMA BuildParts ==
    ASSUME NEW f, NEW r, NEW c, c = ClosedCandles(f), NEW e, e = Build(f, r)
    PROVE  /\ e.pivots = RecentPivots(c, LeftRight, PivotLimit)
           /\ e.patterns = analyzeTFPatterns(c, r, PatternLookback)
           /\ e.bos = IF Scaled(r) THEN DetectBOSRetest(c, e.pivots, r.atr, BOSScanWindow) ELSE NoBOS
           /\ e.failed = IF Scaled(r) THEN DetectFailedBreakout(c, e.pivots, BOSScanWindow) ELSE NoFailure
           /\ e.gap = IF PivotLimit > 0 /\ TF \in {EntryTF, "M5", "H4"}
                      THEN DetectRecentFVG(c, FVGScanWindow) ELSE NoGap
           /\ e.range = IF Scaled(r) THEN DetectRange(c, r.atr, RangeScanWindow) ELSE NoRange
<1>1. /\ e.pivots = RecentPivots(c, LeftRight, PivotLimit)
      /\ e.patterns = analyzeTFPatterns(c, r, PatternLookback)
  BY DEF Build
<1>2. e.bos = IF Scaled(r) THEN DetectBOSRetest(c, e.pivots, r.atr, BOSScanWindow) ELSE NoBOS
  BY DEF Build, Scaled
<1>3. e.failed = IF Scaled(r) THEN DetectFailedBreakout(c, e.pivots, BOSScanWindow) ELSE NoFailure
  BY DEF Build, Scaled
<1>4. e.gap = IF PivotLimit > 0 /\ TF \in {EntryTF, "M5", "H4"}
              THEN DetectRecentFVG(c, FVGScanWindow) ELSE NoGap
  BY DEF Build
<1>5. e.range = IF Scaled(r) THEN DetectRange(c, r.atr, RangeScanWindow) ELSE NoRange
  BY DEF Build, Scaled
<1> QED  BY <1>1, <1>2, <1>3, <1>4, <1>5

NoneFlat(c) == \A j \in DOMAIN c : c[j].open # c[j].close

EventMirrors(a, b) == b.direction = Twin(a.direction) /\ b.level = Flip(a.level) /\ b.age = a.age

(* Digest b says of the image what digest a says; cut holds if the limit    *)
(* fell between the two pivots of a bar.                                   *)
DigestMirrors(a, b, cut, straight) ==
    /\ PivotsMirror(IF cut THEN Tail(a.pivots) ELSE a.pivots, IF cut THEN Tail(b.pivots) ELSE b.pivots)
    /\ ~cut => EventMirrors(a.bos, b.bos) /\ b.bos.state = a.bos.state /\ EventMirrors(a.failed, b.failed)
    /\ GapsMirror(a.gap, b.gap)
    /\ b.range.isRange = a.range.isRange /\ b.range.age = a.range.age
    /\ \A i \in DOMAIN a.patterns : MirrorsPrinted(~straight, a.patterns[i], b.patterns[i])

(* The answers of the detectors that found nothing mirror themselves.      *)
LEMMA NothingMirrors ==
    /\ EventMirrors(NoBOS, NoBOS) /\ EventMirrors(NoFailure, NoFailure) /\ GapsMirror(NoGap, NoGap)
<1>1. Twin("") = "" /\ Flip(0) = 0
  BY TwinTable DEF IsTwin, Flip
<1>2. EventMirrors(NoBOS, NoBOS)
  <2>1. PICK a : a = NoBOS
    OBVIOUS
  <2>2. a.direction = "" /\ a.level = 0
    BY <2>1 DEF NoBOS
  <2> QED  BY <1>1, <2>1, <2>2, Zenon DEF EventMirrors
<1>3. EventMirrors(NoFailure, NoFailure)
  <2>1. PICK a : a = NoFailure
    OBVIOUS
  <2>2. a.direction = "" /\ a.level = 0
    BY <2>1 DEF NoFailure
  <2> QED  BY <1>1, <2>1, <2>2, Zenon DEF EventMirrors
<1>4. GapsMirror(NoGap, NoGap)
  <2>1. PICK a : a = NoGap
    OBVIOUS
  <2>2. a.direction = "" /\ a.top = 0 /\ a.bottom = 0
    BY <2>1 DEF NoGap
  <2> QED  BY <1>1, <2>1, <2>2, Zenon DEF GapsMirror
<1> QED  BY <1>2, <1>3, <1>4

(* The digests of a market and of its image, detector by detector.         *)
LEMMA DigestsFacing ==
    ASSUME NEW f, NEW g, NEW c, NEW d, c = ClosedCandles(f), d = ClosedCandles(g),
           Reflects(c, d), NEW t0 \in Int, Dated(c, t0),
           NEW r, NEW q, ReadingsFace(r, q),
           NEW a, a = Build(f, r), NEW b, b = Build(g, q),
           NEW cut, cut = CutInABar(c, a.pivots),
           NEW straight \in BOOLEAN, straight => NoneFlat(c)
    PROVE  DigestMirrors(a, b, cut, straight)
<1>1. /\ c \in Seq(Candle) /\ d \in Seq(Candle) /\ Dated(d, t0) /\ PivotLimit \in Nat
      /\ {RangeScanWindow, BOSScanWindow, FVGScanWindow} \subseteq Nat
  BY DatedFacing, DigestConstants DEF Reflects, PivotLimit
<1>2. PICK v, w : v = a.pivots /\ w = b.pivots
  OBVIOUS
<1>3. v = RecentPivots(c, LeftRight, PivotLimit) /\ w = RecentPivots(d, LeftRight, PivotLimit)
  BY <1>2, BuildParts
<1>4. PICK atr \in Nat : atr = r.atr /\ atr = q.atr
  BY DEF ReadingsFace
<1>5. Scaled(q) = Scaled(r)
  BY <1>4 DEF Scaled
<1>a. ASSUME Scaled(r)
      PROVE  /\ a.bos = DetectBOSRetest(c, v, atr, BOSScanWindow)
             /\ a.failed = DetectFailedBreakout(c, v, BOSScanWindow)
             /\ a.range = DetectRange(c, atr, RangeScanWindow)
  <2>1. /\ a.bos = IF Scaled(r) THEN DetectBOSRetest(c, a.pivots, r.atr, BOSScanWindow) ELSE NoBOS
        /\ a.failed = IF Scaled(r) THEN DetectFailedBreakout(c, a.pivots, BOSScanWindow) ELSE NoFailure
        /\ a.range = IF Scaled(r) THEN DetectRange(c, r.atr, RangeScanWindow) ELSE NoRange
    BY BuildParts
  <2> QED  BY <1>2, <1>4, <1>a, <2>1, Zenon
<1>b. ASSUME Scaled(r)
      PROVE  /\ b.bos = DetectBOSRetest(d, w, atr, BOSScanWindow)
             /\ b.failed = DetectFailedBreakout(d, w, BOSScanWindow)
             /\ b.range = DetectRange(d, atr, RangeScanWindow)
  <2>1. /\ b.bos = IF Scaled(q) THEN DetectBOSRetest(d, b.pivots, q.atr, BOSScanWindow) ELSE NoBOS
        /\ b.failed = IF Scaled(q) THEN DetectFailedBreakout(d, b.pivots, BOSScanWindow) ELSE NoFailure
        /\ b.range = IF Scaled(q) THEN DetectRange(d, q.atr, RangeScanWindow) ELSE NoRange
    BY BuildParts
  <2> QED  BY <1>2, <1>4, <1>5, <1>b, <2>1, Zenon
<1>6. PICK x, y : /\ x = (IF cut THEN Tail(v) ELSE v) /\ y = (IF cut THEN Tail(w) ELSE w)
                  /\ \E s \in Nat : Listing(c, s, x) /\ Listing(d, s, y)
  <2>1. PICK x, y : x = (IF cut THEN Tail(v) ELSE v) /\ y = (IF cut THEN Tail(w) ELSE w)
    OBVIOUS
  <2>2. Latest(c, PivotLimit, v) /\ Latest(d, PivotLimit, w)
    BY <1>1, <1>3, RecentIsLatest
  <2>3. cut = CutInABar(c, v)
    BY <1>2
  <2>4. x = (IF CutInABar(c, v) THEN Tail(v) ELSE v) /\ y = (IF CutInABar(c, v) THEN Tail(w) ELSE w)
    BY <2>1, <2>3, Zenon
  <2>5. \E s \in Nat : Listing(c, s, x) /\ Listing(d, s, y)
    BY <1>1, <2>2, <2>4, AlikeListings
  <2> QED  BY <2>1, <2>5
<1>7. ASSUME ~cut
      PROVE  EventMirrors(a.bos, b.bos) /\ b.bos.state = a.bos.state /\ EventMirrors(a.failed, b.failed)
  <2>1. x = v /\ y = w
    BY <1>6, <1>7
  <2>2. PICK s \in Nat : Listing(c, s, v) /\ Listing(d, s, w)
    BY <1>6, <2>1
  <2>3. CASE Scaled(r)
    <3>1. /\ a.bos = DetectBOSRetest(c, v, atr, BOSScanWindow)
          /\ b.bos = DetectBOSRetest(d, w, atr, BOSScanWindow)
          /\ a.failed = DetectFailedBreakout(c, v, BOSScanWindow)
          /\ b.failed = DetectFailedBreakout(d, w, BOSScanWindow)
      BY <1>a, <1>b, <2>3
    <3>2. /\ b.bos.direction = Twin(a.bos.direction) /\ b.bos.level = Flip(a.bos.level)
          /\ b.bos.age = a.bos.age /\ b.bos.state = a.bos.state
      BY <1>1, <2>2, <3>1, BreakFacing
    <3>3. /\ b.failed.direction = Twin(a.failed.direction) /\ b.failed.level = Flip(a.failed.level)
          /\ b.failed.age = a.failed.age
      BY <1>1, <2>2, <3>1, FailureFacing
    <3> QED  BY <3>2, <3>3 DEF EventMirrors
  <2>4. CASE ~Scaled(r)
    <3>1. a.bos = NoBOS /\ b.bos = NoBOS /\ a.failed = NoFailure /\ b.failed = NoFailure
      BY <1>5, <2>4, BuildParts
    <3> QED  BY <3>1, NothingMirrors
  <2> QED  BY <2>3, <2>4
<1>8. GapsMirror(a.gap, b.gap)
  <2>1. CASE PivotLimit > 0 /\ TF \in {EntryTF, "M5", "H4"}
    <3>1. a.gap = DetectRecentFVG(c, FVGScanWindow) /\ b.gap = DetectRecentFVG(d, FVGScanWindow)
      BY <2>1, BuildParts
    <3> QED  BY <1>1, <3>1, GapsFacing
  <2>2. CASE ~(PivotLimit > 0 /\ TF \in {EntryTF, "M5", "H4"})
    <3>1. a.gap = NoGap /\ b.gap = NoGap
      BY <2>2, BuildParts
    <3> QED  BY <3>1, NothingMirrors
  <2> QED  BY <2>1, <2>2
<1>9. b.range.isRange = a.range.isRange /\ b.range.age = a.range.age
  <2>1. CASE Scaled(r)
    <3>1. /\ a.range = DetectRange(c, atr, RangeScanWindow)
          /\ b.range = DetectRange(d, atr, RangeScanWindow)
      BY <1>a, <1>b, <2>1
    <3> QED  BY <1>1, <3>1, RangeFacing
  <2>2. CASE ~Scaled(r)
    <3>1. a.range = NoRange /\ b.range = NoRange
      BY <1>5, <2>2, BuildParts
    <3> QED  BY <3>1
  <2> QED  BY <2>1, <2>2
<1>10. \A i \in DOMAIN a.patterns : MirrorsPrinted(~straight, a.patterns[i], b.patterns[i])
  <2>1. PICK m, n : m = a.patterns /\ n = b.patterns
    OBVIOUS
  <2>2. /\ m = analyzeTFPatterns(c, r, PatternLookback)
        /\ n = analyzeTFPatterns(d, q, PatternLookback)
    BY <2>1, BuildParts
  <2>3. PICK flat : flat <=> \E j \in 1..Len(c) : c[j].open = c[j].close
    OBVIOUS
  <2>4. \A i \in DOMAIN m : MirrorsPrinted(flat, m[i], n[i])
    BY <2>2, <2>3, PrintedFacing
  <2>5. straight => ~flat
    <3>1. DOMAIN c = 1..Len(c)
      BY <1>1
    <3> QED  BY <2>3, <3>1 DEF NoneFlat
  <2> QED  BY <2>1, <2>4, <2>5, Zenon DEF MirrorsPrinted
<1>11. PivotsMirror(IF cut THEN Tail(a.pivots) ELSE a.pivots, IF cut THEN Tail(b.pivots) ELSE b.pivots)
  <2>1. PivotsMirror(x, y)
    BY <1>6, PivotsFacing
  <2> QED  BY <1>2, <1>6, <2>1, Zenon
<1>12. ~cut => EventMirrors(a.bos, b.bos) /\ b.bos.state = a.bos.state /\ EventMirrors(a.failed, b.failed)
  BY <1>7
<1> QED  BY <1>8, <1>9, <1>10, <1>11, <1>12, Zenon DEF DigestMirrors

-----------------------------------------------------------------------------
MirroredCandles(f) == [i \in DOMAIN f |-> MirrorCandle(f[i])]

(* The digest of the market's image. *)
ImageDigest ==
    Build([i \in DOMAIN Fetch(bars) |-> MirrorCandle(Fetch(bars)[i])], MirrorReading(reading))

(* What Mirrored asks of the digest, of its image and of the trades.       *)
LEMMA MirroredOf ==
    ASSUME NEW cut, cut = CutInABar(ClosedCandles(Fetch(bars)), digest.pivots),
           NEW straight, straight = NoneFlat(ClosedCandles(bars)),
           DigestMirrors(digest, ImageDigest, cut, straight),
           \A d \in Decisions : resolveOutcome(MirrorDecision(d), MirroredCandles(ClosedCandles(bars)))
                                  = resolveOutcome(d, ClosedCandles(bars))
    PROVE  Mirrored
<1> DEFINE Whole(pivots) == IF CutInABar(ClosedCandles(Fetch(bars)), digest.pivots) THEN Tail(pivots) ELSE pivots
<1>1. /\ PivotsMirror(Whole(digest.pivots), Whole(ImageDigest.pivots))
      /\ ~cut => EventMirrors(digest.bos, ImageDigest.bos) /\ ImageDigest.bos.state = digest.bos.state
                   /\ EventMirrors(digest.failed, ImageDigest.failed)
      /\ GapsMirror(digest.gap, ImageDigest.gap)
      /\ ImageDigest.range.isRange = digest.range.isRange /\ ImageDigest.range.age = digest.range.age
      /\ \A i \in DOMAIN digest.patterns :
            MirrorsPrinted(~NoneFlat(ClosedCandles(bars)), digest.patterns[i], ImageDigest.patterns[i])
  BY Zenon DEF DigestMirrors
<1>2. {[time |-> Whole(ImageDigest.pivots)[i].time, type |-> Whole(ImageDigest.pivots)[i].type,
        price |-> Whole(ImageDigest.pivots)[i].price, label |-> Whole(ImageDigest.pivots)[i].label] :
           i \in DOMAIN Whole(ImageDigest.pivots)}
        = {[time |-> p.time, type |-> Twin(p.type), price |-> Flip(p.price), label |-> Twin(p.label)] :
             p \in {[time |-> Whole(digest.pivots)[i].time, type |-> Whole(digest.pivots)[i].type,
                     price |-> Whole(digest.pivots)[i].price, label |-> Whole(digest.pivots)[i].label] :
                        i \in DOMAIN Whole(digest.pivots)}}
  BY <1>1, Zenon DEF PivotsMirror, AsSeen, Flipped
<1>3. ~CutInABar(ClosedCandles(Fetch(bars)), digest.pivots) =>
        /\ ImageDigest.bos.direction = Twin(digest.bos.direction)
        /\ ImageDigest.bos.level = Flip(digest.bos.level)
        /\ ImageDigest.bos.age = digest.bos.age /\ ImageDigest.bos.state = digest.bos.state
        /\ ImageDigest.failed.direction = Twin(digest.failed.direction)
        /\ ImageDigest.failed.level = Flip(digest.failed.level) /\ ImageDigest.failed.age = digest.failed.age
  BY <1>1, Zenon DEF EventMirrors
<1>4. /\ ImageDigest.gap.direction = Twin(digest.gap.direction)
      /\ ImageDigest.gap.top = Flip(digest.gap.bottom) /\ ImageDigest.gap.bottom = Flip(digest.gap.top)
      /\ ImageDigest.gap.age = digest.gap.age /\ ImageDigest.gap.state = digest.gap.state
  BY <1>1, Zenon DEF GapsMirror
<1>5. ASSUME NEW i \in DOMAIN digest.patterns
      PROVE  LET p == digest.patterns[i]
                 q == ImageDigest.patterns[i]
                 c == p.context
                 e == q.context
             IN  /\ (\A j \in DOMAIN ClosedCandles(bars) :
                        ClosedCandles(bars)[j].open # ClosedCandles(bars)[j].close) =>
                       q.kind = Twin(p.kind) /\ q.invalidated = p.invalidated
                 /\ e = [priorTrend    |-> Twin(c.priorTrend),
                         windowLow     |-> c.windowHigh,
                         windowHigh    |-> c.windowLow,
                         atSupport     |-> c.atResistance,
                         atResistance  |-> c.atSupport,
                         wickGrabHigh  |-> c.wickGrabLow,
                         wickGrabLow   |-> c.wickGrabHigh,
                         bbFakeoutUp   |-> c.bbFakeoutDown,
                         bbFakeoutDown |-> c.bbFakeoutUp,
                         exhaustion    |-> c.exhaustion]
  BY <1>1, Zenon DEF MirrorsPrinted, MirrorContext, NoneFlat
<1>6. \A d \in Decisions :
        resolveOutcome(MirrorDecision(d),
                       [i \in DOMAIN ClosedCandles(bars) |-> MirrorCandle(ClosedCandles(bars)[i])])
          = resolveOutcome(d, ClosedCandles(bars))
  BY Zenon DEF MirroredCandles
<1> QED  BY <1>1, <1>2, <1>3, <1>4, <1>5, <1>6, Zenon DEF Mirrored, ImageDigest

(* The closed bars that no digest shows are the older ones. *)
LEMMA SeenIsClosed ==
    ASSUME NEW h \in Seq(Candle), h # << >>, NoneFlat(ClosedCandles(h))
    PROVE  NoneFlat(Seen(h))
<1>1. /\ Lost(h) \in Nat /\ Seen(h) \in Seq(Candle) /\ Len(Seen(h)) = Len(h) - 1 - Lost(h)
      /\ \A j \in 1..Len(Seen(h)) : Lost(h) + j \in 1..Len(h) /\ Seen(h)[j] = h[Lost(h) + j]
  BY SeenOf
<1>2. PICK n \in Nat : n = Len(h)
  OBVIOUS
<1>3. ASSUME NEW j \in DOMAIN Seen(h) PROVE Seen(h)[j].open # Seen(h)[j].close
  <2>1. j \in 1..Len(Seen(h)) /\ Len(Seen(h)) \in Nat
    BY <1>1
  <2>2. PICK x \in 1..(n - 1) : x = Lost(h) + j /\ Seen(h)[j] = h[x]
    BY <1>1, <1>2, <2>1
  <2>3. PICK m \in Nat : m = n - 1 /\ m >= 1 /\ m <= Len(h)
    BY <1>2, <2>2
  <2>4. ClosedCandles(h) = SubSeq(h, 1, m)
    BY <1>2, <2>3 DEF ClosedCandles, Front
  <2>5. /\ ClosedCandles(h) \in Seq(Candle) /\ Len(ClosedCandles(h)) = m
        /\ \A i \in 1..m : ClosedCandles(h)[i] = h[i]
    BY <2>3, <2>4, PrefixOf
  <2>6. x \in DOMAIN ClosedCandles(h) /\ ClosedCandles(h)[x] = h[x]
    BY <2>2, <2>3, <2>5
  <2> QED  BY <2>2, <2>6 DEF NoneFlat
<1> QED  BY <1>3 DEF NoneFlat

(* A market and its mirror image are read alike, for any bars, readings,   *)
(* windows and limits: turned upside down, the same bars give the same     *)
(* pivots, breaks, gaps, ranges, patterns and traps with their bullish and *)
(* bearish names exchanged, and every trade the mirrored outcome: but for  *)
(* the oldest pivot, the breaks and the failed breakouts of a list that    *)
(* the limit cuts in a bar, and for the names of patterns among flat bars. *)
THEOREM ReadAlike == Spec => []Mirrored
<1>1. ASSUME Told, Prices, reading \in Readings PROVE Mirrored
  <2>1. /\ bars \in Seq(Candle) /\ bars # << >> /\ \A i \in 1..Len(bars) : Upright(bars[i])
        /\ digest = Build(Fetch(bars), reading)
        /\ \A i \in DOMAIN bars : bars[i].time = bars[1].time + i - 1
    BY <1>1 DEF Told, DigestCurrent, Prices, Market, History, Timed
  <2>2. PICK f, g : f = Fetch(bars) /\ g = MirroredCandles(f)
    OBVIOUS
  <2>3. f \in Seq(Candle) /\ \A i \in 1..Len(f) : Upright(f[i])
    BY <2>1, <2>2, FetchedUpright
  <2>4. Reflects(f, g)
    BY <2>2, <2>3, MirrorReflects DEF MirroredCandles
  <2>5. PICK c, d : c = ClosedCandles(f) /\ d = ClosedCandles(g)
    OBVIOUS
  <2>6. Reflects(c, d)
    BY <2>4, <2>5, ClosedReflects
  <2>7. c = Seen(bars)
    BY <2>2, <2>5 DEF Seen
  <2>8. PICK t0 \in Int : Dated(c, t0)
    <3>1. bars[1].time \in Int /\ Lost(bars) \in Nat /\ Dated(c, bars[1].time + Lost(bars) - 1)
      BY <2>1, <2>7, SeenDated, SeenOf
    <3> QED  BY <3>1
  <2>9. ReadingsFace(reading, MirrorReading(reading))
    BY <1>1, MirrorReadingFaces
  <2>10. PICK straight : straight = NoneFlat(ClosedCandles(bars))
    OBVIOUS
  <2>11. straight \in BOOLEAN /\ (straight => NoneFlat(c))
    <3>1. NoneFlat(ClosedCandles(bars)) \in BOOLEAN
      BY DEF NoneFlat
    <3> QED  BY <2>1, <2>7, <2>10, <3>1, SeenIsClosed
  <2>12. PICK b : b = ImageDigest /\ b = Build(g, MirrorReading(reading))
    BY <2>2 DEF ImageDigest, MirroredCandles
  <2>13. digest = Build(f, reading)
    BY <2>1, <2>2
  <2>14. PICK cut : cut = CutInABar(c, digest.pivots)
    OBVIOUS
  <2>15. DigestMirrors(digest, b, cut, straight)
    BY <2>5, <2>6, <2>8, <2>9, <2>11, <2>12, <2>13, <2>14, DigestsFacing
  <2>16. cut = CutInABar(ClosedCandles(Fetch(bars)), digest.pivots)
    BY <2>2, <2>5, <2>14
  <2>17. Reflects(ClosedCandles(bars), MirroredCandles(ClosedCandles(bars)))
    <3>1. /\ ClosedCandles(bars) \in Seq(Candle)
          /\ \A i \in 1..Len(ClosedCandles(bars)) : Upright(ClosedCandles(bars)[i])
      <4>1. Reflects(bars, MirroredCandles(bars))
        BY <2>1, MirrorReflects DEF MirroredCandles
      <4>2. Reflects(ClosedCandles(bars), ClosedCandles(MirroredCandles(bars)))
        BY <4>1, ClosedReflects
      <4> QED  BY <4>2 DEF Reflects, Facing
    <3> QED  BY <3>1, MirrorReflects DEF MirroredCandles
  <2>18. \A e \in Decisions :
           resolveOutcome(MirrorDecision(e), MirroredCandles(ClosedCandles(bars)))
             = resolveOutcome(e, ClosedCandles(bars))
    BY <2>17, OutcomeFacing
  <2> QED  BY <2>10, <2>12, <2>15, <2>16, <2>18, MirroredOf
<1> QED  BY <1>1, AlwaysTold, AlwaysPrices, AlwaysRead, PTL
=============================================================================
