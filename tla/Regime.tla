------------------------------- MODULE Regime -------------------------------
(***************************************************************************)
(* The cross-timeframe verdict of modules/advisor/biz/market/              *)
(* regime_verdict.go: each timeframe votes from its own regime and its     *)
(* parent's, and the three votes give a label and a trading mode.          *)
(***************************************************************************)
EXTENDS Integers

TFs == {"H4", "H1", "M15"}

(* simpleRegime over what its conditions can tell apart: the strength band *)
(* of the ADX, the order of the averages, a falling ADX, a compression.    *)
simpleRegime(band, cross, falling, compressing) ==
    CASE band = "below20" -> "RANGE"
      [] band = "20to25"  -> "CHOPPY"
      [] band = "from25" /\ cross = "above" ->
            IF falling \/ compressing THEN "TREND_UP_FADING" ELSE "TREND_UP"
      [] band = "from25" /\ cross = "below" ->
            IF falling \/ compressing THEN "TREND_DOWN_FADING" ELSE "TREND_DOWN"
      [] band = "from25" /\ cross = "equal" -> "TREND"

(* What summariseTF can tell the verdict about one timeframe: a timeframe  *)
(* without candles is absent, one whose only candle is still forming has   *)
(* the empty regime.                                                       *)
Absent    == [regime |-> "absent", compressing |-> FALSE]
NoClosed  == [regime |-> "", compressing |-> FALSE]
Summaries == {[regime |-> simpleRegime(band, cross, falling, compressing),
               compressing |-> compressing] :
                 band \in {"below20", "20to25", "from25"},
                 cross \in {"above", "below", "equal"},
                 falling \in BOOLEAN, compressing \in BOOLEAN}
             \cup {Absent, NoClosed}

(* Seeded fault: a compression is a consolidation whatever the parent does. *)
voteWithoutParent(sum, parent) ==
    CASE sum.regime = "absent" -> ""
      [] sum.regime = "TREND" -> "RANGE"
      [] sum.regime = "TREND_UP_FADING" /\ sum.compressing -> "CONSOLIDATING_BULL"
      [] sum.regime = "TREND_DOWN_FADING" /\ sum.compressing -> "CONSOLIDATING_BEAR"
      [] OTHER -> sum.regime

(* A range, or a compressed fading trend, inside the parent's trend is a   *)
(* consolidation of that trend.                                            *)
voteForTF(sum, parent) ==
    LET inUptrend   == parent = "TREND_UP"
        inDowntrend == parent = "TREND_DOWN"
    IN  CASE sum.regime = "absent" -> ""
          [] sum.regime \in {"TREND_UP", "TREND_DOWN", "CHOPPY"} -> sum.regime
          [] sum.regime = "TREND_UP_FADING" ->
                IF inUptrend /\ sum.compressing THEN "CONSOLIDATING_BULL" ELSE "TREND_UP_FADING"
          [] sum.regime = "TREND_DOWN_FADING" ->
                IF inDowntrend /\ sum.compressing THEN "CONSOLIDATING_BEAR" ELSE "TREND_DOWN_FADING"
          [] sum.regime = "RANGE" ->
                IF inUptrend THEN "CONSOLIDATING_BULL"
                ELSE IF inDowntrend THEN "CONSOLIDATING_BEAR" ELSE "RANGE"
          [] OTHER -> "RANGE"

isRangeOrChoppy(vote) == vote \in {"RANGE", "CHOPPY", "CONSOLIDATING_BULL", "CONSOLIDATING_BEAR"}

Verdict(overall, mode) == [overall |-> overall, mode |-> mode]

(* The votes are weighed in the code's order; the first case that holds    *)
(* decides.                                                                *)
deriveOverall(h4, h1, m15) ==
    IF h4 = "TREND_UP" /\ h1 = "TREND_UP"
      THEN Verdict(IF m15 = "TREND_UP" THEN "STRONG_UPTREND" ELSE "UPTREND", "trend_follow_buy")
    ELSE IF h4 = "TREND_DOWN" /\ h1 = "TREND_DOWN"
      THEN Verdict(IF m15 = "TREND_DOWN" THEN "STRONG_DOWNTREND" ELSE "DOWNTREND",
                   "trend_follow_sell")
    ELSE IF h4 = "TREND_UP" /\ h1 = "CONSOLIDATING_BULL"
      THEN Verdict("RANGING_IN_UPTREND", "consolidation_watch_buy")
    ELSE IF h4 = "TREND_DOWN" /\ h1 = "CONSOLIDATING_BEAR"
      THEN Verdict("RANGING_IN_DOWNTREND", "consolidation_watch_sell")
    ELSE IF h4 = "TREND_UP" /\ h1 = "TREND_UP_FADING"
      THEN Verdict("UPTREND_WEAKENING", "caution_buy")
    ELSE IF h4 = "TREND_DOWN" /\ h1 = "TREND_DOWN_FADING"
      THEN Verdict("DOWNTREND_WEAKENING", "caution_sell")
    ELSE IF h4 = "TREND_UP" /\ h1 \in {"RANGE", "CHOPPY"}
      THEN Verdict("RANGING_IN_UPTREND", "consolidation_watch_buy")
    ELSE IF h4 = "TREND_DOWN" /\ h1 \in {"RANGE", "CHOPPY"}
      THEN Verdict("RANGING_IN_DOWNTREND", "consolidation_watch_sell")
    ELSE IF h4 \in {"TREND_UP_FADING", "CONSOLIDATING_BULL"} /\ h1 = "TREND_UP"
      THEN Verdict("UPTREND_WEAKENING", "caution_buy")
    ELSE IF h4 \in {"TREND_DOWN_FADING", "CONSOLIDATING_BEAR"} /\ h1 = "TREND_DOWN"
      THEN Verdict("DOWNTREND_WEAKENING", "caution_sell")
    ELSE IF h4 \in {"TREND_UP_FADING", "CONSOLIDATING_BULL",
                    "TREND_DOWN_FADING", "CONSOLIDATING_BEAR"}
      THEN Verdict("TRANSITIONING", "standby")
    ELSE IF h4 = "CHOPPY" /\ h1 = "CHOPPY" THEN Verdict("CHOPPY", "standby")
    ELSE IF isRangeOrChoppy(h4) /\ isRangeOrChoppy(h1) THEN Verdict("RANGING", "range_trade")
    ELSE Verdict("TRANSITIONING", "standby")

(* A timeframe's parent is the next higher one's own regime, not its vote. *)
ComputeRegimeVerdict(summary) ==
    deriveOverall(voteForTF(summary["H4"], ""),
                  voteForTF(summary["H1"], summary["H4"].regime),
                  voteForTF(summary["M15"], summary["H1"].regime))

(* Build: the one side of a range that may be traded while a bias          *)
(* timeframe trends; H4 speaks before H1.                                  *)
AsymmetricRange(summary) ==
    LET side(regime) == IF regime = "TREND_UP" THEN "buy_side"
                        ELSE IF regime = "TREND_DOWN" THEN "sell_side" ELSE ""
    IN  IF side(summary["H4"].regime) # "" THEN side(summary["H4"].regime)
        ELSE side(summary["H1"].regime)
-----------------------------------------------------------------------------
BuyModes  == {"trend_follow_buy", "consolidation_watch_buy", "caution_buy"}
SellModes == {"trend_follow_sell", "consolidation_watch_sell", "caution_sell"}
Falling   == {"TREND_DOWN", "TREND_DOWN_FADING"}
Rising    == {"TREND_UP", "TREND_UP_FADING"}

(* A mode does not fight the regimes of the two bias timeframes: no buying *)
(* while one trends down, even fading, and none unless one trends up; the  *)
(* mirror image for selling; no trading of both edges of a range while one *)
(* trends at all; and the one side of the range the digest allows is not   *)
(* the one the mode forbids.                                               *)
FollowsBias(summary, mode) ==
    LET bias == {summary["H4"].regime, summary["H1"].regime}
    IN  /\ mode \in BuyModes  => bias \cap Falling = {} /\ bias \cap Rising # {}
        /\ mode \in SellModes => bias \cap Rising = {} /\ bias \cap Falling # {}
        /\ mode = "range_trade" => bias \cap (Rising \cup Falling) = {}
        /\ AsymmetricRange(summary) = "buy_side" => mode \notin SellModes \cup {"range_trade"}
        /\ AsymmetricRange(summary) = "sell_side" => mode \notin BuyModes \cup {"range_trade"}
=============================================================================
