------------------------------ MODULE Patterns ------------------------------
(***************************************************************************)
(* The shape of the last closed bars, their context and the traps they may *)
(* be: modules/advisor/biz/market/patterns.go.  A pattern's ratio and its  *)
(* volume context are printed and never compared, and are left out.        *)
(*                                                                         *)
(* TrendBars and ExtremeBars are the 5 and 10 bars of prior context the    *)
(* code looks back over.                                                   *)
(***************************************************************************)
EXTENDS Pivots

CONSTANTS TrendBars, ExtremeBars

ASSUME PatternConstants == TrendBars \in Nat \ {0, 1} /\ ExtremeBars \in Nat \ {0}

Bull(b)  == b.close > b.open
Span(b)  == b.high - b.low
Body(b)  == Distance(b.close, b.open)
Upper(b) == b.high - Max({b.open, b.close})
Lower(b) == Min({b.open, b.close}) - b.low

(* The kind of the first rule that holds: rules are tried strongest first. *)
FirstMatch(rules, otherwise) ==
    LET hits == {i \in DOMAIN rules : rules[i].holds}
    IN  IF hits = {} THEN otherwise ELSE rules[Min(hits)].kind

Rule(kind, holds) == [kind |-> kind, holds |-> holds]
-----------------------------------------------------------------------------
detectSingleBar(b) ==
    LET span  == Span(b)
        body  == Body(b)
        full  == 10 * body >= 9 * span
        tiny  == 10 * body < span
        small == 10 * body < 3 * span
    IN  IF span <= 0 THEN "normal" ELSE FirstMatch(<<
          Rule("marubozu_bull",   full /\ Bull(b)),
          Rule("marubozu_bear",   full),
          Rule("dragonfly_doji",  tiny /\ 10 * Lower(b) >= 6 * span /\ 10 * Upper(b) <= span),
          Rule("gravestone_doji", tiny /\ 10 * Upper(b) >= 6 * span /\ 10 * Lower(b) <= span),
          Rule("doji",            tiny),
          Rule("hammer",          small /\ Lower(b) >= 2 * body /\ Upper(b) <= body),
          Rule("shooting_star",   small /\ Upper(b) >= 2 * body /\ Lower(b) <= body),
          Rule("spinning_top",    small /\ 5 * Lower(b) >= span /\ 5 * Upper(b) >= span)
        >>, "normal")

(* A flat bar is not Bull, so the code takes it for a bearish one. *)
detectTwoBar(curr, prev) ==
    LET rise   == Bull(curr) /\ ~Bull(prev)
        fall   == ~Bull(curr) /\ Bull(prev)
        bc     == Body(curr)
        bp     == Body(prev)
        mid2   == prev.open + prev.close
        solid  == 2 * bc >= Span(curr) /\ bc > bp
        narrow == Min({Span(curr), Span(prev)})
        within == /\ bp > 2 * bc
                  /\ bc > 0
                  /\ Max({curr.open, curr.close}) <= Max({prev.open, prev.close})
                  /\ Min({curr.open, curr.close}) >= Min({prev.open, prev.close})
    IN  IF Span(curr) <= 0 \/ Span(prev) <= 0 THEN "" ELSE FirstMatch(<<
          Rule("engulfing_bull", /\ solid /\ rise
                                 /\ curr.open <= prev.close /\ curr.close >= prev.open),
          Rule("engulfing_bear", /\ solid /\ fall
                                 /\ curr.open >= prev.close /\ curr.close <= prev.open),
          Rule("piercing_line",  /\ rise /\ 2 * bp >= bc
                                 /\ curr.open < prev.close
                                 /\ 2 * curr.close > mid2 /\ curr.close < prev.open),
          Rule("dark_cloud_cover", /\ fall /\ 2 * bp >= bc
                                   /\ curr.open > prev.close
                                   /\ 2 * curr.close < mid2 /\ curr.close > prev.open),
          Rule("tweezer_bottom", 10 * Distance(curr.low, prev.low) <= narrow /\ rise),
          Rule("tweezer_top",    10 * Distance(curr.high, prev.high) <= narrow /\ fall),
          Rule("harami_bull",    within /\ rise),
          Rule("harami_bear",    within /\ fall),
          Rule("inside_bar",     curr.high < prev.high /\ curr.low > prev.low)
        >>, "")

(* c2 is the oldest bar, c0 the newest. *)
detectThreeBar(c2, c1, c0) ==
    LET star    == 2 * Body(c1) < Body(c2) /\ 2 * Body(c0) >= Body(c2)
        mid2    == c2.open + c2.close
        strong  == \A b \in {c2, c1, c0} : 2 * Body(b) >= Span(b)
        rising  == /\ c1.close > c2.close /\ c0.close > c1.close
                   /\ c1.open > c2.open /\ c1.open < c2.close
                   /\ c0.open > c1.open /\ c0.open < c1.close
        falling == /\ c1.close < c2.close /\ c0.close < c1.close
                   /\ c1.open < c2.open /\ c1.open > c2.close
                   /\ c0.open < c1.open /\ c0.open > c1.close
    IN  IF \E b \in {c2, c1, c0} : Span(b) <= 0 THEN "" ELSE FirstMatch(<<
          Rule("morning_star", ~Bull(c2) /\ star /\ Bull(c0) /\ 2 * c0.close > mid2),
          Rule("evening_star", Bull(c2) /\ star /\ ~Bull(c0) /\ 2 * c0.close < mid2),
          Rule("three_white_soldiers",
               Bull(c2) /\ Bull(c1) /\ Bull(c0) /\ rising /\ strong),
          Rule("three_black_crows",
               ~Bull(c2) /\ ~Bull(c1) /\ ~Bull(c0) /\ falling /\ strong)
        >>, "")

(* More bars carry more information, so their pattern wins. *)
DetectPattern(closed, i) ==
    LET three == IF i >= 3 THEN detectThreeBar(closed[i - 2], closed[i - 1], closed[i]) ELSE ""
        two   == IF i >= 2 THEN detectTwoBar(closed[i], closed[i - 1]) ELSE ""
    IN  IF three # "" THEN three
        ELSE IF two # "" THEN two
        ELSE detectSingleBar(closed[i])
-----------------------------------------------------------------------------
(* f[0] + ... + f[n - 1]. *)
Total(f, n) ==
    LET sum[k \in 0..n] == IF k = 0 THEN 0 ELSE sum[k - 1] + f[k - 1]
    IN  sum[n]

(* The least-squares slope of the closes of bars from..to against a tenth  *)
(* of an ATR per bar, cross-multiplied.                                    *)
PriorTrend(closed, from, to, atr) ==
    LET n    == to - from + 1
        x    == [k \in 0..(n - 1) |-> k]
        y    == [k \in 0..(n - 1) |-> closed[from + k].close]
        xy   == [k \in 0..(n - 1) |-> x[k] * y[k]]
        xx   == [k \in 0..(n - 1) |-> x[k] * x[k]]
        num  == n * Total(xy, n) - Total(x, n) * Total(y, n)
        den  == n * Total(xx, n) - Total(x, n) * Total(x, n)
    IN  IF 10 * num < -(atr * den) THEN "DOWN"
        ELSE IF 10 * num > atr * den THEN "UP" ELSE "FLAT"

(* Context and trap flags of bar i; a level of 0 is not there. *)
enrichContext(closed, i, lvl) ==
    LET b     == closed[i]
        prior == (i - ExtremeBars)..(i - 1)
    IN  [priorTrend |-> IF i > TrendBars /\ lvl.atr > 0
                        THEN PriorTrend(closed, i - TrendBars, i - 1, lvl.atr) ELSE "",
         windowLow  |-> i > ExtremeBars /\ \A j \in prior : b.low <= closed[j].low,
         windowHigh |-> i > ExtremeBars /\ \A j \in prior : b.high >= closed[j].high,
         atSupport    |-> /\ lvl.atr > 0 /\ lvl.nearestS > 0
                          /\ WithinTolerance(Distance(b.low, lvl.nearestS), lvl.atr),
         atResistance |-> /\ lvl.atr > 0 /\ lvl.nearestR > 0
                          /\ WithinTolerance(Distance(b.high, lvl.nearestR), lvl.atr),
         wickGrabHigh |-> lvl.swingHigh > 0 /\ b.high > lvl.swingHigh /\ b.close < lvl.swingHigh,
         wickGrabLow  |-> lvl.swingLow > 0 /\ b.low < lvl.swingLow /\ b.close > lvl.swingLow,
         bbFakeoutUp   |-> lvl.bbUpper > 0 /\ b.high > lvl.bbUpper /\ b.close < lvl.bbUpper,
         bbFakeoutDown |-> lvl.bbLower > 0 /\ b.low < lvl.bbLower /\ b.close > lvl.bbLower,
         exhaustion    |-> lvl.atr > 0 /\ Body(b) > 2 * lvl.atr]

BullishReversals == {"hammer", "piercing_line", "engulfing_bull", "dragonfly_doji",
                     "tweezer_bottom", "harami_bull", "morning_star"}
BearishReversals == {"shooting_star", "dark_cloud_cover", "engulfing_bear", "gravestone_doji",
                     "tweezer_top", "harami_bear", "evening_star"}

(* Some later bar disproved the pattern of bar i. *)
Invalidated(closed, i, kind) ==
    \E j \in (i + 1)..Len(closed) :
        LET c == closed[j].close
        IN  \/ kind \in BullishReversals /\ c < closed[i].low
            \/ kind \in BearishReversals /\ c > closed[i].high
            \/ kind = "three_white_soldiers" /\ i >= 3 /\ c < closed[i - 2].open
            \/ kind = "three_black_crows" /\ i >= 3 /\ c > closed[i - 2].open

(* One record per bar of the last n, oldest first. *)
AnalyzeLastBars(closed, n, lvl) ==
    LET start == Max({1, Len(closed) - n + 1})
    IN  [k \in 1..(Len(closed) - start + 1) |->
           LET i    == start + k - 1
               kind == DetectPattern(closed, i)
           IN  [time |-> closed[i].time, kind |-> kind,
                context |-> enrichContext(closed, i, lvl),
                invalidated |-> Invalidated(closed, i, kind)]]
=============================================================================
