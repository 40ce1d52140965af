------------------------------- MODULE Pivots -------------------------------
(***************************************************************************)
(* Swing points of a candle series: modules/advisor/biz/market/pivots.go   *)
(* and the swing levels of trading/indicators/indicators.go.               *)
(*                                                                         *)
(* A candle is a record [time, open, high, low, close]; a series is a      *)
(* sequence of candles in time order, index 1 being the oldest.  Prices    *)
(* are positive integers and the code's 0.3 * ATR tolerance is compared    *)
(* after multiplying both sides by ten, so no real arithmetic is needed.   *)
(***************************************************************************)
EXTENDS Integers, Sequences, FiniteSets, FiniteSetsExt, SequencesExt

Distance(a, b) == IF a >= b THEN a - b ELSE b - a

(* x is at most three tenths of an ATR. *)
WithinTolerance(x, atr) == 10 * x <= 3 * atr

MinTouches == 3
WidthMax   == 4
-----------------------------------------------------------------------------
(* Both directions are written out, as in the code, so that nothing about *)
(* their symmetry is assumed.                                              *)
isPivotHigh(candles, i, k) ==
    \A j \in (i - k)..(i + k) : j # i => candles[j].high < candles[i].high

isPivotLow(candles, i, k) ==
    \A j \in (i - k)..(i + k) : j # i => candles[j].low > candles[i].low

(* Seeded fault: a bar that is a high is not asked whether it is a low. *)
PivotsAtHighElseLow(candles, i, k) ==
    IF isPivotHigh(candles, i, k)
      THEN << [time |-> candles[i].time, price |-> candles[i].high, type |-> "SH"] >>
    ELSE IF isPivotLow(candles, i, k)
      THEN << [time |-> candles[i].time, price |-> candles[i].low, type |-> "SL"] >>
    ELSE << >>

(* The pivots of one bar: an outside bar is both, the high first. *)
PivotsAt(candles, i, k) ==
    (IF isPivotHigh(candles, i, k)
       THEN << [time |-> candles[i].time, price |-> candles[i].high, type |-> "SH"] >>
       ELSE << >>)
    \o
    (IF isPivotLow(candles, i, k)
       THEN << [time |-> candles[i].time, price |-> candles[i].low, type |-> "SL"] >>
       ELSE << >>)

(* How pivot m of `all` compares with the previous pivot of its type. *)
PivotLabel(all, m) ==
    LET earlier == {e \in 1..(m - 1) : all[e].type = all[m].type}
        before  == all[Max(earlier)].price
        price   == all[m].price
        high    == all[m].type = "SH"
    IN  CASE earlier = {}   -> ""
          [] price > before /\ earlier # {} -> IF high THEN "HH" ELSE "HL"
          [] price < before /\ earlier # {} -> IF high THEN "LH" ELSE "LL"
          [] OTHER          -> IF high THEN "EH" ELSE "EL"

(* The `limit` newest confirmed pivots.  Labels are given before the list  *)
(* is cut, so the oldest pivot kept may compare with one that is not.      *)
RecentPivots(candles, leftRight, limit) ==
    IF Len(candles) < 2 * leftRight + 1 \/ limit <= 0 THEN << >>
    ELSE LET all == FlattenSeq([m \in 1..(Len(candles) - 2 * leftRight) |->
                                    PivotsAt(candles, m + leftRight, leftRight)])
             labelled == [m \in DOMAIN all |->
                            [time  |-> all[m].time, price |-> all[m].price,
                             type  |-> all[m].type, label |-> PivotLabel(all, m)]]
         IN  SubSeq(labelled, Max({1, Len(all) - limit + 1}), Len(all))

(* indicators.go confirms swings with code of its own.  Seeded fault: an    *)
(* equal high does not disqualify one.                                     *)
isSwingHighOrEqual(candles, i, k) ==
    \A j \in (i - k)..(i + k) : j # i => candles[j].high <= candles[i].high

isSwingHigh(candles, i, k) ==
    \A j \in (i - k)..(i + k) : j # i => candles[j].high < candles[i].high

isSwingLow(candles, i, k) ==
    \A j \in (i - k)..(i + k) : j # i => candles[j].low > candles[i].low

(* indicators.SwingHighLow: the newest confirmed swing of each kind, 0 when *)
(* there is none.                                                          *)
SwingHighLow(candles, leftRight) ==
    LET mid   == (leftRight + 1)..(Len(candles) - leftRight)
        highs == {i \in mid : isSwingHigh(candles, i, leftRight)}
        lows  == {i \in mid : isSwingLow(candles, i, leftRight)}
    IN  [high |-> IF highs = {} THEN 0 ELSE candles[Max(highs)].high,
         low  |-> IF lows = {} THEN 0 ELSE candles[Max(lows)].low]
-----------------------------------------------------------------------------
NoDouble == [kind |-> "", level2 |-> 0]

(* The last two pivots of `type`, if they are at one price and a pivot of  *)
(* the other type lies between them; level2 is twice the reported level.   *)
DoubleOf(pivots, type, kind, atr) ==
    LET idx == {i \in DOMAIN pivots : pivots[i].type = type}
        b   == Max(idx)
        a   == Max(idx \ {b})
    IN  IF /\ Cardinality(idx) >= 2
           /\ WithinTolerance(Distance(pivots[a].price, pivots[b].price), atr)
           /\ \E s \in (a + 1)..(b - 1) : pivots[s].type # type
        THEN [kind |-> kind, level2 |-> pivots[a].price + pivots[b].price]
        ELSE NoDouble

(* A top is looked for first and hides a bottom. *)
DetectDoubleTopBottom(pivots, atr) ==
    LET top == DoubleOf(pivots, "SH", "double_top", atr)
    IN  IF Len(pivots) < 3 \/ atr <= 0 THEN NoDouble
        ELSE IF top # NoDouble THEN top
        ELSE DoubleOf(pivots, "SL", "double_bottom", atr)
-----------------------------------------------------------------------------
NoRange == [isRange |-> FALSE, top |-> 0, bottom |-> 0, age |-> 0]

(* The rectangle test over the last `window` bars.  A window too wide      *)
(* returns early, its boundaries set and its age zero.                     *)
DetectRange(candles, atr, window) ==
    IF Len(candles) < window \/ atr <= 0 THEN NoRange
    ELSE LET slice == SubSeq(candles, Len(candles) - window + 1, Len(candles))
             bars  == 1..window
             top   == Max({slice[i].high : i \in bars})
             bot   == Min({slice[i].low : i \in bars})
             touchesTop == {i \in bars : WithinTolerance(top - slice[i].high, atr)}
             touchesBot == {i \in bars : WithinTolerance(slice[i].low - bot, atr)}
             outside    == {i \in bars : \/ ~WithinTolerance(slice[i].high - top, atr)
                                         \/ ~WithinTolerance(bot - slice[i].low, atr)}
         IN  IF top - bot > WidthMax * atr
             THEN [NoRange EXCEPT !.top = top, !.bottom = bot]
             ELSE [isRange |-> /\ Cardinality(touchesTop) >= MinTouches
                               /\ Cardinality(touchesBot) >= MinTouches,
                   top     |-> top,
                   bottom  |-> bot,
                   age     |-> IF outside = {} THEN window
                               ELSE window - Max(outside)]
=============================================================================
