---------------------------- MODULE MarketDigest ----------------------------
(***************************************************************************)
(* What the bot tells the model about the market, as the market moves:     *)
(* Build of modules/advisor/biz/market/digest.go over the candles of one   *)
(* timeframe, the cross-timeframe verdict, and the backtest's walk over    *)
(* the same candles.                                                       *)
(*                                                                         *)
(* The state is the market's: `bars` is the exchange's candle history of   *)
(* timeframe TF, the last bar still forming; `reading` is what the         *)
(* indicators that need more bars than are explored say of the closed ones *)
(* (ATR, Bollinger and Donchian bands, round numbers); `summary` is each   *)
(* bias timeframe's regime.  The program keeps nothing between two digests *)
(* and may be asked for one at any moment: `digest` and `verdict` are the  *)
(* answer it would give now.                                               *)
(***************************************************************************)
EXTENDS Structure, Patterns, Regime, Outcome

CONSTANTS
    Shapes,           \* [open, high, low, close] a bar may have
    Histories,        \* closed bars the exchange may hold before the first new one
    Readings,         \* values of `reading`
    Decisions,        \* [action, entry, sl, tp] the backtest resolves
    TF, EntryTF,      \* the timeframe whose bars these are; the entry timeframe
    FetchLimit,       \* candles one fetch returns, the forming one included
    LeftRight,        \* bars on each side that confirm a pivot (3 in the code)
    PivotLimitEntry, PivotLimitM5, PivotLimitH1,
    RangeScanWindow, BOSScanWindow, FVGScanWindow,
    PatternLookback,
    MirrorPrice,      \* prices p and MirrorPrice - p mirror each other
    MaxBars,          \* bound on the bars opened after the history
    RegimeBars        \* bound: regimes move while there are this few bars

ASSUME DigestConstants ==
    /\ LeftRight \in Nat \ {0}
    /\ FetchLimit > PatternLookback + 2
    /\ {FetchLimit, PatternLookback, PivotLimitEntry, PivotLimitM5, PivotLimitH1} \subseteq Nat
    /\ Shapes \subseteq [open : Nat, high : Nat, low : Nat, close : Nat]
    /\ \A s \in Shapes : s.low <= Min({s.open, s.close}) /\ Max({s.open, s.close}) <= s.high
    /\ \A h \in Histories : h \in Seq(Shapes)
    /\ Decisions \subseteq [action : {"BUY", "SELL"}, entry : Nat, sl : Nat, tp : Nat]
    /\ MaxBars \in Nat \ {0}
    /\ {RegimeBars, RangeScanWindow, BOSScanWindow, FVGScanWindow} \subseteq Nat

ASSUME ReadingConstants ==
    Readings \subseteq [atr : Nat, bbUpper : Nat, bbLower : Nat, donchHigh : Nat, donchLow : Nat,
                       roundAbove : Nat, roundBelow : Nat]

(* Prices are positive, and so are their mirror images; a level of 0 is    *)
(* not there.                                                              *)
ASSUME MirrorConstants ==
    /\ MirrorPrice \in Nat
    /\ \A s \in Shapes : {s.open, s.high, s.low, s.close} \subseteq 1..(MirrorPrice - 1)
    /\ \A r \in Readings : {r.bbUpper, r.bbLower, r.donchHigh, r.donchLow, r.roundAbove, r.roundBelow}
                            \subseteq 0..(MirrorPrice - 1)
    /\ \A d \in Decisions : {d.entry, d.sl, d.tp} \subseteq 1..(MirrorPrice - 1)

VARIABLES bars, reading, summary, digest, verdict

vars == <<bars, reading, summary, digest, verdict>>
-----------------------------------------------------------------------------
(* BinanceFetcher.Fetch: the newest candles, the forming one last. *)
Fetch(history) ==
    SubSeq(history, Max({1, Len(history) - FetchLimit + 1}), Len(history))

(* Seeded fault: the forming bar is taken for a closed one. *)
AllCandles(candles) == candles

(* indicators.ClosedCandles: the anti-repaint helper. *)
ClosedCandles(candles) == IF Len(candles) < 2 THEN << >> ELSE Front(candles)

(* fillRangeContext: the closest level above and below the last close. *)
Nearest(closed, r, swing) ==
    LET last   == closed[Len(closed)].close
        levels == {r.bbUpper, r.bbLower, r.donchHigh, r.donchLow, r.roundAbove,
                   r.roundBelow, swing.high, swing.low} \ {0}
        above  == {l \in levels : l > last}
        below  == {l \in levels : l < last}
    IN  [resist  |-> IF r.atr = 0 \/ above = {} THEN 0 ELSE Min(above),
         support |-> IF r.atr = 0 \/ below = {} THEN 0 ELSE Max(below)]

(* analyzeTFPatterns: the patterns of the last bars against this           *)
(* timeframe's own levels.                                                 *)
analyzeTFPatterns(closed, r, lookback) ==
    LET swing == SwingHighLow(closed, LeftRight)
        near  == Nearest(closed, r, swing)
    IN  IF closed = << >> THEN << >>
        ELSE AnalyzeLastBars(closed, lookback,
               [atr |-> r.atr, swingHigh |-> swing.high, swingLow |-> swing.low,
                bbUpper |-> r.bbUpper, bbLower |-> r.bbLower,
                nearestR |-> near.resist, nearestS |-> near.support])

(* How many pivots the structural pass keeps; 0 for a timeframe the loop   *)
(* skips altogether.                                                       *)
PivotLimit ==
    CASE TF = EntryTF               -> PivotLimitEntry
      [] TF = "M5" /\ TF # EntryTF  -> PivotLimitM5
      [] TF = "H1" /\ TF # EntryTF  -> PivotLimitH1
      [] OTHER                      -> 0

(* The part of Build that looks for structure in one timeframe. *)
Build(candles, r) ==
    LET closed == ClosedCandles(candles)
        pivots == RecentPivots(closed, LeftRight, PivotLimit)
        pass   == PivotLimit > 0
        scaled == pass /\ r.atr > 0
    IN  [pivots   |-> pivots,
         double   |-> IF scaled THEN DetectDoubleTopBottom(pivots, r.atr) ELSE NoDouble,
         range    |-> IF scaled THEN DetectRange(closed, r.atr, RangeScanWindow) ELSE NoRange,
         bos      |-> IF scaled THEN DetectBOSRetest(closed, pivots, r.atr, BOSScanWindow)
                      ELSE NoBOS,
         failed   |-> IF scaled THEN DetectFailedBreakout(closed, pivots, BOSScanWindow)
                      ELSE NoFailure,
         gap      |-> IF pass /\ TF \in {EntryTF, "M5", "H4"}
                      THEN DetectRecentFVG(closed, FVGScanWindow) ELSE NoGap,
         swing    |-> SwingHighLow(closed, LeftRight),
         patterns |-> analyzeTFPatterns(closed, r, PatternLookback)]

-----------------------------------------------------------------------------
Bar(t, s) == [time |-> t, open |-> s.open, high |-> s.high, low |-> s.low, close |-> s.close]

(* The first trade of a bar. *)
Opening(price) == [open |-> price, high |-> price, low |-> price, close |-> price]

Openings == {Opening(s.open) : s \in Shapes}

(* A history ends at time 0 and the first new bar opens at time 1. *)
Past(h) == [i \in DOMAIN h |-> Bar(i - Len(h), h[i])]

Init ==
    /\ bars \in {Append(Past(h), Bar(1, s)) : h \in Histories, s \in Openings}
    /\ reading \in Readings
    /\ summary = [tf \in TFs |-> Absent]
    /\ digest = Build(Fetch(bars), reading)
    /\ verdict = ComputeRegimeVerdict(summary)

(* Trades move the forming bar: its range only widens. *)
Tick ==
    /\ LET last == bars[Len(bars)]
       IN  \E s \in Shapes :
              /\ s.open = last.open /\ s.high >= last.high /\ s.low <= last.low
              /\ bars' = [bars EXCEPT ![Len(bars)] = Bar(last.time, s)]
    /\ digest' = Build(Fetch(bars'), reading)
    /\ UNCHANGED <<reading, summary, verdict>>

(* The forming bar closes once it has one of the shapes explored, and the  *)
(* next one opens; the indicators are those of the new closed series.      *)
CloseBar ==
    /\ LET last == bars[Len(bars)]
       IN  /\ last.time < MaxBars
           /\ \E s \in Shapes : last = Bar(last.time, s)
           /\ \E s \in Openings : bars' = Append(bars, Bar(last.time + 1, s))
    /\ reading' \in Readings
    /\ digest' = Build(Fetch(bars'), reading')
    /\ UNCHANGED <<summary, verdict>>

(* A bias timeframe's closed candles put it into another regime. *)
Reclassify ==
    /\ Len(bars) <= RegimeBars
    /\ \E tf \in TFs, s \in Summaries : summary' = [summary EXCEPT ![tf] = s]
    /\ verdict' = ComputeRegimeVerdict(summary')
    /\ UNCHANGED <<bars, reading, digest>>

Next == Tick \/ CloseBar \/ Reclassify

Spec == Init /\ [][Next]_vars

TypeOK ==
    /\ bars \in Seq([time : Int, open : Nat, high : Nat, low : Nat, close : Nat])
    /\ \A i \in DOMAIN bars :
          /\ bars[i].time = bars[1].time + i - 1
          /\ bars[i].low <= Min({bars[i].open, bars[i].close})
          /\ bars[i].high >= Max({bars[i].open, bars[i].close})
    /\ bars[Len(bars)].time \in 1..MaxBars
    /\ reading \in Readings
    /\ summary \in [TFs -> Summaries]
    /\ Len(digest.pivots) <= PivotLimit
    /\ digest.bos # NoBOS => digest.bos.age \in 0..(BOSScanWindow - 1)
    /\ digest.failed # NoFailure => digest.failed.age \in 0..(BOSScanWindow - 2)
    /\ digest.gap # NoGap => /\ digest.gap.bottom < digest.gap.top
                             /\ digest.gap.age \in 0..(FVGScanWindow - 1)
-----------------------------------------------------------------------------
(* A digest never rewrites what an earlier one said of a closed bar: a     *)
(* moving price changes nothing but the forming bar; when a bar closes, a  *)
(* pivot that both digests show keeps its price and its label (unless the  *)
(* pivot it was compared with has left the fetch), the pattern of a bar    *)
(* keeps its name, and a pattern once invalidated stays so.                *)
NeverRepaints ==
    [][/\ Len(bars') = Len(bars) => digest' = digest
       /\ \A i \in DOMAIN digest.pivots, j \in DOMAIN digest'.pivots :
            LET p == digest.pivots[i]
                q == digest'.pivots[j]
            IN  p.time = q.time /\ p.type = q.type =>
                    p.price = q.price /\ q.label \in {p.label, ""}
       /\ \A i \in DOMAIN digest.patterns, j \in DOMAIN digest'.patterns :
            LET p == digest.patterns[i]
                q == digest'.patterns[j]
            IN  p.time = q.time => p.kind = q.kind /\ (p.invalidated => q.invalidated)]_vars

(* The closed bar an event of a digest of this history happened on. *)
EventBar(event, history) == Len(history) - 1 - event.age

(* What has happened to a level or to a gap stays happened while both      *)
(* digests report it: a confirmed retest stays confirmed, and a retest     *)
(* made after the breaking bar is not forgotten, unless the ATR and the    *)
(* tolerance with it shrank; a gap being filled does not become untouched  *)
(* again, nor does its zone move.                                          *)
StructureNeverRegresses ==
    [][/\ LET a == digest.bos
              b == digest'.bos
          IN  /\ a.direction # "" /\ a.direction = b.direction /\ a.level = b.level
              /\ EventBar(a, bars) = EventBar(b, bars')
              /\ reading'.atr >= reading.atr
              => /\ a.state = "confirmed" => b.state = "confirmed"
                 /\ a.state = "retesting" /\ a.age > 0 => b.state # "pending"
       /\ LET a == digest.gap
              b == digest'.gap
          IN  /\ a.direction # "" /\ b.direction # ""
              /\ EventBar(a, bars) = EventBar(b, bars')
              => /\ a.direction = b.direction /\ a.top = b.top /\ a.bottom = b.bottom
                 /\ a.state = "filling" => b.state = "filling"]_vars

(* pivots.go promises the swing resolution of indicators.SwingHighLow: the *)
(* last pivot of each kind in a digest's sequence, which the detectors     *)
(* work on, is the swing level the digest prints.                          *)
SwingsAgree ==
    \A i \in DOMAIN digest.pivots :
        LET p     == digest.pivots[i]
            later == {j \in DOMAIN digest.pivots : j > i /\ digest.pivots[j].type = p.type}
        IN  later = {} => p.price = IF p.type = "SH" THEN digest.swing.high
                                                     ELSE digest.swing.low
-----------------------------------------------------------------------------
Flip(p) == IF p = 0 THEN 0 ELSE MirrorPrice - p

MirrorCandle(c) ==
    [time |-> c.time, open |-> Flip(c.open), high |-> Flip(c.low),
     low |-> Flip(c.high), close |-> Flip(c.close)]

MirrorReading(r) ==
    [atr |-> r.atr,
     bbUpper |-> Flip(r.bbLower), bbLower |-> Flip(r.bbUpper),
     donchHigh |-> Flip(r.donchLow), donchLow |-> Flip(r.donchHigh),
     roundAbove |-> Flip(r.roundBelow), roundBelow |-> Flip(r.roundAbove)]

MirrorDecision(d) ==
    [action |-> IF d.action = "BUY" THEN "SELL" ELSE "BUY",
     entry |-> Flip(d.entry), sl |-> Flip(d.sl), tp |-> Flip(d.tp)]

(* Bullish names and their bearish twins; the other names are their own. *)
Twins == {<<"up", "down">>, <<"failed_up", "failed_down">>, <<"bull", "bear">>,
          <<"UP", "DOWN">>, <<"SH", "SL">>, <<"HH", "LL">>, <<"LH", "HL">>, <<"EH", "EL">>,
          <<"marubozu_bull", "marubozu_bear">>, <<"dragonfly_doji", "gravestone_doji">>,
          <<"hammer", "shooting_star">>, <<"engulfing_bull", "engulfing_bear">>,
          <<"piercing_line", "dark_cloud_cover">>, <<"tweezer_bottom", "tweezer_top">>,
          <<"harami_bull", "harami_bear">>, <<"morning_star", "evening_star">>,
          <<"three_white_soldiers", "three_black_crows">>}

Twin(name) ==
    LET pairs == {t \in Twins : name \in {t[1], t[2]}}
    IN  IF pairs = {} THEN name
        ELSE LET t == CHOOSE t \in pairs : TRUE
             IN  IF name = t[1] THEN t[2] ELSE t[1]

(* The limit of a pivot list fell between the two pivots of its oldest     *)
(* bar, an outside one: the code lists the high first (pivots.go:37-50),   *)
(* so the low alone is kept (pivots.go:82-85).                             *)
CutInABar(closed, pivots) ==
    /\ pivots # << >> /\ Head(pivots).type = "SL"
    /\ \E i \in DOMAIN closed :
          closed[i].time = Head(pivots).time /\ isPivotHigh(closed, i, LeftRight)

(* A rising market and its mirror image are read alike: turned upside      *)
(* down, the same bars give the same pivots, breaks, failed breakouts,     *)
(* gaps, ranges, patterns and traps with their bullish and bearish names   *)
(* exchanged, and a trade the mirrored outcome.  The code makes two        *)
(* exceptions.  A list cut in a bar keeps the low of it and its mirror     *)
(* image the high; then all pivots but that one are compared, and neither  *)
(* breaks nor failed breakouts, which may be of its level.  And the names  *)
(* of patterns are compared while no bar is flat: a flat bar counts as     *)
(* bearish.                                                                *)
Mirrored ==
    LET a == digest
        b == Build([i \in DOMAIN Fetch(bars) |-> MirrorCandle(Fetch(bars)[i])],
                   MirrorReading(reading))
        cut == CutInABar(ClosedCandles(Fetch(bars)), a.pivots)
        whole(pivots) == IF cut THEN Tail(pivots) ELSE pivots
        seen(pivots) == {[time |-> pivots[i].time, type |-> pivots[i].type,
                          price |-> pivots[i].price, label |-> pivots[i].label] :
                             i \in DOMAIN pivots}
        flip(p) == [time |-> p.time, type |-> Twin(p.type),
                    price |-> Flip(p.price), label |-> Twin(p.label)]
        closed == ClosedCandles(bars)
    IN  /\ seen(whole(b.pivots)) = {flip(p) : p \in seen(whole(a.pivots))}
        /\ ~cut =>
              /\ b.bos.direction = Twin(a.bos.direction)
              /\ b.bos.level = Flip(a.bos.level)
              /\ b.bos.age = a.bos.age /\ b.bos.state = a.bos.state
              /\ b.failed.direction = Twin(a.failed.direction)
              /\ b.failed.level = Flip(a.failed.level) /\ b.failed.age = a.failed.age
        /\ b.gap.direction = Twin(a.gap.direction)
        /\ b.gap.top = Flip(a.gap.bottom) /\ b.gap.bottom = Flip(a.gap.top)
        /\ b.gap.age = a.gap.age /\ b.gap.state = a.gap.state
        /\ b.range.isRange = a.range.isRange /\ b.range.age = a.range.age
        /\ \A i \in DOMAIN a.patterns :
              LET p == a.patterns[i]
                  q == b.patterns[i]
                  c == p.context
                  e == q.context
              IN  /\ (\A j \in DOMAIN closed : closed[j].open # closed[j].close) =>
                        q.kind = Twin(p.kind) /\ q.invalidated = p.invalidated
                  /\ e = [priorTrend    |-> Twin(c.priorTrend),
                          windowLow     |-> c.windowHigh,
                          windowHigh    |-> c.windowLow,
                          atSupport     |-> c.atResistance,
                          atResistance  |-> c.atSupport,
                          wickGrabHigh  |-> c.wickGrabLow,
                          wickGrabLow   |-> c.wickGrabHigh,
                          bbFakeoutUp   |-> c.bbFakeoutDown,
                          bbFakeoutDown |-> c.bbFakeoutUp,
                          exhaustion    |-> c.exhaustion]
        /\ \A d \in Decisions :
              resolveOutcome(MirrorDecision(d),
                             [i \in DOMAIN closed |-> MirrorCandle(closed[i])])
                = resolveOutcome(d, closed)
-----------------------------------------------------------------------------
(* The backtest's verdict on a trade is final: once the stop or the target *)
(* decided it, more candles change neither the verdict nor the excursions; *)
(* before that the excursions only grow.  A loss went through its stop,    *)
(* and a win did not, if the stop is on its side of the entry, which       *)
(* DecisionPayload.valid does not ask for.                                 *)
VerdictIsFinal ==
    [][\A d \in Decisions :
          LET a == resolveOutcome(d, ClosedCandles(bars))
              b == resolveOutcome(d, ClosedCandles(bars'))
              risk == IF d.action = "BUY" THEN d.entry - d.sl ELSE d.sl - d.entry
          IN  /\ a.kind \in {"tp", "sl"} => b = a
              /\ a.kind = "timeout" => /\ b.mfe >= a.mfe /\ b.mae >= a.mae
                                       /\ b.kind # "timeout" => b.bars = Len(bars)
              /\ b.kind = "tp" /\ risk > 0 => b.mae < risk
              /\ b.kind = "sl" => b.mae >= risk]_vars

(* The mode the model is told to trade in never fights the regimes it was  *)
(* derived from, and a change of M15 alone, which "refines but does not    *)
(* override", leaves it as it was.                                         *)
NeverAgainstTheBias ==
    [][/\ FollowsBias(summary', verdict'.mode)
       /\ (\A tf \in {"H4", "H1"} : summary'[tf] = summary[tf]) =>
              verdict'.mode = verdict.mode]_vars

(* RangeStructure documents the age of a range as "short age = fresh       *)
(* consolidation": a range that the previous digest did not yet see, over  *)
(* a full window, has not lasted the whole window.                         *)
FreshRangeIsYoung ==
    [][LET was == digest.range
           now == digest'.range
       IN  now.isRange /\ ~was.isRange /\ was.age > 0 => now.age < RangeScanWindow]_vars
=============================================================================
