------------------------------- MODULE Replay -------------------------------
(***************************************************************************)
(* What the backtest is given to see: the sampler of cmd/backtest/main.go  *)
(* and the candles of cmd/backtest/historical.go.  The unit is a minute.   *)
(* A candle is the stretch of the market it covers: it opens at `open` and *)
(* holds the trades before `upTo`.                                         *)
(*                                                                         *)
(* External: klines of Binance with an endTime.  The code says both that   *)
(* endTime bounds the close of a candle (binance_service.go:55) and that   *)
(* the candle that opens at endTime may be among them (historical.go:56):  *)
(* `rule` is which of the two it is.                                       *)
(***************************************************************************)
EXTENDS Integers, Sequences, SequencesExt, FiniteSetsExt, FiniteSets

CONSTANTS
  CandleBudget,   (* candles asked for in every timeframe (200)            *)
  Window,         (* -weeks, in minutes                                    *)
  WalkBars,       (* -walk-bars: M1 candles walked after the sample        *)
  Offsets         (* what the generator seeded with -rng-seed draws        *)

Rules == {"open", "close"}

Period == [M1 |-> 1, M5 |-> 5, H1 |-> 60, H4 |-> 240]
EntryTF == "M5"

Warmup == CandleBudget * Period["H4"]
WalkBuffer == WalkBars + 5
Span == Window - Warmup - WalkBuffer

ASSUME ReplayAssumption ==
  /\ CandleBudget \in Nat \ {0} /\ Window \in Nat /\ WalkBars \in Nat
  /\ Offsets \in Seq(0 .. Span - 1) \ {<<>>}   (* otherwise the program gives up *)

(* The draws do not depend on the clock, the samples do.  They are sorted: *)
(* the i-th is the first that i draws are not later than.                  *)
sampleTimestamps(now) ==
  LET start == now - Window + Warmup
      Truncated(raw) == raw - (raw % Period[EntryTF])
      drawn == [i \in DOMAIN Offsets |-> Truncated(start + Offsets[i])]
      NoLater(t) == {i \in DOMAIN Offsets : drawn[i] <= t}
  IN [i \in DOMAIN Offsets |-> Min({t \in ToSet(drawn) : Cardinality(NoLater(t)) >= i})]

(* The last `limit` candles of tf up to `end`, as they are at `now`. *)
FetchCandlesEndingAt(tf, end, limit, rule, now) ==
  LET p      == Period[tf]
      newest == (end - (end % p)) - (IF rule = "open" THEN 0 ELSE p)
      At(open) == [open |-> open, upTo |-> IF open + p < now THEN open + p ELSE now]
  IN [i \in 1 .. limit |-> At(newest - (limit - i) * p)]

(* Seeded fault: the candles before `from` that came along are not trimmed. *)
FetchM1ForwardUntrimmed(from, windowBars, rule, now) ==
  FetchCandlesEndingAt("M1", from + windowBars + 5, windowBars + 10, rule, now)

(* They come first, since candles come in the order of their opening. *)
FetchM1Forward(from, windowBars, rule, now) ==
  LET candles == FetchCandlesEndingAt("M1", from + windowBars + 5, windowBars + 10, rule, now)
      after   == {i \in DOMAIN candles : candles[i].open > from}
  IN SubSeq(candles, Min(after), Len(candles))

FetchSnapshotAt(at, rule, now) ==
  [tf \in DOMAIN Period |-> FetchCandlesEndingAt(tf, at, CandleBudget + 20, rule, now)]

(* Production asks for the newest candles; the last one is still forming. *)
FetchLive(now) ==
  [tf \in DOMAIN Period |-> FetchCandlesEndingAt(tf, now, CandleBudget + 20, "open", now)]

(* What Build reads of the candles: the price at the end of the last one   *)
(* of the entry timeframe, and everything but the last one of each.        *)
ClosedCandles(candles) == Front(candles)
Digest(market) ==
  [price  |-> Last(market[EntryTF]).upTo,
   closed |-> [tf \in DOMAIN Period |-> ClosedCandles(market[tf])]]
=============================================================================
