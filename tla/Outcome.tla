------------------------------ MODULE Outcome -------------------------------
(***************************************************************************)
(* cmd/backtest/outcome.go: what the candles after a decision make of it.  *)
(* A decision is [action, entry, sl, tp]; its outcome is the first bar     *)
(* whose range touches the stop or the target, a bar that touches both     *)
(* counting as the stop.  mfe and mae are the largest moves in favour of   *)
(* and against the trade up to and including that bar.                     *)
(***************************************************************************)
EXTENDS Integers, Sequences, FiniteSetsExt

OutcomeError == [kind |-> "error", bars |-> 0, mfe |-> 0, mae |-> 0]

(* The walk over `forward`, given which bars hit and how far each one goes *)
(* for and against the trade.  A trade neither stopped nor filled times    *)
(* out after the whole window with bars = 0.                               *)
Walk(forward, hitSL(_), hitTP(_), fav(_), adv(_)) ==
    LET n    == Len(forward)
        hits == {i \in 1..n : hitSL(forward[i]) \/ hitTP(forward[i])}
        last == IF hits = {} THEN n ELSE Min(hits)
    IN  [kind |-> IF hits = {} THEN "timeout"
                  ELSE IF hitSL(forward[last]) THEN "sl" ELSE "tp",
         bars |-> IF hits = {} THEN 0 ELSE last,
         mfe  |-> Max({0} \cup {fav(forward[i]) : i \in 1..last}),
         mae  |-> Max({0} \cup {adv(forward[i]) : i \in 1..last})]

(* Seeded fault: a buyer is stopped by closes only. *)
walkBuyOnClose(d, forward) ==
    Walk(forward,
         LAMBDA c : c.close <= d.sl,
         LAMBDA c : c.high >= d.tp,
         LAMBDA c : c.high - d.entry,
         LAMBDA c : d.entry - c.low)

walkBuy(d, forward) ==
    Walk(forward,
         LAMBDA c : c.low <= d.sl,
         LAMBDA c : c.high >= d.tp,
         LAMBDA c : c.high - d.entry,
         LAMBDA c : d.entry - c.low)

walkSell(d, forward) ==
    Walk(forward,
         LAMBDA c : c.high >= d.sl,
         LAMBDA c : c.low <= d.tp,
         LAMBDA c : d.entry - c.low,
         LAMBDA c : c.high - d.entry)

resolveOutcome(d, forward) ==
    IF forward = << >> THEN OutcomeError
    ELSE IF d.action = "BUY" THEN walkBuy(d, forward)
    ELSE IF d.action = "SELL" THEN walkSell(d, forward)
    ELSE OutcomeError
=============================================================================
