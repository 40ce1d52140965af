------------------------------ MODULE Decision -------------------------------
(***************************************************************************)
(* biz/decision_parser.go: from the payload an LLM puts into its decision  *)
(* block to the card the user is shown.  Prices are integers, lots and     *)
(* profits are fractions.  A free-form field is a spelling; Canonical says *)
(* what trimming and upper-casing make of it.                              *)
(***************************************************************************)
EXTENDS Integers

CONSTANTS
  Canonical,   (* ToUpper(TrimSpace(spelling)) for the spellings explored  *)
  Risk         (* account * riskPct / 100 in USDT; 0 when sizing is off    *)

ASSUME DecisionAssumption ==
  Risk \in Nat /\ \A s \in DOMAIN Canonical : Canonical[s] \in STRING

Magnitude(x) == IF x < 0 THEN -x ELSE x
Fraction(n, d) == [num |-> n, den |-> d]
Whole(n) == Fraction(n, 1)
None == [action |-> "none"]

valid(p) ==
  /\ p.symbol # ""
  /\ Canonical[p.action] \in {"BUY", "SELL"}
  /\ p.entry > 0 /\ p.sl > 0 /\ p.tp > 0 /\ p.lot > 0

normalise(p) ==
  [p EXCEPT !.symbol = Canonical[@],
            !.action = Canonical[@],
            !.confidence = CASE Canonical[@] = "HIGH" -> "high"
                             [] Canonical[@] = "LOW" -> "low"
                             [] OTHER -> "med"]

(* The payload of the fence, when there is one and it is valid. *)
ExtractDecision(reply) ==
  IF reply = None \/ ~valid(reply) THEN None ELSE normalise(reply)

contractSizePerLot(symbol) ==
  IF Canonical[symbol] \in {"XAUUSD", "XAUUSDT"} THEN 100 ELSE 1

(* Seeded fault: a lot of gold is sized as an ounce. *)
sizeLotForRiskPerUnit(d) ==
  IF d.entry = d.sl THEN Whole(0)
  ELSE Fraction(Risk, Magnitude(d.entry - d.sl))

(* Of a valid decision: its prices are positive. *)
sizeLotForRisk(d) ==
  IF d.entry = d.sl THEN Whole(0)
  ELSE Fraction(Risk, Magnitude(d.entry - d.sl) * contractSizePerLot(d.symbol))

estimatedPnLUSDT(d, exit, lot) ==
  LET diff == IF d.action = "BUY" THEN exit - d.entry ELSE d.entry - exit
  IN Fraction(diff * lot.num * contractSizePerLot(d.symbol), lot.den)

(* |tp| / |sl|, and 0 when nothing is at risk. *)
riskRewardRatio(tp, sl) ==
  IF sl.num = 0 THEN Whole(0)
  ELSE Fraction(Magnitude(tp.num) * sl.den, Magnitude(sl.num) * tp.den)

(* What FormatAdvisorReplyForUser computes for the card. *)
TradeCard(d) ==
  LET sized == sizeLotForRisk(d)
      lot   == IF Risk > 0 /\ sized.num > 0 THEN sized ELSE Whole(d.lot)
      tpPnL == estimatedPnLUSDT(d, d.tp, lot)
      slPnL == estimatedPnLUSDT(d, d.sl, lot)
  IN [decision |-> d, lot |-> lot, tpPnL |-> tpPnL, slPnL |-> slPnL,
      rr |-> riskRewardRatio(tpPnL, slPnL)]
=============================================================================
