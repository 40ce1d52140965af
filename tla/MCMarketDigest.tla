--------------------------- MODULE MCMarketDigest ---------------------------
(***************************************************************************)
(* MarketDigest over a few bar shapes.  Prices run from 1 to 27.           *)
(***************************************************************************)
EXTENDS MarketDigest

Shape(o, h, l, c) == [open |-> o, high |-> h, low |-> l, close |-> c]

(* A strong bar each way, a hammer and its mirror, a bar beyond the others *)
(* each way, far enough to leave a gap, and a wide bar, which is a swing   *)
(* high and a swing low at once among narrower ones.                       *)
Rise   == Shape(9, 19, 9, 19)
Fall   == Shape(19, 19, 9, 9)
Hammer == Shape(14, 16, 6, 15)
Star   == Shape(14, 22, 12, 13)
Above  == Shape(21, 26, 20, 25)
Below  == Shape(7, 8, 2, 3)
Wide   == Shape(9, 24, 4, 19)

MCShapes == {Rise, Fall, Hammer, Star, Above, Below, Wide}

Outside == <<Fall, Wide, Fall>>

(* Nothing yet, a swing high, a swing low that a Star opening next would   *)
(* leave a gap above, and a swing high and low at once.                    *)
MCHistories == {<< >>, <<Hammer, Rise, Hammer>>, <<Rise, Below, Fall>>, Outside}

Reading(atr, u, l) ==
    [atr |-> atr, bbUpper |-> u, bbLower |-> l, donchHigh |-> u, donchLow |-> l,
     roundAbove |-> 0, roundBelow |-> 0]

MCReadings == {Reading(10, 24, 5), Reading(4, 20, 9)}

(* The last one has its stop on the wrong side.                            *)
MCDecisions == {[action |-> "BUY", entry |-> 14, sl |-> 7, tp |-> 21],
                [action |-> "SELL", entry |-> 13, sl |-> 20, tp |-> 7],
                [action |-> "BUY", entry |-> 9, sl |-> 11, tp |-> 20]}

(* Bars and regimes are independent: the regimes move only before the      *)
(* second bar opens, and under one first bar.  Wide bars are explored      *)
(* after a wide one, without hammers, and for one bar less.                *)
OneAtATime ==
    /\ \/ summary = [tf \in TFs |-> Absent]
       \/ bars = <<Bar(1, CHOOSE s \in Openings : TRUE)>> /\ reading.atr = 10
    /\ LET shapes == {[open |-> b.open, high |-> b.high, low |-> b.low, close |-> b.close] :
                        b \in {bars[i] : i \in DOMAIN bars}}
       IN  \/ Wide \notin shapes
           \/ /\ bars[1] = Past(Outside)[1]
              /\ {Hammer, Star} \cap shapes = {} /\ bars[Len(bars)].time < MaxBars
=============================================================================
