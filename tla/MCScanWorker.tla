---------------------------- MODULE MCScanWorker -----------------------------
(* A small instance of ScanWorker for TLC.                                 *)
EXTENDS ScanWorker

CONSTANTS u1, u2

MCCanonical ==
  [s \in {"XAUUSDT", " btcusdt ", "BTCUSDT", "BUY", " sell", "SELL", "hold", "High", "sure"} |->
     CASE s = " btcusdt " -> "BTCUSDT"
       [] s = " sell"     -> "SELL"
       [] s = "hold"      -> "HOLD"
       [] s = "High"      -> "HIGH"
       [] s = "sure"      -> "SURE"
       [] OTHER           -> s]

Payload(symbol, action, entry, sl, tp, confidence) ==
  [symbol |-> symbol, action |-> action, entry |-> entry, sl |-> sl, tp |-> tp,
   lot |-> 3, confidence |-> confidence]

(* A buyer of gold, a seller of bitcoin spelled loosely, a stop on the     *)
(* wrong side, a stop at the entry, and two blocks that are not valid.     *)
MCPayloads ==
  { Payload("XAUUSDT",   "BUY",   20, 17, 26, "High"),
    Payload(" btcusdt ", " sell", 20, 24, 13, "sure"),
    Payload("XAUUSDT",   "BUY",   20, 22, 25, "sure"),
    Payload("XAUUSDT",   " sell", 20, 20, 15, "sure"),
    Payload("XAUUSDT",   "hold",  20, 17, 26, "sure"),
    Payload("",          "BUY",   20, 17, 26, "High") }

MCAllowlists == {NoList, {}, {u1, u2}}

(* The pruner and the scans only share the rows.  The rows in all their    *)
(* ages and the purges that fail are explored where the chats save them    *)
(* and there is nobody to scan for, the scans beside one row.              *)
OneAtATime ==
  created' > created \/ failures' > failures =>
    allowed = NoList \/ (pc = "save" /\ created = 0)
=============================================================================
