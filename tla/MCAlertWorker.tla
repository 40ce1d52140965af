---------------------------- MODULE MCAlertWorker ----------------------------
(* Two chats; an event and the same event put off; a third in whose        *)
(* half-hour the blackout of the first is not over; a lesser one.          *)
EXTENDS AlertWorker, TLC

CONSTANTS c1, c2

MCChats == {c1, c2}
MCTime   == [cpi |-> 5, cpiLate |-> 7, nfp |-> 12, pmi |-> 10]
MCImpact == [cpi |-> "high", cpiLate |-> "high", nfp |-> "high", pmi |-> "medium"]
Symmetric == Permutations(MCChats)

=============================================================================
