----------------------------- MODULE MCCalendar -----------------------------
(* A scanner, one more reader and the poller over a feed of three          *)
(* snapshots: empty, one event, and that event moved.                      *)
EXTENDS Calendar

MCReaders  == {"scanner", "chat"}
MCSchedule == [v \in 0 .. 2 |-> CASE v = 0 -> {} [] v = 1 -> {8} [] v = 2 -> {9}]

=============================================================================
