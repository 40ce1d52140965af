----------------------------- MODULE MCBacktest ------------------------------
(* A small instance of Backtest for TLC: two samples that fall together or *)
(* apart as the clock moves on between the runs.                           *)
EXTENDS Backtest

CONSTANTS deepseek, claude

MCWindow  == 2000
MCOffsets == <<3, 0>>
MCNows    == {2000, 2002}
=============================================================================
