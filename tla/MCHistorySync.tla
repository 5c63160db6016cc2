----------------------------- MODULE MCHistorySync -----------------------------
(* HistorySync on a week of days: a history start two chunks before, one     *)
(* inside and one after the days first collected.                            *)
EXTENDS HistorySync

MCNoDay == -1
=============================================================================
