-------------------------- MODULE MCStatisticsImport --------------------------
(* Three hours of two quarter-hours; both channels. *)
EXTENDS StatisticsImport

Cells4(from, import, export) ==
    [i \in Intervals |->
        IF 2 * from <= i /\ i < 2 * (from + Len(import))
        THEN (IF i % 2 = 1 THEN import ELSE export)[(i \div 2) - from + 1]
        ELSE Absent]

\* The first two hours; a day behind them with a gap; an old correction; the
\* newest hour retracted; a day without a valid value.
FirstDay == [cells |-> Cells4(0, <<1, 1, 1, 1>>, <<0, 1, 1, 1>>), dayEnd |-> 4]
NextDay == [cells |-> Cells4(2, <<2, 1, 1, 1>>, <<1, 1, 1, Missing>>), dayEnd |-> 6]
OldCorrection == [cells |-> Cells4(0, <<2, 1>>, <<0, 1>>), dayEnd |-> 6]
Retracted == [cells |-> Cells4(2, <<Missing, 1>>, <<1, Invalid>>), dayEnd |-> 6]
Emptied == [cells |-> Cells4(0, <<Missing, Missing, Missing, Missing>>,
                                <<Missing, Invalid, Missing, Missing>>), dayEnd |-> 4]

MCCollections == {FirstDay, NextDay, OldCorrection, Retracted, Emptied}
=============================================================================
