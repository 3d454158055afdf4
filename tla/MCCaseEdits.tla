----------------------------- MODULE MCCaseEdits -----------------------------
(* Small instances of CaseEdits: a calendar of a week in which a year      *)
(* turns and a summer begins, clocks started at midnight and late at       *)
(* night, before and after the new year.                                   *)
EXTENDS CaseEdits, TLC

MCStarts == {AtMidnight(1), AtMidnight(1) + 1, AtMidnight(4), AtMidnight(4) + 1}

MCCodeSets == {{}, {"R3"}, {"R4"}, {"R12"}, {"R3", "R12"}}

\* A year is two days, and three with day 3, its 29th of February.
MCYearBefore == [d \in 0..5 |-> IF d <= 3 THEN d - 2 ELSE d - 3]

Symmetry == Permutations(Tabs)
=============================================================================
