----------------------------- MODULE MCWeekAhead -----------------------------
(* Instances of WeekAhead for TLC.                                           *)
EXTENDS WeekAhead

Legacy(weekday, season, from, to, slot) ==
  [weekday |-> weekday, season |-> season, from |-> from, to |-> to, slot |-> slot, dur |-> 20]

\* No templates; Mondays from October over the turn of the year to March, in
\* winter and at another time in any season; and two templates that share
\* the Mondays of a winter.
Tables ==
  { <<>>,
    <<Legacy(0, "winter", 10, 3, Six), Legacy(0, "all", 10, 3, Early)>>,
    <<Legacy(0, "winter", 12, 2, Six), Legacy(0, "all", 1, 12, Six)>> }

\* Rows are saved for the first day, which the story leaves behind, and for a day
\* past its week, which a later week takes in.
FirstAndNinth == {0, 8}
==============================================================================
