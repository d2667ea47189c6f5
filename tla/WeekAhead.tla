------------------------------ MODULE WeekAhead ------------------------------
(***************************************************************************)
(* What the bootstrap seeds (bootstrap.py, _ensure_week_ahead_baselines):  *)
(* for every day of the week ahead, the rows of the legacy weekday         *)
(* templates if the device has any, else those of the season, unless the   *)
(* slot has a row.  DailyAdjustment looks at one date under concurrency;   *)
(* this module looks at the calendar as days go by, one bootstrap at a     *)
(* time (they serialize on the views).  Two scripts work on the same rows: *)
(* create_baseline_last30d.py fills in the days gone by, from a copy of    *)
(* the season's templates, and trigger_daily_adjustment.py picks the date  *)
(* to adjust.                                                              *)
(*                                                                         *)
(* Days are numbered from the first day of the story.  The windows are     *)
(* shorter than a month, so the story sees one turn of the month at most.  *)
(***************************************************************************)
EXTENDS Integers, Sequences, FiniteSets

CONSTANTS
  Lookahead,    \* BASELINE_LOOKAHEAD_DAYS
  HistoryDays,  \* BASELINE_HISTORY_DAYS of the history script
  ProbeDays,    \* RUN_DATE_LOOKAHEAD_DAYS of the trigger script
  Early,        \* 05:30
  Six,          \* 06:00
  FirstMonths,  \* months the story may begin in
  LegacyTables, \* contents the baseline_schedule table may have
  SaveDays,     \* dates a row is saved for: those of runs, and any date posted
  SaveDurations, \* minutes saved
  LastDay,      \* bound: last day of the story
  MaxChanges    \* bound: rows withdrawn, saved or retired

Months == 1..12
Seasons == {"spring", "summer", "fall", "winter"}

\* A row of the legacy table.
Templates == [weekday : 0..6, season : Seasons \union {"all"}, from : Months,
              to : Months, slot : {Early, Six}, dur : Nat \ {0}]

ASSUME LookaheadAssumption == Lookahead \in Nat
ASSUME ScriptAssumption == HistoryDays \in Nat \ {0} /\ ProbeDays \in Nat
ASSUME SlotAssumption == Early # Six
ASSUME CalendarAssumption == FirstMonths \subseteq Months /\ LastDay \in Nat
ASSUME SaveAssumption == SaveDays \subseteq Int /\ SaveDurations \subseteq Nat \ {0}
ASSUME ChangesAssumption == MaxChanges \in Nat
ASSUME LegacyAssumption == LegacyTables \subseteq Seq(Templates)

VARIABLES
  calendar, \* the first day's weekday, the month the story begins in, and the
            \*   day it turns
  legacy,   \* active rows of baseline_schedule; empty if there is no table
  today,
  original, \* active rows of original_baseline_schedule
  retired,  \* <<day, slot>> of its inactive rows
  current,  \* visible rows of current_baseline_schedule
  changes,  \* rows withdrawn, saved or retired so far
  seeded,   \* history: no day began and no row was withdrawn since a bootstrap
  filled    \* history: nor since the history script

vars == <<calendar, legacy, today, original, retired, current, changes, seeded, filled>>

-----------------------------------------------------------------------------
Weekday(day) == (calendar.weekday + day) % 7
Month(day) == IF day < calendar.turn THEN calendar.month ELSE (calendar.month % 12) + 1

FromMonth(month) ==
  CASE month \in {3, 4} -> "spring"
    [] month \in 5..9   -> "summer"
    [] month \in {10, 11} -> "fall"
    [] OTHER -> "winter"

BaselineTemplates ==
  [season \in Seasons |->
     CASE season = "spring" -> [weekdays |-> {0, 2, 4}, slot |-> Six, dur |-> 15]
       [] season = "summer" -> [weekdays |-> {0, 2, 4, 5}, slot |-> Early, dur |-> 25]
       [] season = "fall"   -> [weekdays |-> {0, 3}, slot |-> Six, dur |-> 15]
       [] season = "winter" -> [weekdays |-> {0, 3}, slot |-> Six, dur |-> 10]]

\* Mutant of MonthMatches: the turn of the year is forgotten.
MonthMatchesPlain(from, to, month) == from <= month /\ month <= to

\* A range of months, over the turn of the year if it ends before it starts.
MonthMatches(from, to, month) ==
  IF to < from THEN month >= from \/ month <= to ELSE from <= month /\ month <= to

LegacyMatches(template, day) ==
  /\ template.weekday = Weekday(day)
  /\ MonthMatches(template.from, template.to, Month(day))
  /\ template.season \in {"all", FromMonth(Month(day))}

\* Rows carry the position n of their template, which tells apart the rows
\* two templates make for one slot; 0 if no template made them.
Rows == [day : Int, slot : {Early, Six}, dur : Nat \ {0}, n : Nat]
Key(row) == <<row.day, row.slot>>
Keys(rows) == {Key(row) : row \in rows}

\* Mutant of DefaultRows: the season is that of the day of the bootstrap.
DefaultRowsToday(day) ==
  LET template == BaselineTemplates[FromMonth(Month(today))]
  IN {[day |-> day, slot |-> template.slot, dur |-> template.dur, n |-> 1] :
        weekday \in template.weekdays \cap {Weekday(day)}}

DefaultRows(day) ==
  LET template == BaselineTemplates[FromMonth(Month(day))]
  IN {[day |-> day, slot |-> template.slot, dur |-> template.dur, n |-> 1] :
        weekday \in template.weekdays \cap {Weekday(day)}}

LegacyRows(day) ==
  {[day |-> day, slot |-> legacy[i].slot, dur |-> legacy[i].dur, n |-> i] :
     i \in {j \in DOMAIN legacy : LegacyMatches(legacy[j], day)}}

ExpectedRows(day) == IF legacy = <<>> THEN DefaultRows(day) ELSE LegacyRows(day)

\* At least today, however short the window.
Window == today..(today + (IF Lookahead > 1 THEN Lookahead - 1 ELSE 0))
Expected == UNION {ExpectedRows(day) : day \in Window}

\* Mutant of NewOriginals: the loop does not remember what it added.
NewOriginalsForgotten == {row \in Expected : Key(row) \notin Keys(original)}

\* Mutant of NewCurrents: whole rows are compared, not their slots.
NewCurrentsByRow == Expected \ current

\* The loop remembers an original it adds, so the first template of a slot
\* makes it; it does not remember a current row.
NewOriginals ==
  {row \in Expected :
     /\ Key(row) \notin Keys(original)
     /\ \A other \in Expected : Key(other) = Key(row) => row.n <= other.n}
NewCurrents == {row \in Expected : Key(row) \notin Keys(current)}

-----------------------------------------------------------------------------
(* The scripts.                                                              *)

\* Mutant of PastTemplate: a day without a watering gets a row of no minutes.
PastTemplateZero(weekday, month) ==
  IF month \in 5..9
    THEN {[slot |-> Early, dur |-> IF weekday \in {0, 2, 4, 5} THEN 25 ELSE 0]}
    ELSE {[slot |-> Six, dur |-> IF weekday \in {0, 3} THEN 15 ELSE 0]}

\* _template_for_day, the history script's copy of the season's templates; it
\* knows nothing of legacy ones.
PastTemplate(weekday, month) ==
  CASE month \in {3, 4} /\ weekday \in {0, 2, 4}   -> {[slot |-> Six, dur |-> 15]}
    [] month \in 5..9 /\ weekday \in {0, 2, 4, 5}  -> {[slot |-> Early, dur |-> 25]}
    [] month \in {10, 11} /\ weekday \in {0, 3}     -> {[slot |-> Six, dur |-> 15]}
    [] month \in {12, 1, 2} /\ weekday \in {0, 3}   -> {[slot |-> Six, dur |-> 10]}
    [] OTHER -> {}

\* Mutant of HistoryWindow: it ends yesterday.
HistoryWindowShort == (today - HistoryDays + 1)..(today - 1)

\* Today is the last of the days.
HistoryWindow == (today - HistoryDays + 1)..today

PastRows ==
  UNION {{[day |-> day, slot |-> t.slot, dur |-> t.dur, n |-> 1] :
            t \in PastTemplate(Weekday(day), Month(day))} : day \in HistoryWindow}

\* An original row of the slot is looked up whether it is active or not, so a
\* retired one is not made again; a current row must be visible to count.
NewPastOriginals == {row \in PastRows : Key(row) \notin Keys(original) \union retired}
NewPastCurrents == {row \in PastRows : Key(row) \notin Keys(current)}

\* Mutant of TriggerDate: tomorrow is the first day probed.
TriggerDateTomorrow ==
  LET scheduled == {day \in (today + 1)..(today + ProbeDays) :
                      \E row \in current : row.day = day}
  IN  IF scheduled = {} THEN today
      ELSE CHOOSE day \in scheduled : \A other \in scheduled : day <= other

\* At least today, however short the probe.
Probed == today..(today + (IF ProbeDays > 1 THEN ProbeDays - 1 ELSE 0))

\* The date the trigger script adjusts when it is given none: the first day from
\* today that has a visible row, or today.  It bootstraps before it looks.
TriggerDate ==
  LET scheduled == {day \in Probed : \E row \in current : row.day = day}
  IN  IF scheduled = {} THEN today
      ELSE CHOOSE day \in scheduled : \A other \in scheduled : day <= other

-----------------------------------------------------------------------------
TypeOK ==
  /\ calendar \in [weekday : 0..6, month : Months, turn : Int]
  /\ legacy \in Seq(Templates)
  /\ today \in 0..LastDay
  /\ original \subseteq Rows
  /\ retired \subseteq Int \X {Early, Six}
  /\ current \subseteq Rows
  /\ changes \in 0..MaxChanges
  /\ seeded \in BOOLEAN
  /\ filled \in BOOLEAN

Init ==
  /\ calendar \in [weekday : 0..6, month : FirstMonths, turn : (2 - HistoryDays)..(LastDay + Lookahead)]
  /\ legacy \in LegacyTables
  /\ today = 0
  /\ original = {}
  /\ retired = {}
  /\ current = {}
  /\ changes = 0
  /\ seeded = FALSE
  /\ filled = FALSE

\* A task or the API starts.
Bootstrap ==
  /\ original' = original \union NewOriginals
  /\ current' = current \union NewCurrents
  /\ seeded' = TRUE
  /\ UNCHANGED <<calendar, legacy, today, retired, changes, filled>>

\* The history script runs, in one transaction; a bootstrap precedes it.  Unlike
\* the bootstrap its loop holds no lock against other sessions, of which none
\* comes in between here.
FillHistory ==
  /\ seeded
  /\ original' = original \union NewPastOriginals
  /\ current' = current \union NewPastCurrents
  /\ filled' = TRUE
  /\ UNCHANGED <<calendar, legacy, today, retired, changes, seeded>>

NextDay ==
  /\ today < LastDay
  /\ today' = today + 1
  /\ seeded' = FALSE
  /\ filled' = FALSE
  /\ UNCHANGED <<calendar, legacy, original, retired, current, changes>>

\* A skip or an operator takes a row out of sight.
Withdraw(row) ==
  /\ changes < MaxChanges
  /\ changes' = changes + 1
  /\ current' = current \ {row}
  /\ seeded' = FALSE
  /\ filled' = FALSE
  /\ UNCHANGED <<calendar, legacy, today, original, retired>>

\* A run or a POST saves a row for a slot of any date, seeded or not, and
\* supersedes the visible rows the slot may have.
Save(day, slot, dur) ==
  /\ changes < MaxChanges
  /\ changes' = changes + 1
  /\ current' = {row \in current : Key(row) # <<day, slot>>}
                  \union {[day |-> day, slot |-> slot, dur |-> dur, n |-> 0]}
  /\ UNCHANGED <<calendar, legacy, today, original, retired, seeded, filled>>

\* The API deletes an original row.
Retire(row) ==
  /\ changes < MaxChanges
  /\ changes' = changes + 1
  /\ original' = original \ {row}
  /\ retired' = retired \union {Key(row)}
  /\ UNCHANGED <<calendar, legacy, today, current, seeded, filled>>

Next ==
  \/ Bootstrap
  \/ FillHistory
  \/ NextDay
  \/ \E row \in original : Retire(row)
  \/ \E row \in current : Withdraw(row)
  \/ \E day \in SaveDays, slot \in {Early, Six}, dur \in SaveDurations : Save(day, slot, dur)

Spec == Init /\ [][Next]_vars

-----------------------------------------------------------------------------
(* Properties.                                                               *)

\* The tables of docs/BASELINE_SCHEDULE_ALABAMA.md, section 4: what is watered
\* on a weekday of a month.
Documented(weekday, month) ==
  { d \in {[slot |-> Early, dur |-> 25], [slot |-> Six, dur |-> 15], [slot |-> Six, dur |-> 10]} :
      \/ d.dur = 25 /\ month \in 5..9 /\ weekday \in {0, 2, 4, 5}
      \/ d.dur = 15 /\ month \in 3..4 /\ weekday \in {0, 2, 4}
      \/ d.dur = 15 /\ month \in 10..11 /\ weekday \in {0, 3}
      \/ d.dur = 10 /\ month \in {12, 1, 2} /\ weekday \in {0, 3} }

DocumentedOn(day) == Documented(Weekday(day), Month(day))

\* A legacy template is due in the months one passes walking from its first to
\* its last month around the year.
Within(from, to, month) == (month - from) % 12 <= (to - from) % 12

DueOn(day) ==
  IF legacy = <<>>
    THEN {d.slot : d \in DocumentedOn(day)}
    ELSE {legacy[i].slot : i \in {j \in DOMAIN legacy :
            /\ legacy[j].weekday = Weekday(day)
            /\ Within(legacy[j].from, legacy[j].to, Month(day))
            /\ legacy[j].season \in {"all", FromMonth(Month(day))}}}

\* The original rows of a device without legacy templates are the documented
\* baseline of each date's own month, whichever day the date was seeded on and
\* by whichever of the two copies of the templates, and never of two seasons
\* on one date.
OriginalsAsDocumented ==
  legacy = <<>> =>
    \A row \in original : DocumentedOn(row.day) = {[slot |-> row.slot, dur |-> row.dur]}

\* From a bootstrap until the day ends, every watering due in the week ahead,
\* today included, has a visible row unless one is withdrawn: across a turn of
\* the month or the year, whatever was withdrawn or saved before, and whichever
\* original rows the API deletes or rows are saved after.
WeekIsWatered ==
  seeded => \A day \in today..(today + Lookahead - 1) :
              \A slot \in DueOn(day) : <<day, slot>> \in Keys(current)

\* After the history script the days gone by are watered as documented, also
\* across a turn of the month, whatever was retired or saved; days on which
\* the story had not begun included.
HistoryIsFilled ==
  filled => \A day \in (today - HistoryDays + 1)..today :
              \A d \in DocumentedOn(day) : <<day, d.slot>> \in Keys(current)

\* The trigger script runs past no watering of the seeded week: after a bootstrap,
\* and until a row is withdrawn, the date it picks is not later than a day of the
\* week on which something is due, and is one with a visible row if such a day is
\* probed, whatever is posted for dates with or without rows.  (Past the week it
\* does: a row posted there comes before days that are due and not seeded yet.)
TriggerPicksNext ==
  seeded => \A day \in today..(today + Lookahead - 1) : DueOn(day) # {} =>
              /\ TriggerDate <= day
              /\ day \in Probed => \E row \in current : row.day = TriggerDate

Distinct(rows) == \A r1, r2 \in rows : Key(r1) = Key(r2) => r1 = r2

\* However often the bootstrap runs, and whatever happens to the rows it made,
\* a slot has one active original row: "Preserve the seeded or imported baseline
\* plan" (docs/DATABASE_SCHEMA.md).
OneOriginal == Distinct(original)

\* No two legacy templates make rows for one slot.
TemplatesDistinct == \A day \in 0..(LastDay + Lookahead) : Distinct(ExpectedRows(day))

\* If no two templates share a slot of a date, seeding never leaves a slot with
\* two visible rows, beside a saved row least of all.
OneVisible == TemplatesDistinct => Distinct(current)
==============================================================================
