--------------------------- MODULE WeekAheadProofs ---------------------------
(***************************************************************************)
(* The properties of WeekAhead for every table of legacy templates, length *)
(* of the windows and calendar.                                            *)
(***************************************************************************)
EXTENDS WeekAhead, WellFoundedInduction, TLAPS

\* A range of months that ends before it starts is the one that goes around
\* the year: _legacy_template_matches takes no month more and none less.
LEMMA MonthsWrap ==
  ASSUME NEW from \in Months, NEW to \in Months, NEW month \in Months
  PROVE  MonthMatches(from, to, month) <=> Within(from, to, month)
<1>1. CASE to < from
  BY <1>1, SMT DEF MonthMatches, Within, Months
<1>2. CASE ~(to < from)
  BY <1>2, SMT DEF MonthMatches, Within, Months
<1> QED BY <1>1, <1>2

\* Weekdays and months of a calendar are weekdays and months.
LEMMA CalendarType ==
  ASSUME TypeOK, NEW day \in Int
  PROVE  Weekday(day) \in 0..6 /\ Month(day) \in Months
<1>1. /\ calendar.weekday \in 0..6
      /\ calendar.month \in 1..12
      /\ calendar.turn \in Int
  BY DEF TypeOK, Months
<1>2. Weekday(day) \in 0..6
  BY <1>1, SMT DEF Weekday
<1>3. Month(day) \in Months
  BY <1>1, SMT DEF Month, Months
<1> QED BY <1>2, <1>3

\* The rows expected for a day are of that day, and the template's position
\* tells those of one slot apart.
LEMMA ExpectedOnDay ==
  ASSUME TypeOK, NEW day \in Int, NEW row \in ExpectedRows(day)
  PROVE  /\ row \in Rows
         /\ row.day = day
         /\ \A other \in ExpectedRows(day) : other.n = row.n => other = row
<1>1. CASE legacy = <<>>
  <2> DEFINE season == FromMonth(Month(day))
             template == BaselineTemplates[season]
  <2>1. season \in Seasons
    BY DEF FromMonth, Seasons
  <2>2. template.slot \in {Early, Six} /\ template.dur \in Nat \ {0}
    BY <2>1 DEF BaselineTemplates, Seasons
  <2>3. \A other \in ExpectedRows(day) :
          other = [day |-> day, slot |-> template.slot, dur |-> template.dur, n |-> 1]
    BY <1>1 DEF ExpectedRows, DefaultRows
  <2> HIDE DEF template
  <2> QED BY <2>2, <2>3 DEF Rows
<1>2. CASE legacy # <<>>
  <2>1. legacy \in Seq(Templates)
    BY DEF TypeOK
  <2>2. \A other \in ExpectedRows(day) : \E i \in DOMAIN legacy :
          other = [day |-> day, slot |-> legacy[i].slot, dur |-> legacy[i].dur, n |-> i]
    BY <1>2 DEF ExpectedRows, LegacyRows
  <2>3. \A i \in DOMAIN legacy : i \in Nat /\ legacy[i] \in Templates
    BY <2>1
  <2>4. PICK i \in DOMAIN legacy :
          row = [day |-> day, slot |-> legacy[i].slot, dur |-> legacy[i].dur, n |-> i]
    BY <2>2
  <2>5. row \in Rows /\ row.day = day /\ row.n = i
    BY <2>3, <2>4 DEF Rows, Templates
  <2>6. ASSUME NEW other \in ExpectedRows(day), other.n = row.n PROVE other = row
    BY <2>2, <2>4, <2>5, <2>6
  <2> QED BY <2>5, <2>6
<1> QED BY <1>1, <1>2

\* A window is of days from today on, within the days the story may see.
LEMMA WindowDays ==
  ASSUME TypeOK, NEW day \in Window
  PROVE  day \in Nat /\ day \in 0..(LastDay + Lookahead)
BY LookaheadAssumption, CalendarAssumption, SMT DEF TypeOK, Window

\* Of the rows expected for the week, no two agree in slot and template.
LEMMA ExpectedRow ==
  ASSUME TypeOK, NEW row \in Expected
  PROVE  /\ row \in Rows
         /\ row.day \in Window
         /\ row \in ExpectedRows(row.day)
         /\ \A other \in Expected : Key(other) = Key(row) /\ other.n = row.n => other = row
<1>1. \A r \in Expected : r \in Rows /\ r.day \in Window /\ r \in ExpectedRows(r.day)
  <2> TAKE r \in Expected
  <2>1. PICK day \in Window : r \in ExpectedRows(day)
    BY DEF Expected
  <2> QED BY <2>1, WindowDays, ExpectedOnDay
<1>2. ASSUME NEW other \in Expected, Key(other) = Key(row), other.n = row.n
      PROVE  other = row
  <2>1. other.day = row.day
    BY <1>2 DEF Key
  <2> QED BY <1>1, <1>2, <2>1, WindowDays, ExpectedOnDay
<1> QED BY <1>1, <1>2

\* The history script's copy of the templates is the documented table too.
LEMMA PastAsDocumented ==
  ASSUME NEW weekday \in 0..6, NEW month \in Months
  PROVE  /\ PastTemplate(weekday, month) = Documented(weekday, month)
         /\ \A t, u \in PastTemplate(weekday, month) : t = u
         /\ \A t \in PastTemplate(weekday, month) : t.slot \in {Early, Six} /\ t.dur \in Nat \ {0}
<1>1. CASE month \in {3, 4}
  BY <1>1 DEF PastTemplate, Documented
<1>2. CASE month \in 5..9
  BY <1>2 DEF PastTemplate, Documented
<1>3. CASE month \in {10, 11}
  BY <1>3 DEF PastTemplate, Documented
<1>4. CASE month \in {12, 1, 2}
  BY <1>4 DEF PastTemplate, Documented
<1> QED BY <1>1, <1>2, <1>3, <1>4 DEF Months

\* The rows of the days gone by are documented, and one to a slot.
LEMMA PastRow ==
  ASSUME TypeOK, NEW row \in PastRows
  PROVE  /\ row \in Rows
         /\ DocumentedOn(row.day) = {[slot |-> row.slot, dur |-> row.dur]}
         /\ \A other \in PastRows : Key(other) = Key(row) => other = row
<1>1. ASSUME NEW r \in PastRows
      PROVE  /\ r.day \in Int
             /\ \E t \in PastTemplate(Weekday(r.day), Month(r.day)) :
                  r = [day |-> r.day, slot |-> t.slot, dur |-> t.dur, n |-> 1]
  <2>1. PICK day \in HistoryWindow : \E t \in PastTemplate(Weekday(day), Month(day)) :
               r = [day |-> day, slot |-> t.slot, dur |-> t.dur, n |-> 1]
    BY DEF PastRows
  <2>2. day \in Int
    BY DEF HistoryWindow
  <2> QED BY <2>1, <2>2
<1>2. row.day \in Int
  BY <1>1
<1> DEFINE templates == PastTemplate(Weekday(row.day), Month(row.day))
<1>3. PICK t \in templates : row = [day |-> row.day, slot |-> t.slot, dur |-> t.dur, n |-> 1]
  BY <1>1
<1>4. /\ templates = DocumentedOn(row.day)
      /\ \A u, v \in templates : u = v
      /\ \A u \in templates : u.slot \in {Early, Six} /\ u.dur \in Nat \ {0}
  BY <1>2, CalendarType, PastAsDocumented DEF DocumentedOn
<1>5. t = [slot |-> row.slot, dur |-> row.dur]
  <2>1. t \in Documented(Weekday(row.day), Month(row.day))
    BY <1>3, <1>4 DEF DocumentedOn
  <2>2. t = [slot |-> t.slot, dur |-> t.dur]
    BY <2>1 DEF Documented
  <2> QED BY <1>3, <2>2
<1>6. ASSUME NEW other \in PastRows, Key(other) = Key(row) PROVE other = row
  <2>1. other.day = row.day
    BY <1>6 DEF Key
  <2>2. PICK u \in templates : other = [day |-> row.day, slot |-> u.slot, dur |-> u.dur, n |-> 1]
    BY <1>1, <2>1
  <2> QED BY <1>3, <1>4, <2>2
<1> HIDE DEF templates
<1>7. row \in Rows
  BY <1>2, <1>3, <1>4 DEF Rows
<1>8. DocumentedOn(row.day) = {t}
  BY <1>3, <1>4
<1> QED BY <1>5, <1>6, <1>7, <1>8

-----------------------------------------------------------------------------
(* Types.                                                                    *)

LEMMA InitType == Init => TypeOK
<1> SUFFICES ASSUME Init PROVE TypeOK
  OBVIOUS
<1>1. calendar \in [weekday : 0..6, month : Months, turn : Int]
  BY LookaheadAssumption, ScriptAssumption, CalendarAssumption DEF Init
<1>2. legacy \in Seq(Templates)
  BY LegacyAssumption DEF Init
<1>3. today \in 0..LastDay /\ changes \in 0..MaxChanges
  BY CalendarAssumption, ChangesAssumption DEF Init
<1> QED BY <1>1, <1>2, <1>3, Zenon DEF Init, TypeOK

LEMMA BootstrapType == TypeOK /\ Bootstrap => TypeOK'
<1> SUFFICES ASSUME TypeOK, Bootstrap PROVE TypeOK'
  OBVIOUS
<1>1. Expected \subseteq Rows
  BY ExpectedRow
<1>2. original' \subseteq Rows /\ current' \subseteq Rows
  BY <1>1 DEF TypeOK, Bootstrap, NewOriginals, NewCurrents
<1>3. seeded' \in BOOLEAN
  BY Zenon DEF Bootstrap
<1> QED BY <1>2, <1>3, Zenon DEF TypeOK, Bootstrap

LEMMA FillType == TypeOK /\ FillHistory => TypeOK'
<1> SUFFICES ASSUME TypeOK, FillHistory PROVE TypeOK'
  OBVIOUS
<1>1. PastRows \subseteq Rows
  BY PastRow
<1>2. original' \subseteq Rows /\ current' \subseteq Rows
  BY <1>1 DEF TypeOK, FillHistory, NewPastOriginals, NewPastCurrents
<1>3. filled' \in BOOLEAN
  BY Zenon DEF FillHistory
<1> QED BY <1>2, <1>3, Zenon DEF TypeOK, FillHistory

LEMMA ChangeType ==
  ASSUME TypeOK,
         \/ \E row \in current : Withdraw(row)
         \/ \E day \in SaveDays, slot \in {Early, Six}, dur \in SaveDurations :
              Save(day, slot, dur)
  PROVE  TypeOK'
<1>1. ASSUME NEW row \in current, Withdraw(row) PROVE TypeOK'
  <2>1. changes' \in 0..MaxChanges
    BY <1>1, ChangesAssumption DEF TypeOK, Withdraw
  <2>2. current' \subseteq Rows /\ seeded' \in BOOLEAN /\ filled' \in BOOLEAN
    BY <1>1 DEF TypeOK, Withdraw
  <2> QED BY <1>1, <2>1, <2>2, Zenon DEF TypeOK, Withdraw
<1>2. ASSUME NEW day \in SaveDays, NEW slot \in {Early, Six}, NEW dur \in SaveDurations,
             Save(day, slot, dur)
      PROVE  TypeOK'
  <2>1. changes' \in 0..MaxChanges
    BY <1>2, ChangesAssumption DEF TypeOK, Save
  <2>2. [day |-> day, slot |-> slot, dur |-> dur, n |-> 0] \in Rows
    BY SaveAssumption DEF Rows
  <2>3. current' \subseteq Rows
    BY <1>2, <2>2 DEF TypeOK, Save
  <2> QED BY <1>2, <2>1, <2>3, Zenon DEF TypeOK, Save
<1> QED BY <1>1, <1>2

LEMMA TypeStep == TypeOK /\ [Next]_vars => TypeOK'
<1> SUFFICES ASSUME TypeOK, [Next]_vars PROVE TypeOK'
  OBVIOUS
<1>1. CASE Bootstrap
  BY <1>1, BootstrapType
<1>2. CASE NextDay
  <2>1. today' \in 0..LastDay
    BY <1>2, CalendarAssumption DEF NextDay, TypeOK
  <2> QED BY <1>2, <2>1, Zenon DEF NextDay, TypeOK
<1>3. CASE \/ \E row \in current : Withdraw(row)
           \/ \E day \in SaveDays, slot \in {Early, Six}, dur \in SaveDurations :
                Save(day, slot, dur)
  BY <1>3, ChangeType
<1>4. ASSUME NEW row \in original, Retire(row) PROVE TypeOK'
  <2>1. changes' \in 0..MaxChanges
    BY <1>4, ChangesAssumption DEF Retire, TypeOK
  <2>2. Key(row) \in Int \X {Early, Six}
    BY <1>4 DEF TypeOK, Rows, Key
  <2>3. retired' \subseteq Int \X {Early, Six}
    BY <1>4, <2>2 DEF Retire, TypeOK
  <2> QED BY <1>4, <2>1, <2>3, Zenon DEF Retire, TypeOK
<1>5. CASE UNCHANGED vars
  BY <1>5, Zenon DEF vars, TypeOK
<1>6. CASE FillHistory
  BY <1>6, FillType
<1> QED BY <1>1, <1>2, <1>3, <1>4, <1>5, <1>6 DEF Next

\* Whatever the templates, seeding writes rows of days from today on, of
\* positive durations and of the two start times.
THEOREM TypeCorrect == Spec => []TypeOK
BY InitType, TypeStep, PTL DEF Spec

-----------------------------------------------------------------------------
(* One row in a slot.                                                        *)

\* A bootstrap adds originals to slots without one only, and one to each.
LEMMA OriginalStep == TypeOK /\ OneOriginal /\ [Next]_vars => OneOriginal'
<1> SUFFICES ASSUME TypeOK, OneOriginal, [Next]_vars PROVE OneOriginal'
  OBVIOUS
<1>1. CASE Bootstrap
  <2> SUFFICES ASSUME NEW r1 \in original', NEW r2 \in original', Key(r1) = Key(r2)
               PROVE  r1 = r2
    BY DEF OneOriginal, Distinct, Key
  <2>1. original' = original \union NewOriginals
    BY <1>1 DEF Bootstrap
  <2>2. CASE r1 \in NewOriginals /\ r2 \in NewOriginals
    <3>1. r1 \in Expected /\ r2 \in Expected /\ r1.n <= r2.n /\ r2.n <= r1.n
      BY <2>2 DEF NewOriginals
    <3>2. r1.n \in Nat /\ r2.n \in Nat
      BY <3>1, ExpectedRow DEF Rows
    <3>3. r1.n = r2.n
      BY <3>1, <3>2
    <3> QED BY <3>1, <3>3, ExpectedRow
  <2>3. CASE r1 \in original /\ r2 \in original
    BY <2>3 DEF OneOriginal, Distinct
  <2>4. CASE (r1 \in NewOriginals /\ r2 \in original) \/ (r1 \in original /\ r2 \in NewOriginals)
    BY <2>4 DEF NewOriginals, Keys
  <2> QED BY <2>1, <2>2, <2>3, <2>4
<1>2. CASE UNCHANGED original
  BY <1>2 DEF OneOriginal, Distinct, Key
<1>3. ASSUME NEW row \in original, Retire(row) PROVE OneOriginal'
  BY <1>3 DEF Retire, OneOriginal, Distinct, Key
<1>4. CASE FillHistory
  <2> SUFFICES ASSUME NEW r1 \in original', NEW r2 \in original', Key(r1) = Key(r2)
               PROVE  r1 = r2
    BY DEF OneOriginal, Distinct, Key
  <2>1. original' = original \union NewPastOriginals
    BY <1>4 DEF FillHistory
  <2>2. CASE r1 \in NewPastOriginals /\ r2 \in NewPastOriginals
    BY <2>2, PastRow DEF NewPastOriginals
  <2>3. CASE r1 \in original /\ r2 \in original
    BY <2>3 DEF OneOriginal, Distinct
  <2>4. CASE \/ r1 \in NewPastOriginals /\ r2 \in original
             \/ r1 \in original /\ r2 \in NewPastOriginals
    BY <2>4 DEF NewPastOriginals, Keys
  <2> QED BY <2>1, <2>2, <2>3, <2>4
<1> QED BY <1>1, <1>2, <1>3, <1>4 DEF Next, vars, NextDay, Withdraw, Save

\* One active original row in a slot, for any templates and any number of bootstraps.
THEOREM OriginalHolds == Spec => []OneOriginal
<1>1. Init => OneOriginal
  BY DEF Init, OneOriginal, Distinct
<1> QED BY <1>1, InitType, TypeStep, OriginalStep, PTL DEF Spec

\* The templates and the calendar do not change.
LEMMA TemplatesStay == [Next]_vars => UNCHANGED <<calendar, legacy>>
BY DEF Next, vars, Bootstrap, FillHistory, NextDay, Withdraw, Save, Retire

LEMMA VisibleStep == TypeOK /\ OneVisible /\ [Next]_vars => OneVisible'
<1> SUFFICES ASSUME TypeOK, OneVisible, [Next]_vars, TemplatesDistinct' PROVE Distinct(current')
  BY DEF OneVisible, Distinct, Key
<1>1. TemplatesDistinct
  BY TemplatesStay DEF TemplatesDistinct, Distinct, Key, ExpectedRows, DefaultRows,
     LegacyRows, LegacyMatches, Weekday, Month
<1>2. Distinct(current)
  BY <1>1 DEF OneVisible
<1>3. CASE Bootstrap
  <2> SUFFICES ASSUME NEW r1 \in current', NEW r2 \in current', Key(r1) = Key(r2)
               PROVE  r1 = r2
    BY DEF Distinct
  <2>1. current' = current \union NewCurrents
    BY <1>3 DEF Bootstrap
  <2>2. CASE r1 \in NewCurrents /\ r2 \in NewCurrents
    <3>1. r1 \in Expected /\ r2 \in Expected
      BY <2>2 DEF NewCurrents
    <3>2. r1.day = r2.day /\ r1.day \in 0..(LastDay + Lookahead)
      BY <3>1, ExpectedRow, WindowDays DEF Key
    <3>3. r1 \in ExpectedRows(r1.day) /\ r2 \in ExpectedRows(r1.day)
      BY <3>1, <3>2, ExpectedRow
    <3> QED BY <1>1, <3>2, <3>3 DEF TemplatesDistinct, Distinct
  <2>3. CASE r1 \in current /\ r2 \in current
    BY <1>2, <2>3 DEF Distinct
  <2>4. CASE (r1 \in NewCurrents /\ r2 \in current) \/ (r1 \in current /\ r2 \in NewCurrents)
    BY <2>4 DEF NewCurrents, Keys
  <2> QED BY <2>1, <2>2, <2>3, <2>4
<1>4. ASSUME NEW day, NEW slot, NEW dur, Save(day, slot, dur) PROVE Distinct(current')
  <2> DEFINE new == [day |-> day, slot |-> slot, dur |-> dur, n |-> 0]
  <2>1. current' = {other \in current : Key(other) # <<day, slot>>} \union {new}
    BY <1>4 DEF Save
  <2>2. Key(new) = <<day, slot>>
    BY DEF Key
  <2> HIDE DEF new
  <2> QED BY <1>2, <2>1, <2>2 DEF Distinct
<1>5. ASSUME NEW row \in current, Withdraw(row) PROVE Distinct(current')
  BY <1>2, <1>5 DEF Withdraw, Distinct
<1>6. CASE UNCHANGED current
  BY <1>2, <1>6 DEF Distinct
<1>7. CASE FillHistory
  <2> SUFFICES ASSUME NEW r1 \in current', NEW r2 \in current', Key(r1) = Key(r2)
               PROVE  r1 = r2
    BY DEF Distinct
  <2>1. current' = current \union NewPastCurrents
    BY <1>7 DEF FillHistory
  <2>2. CASE r1 \in NewPastCurrents /\ r2 \in NewPastCurrents
    BY <2>2, PastRow DEF NewPastCurrents
  <2>3. CASE r1 \in current /\ r2 \in current
    BY <1>2, <2>3 DEF Distinct
  <2>4. CASE \/ r1 \in NewPastCurrents /\ r2 \in current
             \/ r1 \in current /\ r2 \in NewPastCurrents
    BY <2>4 DEF NewPastCurrents, Keys
  <2> QED BY <2>1, <2>2, <2>3, <2>4
<1> QED BY <1>3, <1>4, <1>5, <1>6, <1>7 DEF Next, vars, NextDay, Retire

\* If no two templates share a slot, no two visible rows ever do.
THEOREM VisibleHolds == Spec => []OneVisible
<1>1. Init => OneVisible
  BY DEF Init, OneVisible, Distinct
<1> QED BY <1>1, InitType, TypeStep, VisibleStep, PTL DEF Spec

-----------------------------------------------------------------------------
(* What is seeded.                                                           *)

\* The season's template is the documented table of each of its months.
LEMMA DefaultsAsDocumented ==
  ASSUME TypeOK, NEW day \in Int, legacy = <<>>
  PROVE  /\ \A row \in ExpectedRows(day) :
               DocumentedOn(day) = {[slot |-> row.slot, dur |-> row.dur]}
         /\ \A d \in DocumentedOn(day) : \E row \in ExpectedRows(day) : row.slot = d.slot
<1> DEFINE month == Month(day)
           weekday == Weekday(day)
           template == BaselineTemplates[FromMonth(month)]
           plan == [slot |-> template.slot, dur |-> template.dur]
           documented == Documented(weekday, month)
<1>1. ExpectedRows(day) =
        {[day |-> day, slot |-> template.slot, dur |-> template.dur, n |-> 1] :
           w \in template.weekdays \cap {weekday}}
  BY DEF ExpectedRows, DefaultRows
<1>2. weekday \in 0..6 /\ month \in 1..12
  BY CalendarType DEF Months
<1>3. documented = IF weekday \in template.weekdays THEN {plan} ELSE {}
  <2> HIDE DEF weekday, month
  <2>1. CASE month \in {3, 4}
    BY <1>2, <2>1 DEF FromMonth, BaselineTemplates, Seasons, Documented
  <2>2. CASE month \in 5..9
    BY <1>2, <2>2 DEF FromMonth, BaselineTemplates, Seasons, Documented
  <2>3. CASE month \in {10, 11}
    BY <1>2, <2>3 DEF FromMonth, BaselineTemplates, Seasons, Documented
  <2>4. CASE month \in {12, 1, 2}
    BY <1>2, <2>4 DEF FromMonth, BaselineTemplates, Seasons, Documented
  <2> QED BY <1>2, <2>1, <2>2, <2>3, <2>4
<1>4. DocumentedOn(day) = documented
  BY DEF DocumentedOn
<1> HIDE DEF template, weekday, month, documented
<1>5. ASSUME NEW row \in ExpectedRows(day)
      PROVE  weekday \in template.weekdays /\ row.slot = template.slot /\ row.dur = template.dur
  BY <1>1
<1>6. ASSUME weekday \in template.weekdays
      PROVE  \E row \in ExpectedRows(day) : row.slot = template.slot
  <2>1. [day |-> day, slot |-> template.slot, dur |-> template.dur, n |-> 1] \in ExpectedRows(day)
    BY <1>1, <1>6
  <2> QED BY <2>1
<1>7. ASSUME NEW row \in ExpectedRows(day)
      PROVE  DocumentedOn(day) = {[slot |-> row.slot, dur |-> row.dur]}
  BY <1>3, <1>4, <1>5
<1>8. ASSUME NEW d \in DocumentedOn(day)
      PROVE  \E row \in ExpectedRows(day) : row.slot = d.slot
  <2>1. weekday \in template.weekdays /\ d = plan
    BY <1>3, <1>4
  <2> QED BY <1>6, <2>1
<1> QED BY <1>7, <1>8

LEMMA DocumentedStep == TypeOK /\ OriginalsAsDocumented /\ [Next]_vars => OriginalsAsDocumented'
<1> SUFFICES ASSUME TypeOK, OriginalsAsDocumented, [Next]_vars, legacy' = <<>>,
                    NEW row \in original'
             PROVE  DocumentedOn(row.day)' = {[slot |-> row.slot, dur |-> row.dur]}
  BY DEF OriginalsAsDocumented, DocumentedOn, Weekday, Month
<1>1. legacy = <<>> /\ UNCHANGED calendar
  BY TemplatesStay
<1>2. DocumentedOn(row.day)' = DocumentedOn(row.day)
  BY <1>1 DEF DocumentedOn, Weekday, Month
<1>3. CASE row \in original
  BY <1>1, <1>2, <1>3 DEF OriginalsAsDocumented
<1>4. CASE row \in NewOriginals
  <2>1. row.day \in Nat /\ row \in ExpectedRows(row.day)
    BY <1>4, ExpectedRow, WindowDays DEF NewOriginals
  <2> QED BY <1>1, <1>2, <2>1, DefaultsAsDocumented
<1>5. CASE row \in NewPastOriginals
  BY <1>2, <1>5, PastRow DEF NewPastOriginals
<1> QED BY <1>3, <1>4, <1>5 DEF Next, vars, Bootstrap, FillHistory, NextDay, Withdraw, Save, Retire

\* The original rows of every date are its month's documented baseline, on
\* whichever day, before or after a turn of the month, they were seeded.
THEOREM DocumentedHolds == Spec => []OriginalsAsDocumented
<1>1. Init => OriginalsAsDocumented
  BY DEF Init, OriginalsAsDocumented
<1> QED BY <1>1, InitType, TypeStep, DocumentedStep, PTL DEF Spec

LEMMA DueIsExpected ==
  ASSUME TypeOK, NEW day \in Int, NEW slot \in DueOn(day)
  PROVE  \E row \in ExpectedRows(day) : row.slot = slot
<1>1. CASE legacy = <<>>
  <2>1. PICK d \in DocumentedOn(day) : slot = d.slot
    BY <1>1 DEF DueOn
  <2> QED BY <1>1, <2>1, DefaultsAsDocumented
<1>2. CASE legacy # <<>>
  <2>1. PICK i \in DOMAIN legacy :
          /\ slot = legacy[i].slot
          /\ legacy[i].weekday = Weekday(day)
          /\ Within(legacy[i].from, legacy[i].to, Month(day))
          /\ legacy[i].season \in {"all", FromMonth(Month(day))}
    BY <1>2 DEF DueOn
  <2>2. legacy[i] \in Templates
    BY <2>1 DEF TypeOK
  <2>3. legacy[i].from \in Months /\ legacy[i].to \in Months
    BY <2>2 DEF Templates
  <2>4. LegacyMatches(legacy[i], day)
    BY <2>1, <2>3, CalendarType, MonthsWrap DEF LegacyMatches
  <2>5. [day |-> day, slot |-> legacy[i].slot, dur |-> legacy[i].dur, n |-> i] \in ExpectedRows(day)
    BY <1>2, <2>1, <2>4 DEF ExpectedRows, LegacyRows
  <2> QED BY <2>1, <2>5
<1> QED BY <1>1, <1>2

LEMMA BootstrapWaters ==
  TypeOK /\ Bootstrap => \A day \in today..(today + Lookahead - 1) :
                            \A slot \in DueOn(day) : <<day, slot>> \in Keys(current')
<1> SUFFICES ASSUME TypeOK, Bootstrap, NEW day \in today..(today + Lookahead - 1),
                    NEW slot \in DueOn(day)
             PROVE  <<day, slot>> \in Keys(current')
  OBVIOUS
<1>1. day \in Window /\ day \in Nat
  BY LookaheadAssumption, CalendarAssumption, SMT DEF TypeOK, Window
<1>2. PICK row \in ExpectedRows(day) : row.slot = slot
  BY <1>1, DueIsExpected
<1>3. row \in Expected /\ Key(row) = <<day, slot>>
  BY <1>1, <1>2, ExpectedOnDay DEF Expected, Key
<1>4. current' = current \union NewCurrents
  BY DEF Bootstrap
<1>5. CASE Key(row) \in Keys(current)
  BY <1>3, <1>4, <1>5 DEF Keys
<1>6. CASE row \in NewCurrents
  BY <1>3, <1>4, <1>6 DEF Keys
<1> QED BY <1>3, <1>5, <1>6 DEF NewCurrents

\* A day's dues depend on the calendar and the templates only.
LEMMA DuesStay ==
  ASSUME UNCHANGED <<calendar, legacy>>
  PROVE  \A day : DueOn(day)' = DueOn(day)
BY DEF DueOn, DocumentedOn, Weekday, Month

\* A save leaves no slot without a row.
LEMMA SaveKeeps ==
  ASSUME NEW day, NEW slot, NEW dur, Save(day, slot, dur)
  PROVE  Keys(current) \subseteq Keys(current')
<1> DEFINE new == [day |-> day, slot |-> slot, dur |-> dur, n |-> 0]
<1>1. current' = {other \in current : Key(other) # <<day, slot>>} \union {new}
  BY DEF Save
<1>2. Key(new) = <<day, slot>>
  BY DEF Key
<1> HIDE DEF new
<1> QED BY <1>1, <1>2 DEF Keys

\* Only a bootstrap begins a watered week, and only a new day or a withdrawal
\* ends it: a saved slot has a row.
LEMMA WateredStep == TypeOK /\ WeekIsWatered /\ [Next]_vars => WeekIsWatered'
<1> SUFFICES ASSUME TypeOK, WeekIsWatered, [Next]_vars PROVE WeekIsWatered'
  OBVIOUS
<1> USE TemplatesStay, DuesStay
<1>1. CASE Bootstrap
  <2>1. today' = today
    BY <1>1 DEF Bootstrap
  <2>2. Keys(current)' = Keys(current')
    BY DEF Keys, Key
  <2> QED BY <1>1, <2>1, <2>2, BootstrapWaters DEF WeekIsWatered
<1>2. ASSUME UNCHANGED <<today, seeded>>, Keys(current) \subseteq Keys(current')
      PROVE  WeekIsWatered'
  <2>1. Keys(current)' = Keys(current')
    BY DEF Keys, Key
  <2> QED BY <1>2, <2>1 DEF WeekIsWatered
<1>3. ASSUME NEW day, NEW slot, NEW dur, Save(day, slot, dur) PROVE WeekIsWatered'
  BY <1>2, <1>3, SaveKeeps DEF Save
<1>4. CASE UNCHANGED <<today, seeded, current>>
  BY <1>2, <1>4
<1>5. CASE seeded' = FALSE
  BY <1>5 DEF WeekIsWatered
<1>6. CASE FillHistory
  <2>1. Keys(current) \subseteq Keys(current')
    BY <1>6 DEF FillHistory, Keys
  <2> QED BY <1>2, <1>6, <2>1 DEF FillHistory
<1> QED BY <1>1, <1>3, <1>4, <1>5, <1>6 DEF Next, vars, NextDay, Withdraw, Retire

\* From a bootstrap until the day ends or a row is withdrawn, every watering due
\* in the week ahead has a visible row, for every window, calendar and table of
\* templates.
THEOREM WeekHolds == Spec => []WeekIsWatered
<1>1. Init => WeekIsWatered
  BY DEF Init, WeekIsWatered
<1> QED BY <1>1, InitType, TypeStep, WateredStep, PTL DEF Spec

-----------------------------------------------------------------------------
(* The scripts.                                                              *)

LEMMA HistoryFills ==
  TypeOK /\ FillHistory => \A day \in (today - HistoryDays + 1)..today :
                              \A d \in DocumentedOn(day) : <<day, d.slot>> \in Keys(current')
<1> SUFFICES ASSUME TypeOK, FillHistory, NEW day \in (today - HistoryDays + 1)..today,
                    NEW d \in DocumentedOn(day)
             PROVE  <<day, d.slot>> \in Keys(current')
  OBVIOUS
<1> DEFINE row == [day |-> day, slot |-> d.slot, dur |-> d.dur, n |-> 1]
<1>1. day \in HistoryWindow /\ day \in Int
  BY DEF HistoryWindow
<1>2. d \in PastTemplate(Weekday(day), Month(day))
  BY <1>1, CalendarType, PastAsDocumented DEF DocumentedOn
<1>3. row \in PastRows
  BY <1>1, <1>2 DEF PastRows
<1>4. Key(row) = <<day, d.slot>>
  BY DEF Key
<1> HIDE DEF row
<1>5. current' = current \union NewPastCurrents
  BY DEF FillHistory
<1>6. CASE Key(row) \in Keys(current)
  BY <1>4, <1>5, <1>6 DEF Keys
<1>7. CASE row \in NewPastCurrents
  BY <1>4, <1>5, <1>7 DEF Keys
<1> QED BY <1>3, <1>6, <1>7 DEF NewPastCurrents

LEMMA FilledStep == TypeOK /\ HistoryIsFilled /\ [Next]_vars => HistoryIsFilled'
<1> SUFFICES ASSUME TypeOK, HistoryIsFilled, [Next]_vars PROVE HistoryIsFilled'
  OBVIOUS
<1>0. \A day : DocumentedOn(day)' = DocumentedOn(day)
  BY TemplatesStay DEF DocumentedOn, Weekday, Month
<1>1. CASE FillHistory
  <2>1. today' = today
    BY <1>1 DEF FillHistory
  <2>2. Keys(current)' = Keys(current')
    BY DEF Keys, Key
  <2> QED BY <1>0, <1>1, <2>1, <2>2, HistoryFills DEF HistoryIsFilled
<1>2. ASSUME UNCHANGED <<today, filled>>, Keys(current) \subseteq Keys(current')
      PROVE  HistoryIsFilled'
  <2>1. Keys(current)' = Keys(current')
    BY DEF Keys, Key
  <2> QED BY <1>0, <1>2, <2>1 DEF HistoryIsFilled
<1>3. ASSUME NEW day, NEW slot, NEW dur, Save(day, slot, dur) PROVE HistoryIsFilled'
  BY <1>2, <1>3, SaveKeeps DEF Save
<1>4. CASE Bootstrap
  <2>1. Keys(current) \subseteq Keys(current')
    BY <1>4 DEF Bootstrap, Keys
  <2> QED BY <1>2, <1>4, <2>1 DEF Bootstrap
<1>5. CASE UNCHANGED <<today, filled, current>>
  BY <1>2, <1>5
<1>6. CASE filled' = FALSE
  BY <1>6 DEF HistoryIsFilled
<1> QED BY <1>1, <1>3, <1>4, <1>5, <1>6 DEF Next, vars, NextDay, Withdraw, Retire

\* The history script leaves no documented watering of its days without a row,
\* and until a day begins or a row is withdrawn none is left without, for every
\* number of days and calendar.
THEOREM HistoryHolds == Spec => []HistoryIsFilled
<1>1. Init => HistoryIsFilled
  BY DEF Init, HistoryIsFilled
<1> QED BY <1>1, InitType, TypeStep, FilledStep, PTL DEF Spec

LEMMA FirstDay ==
  ASSUME NEW days \in SUBSET Nat, days # {}
  PROVE  \E day \in days : \A other \in days : day <= other
<1>1. PICK day \in days : \A other \in days : <<other, day>> \notin OpToRel(<, Nat)
  BY WFMin, NatLessThanWellFounded, Zenon
<1>2. \A other \in days : ~(other < day)
  BY <1>1, Zenon DEF OpToRel
<1> QED BY <1>2

\* The date the script picks is one it probes, and no later than any it probes that
\* has a row; if there is one, it has a row itself.
LEMMA TriggerFirst ==
  ASSUME TypeOK
  PROVE  /\ TriggerDate \in Probed
         /\ \A row \in current : row.day \in Probed =>
              TriggerDate <= row.day /\ \E first \in current : first.day = TriggerDate
<1> DEFINE scheduled == {day \in Probed : \E row \in current : row.day = day}
<1>1. today \in Nat /\ today \in Probed /\ Probed \subseteq Nat
  BY CalendarAssumption, ScriptAssumption DEF TypeOK, Probed
<1>2. TriggerDate = IF scheduled = {} THEN today
                    ELSE CHOOSE day \in scheduled : \A other \in scheduled : day <= other
  BY DEF TriggerDate
<1>3. CASE scheduled = {}
  BY <1>1, <1>2, <1>3
<1>4. CASE scheduled # {}
  <2>1. scheduled \in SUBSET Nat
    BY <1>1
  <2>2. \E day \in scheduled : \A other \in scheduled : day <= other
    <3> HIDE DEF scheduled
    <3> QED BY <1>4, <2>1, FirstDay
  <2>3. TriggerDate \in scheduled /\ \A other \in scheduled : TriggerDate <= other
    <3> HIDE DEF scheduled
    <3> QED BY <1>2, <1>4, <2>2
  <2> QED BY <2>3
<1> QED BY <1>3, <1>4

LEMMA TriggerFollows == TypeOK /\ WeekIsWatered => TriggerPicksNext
<1> SUFFICES ASSUME TypeOK, WeekIsWatered, seeded,
                    NEW day \in today..(today + Lookahead - 1), NEW slot \in DueOn(day)
             PROVE  /\ TriggerDate <= day
                    /\ day \in Probed => \E row \in current : row.day = TriggerDate
  BY Zenon DEF TriggerPicksNext
<1>1. <<day, slot>> \in Keys(current)
  BY DEF WeekIsWatered
<1>2. PICK row \in current : row.day = day
  BY <1>1 DEF Keys, Key
<1>3. CASE day \in Probed
  BY <1>2, <1>3, TriggerFirst
<1>4. CASE day \notin Probed
  <2>1. TriggerDate \in Probed
    BY TriggerFirst
  <2> QED BY <1>4, <2>1, LookaheadAssumption, ScriptAssumption, CalendarAssumption
          DEF Probed, TypeOK
<1> QED BY <1>3, <1>4

\* The trigger script runs past no watering of the week that is seeded, however
\* long the week and the probe, whatever is saved for whichever dates.
THEOREM TriggerHolds == Spec => []TriggerPicksNext
<1>1. Init => WeekIsWatered
  BY DEF Init, WeekIsWatered
<1> QED BY <1>1, InitType, TypeStep, WateredStep, TriggerFollows, PTL DEF Spec
==============================================================================
