-------------------------- MODULE WeatherStoreProofs --------------------------
(***************************************************************************)
(* The properties of WeatherStore for any number of sessions and pulls,    *)
(* any length of the story, of a day, of the forecast and of the history.  *)
(***************************************************************************)
EXTENDS WeatherStore, TLAPS

\* No day ends before it begins.
LEMMA DayPasses ==
  ASSUME NEW hour \in Nat
  PROVE  DayOf(hour) \in Nat /\ DayOf(hour) <= DayOf(hour + 1)
<1> DEFINE q == hour \div DayHours
           next == (hour + 1) \div DayHours
<1>1. DayHours \in Nat /\ DayHours > 0
  BY TimeAssumption
<1>2. q \in Int /\ DayHours * q <= hour /\ hour < DayHours * q + DayHours
  BY <1>1, SMT
<1>3. next \in Int /\ DayHours * next <= hour + 1 /\ hour + 1 < DayHours * next + DayHours
  BY <1>1, SMT
<1> HIDE DEF q, next
<1>4. q >= 0
  BY <1>1, <1>2, SMT
<1>5. q <= next
  BY <1>1, <1>2, <1>3, SMT
<1> QED BY <1>2, <1>4, <1>5 DEF DayOf, q, next

-----------------------------------------------------------------------------
(* Steps.                                                                    *)

SessionStep(s) ==
  \/ s \in Workers /\ (StartRun(s) \/ RunPull(s))
  \/ s \in Requests /\ RequestPull(s)
  \/ s \in Backfills /\ HistoryPull(s)
  \/ Step(s)

\* A session with a pull in hand.
Active(s) == phase[s] \notin {"idle", "started"}

LEMMA NextSteps ==
  [Next]_vars => Tick \/ UNCHANGED vars \/ \E s \in Sessions : SessionStep(s)
BY DEF Next, SessionStep, Sessions, Refreshers

\* What a refresher asks for begins today.
LEMMA ForecastDays ==
  ASSUME TypeOK, NEW days \in Nat, NEW hour \in ForecastHours(days)
  PROVE  hour \in Nat /\ DayOf(hour) >= Today
<1>1. hour \in Nat /\ DayOf(hour) \in Today..(Today + days - 1)
  BY DEF ForecastHours, HoursOf
<1>2. Today \in Nat
  BY DayPasses, TimeAssumption DEF TypeOK, Today
<1> QED BY <1>1, <1>2

\* What a pull brings.
LEMMA PullStep ==
  ASSUME TypeOK, NEW s \in Sessions,
         \/ s \in Workers /\ RunPull(s)
         \/ s \in Requests /\ RequestPull(s)
         \/ s \in Backfills /\ HistoryPull(s)
  PROVE  /\ phase[s] \in {"idle", "started"} /\ phase'[s] = "fetched"
         /\ overtaken'[s] = FALSE
         /\ pulls' = pulls + 1 /\ pulls' \in 1..MaxPulls
         /\ \E hours \in SUBSET Nat, observed \in BOOLEAN, asOf \in FirstHour..LastHour :
              /\ Pull(s, hours, observed, asOf)
              /\ job'[s] = [pull |-> pulls + 1, hours |-> hours,
                            observed |-> observed, asOf |-> asOf]
              /\ observed <=> s \in Backfills
              /\ s \in Refreshers => \A hour \in hours : DayOf(hour) >= Today
              /\ s \in Backfills => \A hour \in hours : DayOf(hour) < Today
<1>1. /\ phase \in [Sessions -> Phases] /\ overtaken \in [Sessions -> BOOLEAN]
      /\ job \in [Sessions -> [pull : 0..MaxPulls, hours : SUBSET Nat,
                               observed : BOOLEAN, asOf : FirstHour..LastHour]]
      /\ pulls \in 0..MaxPulls /\ clock \in FirstHour..LastHour
  BY DEF TypeOK
<1>2. ASSUME NEW hours, NEW observed, NEW asOf, Pull(s, hours, observed, asOf)
      PROVE  /\ phase'[s] = "fetched" /\ overtaken'[s] = FALSE
             /\ pulls' = pulls + 1 /\ pulls' \in 1..MaxPulls
             /\ job'[s] = [pull |-> pulls + 1, hours |-> hours,
                           observed |-> observed, asOf |-> asOf]
  BY <1>1, <1>2, PullAssumption DEF Pull, Goto
<1>3. CASE s \in Workers /\ RunPull(s)
  <2>1. PICK hours \in {ForecastHours(MaxDays), {}} : Pull(s, hours, FALSE, job[s].asOf)
    BY <1>3 DEF RunPull
  <2>2. hours \subseteq Nat /\ \A hour \in hours : DayOf(hour) >= Today
    BY <2>1, ForecastDays, TimeAssumption
  <2>3. s \in Refreshers /\ s \notin Backfills /\ job[s].asOf \in FirstHour..LastHour
    BY <1>1, <1>3, SessionAssumption DEF Refreshers
  <2>4. /\ phase'[s] = "fetched" /\ overtaken'[s] = FALSE
        /\ pulls' = pulls + 1 /\ pulls' \in 1..MaxPulls
        /\ job'[s] = [pull |-> pulls + 1, hours |-> hours,
                      observed |-> FALSE, asOf |-> job[s].asOf]
    BY <1>1, <2>1, PullAssumption DEF Pull, Goto
  <2>5. phase[s] = "started" /\ s \notin Backfills
    BY <1>3, <2>3 DEF RunPull
  <2> QED BY <2>1, <2>2, <2>3, <2>4, <2>5
<1>4. CASE s \in Requests /\ RequestPull(s)
  <2>1. PICK days \in 1..MaxDays : Pull(s, ForecastHours(days), FALSE, clock)
    BY <1>4 DEF RequestPull
  <2>2. ForecastHours(days) \subseteq Nat /\ \A hour \in ForecastHours(days) : DayOf(hour) >= Today
    BY <2>1, ForecastDays, TimeAssumption
  <2>3. s \in Refreshers /\ s \notin Backfills
    BY <1>4, SessionAssumption DEF Refreshers
  <2>4. /\ phase'[s] = "fetched" /\ overtaken'[s] = FALSE
        /\ pulls' = pulls + 1 /\ pulls' \in 1..MaxPulls
        /\ job'[s] = [pull |-> pulls + 1, hours |-> ForecastHours(days),
                      observed |-> FALSE, asOf |-> clock]
    BY <1>2, <2>1, Zenon
  <2>5. phase[s] = "idle"
    BY <1>4 DEF RequestPull
  <2> QED BY <1>1, <2>1, <2>2, <2>3, <2>4, <2>5
<1>5. CASE s \in Backfills /\ HistoryPull(s)
  <2> DEFINE hours == HoursOf((Today - HistoryDays)..(Today - 1))
  <2>1. hours \subseteq Nat
    BY DEF HoursOf
  <2>2. Today \in Nat
    BY <1>1, DayPasses, TimeAssumption DEF Today
  <2>3. ASSUME NEW hour \in hours PROVE DayOf(hour) < Today
    <3>1. DayOf(hour) \in (Today - HistoryDays)..(Today - 1)
      BY DEF HoursOf
    <3> QED BY <2>2, <3>1, TimeAssumption
  <2>4. s \notin Refreshers
    BY <1>5, SessionAssumption
  <2>5. Pull(s, hours, TRUE, clock) /\ phase[s] = "idle"
    BY <1>5 DEF HistoryPull
  <2> HIDE DEF hours
  <2>6. /\ phase'[s] = "fetched" /\ overtaken'[s] = FALSE
        /\ pulls' = pulls + 1 /\ pulls' \in 1..MaxPulls
        /\ job'[s] = [pull |-> pulls + 1, hours |-> hours,
                      observed |-> TRUE, asOf |-> clock]
    BY <1>1, <2>5, PullAssumption DEF Pull, Goto
  <2> QED BY <1>1, <1>5, <2>1, <2>3, <2>4, <2>5, <2>6
<1> QED BY <1>3, <1>4, <1>5

\* What a session has in hand after a pull.
LEMMA PullBrings ==
  ASSUME TypeOK, NEW s \in Sessions,
         \/ s \in Workers /\ RunPull(s)
         \/ s \in Requests /\ RequestPull(s)
         \/ s \in Backfills /\ HistoryPull(s)
  PROVE  /\ job'[s].pull \in 1..MaxPulls
         /\ job'[s].observed <=> s \in Backfills
         /\ s \in Refreshers => \A hour \in job'[s].hours : DayOf(hour) >= Today
         /\ s \in Backfills => \A hour \in job'[s].hours : DayOf(hour) < Today
<1>1. pulls' = pulls + 1 /\ pulls' \in 1..MaxPulls
  BY PullStep
<1>2. PICK hours \in SUBSET Nat, observed \in BOOLEAN, asOf \in FirstHour..LastHour :
        /\ job'[s] = [pull |-> pulls + 1, hours |-> hours, observed |-> observed, asOf |-> asOf]
        /\ observed <=> s \in Backfills
        /\ s \in Refreshers => \A hour \in hours : DayOf(hour) >= Today
        /\ s \in Backfills => \A hour \in hours : DayOf(hour) < Today
  BY PullStep
<1>3. job'[s].pull = pulls' /\ job'[s].observed = observed /\ job'[s].hours = hours
  BY <1>1, <1>2
<1> QED BY <1>1, <1>2, <1>3

\* A session's step leaves the others' work alone; a commit that writes
\* overtakes them.
LEMMA Bystander ==
  ASSUME TypeOK, NEW s \in Sessions, SessionStep(s), NEW t \in Sessions \ {s}
  PROVE  /\ phase'[t] = phase[t] /\ job'[t] = job[t]
         /\ target'[t] = target[t] /\ gone'[t] = gone[t] /\ put'[t] = put[t]
         /\ overtaken'[t] = (overtaken[t] \/ (Commit(s) /\ put[s] # {}))
<1>1. /\ phase \in [Sessions -> Phases] /\ overtaken \in [Sessions -> BOOLEAN]
      /\ job \in [Sessions -> [pull : 0..MaxPulls, hours : SUBSET Nat,
                               observed : BOOLEAN, asOf : FirstHour..LastHour]]
      /\ target \in [Sessions -> SUBSET Rows]
      /\ gone \in [Sessions -> SUBSET Rows] /\ put \in [Sessions -> SUBSET Rows]
  BY DEF TypeOK
<1>2. \A there : Goto(s, there) => phase'[t] = phase[t]
  BY <1>1 DEF Goto
<1>3. Rest(s) => /\ phase'[t] = phase[t] /\ job'[t] = job[t]
                 /\ target'[t] = target[t] /\ gone'[t] = gone[t] /\ put'[t] = put[t]
  BY <1>1 DEF Rest
<1>4. CASE Commit(s)
  BY <1>1, <1>3, <1>4 DEF Commit
<1>5. CASE Fail(s)
  <2>1. phase[s] # "idle" /\ Rest(s) /\ overtaken' = overtaken
    BY <1>5 DEF Fail
  <2>2. ~Commit(s) \/ put[s] = {} \/ overtaken'[t] = TRUE
    BY <1>1 DEF Commit
  <2> QED BY <1>1, <1>3, <2>1, <2>2
<1>6. ASSUME ~Commit(s), ~Fail(s)
      PROVE  /\ phase'[t] = phase[t] /\ job'[t] = job[t]
             /\ target'[t] = target[t] /\ gone'[t] = gone[t] /\ put'[t] = put[t]
             /\ overtaken'[t] = overtaken[t]
  <2>1. ASSUME NEW hours, NEW observed, NEW asOf, Pull(s, hours, observed, asOf)
        PROVE  /\ phase'[t] = phase[t] /\ job'[t] = job[t]
               /\ target'[t] = target[t] /\ gone'[t] = gone[t] /\ put'[t] = put[t]
               /\ overtaken'[t] = overtaken[t]
    BY <1>1, <1>2, <2>1 DEF Pull
  <2>2. CASE RunPull(s) \/ RequestPull(s) \/ HistoryPull(s)
    BY <2>1, <2>2 DEF RunPull, RequestPull, HistoryPull
  <2>3. CASE StartRun(s) \/ Locate(s) \/ AddLocation(s)
    BY <1>1, <1>2, <2>3 DEF StartRun, Locate, AddLocation
  <2>4. CASE Upsert(s)
    BY <1>1, <1>2, <2>4 DEF Upsert
  <2>5. CASE Delete(s) \/ Insert(s)
    BY <1>1, <1>2, <2>5 DEF Delete, Insert
  <2> QED BY <1>6, <2>2, <2>3, <2>4, <2>5 DEF SessionStep, Step
<1> QED BY <1>1, <1>4, <1>5, <1>6

-----------------------------------------------------------------------------
(* The inductive invariant.                                                  *)

\* What a session has done so far.
JobInv(s) ==
  /\ Active(s) => job[s].pull \in 1..MaxPulls /\ (job[s].observed <=> s \in Backfills)
  /\ phase[s] = "deleting" => s \in Refreshers
  /\ phase[s] \in {"deleting", "inserting"} => job[s].hours # {}
  /\ phase[s] \notin {"inserting", "written"} => gone[s] = {}
  /\ phase[s] # "written" => put[s] = {}
  /\ phase[s] = "written" => HourOf(put[s]) = job[s].hours
  /\ phase[s] = "written" /\ job[s].hours = {} => gone[s] = {}
  /\ \A row \in put[s] : row.pull = job[s].pull /\ row.observed = job[s].observed
  /\ \A r1, r2 \in put[s] : r1.hour = r2.hour => r1 = r2
  /\ \A row \in gone[s] : ~row.observed
  /\ s \in Backfills => gone[s] = {}

\* A refresher nobody overtook has found, and then deleted, every forecast of an
\* hour to come, and its hours are not observed.
FreshInv(s) ==
  s \in Refreshers /\ ~overtaken[s] =>
    /\ phase[s] = "deleting" => Stale \subseteq target[s]
    /\ phase[s] \in {"inserting", "written"} /\ job[s].hours # {} => Stale \subseteq gone[s]
    /\ Active(s) => \A row \in table : row.observed => row.hour \notin job[s].hours

\* Only days gone by are observed.
PastInv ==
  /\ \A row \in table : row.observed => DayOf(row.hour) < Today
  /\ \A b \in Backfills : Active(b) => \A hour \in job[b].hours : DayOf(hour) < Today

IInv ==
  /\ TypeOK
  /\ \A s \in Sessions : JobInv(s) /\ FreshInv(s)
  /\ PastInv
  /\ FutureIsLatest

\* Only a commit changes the table, and what it makes of it.
LEMMA TableStep ==
  ASSUME IInv, NEW s \in Sessions, SessionStep(s)
  PROVE  /\ clock' = clock
         /\ \/ table' = table /\ latest' = latest
            \/ Commit(s)
<1>1. CASE StartRun(s) \/ RunPull(s) \/ RequestPull(s) \/ HistoryPull(s)
  BY <1>1 DEF StartRun, RunPull, RequestPull, HistoryPull, Pull
<1>2. CASE Locate(s) \/ AddLocation(s) \/ Upsert(s)
  BY <1>2 DEF Locate, AddLocation, Upsert
<1>3. CASE Delete(s) \/ Insert(s) \/ Fail(s)
  BY <1>3 DEF Delete, Insert, Fail
<1>4. CASE Commit(s)
  BY <1>4 DEF Commit
<1> QED BY <1>1, <1>2, <1>3, <1>4 DEF SessionStep, Step

LEMMA CommitTable ==
  ASSUME IInv, NEW s \in Sessions, Commit(s)
  PROVE  /\ table' = {row \in table \ gone[s] : row.hour \notin job[s].hours} \union put[s]
         /\ put[s] = {} => table' = table
         /\ put[s] # {} => job[s].hours # {}
<1>1. JobInv(s) /\ phase[s] = "written" /\ table' = Applied(gone[s], put[s])
  BY DEF IInv, Commit
<1>2. HourOf(put[s]) = job[s].hours
  BY <1>1 DEF JobInv
<1>3. put[s] = {} <=> job[s].hours = {}
  BY <1>2 DEF HourOf
<1> QED BY <1>1, <1>2, <1>3 DEF JobInv, Applied

-----------------------------------------------------------------------------
(* Types.                                                                    *)

LEMMA RestType ==
  ASSUME TypeOK, NEW s \in Sessions, Rest(s)
  PROVE  /\ phase' \in [Sessions -> Phases]
         /\ job' \in [Sessions -> [pull : 0..MaxPulls, hours : SUBSET Nat,
                                  observed : BOOLEAN, asOf : FirstHour..LastHour]]
         /\ adds' \in [Sessions -> BOOLEAN]
         /\ target' \in [Sessions -> SUBSET Rows]
         /\ gone' \in [Sessions -> SUBSET Rows]
         /\ put' \in [Sessions -> SUBSET Rows]
<1>1. NoJob \in [pull : 0..MaxPulls, hours : SUBSET Nat,
                 observed : BOOLEAN, asOf : FirstHour..LastHour]
  BY TimeAssumption, PullAssumption DEF NoJob
<1> QED BY <1>1 DEF TypeOK, Rest, Phases

LEMMA WrittenRows ==
  ASSUME IInv, NEW s \in Sessions, Insert(s), NEW hour \in job[s].hours
  PROVE  /\ Written(s, hour) \in Rows
         /\ Written(s, hour).hour = hour
         /\ Written(s, hour).pull = job[s].pull
         /\ Written(s, hour).observed = job[s].observed
<1> DEFINE kept == {row \in table \ gone[s] : row.hour = hour}
           id == IF kept = {} THEN job[s].pull ELSE (CHOOSE row \in kept : TRUE).id
<1>1. job[s].pull \in 1..MaxPulls
  BY DEF IInv, JobInv, Insert, Active
<1>2. id \in 1..MaxPulls
  <2>1. ASSUME kept # {} PROVE (CHOOSE row \in kept : TRUE) \in Rows
    BY <2>1 DEF IInv, TypeOK
  <2> QED BY <1>1, <2>1 DEF Rows
<1>3. hour \in Nat /\ job[s].observed \in BOOLEAN
  BY DEF IInv, TypeOK
<1>4. Written(s, hour) = [hour |-> hour, pull |-> job[s].pull, observed |-> job[s].observed,
                          id |-> id]
  BY DEF Written
<1> HIDE DEF id
<1> QED BY <1>1, <1>2, <1>3, <1>4 DEF Rows

LEMMA TypeStep == IInv /\ [Next]_vars => TypeOK'
<1> SUFFICES ASSUME IInv, [Next]_vars PROVE TypeOK'
  OBVIOUS
<1>0. TypeOK
  BY DEF IInv
<1>1. CASE UNCHANGED vars
  BY <1>0, <1>1 DEF vars, sessionVars, TypeOK
<1>2. CASE Tick
  BY <1>0, <1>2, TimeAssumption DEF Tick, sessionVars, TypeOK
<1>3. ASSUME NEW s \in Sessions, SessionStep(s) PROVE TypeOK'
  <2>1. \A there \in Phases : Goto(s, there) => phase' \in [Sessions -> Phases]
    BY <1>0 DEF TypeOK, Goto
  <2>2. ASSUME NEW hours \in SUBSET Nat, NEW observed \in BOOLEAN, NEW asOf \in FirstHour..LastHour,
               Pull(s, hours, observed, asOf)
        PROVE  TypeOK'
    <3>1. pulls' \in 1..MaxPulls /\ pulls' = pulls + 1
      BY <1>0, <2>2, PullAssumption DEF Pull, TypeOK
    <3>2. phase' \in [Sessions -> Phases]
      BY <2>1, <2>2 DEF Pull, Phases
    <3>3. job' \in [Sessions -> [pull : 0..MaxPulls, hours : SUBSET Nat,
                                 observed : BOOLEAN, asOf : FirstHour..LastHour]]
      BY <1>0, <2>2, <3>1 DEF Pull, TypeOK
    <3>4. overtaken' \in [Sessions -> BOOLEAN] /\ pulls' \in 0..MaxPulls
      BY <1>0, <2>2, <3>1 DEF Pull, TypeOK
    <3> QED BY <1>0, <2>2, <3>2, <3>3, <3>4 DEF Pull, TypeOK
  <2>3. CASE \/ s \in Workers /\ RunPull(s)
             \/ s \in Requests /\ RequestPull(s)
             \/ s \in Backfills /\ HistoryPull(s)
    BY <1>0, <2>2, <2>3, PullStep
  <2>4. CASE StartRun(s)
    <3>1. phase' \in [Sessions -> Phases]
      BY <2>1, <2>4 DEF StartRun, Phases
    <3>2. job' \in [Sessions -> [pull : 0..MaxPulls, hours : SUBSET Nat,
                                 observed : BOOLEAN, asOf : FirstHour..LastHour]]
      <4>1. clock \in FirstHour..LastHour /\ job[s] \in [pull : 0..MaxPulls, hours : SUBSET Nat,
                                 observed : BOOLEAN, asOf : FirstHour..LastHour]
        BY <1>0 DEF TypeOK
      <4>2. [job[s] EXCEPT !.asOf = clock] \in [pull : 0..MaxPulls, hours : SUBSET Nat,
                                 observed : BOOLEAN, asOf : FirstHour..LastHour]
        BY <4>1
      <4>3. job' = [job EXCEPT ![s] = [job[s] EXCEPT !.asOf = clock]]
        BY <2>4 DEF StartRun
      <4> QED BY <1>0, <4>2, <4>3 DEF TypeOK
    <3> QED BY <1>0, <2>4, <3>1, <3>2 DEF StartRun, TypeOK
  <2>5. CASE Locate(s) \/ AddLocation(s)
    <3>1. phase' \in [Sessions -> Phases]
      BY <2>1, <2>5 DEF Locate, AddLocation, Phases
    <3>2. adds' \in [Sessions -> BOOLEAN]
      BY <1>0, <2>5 DEF Locate, AddLocation, TypeOK
    <3> QED BY <1>0, <2>5, <3>1, <3>2 DEF Locate, AddLocation, TypeOK
  <2>6. CASE Upsert(s)
    <3>1. phase' \in [Sessions -> Phases]
      BY <2>1, <2>6 DEF Upsert, Phases
    <3>2. target' \in [Sessions -> SUBSET Rows]
      BY <1>0, <2>6 DEF Upsert, TypeOK, Stale
    <3> QED BY <1>0, <2>6, <3>1, <3>2 DEF Upsert, TypeOK
  <2>7. CASE Delete(s)
    <3>1. phase' \in [Sessions -> Phases]
      BY <2>1, <2>7 DEF Delete, Phases
    <3>2. gone' \in [Sessions -> SUBSET Rows]
      BY <1>0, <2>7 DEF Delete, TypeOK, StillThere
    <3> QED BY <1>0, <2>7, <3>1, <3>2 DEF Delete, TypeOK
  <2>8. CASE Insert(s)
    <3>1. phase' \in [Sessions -> Phases]
      BY <2>1, <2>8 DEF Insert, Phases
    <3>2. {Written(s, hour) : hour \in job[s].hours} \subseteq Rows
      BY <2>8, WrittenRows
    <3>3. put' \in [Sessions -> SUBSET Rows]
      BY <1>0, <2>8, <3>2 DEF Insert, TypeOK
    <3> QED BY <1>0, <2>8, <3>1, <3>3 DEF Insert, TypeOK
  <2>9. CASE Fail(s)
    BY <1>0, <2>9, RestType DEF Fail, TypeOK
  <2>10. CASE Commit(s)
    <3>1. table' = {row \in table \ gone[s] : row.hour \notin job[s].hours} \union put[s]
      BY <2>10, CommitTable
    <3>2. /\ table \subseteq Rows /\ put[s] \subseteq Rows
          /\ \A r1, r2 \in table : r1.hour = r2.hour => r1 = r2
          /\ \A r1, r2 \in put[s] : r1.hour = r2.hour => r1 = r2
          /\ \A row \in put[s] : row.hour \in job[s].hours
      <4>1. HourOf(put[s]) = job[s].hours
        BY <2>10 DEF IInv, JobInv, Commit
      <4> QED BY <1>0, <4>1 DEF IInv, JobInv, TypeOK, HourOf
    <3>3. table' \subseteq Rows /\ \A r1, r2 \in table' : r1.hour = r2.hour => r1 = r2
      BY <3>1, <3>2
    <3>4. located' \in BOOLEAN /\ overtaken' \in [Sessions -> BOOLEAN]
      BY <1>0, <2>10, Zenon DEF Commit, TypeOK
    <3>5. latest' \in [pull : 0..MaxPulls, overtaken : BOOLEAN]
      BY <1>0, <2>10 DEF Commit, TypeOK
    <3>6. Rest(s) /\ clock' = clock /\ pulls' = pulls
      BY <2>10 DEF Commit
    <3> QED BY <1>0, <3>3, <3>4, <3>5, <3>6, RestType DEF TypeOK
  <2> QED BY <1>3, <2>3, <2>4, <2>5, <2>6, <2>7, <2>8, <2>9, <2>10 DEF SessionStep, Step
<1> QED BY <1>1, <1>2, <1>3, NextSteps

-----------------------------------------------------------------------------
(* The invariant holds.                                                      *)

LEMMA InitInv == Init => IInv
<1> SUFFICES ASSUME Init PROVE IInv
  OBVIOUS
<1>1. TypeOK
  <2>1. NoJob \in [pull : 0..MaxPulls, hours : SUBSET Nat,
                   observed : BOOLEAN, asOf : FirstHour..LastHour]
    BY TimeAssumption, PullAssumption DEF NoJob
  <2>2. job \in [Sessions -> [pull : 0..MaxPulls, hours : SUBSET Nat,
                             observed : BOOLEAN, asOf : FirstHour..LastHour]]
    BY <2>1 DEF Init
  <2>3. latest \in [pull : 0..MaxPulls, overtaken : BOOLEAN]
    BY PullAssumption DEF Init
  <2>4. /\ clock \in FirstHour..LastHour /\ pulls \in 0..MaxPulls /\ table = {}
        /\ phase \in [Sessions -> Phases]
    BY TimeAssumption, PullAssumption DEF Init, Phases
  <2>5. /\ located \in BOOLEAN
        /\ adds \in [Sessions -> BOOLEAN] /\ overtaken \in [Sessions -> BOOLEAN]
        /\ target \in [Sessions -> SUBSET Rows]
        /\ gone \in [Sessions -> SUBSET Rows] /\ put \in [Sessions -> SUBSET Rows]
    BY DEF Init
  <2> QED BY <2>2, <2>3, <2>4, <2>5 DEF TypeOK
<1>2. ASSUME NEW s \in Sessions PROVE JobInv(s) /\ FreshInv(s)
  BY <1>2 DEF Init, JobInv, FreshInv, Active
<1>3. PastInv
  BY DEF Init, PastInv, Active, Sessions
<1>4. FutureIsLatest
  BY DEF Init, FutureIsLatest, Stale
<1> QED BY <1>1, <1>2, <1>3, <1>4 DEF IInv

\* A session keeps what it pulled until it rests.
LEMMA WorkStep ==
  ASSUME IInv, NEW s \in Sessions, SessionStep(s)
  PROVE  \/ /\ \/ s \in Workers /\ RunPull(s)
               \/ s \in Requests /\ RequestPull(s)
               \/ s \in Backfills /\ HistoryPull(s)
         \/ phase'[s] \in {"idle", "started"} /\ gone'[s] = {} /\ put'[s] = {}
         \/ /\ Locate(s) \/ AddLocation(s) \/ Upsert(s) \/ Delete(s) \/ Insert(s)
            /\ Active(s) /\ job' = job /\ table' = table /\ overtaken' = overtaken
<1>1. /\ phase \in [Sessions -> Phases]
      /\ gone \in [Sessions -> SUBSET Rows] /\ put \in [Sessions -> SUBSET Rows]
  BY DEF IInv, TypeOK
<1>2. CASE StartRun(s)
  BY <1>1, <1>2 DEF StartRun, Goto, IInv, JobInv
<1>3. CASE Commit(s) \/ Fail(s)
  BY <1>1, <1>3 DEF Commit, Fail, Rest
<1>4. CASE Locate(s) \/ AddLocation(s) \/ Upsert(s) \/ Delete(s) \/ Insert(s)
  BY <1>4 DEF Locate, AddLocation, Upsert, Delete, Insert, Active
<1> QED BY <1>2, <1>3, <1>4 DEF SessionStep, Step

LEMMA JobStep ==
  ASSUME IInv, NEW s \in Sessions, SessionStep(s), NEW t \in Sessions
  PROVE  JobInv(t)'
<1>1. /\ phase \in [Sessions -> Phases]
      /\ gone \in [Sessions -> SUBSET Rows] /\ put \in [Sessions -> SUBSET Rows]
      /\ JobInv(t) /\ TypeOK
  BY DEF IInv, TypeOK
<1>2. CASE t # s
  <2>1. phase'[t] = phase[t] /\ job'[t] = job[t] /\ gone'[t] = gone[t] /\ put'[t] = put[t]
    BY <1>1, <1>2, Bystander
  <2> QED BY <1>1, <2>1 DEF JobInv, Active
<1>3. CASE t = s
  <2>1. CASE \/ s \in Workers /\ RunPull(s)
             \/ s \in Requests /\ RequestPull(s)
             \/ s \in Backfills /\ HistoryPull(s)
    <3>1. /\ phase[s] \in {"idle", "started"} /\ phase'[s] = "fetched"
          /\ job'[s].pull \in 1..MaxPulls /\ (job'[s].observed <=> s \in Backfills)
      BY <1>1, <2>1, PullStep, PullBrings
    <3>2. gone' = gone /\ put' = put
      BY <2>1 DEF RunPull, RequestPull, HistoryPull, Pull
    <3> QED BY <1>1, <1>3, <3>1, <3>2 DEF JobInv, Active
  <2>2. CASE phase'[s] \in {"idle", "started"} /\ gone'[s] = {} /\ put'[s] = {}
    BY <1>3, <2>2 DEF JobInv, Active
  <2>3. CASE (Locate(s) \/ AddLocation(s)) /\ Active(s)
    <3>1. /\ phase[s] \notin {"inserting", "written"}
          /\ phase'[s] \in {"upserting", "locating"}
          /\ gone' = gone /\ put' = put /\ job' = job
      BY <1>1, <2>3 DEF Locate, AddLocation, Goto
    <3> QED BY <1>1, <1>3, <2>3, <3>1 DEF JobInv, Active
  <2>4. CASE Upsert(s) /\ Active(s)
    <3>1. /\ phase[s] = "upserting" /\ gone' = gone /\ put' = put /\ job' = job
          /\ \/ phase'[s] = "written" /\ job[s].hours = {}
             \/ phase'[s] = "inserting" /\ job[s].hours # {}
             \/ phase'[s] = "deleting" /\ job[s].hours # {} /\ ~job[s].observed
      BY <1>1, <2>4 DEF Upsert, Goto
    <3>2. gone[s] = {} /\ put[s] = {} /\ (job[s].observed <=> s \in Backfills)
          /\ job[s].pull \in 1..MaxPulls
      BY <1>1, <1>3, <2>4, <3>1 DEF JobInv
    <3>3. HourOf({}) = {}
      BY DEF HourOf
    <3> QED BY <1>1, <1>3, <2>4, <3>1, <3>2, <3>3 DEF JobInv, Active, Sessions, Refreshers
  <2>5. CASE Delete(s) /\ Active(s)
    <3>1. /\ phase[s] = "deleting" /\ phase'[s] = "inserting" /\ put' = put /\ job' = job
          /\ gone'[s] = StillThere(target[s])
      BY <1>1, <2>5 DEF Delete, Goto
    <3>2. s \in Refreshers /\ s \notin Backfills
      BY <1>1, <1>3, <3>1, SessionAssumption DEF JobInv
    <3> QED BY <1>1, <1>3, <2>5, <3>1, <3>2 DEF JobInv, Active, StillThere
  <2>6. CASE Insert(s) /\ Active(s)
    <3>1. /\ phase[s] = "inserting" /\ phase'[s] = "written" /\ gone' = gone /\ job' = job
          /\ put'[s] = {Written(s, hour) : hour \in job[s].hours}
      BY <1>1, <2>6 DEF Insert, Goto
    <3>2. \A hour \in job[s].hours : /\ Written(s, hour).hour = hour
                                     /\ Written(s, hour).pull = job[s].pull
                                     /\ Written(s, hour).observed = job[s].observed
      BY <2>6, WrittenRows
    <3>3. HourOf(put'[s]) = job[s].hours
      BY <3>1, <3>2 DEF HourOf
    <3>4. \A row \in put'[s] : row.pull = job[s].pull /\ row.observed = job[s].observed
      BY <3>1, <3>2
    <3>5. \A r1, r2 \in put'[s] : r1.hour = r2.hour => r1 = r2
      BY <3>1, <3>2
    <3> QED BY <1>1, <1>3, <2>6, <3>1, <3>3, <3>4, <3>5 DEF JobInv, Active
  <2> QED BY <2>1, <2>2, <2>3, <2>4, <2>5, <2>6, WorkStep
<1> QED BY <1>2, <1>3

\* A step of a session leaves the forecasts to come of the others as they were,
\* or overtakes them.
LEMMA FreshStep ==
  ASSUME IInv, NEW s \in Sessions, SessionStep(s), NEW t \in Sessions
  PROVE  FreshInv(t)'
<1>1. /\ phase \in [Sessions -> Phases] /\ overtaken \in [Sessions -> BOOLEAN]
      /\ target \in [Sessions -> SUBSET Rows] /\ gone \in [Sessions -> SUBSET Rows]
      /\ table \subseteq Rows /\ clock \in FirstHour..LastHour
      /\ JobInv(t) /\ FreshInv(t) /\ TypeOK /\ clock' = clock
  BY TableStep DEF IInv, TypeOK
<1>2. table' = table => Stale' = Stale
  BY <1>1 DEF Stale
<1>3. CASE t # s
  <2>1. SUFFICES ASSUME t \in Refreshers, ~overtaken'[t] PROVE FreshInv(t)'
    BY DEF FreshInv
  <2>2. /\ phase'[t] = phase[t] /\ job'[t] = job[t]
        /\ target'[t] = target[t] /\ gone'[t] = gone[t]
        /\ ~overtaken[t] /\ ~(Commit(s) /\ put[s] # {})
    BY <1>1, <1>3, <2>1, Bystander
  <2>3. table' = table
    BY <2>2, TableStep, CommitTable
  <2> QED BY <1>1, <1>2, <2>1, <2>2, <2>3 DEF FreshInv, Active
<1>4. CASE t = s
  <2>1. CASE \/ s \in Workers /\ RunPull(s)
             \/ s \in Requests /\ RequestPull(s)
             \/ s \in Backfills /\ HistoryPull(s)
    <3>1. /\ phase'[s] = "fetched"
          /\ s \in Refreshers => \A hour \in job'[s].hours : DayOf(hour) >= Today
      BY <1>1, <2>1, PullStep, PullBrings
    <3>2. table' = table
      BY <2>1 DEF RunPull, RequestPull, HistoryPull, Pull
    <3>3. ASSUME NEW row \in table, row.observed, s \in Refreshers
          PROVE  row.hour \notin job'[s].hours
      <4>1. DayOf(row.hour) < Today
        BY <3>3 DEF IInv, PastInv
      <4>2. DayOf(row.hour) \in Nat /\ Today \in Nat
        BY <1>1, DayPasses, TimeAssumption DEF Rows, Today
      <4> QED BY <3>1, <3>3, <4>1, <4>2
    <3> QED BY <1>4, <3>1, <3>2, <3>3 DEF FreshInv, Active
  <2>2. CASE phase'[s] \in {"idle", "started"}
    BY <1>4, <2>2 DEF FreshInv, Active
  <2>3. ASSUME Active(s), job' = job, table' = table, overtaken' = overtaken
        PROVE  /\ Stale' = Stale
               /\ s \in Refreshers /\ ~overtaken'[s] =>
                    \A row \in table' : row.observed => row.hour \notin job'[s].hours
    BY <1>1, <1>2, <1>4, <2>3 DEF FreshInv
  <2>4. CASE Locate(s) \/ AddLocation(s)
    <3>1. phase'[s] \in {"upserting", "locating"} /\ Active(s)
          /\ job' = job /\ table' = table /\ overtaken' = overtaken
      BY <1>1, <2>4 DEF Locate, AddLocation, Goto, Active
    <3> QED BY <1>4, <2>3, <3>1 DEF FreshInv
  <2>5. CASE Upsert(s)
    <3>1. /\ Active(s) /\ job' = job /\ table' = table /\ overtaken' = overtaken
          /\ \/ phase'[s] = "written" /\ job[s].hours = {}
             \/ phase'[s] = "inserting" /\ job[s].observed
             \/ phase'[s] = "deleting" /\ target'[s] = Stale
      BY <1>1, <2>5 DEF Upsert, Goto, Active
    <3>2. job[s].observed => s \notin Refreshers
      BY <1>1, <1>4, <3>1, SessionAssumption DEF JobInv
    <3> QED BY <1>4, <2>3, <3>1, <3>2 DEF FreshInv
  <2>6. CASE Delete(s)
    <3>1. /\ phase[s] = "deleting" /\ phase'[s] = "inserting"
          /\ Active(s) /\ job' = job /\ table' = table /\ overtaken' = overtaken
          /\ gone'[s] = StillThere(target[s])
      BY <1>1, <2>6 DEF Delete, Goto, Active
    <3>2. s \in Refreshers /\ ~overtaken[s] => Stale \subseteq StillThere(target[s])
      <4>1. s \in Refreshers /\ ~overtaken[s] => Stale \subseteq target[s]
        BY <1>1, <1>4, <3>1 DEF FreshInv
      <4> QED BY <4>1 DEF Stale, StillThere
    <3> QED BY <1>4, <2>3, <3>1, <3>2 DEF FreshInv
  <2>7. CASE Insert(s)
    <3>1. /\ phase[s] = "inserting" /\ phase'[s] = "written" /\ gone' = gone
          /\ Active(s) /\ job' = job /\ table' = table /\ overtaken' = overtaken
      BY <1>1, <2>7 DEF Insert, Goto, Active
    <3> QED BY <1>1, <1>4, <2>3, <3>1 DEF FreshInv
  <2> QED BY <2>1, <2>2, <2>4, <2>5, <2>6, <2>7, WorkStep
<1> QED BY <1>3, <1>4

LEMMA PastStep ==
  ASSUME IInv, NEW s \in Sessions, SessionStep(s)
  PROVE  PastInv'
<1>1. TypeOK /\ PastInv /\ JobInv(s) /\ clock' = clock
  BY TableStep DEF IInv
<1>2. Today' = Today
  BY <1>1 DEF Today, DayOf
<1>3. ASSUME NEW row \in table', row.observed PROVE DayOf(row.hour) < Today'
  <2>1. CASE row \in table
    BY <1>1, <1>2, <1>3, <2>1 DEF PastInv
  <2>2. CASE row \notin table
    <3>1. Commit(s) /\ row \in put[s]
      BY <1>3, <2>2, TableStep, CommitTable
    <3>2. phase[s] = "written" /\ row.hour \in job[s].hours /\ job[s].observed
      BY <1>1, <1>3, <3>1 DEF JobInv, Commit, HourOf
    <3>3. s \in Backfills /\ Active(s)
      BY <1>1, <3>2 DEF JobInv, Active
    <3> QED BY <1>1, <1>2, <3>2, <3>3 DEF PastInv
  <2> QED BY <2>1, <2>2
<1>4. ASSUME NEW b \in Backfills, Active(b)', NEW hour \in job'[b].hours
      PROVE  DayOf(hour) < Today'
  <2>1. b \in Sessions /\ b \notin Refreshers
    BY SessionAssumption DEF Sessions
  <2>2. CASE b # s
    <3>1. phase'[b] = phase[b] /\ job'[b] = job[b]
      BY <1>1, <2>1, <2>2, Bystander
    <3> QED BY <1>1, <1>2, <1>4, <3>1 DEF PastInv, Active
  <2>3. CASE b = s
    <3>1. CASE \/ s \in Workers /\ RunPull(s)
               \/ s \in Requests /\ RequestPull(s)
               \/ s \in Backfills /\ HistoryPull(s)
      BY <1>1, <1>2, <1>4, <2>3, <3>1, PullBrings
    <3>2. CASE Active(s) /\ job' = job
      BY <1>1, <1>2, <1>4, <2>3, <3>2 DEF PastInv
    <3> QED BY <1>4, <2>3, <3>1, <3>2, WorkStep DEF Active
  <2> QED BY <2>2, <2>3
<1> QED BY <1>3, <1>4 DEF PastInv

LEMMA LatestStep ==
  ASSUME IInv, NEW s \in Sessions, SessionStep(s)
  PROVE  FutureIsLatest'
<1>1. FutureIsLatest /\ JobInv(s) /\ FreshInv(s) /\ TypeOK /\ clock' = clock
  BY TableStep DEF IInv
<1>2. CASE table' = table /\ latest' = latest
  BY <1>1, <1>2 DEF FutureIsLatest, Stale
<1>3. CASE Commit(s)
  <2>1. /\ phase[s] = "written" /\ Active(s)
        /\ latest' = IF put[s] = {} \/ job[s].observed THEN latest
                     ELSE [pull |-> job[s].pull, overtaken |-> overtaken[s]]
    BY <1>3 DEF Commit, Active
  <2>2. table' = {row \in table \ gone[s] : row.hour \notin job[s].hours} \union put[s]
    BY <1>3, CommitTable
  <2>3. CASE put[s] = {}
    BY <1>2, <1>3, <2>1, <2>3, CommitTable
  <2>4. CASE job[s].observed
    <3>1. Stale' \subseteq Stale
      BY <1>1, <2>2, <2>4 DEF Stale, JobInv
    <3> QED BY <1>1, <2>1, <2>4, <3>1 DEF FutureIsLatest
  <2>5. CASE put[s] # {} /\ ~job[s].observed
    <3>1. SUFFICES ASSUME ~overtaken[s], NEW row \in Stale' PROVE row.pull = job[s].pull
      BY <2>1, <2>5 DEF FutureIsLatest
    <3>2. s \in Refreshers
      BY <1>1, <2>1, <2>5 DEF JobInv, Sessions, Refreshers
    <3>3. Stale \subseteq gone[s]
      BY <1>1, <1>3, <2>1, <2>5, <3>1, <3>2, CommitTable DEF FreshInv
    <3>4. row \in put[s]
      BY <1>1, <2>2, <3>1, <3>3 DEF Stale
    <3> QED BY <1>1, <3>4 DEF JobInv
  <2> QED BY <2>3, <2>4, <2>5
<1> QED BY <1>2, <1>3, TableStep

\* The hour that begins takes rows from those to come, and no day back.
LEMMA TickStep ==
  ASSUME IInv, Tick
  PROVE  /\ \A s \in Sessions : JobInv(s)' /\ FreshInv(s)'
         /\ PastInv' /\ FutureIsLatest'
<1>1. /\ clock \in Nat /\ clock' = clock + 1 /\ table' = table /\ latest' = latest
      /\ phase' = phase /\ job' = job /\ target' = target /\ gone' = gone /\ put' = put
      /\ overtaken' = overtaken /\ table \subseteq Rows
  BY TimeAssumption DEF IInv, TypeOK, Tick, sessionVars
<1>2. Stale' \subseteq Stale
  BY <1>1 DEF Stale, Rows
<1>3. ASSUME NEW s \in Sessions PROVE JobInv(s)'
  <2>1. JobInv(s)
    BY DEF IInv
  <2> QED BY <1>1, <2>1 DEF JobInv, Active
<1>4. ASSUME NEW s \in Sessions PROVE FreshInv(s)'
  <2>1. FreshInv(s)
    BY DEF IInv
  <2> QED BY <1>1, <1>2, <2>1 DEF FreshInv, Active
<1>5. PastInv'
  <2>1. Today \in Nat /\ Today' \in Nat /\ Today <= Today'
    <3>1. clock + 1 \in Nat
      BY <1>1
    <3> QED BY <1>1, <3>1, DayPasses DEF Today, DayOf
  <2>2. \A hour \in Nat : DayOf(hour) \in Nat
    BY DayPasses
  <2>3. ASSUME NEW row \in table, row.observed PROVE DayOf(row.hour) < Today'
    BY <1>1, <2>1, <2>2, <2>3 DEF IInv, PastInv, Rows
  <2>4. ASSUME NEW b \in Backfills, Active(b), NEW hour \in job[b].hours
        PROVE  DayOf(hour) < Today'
    <3>1. hour \in Nat
      BY DEF IInv, TypeOK, Sessions
    <3> QED BY <2>1, <2>2, <2>4, <3>1 DEF IInv, PastInv
  <2> QED BY <1>1, <2>3, <2>4 DEF PastInv, Active
<1>6. FutureIsLatest'
  BY <1>1, <1>2 DEF IInv, FutureIsLatest
<1> QED BY <1>3, <1>4, <1>5, <1>6

\* What each session has done so far, that a refresher nobody overtook replaces
\* every forecast to come, and that only days gone by are observed.
THEOREM Invariance == Spec => []IInv
<1>1. ASSUME IInv, [Next]_vars PROVE IInv'
  <2>1. TypeOK'
    BY <1>1, TypeStep
  <2>2. CASE Tick
    BY <1>1, <2>1, <2>2, TickStep DEF IInv
  <2>3. CASE UNCHANGED vars
    <3>1. /\ \A s \in Sessions : JobInv(s)' /\ FreshInv(s)'
      BY <1>1, <2>3 DEF IInv, JobInv, FreshInv, Active, Stale, vars, sessionVars
    <3>2. PastInv' /\ FutureIsLatest'
      BY <1>1, <2>3 DEF IInv, PastInv, FutureIsLatest, Active, Stale, Today, DayOf, vars, sessionVars
    <3> QED BY <2>1, <3>1, <3>2 DEF IInv
  <2>4. ASSUME NEW s \in Sessions, SessionStep(s) PROVE IInv'
    BY <1>1, <2>1, <2>4, JobStep, FreshStep, PastStep, LatestStep DEF IInv
  <2> QED BY <1>1, <2>2, <2>3, <2>4, NextSteps
<1> QED BY <1>1, InitInv, PTL DEF Spec

-----------------------------------------------------------------------------
(* The properties.                                                           *)

\* The columns admit what the sessions write, and an hour has one row.
THEOREM TypeCorrect == Spec => []TypeOK
<1>1. IInv => TypeOK
  BY DEF IInv
<1> QED BY <1>1, Invariance, PTL

\* After a refresh that nobody overtook, every forecast of an hour to come is of
\* its pull.
THEOREM FutureHolds == Spec => []FutureIsLatest
<1>1. IInv => FutureIsLatest
  BY DEF IInv
<1> QED BY <1>1, Invariance, PTL

\* An hour to come is only ever lost to a refresh whose own pull does not have
\* it, one that asked for fewer days or that began on an earlier day.
THEOREM HoursHold == Spec => HoursSurvive
<1> DEFINE Lost(hour) == \E s \in Refreshers : Commit(s) /\ hour \notin job[s].hours
<1>1. ASSUME IInv, [Next]_vars, NEW hour \in HourOf(Stale) \ HourOf(table')
      PROVE  Lost(hour)
  <2>1. PICK row \in Stale : row.hour = hour
    BY <1>1 DEF HourOf
  <2>2. row \in table /\ row \notin table'
    BY <1>1, <2>1 DEF Stale, HourOf
  <2>3. PICK s \in Sessions : SessionStep(s)
    BY <1>1, <2>2, NextSteps DEF Tick, vars
  <2>4. Commit(s) /\ JobInv(s)
    BY <1>1, <2>2, <2>3, TableStep DEF IInv
  <2>5. HourOf(put[s]) = job[s].hours /\ put[s] \subseteq table'
    BY <1>1, <2>4, CommitTable DEF JobInv, Commit
  <2>6. hour \notin job[s].hours
    BY <1>1, <2>5 DEF HourOf
  <2>7. row \in gone[s]
    BY <1>1, <2>1, <2>2, <2>4, <2>6, CommitTable
  <2>8. s \in Refreshers
    BY <2>4, <2>7 DEF JobInv, Sessions, Refreshers
  <2> QED BY <2>4, <2>6, <2>8
<1>2. IInv /\ [Next]_vars => [\A hour \in HourOf(Stale) \ HourOf(table') : Lost(hour)]_vars
  BY <1>1
<1> QED BY <1>2, Invariance, PTL DEF Spec, HoursSurvive

\* An observation is only ever replaced by a forecast that was pulled before the
\* hour's day was over and then overtaken by the backfill.
THEOREM ObservationsHold == Spec => ObservedKept
<1> DEFINE Kept(row) == \E new \in table' : new.hour = row.hour /\ new.observed
           Late(row) == \E s \in Refreshers : Commit(s) /\ overtaken[s] /\ row.hour \in job[s].hours
<1>1. ASSUME IInv, [Next]_vars, NEW row \in table, row.observed, ~Kept(row)
      PROVE  Late(row)
  <2>1. row \notin table'
    BY <1>1
  <2>2. PICK s \in Sessions : SessionStep(s)
    BY <1>1, <2>1, NextSteps DEF Tick, vars
  <2>3. Commit(s) /\ JobInv(s) /\ FreshInv(s) /\ phase[s] = "written"
    BY <1>1, <2>1, <2>2, TableStep DEF IInv, Commit
  <2>4. row.hour \in job[s].hours
    BY <1>1, <2>1, <2>3, CommitTable DEF JobInv
  <2>5. PICK new \in put[s] : new.hour = row.hour
    BY <2>3, <2>4 DEF JobInv, HourOf
  <2>6. new \in table' /\ new.observed = job[s].observed
    BY <1>1, <2>3, <2>5, CommitTable DEF JobInv
  <2>7. Active(s) /\ s \in Refreshers
    BY <1>1, <2>3, <2>5, <2>6 DEF JobInv, Active, Sessions, Refreshers
  <2>8. overtaken[s]
    BY <1>1, <2>3, <2>4, <2>7 DEF FreshInv
  <2> QED BY <2>3, <2>4, <2>7, <2>8
<1>2. IInv /\ [Next]_vars => [\A row \in table : row.observed /\ ~Kept(row) => Late(row)]_vars
  BY <1>1
<1> QED BY <1>2, Invariance, PTL DEF Spec, ObservedKept
===============================================================================
