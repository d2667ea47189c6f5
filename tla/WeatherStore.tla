----------------------------- MODULE WeatherStore -----------------------------
(***************************************************************************)
(* The hourly weather rows of one location and provider                    *)
(* (weather_forecast_hour), and the three kinds of session that write      *)
(* them: a worker's run, which pulls the longest forecast before it asks   *)
(* the agent and commits when the run ends; POST /weather/refresh, which   *)
(* pulls 1 to 7 days; and the script that backfills observed hours through *)
(* yesterday.                                                              *)
(*                                                                         *)
(* Time is the hour that has begun, so the rows a refresh deletes, those   *)
(* of forecast_hour >= now, are those of later hours.  A row carries the   *)
(* number of the pull it was fetched by: a higher number is fresher data.  *)
(*                                                                         *)
(* PostgreSQL at READ COMMITTED: a statement works on what was committed   *)
(* when it began, and waits for the transactions that hold its rows or its *)
(* keys.  A statement takes its locks row by row in the code and all at    *)
(* once here; what that hides is a deadlock of two sessions, which ends as *)
(* Fail does.                                                              *)
(***************************************************************************)
EXTENDS Integers, FiniteSets

CONSTANTS
  Workers,    \* sessions of a worker's run
  Requests,   \* sessions of POST /weather/refresh
  Backfills,  \* sessions of scripts/weather_spanishfort.py
  DayHours,   \* hours in a day
  MaxDays,    \* days a run pulls, the most a request may ask for
  HistoryDays,\* HISTORY_DAYS of the script
  FirstHour,  \* the hour the story begins in
  LastHour,   \* bound: the last hour of the story
  MaxPulls    \* bound: pulls from the provider

Sessions == Workers \union Requests \union Backfills
Refreshers == Workers \union Requests

ASSUME SessionAssumption ==
  /\ Workers \cap Requests = {}
  /\ Refreshers \cap Backfills = {}
ASSUME TimeAssumption ==
  /\ DayHours \in Nat \ {0}
  /\ MaxDays \in Nat \ {0}
  /\ HistoryDays \in Nat \ {0}
  /\ FirstHour \in Nat
  /\ LastHour \in Nat
  /\ FirstHour <= LastHour
ASSUME PullAssumption == MaxPulls \in Nat

VARIABLES
  clock,     \* the hour that has begun
  pulls,     \* pulls made so far
  located,   \* the weather_location row is committed
  table,     \* the committed rows of weather_forecast_hour
  phase,     \* where a session is
  job,       \* job[s]: what it pulled, when, and as of when
  adds,      \* adds[s]: its transaction has inserted the location
  target,    \* target[s]: the rows its DELETE found
  gone,      \* gone[s]: the rows its transaction has deleted
  put,       \* put[s]: the rows its transaction has written
  \* History.
  overtaken, \* overtaken[s]: someone committed since s began
  latest     \* the last refresh to commit: its pull, and if it was overtaken

sessionVars == <<phase, job, adds, target, gone, put, overtaken>>
vars == <<clock, pulls, located, table, sessionVars, latest>>

-----------------------------------------------------------------------------
DayOf(hour) == hour \div DayHours
Today == DayOf(clock)
HoursOf(days) == {hour \in 0..((DayOf(LastHour) + MaxDays) * DayHours - 1) :
                    DayOf(hour) \in days}
HourOf(rows) == {row.hour : row \in rows}

\* id tells a row from another of the same hour: the pull that inserted it.
Rows == [hour : Nat, id : 1..MaxPulls, pull : 1..MaxPulls, observed : BOOLEAN]

NoJob == [pull |-> 0, hours |-> {}, observed |-> FALSE, asOf |-> FirstHour]

Phases == {"idle", "started", "fetched", "locating", "upserting", "deleting",
           "inserting", "written"}

\* One row per hour and what else the columns admit.
TypeOK ==
  /\ clock \in FirstHour..LastHour
  /\ pulls \in 0..MaxPulls
  /\ located \in BOOLEAN
  /\ table \subseteq Rows
  /\ \A r1, r2 \in table : r1.hour = r2.hour => r1 = r2
  /\ phase \in [Sessions -> Phases]
  /\ job \in [Sessions -> [pull : 0..MaxPulls, hours : SUBSET Nat,
                           observed : BOOLEAN, asOf : FirstHour..LastHour]]
  /\ adds \in [Sessions -> BOOLEAN]
  /\ target \in [Sessions -> SUBSET Rows]
  /\ gone \in [Sessions -> SUBSET Rows]
  /\ put \in [Sessions -> SUBSET Rows]
  /\ overtaken \in [Sessions -> BOOLEAN]
  /\ latest \in [pull : 0..MaxPulls, overtaken : BOOLEAN]

Init ==
  /\ clock = FirstHour
  /\ pulls = 0
  /\ located = FALSE
  /\ table = {}
  /\ phase = [s \in Sessions |-> "idle"]
  /\ job = [s \in Sessions |-> NoJob]
  /\ adds = [s \in Sessions |-> FALSE]
  /\ target = [s \in Sessions |-> {}]
  /\ gone = [s \in Sessions |-> {}]
  /\ put = [s \in Sessions |-> {}]
  /\ overtaken = [s \in Sessions |-> FALSE]
  /\ latest = [pull |-> 0, overtaken |-> FALSE]

-----------------------------------------------------------------------------
Rest(s) ==
  /\ phase' = [phase EXCEPT ![s] = "idle"]
  /\ job' = [job EXCEPT ![s] = NoJob]
  /\ adds' = [adds EXCEPT ![s] = FALSE]
  /\ target' = [target EXCEPT ![s] = {}]
  /\ gone' = [gone EXCEPT ![s] = {}]
  /\ put' = [put EXCEPT ![s] = {}]

Goto(s, to) == phase' = [phase EXCEPT ![s] = to]

\* No other transaction holds a row or a key of these hours.
Free(s, hours) ==
  \A t \in Sessions \ {s} : hours \cap HourOf(gone[t] \union put[t]) = {}

Pull(s, hours, observed, asOf) ==
  /\ pulls < MaxPulls
  /\ pulls' = pulls + 1
  /\ job' = [job EXCEPT ![s] = [pull |-> pulls + 1, hours |-> hours,
                               observed |-> observed, asOf |-> asOf]]
  /\ overtaken' = [overtaken EXCEPT ![s] = FALSE]
  /\ Goto(s, "fetched")
  /\ UNCHANGED <<clock, located, table, adds, target, gone, put, latest>>

\* A task takes its as_of before anything else.
StartRun(w) ==
  /\ phase[w] = "idle"
  /\ job' = [job EXCEPT ![w].asOf = clock]
  /\ Goto(w, "started")
  /\ UNCHANGED <<clock, pulls, located, table, adds, target, gone, put, overtaken, latest>>

\* Mutant of ForecastHours: the day before is asked for too (past_days=1).
ForecastHoursPast(days) == HoursOf((Today - 1)..(Today + days - 1))

\* The provider's answer begins at midnight of the day it is asked; one that
\* has no hours is not an error.
ForecastHours(days) == HoursOf(Today..(Today + days - 1))

RunPull(w) ==
  /\ phase[w] = "started"
  /\ \E hours \in {ForecastHours(MaxDays), {}} : Pull(w, hours, FALSE, job[w].asOf)

RequestPull(q) ==
  /\ phase[q] = "idle"
  /\ \E days \in 1..MaxDays : Pull(q, ForecastHours(days), FALSE, clock)

HistoryPull(b) ==
  /\ phase[b] = "idle"
  /\ Pull(b, HoursOf((Today - HistoryDays)..(Today - 1)), TRUE, clock)

\* get_or_create_location: a SELECT, then an INSERT if it found nothing.
Locate(s) ==
  /\ phase[s] = "fetched"
  /\ Goto(s, IF located THEN "upserting" ELSE "locating")
  /\ UNCHANGED <<clock, pulls, located, table, job, adds, target, gone, put, overtaken, latest>>

\* zipcode is unique: the insert waits for another session's, and once that
\* is committed it raises (Fail).
AddLocation(s) ==
  /\ phase[s] = "locating"
  /\ ~located
  /\ \A t \in Sessions : ~adds[t]
  /\ adds' = [adds EXCEPT ![s] = TRUE]
  /\ Goto(s, "upserting")
  /\ UNCHANGED <<clock, pulls, located, table, job, target, gone, put, overtaken, latest>>

\* The rows a refresh finds to delete: forecasts of hours to come.
Stale == {row \in table : ~row.observed /\ row.hour > clock}

\* Mutant of Upsert: nothing is deleted.
UpsertOnly(s) ==
  /\ phase[s] = "upserting"
  /\ Goto(s, IF job[s].hours = {} THEN "written" ELSE "inserting")
  /\ UNCHANGED <<clock, pulls, located, table, job, adds, target, gone, put, overtaken, latest>>

Upsert(s) ==
  /\ phase[s] = "upserting"
  /\ IF job[s].hours = {}
       THEN Goto(s, "written") /\ UNCHANGED target
       ELSE IF job[s].observed
              THEN Goto(s, "inserting") /\ UNCHANGED target
              ELSE Goto(s, "deleting") /\ target' = [target EXCEPT ![s] = Stale]
  /\ UNCHANGED <<clock, pulls, located, table, job, adds, gone, put, overtaken, latest>>

\* A row committed since DELETE began is not among those it found, even if it
\* has taken the place of one.
StillThere(rows) ==
  {row \in table : ~row.observed /\ \E r \in rows : r.hour = row.hour /\ r.id = row.id}

\* Mutant of Delete: it commits on its own.
DeleteCommits(s) ==
  /\ phase[s] = "deleting"
  /\ Free(s, HourOf(target[s]))
  /\ table' = table \ StillThere(target[s])
  /\ Goto(s, "inserting")
  /\ UNCHANGED <<clock, pulls, located, job, adds, target, gone, put, overtaken, latest>>

Delete(s) ==
  /\ phase[s] = "deleting"
  /\ Free(s, HourOf(target[s]))
  /\ gone' = [gone EXCEPT ![s] = StillThere(target[s])]
  /\ Goto(s, "inserting")
  /\ UNCHANGED <<clock, pulls, located, table, job, adds, target, put, overtaken, latest>>

\* What ON CONFLICT DO UPDATE makes of the hour: a new row, or the row that
\* has the key, with every value replaced.
Written(s, hour) ==
  LET kept == {row \in table \ gone[s] : row.hour = hour}
  IN [hour |-> hour, pull |-> job[s].pull, observed |-> job[s].observed,
      id |-> IF kept = {} THEN job[s].pull ELSE (CHOOSE row \in kept : TRUE).id]

Insert(s) ==
  /\ phase[s] = "inserting"
  /\ Free(s, job[s].hours)
  /\ put' = [put EXCEPT ![s] = {Written(s, hour) : hour \in job[s].hours}]
  /\ Goto(s, "written")
  /\ UNCHANGED <<clock, pulls, located, table, job, adds, target, gone, overtaken, latest>>

\* Mutant of Applied: rows that were there stay beside those written.
AppliedBeside(removed, rows) == (table \ removed) \union rows

\* The table with a transaction's deletions and writes.
Applied(removed, rows) == {row \in table \ removed : row.hour \notin HourOf(rows)} \union rows

\* A run commits when it ends, a request and the script at once.
Commit(s) ==
  /\ phase[s] = "written"
  /\ table' = Applied(gone[s], put[s])
  /\ located' = (located \/ adds[s])
  /\ overtaken' = [t \in Sessions |-> overtaken[t] \/ (t # s /\ put[s] # {})]
  /\ latest' = IF put[s] = {} \/ job[s].observed THEN latest
               ELSE [pull |-> job[s].pull, overtaken |-> overtaken[s]]
  /\ Rest(s)
  /\ UNCHANGED <<clock, pulls>>

\* Any call raises, or the process dies: the transaction is rolled back.
Fail(s) ==
  /\ phase[s] # "idle"
  /\ Rest(s)
  /\ UNCHANGED <<clock, pulls, located, table, overtaken, latest>>

Tick ==
  /\ clock < LastHour
  /\ clock' = clock + 1
  /\ UNCHANGED <<pulls, located, table, sessionVars, latest>>

Step(s) ==
  \/ Locate(s) \/ AddLocation(s) \/ Upsert(s) \/ Delete(s) \/ Insert(s)
  \/ Commit(s) \/ Fail(s)

Next ==
  \/ Tick
  \/ \E w \in Workers : StartRun(w) \/ RunPull(w)
  \/ \E q \in Requests : RequestPull(q)
  \/ \E b \in Backfills : HistoryPull(b)
  \/ \E s \in Sessions : Step(s)

Spec == Init /\ [][Next]_vars

-----------------------------------------------------------------------------
(* Properties.                                                               *)

\* "Forecast pulls should replace the entire future window so stale values
\* are not left behind" (weather_repo.py): after a refresh that nobody
\* overtook, every forecast of an hour to come is of its pull.  One that was
\* overtaken did not see the rows it should have deleted.
FutureIsLatest ==
  ~latest.overtaken => \A row \in Stale : row.pull = latest.pull

\* Deleting and writing the window is one change to those who read the table:
\* an hour to come is only ever lost to a refresh whose own pull does not have
\* it, one that asked for fewer days or that began on an earlier day.
HoursSurvive ==
  [][\A hour \in HourOf(Stale) \ HourOf(table') :
       \E s \in Refreshers : Commit(s) /\ hour \notin job[s].hours]_vars

\* An observation is replaced by a forecast only by a refresh that was overtaken
\* while it had its pull in hand: one that pulled before the hour's day was over,
\* and then the backfill committed.
ObservedKept ==
  [][\A row \in table : row.observed /\ ~(\E new \in table' : new.hour = row.hour /\ new.observed)
       => \E s \in Refreshers : Commit(s) /\ overtaken[s] /\ row.hour \in job[s].hours]_vars

\* The hours build_weather_context_from_rows sums up as the last 24.
Lookback(asOf) == (asOf - DayHours + 1)..asOf

\* "Pull weather observations for last 24h" (docs/ORCHESTRATION.md): the rows
\* a run's weather context is built from have every hour of the day before
\* as_of.
LookbackCovered ==
  \A w \in Workers : phase[w] = "written" /\ job[w].hours # {} =>
    Lookback(job[w].asOf) \subseteq job[w].hours
==============================================================================
