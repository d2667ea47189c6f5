--------------------------- MODULE WeatherContext ---------------------------
(***************************************************************************)
(* What a run makes of the hourly weather rows (domain/value_objects/      *)
(* weather_context.py), computed twice in the code: for a live run from    *)
(* the rows just fetched (infrastructure/weather/forecast_refresh.py), and *)
(* for the replay of past days from the observed rows in the database      *)
(* (scripts/adjust_schedule_last30d.py).                                   *)
(*                                                                         *)
(* Rows are a function from times, in half hours, to the rain of the hour  *)
(* that begins there, in hundredths of a millimetre, and its probability   *)
(* in percent, either of which may be missing.  The values have no more    *)
(* digits than the code's rounding keeps.  Temperature, humidity and wind  *)
(* only reach the text of the prompt and are left out.                     *)
(***************************************************************************)
EXTENDS Integers, FiniteSets, FiniteSetsExt, Functions

CONSTANT Missing   \* a null in a row

Day == 48          \* half hours

\* Python's "value or 0".
OrZero(value) == IF value = Missing THEN 0 ELSE value

Rain(rows, hours) == MapThenSumSet(LAMBDA h : OrZero(rows[h].rain), hours)

Context(last, next, prob, fallback) ==
  [last |-> last, next |-> next, prob |-> prob, fallback |-> fallback]

\* No rain, none to come.
NoRain(fallback) == Context(0, 0, 0, fallback)

\* Both windows are closed at the far end, and now is in the past one: on the
\* hour it sums up 25 hours.
PastHours(rows, now) == {h \in DOMAIN rows : now - Day <= h /\ h <= now}

NextHours(rows, now) == {h \in DOMAIN rows : now < h /\ h <= now + Day}

\* build_weather_context_from_rows: no rows is no rain, and not a fallback.
LiveContext(rows, now) ==
  IF DOMAIN rows = {} THEN NoRain(FALSE)
  ELSE Context(Rain(rows, PastHours(rows, now)),
               Rain(rows, NextHours(rows, now)),
               Max({0} \union {OrZero(rows[h].prob) : h \in NextHours(rows, now)}),
               FALSE)

\* Observed rows have no probability: where it rained it was certain.
InferredProbability(row) ==
  IF row.prob # Missing THEN row.prob
  ELSE IF OrZero(row.rain) > 0 THEN 100 ELSE 0

\* Mutant of ReplayContext: the row of the hour itself is in neither window.
ReplayContextStrict(rows, now) ==
  LET window == {h \in DOMAIN rows : now - Day <= h /\ h <= now + Day}
      last == {h \in window : h < now}
      next == {h \in window : h > now}
  IN  IF window = {} THEN NoRain(TRUE)
      ELSE Context(Rain(rows, last), Rain(rows, next),
                   Max({0} \union {InferredProbability(rows[h]) : h \in next}), FALSE)

\* HistoricalWeatherPort: the query keeps the rows of both days, and when there
\* is none, or no location, the day is replayed as dry.
ReplayContext(rows, now) ==
  LET window == {h \in DOMAIN rows : now - Day <= h /\ h <= now + Day}
      last == {h \in window : h <= now}
      next == {h \in window : h > now}
  IN  IF window = {} THEN NoRain(TRUE)
      ELSE Context(Rain(rows, last), Rain(rows, next),
                   Max({0} \union {InferredProbability(rows[h]) : h \in next}), FALSE)

\* Where a run's context comes from: the configured provider's rows, a constant,
\* or the replay's history.
WeatherPorts == {"live", "synthetic", "replay"}

ContextFrom(port, rows, now) ==
  CASE port = "live" -> LiveContext(rows, now)
    [] port = "synthetic" -> NoRain(FALSE)
    [] port = "replay" -> ReplayContext(rows, now)

\* Mutant of Dry: rain to come is left to its probability.
DryBehind(context) == context.last < 200 /\ context.prob < 20

\* dry_conditions of the coercion: under 2 mm behind, under 2 mm ahead, and a
\* probability under 20 percent.
Dry(context) == context.last < 200 /\ context.next < 200 /\ context.prob < 20
==============================================================================
