# AISprinkler: a TLA+ model of the daily adjustment

AISprinkler adjusts a sprinkler's schedule once a day. A Celery task bootstraps
the database, creates an adjustment run, reads the day's schedule and the
weather, asks a language model for a recommendation, puts it through a
deterministic rule engine and a confidence gate, persists the result in the
schedule and commands the device. An HTTP API lets operators post and delete the
same schedule rows. This directory models that system, checks it with TLC and
proves its central properties with TLAPS.

Paths below are relative to the repository's package, `src/aisprinkler/`, unless
they start with `docs/` or `scripts/`.

## Inventory

| Component (code) | State it keeps | Operations | What makes it correct | Here |
|---|---|---|---|---|
| Run orchestration (`application/use_cases/run_daily_adjustment.py`, `domain/entities/adjustment_run.py`) | the run: id, state, trace; locals of `execute` | `execute` | schedule, run table and device agree; one command per run; nothing automatic against the policy | `DailyAdjustment`, `RunContract` |
| Rule engine (`domain/services/rule_engine.py`) | none | `apply` | results within device and percentage limits; a version mismatch reaches a human | `RuleEngine`, `DecisionPipeline` |
| Language model adapter (`infrastructure/agent/langchain_agent.py`, `domain/value_objects/recommendation.py`) | none | parse, validate, coerce | a coerced answer is coherent with its action; confidence never rises | `AgentDecision`, `DecisionPipeline` |
| Heuristic agent (`infrastructure/scheduler/_di.py`) | none | `recommend` | keeps the baseline | `AgentDecision` |
| Schedule repository (`infrastructure/persistence/schedule_repo.py`) | `current_baseline_schedule` | read for a date, `save` (supersede and insert), `deactivate` | at most one visible row in a slot; replacing is atomic | `DailyAdjustment` |
| Schedule API (`api/routers/schedules.py`) | the same rows | POST, DELETE, listings | as above, against concurrent runs | `DailyAdjustment` |
| Bootstrap (`infrastructure/persistence/bootstrap.py`, `api/main.py`, `domain/value_objects/season.py`) | schema, templates, original and current rows | on every task and API start | seeds only what is missing, of the right season, once | `DailyAdjustment` (one date, concurrently), `WeekAhead` (the calendar) |
| Run repository (`infrastructure/persistence/run_repo.py`) | runs, traces | `create`, `update_state`, `append_trace` | a run that acted is on record | `DailyAdjustment` |
| Celery task, broker (`infrastructure/scheduler/tasks.py`, `celery_config.py`) | messages, retry counts | deliver, retry, redeliver | bounded attempts | `DailyAdjustment` |
| Session wiring (`infrastructure/scheduler/_di.py`, `infrastructure/persistence/db.py`) | one transaction per task or request | commit on return, roll back otherwise | all or nothing | `DailyAdjustment` |
| Device adapters (`infrastructure/executor/`) | the device | `dispatch` | cannot be undone | `sent` in `DailyAdjustment` |
| Manual review (`application/use_cases/process_manual_review.py`) | the run in `manual_review` | approve, reject | a final state stays; run and reviewer never both command; a decision takes the run off the queue | `ManualReview` |
| Weather store (`infrastructure/persistence/weather_repo.py`, `api/routers/weather.py`, `scripts/weather_spanishfort.py`) | location, hourly rows | refresh, upsert, delete the future window, backfill | the window is one pull's; observed rows survive | `WeatherStore`; a run's locks on it in `DailyAdjustment` |
| Weather providers (`infrastructure/weather/`) | none | fetch, derive the context | the context has the hours it claims | hours in `WeatherStore`, the context in `WeatherContext` |
| Scripts over the schedule (`scripts/create_baseline_last30d.py`, `scripts/trigger_daily_adjustment.py`) | original and current rows | fill in the days gone by; pick the next scheduled date | the days are watered as documented; no watering of the seeded week is passed over | `WeekAhead` |
| History replay (`scripts/adjust_schedule_last30d.py`) | the same as a run | the use case over observed rows, day by day | sees the weather a live run would have seen | its weather port in `WeatherContext` |
| Run API, review and retry scripts, logging, Grafana | none | placeholders | | not modelled |

**How they interact.** The broker delivers one message to one worker process; a
worker runs one task at a time (`asyncio.run`), the task opens one SQLAlchemy
session, and everything `execute` writes, the run's own states included, lives
in that session's transaction until it returns. Workers and API requests meet
only in PostgreSQL (READ COMMITTED, row locks) and at the device.

**What is hard here.** Rows read before two slow awaits (weather, agent) and used
after them; saves of one slot by two sessions at once; a command that cannot be
rolled back in a transaction that can; retries of a whole task that has already
acted; redelivery after a crash, at any step; the re-seeding that precedes every
run; row-lock waits and deadlocks; the rounding and the order of the clamps.
Each is listed at its line under `hazards` in `PROJECT.json` with the properties
aimed at it.

## Modules

- **`RuleEngine`**: `RuleEngine.apply` as operators: the blackout (rule 1), the
  policy version (2), the percentage window (4), the device limits (5), with
  Python's half-even `round` and the code's order of `max` and `min`. Minutes are
  integers, confidence is in hundredths, `NoDuration` is `None`.
- **`AgentDecision`** extends it: `Recommendation.__post_init__` (`Acceptable`),
  `_coerce_recommendation` (`Coerce`, with the baselines at which the float 1.1
  rounds a tie upwards) and the heuristic agent.
- **`DecisionPipeline`**: one decision as a state machine (ask, coerce, rules,
  gate), over every reply, baseline, table of hourly rows and blackout in its constants.
- **`WeatherContext`**: what a run makes of hourly rows, twice, as the code does it
  twice: `LiveContext` (`infrastructure/weather/forecast_refresh.py`) and
  `ReplayContext` (`HistoricalWeatherPort` of the replay script), with the two
  windows, missing values, inferred probabilities, and the test for dry weather.
  `DecisionPipeline` feeds it to the coercion. Time is in half hours, so a run is
  on the hour or between two.
- **`DailyAdjustment`**: one device and one date, with several workers, several
  API requests, the broker, the database and the device. Every `await` of
  `execute` is the boundary of an action, so anything may happen between
  reading the schedule and using it. It takes the agent's answers and the rule
  engine from the two pure modules.
- **`RunContract`**: the abstract promise of a run: it is opened, commands the
  device at most once, and then is closed with its plan, or is referred to
  review without having commanded anything, or disappears. `DailyAdjustment`
  implements it through the refinement mapping stated at `Contract`: a run's
  status is its durable state, or `open` while a worker has it, or `gone`; its
  plan is its rows in the table, visible or superseded.
- **`ManualReview`**: reviews of referred runs as concurrent calls of `execute`, each
  with its step of reading, dispatching, closing the entity, updating and
  committing; the runs themselves move by `RunContract`. It implements
  `RunContract` too (`ReviewsAddNothing`): a rejected run is, to the contract, a
  run that is still referred.
- **`WeekAhead`**: what the bootstrap seeds, as days go by: season templates,
  legacy templates with month ranges around the year, the window of days, and
  the loop that adds original and current rows. One bootstrap is one step. The
  history script (`FillHistory`), which has its own copy of the templates and
  treats retired originals differently, and the date the trigger script picks
  (`TriggerDate`) work on the same rows. The script is one step too, although its
  loop does not hold the views' lock, which keeps bootstraps apart and saves not:
  what holds here holds of bootstraps, scripts and saves one after another.
- **`WeatherStore`**: the hourly rows of one location and provider, with runs,
  refresh requests and the backfill script as transactions of several
  statements (find the location, delete the future, upsert, commit), while the
  clock moves on. It shares no state with `DailyAdjustment` but a run's row
  locks, which are `HoldsWeather` there.
- **`MCDecisionPipeline`, `MCDailyAdjustment`, `MCWeekAhead`,
  `MCWeatherStore`, `MCManualReview`**: instances for TLC.
- **`AgentDecisionProofs`, `DecisionPipelineProofs`, `DailyAdjustmentProofs`,
  `ScheduleFollowsRunProofs`, `SlotProofs`, `WeekAheadProofs`,
  `WeatherStoreProofs`, `ManualReviewProofs`**: theorems.

### State and code in `DailyAdjustment`

| Variable | In the code |
|---|---|
| `queue`, `retries` | messages at the broker by `self.request.retries`; the one a worker holds |
| `phase[s]` | the next call of a session; in a run, its `RunState` or the repository call it is at |
| `read[s]` | ids the last SELECT returned (`schedules`, or `_supersede_visible_current`) |
| `hid[s]`, `ins[s]` | the open transaction: rows updated and therefore locked, rows inserted |
| `run, base, rec, result` | locals of `execute`: the run, `schedules[0]` or 06:00 and 0, the recommendation, the engine's result |
| `cur` | `current_baseline_schedule` of the date; `live` is `is_active` and `superseded_at is None`; `by` is a history variable: who wrote the row |
| `durable[r]` | committed state of run `r`, `absent` if its insert was never committed |
| `sent[r]` | commands the device received for run `r` (history) |

`CommitTxn` and `RollbackTxn` are what leaving `async with session` does. An
UPDATE is a step that is disabled while another session holds its row
(`Unlocked`); a SELECT sees committed rows only. Rows a transaction has inserted
are visible to nobody else. A skip updates the rows it has read one at a time, in the
order of their starts (`Deactivate`), and so does the flush of a save that found
several visible rows in its slot (`Supersede`, until `AllSuperseded`), which may wait
for one row with another one locked. The order of a flush is left open: SQLAlchemy
sorts its UPDATEs by primary key, which ids here do not stand for, so the model
also has two saves taking the rows of a slot in opposite orders, which the code
does not. The bootstrap drops and creates views first, whose
lock admits one bootstrap at a time. Sessions read their own writes nowhere in
this code, so the model has no such read.

`Fail` is an exception at any await of the `try` block; `Raise` one outside it,
including a commit whose answer is lost; `Crash` the death of the worker, with or
without redelivery (`task_acks_late` without `task_reject_on_worker_lost`). A
child that dies loses its message, a worker that dies does not. The Redis
broker also delivers a message again when it has not been acknowledged within
the visibility timeout (an hour by default, far beyond a task); to the other
sessions that is one more trigger, and it has no action of its own.

A run's weather rows are locked from the pull to its end if the provider
returned any; `PersistsWeather` is the set of runs whose pull did.

### State and code in `ManualReview`

| Variable | In the code |
|---|---|
| `status[r]` | committed `RunState` of run `r` (`open` and `gone` as in `RunContract`); `failed` after a rejection |
| `sent[r]`, `orders[r]` | commands the device had from the run itself, and from reviews of it |
| `phase[v]`, `of[v]` | the next call of review `v`; its `decision.run_id` |
| `verdict[v]` | the state it passes to `update_state` |

`CloseEntity` is `run.close()` on the entity read at the start, which
`transition_to` refuses, as `Terminal` contains `manual_review`. `update_state`
names the row by its id alone, so `Update` has no condition on what the row
says by then. Nobody calls the use case yet; `Commit` and `Fail` are the
session discipline of the API, and marked external.

### State and code in `WeekAhead` and `WeatherStore`

In `WeekAhead`, `calendar` is the dates of the story (first weekday, first month,
the day the month turns), `legacy` the result of `_load_legacy_templates`,
`original` and `current` the active and the visible rows. `Withdraw` is a skip or
a DELETE, `Save` the save of a run or a POST for any slot of any date, with or
without a visible row, `Retire` a DELETE of an original row. `seeded` is
history: whether a bootstrap has run since the day began and the last withdrawal;
`filled` says the same of the history script. `retired` is the slots of inactive
original rows, which that script looks up and the bootstrap does not. Days before
the story are negative.

In `WeatherStore`, `table` is the committed `weather_forecast_hour` rows, `target`
what a session's DELETE found when it began, `gone` and `put` what its transaction
has deleted and written (and holds locked), `job` its pull. A row's values are
the number of its pull, `id` is the row's identity, which an upsert keeps and a
deletion ends: a DELETE that waits for another session deletes nothing that
session has put in the place of the rows it found. `overtaken` and `latest` are
history: whether anyone committed during a pull, and the last refresh. Hours are
counted by `DayHours`, so days can be two hours long. `FutureIsLatest` and
`ObservedKept` exempt a refresh that was overtaken, and so the very interleaving
their hazards are about: they say that no other way leads there.

## Runs

Five runs expect TLC to find a violation and are discussed under "Findings".
The seven that pass:

| Run | Question | Bounds, and why they are enough |
|---|---|---|
| `DecisionPipeline` | is what waters without a human within policy? is rain seen? | durations at, below and above every boundary, 7 baselines from 0 to beyond the device's maximum, confidences on both sides of the threshold 0.70 and beyond 1; device 0..60 minutes, 20 %. Rows with rain at, inside and beyond each end of both windows and now, in one hour or two, with and without a probability; a run on the hour and between two hours; three sources of weather |
| `Concurrent` | do schedule, runs and device agree under every interleaving? does each run keep its contract? | 2 workers, up to 2 runs from 2 triggers, a crash with or without redelivery, 1 API request (POST, DELETE or startup), 1 slot, any step failing. Two writers of one slot are what it takes to conflict; every row property is per slot. No run locks weather rows, which would only remove interleavings |
| `Sequential` | what holds when runs do not overlap? are attempts bounded? | 1 worker, 2 triggers, 1 retry each, a crash, 2 slots, a template, all replies: up to 6 runs after one another |
| `Drains` | does everything come to rest? who can wait for whom (`NoGridlock`)? | 2 workers, 2 triggers, a crash, a slot with two visible rows, on which two skips, or a skip and a save, can deadlock, and a later slot with one, so that the order of the locks matters; runs 1 and 3 lock weather rows, run 2 does not, so runs wait for each other there and the deadlock can still happen. `MaxRuns` is never reached before rest. No requests: a request's save is a run's, and with one, two runs and no crash the run passes too (1.0 million states) |
| `WeekAhead` | is each date seeded with its own season, once, and every due slot filled, ahead and behind? is no watering of the seeded week passed over? | a 7-day window over 3 days, 3 days of history, 9 days probed, rows saved for the first day and for the ninth, which is past the week at first and in it on the third day, all weekdays, the 5 first months after which the season or the year turns, any position of the turn; no templates, separate and overlapping ones; 2 changes. Dates do not influence each other, so more days add nothing |
| `Weather` | what does a pull replace, with what between its statements? | days of 2 hours, 2 days after a past one; 1 run, 1 request of 1 or 2 days, 1 backfill, 3 pulls in any order and repetition, any step failing. Also run with 4 pulls (3.4 million states) |
| `ManualReview` | what can racing reviews do to a run and the device? | 2 runs, 3 reviews (two decisions that race and one that comes after), 2 decisions, 2 commands a run may have sent, 1 failure. Runs meet only through their reviews |

The mutants listed in `PROJECT.json` each change one modelled definition the way
a bug would; every property of a passing run is violated by one.

Symmetry (workers, requests) is used for the safety runs only.

**Fairness** (`FairSpec`). `WF(Progress(w))`: a Celery worker that can go on does;
every await returns or raises. `WF(Serve(q))`: so does a request once it has
arrived. `WF(Victim(s))`: PostgreSQL's deadlock detector aborts a session of a
cycle of waits, whether it skips, saves or serves a request. Without it `Drains`
fails: two skips that read two rows with the same start lock them in opposite
orders, and so may a skip and a save of that slot, so the deadlock is real and the
server's detector is what the code depends on. Nothing is assumed of triggers, requests,
failures or crashes. Strong fairness is not needed, as a lock's holder is always
on its way to a commit or a rollback, and every lock is contended finitely often.

## Proofs

All for arbitrary constants, subject to the named assumptions of the modules
(device limits are naturals in order, the percentage and the threshold are
percentages, templates are finitely many seeded rows, initial rows are no run's;
times are integers, and a table of hourly rows is finite and has no negative rain).

- `AgentDecisionProofs`: lemmas about rounding, clamping and coercion. A window
  of rule 4 contains every baseline the device can run (`WindowBounds`); a coerced
  reply is a recommendation coherent with its action and no more confident than
  the model (`CoerceCoherent`).
- `DecisionPipelineProofs`: the invariant says that each stage's value is the
  previous stage's, coerced or ruled on. From it, `TypeCorrect`, `PolicyHolds`,
  `ConfidenceHolds`, `DirectionHolds` and `MismatchHolds`, for every reply. The
  other two properties of its run, `RainNeverMissed` and `ReplayFaithful`, are
  about sums over windows of rows, which are folds over sets. Among the subsets of
  a finite set that contradict a statement some have no smaller one that does
  (`SmallestSubset`); that gives what induction would: the sum exists
  (`SumsExist`), does not depend on the order of the additions (`RainOfOne`), and
  is at least the rain of any part of the window (`RainAtLeast`). The last needs
  that no rain is negative. The rest is that the live run's windows and the
  replay's have the same hours in the table (`SameWindows`), on the hour or not.
- `DailyAdjustmentProofs`: `TypeCorrect`. `TypeOK` is inductive; its five parts
  (broker, phases, transactions, locals, store) are treated separately, a step
  that leaves a part alone keeps it (`Untouched`). What makes it more than
  bookkeeping: a row is only ever written with a positive duration, a table
  only grows (so ids stay valid), and the bootstrap's rows are a finite sequence.
  `RetriesBounded`, the budget of attempts, is a count, and a count of messages
  in a queue is not inductive by itself. `Accounted` says that a ledger exists:
  it charges each run there has been to an origin (a trigger or a crash) and a
  number of retries, no two runs to the same pair, and says where each origin's
  message is: queued, held by a worker, or gone. What waits in the queue with `n`
  retries has been charged for fewer than `n` only, what a worker holds for no
  more than its count, and for less if its run is still to be created. Each step
  is shown the ledger that follows: `LedgerOpens` (a trigger, a redelivery),
  `ReceiveMoves`, `CreateCharges`, `RetryMoves`; all others keep it.
- `ScheduleFollowsRunProofs`: `StoryHolds`, `Spec => []ScheduleFollowsRun`. The
  property is not inductive: it speaks of committed rows, and says nothing of
  what is about to be committed. `IInv` adds, for each worker, what its
  transaction holds at each phase (`TxnInv`: exactly the row of the command it
  will send or has sent; none if it skips or refers), how far the run is at the
  device (`RunInv`: nothing sent before the dispatch, exactly its command after),
  that no two workers share a run, that runs not created yet have done nothing,
  and that requests never write a run's row. Each session's own step is treated
  action by action (`OwnTxnStep`, `OwnRunStep`, `OwnRequestStep`); a step of
  another session cannot disturb a worker's part (`Bystander`, `OtherWorkers`);
  and `ScheduleStep` shows the table step by step, where `CommitTells` is the one
  step that writes a run's story. `IInv` was model-checked on the instances of
  `Concurrent` and `Sequential` before it was proved.
  In the same module, `RunHonoursContract`: `DailyAdjustment` implements
  `RunContract`. From `IInv`, initial states map to initial states, and each
  action maps to `Open`, `Command`, `Close`, `Refer`, `Abandon` or a stutter.
- `SlotProofs`: `SlotsStayOccupied`, a save never leaves a gap. `LocksAim` says
  which rows a session that will neither skip nor delete has read and locked:
  those of the slot its own visible row will occupy, so that the commit which
  hides them also fills it. Then what holds of runs that do not overlap (`Alone`:
  one worker, no requests): `SkipsClear`, `SlotsUnique` and `StepsBounded`. What
  they add to the invariant is that a read stays true: what a lone worker has
  read is what is visible, up to its own commit (`ViewInv`), the row it started
  from is still there, and what the rules made of it is within the percentage
  (`DecisionInv`, `RulingHolds`). `SlotsUnique` needs rows of the start and
  templates with a slot each (`SlotsApart`), `StepsBounded` also that the device
  can run them (`RowsFit`); the instance of `Sequential` is of that kind. That
  the assumption cannot be dropped is what `SlotUnique` shows under "Findings".
  Last, for any number of sessions, `NobodyStuck`: whenever anyone is at work,
  someone need not wait, or there is a slot and a cycle of sessions each of which
  holds a row of that slot and may be about to update another one of it
  that the next of them holds (`CycleOver`). Only a session that is updating rows,
  one that skips, saves or deletes, waits while it has rows locked (`LockHolders`), so
  if everyone waits each wanted row is with one of those (`AllBlocked`). They lock in
  the order of starts, a skip by its ORDER BY and a save because all its rows have
  one start (`InOrder`, which is inductive with `LocksAim`), so those who hold a row
  of the latest start that is locked can only wait for rows of that start, and they
  are the cycle (`LatestIsCycle`). Without ORDER BY this fails (the mutant of
  `Deactivate`); with one row per slot, which `SlotUnique` would give, no deadlock is
  possible at all.
- `WeekAheadProofs`: the seven properties of its run, for every calendar, window
  and table of templates. `MonthsWrap` shows that the comparison of months is
  the walk around the year, `ExpectedRow` that slot and template identify a row
  (so the first template of a slot makes its only original),
  `DefaultsAsDocumented` and `PastRow` that both copies of the season's templates
  are the documented table, by cases on the month. That the trigger script passes over no day of
  the seeded week follows from `WeekHolds`: a day of the week on which something is
  due has a visible row, and `TriggerFirst` says that the script takes the first
  such day it probes, whatever rows there are besides. `TypeOK` is the only
  strengthening needed.
- `ManualReviewProofs`: the five properties of its run. `IInv` says that a review
  past its check works on a run that is referred or already rejected and is about
  to write a rejection (an approval never gets that far), that such a run sent
  nothing itself, and that only such runs have orders.
- `WeatherStoreProofs`: the four properties of its run, for any number of sessions,
  hours and days. No property is inductive: each speaks of the committed rows.
  `IInv` adds what a session has done by its phase (`JobInv`), that a refresher
  nobody overtook has found, and then deleted, every forecast of an hour to come,
  and that its hours are not observed (`FreshInv`), and that only days gone by are
  observed (`PastInv`). An hour that begins only takes rows from those to come, a
  commit that writes overtakes everyone else, and a commit by one who was not
  overtaken replaces all there was. The locks are not needed: a refresher who had
  to wait was overtaken.

Every invariant and action property of the passing runs is a theorem. Model-checked
only: `Drains`, as liveness and `ENABLED` are beyond the prover. What it comes
down to is proved in part: `NobodyStuck` (someone can always go on, or the
server aborts one of a cycle) and `RetriesBounded` (there are finitely many runs).
On the instances of `Drains` and `Concurrent` it was checked that a session at work
whose next step is not `ENABLED` is `Blocked`, and that but for its choice among
rows to update a `Blocked` session cannot step.

## Findings

Where the code does not do what a document or a comment says. Each run below
checks one such sentence; `PROJECT.json` quotes it.

- `SlotUnique`: two concurrent saves of a slot leave two visible rows.
- `WithinBaselinePct`: a second run takes the first one's output as its baseline,
  and the percentage compounds.
- `CommandOnRecord`: a run that fails after its dispatch is rolled back whole;
  its FAILED state is written in the transaction that is then rolled back.

- `LookbackCovered`: a run's context sums up "the last 24 hours" over the rows it
  has just pulled, which begin at midnight UTC of the day; the evening before is
  missing, and the observed rows in the table are not consulted.

- `ApprovalCloses`: an approved run has commanded the device and stays in the queue
  of reviews: `close` raises, since `manual_review` is among the states
  `transition_to` does not leave, and the next approval commands the device
  again. No failure and no race is needed.

`SlotUnique` and `SkipClearsDate` do hold when runs do not overlap (run
`Sequential`, theorems of `SlotProofs`); they are safe exactly as long as one worker serves the queue and
nobody uses the API meanwhile.

Also seen, and left without a run: the bootstrap of the next task or API start
seeds a skipped slot again (an empty slot is one to fill); an approval puts nothing
in the schedule, and always commands 06:00; a review that read a run before it was
rejected still sends its command; a run on the hour sums up 25 hours behind it; the
history script ignores legacy templates; `SkipClearsDate` fails as soon as runs overlap
(a skip leaves visible what another run committed after the skip read the
schedule); a retry after the dispatch creates a new run and commands the device
again, under another idempotency key (`docs/ORCHESTRATION.md`:74 and 123); during a
blackout a wrong policy version is closed as a skip, since rule 1 returns first
(`docs/PROMPTS_AND_RULES.md`:37); of two refreshes at once, the one that waits
leaves what the other committed (`FutureIsLatest` without its condition), against
the comment at `infrastructure/persistence/weather_repo.py`:61; a refresh that pulled before
midnight and commits after the backfill turns its observed hours into forecasts
again (`ObservedKept` without its exception); if `RUN_DATE_LOOKAHEAD_DAYS` is greater than
`BASELINE_LOOKAHEAD_DAYS`, the trigger script takes a row that was posted past the
seeded week for the next scheduled date and passes over days before it that are due
and not seeded yet (`TriggerPicksNext` past its week); two legacy
templates of one slot leave two visible rows (`OneVisible` without its
condition); an original row that the API deletes is seeded again; a duplicate trigger starts a second run
(`docs/ORCHESTRATION.md`:122 promises the existing one; `get_by_dedupe_key` has no
caller); a reduce of a small baseline may round to the baseline itself
(`docs/PROMPTS_AND_RULES.md`:27); no beat schedule is configured, so the daily
trigger has to come from outside; rule 4 of the staleness rules is not
implemented.

## Not modelled, and why

HTTP, JSON and prompt text; DDL and schema synchronization; other devices and
dates (no row, lock or message is shared between dates but the views' lock and
the weather rows, both modelled); the trace table (write-only); the engine cached
across event loops (a property of the driver's pool; its error is one of
`Raise`); fractions in a model's reply (they fail at the INTEGER column, one of
`Fail`); the loop of the replay script (the use case once a day with a commit or
a rollback each, which is `DailyAdjustment` with one worker and no broker); the
run API's placeholders and the two stub scripts; the OpenWeather adapter, which
keeps no rows; the order
in which one statement locks its rows (two refreshes whose windows share a single
hour can deadlock there, which ends as `Fail` does; `NoGridlock` takes the weather
rows of a pull as one lock).

## Plan

Done: all of the above. What is left, were the project to go on:

1. What is left of `Drains` within the prover's reach: that an attempt never goes
   back to a phase it has left, so that it ends after finitely many steps.
2. A second device or date in `DailyAdjustment`, of which only the locks on the views
   and on the weather rows are shared.
3. Callers of the manual review, once the code has them: which session it runs in
   and who commits it.
