--------------------------- MODULE DailyAdjustment ---------------------------
(***************************************************************************)
(* The daily adjustment of one device for one date: the Celery task        *)
(* (infrastructure/scheduler/tasks.py), the session it runs in             *)
(* (scheduler/_di.py, execute_daily_adjustment), the database bootstrap    *)
(* that precedes every run, RunDailyAdjustmentUseCase.execute, and the     *)
(* schedule API that writes the same table (api/routers/schedules.py).     *)
(*                                                                         *)
(* Several workers and several API requests share                          *)
(*   - the broker's queue: every message is the same task with the same    *)
(*     arguments, so a message is known by its retry count;                *)
(*   - the current_baseline_schedule rows of the date, in PostgreSQL at    *)
(*     its default READ COMMITTED isolation: a statement sees what is      *)
(*     committed when it runs, and an UPDATE waits for the transaction     *)
(*     that holds its row;                                                 *)
(*   - the run table, written in the same transaction;                     *)
(*   - the device, which obeys a command the moment it is dispatched.      *)
(* There is no await between two actions' bodies: every await of the code  *)
(* is a step between two actions.                                          *)
(***************************************************************************)
EXTENDS AgentDecision, FiniteSets, Sequences, SequencesExt

CONSTANTS
  Workers,             \* Celery worker processes
  Requests,            \* API requests (and API startups); each is made once
  Slots,               \* start times, as numbers in their order
  DefaultSlot,         \* 06:00, the start time when nothing is scheduled
  InitialRows,         \* the date's rows when the story starts
  TemplateRows,        \* the rows the bootstrap expects for the date
  OperatorDurations,   \* durations an operator may post
  Replies,             \* parsed replies of the language model
  HeuristicAgent,      \* AGENT_MODE is heuristic, not langchain
  PersistsWeather,     \* runs whose pull brings rows, which are written in their
                       \*   transaction: none if the provider is not refreshable
  ConfidenceThreshold, \* in hundredths
  MaxRetries,          \* max_retries of the task
  MaxTriggers,         \* bound: triggers for the date
  MaxCrashes,          \* bound: crashes of a worker
  MaxRuns              \* bound: runs created

Runs == 1..MaxRuns

\* Who wrote a row: a run, by its number, or
Seed == 0
Operator == -1

Row(slot, dur, by) == [slot |-> slot, dur |-> dur, by |-> by, live |-> TRUE]
Rows == [slot : Slots, dur : Nat \ {0}, by : -1..MaxRuns, live : BOOLEAN]

ASSUME SessionAssumption == Workers \cap Requests = {}
ASSUME SlotAssumption == Slots \subseteq Nat /\ DefaultSlot \in Slots
ASSUME RowAssumption ==
  /\ InitialRows \in Seq(Rows)
  /\ \A i \in DOMAIN InitialRows : InitialRows[i].by \in {Seed, Operator}
  /\ TemplateRows \subseteq {row \in Rows : row.by = Seed /\ row.live}
  /\ IsFiniteSet(TemplateRows)
ASSUME DurationAssumption == OperatorDurations \subseteq Nat \ {0}
ASSUME ReplyAssumption == Replies \subseteq ParsedReplies
ASSUME ConfigAssumption ==
  /\ HeuristicAgent \in BOOLEAN
  /\ PersistsWeather \subseteq Runs
  /\ ConfidenceThreshold \in 0..100
ASSUME BoundAssumption ==
  /\ MaxRetries \in Nat
  /\ MaxTriggers \in Nat
  /\ MaxCrashes \in Nat
  /\ MaxRuns \in Nat

Sessions == Workers \union Requests

VARIABLES
  \* The broker.
  queue,     \* queue[n]: messages waiting that have been retried n times
  triggers,  \* triggers published so far
  crashes,   \* crashes so far
  retries,   \* retries[w]: retry count of the message worker w works on
  \* Each session: control, and its open transaction.
  phase,     \* where the session is
  read,      \* read[s]: ids of the rows the session's last SELECT returned
  hid,       \* hid[s]: ids of rows its transaction has set inactive, and locked
  ins,       \* ins[s]: rows its transaction has inserted
  \* The local variables of execute() in each worker.
  run,       \* run[w]: number of the AdjustmentRun
  base,      \* base[w]: start and duration of schedules[0], or 06:00 and 0
  rec,       \* rec[w]: the agent's recommendation
  result,    \* result[w]: the rule engine's result
  \* What is durable, and what cannot be taken back.
  cur,       \* current_baseline_schedule: a row's id is its position
  lastRun,   \* runs created so far
  durable,   \* durable[r]: committed state of run r
  sent       \* sent[r]: commands dispatched to the device for run r

brokerVars == <<queue, triggers, crashes, retries>>
txnVars == <<read, hid, ins>>
localVars == <<run, base, rec, result>>
storeVars == <<cur, lastRun, durable, sent>>
vars == <<brokerVars, phase, txnVars, localVars, storeVars>>

-----------------------------------------------------------------------------
(* Phases.  Those of a run are named after the RunState it is in, or after   *)
(* the repository call it is about to make.                                  *)

BootPhases == {"starting", "booting"}
TryPhases == {"queued", "collecting_data", "reasoning", "rule_check",
              "approval_gate", "deactivating", "saving", "superseding",
              "dispatching", "verifying"}
EndPhases == {"closed", "manual_review", "failed"}
TaskPhases == {"idle", "bootstrapped", "committed", "raised", "settled"}
                \union BootPhases \union TryPhases \union EndPhases
RequestPhases == {"idle", "saving", "superseding", "committing", "done"}
                   \union BootPhases

\* The run of worker w exists only in its open transaction.
Running(w) == phase[w] \in TryPhases \union EndPhases

NoBase == [slot |-> DefaultSlot, dur |-> 0]
NoResult == [action |-> "keep", dur |-> 0, mismatch |-> FALSE]

Commands == [action : Actions, dur : Durations, slot : Slots]

BrokerType ==
  /\ queue \in [0..MaxRetries -> Nat]
  /\ triggers \in 0..MaxTriggers
  /\ crashes \in 0..MaxCrashes
  /\ retries \in [Workers -> 0..MaxRetries]

PhaseType ==
  /\ phase \in [Sessions -> TaskPhases \union RequestPhases]
  /\ \A w \in Workers : phase[w] \in TaskPhases
  /\ \A q \in Requests : phase[q] \in RequestPhases

TxnType ==
  /\ read \in [Sessions -> SUBSET (DOMAIN cur)]
  /\ hid \in [Sessions -> SUBSET (DOMAIN cur)]
  /\ ins \in [Sessions -> Seq(Rows)]

LocalType ==
  /\ run \in [Workers -> 0..MaxRuns]
  /\ base \in [Workers -> [slot : Slots, dur : Nat]]
  /\ rec \in [Workers -> RecommendationValues]
  /\ result \in [Workers -> RuleResults]

StoreType ==
  /\ cur \in Seq(Rows)
  /\ lastRun \in 0..MaxRuns
  /\ durable \in [Runs -> {"absent", "closed", "manual_review"}]
  /\ sent \in [Runs -> Seq(Commands)]

TypeOK == BrokerType /\ PhaseType /\ TxnType /\ LocalType /\ StoreType

Init ==
  /\ queue = [n \in 0..MaxRetries |-> 0]
  /\ triggers = 0
  /\ crashes = 0
  /\ retries = [w \in Workers |-> 0]
  /\ phase = [s \in Sessions |-> "idle"]
  /\ read = [s \in Sessions |-> {}]
  /\ hid = [s \in Sessions |-> {}]
  /\ ins = [s \in Sessions |-> <<>>]
  /\ run = [w \in Workers |-> 0]
  /\ base = [w \in Workers |-> NoBase]
  /\ rec = [w \in Workers |-> Heuristic(0)]
  /\ result = [w \in Workers |-> NoResult]
  /\ cur = InitialRows
  /\ lastRun = 0
  /\ durable = [r \in Runs |-> "absent"]
  /\ sent = [r \in Runs |-> <<>>]

-----------------------------------------------------------------------------
(* The database.                                                             *)

\* Rows a SELECT for visible rows returns: is_active and not superseded.
Visible == {i \in DOMAIN cur : cur[i].live}
VisibleAt(slot) == {i \in Visible : cur[i].slot = slot}

\* Of these rows, those that start first.
Earliest(ids) == {i \in ids : \A j \in ids : cur[i].slot <= cur[j].slot}

\* An UPDATE of row i by session s waits for nobody.
Unlocked(i, s) == \A t \in Sessions \ {s} : i \notin hid[t]

\* The rows session s has read and not updated yet.
Left(s) == read[s] \ hid[s]

\* The table once session s commits.
Committed(s) ==
  [i \in DOMAIN cur |->
     IF i \in hid[s] THEN [cur[i] EXCEPT !.live = FALSE] ELSE cur[i]] \o ins[s]

\* COMMIT of session s: its locks are released.
CommitTxn(s) ==
  /\ cur' = Committed(s)
  /\ hid' = [hid EXCEPT ![s] = {}]
  /\ ins' = [ins EXCEPT ![s] = <<>>]
  /\ read' = [read EXCEPT ![s] = {}]

\* Mutant of RollbackTxn: the session commits on its way out, perhaps to keep
\* the FAILED state.
RollbackCommits(s) == CommitTxn(s)

\* Mutant of RollbackTxn: the connection goes back to the pool in transaction.
RollbackLeaks(s) ==
  /\ ins' = [ins EXCEPT ![s] = <<>>]
  /\ read' = [read EXCEPT ![s] = {}]
  /\ UNCHANGED <<cur, hid>>

\* ROLLBACK of session s: so are they.
RollbackTxn(s) ==
  /\ hid' = [hid EXCEPT ![s] = {}]
  /\ ins' = [ins EXCEPT ![s] = <<>>]
  /\ read' = [read EXCEPT ![s] = {}]
  /\ UNCHANGED cur

Goto(s, there) == phase' = [phase EXCEPT ![s] = there]

-----------------------------------------------------------------------------
(* bootstrap_database, before every run and at every API startup.            *)

\* It re-creates the Grafana views first, whose lock makes a second bootstrap
\* wait; then it looks for the template rows no visible row stands for.
BootRead(s) ==
  /\ phase[s] = "starting"
  /\ \A t \in Sessions : phase[t] # "booting"
  /\ ins' = [ins EXCEPT ![s] =
               SetToSeq({row \in TemplateRows : VisibleAt(row.slot) = {}})]
  /\ Goto(s, "booting")
  /\ UNCHANGED <<brokerVars, read, hid, localVars, storeVars>>

BootCommit(s) ==
  /\ phase[s] = "booting"
  /\ CommitTxn(s)
  /\ Goto(s, IF s \in Workers THEN "bootstrapped" ELSE "done")
  /\ UNCHANGED <<brokerVars, localVars, lastRun, durable, sent>>

-----------------------------------------------------------------------------
(* SqlAlchemyScheduleRepository.save of a current row, for a run or a POST.  *)

\* Mutant of SaveSelect: the SELECT misses the rows of the slot.
SaveSelectNone(s) ==
  /\ phase[s] = "saving"
  /\ read' = [read EXCEPT ![s] = {}]
  /\ Goto(s, "superseding")
  /\ UNCHANGED <<brokerVars, hid, ins, localVars, storeVars>>

\* SELECT of the visible rows of the slot.
SaveSelect(s) ==
  /\ phase[s] = "saving"
  /\ read' = [read EXCEPT ![s] = VisibleAt(ins[s][1].slot)]
  /\ Goto(s, "superseding")
  /\ UNCHANGED <<brokerVars, hid, ins, localVars, storeVars>>

\* Mutant of Supersede: each UPDATE commits on its own.
SupersedeCommits(s) ==
  /\ phase[s] = "superseding"
  /\ \E i \in Left(s) :
       /\ Unlocked(i, s)
       /\ cur' = [cur EXCEPT ![i].live = FALSE]
       /\ hid' = [hid EXCEPT ![s] = @ \union {i}]
  /\ UNCHANGED <<brokerVars, phase, read, ins, localVars, lastRun, durable, sent>>

\* The flush: an UPDATE of each of those rows by primary key, whatever it has
\* become meanwhile, in an order left open here; for a DELETE request, of the one
\* row it names.
Supersede(s) ==
  /\ phase[s] = "superseding"
  /\ \E i \in Left(s) :
       /\ Unlocked(i, s)
       /\ hid' = [hid EXCEPT ![s] = @ \union {i}]
  /\ UNCHANGED <<brokerVars, phase, read, ins, localVars, storeVars>>

AllSuperseded(s) ==
  /\ phase[s] = "superseding"
  /\ read[s] \subseteq hid[s]
  /\ Goto(s, IF s \in Workers THEN "dispatching" ELSE "committing")
  /\ UNCHANGED <<brokerVars, txnVars, localVars, storeVars>>

-----------------------------------------------------------------------------
(* The Celery task.                                                          *)

\* Celery Beat or an operator publishes the task, with the same arguments each
\* time.  (trigger_daily_adjustment.py calls execute_daily_adjustment without
\* the broker: on the database that is a worker with MaxRetries = 0.)
Trigger ==
  /\ triggers < MaxTriggers
  /\ triggers' = triggers + 1
  /\ queue' = [queue EXCEPT ![0] = @ + 1]
  /\ UNCHANGED <<crashes, retries, phase, txnVars, localVars, storeVars>>

\* A worker takes a message; with acks_late it stays the broker's until Ack.
Receive(w) ==
  /\ phase[w] = "idle"
  /\ \E n \in 0..MaxRetries :
       /\ queue[n] > 0
       /\ queue' = [queue EXCEPT ![n] = @ - 1]
       /\ retries' = [retries EXCEPT ![w] = n]
  /\ Goto(w, "starting")
  /\ UNCHANGED <<triggers, crashes, txnVars, localVars, storeVars>>

\* What a worker keeps between messages: nothing.
ForgetTask(w) ==
  /\ retries' = [retries EXCEPT ![w] = 0]
  /\ run' = [run EXCEPT ![w] = 0]
  /\ base' = [base EXCEPT ![w] = NoBase]
  /\ rec' = [rec EXCEPT ![w] = Heuristic(0)]
  /\ result' = [result EXCEPT ![w] = NoResult]

\* The task returned or gave up: the broker forgets the message.
Ack(w) ==
  /\ phase[w] \in {"committed", "settled"}
  /\ Goto(w, "idle")
  /\ ForgetTask(w)
  /\ UNCHANGED <<queue, triggers, crashes, txnVars, storeVars>>

\* Mutant of Retry: the message is published again with the count it had.
RetrySameCount(w) ==
  /\ phase[w] = "raised"
  /\ queue' = [queue EXCEPT ![retries[w]] = @ + 1]
  /\ Goto(w, "settled")
  /\ UNCHANGED <<triggers, crashes, retries, txnVars, localVars, storeVars>>

\* daily_adjustment_task's handler: self.retry publishes the message again with
\* one more retry, or raises MaxRetriesExceededError.
Retry(w) ==
  /\ phase[w] = "raised"
  /\ queue' = IF retries[w] < MaxRetries
              THEN [queue EXCEPT ![retries[w] + 1] = @ + 1]
              ELSE queue
  /\ Goto(w, "settled")
  /\ UNCHANGED <<triggers, crashes, retries, txnVars, localVars, storeVars>>

\* The worker dies at any point.  The server rolls its transaction back.  The
\* broker delivers the message again when the whole worker is gone; when only
\* the child process is, the message counts as acknowledged.
Crash(w) ==
  /\ phase[w] # "idle"
  /\ crashes < MaxCrashes
  /\ crashes' = crashes + 1
  /\ queue' \in {queue, [queue EXCEPT ![retries[w]] = @ + 1]}
  /\ RollbackTxn(w)
  /\ Goto(w, "idle")
  /\ ForgetTask(w)
  /\ UNCHANGED <<triggers, storeVars>>

-----------------------------------------------------------------------------
(* execute_daily_adjustment and RunDailyAdjustmentUseCase.execute.           *)

\* A new AdjustmentRun with a fresh id, whatever runs the date already has.
Create(w) ==
  /\ phase[w] = "bootstrapped"
  /\ lastRun < MaxRuns
  /\ lastRun' = lastRun + 1
  /\ run' = [run EXCEPT ![w] = lastRun + 1]
  /\ Goto(w, "queued")
  /\ UNCHANGED <<brokerVars, txnVars, base, rec, result, cur, durable, sent>>

\* get_active_for_date orders by start time only: among rows with the earliest
\* start any may come first.
FirstOf(ids) ==
  IF ids = {} THEN {NoBase}
  ELSE {[slot |-> cur[i].slot, dur |-> cur[i].dur] : i \in Earliest(ids)}

Collect(w) ==
  /\ phase[w] = "queued"
  /\ read' = [read EXCEPT ![w] = Visible]
  /\ \E first \in FirstOf(Visible) : base' = [base EXCEPT ![w] = first]
  /\ Goto(w, "collecting_data")
  /\ UNCHANGED <<brokerVars, hid, ins, run, rec, result, storeVars>>

\* Worker v's transaction has written the forecast rows of the location.
HoldsWeather(v) ==
  /\ run[v] \in PersistsWeather
  /\ phase[v] \in (TryPhases \ {"queued", "collecting_data"}) \union EndPhases

\* get_weather_context; the rows of a pull are upserted, which waits for any other
\* run that has upserted them and not ended.
GetWeather(w) ==
  /\ phase[w] = "collecting_data"
  /\ run[w] \in PersistsWeather => \A v \in Workers \ {w} : ~HoldsWeather(v)
  /\ Goto(w, "reasoning")
  /\ UNCHANGED <<brokerVars, txnVars, localVars, storeVars>>

\* What the agent may recommend on baseline b.
Recommendations(b) ==
  IF HeuristicAgent THEN {Heuristic(b)}
  ELSE {Coerce(reply, b, dry) : reply \in {x \in Replies : Acceptable(x)},
                                dry \in BOOLEAN}

Recommend(w) ==
  /\ phase[w] = "reasoning"
  /\ \E r \in Recommendations(base[w].dur) : rec' = [rec EXCEPT ![w] = r]
  /\ Goto(w, "rule_check")
  /\ UNCHANGED <<brokerVars, txnVars, run, base, result, storeVars>>

\* The task never asks for a maintenance blackout.
ApplyRules(w) ==
  /\ phase[w] = "rule_check"
  /\ result' = [result EXCEPT ![w] = Apply(rec[w], base[w].dur, FALSE)]
  /\ Goto(w, "approval_gate")
  /\ UNCHANGED <<brokerVars, txnVars, run, base, rec, storeVars>>

NeedsReview(w) ==
  result[w].mismatch \/ rec[w].conf < ConfidenceThreshold

\* Mutant of Waters: a command of 0 minutes is saved too.
WatersNothing(res) == res.action # "skip" /\ res.dur # NoDuration

\* There is a corrected schedule to save.
Waters(res) == res.action # "skip" /\ res.dur # NoDuration /\ res.dur > 0

\* The gate, and the choice of what to persist before dispatching.  A row to
\* save takes the start of schedules[0].
Gate(w) ==
  /\ phase[w] = "approval_gate"
  /\ Goto(w, IF NeedsReview(w) THEN "manual_review"
             ELSE IF result[w].action = "skip" THEN "deactivating"
             ELSE IF Waters(result[w]) THEN "saving"
             ELSE "dispatching")
  /\ ins' = IF ~NeedsReview(w) /\ Waters(result[w])
            THEN [ins EXCEPT ![w] = <<Row(base[w].slot, result[w].dur, run[w])>>]
            ELSE ins
  /\ UNCHANGED <<brokerVars, read, hid, localVars, storeVars>>

\* Mutant of Deactivate: the rows are read without ORDER BY.
DeactivateUnordered(w) ==
  /\ phase[w] = "deactivating"
  /\ \E i \in Left(w) :
       /\ Unlocked(i, w)
       /\ hid' = [hid EXCEPT ![w] = @ \union {i}]
  /\ UNCHANGED <<brokerVars, phase, read, ins, localVars, storeVars>>

\* A skip deactivates the rows read at the start, one UPDATE each, in the order
\* of their starts.
Deactivate(w) ==
  /\ phase[w] = "deactivating"
  /\ \E i \in Earliest(Left(w)) :
       /\ Unlocked(i, w)
       /\ hid' = [hid EXCEPT ![w] = @ \union {i}]
  /\ UNCHANGED <<brokerVars, phase, read, ins, localVars, storeVars>>

\* Mutant of AllDeactivated: only schedules[0] is deactivated.
FirstDeactivated(w) ==
  /\ phase[w] = "deactivating"
  /\ read[w] = {} \/ hid[w] # {}
  /\ Goto(w, "dispatching")
  /\ UNCHANGED <<brokerVars, txnVars, localVars, storeVars>>

AllDeactivated(w) ==
  /\ phase[w] = "deactivating"
  /\ read[w] \subseteq hid[w]
  /\ Goto(w, "dispatching")
  /\ UNCHANGED <<brokerVars, txnVars, localVars, storeVars>>

CommandOf(w) ==
  [action |-> result[w].action, dur |-> result[w].dur, slot |-> base[w].slot]

\* Mutant of Dispatch: a dispatch whose answer is late is made again.
DispatchAgain(w) ==
  /\ phase[w] = "dispatching"
  /\ sent' = [sent EXCEPT ![run[w]] = Append(@, CommandOf(w))]
  /\ Goto(w, "verifying") \/ UNCHANGED phase
  /\ UNCHANGED <<brokerVars, txnVars, localVars, cur, lastRun, durable>>

\* The receipt is not looked at.
Dispatch(w) ==
  /\ phase[w] = "dispatching"
  /\ sent' = [sent EXCEPT ![run[w]] = Append(@, CommandOf(w))]
  /\ Goto(w, "verifying")
  /\ UNCHANGED <<brokerVars, txnVars, localVars, cur, lastRun, durable>>

Close(w) ==
  /\ phase[w] = "verifying"
  /\ Goto(w, "closed")
  /\ UNCHANGED <<brokerVars, txnVars, localVars, storeVars>>

\* execute returned: session.commit().
Commit(w) ==
  /\ phase[w] \in {"closed", "manual_review"}
  /\ CommitTxn(w)
  /\ durable' = [durable EXCEPT ![run[w]] = phase[w]]
  /\ Goto(w, "committed")
  /\ UNCHANGED <<brokerVars, localVars, lastRun, sent>>

\* Any await of the try block raises: the run is failed, in the transaction.
Fail(w) ==
  /\ phase[w] \in TryPhases
  /\ Goto(w, "failed")
  /\ UNCHANGED <<brokerVars, txnVars, localVars, storeVars>>

\* The exception leaves execute_daily_adjustment, whose session rolls back.
Rollback(w) ==
  /\ phase[w] = "failed"
  /\ RollbackTxn(w)
  /\ Goto(w, "raised")
  /\ UNCHANGED <<brokerVars, localVars, lastRun, durable, sent>>

\* An exception outside the try block: in the bootstrap, creating the run, in
\* the commit, or after it (its answer is lost, or the session fails to close).
Raise(w) ==
  /\ phase[w] \in BootPhases \union {"bootstrapped", "closed", "manual_review", "committed"}
  /\ RollbackTxn(w)
  /\ Goto(w, "raised")
  /\ UNCHANGED <<brokerVars, localVars, lastRun, durable, sent>>

-----------------------------------------------------------------------------
(* The API.                                                                  *)

\* create_current_schedule builds the row before it touches the database.
Post(q) ==
  /\ phase[q] = "idle"
  /\ \E slot \in Slots, dur \in OperatorDurations :
       ins' = [ins EXCEPT ![q] = <<Row(slot, dur, Operator)>>]
  /\ Goto(q, "saving")
  /\ UNCHANGED <<brokerVars, read, hid, localVars, storeVars>>

\* deactivate_schedule reads the row it names; a deactivated one is a 409.
Delete(q) ==
  /\ phase[q] = "idle"
  /\ \E i \in Visible : read' = [read EXCEPT ![q] = {i}]
  /\ Goto(q, "superseding")
  /\ UNCHANGED <<brokerVars, hid, ins, localVars, storeVars>>

\* lifespan: the API starts, and bootstraps the database.
Startup(q) ==
  /\ phase[q] = "idle"
  /\ Goto(q, "starting")
  /\ UNCHANGED <<brokerVars, txnVars, localVars, storeVars>>

CommitRequest(q) ==
  /\ phase[q] = "committing"
  /\ CommitTxn(q)
  /\ Goto(q, "done")
  /\ UNCHANGED <<brokerVars, localVars, lastRun, durable, sent>>

\* A request raises, or its process dies: its session rolls back.
FailRequest(q) ==
  /\ phase[q] \in RequestPhases \ {"idle", "done"}
  /\ RollbackTxn(q)
  /\ Goto(q, "done")
  /\ UNCHANGED <<brokerVars, localVars, lastRun, durable, sent>>

-----------------------------------------------------------------------------
\* What a worker does when nothing goes wrong, and its way out when it does.
Progress(w) ==
  \/ Receive(w) \/ BootRead(w) \/ BootCommit(w) \/ Create(w) \/ Collect(w)
  \/ GetWeather(w) \/ Recommend(w) \/ ApplyRules(w) \/ Gate(w)
  \/ SaveSelect(w) \/ Supersede(w) \/ AllSuperseded(w)
  \/ Deactivate(w) \/ AllDeactivated(w)
  \/ Dispatch(w) \/ Close(w) \/ Commit(w)
  \/ Rollback(w) \/ Retry(w) \/ Ack(w)

Mishap(w) == Fail(w) \/ Raise(w) \/ Crash(w)

Arrive(q) == Post(q) \/ Delete(q) \/ Startup(q)

Serve(q) ==
  \/ BootRead(q) \/ BootCommit(q) \/ SaveSelect(q) \/ Supersede(q)
  \/ AllSuperseded(q) \/ CommitRequest(q)

\* Nothing is left to do.
Quiet == /\ \A n \in 0..MaxRetries : queue[n] = 0
         /\ \A w \in Workers : phase[w] = "idle"

Finished == /\ Quiet
            /\ triggers = MaxTriggers
            /\ \A q \in Requests : phase[q] = "done"
            /\ UNCHANGED vars

Next ==
  \/ Trigger
  \/ \E w \in Workers : Progress(w) \/ Mishap(w)
  \/ \E q \in Requests : Arrive(q) \/ Serve(q) \/ FailRequest(q)
  \/ Finished

Spec == Init /\ [][Next]_vars

\* The rows of which session s may be about to update any.
NextRows(s) == CASE phase[s] = "deactivating" -> Earliest(Left(s))
                 [] phase[s] = "superseding" -> Left(s)
                 [] OTHER -> {}

\* The next UPDATE of session v may be of a row that session w has locked.
WaitsFor(v, w) == NextRows(v) \cap hid[w] # {}

\* PostgreSQL finds a cycle of waits, and one of its sessions gets an error.
Victim(s) ==
  /\ \E cycle \in SUBSET Sessions :
       s \in cycle /\ \A v \in cycle : \E u \in cycle \ {v} : WaitsFor(v, u)
  /\ IF s \in Workers THEN Fail(s) ELSE FailRequest(s)

\* Workers keep working, requests in progress keep being served and the server
\* breaks deadlocks; nothing else need go wrong, and nobody need trigger or ask
\* anything.
Fairness == /\ \A w \in Workers : WF_vars(Progress(w))
            /\ \A q \in Requests : WF_vars(Serve(q))
            /\ \A s \in Sessions : WF_vars(Victim(s))

FairSpec == Spec /\ Fairness

-----------------------------------------------------------------------------
(* What holds.                                                               *)

InProgress(r) == \E w \in Workers : Running(w) /\ run[w] = r

RowsBy(r) == {i \in DOMAIN cur : cur[i].by = r}

\* The schedule and the run table tell the same story as the device: a run has
\* a row in the schedule exactly when it closed after a command that waters,
\* the row is its only one, and its start and duration are the command's; a run
\* that is in progress, in review or gone has none.  Crashes, retries, answers
\* lost after a commit and the writes of other sessions do not change that.
ScheduleFollowsRun ==
  \A r \in Runs :
    IF durable[r] = "closed" /\ sent[r] # <<>> /\ Waters(sent[r][1])
    THEN \E i \in DOMAIN cur : /\ RowsBy(r) = {i}
                              /\ cur[i].slot = sent[r][1].slot
                              /\ cur[i].dur = sent[r][1].dur
    ELSE RowsBy(r) = {}

\* Retries are bounded: max_retries is counted per message, a worker forgets
\* everything between messages, and yet a trigger or a redelivery after a crash
\* is never worth more than MaxRetries + 1 runs.
AttemptBudget == lastRun <= (triggers + crashes) * (MaxRetries + 1)

\* Who may empty an occupied slot: a run that skips, or a DELETE, when it
\* commits.  Superseding a row and inserting its replacement are one step to
\* everyone else, whatever interleaves with them.
SlotNeverEmptied ==
  [][\A slot \in Slots :
       VisibleAt(slot) # {} /\ VisibleAt(slot)' = {} =>
         \/ \E w \in Workers : /\ phase[w] = "closed" /\ phase'[w] = "committed"
                               /\ result[w].action = "skip"
         \/ \E q \in Requests : /\ phase[q] = "committing" /\ phase'[q] = "done"
                                /\ ins[q] = <<>>]_vars

\* Each run honours RunContract: one command at most, closed only after it and
\* together with its row, referred to review only without it.
Contract == INSTANCE RunContract WITH
  status <- [r \in Runs |-> IF durable[r] # "absent" THEN durable[r]
                            ELSE IF InProgress(r) THEN "open"
                            ELSE IF r > lastRun THEN "unborn"
                            ELSE "gone"],
  plan <- [r \in Runs |-> {[slot |-> cur[i].slot, dur |-> cur[i].dur] : i \in RowsBy(r)}]
ContractHolds == Contract!Spec

\* With fair workers everything comes to rest: no message is redelivered
\* for ever, no session waits for ever for a lock, and no lock outlives its
\* session.
Drains == <>[](Quiet /\ \A s \in Sessions : hid[s] = {})

AtWork(s) == phase[s] \notin {"idle", "done"}

\* The next statement of session s may have to wait for another session: for the
\* lock on the views, on the weather rows of a pull, or on a row it may update.
Blocked(s) ==
  \/ phase[s] = "starting" /\ \E t \in Sessions : phase[t] = "booting"
  \/ /\ phase[s] = "collecting_data"
     /\ run[s] \in PersistsWeather
     /\ \E v \in Workers \ {s} : HoldsWeather(v)
  \/ \E i \in NextRows(s) : ~Unlocked(i, s)

\* Sessions each of which has locked a row of this start, and may be about to
\* update another row of the same start that the next one has locked.
CycleOver(slot) ==
  \E cycle \in (SUBSET Sessions) \ {{}} : \A v \in cycle :
    /\ \E i \in hid[v] : cur[i].slot = slot
    /\ \E u \in cycle \ {v} : \E j \in NextRows(v) \cap hid[u] : cur[j].slot = slot

\* Sessions take three kinds of locks and hold some of them through a model's
\* answer, yet they never all wait, but for a cycle that the server breaks: one
\* of skips and saves over the rows of a single slot that has two (a skip orders
\* rows by their start alone, a save by their keys).  No bootstrap, no pull and no
\* wait for another slot is ever part of one, and nobody waits for a session that
\* has ended.
NoGridlock ==
  (\E s \in Sessions : AtWork(s)) =>
     \/ \E s \in Sessions : AtWork(s) /\ ~Blocked(s)
     \/ \E slot \in Slots : CycleOver(slot)

-----------------------------------------------------------------------------
(* What holds as long as runs do not overlap (one worker, no requests).      *)

\* A POST or a run's save supersedes any visible row for the same slot
\* (schedules.py, create_current_schedule): a slot has at most one visible row.
SlotUnique == \A slot \in Slots : Cardinality(VisibleAt(slot)) <= 1

\* docs/BASELINE_SCHEDULE_ALABAMA.md, section 6: a skip overrides the baseline
\* entirely for its run window.  When it commits, nothing is left to water.
SkipClearsDate ==
  [][\A w \in Workers :
       phase[w] = "closed" /\ phase'[w] = "committed" /\ result[w].action = "skip"
         => Visible' = {}]_vars

\* What a run plans for a slot differs from what the slot had by MaxAdjustPct of
\* the latter at most, give or take the half minute of rounding: the bound of
\* rule 4 is on the row that was read, and between the read, a model's answer,
\* the coercion and the commit it stays the row that is superseded.
BoundedStep ==
  [][\A w \in Workers :
       phase[w] = "closed" /\ phase'[w] = "committed" =>
         \A i \in DOMAIN ins[w], j \in hid[w] :
           /\ ins[w][i].slot = cur[j].slot
           /\ 100 * (ins[w][i].dur - cur[j].dur) <= MaxAdjustPct * cur[j].dur + 50
           /\ 100 * (cur[j].dur - ins[w][i].dur) <= MaxAdjustPct * cur[j].dur + 50]_vars

-----------------------------------------------------------------------------
(* What the documents say and the code does not do.                          *)

\* docs/BASELINE_SCHEDULE_ALABAMA.md, section 6: adjustments are bounded by a
\* percentage of the baseline, so a row a run put in place of a seeded one is
\* within it, give or take the half minute of rounding.
WithinBaselinePct ==
  \A i, j \in DOMAIN cur :
    cur[i].by \in Runs /\ cur[j].by = Seed /\ cur[i].slot = cur[j].slot =>
      /\ 100 * (cur[i].dur - cur[j].dur) <= MaxAdjustPct * cur[j].dur + 50
      /\ 100 * (cur[j].dur - cur[i].dur) <= MaxAdjustPct * cur[j].dur + 50

\* docs/ORCHESTRATION.md, section 9: if the adapter fails the run remains failed
\* and must be manually reconciled, so a run that commanded the device is on
\* record once nobody works on it.
CommandOnRecord ==
  \A r \in Runs : sent[r] # <<>> /\ ~InProgress(r) => durable[r] # "absent"
==============================================================================
