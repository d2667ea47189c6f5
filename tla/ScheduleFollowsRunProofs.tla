---------------------- MODULE ScheduleFollowsRunProofs ----------------------
(***************************************************************************)
(* The proof that the schedule, the run table and the device tell the same *)
(* story (ScheduleFollowsRun of DailyAdjustment), and that it implements   *)
(* RunContract, for any number of workers, requests, triggers, retries,    *)
(* crashes and runs.                                                       *)
(***************************************************************************)
EXTENDS DailyAdjustmentProofs

-----------------------------------------------------------------------------
(* The inductive invariant.                                                  *)

PendingPhases == {"saving", "superseding", "dispatching", "verifying", "closed"}

UndispatchedPhases == (TryPhases \ {"verifying"}) \union {"manual_review"}

\* What the transaction of a worker inserts once the gate is passed.
Pending(w) ==
  IF Waters(result[w]) THEN <<Row(base[w].slot, result[w].dur, run[w])>> ELSE <<>>

\* The open transaction of a worker holds its pending row and nothing else; in
\* the bootstrap, seeded rows; on its way to the rollback, anything.
TxnInv(w) ==
  /\ phase[w] \in {"saving", "superseding"} => Waters(result[w])
  /\ phase[w] = "deactivating" => ~Waters(result[w])
  /\ phase[w] \in PendingPhases => ins[w] = Pending(w)
  /\ phase[w] = "booting" => \A i \in DOMAIN ins[w] : ins[w][i].by = Seed
  /\ phase[w] \notin PendingPhases \union {"booting", "failed"} => ins[w] = <<>>

\* A run in progress is not durable, and has sent its command or has not,
\* according to how far it is.
RunInv(w) ==
  Running(w) =>
    /\ run[w] \in 1..lastRun
    /\ durable[run[w]] = "absent"
    /\ phase[w] \in UndispatchedPhases => sent[run[w]] = <<>>
    /\ phase[w] \in {"verifying", "closed"} => sent[run[w]] = <<CommandOf(w)>>

\* A request writes an operator's row or seeded ones.
RequestInv(q) == \A i \in DOMAIN ins[q] : ins[q][i].by \in {Seed, Operator}

\* No two workers work on one run.
RunsDistinct ==
  \A v, w \in Workers : v # w /\ Running(v) /\ Running(w) => run[v] # run[w]

\* A run that is not created yet has done nothing.
FutureRuns ==
  \A r \in Runs : r > lastRun => durable[r] = "absent" /\ sent[r] = <<>>

IInv ==
  /\ TypeOK
  /\ \A w \in Workers : TxnInv(w) /\ RunInv(w)
  /\ \A q \in Requests : RequestInv(q)
  /\ RunsDistinct
  /\ FutureRuns
  /\ ScheduleFollowsRun

-----------------------------------------------------------------------------
(* What a step leaves alone.                                                 *)

SessionStep(s) ==
  \/ s \in Workers /\ (Progress(s) \/ Mishap(s))
  \/ s \in Requests /\ (Arrive(s) \/ Serve(s) \/ FailRequest(s))

Same(t) ==
  /\ phase'[t] = phase[t]
  /\ ins'[t] = ins[t]
  /\ t \in Workers => run'[t] = run[t] /\ base'[t] = base[t] /\ result'[t] = result[t]

\* A step of one session leaves the control, the transaction and the local
\* variables of the others alone.
LEMMA Bystander ==
  ASSUME TypeOK, NEW s \in Sessions, SessionStep(s), NEW t \in Sessions \ {s}
  PROVE  Same(t)
<1>1. /\ phase \in [Sessions -> TaskPhases \union RequestPhases]
      /\ ins \in [Sessions -> Seq(Rows)]
      /\ run \in [Workers -> 0..MaxRuns]
      /\ base \in [Workers -> [slot : Slots, dur : Nat]]
      /\ result \in [Workers -> RuleResults]
  BY DEF TypeOK, PhaseType, TxnType, LocalType
<1>2. \A there : Goto(s, there) => phase'[t] = phase[t]
  BY <1>1 DEF Goto
<1>3. CommitTxn(s) \/ RollbackTxn(s) => ins'[t] = ins[t]
  BY <1>1 DEF CommitTxn, RollbackTxn
<1>4. t \in Workers /\ ForgetTask(s) => run'[t] = run[t] /\ base'[t] = base[t] /\ result'[t] = result[t]
  BY <1>1 DEF ForgetTask
<1> USE DEF Same, brokerVars, txnVars, localVars, storeVars
<1>5. CASE BootRead(s) \/ BootCommit(s) \/ SaveSelect(s) \/ Supersede(s) \/ AllSuperseded(s)
  <2>1. CASE BootRead(s)
    BY <1>1, <1>2, <2>1 DEF BootRead
  <2>2. CASE BootCommit(s)
    BY <1>2, <1>3, <2>2 DEF BootCommit
  <2>3. CASE SaveSelect(s)
    BY <1>2, <2>3 DEF SaveSelect
  <2>4. CASE Supersede(s) \/ AllSuperseded(s)
    BY <1>2, <2>4 DEF Supersede, AllSuperseded
  <2> QED
    BY <1>5, <2>1, <2>2, <2>3, <2>4
<1>6. CASE Receive(s) \/ GetWeather(s) \/ AllDeactivated(s) \/ Close(s) \/ Retry(s) \/ Fail(s)
  BY <1>2, <1>6 DEF Receive, GetWeather, AllDeactivated, Close, Retry, Fail
<1>7. CASE Create(s) \/ Collect(s) \/ Recommend(s) \/ ApplyRules(s)
  <2>1. CASE Create(s)
    BY <1>1, <1>2, <2>1 DEF Create
  <2>2. CASE Collect(s)
    BY <1>1, <1>2, <2>2 DEF Collect
  <2>3. CASE Recommend(s)
    BY <1>2, <2>3 DEF Recommend
  <2>4. CASE ApplyRules(s)
    BY <1>1, <1>2, <2>4 DEF ApplyRules
  <2> QED
    BY <1>7, <2>1, <2>2, <2>3, <2>4
<1>8. CASE Gate(s)
  BY <1>1, <1>2, <1>8 DEF Gate
<1>9. CASE Deactivate(s)
  BY <1>9 DEF Deactivate
<1>10. CASE Dispatch(s)
  BY <1>2, <1>10 DEF Dispatch
<1>11. CASE Commit(s) \/ Rollback(s) \/ Raise(s)
  BY <1>2, <1>3, <1>11 DEF Commit, Rollback, Raise
<1>12. CASE Ack(s)
  BY <1>2, <1>4, <1>12 DEF Ack
<1>13. CASE Crash(s)
  BY <1>2, <1>3, <1>4, <1>13 DEF Crash
<1>14. CASE Post(s) \/ Delete(s) \/ Startup(s)
  <2>1. CASE Post(s)
    BY <1>1, <1>2, <2>1 DEF Post
  <2>2. CASE Delete(s) \/ Startup(s)
    BY <1>2, <2>2 DEF Delete, Startup
  <2> QED
    BY <1>14, <2>1, <2>2
<1>15. CASE CommitRequest(s) \/ FailRequest(s)
  BY <1>2, <1>3, <1>15 DEF CommitRequest, FailRequest
<1> QED
  BY <1>5, <1>6, <1>7, <1>8, <1>9, <1>10, <1>11, <1>12, <1>13, <1>14, <1>15
     DEF SessionStep, Progress, Mishap, Arrive, Serve

\* Runs are only added; a command is sent only by the dispatch, and a state is
\* made durable only by the commit, of the worker that has the run.
LEMMA StoreStep ==
  ASSUME TypeOK, NEW s \in Sessions, SessionStep(s)
  PROVE  /\ lastRun' = lastRun \/ (Create(s) /\ lastRun' = lastRun + 1)
         /\ sent' = sent \/ (s \in Workers /\ Dispatch(s))
         /\ durable' = durable \/ (s \in Workers /\ Commit(s))
         /\ \/ cur' = cur
            \/ BootCommit(s)
            \/ s \in Workers /\ Commit(s)
            \/ s \in Requests /\ CommitRequest(s)
<1> USE DEF storeVars
<1>1. CASE BootRead(s) \/ SaveSelect(s) \/ Supersede(s) \/ AllSuperseded(s)
  BY <1>1 DEF BootRead, SaveSelect, Supersede, AllSuperseded
<1>2. CASE BootCommit(s)
  BY <1>2 DEF BootCommit
<1>3. CASE Create(s)
  BY <1>3 DEF Create
<1>4. CASE Receive(s) \/ Collect(s) \/ GetWeather(s) \/ Recommend(s) \/ ApplyRules(s)
  BY <1>4 DEF Receive, Collect, GetWeather, Recommend, ApplyRules
<1>5. CASE Gate(s) \/ Deactivate(s) \/ AllDeactivated(s) \/ Close(s)
  BY <1>5 DEF Gate, Deactivate, AllDeactivated, Close
<1>6. CASE s \in Workers /\ Dispatch(s)
  BY <1>6 DEF Dispatch
<1>7. CASE s \in Workers /\ Commit(s)
  BY <1>7 DEF Commit
<1>8. CASE Rollback(s) \/ Raise(s) \/ FailRequest(s)
  BY <1>8 DEF Rollback, Raise, FailRequest, RollbackTxn
<1>9. CASE Retry(s) \/ Ack(s) \/ Fail(s) \/ Crash(s)
  BY <1>9 DEF Retry, Ack, Fail, Crash
<1>10. CASE Post(s) \/ Delete(s) \/ Startup(s)
  BY <1>10 DEF Post, Delete, Startup
<1>11. CASE s \in Requests /\ CommitRequest(s)
  BY <1>11 DEF CommitRequest
<1> QED
  BY <1>1, <1>2, <1>3, <1>4, <1>5, <1>6, <1>7, <1>8, <1>9, <1>10, <1>11
     DEF SessionStep, Progress, Mishap, Arrive, Serve

-----------------------------------------------------------------------------
(* What a worker's own step does to its transaction and to its run.          *)

\* Where a step takes the session, and what it leaves in its transaction.
LEMMA OwnStep ==
  ASSUME TypeOK, NEW s \in Sessions
  PROVE  /\ \A there : Goto(s, there) => phase'[s] = there
         /\ CommitTxn(s) \/ RollbackTxn(s) => ins'[s] = <<>>
<1>1. phase \in [Sessions -> TaskPhases \union RequestPhases]
  BY DEF TypeOK, PhaseType
<1>2. ins \in [Sessions -> Seq(Rows)]
  BY DEF TypeOK, TxnType
<1>3. \A there : Goto(s, there) => phase'[s] = there
  BY <1>1 DEF Goto
<1>4. CommitTxn(s) \/ RollbackTxn(s) => ins'[s] = <<>>
  BY <1>2 DEF CommitTxn, RollbackTxn
<1> QED
  BY <1>3, <1>4

\* The transaction of a worker that keeps its locals keeps its pending row.
LEMMA PendingKept ==
  ASSUME NEW w, UNCHANGED localVars
  PROVE  Pending(w)' = Pending(w) /\ (Waters(result[w])' <=> Waters(result[w]))
BY DEF Pending, Waters, Row, localVars

LEMMA OwnTxnStep ==
  ASSUME TypeOK, NEW w \in Workers, TxnInv(w), Progress(w) \/ Mishap(w)
  PROVE  TxnInv(w)'
<1>0. w \in Sessions
  BY DEF Sessions
<1>1. \A there : Goto(w, there) => phase'[w] = there
  BY <1>0, OwnStep
<1>2. CommitTxn(w) \/ RollbackTxn(w) => ins'[w] = <<>>
  BY <1>0, OwnStep
<1>3. ASSUME phase'[w] \notin PendingPhases \union {"booting", "deactivating"}, ins'[w] = <<>>
      PROVE  TxnInv(w)'
  BY <1>3 DEF TxnInv, PendingPhases
<1>4. CASE BootRead(w)
  <2>1. ins'[w] = SetToSeq({row \in TemplateRows : VisibleAt(row.slot) = {}})
    BY <1>0, <1>4 DEF BootRead, TypeOK, TxnType
  <2>2. \A i \in DOMAIN ins'[w] : ins'[w][i].by = Seed
    BY <2>1, SeededRows
  <2>3. phase'[w] = "booting"
    BY <1>1, <1>4 DEF BootRead
  <2> QED
    BY <2>2, <2>3 DEF TxnInv, PendingPhases
<1>5. CASE SaveSelect(w) \/ Supersede(w) \/ AllSuperseded(w) \/ Deactivate(w)
           \/ AllDeactivated(w) \/ Dispatch(w) \/ Close(w)
  <2>1. UNCHANGED localVars /\ ins' = ins
    BY <1>5 DEF SaveSelect, Supersede, AllSuperseded, Deactivate, AllDeactivated, Dispatch,
                Close, txnVars
  <2>2. Pending(w)' = Pending(w) /\ (Waters(result[w])' <=> Waters(result[w]))
    BY <2>1, PendingKept
  <2>3. CASE SaveSelect(w)
    BY <1>1, <2>1, <2>2, <2>3 DEF SaveSelect, TxnInv, PendingPhases
  <2>4. CASE Supersede(w) \/ AllSuperseded(w)
    BY <1>1, <2>1, <2>2, <2>4 DEF Supersede, AllSuperseded, TxnInv, PendingPhases
  <2>5. CASE Deactivate(w)
    BY <2>1, <2>2, <2>5 DEF Deactivate, TxnInv, PendingPhases
  <2>6. CASE AllDeactivated(w)
    <3>1. phase[w] = "deactivating" /\ phase'[w] = "dispatching"
      BY <1>1, <2>6 DEF AllDeactivated
    <3>2. ins[w] = <<>> /\ ~Waters(result[w])
      BY <3>1 DEF TxnInv, PendingPhases
    <3>3. Pending(w) = <<>>
      BY <3>2 DEF Pending
    <3> QED
      BY <2>1, <2>2, <3>1, <3>2, <3>3 DEF TxnInv, PendingPhases
  <2>7. CASE Dispatch(w)
    BY <1>1, <2>1, <2>2, <2>7 DEF Dispatch, TxnInv, PendingPhases
  <2>8. CASE Close(w)
    BY <1>1, <2>1, <2>2, <2>8 DEF Close, TxnInv, PendingPhases
  <2> QED
    BY <1>5, <2>3, <2>4, <2>5, <2>6, <2>7, <2>8
<1>6. CASE Receive(w) \/ Create(w) \/ Collect(w) \/ GetWeather(w) \/ Recommend(w) \/ ApplyRules(w)
           \/ Retry(w) \/ Ack(w)
  <2>1. phase'[w] \in {"starting", "queued", "collecting_data", "reasoning", "rule_check",
                       "approval_gate", "settled", "idle"}
    BY <1>1, <1>6
       DEF Receive, Create, Collect, GetWeather, Recommend, ApplyRules, Retry, Ack
  <2>2. phase[w] \notin PendingPhases \union {"booting", "failed"}
    BY <1>6 DEF Receive, Create, Collect, GetWeather, Recommend, ApplyRules, Retry, Ack,
                PendingPhases
  <2>3. ins' = ins
    BY <1>6 DEF Receive, Create, Collect, GetWeather, Recommend, ApplyRules, Retry, Ack, txnVars
  <2>4. ins'[w] = <<>>
    BY <2>2, <2>3 DEF TxnInv
  <2> QED
    BY <1>3, <2>1, <2>4 DEF PendingPhases
<1>7. CASE Gate(w)
  <2>1. phase[w] = "approval_gate" /\ ins[w] = <<>>
    BY <1>7 DEF Gate, TxnInv, PendingPhases
  <2>2. UNCHANGED localVars
    BY <1>7 DEF Gate
  <2>3. Pending(w)' = Pending(w) /\ (Waters(result[w])' <=> Waters(result[w]))
    BY <2>2, PendingKept
  <2>4. CASE NeedsReview(w)
    <3>1. phase'[w] = "manual_review" /\ ins' = ins
      BY <1>1, <1>7, <2>4 DEF Gate
    <3> QED
      BY <1>3, <2>1, <3>1 DEF PendingPhases
  <2>5. CASE ~NeedsReview(w) /\ Waters(result[w])
    <3>1. phase'[w] = "saving"
      BY <1>1, <1>7, <2>5 DEF Gate, Waters
    <3>2. ins'[w] = Pending(w)
      BY <1>0, <1>7, <2>5 DEF Gate, Pending, TypeOK, TxnType
    <3> QED
      BY <2>3, <2>5, <3>1, <3>2 DEF TxnInv, PendingPhases
  <2>6. CASE ~NeedsReview(w) /\ ~Waters(result[w])
    <3>1. phase'[w] \in {"deactivating", "dispatching"} /\ ins' = ins
      BY <1>1, <1>7, <2>6 DEF Gate
    <3>2. Pending(w) = <<>>
      BY <2>6 DEF Pending
    <3> QED
      BY <2>1, <2>3, <2>6, <3>1, <3>2 DEF TxnInv, PendingPhases
  <2> QED
    BY <2>4, <2>5, <2>6
<1>8. CASE BootCommit(w) \/ Commit(w) \/ Rollback(w) \/ Raise(w) \/ Crash(w)
  <2>1. ins'[w] = <<>>
    BY <1>2, <1>8 DEF BootCommit, Commit, Rollback, Raise, Crash
  <2>2. phase'[w] \in {"bootstrapped", "committed", "raised", "idle"}
    BY <1>1, <1>8 DEF BootCommit, Commit, Rollback, Raise, Crash
  <2> QED
    BY <1>3, <2>1, <2>2 DEF PendingPhases
<1>9. CASE Fail(w)
  <2>1. phase'[w] = "failed"
    BY <1>1, <1>9 DEF Fail
  <2> QED
    BY <2>1 DEF TxnInv, PendingPhases
<1> QED
  BY <1>4, <1>5, <1>6, <1>7, <1>8, <1>9 DEF Progress, Mishap

LEMMA OwnRunStep ==
  ASSUME TypeOK, FutureRuns, NEW w \in Workers, RunInv(w), Progress(w) \/ Mishap(w)
  PROVE  RunInv(w)'
<1>0. w \in Sessions
  BY DEF Sessions
<1>1. \A there : Goto(w, there) => phase'[w] = there
  BY <1>0, OwnStep
<1> USE DEF Running, TryPhases, EndPhases, UndispatchedPhases
<1>2. ASSUME phase'[w] \notin TryPhases \union EndPhases
      PROVE  RunInv(w)'
  BY <1>2 DEF RunInv
<1>3. CASE Create(w)
  <2>1. lastRun \in 0..MaxRuns /\ lastRun < MaxRuns /\ run \in [Workers -> 0..MaxRuns]
    BY <1>3 DEF Create, TypeOK, StoreType, LocalType
  <2>2. lastRun + 1 \in Runs /\ lastRun + 1 > lastRun
    BY <2>1, BoundAssumption DEF Runs
  <2>3. durable[lastRun + 1] = "absent" /\ sent[lastRun + 1] = <<>>
    BY <2>2 DEF FutureRuns
  <2>4. /\ phase'[w] = "queued" /\ run'[w] = lastRun + 1 /\ lastRun' = lastRun + 1
        /\ durable' = durable /\ sent' = sent
    BY <1>1, <1>3, <2>1 DEF Create
  <2>5. run'[w] \in 1..lastRun'
    BY <2>1, <2>4, BoundAssumption
  <2> QED
    BY <2>3, <2>4, <2>5 DEF RunInv
<1>4. CASE Collect(w) \/ GetWeather(w) \/ Recommend(w) \/ ApplyRules(w) \/ Gate(w)
           \/ SaveSelect(w) \/ Supersede(w) \/ AllSuperseded(w) \/ Deactivate(w)
           \/ AllDeactivated(w)
  <2>1. /\ run' = run
        /\ UNCHANGED storeVars
    BY <1>4 DEF Collect, GetWeather, Recommend, ApplyRules, Gate, SaveSelect, Supersede,
                AllSuperseded, Deactivate, AllDeactivated, localVars, txnVars
  <2>2. phase[w] \in TryPhases /\ phase[w] \in UndispatchedPhases
    BY <1>4 DEF Collect, GetWeather, Recommend, ApplyRules, Gate, SaveSelect, Supersede,
                AllSuperseded, Deactivate, AllDeactivated
  <2>3. phase'[w] \in UndispatchedPhases
    <3>1. CASE Gate(w)
      BY <1>1, <3>1 DEF Gate
    <3>2. CASE Supersede(w) \/ AllSuperseded(w)
      BY <1>1, <3>2 DEF Supersede, AllSuperseded
    <3>3. CASE Deactivate(w)
      BY <2>2, <3>3 DEF Deactivate
    <3>4. CASE Collect(w) \/ GetWeather(w) \/ Recommend(w) \/ ApplyRules(w)
      BY <1>1, <3>4 DEF Collect, GetWeather, Recommend, ApplyRules
    <3>5. CASE SaveSelect(w) \/ AllDeactivated(w)
      BY <1>1, <3>5 DEF SaveSelect, AllDeactivated
    <3> QED
      BY <1>4, <3>1, <3>2, <3>3, <3>4, <3>5
  <2> QED
    BY <2>1, <2>2, <2>3 DEF RunInv, storeVars
<1>5. CASE Dispatch(w)
  <2>1. phase[w] = "dispatching" /\ phase'[w] = "verifying"
    BY <1>1, <1>5 DEF Dispatch
  <2>2. run[w] \in 1..lastRun /\ durable[run[w]] = "absent" /\ sent[run[w]] = <<>>
    BY <2>1 DEF RunInv
  <2>3. run[w] \in Runs
    BY <2>2, BoundAssumption DEF TypeOK, StoreType, Runs
  <2>4. sent'[run[w]] = <<CommandOf(w)>>
    <3>1. sent \in [Runs -> Seq(Commands)]
      BY DEF TypeOK, StoreType
    <3>2. sent' = [sent EXCEPT ![run[w]] = Append(@, CommandOf(w))]
      BY <1>5 DEF Dispatch
    <3>3. sent'[run[w]] = Append(<<>>, CommandOf(w))
      BY <2>2, <2>3, <3>1, <3>2
    <3> QED
      BY <3>3
  <2>5. UNCHANGED localVars /\ lastRun' = lastRun /\ durable' = durable
    BY <1>5 DEF Dispatch
  <2>6. CommandOf(w)' = CommandOf(w)
    BY <2>5 DEF CommandOf, localVars
  <2> QED
    BY <2>1, <2>2, <2>4, <2>5, <2>6 DEF RunInv, localVars
<1>6. CASE Close(w)
  <2>1. UNCHANGED localVars /\ UNCHANGED storeVars
    BY <1>6 DEF Close
  <2>2. phase[w] = "verifying" /\ phase'[w] = "closed"
    BY <1>1, <1>6 DEF Close
  <2>3. CommandOf(w)' = CommandOf(w)
    BY <2>1 DEF CommandOf, localVars
  <2> QED
    BY <2>1, <2>2, <2>3 DEF RunInv, localVars, storeVars
<1>7. CASE Fail(w)
  <2>1. UNCHANGED localVars /\ UNCHANGED storeVars
    BY <1>7 DEF Fail
  <2>2. phase[w] \in TryPhases /\ phase'[w] = "failed"
    BY <1>1, <1>7 DEF Fail
  <2> QED
    BY <2>1, <2>2 DEF RunInv, localVars, storeVars
<1>8. CASE Receive(w) \/ BootRead(w) \/ BootCommit(w) \/ Commit(w) \/ Rollback(w)
           \/ Retry(w) \/ Ack(w) \/ Raise(w) \/ Crash(w)
  <2>1. phase'[w] \in {"starting", "booting", "bootstrapped", "committed", "raised", "settled", "idle"}
    BY <1>1, <1>8
       DEF Receive, BootRead, BootCommit, Commit, Rollback, Retry, Ack, Raise, Crash
  <2> QED
    BY <1>2, <2>1
<1> QED
  BY <1>3, <1>4, <1>5, <1>6, <1>7, <1>8 DEF Progress, Mishap

\* A request's own step.
LEMMA OwnRequestStep ==
  ASSUME TypeOK, NEW q \in Requests, RequestInv(q), Arrive(q) \/ Serve(q) \/ FailRequest(q)
  PROVE  RequestInv(q)'
<1>0. q \in Sessions
  BY DEF Sessions
<1>1. CommitTxn(q) \/ RollbackTxn(q) => ins'[q] = <<>>
  BY <1>0, OwnStep
<1>2. ins \in [Sessions -> Seq(Rows)]
  BY DEF TypeOK, TxnType
<1>3. CASE Post(q)
  <2>1. PICK slot \in Slots, dur \in OperatorDurations :
          ins' = [ins EXCEPT ![q] = <<Row(slot, dur, Operator)>>]
    BY <1>3 DEF Post
  <2>2. ins'[q] = <<Row(slot, dur, Operator)>>
    BY <1>0, <1>2, <2>1
  <2>3. DOMAIN ins'[q] = {1} /\ ins'[q][1].by = Operator
    BY <2>2 DEF Row
  <2> QED
    BY <2>3 DEF RequestInv
<1>4. CASE BootRead(q)
  <2>1. ins'[q] = SetToSeq({row \in TemplateRows : VisibleAt(row.slot) = {}})
    BY <1>0, <1>2, <1>4 DEF BootRead
  <2>2. \A i \in DOMAIN ins'[q] : ins'[q][i].by = Seed
    BY <2>1, SeededRows
  <2> QED
    BY <2>2 DEF RequestInv
<1>5. CASE BootCommit(q) \/ CommitRequest(q) \/ FailRequest(q)
  <2>1. ins'[q] = <<>>
    BY <1>1, <1>5 DEF BootCommit, CommitRequest, FailRequest
  <2> QED
    BY <2>1 DEF RequestInv
<1>6. CASE Delete(q) \/ Startup(q) \/ SaveSelect(q) \/ Supersede(q) \/ AllSuperseded(q)
  <2>1. ins' = ins
    BY <1>6 DEF Delete, Startup, SaveSelect, Supersede, AllSuperseded, txnVars
  <2> QED
    BY <2>1 DEF RequestInv
<1> QED
  BY <1>3, <1>4, <1>5, <1>6 DEF Arrive, Serve

-----------------------------------------------------------------------------
(* What a step does to the other runs.                                       *)

\* A run that is in progress after a step is new, or was so before.
LEMMA RunningStep ==
  ASSUME TypeOK, NEW w \in Workers, Progress(w) \/ Mishap(w), Running(w)'
  PROVE  Create(w) \/ (Running(w) /\ run'[w] = run[w])
<1>0. w \in Sessions
  BY DEF Sessions
<1>1. \A there : Goto(w, there) => phase'[w] = there
  BY <1>0, OwnStep
<1> USE DEF Running, TryPhases, EndPhases
<1>2. CASE Collect(w) \/ GetWeather(w) \/ Recommend(w) \/ ApplyRules(w) \/ Gate(w)
           \/ SaveSelect(w) \/ Supersede(w) \/ AllSuperseded(w) \/ Deactivate(w)
           \/ AllDeactivated(w)
           \/ Dispatch(w) \/ Close(w) \/ Fail(w)
  <2>1. run' = run
    BY <1>2 DEF Collect, GetWeather, Recommend, ApplyRules, Gate, SaveSelect, Supersede,
                AllSuperseded, Deactivate, AllDeactivated, Dispatch, Close, Fail, localVars, txnVars
  <2>2. phase[w] \in TryPhases
    BY <1>2 DEF Collect, GetWeather, Recommend, ApplyRules, Gate, SaveSelect, Supersede,
                AllSuperseded, Deactivate, AllDeactivated, Dispatch, Close, Fail
  <2> QED
    BY <2>1, <2>2
<1>3. CASE Receive(w) \/ BootRead(w) \/ BootCommit(w) \/ Commit(w) \/ Rollback(w)
           \/ Retry(w) \/ Ack(w) \/ Raise(w) \/ Crash(w)
  <2>1. phase'[w] \in {"starting", "booting", "bootstrapped", "committed", "raised", "settled", "idle"}
    BY <1>1, <1>3
       DEF Receive, BootRead, BootCommit, Commit, Rollback, Retry, Ack, Raise, Crash
  <2> QED
    BY <2>1
<1> QED
  BY <1>2, <1>3 DEF Progress, Mishap

\* The run whose state is made durable, or for which a command is sent, is in
\* progress in the worker that does it.
LEMMA ActingRun ==
  ASSUME IInv, NEW w \in Workers, Dispatch(w) \/ Commit(w)
  PROVE  /\ Running(w) /\ run[w] \in 1..lastRun /\ run[w] \in Runs
         /\ \A r \in Runs \ {run[w]} : durable'[r] = durable[r] /\ sent'[r] = sent[r]
<1>1. Running(w)
  BY DEF Dispatch, Commit, Running, TryPhases, EndPhases
<1>2. run[w] \in 1..lastRun
  BY <1>1 DEF IInv, RunInv
<1>3. run[w] \in Runs
  BY <1>2, BoundAssumption DEF IInv, TypeOK, StoreType, Runs
<1>4. \A r \in Runs \ {run[w]} : durable'[r] = durable[r] /\ sent'[r] = sent[r]
  BY DEF Dispatch, Commit, IInv, TypeOK, StoreType
<1> QED
  BY <1>1, <1>2, <1>3, <1>4

LEMMA LastRunStep ==
  ASSUME TypeOK, NEW s \in Sessions, SessionStep(s)
  PROVE  lastRun \in Nat /\ lastRun' \in Nat /\ lastRun <= lastRun'
<1>1. lastRun \in Nat
  BY BoundAssumption DEF TypeOK, StoreType
<1> QED
  BY <1>1, StoreStep

\* The other workers' transactions and runs are as they were.
LEMMA OtherWorkers ==
  ASSUME IInv, NEW s \in Sessions, SessionStep(s), NEW t \in Workers \ {s}
  PROVE  TxnInv(t)' /\ RunInv(t)'
<1>0. t \in Sessions \ {s} /\ TypeOK /\ TxnInv(t) /\ RunInv(t)
  BY DEF Sessions, IInv
<1>1. /\ phase'[t] = phase[t] /\ ins'[t] = ins[t]
      /\ run'[t] = run[t] /\ base'[t] = base[t] /\ result'[t] = result[t]
  BY <1>0, Bystander DEF Same
<1>2. TxnInv(t)'
  <2>1. Pending(t)' = Pending(t) /\ (Waters(result[t])' <=> Waters(result[t]))
    BY <1>1 DEF Pending, Waters, Row
  <2> QED
    BY <1>0, <1>1, <2>1 DEF TxnInv
<1>3. RunInv(t)'
  <2>1. SUFFICES ASSUME Running(t)
                 PROVE  RunInv(t)'
    BY <1>1 DEF RunInv, Running
  <2>2. run[t] \in 1..lastRun /\ run'[t] \in 1..lastRun'
    BY <1>0, <1>1, <2>1, LastRunStep DEF RunInv
  <2>3. run[t] \in Runs
    BY <2>2, BoundAssumption DEF IInv, TypeOK, StoreType, Runs
  <2>4. durable'[run[t]] = durable[run[t]] /\ sent'[run[t]] = sent[run[t]]
    <3>1. CASE s \in Workers /\ (Dispatch(s) \/ Commit(s))
      <4>1. Running(s) /\ \A r \in Runs \ {run[s]} : durable'[r] = durable[r] /\ sent'[r] = sent[r]
        BY <3>1, ActingRun
      <4>2. run[t] # run[s]
        BY <2>1, <3>1, <4>1 DEF IInv, RunsDistinct
      <4> QED
        BY <2>3, <4>1, <4>2
    <3>2. CASE ~(s \in Workers /\ (Dispatch(s) \/ Commit(s)))
      BY <1>0, <3>2, StoreStep
    <3> QED
      BY <3>1, <3>2
  <2>5. CommandOf(t)' = CommandOf(t)
    BY <1>1 DEF CommandOf
  <2> QED
    BY <1>0, <1>1, <2>1, <2>2, <2>4, <2>5 DEF RunInv, Running
<1> QED
  BY <1>2, <1>3

LEMMA DistinctStep ==
  ASSUME IInv, NEW s \in Sessions, SessionStep(s)
  PROVE  RunsDistinct'
<1>0. TypeOK
  BY DEF IInv
<1>1. SUFFICES ASSUME NEW v \in Workers, NEW w \in Workers, v # w, v # s,
                      Running(v)', Running(w)'
               PROVE  run'[v] # run'[w]
  BY DEF RunsDistinct
<1>2. Running(v) /\ run'[v] = run[v]
  BY <1>0, <1>1, Bystander DEF Same, Running, Sessions
<1>3. CASE w # s
  <2>1. Running(w) /\ run'[w] = run[w]
    BY <1>0, <1>1, <1>3, Bystander DEF Same, Running, Sessions
  <2> QED
    BY <1>1, <1>2, <2>1 DEF IInv, RunsDistinct
<1>4. CASE w = s
  <2>1. Progress(w) \/ Mishap(w)
    BY <1>4, SessionAssumption DEF SessionStep
  <2>2. CASE Running(w) /\ run'[w] = run[w]
    BY <1>1, <1>2, <2>2 DEF IInv, RunsDistinct
  <2>3. CASE Create(w)
    <3>1. run'[w] = lastRun + 1
      BY <1>0, <2>3 DEF Create, TypeOK, LocalType
    <3>2. run[v] \in 1..lastRun /\ lastRun \in Nat
      BY <1>0, <1>2, LastRunStep DEF IInv, RunInv
    <3> QED
      BY <1>2, <3>1, <3>2
  <2> QED
    BY <1>0, <1>1, <2>1, <2>2, <2>3, RunningStep
<1> QED
  BY <1>3, <1>4

LEMMA FutureStep ==
  ASSUME IInv, NEW s \in Sessions, SessionStep(s)
  PROVE  FutureRuns'
<1>0. TypeOK
  BY DEF IInv
<1>1. SUFFICES ASSUME NEW r \in Runs, r > lastRun'
               PROVE  durable'[r] = "absent" /\ sent'[r] = <<>>
  BY DEF FutureRuns
<1>2. r > lastRun
  BY <1>0, <1>1, LastRunStep DEF Runs
<1>3. durable[r] = "absent" /\ sent[r] = <<>>
  BY <1>2 DEF IInv, FutureRuns
<1>4. CASE s \in Workers /\ (Dispatch(s) \/ Commit(s))
  <2>1. /\ run[s] \in 1..lastRun
        /\ \A x \in Runs \ {run[s]} : durable'[x] = durable[x] /\ sent'[x] = sent[x]
    BY <1>4, ActingRun
  <2>2. r # run[s]
    BY <1>0, <1>2, <2>1, LastRunStep DEF Runs
  <2> QED
    BY <1>3, <2>1, <2>2
<1>5. CASE ~(s \in Workers /\ (Dispatch(s) \/ Commit(s)))
  BY <1>0, <1>3, <1>5, StoreStep
<1> QED
  BY <1>4, <1>5

-----------------------------------------------------------------------------
(* What a step does to the schedule.                                         *)

\* The story of one run.
Told(r) ==
  IF durable[r] = "closed" /\ sent[r] # <<>> /\ Waters(sent[r][1])
  THEN \E i \in DOMAIN cur : /\ RowsBy(r) = {i}
                            /\ cur[i].slot = sent[r][1].slot
                            /\ cur[i].dur = sent[r][1].dur
  ELSE RowsBy(r) = {}

\* A commit that inserts no row of a run leaves the run's rows as they are.
LEMMA CommitOfOthers ==
  ASSUME TypeOK, NEW s \in Sessions, CommitTxn(s), NEW r,
         \A i \in DOMAIN ins[s] : ins[s][i].by # r
  PROVE  /\ RowsBy(r)' = RowsBy(r)
         /\ \A i \in DOMAIN cur : /\ i \in DOMAIN cur'
                                  /\ cur'[i].slot = cur[i].slot
                                  /\ cur'[i].dur = cur[i].dur
<1>1. cur' = Committed(s)
  BY DEF CommitTxn
<1>2. \A i \in DOMAIN cur : /\ i \in DOMAIN cur'
                            /\ cur'[i].slot = cur[i].slot
                            /\ cur'[i].dur = cur[i].dur
                            /\ cur'[i].by = cur[i].by
  BY <1>1, CommittedRows
<1>3. \A i \in DOMAIN cur' \ DOMAIN cur : cur'[i].by # r
  <2>1. \A i \in DOMAIN cur' \ DOMAIN cur :
          i - Len(cur) \in DOMAIN ins[s] /\ cur'[i] = ins[s][i - Len(cur)]
    BY <1>1, CommittedRows
  <2> QED
    BY <2>1
<1>4. RowsBy(r)' = RowsBy(r)
  BY <1>2, <1>3 DEF RowsBy
<1> QED
  BY <1>2, <1>4

\* A story goes on when the run's state, its command and its rows stay.
LEMMA ToldKept ==
  ASSUME NEW r, Told(r), durable'[r] = durable[r], sent'[r] = sent[r],
         RowsBy(r)' = RowsBy(r),
         \A i \in DOMAIN cur : /\ i \in DOMAIN cur'
                               /\ cur'[i].slot = cur[i].slot
                               /\ cur'[i].dur = cur[i].dur
  PROVE  Told(r)'
<1>1. Waters(sent[r][1])' <=> Waters(sent[r][1])
  BY DEF Waters
<1>2. CASE durable[r] = "closed" /\ sent[r] # <<>> /\ Waters(sent[r][1])
  <2>1. PICK i \in DOMAIN cur : /\ RowsBy(r) = {i}
                                /\ cur[i].slot = sent[r][1].slot
                                /\ cur[i].dur = sent[r][1].dur
    BY <1>2 DEF Told
  <2>2. /\ i \in DOMAIN cur' /\ RowsBy(r)' = {i}
        /\ cur'[i].slot = sent'[r][1].slot
        /\ cur'[i].dur = sent'[r][1].dur
    BY <2>1
  <2> QED
    BY <1>1, <1>2, <2>2 DEF Told
<1>3. CASE ~(durable[r] = "closed" /\ sent[r] # <<>> /\ Waters(sent[r][1]))
  BY <1>1, <1>3 DEF Told
<1> QED
  BY <1>2, <1>3

\* The commit of a run writes its story.
LEMMA CommitTells ==
  ASSUME IInv, NEW w \in Workers, Commit(w), NEW r, r = run[w]
  PROVE  Told(r)'
<1>0. w \in Sessions /\ TypeOK /\ TxnInv(w) /\ RunInv(w)
  BY DEF Sessions, IInv
<1>1. r \in Runs /\ durable[r] = "absent"
  BY <1>0, ActingRun DEF RunInv
<1>2. RowsBy(r) = {}
  BY <1>1 DEF IInv, ScheduleFollowsRun
<1>3. /\ CommitTxn(w) /\ cur' = Committed(w)
      /\ durable'[r] = phase[w] /\ sent' = sent
      /\ phase[w] \in {"closed", "manual_review"}
  BY <1>0, <1>1 DEF Commit, CommitTxn, TypeOK, StoreType
<1>4. CASE ins[w] = <<>>
  <2>1. RowsBy(r)' = {}
    BY <1>0, <1>2, <1>3, <1>4, CommitOfOthers
  <2>2. ~(durable'[r] = "closed" /\ sent'[r] # <<>> /\ Waters(sent'[r][1]))
    <3>1. SUFFICES ASSUME phase[w] = "closed"
                   PROVE  ~Waters(sent'[r][1])
      BY <1>3
    <3>2. sent'[r] = <<CommandOf(w)>>
      BY <1>0, <1>3, <3>1 DEF RunInv, Running, EndPhases
    <3>3. ~Waters(result[w])
      BY <1>0, <1>4, <3>1 DEF TxnInv, PendingPhases, Pending
    <3> QED
      BY <3>2, <3>3 DEF Waters, CommandOf
  <2> QED
    BY <2>1, <2>2 DEF Told, Waters
<1>5. CASE ins[w] # <<>>
  <2>1. phase[w] = "closed"
    BY <1>0, <1>3, <1>5 DEF TxnInv, PendingPhases
  <2>2. ins[w] = <<Row(base[w].slot, result[w].dur, r)>> /\ Waters(result[w])
    BY <1>0, <1>5, <2>1 DEF TxnInv, PendingPhases, Pending
  <2>3. sent'[r] = <<CommandOf(w)>>
    BY <1>0, <1>3, <2>1 DEF RunInv, Running, EndPhases
  <2>4. /\ sent'[r] # <<>> /\ sent'[r][1] = CommandOf(w)
        /\ Waters(sent'[r][1])
    BY <2>2, <2>3 DEF Waters, CommandOf
  <2> DEFINE n == Len(cur) + 1
  <2>5. Len(cur) \in Nat /\ DOMAIN cur = 1..Len(cur)
    BY <1>0, LenProperties DEF TypeOK, StoreType
  <2>6. Len(ins[w]) = 1 /\ ins[w][1] = Row(base[w].slot, result[w].dur, r)
    BY <2>2
  <2>7. DOMAIN cur' = 1..n
    BY <1>0, <1>3, <2>6, CommittedRows
  <2>8. cur'[n] = Row(base[w].slot, result[w].dur, r)
    <3>1. n \in DOMAIN cur' \ DOMAIN cur /\ n - Len(cur) = 1
      BY <2>5, <2>7
    <3>2. cur'[n] = ins[w][n - Len(cur)]
      BY <1>0, <1>3, <3>1, CommittedRows
    <3> QED
      BY <2>6, <3>1, <3>2
  <2>9. \A i \in DOMAIN cur : cur'[i].by # r
    BY <1>0, <1>2, <1>3, CommittedRows DEF RowsBy
  <2>10. RowsBy(r)' = {n}
    BY <2>5, <2>7, <2>8, <2>9 DEF RowsBy, Row
  <2>11. /\ n \in DOMAIN cur'
         /\ cur'[n].slot = sent'[r][1].slot
         /\ cur'[n].dur = sent'[r][1].dur
    BY <2>4, <2>5, <2>7, <2>8 DEF Row, CommandOf
  <2> QED
    BY <1>3, <2>1, <2>4, <2>10, <2>11 DEF Told, Waters
<1> QED
  BY <1>4, <1>5

LEMMA ScheduleStep ==
  ASSUME IInv, NEW s \in Sessions, SessionStep(s)
  PROVE  ScheduleFollowsRun'
<1>0. TypeOK
  BY DEF IInv
<1>1. SUFFICES ASSUME NEW r \in Runs
               PROVE  Told(r)'
  BY DEF ScheduleFollowsRun, Told, Runs
<1>2. Told(r)
  BY DEF IInv, ScheduleFollowsRun, Told
<1>3. CASE s \in Workers /\ Commit(s)
  <2>1. CASE r = run[s]
    BY <1>3, <2>1, CommitTells
  <2>2. CASE r # run[s]
    <3>1. durable'[r] = durable[r] /\ sent'[r] = sent[r]
      BY <1>3, <2>2, ActingRun
    <3>2. \A i \in DOMAIN ins[s] : ins[s][i].by # r
      <4>1. ins[s] = <<>> \/ ins[s] = <<Row(base[s].slot, result[s].dur, run[s])>>
        BY <1>3 DEF Commit, IInv, TxnInv, PendingPhases, Pending
      <4> QED
        BY <2>2, <4>1 DEF Row
    <3>3. CommitTxn(s)
      BY <1>3 DEF Commit
    <3> QED
      BY <1>0, <1>2, <3>1, <3>2, <3>3, CommitOfOthers, ToldKept
  <2> QED
    BY <2>1, <2>2
<1>4. CASE s \in Workers /\ Dispatch(s)
  <2>1. cur' = cur /\ durable' = durable
    BY <1>4 DEF Dispatch
  <2>2. RowsBy(r)' = RowsBy(r)
    BY <2>1 DEF RowsBy
  <2>3. CASE r = run[s]
    <3>1. durable[r] = "absent"
      BY <1>4, <2>3, ActingRun DEF IInv, RunInv
    <3> QED
      BY <1>2, <2>1, <2>2, <3>1 DEF Told
  <2>4. CASE r # run[s]
    <3>1. sent'[r] = sent[r]
      BY <1>4, <2>4, ActingRun
    <3> QED
      BY <1>2, <2>1, <2>2, <3>1, ToldKept
  <2> QED
    BY <2>3, <2>4
<1>5. CASE ~(s \in Workers /\ (Dispatch(s) \/ Commit(s)))
  <2>1. durable' = durable /\ sent' = sent
    BY <1>0, <1>5, StoreStep
  <2>2. CASE cur' = cur
    <3>1. RowsBy(r)' = RowsBy(r)
      BY <2>2 DEF RowsBy
    <3> QED
      BY <1>2, <2>1, <2>2, <3>1, ToldKept
  <2>3. CASE BootCommit(s) \/ (s \in Requests /\ CommitRequest(s))
    <3>1. CommitTxn(s)
      BY <2>3 DEF BootCommit, CommitRequest
    <3>2. \A i \in DOMAIN ins[s] : ins[s][i].by \in {Seed, Operator}
      <4>1. CASE s \in Requests
        BY <4>1 DEF IInv, RequestInv
      <4>2. CASE s \in Workers /\ BootCommit(s)
        BY <4>2 DEF BootCommit, IInv, TxnInv
      <4> QED
        BY <2>3, <4>1, <4>2 DEF Sessions
    <3>3. r # Seed /\ r # Operator
      BY DEF Runs, Seed, Operator
    <3>4. \A i \in DOMAIN ins[s] : ins[s][i].by # r
      BY <3>2, <3>3
    <3> QED
      BY <1>0, <1>2, <2>1, <3>1, <3>4, CommitOfOthers, ToldKept
  <2> QED
    BY <1>0, <1>5, <2>2, <2>3, StoreStep
<1> QED
  BY <1>3, <1>4, <1>5

-----------------------------------------------------------------------------
(* The theorem.                                                              *)

LEMMA InitInvariant == Init => IInv
<1> SUFFICES ASSUME Init
             PROVE  IInv
  OBVIOUS
<1>1. TypeOK
  BY InitType
<1>2. /\ \A s \in Sessions : phase[s] = "idle" /\ ins[s] = <<>>
      /\ lastRun = 0
      /\ \A r \in Runs : durable[r] = "absent" /\ sent[r] = <<>>
      /\ cur = InitialRows
  BY DEF Init
<1>3. \A w \in Workers : TxnInv(w) /\ RunInv(w) /\ ~Running(w)
  BY <1>2 DEF TxnInv, RunInv, PendingPhases, Running, TryPhases, EndPhases, Sessions
<1>4. \A q \in Requests : RequestInv(q)
  BY <1>2 DEF RequestInv, Sessions
<1>5. RunsDistinct
  BY <1>3 DEF RunsDistinct
<1>6. FutureRuns
  BY <1>2 DEF FutureRuns
<1>7. ScheduleFollowsRun
  <2>1. \A r \in Runs : RowsBy(r) = {}
    BY <1>2, RowAssumption DEF RowsBy, Runs, Seed, Operator
  <2> QED
    BY <1>2, <2>1 DEF ScheduleFollowsRun
<1> QED
  BY <1>1, <1>3, <1>4, <1>5, <1>6, <1>7 DEF IInv

LEMMA NextInvariant == IInv /\ [Next]_vars => IInv'
<1> SUFFICES ASSUME IInv, [Next]_vars
             PROVE  IInv'
  OBVIOUS
<1>1. TypeOK /\ TypeOK'
  BY TypeStep DEF IInv
<1>2. ASSUME NEW s \in Sessions, SessionStep(s)
      PROVE  IInv'
  <2>1. \A w \in Workers : TxnInv(w)' /\ RunInv(w)'
    <3>1. SUFFICES ASSUME NEW w \in Workers
                   PROVE  TxnInv(w)' /\ RunInv(w)'
      OBVIOUS
    <3>2. CASE w = s
      <4>1. Progress(w) \/ Mishap(w)
        BY <1>2, <3>2, SessionAssumption DEF SessionStep
      <4> QED
        BY <1>1, <4>1, OwnTxnStep, OwnRunStep DEF IInv
    <3>3. CASE w # s
      BY <1>2, <3>3, OtherWorkers
    <3> QED
      BY <3>2, <3>3
  <2>2. \A q \in Requests : RequestInv(q)'
    <3>1. SUFFICES ASSUME NEW q \in Requests
                   PROVE  RequestInv(q)'
      OBVIOUS
    <3>2. CASE q = s
      <4>1. Arrive(q) \/ Serve(q) \/ FailRequest(q)
        BY <1>2, <3>2, SessionAssumption DEF SessionStep
      <4> QED
        BY <1>1, <4>1, OwnRequestStep DEF IInv
    <3>3. CASE q # s
      <4>1. ins'[q] = ins[q]
        BY <1>1, <1>2, <3>3, Bystander DEF Same, Sessions
      <4> QED
        BY <4>1 DEF IInv, RequestInv
    <3> QED
      BY <3>2, <3>3
  <2>3. RunsDistinct' /\ FutureRuns' /\ ScheduleFollowsRun'
    BY <1>2, DistinctStep, FutureStep, ScheduleStep
  <2> QED
    BY <1>1, <2>1, <2>2, <2>3 DEF IInv
<1>3. ASSUME UNCHANGED <<phase, txnVars, localVars, storeVars>>
      PROVE  IInv'
  <2>1. \A w \in Workers : TxnInv(w)' /\ RunInv(w)' /\ (Running(w)' <=> Running(w))
    <3>1. \A w : Pending(w)' = Pending(w) /\ (Waters(result[w])' <=> Waters(result[w]))
      BY <1>3, PendingKept
    <3>2. \A w : CommandOf(w)' = CommandOf(w)
      BY <1>3 DEF CommandOf, localVars
    <3> QED
      BY <1>3, <3>1, <3>2
         DEF IInv, TxnInv, RunInv, Running, txnVars, localVars, storeVars
  <2>2. \A q \in Requests : RequestInv(q)'
    BY <1>3 DEF IInv, RequestInv, txnVars
  <2>3. RunsDistinct'
    BY <1>3, <2>1 DEF IInv, RunsDistinct, localVars
  <2>4. FutureRuns'
    BY <1>3 DEF IInv, FutureRuns, storeVars
  <2>5. ScheduleFollowsRun'
    BY <1>3 DEF IInv, ScheduleFollowsRun, RowsBy, Waters, storeVars
  <2> QED
    BY <1>1, <2>1, <2>2, <2>3, <2>4, <2>5 DEF IInv
<1>4. CASE Trigger
  BY <1>3, <1>4 DEF Trigger
<1>5. CASE UNCHANGED vars
  BY <1>3, <1>5 DEF vars
<1>6. ASSUME NEW w \in Workers, Progress(w) \/ Mishap(w)
      PROVE  IInv'
  BY <1>2, <1>6 DEF SessionStep, Sessions
<1>7. ASSUME NEW q \in Requests, Arrive(q) \/ Serve(q) \/ FailRequest(q)
      PROVE  IInv'
  BY <1>2, <1>7 DEF SessionStep, Sessions
<1> QED
  BY <1>4, <1>5, <1>6, <1>7 DEF Next, Finished

THEOREM Invariance == Spec => []IInv
BY InitInvariant, NextInvariant, PTL DEF Spec

\* However many workers and requests interleave, and whatever fails, is retried
\* or is delivered again: a run has a row in the schedule exactly when it is
\* durably closed after a command that waters, its only one, with the command's
\* start and duration.
THEOREM StoryHolds == Spec => []ScheduleFollowsRun
<1>1. IInv => ScheduleFollowsRun
  BY DEF IInv
<1> QED
  BY <1>1, Invariance, PTL

-----------------------------------------------------------------------------
(* The refinement mapping, by run.                                           *)

Standing(r) ==
  IF durable[r] # "absent" THEN durable[r]
  ELSE IF InProgress(r) THEN "open"
  ELSE IF r > lastRun THEN "unborn"
  ELSE "gone"

Planned(r) == {[slot |-> cur[i].slot, dur |-> cur[i].dur] : i \in RowsBy(r)}

\* What one run does in a step, seen from the contract.
Moves(r, from, to) == Standing(r) = from /\ Standing(r)' = to
Idles(r) == Standing(r)' = Standing(r) /\ sent'[r] = sent[r] /\ Planned(r)' = Planned(r)

\* A step in which one run moves and the others idle is one of the contract's.
LEMMA ContractStep ==
  ASSUME TypeOK, NEW r \in Runs, \A x \in Runs \ {r} : Idles(x),
         \/ /\ sent' = sent
            /\ Planned(r)' = Planned(r)
            /\ \/ Moves(r, "unborn", "open")
               \/ Moves(r, "open", "gone")
               \/ Moves(r, "open", "manual_review") /\ sent[r] = <<>>
         \/ /\ Moves(r, "open", "closed")
            /\ sent' = sent
            /\ sent[r] # <<>>
            /\ Planned(r)' = Contract!Effect(Head(sent[r]))
         \/ /\ Moves(r, "open", "open")
            /\ Planned(r)' = Planned(r)
            /\ sent[r] = <<>>
            /\ Len(sent'[r]) = 1 /\ sent'[r][1] \in Commands
            /\ sent' = [sent EXCEPT ![r] = sent'[r]]
  PROVE  Contract!Next
<1> DEFINE standing == [x \in Runs |-> Standing(x)]
           planned == [x \in Runs |-> Planned(x)]
<1>1. \A from, to : Moves(r, from, to) =>
        standing[r] = from /\ standing' = [standing EXCEPT ![r] = to]
  BY DEF Moves, Idles
<1>2. Planned(r)' = Planned(r) => planned' = planned
  BY DEF Idles
<1>3. planned' = [planned EXCEPT ![r] = Planned(r)']
  BY DEF Idles
<1>4. \A from, to : Moves(r, from, to) => Contract!Move(r, from, to)
  BY <1>1 DEF Contract!Move, Standing
<1>5. Planned(r)' = Planned(r) =>
        UNCHANGED [x \in Runs |-> {[slot |-> cur[i].slot, dur |-> cur[i].dur] : i \in RowsBy(x)}]
  BY <1>2, Zenon DEF Planned
<1>6. ASSUME sent' = sent, Planned(r)' = Planned(r), Moves(r, "unborn", "open")
      PROVE  Contract!Next
  <2>1. Contract!Open(r)
    BY <1>4, <1>5, <1>6, Zenon DEF Contract!Open
  <2> QED BY <2>1, Zenon DEF Contract!Next
<1>7. ASSUME sent' = sent, Planned(r)' = Planned(r), Moves(r, "open", "gone")
      PROVE  Contract!Next
  <2>1. Contract!Abandon(r)
    BY <1>4, <1>5, <1>7, Zenon DEF Contract!Abandon
  <2> QED BY <2>1, Zenon DEF Contract!Next
<1>8. ASSUME sent' = sent, Planned(r)' = Planned(r), Moves(r, "open", "manual_review"), sent[r] = <<>>
      PROVE  Contract!Next
  <2>1. Contract!Refer(r)
    BY <1>4, <1>5, <1>8, Zenon DEF Contract!Refer
  <2> QED BY <2>1, Zenon DEF Contract!Next
<1>9. ASSUME sent' = sent, Moves(r, "open", "closed"), sent[r] # <<>>,
             Planned(r)' = Contract!Effect(Head(sent[r]))
      PROVE  Contract!Next
  <2>1. planned' = [planned EXCEPT ![r] = Contract!Effect(Head(sent[r]))]
    BY <1>3, <1>9, Zenon
  <2>2. Contract!Close(r)
    BY <1>4, <1>9, <2>1, Zenon DEF Contract!Close, Planned
  <2> QED BY <2>2, Zenon DEF Contract!Next
<1>10. ASSUME Moves(r, "open", "open"), Planned(r)' = Planned(r), sent[r] = <<>>,
              Len(sent'[r]) = 1, sent'[r][1] \in Commands, sent' = [sent EXCEPT ![r] = sent'[r]]
       PROVE  Contract!Next
  <2>1. standing[r] = "open" /\ standing' = standing
    BY <1>10 DEF Moves, Idles
  <2>2. Contract!Command(r)
    BY <1>5, <1>10, <2>1, Zenon DEF Contract!Command, Standing
  <2> QED BY <2>2, Zenon DEF Contract!Next
<1> QED BY <1>6, <1>7, <1>8, <1>9, <1>10

-----------------------------------------------------------------------------
(* What a step does to a run.                                                *)

\* The rows of a run change only when it is committed.
LEMMA PlannedKept ==
  ASSUME IInv, NEW s \in Sessions, SessionStep(s), NEW r \in Runs,
         ~(s \in Workers /\ Commit(s) /\ r = run[s])
  PROVE  Planned(r)' = Planned(r)
<1>0. TypeOK
  BY DEF IInv
<1>1. CASE cur' = cur
  BY <1>1 DEF Planned, RowsBy
<1>2. ASSUME CommitTxn(s), \A i \in DOMAIN ins[s] : ins[s][i].by # r
      PROVE  Planned(r)' = Planned(r)
  <2>1. /\ RowsBy(r)' = RowsBy(r)
        /\ \A i \in RowsBy(r) : cur'[i].slot = cur[i].slot /\ cur'[i].dur = cur[i].dur
    BY <1>0, <1>2, CommitOfOthers DEF RowsBy
  <2> QED BY <2>1 DEF Planned
<1>3. CASE s \in Workers /\ Commit(s)
  <2>1. ins[s] = <<>> \/ ins[s] = <<Row(base[s].slot, result[s].dur, run[s])>>
    BY <1>3 DEF Commit, IInv, TxnInv, PendingPhases, Pending
  <2>2. \A i \in DOMAIN ins[s] : ins[s][i].by # r
    BY <1>3, <2>1 DEF Row
  <2> QED BY <1>2, <1>3, <2>2 DEF Commit
<1>4. CASE BootCommit(s) \/ (s \in Requests /\ CommitRequest(s))
  <2>1. \A i \in DOMAIN ins[s] : ins[s][i].by \in {Seed, Operator}
    <3>1. CASE s \in Requests
      BY <3>1 DEF IInv, RequestInv
    <3>2. CASE s \in Workers /\ BootCommit(s)
      BY <3>2 DEF BootCommit, IInv, TxnInv
    <3> QED BY <1>4, <3>1, <3>2 DEF Sessions
  <2>2. r # Seed /\ r # Operator
    BY DEF Runs, Seed, Operator
  <2> QED BY <1>2, <1>4, <2>1, <2>2 DEF BootCommit, CommitRequest
<1> QED BY <1>0, <1>1, <1>3, <1>4, StoreStep

\* Whether a run is in progress depends on the workers that are not s only, if s
\* has not and gets not that run.
LEMMA ProgressKept ==
  ASSUME IInv, NEW s \in Sessions, SessionStep(s), NEW r \in Runs,
         s \in Workers => /\ ~(Running(s) /\ run[s] = r)
                          /\ ~(Running(s)' /\ run'[s] = r)
  PROVE  InProgress(r)' <=> InProgress(r)
<1>1. \A w \in Workers \ {s} : (Running(w)' <=> Running(w)) /\ run'[w] = run[w]
  BY Bystander DEF IInv, Same, Running, Sessions
<1> QED BY <1>1 DEF InProgress

\* A run the session has not and does not create idles.
LEMMA OthersIdle ==
  ASSUME IInv, NEW s \in Sessions, SessionStep(s), NEW r \in Runs,
         s \in Workers => /\ ~(Running(s) /\ run[s] = r)
                          /\ ~(Create(s) /\ run'[s] = r)
  PROVE  Idles(r)
<1>0. TypeOK
  BY DEF IInv
<1>1. ~(s \in Workers /\ (Dispatch(s) \/ Commit(s)) /\ r = run[s])
  BY ActingRun
<1>2. durable'[r] = durable[r] /\ sent'[r] = sent[r]
  BY <1>0, <1>1, ActingRun, StoreStep
<1>3. Planned(r)' = Planned(r)
  BY <1>1, PlannedKept
<1>4. s \in Workers => ~(Running(s)' /\ run'[s] = r)
  BY <1>0, RunningStep, SessionAssumption DEF SessionStep
<1>5. InProgress(r)' <=> InProgress(r)
  BY <1>4, ProgressKept
<1>6. r > lastRun' <=> r > lastRun
  <2>1. CASE lastRun' = lastRun
    BY <2>1
  <2>2. CASE Create(s) /\ lastRun' = lastRun + 1
    <3>1. s \in Workers
      <4>1. CASE s \in Requests
        BY <1>0, <2>2, <4>1 DEF Create, TypeOK, PhaseType, RequestPhases, BootPhases
      <4> QED BY <4>1 DEF Sessions
    <3>2. run'[s] = lastRun + 1
      BY <1>0, <2>2, <3>1 DEF Create, TypeOK, LocalType
    <3>3. r # lastRun + 1
      BY <2>2, <3>1, <3>2
    <3> QED BY <1>0, <2>2, <3>3, LastRunStep DEF Runs
  <2> QED BY <1>0, <2>1, <2>2, StoreStep
<1>7. Standing(r)' = Standing(r)
  BY <1>2, <1>5, <1>6, Zenon DEF Standing
<1> QED BY <1>2, <1>3, <1>7 DEF Idles

\* The run a worker has stands open, and no other worker has it.
LEMMA HeldRun ==
  ASSUME IInv, NEW w \in Workers, Running(w)
  PROVE  /\ run[w] \in Runs /\ run[w] <= lastRun
         /\ Standing(run[w]) = "open"
         /\ \A v \in Workers \ {w} : ~(Running(v) /\ run[v] = run[w])
<1>1. run[w] \in 1..lastRun /\ durable[run[w]] = "absent"
  BY DEF IInv, RunInv
<1>2. run[w] \in Runs /\ run[w] <= lastRun
  BY <1>1, BoundAssumption DEF IInv, TypeOK, StoreType, Runs
<1>3. InProgress(run[w])
  BY DEF InProgress
<1>4. \A v \in Workers \ {w} : ~(Running(v) /\ run[v] = run[w])
  BY DEF IInv, RunsDistinct
<1> QED BY <1>1, <1>2, <1>3, <1>4 DEF Standing

-----------------------------------------------------------------------------
(* The steps of the contract.                                                *)

LEMMA CreateOpens ==
  ASSUME IInv, IInv', NEW w \in Workers, Create(w)
  PROVE  Contract!Next
<1>0. TypeOK /\ w \in Sessions /\ SessionStep(w)
  BY DEF IInv, Sessions, SessionStep, Progress
<1>1. lastRun \in 0..MaxRuns /\ lastRun < MaxRuns /\ run \in [Workers -> 0..MaxRuns]
  BY <1>0 DEF Create, TypeOK, StoreType, LocalType
<1>2. PICK r \in Runs : r = lastRun + 1
  BY <1>1, BoundAssumption DEF Runs
<1>3. r > lastRun /\ lastRun' = r /\ run'[w] = r /\ ~Running(w) /\ Running(w)'
  <2>1. phase'[w] = "queued"
    BY <1>0, OwnStep DEF Create
  <2> QED BY <1>1, <1>2, <2>1 DEF Create, Runs, Running, TryPhases, EndPhases
<1>4. durable[r] = "absent" /\ durable' = durable /\ sent' = sent
  BY <1>0, <1>3 DEF IInv, FutureRuns, Create
<1>5. ~InProgress(r)
  <2>1. \A v \in Workers : Running(v) => run[v] \in 1..lastRun
    BY DEF IInv, RunInv
  <2> QED BY <1>1, <1>2, <2>1 DEF InProgress
<1>6. InProgress(r)'
  BY <1>3 DEF InProgress
<1>7. Moves(r, "unborn", "open")
  BY <1>3, <1>4, <1>5, <1>6 DEF Moves, Standing
<1>8. \A x \in Runs \ {r} : Idles(x)
  BY <1>0, <1>3, OthersIdle
<1>9. Planned(r)' = Planned(r)
  BY <1>0, <1>3, PlannedKept DEF Create, Commit, Running, EndPhases
<1> QED BY <1>0, <1>4, <1>7, <1>8, <1>9, ContractStep

LEMMA DispatchCommands ==
  ASSUME IInv, IInv', NEW w \in Workers, Dispatch(w)
  PROVE  Contract!Next
<1>0. TypeOK /\ w \in Sessions /\ SessionStep(w)
  BY DEF IInv, Sessions, SessionStep, Progress
<1>1. PICK r \in Runs : r = run[w] /\ Running(w) /\ Standing(r) = "open"
  BY ActingRun, HeldRun
<1>2. Running(w)' /\ run'[w] = r /\ durable' = durable /\ cur' = cur
  <2>1. phase'[w] = "verifying"
    BY <1>0, OwnStep DEF Dispatch
  <2> QED BY <1>1, <2>1 DEF Dispatch, Running, TryPhases, localVars
<1>3. durable[r] = "absent" /\ sent[r] = <<>>
  BY <1>1 DEF IInv, RunInv, Dispatch, UndispatchedPhases, TryPhases
<1>4. Moves(r, "open", "open")
  <2>1. InProgress(r)'
    BY <1>2 DEF InProgress
  <2> QED BY <1>1, <1>2, <1>3, <2>1 DEF Moves, Standing
<1>5. sent \in [Runs -> Seq(Commands)] /\ sent' = [sent EXCEPT ![r] = Append(@, CommandOf(w))]
  BY <1>0, <1>1 DEF TypeOK, StoreType, Dispatch
<1>6. CommandOf(w) \in Commands
  BY <1>0 DEF TypeOK, LocalType, CommandOf, Commands, RuleResults
<1>7. sent'[r] = <<CommandOf(w)>>
  <2>1. sent'[r] = Append(<<>>, CommandOf(w))
    BY <1>3, <1>5
  <2> QED BY <2>1
<1>8. Len(sent'[r]) = 1 /\ sent'[r][1] \in Commands
  BY <1>6, <1>7
<1>9. sent' = [sent EXCEPT ![r] = sent'[r]]
  BY <1>5
<1>10. \A x \in Runs \ {r} : Idles(x)
  BY <1>0, <1>1, OthersIdle DEF Create, Dispatch
<1>11. Planned(r)' = Planned(r)
  BY <1>2 DEF Planned, RowsBy
<1> QED BY <1>0, <1>3, <1>4, <1>8, <1>9, <1>10, <1>11, ContractStep

\* A run that closes is planned as its command says.
LEMMA CommitEnds ==
  ASSUME IInv, IInv', NEW w \in Workers, Commit(w)
  PROVE  Contract!Next
<1>0. TypeOK /\ w \in Sessions /\ SessionStep(w) /\ phase[w] \in {"closed", "manual_review"}
  BY DEF IInv, Sessions, SessionStep, Progress, Commit
<1>1. PICK r \in Runs : r = run[w] /\ Running(w) /\ Standing(r) = "open"
  BY ActingRun, HeldRun
<1>2. sent' = sent /\ durable'[r] = phase[w]
  BY <1>0, <1>1 DEF Commit, TypeOK, StoreType
<1>3. Moves(r, "open", phase[w])
  BY <1>0, <1>1, <1>2 DEF Moves, Standing
<1>4. \A x \in Runs \ {r} : Idles(x)
  BY <1>0, <1>1, OthersIdle DEF Create, Commit
<1>5. RowsBy(r) = {}
  <2>1. durable[r] = "absent"
    BY <1>1 DEF IInv, RunInv
  <2> QED BY <2>1 DEF IInv, ScheduleFollowsRun
<1>6. Told(r)'
  BY <1>1, CommitTells
<1>7. CASE phase[w] = "manual_review"
  <2>1. sent[r] = <<>>
    BY <1>1, <1>7 DEF IInv, RunInv, UndispatchedPhases
  <2>2. RowsBy(r)' = {}
    BY <1>2, <1>6, <1>7 DEF Told, Waters
  <2>3. Planned(r)' = Planned(r)
    BY <1>5, <2>2 DEF Planned
  <2> QED BY <1>0, <1>2, <1>3, <1>4, <1>7, <2>1, <2>3, ContractStep
<1>8. CASE phase[w] = "closed"
  <2>1. sent[r] = <<CommandOf(w)>>
    BY <1>1, <1>8 DEF IInv, RunInv
  <2>2. sent'[r] # <<>> /\ sent'[r][1] = CommandOf(w) /\ Head(sent[r]) = CommandOf(w)
    BY <1>2, <2>1
  <2>3. CommandOf(w).dur \in Nat \union {NoDuration}
    BY <1>0 DEF TypeOK, LocalType, CommandOf, RuleResults, Durations
  <2>4. Planned(r)' = Contract!Effect(CommandOf(w))
    <3>1. CASE Waters(CommandOf(w))
      <4>1. PICK i \in DOMAIN cur' : /\ RowsBy(r)' = {i}
                                     /\ cur'[i].slot = CommandOf(w).slot
                                     /\ cur'[i].dur = CommandOf(w).dur
        BY <1>2, <1>6, <1>8, <2>2, <3>1 DEF Told, Waters
      <4>2. Planned(r)' = {[slot |-> CommandOf(w).slot, dur |-> CommandOf(w).dur]}
        BY <4>1 DEF Planned
      <4> QED BY <3>1, <4>2, NoDurationAssumption DEF Waters, Contract!Effect
    <3>2. CASE ~Waters(CommandOf(w))
      <4>1. RowsBy(r)' = {}
        BY <1>2, <1>6, <1>8, <2>2, <3>2 DEF Told, Waters
      <4>2. Planned(r)' = {}
        BY <4>1 DEF Planned
      <4> QED BY <2>3, <3>2, <4>2 DEF Waters, Contract!Effect
    <3> QED BY <3>1, <3>2
  <2> QED BY <1>0, <1>2, <1>3, <1>4, <1>8, <2>1, <2>2, <2>4, ContractStep
<1> QED BY <1>0, <1>7, <1>8

\* A run whose worker lets it go without a commit is gone.
LEMMA LettingGo ==
  ASSUME IInv, NEW w \in Workers, Progress(w) \/ Mishap(w), ~Commit(w),
         Running(w), ~Running(w)'
  PROVE  Contract!Next
<1>0. TypeOK /\ w \in Sessions /\ SessionStep(w)
  BY DEF IInv, Sessions, SessionStep
<1>1. PICK r \in Runs : /\ r = run[w] /\ r <= lastRun /\ Standing(r) = "open"
                        /\ \A v \in Workers \ {w} : ~(Running(v) /\ run[v] = r)
  BY HeldRun
<1>2. durable[r] = "absent"
  BY <1>1 DEF IInv, RunInv
<1>3. ~Dispatch(w) /\ ~Create(w)
  BY <1>0, OwnStep DEF Dispatch, Create, Running, TryPhases
<1>4. sent' = sent /\ durable' = durable /\ lastRun' = lastRun
  BY <1>0, <1>3, StoreStep
<1>5. ~InProgress(r)'
  <2>1. \A v \in Workers \ {w} : (Running(v)' <=> Running(v)) /\ run'[v] = run[v]
    BY <1>0, Bystander DEF Same, Running, Sessions
  <2> QED BY <1>1, <2>1 DEF InProgress
<1>6. ~(r > lastRun)
  BY <1>0, <1>1, LastRunStep DEF Runs
<1>7. Moves(r, "open", "gone")
  BY <1>1, <1>2, <1>4, <1>5, <1>6 DEF Moves, Standing
<1>8. \A x \in Runs \ {r} : Idles(x)
  BY <1>0, <1>1, <1>3, OthersIdle
<1>9. Planned(r)' = Planned(r)
  BY <1>0, PlannedKept
<1> QED BY <1>0, <1>4, <1>7, <1>8, <1>9, ContractStep

\* All runs idle.
LEMMA Stutter ==
  ASSUME sent' = sent, \A r \in Runs : Idles(r)
  PROVE  UNCHANGED Contract!vars
<1>1. UNCHANGED [r \in Runs |-> Standing(r)]
  BY DEF Idles
<1>2. UNCHANGED [r \in Runs |-> Planned(r)]
  BY DEF Idles
<1> QED BY <1>1, <1>2, Zenon DEF Contract!vars, Standing, Planned

\* A run that stays with its worker idles, unless a command is sent for it.
LEMMA Keeping ==
  ASSUME IInv, NEW w \in Workers, Progress(w) \/ Mishap(w), ~Dispatch(w), ~Commit(w), ~Create(w),
         Running(w) => Running(w)'
  PROVE  UNCHANGED Contract!vars
<1>0. TypeOK /\ w \in Sessions /\ SessionStep(w)
  BY DEF IInv, Sessions, SessionStep
<1>1. sent' = sent /\ durable' = durable /\ lastRun' = lastRun
  BY <1>0, StoreStep
<1>2. ASSUME NEW r \in Runs PROVE Idles(r)
  <2>1. CASE ~(Running(w) /\ run[w] = r)
    BY <1>0, <2>1, OthersIdle
  <2>2. CASE Running(w) /\ run[w] = r
    <3>1. Running(w)' /\ run'[w] = r
      BY <1>0, <2>2, RunningStep
    <3>2. InProgress(r) /\ InProgress(r)'
      BY <2>2, <3>1 DEF InProgress
    <3>3. Planned(r)' = Planned(r)
      BY <1>0, PlannedKept
    <3> QED BY <1>1, <3>2, <3>3 DEF Idles, Standing
  <2> QED BY <2>1, <2>2
<1> QED BY <1>1, <1>2, Stutter

LEMMA NextContract == IInv /\ IInv' /\ [Next]_vars => [Contract!Next]_Contract!vars
<1> SUFFICES ASSUME IInv, IInv', [Next]_vars PROVE Contract!Next \/ UNCHANGED Contract!vars
  OBVIOUS
<1>1. ASSUME NEW w \in Workers, Progress(w) \/ Mishap(w)
      PROVE  Contract!Next \/ UNCHANGED Contract!vars
  BY <1>1, CreateOpens, DispatchCommands, CommitEnds, LettingGo, Keeping
<1>2. ASSUME NEW q \in Requests, Arrive(q) \/ Serve(q) \/ FailRequest(q)
      PROVE  UNCHANGED Contract!vars
  <2>1. q \in Sessions /\ SessionStep(q) /\ q \notin Workers
    BY <1>2, SessionAssumption DEF Sessions, SessionStep
  <2>2. \A r \in Runs : Idles(r)
    BY <2>1, OthersIdle
  <2>3. sent' = sent
    BY <2>1, StoreStep DEF IInv
  <2> QED BY <2>2, <2>3, Stutter
<1>3. ASSUME UNCHANGED <<phase, localVars, storeVars>> PROVE UNCHANGED Contract!vars
  <2>1. \A r : InProgress(r)' <=> InProgress(r)
    BY <1>3 DEF InProgress, Running, localVars
  <2>2. \A r \in Runs : Idles(r)
    BY <1>3, <2>1 DEF Idles, Standing, Planned, RowsBy, storeVars
  <2> QED BY <1>3, <2>2, Stutter DEF storeVars
<1>4. CASE Trigger
  BY <1>3, <1>4 DEF Trigger
<1>5. CASE UNCHANGED vars
  BY <1>3, <1>5 DEF vars
<1> QED BY <1>1, <1>2, <1>4, <1>5 DEF Next, Finished

LEMMA InitContract == Init => Contract!Init
<1> SUFFICES ASSUME Init PROVE Contract!Init
  OBVIOUS
<1>1. IInv
  BY InitInvariant
<1>2. /\ \A s \in Sessions : phase[s] = "idle"
      /\ lastRun = 0
      /\ \A r \in Runs : durable[r] = "absent" /\ sent[r] = <<>>
      /\ sent = [r \in Runs |-> <<>>]
  BY DEF Init
<1>3. \A r \in Runs : ~InProgress(r)
  BY <1>2 DEF InProgress, Running, TryPhases, EndPhases, Sessions
<1>4. \A r \in Runs : Standing(r) = "unborn"
  BY <1>2, <1>3 DEF Standing, Runs
<1>5. \A r \in Runs : RowsBy(r) = {}
  BY <1>1, <1>2 DEF IInv, ScheduleFollowsRun
<1>6. [r \in Runs |-> Standing(r)] = [r \in Runs |-> "unborn"]
  BY <1>4
<1>7. [r \in Runs |-> Planned(r)] = [r \in Runs |-> {}]
  BY <1>5 DEF Planned
<1> QED BY <1>2, <1>6, <1>7, Zenon DEF Contract!Init, Standing, Planned

\* Each run honours its contract, however many workers there are, whatever is
\* triggered, delivered again, retried or lost: one command at most, closed only
\* after it and together with its row, in review only without it.
THEOREM RunHonoursContract == Spec => ContractHolds
BY Invariance, InitContract, NextContract, PTL DEF Spec, ContractHolds, Contract!Spec
=============================================================================
