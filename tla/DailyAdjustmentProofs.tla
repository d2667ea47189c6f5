------------------------ MODULE DailyAdjustmentProofs ------------------------
(***************************************************************************)
(* Proofs about the daily adjustment, for any number of workers, requests, *)
(* triggers, retries, crashes and runs, and any slots, templates, replies  *)
(* and policy.                                                             *)
(***************************************************************************)
EXTENDS DailyAdjustment, AgentDecisionProofs, FiniteSetTheorems, FunctionTheorems,
        SequenceTheorems

-----------------------------------------------------------------------------
(* Sequences and the table.                                                  *)

\* Some sequence lists the elements of a finite set, and lists nothing else.
LEMMA SetToSeqElements ==
  ASSUME NEW S, IsFiniteSet(S)
  PROVE  SetToSeq(S) \in Seq(S)
<1> DEFINE n == Cardinality(S)
<1>1. n \in Nat /\ ExistsBijection(1..n, S)
  BY FS_CardinalityType
<1>2. PICK f \in Bijection(1..n, S) : TRUE
  BY <1>1 DEF ExistsBijection
<1>3. f \in [1..n -> S] /\ IsInjective(f)
  BY <1>2 DEF Bijection, Injection, IsInjective
<1>4. SetToSeq(S) \in [1..n -> S]
  BY <1>3 DEF SetToSeq
<1> QED
  BY <1>1, <1>4

\* What a bootstrap inserts are rows, and none of them is a run's.
LEMMA SeededRows ==
  ASSUME NEW S \in SUBSET TemplateRows
  PROVE  /\ SetToSeq(S) \in Seq(Rows)
         /\ \A i \in DOMAIN SetToSeq(S) : SetToSeq(S)[i].by = Seed
<1>1. IsFiniteSet(S)
  BY RowAssumption, FS_Subset
<1>2. SetToSeq(S) \in Seq(S)
  BY <1>1, SetToSeqElements
<1>3. \A row \in S : row \in Rows /\ row.by = Seed
  BY RowAssumption
<1>4. SetToSeq(S) \in Seq(Rows)
  BY <1>2, <1>3, SeqMonotonic
<1>5. \A i \in DOMAIN SetToSeq(S) : SetToSeq(S)[i] \in S
  BY <1>2, ElementOfSeq, LenProperties
<1> QED
  BY <1>3, <1>4, <1>5

\* A commit deletes no row and changes no row but for its visibility; the rows
\* it adds are those the session inserted.
LEMMA CommittedRows ==
  ASSUME TypeOK, NEW s \in Sessions
  PROVE  /\ Committed(s) \in Seq(Rows)
         /\ DOMAIN Committed(s) = 1..(Len(cur) + Len(ins[s]))
         /\ \A i \in DOMAIN cur : /\ i \in DOMAIN Committed(s)
                                  /\ Committed(s)[i].slot = cur[i].slot
                                  /\ Committed(s)[i].dur = cur[i].dur
                                  /\ Committed(s)[i].by = cur[i].by
         /\ \A i \in DOMAIN Committed(s) \ DOMAIN cur :
              /\ i - Len(cur) \in DOMAIN ins[s]
              /\ Committed(s)[i] = ins[s][i - Len(cur)]
<1> DEFINE hidden(i) == IF i \in hid[s] THEN [cur[i] EXCEPT !.live = FALSE] ELSE cur[i]
           old == [i \in DOMAIN cur |-> hidden(i)]
<1>1. cur \in Seq(Rows) /\ ins[s] \in Seq(Rows)
  BY DEF TypeOK, StoreType, TxnType
<1>2. /\ Len(cur) \in Nat /\ DOMAIN cur = 1..Len(cur)
      /\ Len(ins[s]) \in Nat /\ DOMAIN ins[s] = 1..Len(ins[s])
  BY <1>1, LenProperties
<1>3. \A i \in 1..Len(cur) : cur[i] \in Rows
  BY <1>1, ElementOfSeq
<1>4. \A i \in 1..Len(cur) : /\ hidden(i) \in Rows
                             /\ hidden(i).slot = cur[i].slot
                             /\ hidden(i).dur = cur[i].dur
                             /\ hidden(i).by = cur[i].by
  BY <1>3 DEF Rows
<1> HIDE DEF hidden
<1>5. old \in Seq(Rows) /\ Len(old) = Len(cur) /\ \A i \in 1..Len(cur) : old[i] = hidden(i)
  BY <1>2, <1>4
<1>6. Committed(s) = old \o ins[s]
  BY DEF Committed, hidden
<1> HIDE DEF old
<1>7. ASSUME NEW t \in Seq(Rows)
      PROVE  /\ t \o ins[s] \in Seq(Rows)
             /\ Len(t \o ins[s]) = Len(t) + Len(ins[s])
             /\ \A i \in 1..(Len(t) + Len(ins[s])) :
                  (t \o ins[s])[i] = IF i <= Len(t) THEN t[i] ELSE ins[s][i - Len(t)]
  BY <1>1, ConcatProperties
<1>8. /\ Committed(s) \in Seq(Rows)
      /\ Len(Committed(s)) = Len(cur) + Len(ins[s])
      /\ \A i \in 1..(Len(cur) + Len(ins[s])) :
           Committed(s)[i] = IF i <= Len(cur) THEN old[i] ELSE ins[s][i - Len(cur)]
  BY <1>7, <1>5, <1>6
<1>9. DOMAIN Committed(s) = 1..(Len(cur) + Len(ins[s]))
  BY <1>8, LenProperties
<1>10. ASSUME NEW i \in DOMAIN cur
      PROVE  i \in DOMAIN Committed(s) /\ Committed(s)[i] = hidden(i)
  BY <1>2, <1>5, <1>8, <1>9
<1>11. ASSUME NEW i \in DOMAIN Committed(s) \ DOMAIN cur
       PROVE  i - Len(cur) \in DOMAIN ins[s] /\ Committed(s)[i] = ins[s][i - Len(cur)]
  BY <1>2, <1>8, <1>9
<1> QED
  BY <1>2, <1>4, <1>8, <1>9, <1>10, <1>11
-----------------------------------------------------------------------------
(* Types.                                                                    *)

\* What a step leaves alone keeps its type.
LEMMA Untouched ==
  ASSUME TypeOK
  PROVE  /\ UNCHANGED brokerVars => BrokerType'
         /\ UNCHANGED phase => PhaseType'
         /\ UNCHANGED <<txnVars, cur>> => TxnType'
         /\ UNCHANGED localVars => LocalType'
         /\ UNCHANGED storeVars => StoreType'
<1> USE DEF TypeOK
<1>1. UNCHANGED brokerVars => BrokerType'
  BY DEF BrokerType, brokerVars
<1>2. UNCHANGED phase => PhaseType'
  BY DEF PhaseType
<1>3. UNCHANGED <<txnVars, cur>> => TxnType'
  BY DEF TxnType, txnVars
<1>4. UNCHANGED localVars => LocalType'
  BY DEF LocalType, localVars
<1>5. UNCHANGED storeVars => StoreType'
  BY DEF StoreType, storeVars
<1> QED
  BY <1>1, <1>2, <1>3, <1>4, <1>5

\* A session goes from phase to phase of its own kind.
LEMMA GotoType ==
  ASSUME PhaseType, NEW s \in Sessions, NEW there, Goto(s, there),
         s \in Workers => there \in TaskPhases,
         s \in Requests => there \in RequestPhases
  PROVE  PhaseType'
BY SessionAssumption DEF PhaseType, Goto, Sessions

\* A session begins with an empty transaction, and so it does after each.
LEMMA RollbackType ==
  ASSUME TypeOK, NEW s \in Sessions, RollbackTxn(s)
  PROVE  TxnType'
BY EmptySeq DEF TypeOK, TxnType, RollbackTxn

LEMMA CommitType ==
  ASSUME TypeOK, NEW s \in Sessions, CommitTxn(s),
         UNCHANGED lastRun, UNCHANGED sent,
         durable' \in [Runs -> {"absent", "closed", "manual_review"}]
  PROVE  TxnType' /\ StoreType'
<1>1. cur' \in Seq(Rows) /\ DOMAIN cur \subseteq DOMAIN cur'
  BY CommittedRows DEF CommitTxn
<1>2. StoreType'
  BY <1>1 DEF TypeOK, StoreType
<1>3. TxnType'
  BY <1>1, EmptySeq DEF CommitTxn, TypeOK, TxnType
<1> QED
  BY <1>2, <1>3

\* A worker that forgets its task holds typed values.
LEMMA ForgetType ==
  ASSUME TypeOK, NEW w \in Workers, ForgetTask(w)
  PROVE  LocalType' /\ retries' \in [Workers -> 0..MaxRetries]
<1>1. /\ NoBase \in [slot : Slots, dur : Nat]
      /\ Heuristic(0) \in RecommendationValues
      /\ NoResult \in RuleResults
  BY SlotAssumption
     DEF NoBase, Heuristic, RecommendationValues, NoResult, RuleResults, Actions, Durations
<1>2. 0 \in 0..MaxRuns /\ 0 \in 0..MaxRetries
  BY BoundAssumption
<1>3. LocalType'
  <2>1. LocalType
    BY DEF TypeOK
  <2> HIDE DEF NoBase, NoResult, Heuristic
  <2>2. /\ run' \in [Workers -> 0..MaxRuns]
        /\ base' \in [Workers -> [slot : Slots, dur : Nat]]
    BY <1>1, <1>2, <2>1 DEF ForgetTask, LocalType
  <2>3. /\ rec' \in [Workers -> RecommendationValues]
        /\ result' \in [Workers -> RuleResults]
    BY <1>1, <2>1 DEF ForgetTask, LocalType
  <2> QED
    BY <2>2, <2>3 DEF LocalType
<1>4. retries' \in [Workers -> 0..MaxRetries]
  <2>1. retries \in [Workers -> 0..MaxRetries]
    BY DEF TypeOK, BrokerType
  <2>2. retries' = [retries EXCEPT ![w] = 0]
    BY DEF ForgetTask
  <2> QED
    BY <1>2, <2>1, <2>2
<1> QED
  BY <1>3, <1>4

LEMMA InitType == Init => TypeOK
<1> SUFFICES ASSUME Init PROVE TypeOK
  OBVIOUS
<1> USE BoundAssumption DEF Init
<1>1. BrokerType
  BY DEF BrokerType
<1>2. PhaseType
  BY DEF PhaseType, TaskPhases, RequestPhases, Sessions
<1>3. TxnType
  BY EmptySeq DEF TxnType
<1>4. LocalType
  <2>1. /\ NoBase \in [slot : Slots, dur : Nat]
        /\ Heuristic(0) \in RecommendationValues
        /\ NoResult \in RuleResults
    BY SlotAssumption
       DEF NoBase, Heuristic, RecommendationValues, NoResult, RuleResults, Actions, Durations
  <2> QED
    BY <2>1 DEF LocalType
<1>5. StoreType
  BY RowAssumption, EmptySeq DEF StoreType
<1> QED
  BY <1>1, <1>2, <1>3, <1>4, <1>5 DEF TypeOK

\* What a worker or a request does in the bootstrap and in a save.
LEMMA SharedTypeStep ==
  ASSUME TypeOK, NEW s \in Sessions,
         BootRead(s) \/ BootCommit(s) \/ SaveSelect(s) \/ Supersede(s) \/ AllSuperseded(s)
  PROVE  TypeOK'
<1> USE DEF TypeOK
<1>0. s \in Workers => s \notin Requests
  BY SessionAssumption
<1>1. CASE BootRead(s)
  <2>1. SetToSeq({row \in TemplateRows : VisibleAt(row.slot) = {}}) \in Seq(Rows)
    BY SeededRows
  <2>2. TxnType'
    BY <1>1, <2>1 DEF BootRead, TxnType, storeVars
  <2>3. PhaseType'
    BY <1>1, GotoType DEF BootRead, TaskPhases, RequestPhases, BootPhases
  <2> QED
    BY <1>1, <2>2, <2>3, Untouched DEF BootRead
<1>2. CASE BootCommit(s)
  <2>1. TxnType' /\ StoreType'
    BY <1>2, CommitType DEF BootCommit, StoreType
  <2>2. PhaseType'
    BY <1>0, <1>2, GotoType DEF BootCommit, TaskPhases, RequestPhases, Sessions
  <2> QED
    BY <1>2, <2>1, <2>2, Untouched DEF BootCommit
<1>3. CASE SaveSelect(s)
  <2>1. VisibleAt(ins[s][1].slot) \subseteq DOMAIN cur
    BY DEF VisibleAt, Visible
  <2>2. TxnType'
    BY <1>3, <2>1 DEF SaveSelect, TxnType, storeVars
  <2>3. PhaseType'
    BY <1>3, GotoType DEF SaveSelect, TaskPhases, TryPhases, RequestPhases
  <2> QED
    BY <1>3, <2>2, <2>3, Untouched DEF SaveSelect
<1>4. CASE Supersede(s)
  <2>1. TxnType'
    BY <1>4 DEF Supersede, TxnType, Left, storeVars
  <2> QED
    BY <1>4, <2>1, Untouched DEF Supersede
<1>5. CASE AllSuperseded(s)
  <2>1. PhaseType'
    BY <1>0, <1>5, GotoType DEF AllSuperseded, TaskPhases, TryPhases, RequestPhases, Sessions
  <2> QED
    BY <1>5, <2>1, Untouched DEF AllSuperseded, storeVars
<1> QED
  BY <1>1, <1>2, <1>3, <1>4, <1>5

\* What the rest of the task does when nothing goes wrong.
LEMMA ProgressTypeStep ==
  ASSUME TypeOK, NEW w \in Workers, Progress(w)
  PROVE  TypeOK'
<1> USE DEF TypeOK
<1>0. w \in Sessions /\ w \notin Requests
  BY SessionAssumption DEF Sessions
<1>1. CASE Receive(w)
  <2>1. BrokerType'
    BY <1>1 DEF Receive, BrokerType
  <2>2. PhaseType'
    BY <1>0, <1>1, GotoType DEF Receive, TaskPhases, BootPhases
  <2> QED
    BY <1>1, <2>1, <2>2, Untouched DEF Receive, storeVars
<1>2. CASE BootRead(w) \/ BootCommit(w) \/ SaveSelect(w) \/ Supersede(w) \/ AllSuperseded(w)
  BY <1>0, <1>2, SharedTypeStep
<1>3. CASE Create(w)
  <2>1. lastRun \in 0..MaxRuns /\ lastRun < MaxRuns
    BY <1>3 DEF Create, StoreType
  <2>2. lastRun + 1 \in 0..MaxRuns
    BY <2>1, BoundAssumption
  <2>3. StoreType'
    BY <1>3, <2>2 DEF Create, StoreType
  <2>4. LocalType'
    BY <1>3, <2>2 DEF Create, LocalType
  <2>5. PhaseType'
    BY <1>0, <1>3, GotoType DEF Create, TaskPhases, TryPhases
  <2> QED
    BY <1>3, <2>3, <2>4, <2>5, Untouched DEF Create
<1>4. CASE Collect(w)
  <2>1. \A first \in FirstOf(Visible) : first \in [slot : Slots, dur : Nat]
    <3>1. NoBase \in [slot : Slots, dur : Nat]
      BY SlotAssumption DEF NoBase
    <3>2. \A i \in Visible : cur[i] \in Rows
      BY ElementOfSeq, LenProperties DEF Visible, StoreType
    <3>3. \A i \in Visible : [slot |-> cur[i].slot, dur |-> cur[i].dur] \in [slot : Slots, dur : Nat]
      BY <3>2 DEF Rows
    <3> QED
      BY <3>1, <3>3 DEF FirstOf, Earliest
  <2>2. LocalType'
    BY <1>4, <2>1 DEF Collect, LocalType
  <2>3. TxnType'
    BY <1>4 DEF Collect, TxnType, Visible, storeVars
  <2>4. PhaseType'
    BY <1>0, <1>4, GotoType DEF Collect, TaskPhases, TryPhases
  <2> QED
    BY <1>4, <2>2, <2>3, <2>4, Untouched DEF Collect
<1>5. CASE GetWeather(w)
  <2>1. PhaseType'
    BY <1>0, <1>5, GotoType DEF GetWeather, TaskPhases, TryPhases
  <2> QED
    BY <1>5, <2>1, Untouched DEF GetWeather, storeVars
<1>6. CASE Recommend(w)
  <2>1. base[w].dur \in Nat
    BY DEF LocalType
  <2>2. \A r \in Recommendations(base[w].dur) : r \in RecommendationValues
    <3>1. Heuristic(base[w].dur) \in RecommendationValues
      BY <2>1 DEF Heuristic, RecommendationValues, Actions, Durations
    <3>2. \A reply \in Replies, dry \in BOOLEAN : Acceptable(reply) =>
            Coerce(reply, base[w].dur, dry) \in RecommendationValues
      BY <2>1, CoerceCoherent, ReplyAssumption
    <3> QED
      BY <3>1, <3>2 DEF Recommendations
  <2>3. LocalType'
    BY <1>6, <2>2 DEF Recommend, LocalType
  <2>4. PhaseType'
    BY <1>0, <1>6, GotoType DEF Recommend, TaskPhases, TryPhases
  <2> QED
    BY <1>6, <2>3, <2>4, Untouched DEF Recommend, storeVars
<1>7. CASE ApplyRules(w)
  <2>1. base[w].dur \in Nat /\ rec[w] \in RecommendationValues
    BY DEF LocalType
  <2>2. Apply(rec[w], base[w].dur, FALSE) \in RuleResults
    BY <2>1, ApplyType
  <2>3. LocalType'
    BY <1>7, <2>2 DEF ApplyRules, LocalType
  <2>4. PhaseType'
    BY <1>0, <1>7, GotoType DEF ApplyRules, TaskPhases, TryPhases
  <2> QED
    BY <1>7, <2>3, <2>4, Untouched DEF ApplyRules, storeVars
<1>8. CASE Gate(w)
  <2>1. Waters(result[w]) => Row(base[w].slot, result[w].dur, run[w]) \in Rows
    <3>1. result[w].dur \in Durations /\ base[w].slot \in Slots /\ run[w] \in 0..MaxRuns
      BY DEF LocalType, RuleResults
    <3>2. Waters(result[w]) => result[w].dur \in Nat \ {0}
      BY <3>1 DEF Waters, Durations
    <3>3. run[w] \in -1..MaxRuns
      BY <3>1, BoundAssumption
    <3> QED
      BY <3>1, <3>2, <3>3 DEF Row, Rows
  <2>2. TxnType'
    <3>1. ins' \in [Sessions -> Seq(Rows)]
      <4>1. Waters(result[w]) =>
              <<Row(base[w].slot, result[w].dur, run[w])>> \in Seq(Rows)
        BY <2>1
      <4> QED
        BY <1>8, <4>1 DEF Gate, TxnType
    <3> QED
      BY <1>8, <3>1 DEF Gate, TxnType, storeVars
  <2>3. PhaseType'
    BY <1>0, <1>8, GotoType DEF Gate, TaskPhases, TryPhases, EndPhases
  <2> QED
    BY <1>8, <2>2, <2>3, Untouched DEF Gate
<1>9. CASE Deactivate(w)
  <2>1. TxnType'
    BY <1>9, <1>0 DEF Deactivate, TxnType, Earliest, Left, storeVars
  <2> QED
    BY <1>9, <2>1, Untouched DEF Deactivate
<1>10. CASE AllDeactivated(w)
  <2>1. PhaseType'
    BY <1>0, <1>10, GotoType DEF AllDeactivated, TaskPhases, TryPhases
  <2> QED
    BY <1>10, <2>1, Untouched DEF AllDeactivated, storeVars
<1>11. CASE Dispatch(w)
  <2>1. CommandOf(w) \in Commands
    BY DEF LocalType, RuleResults, CommandOf, Commands
  <2>2. sent' \in [Runs -> Seq(Commands)]
    <3>1. sent \in [Runs -> Seq(Commands)]
      BY DEF StoreType
    <3>2. sent' = [sent EXCEPT ![run[w]] = Append(@, CommandOf(w))]
      BY <1>11 DEF Dispatch
    <3>3. \A r \in Runs : Append(sent[r], CommandOf(w)) \in Seq(Commands)
      BY <2>1, <3>1
    <3> QED
      BY <3>1, <3>2, <3>3
  <2>3. StoreType'
    BY <1>11, <2>2 DEF Dispatch, StoreType
  <2>4. PhaseType'
    BY <1>0, <1>11, GotoType DEF Dispatch, TaskPhases, TryPhases
  <2> QED
    BY <1>11, <2>3, <2>4, Untouched DEF Dispatch
<1>12. CASE Close(w)
  <2>1. PhaseType'
    BY <1>0, <1>12, GotoType DEF Close, TaskPhases, EndPhases
  <2> QED
    BY <1>12, <2>1, Untouched DEF Close, storeVars
<1>13. CASE Commit(w)
  <2>1. durable' \in [Runs -> {"absent", "closed", "manual_review"}]
    BY <1>13 DEF Commit, StoreType
  <2>2. TxnType' /\ StoreType'
    BY <1>0, <1>13, <2>1, CommitType DEF Commit
  <2>3. PhaseType'
    BY <1>0, <1>13, GotoType DEF Commit, TaskPhases
  <2> QED
    BY <1>13, <2>2, <2>3, Untouched DEF Commit
<1>14. CASE Rollback(w)
  <2>1. TxnType' /\ cur' = cur
    BY <1>0, <1>14, RollbackType DEF Rollback, RollbackTxn
  <2>2. PhaseType'
    BY <1>0, <1>14, GotoType DEF Rollback, TaskPhases
  <2> QED
    BY <1>14, <2>1, <2>2, Untouched DEF Rollback, storeVars
<1>15. CASE Retry(w)
  <2>1. BrokerType'
    <3>1. retries[w] \in 0..MaxRetries
      BY DEF BrokerType
    <3>2. retries[w] < MaxRetries => retries[w] + 1 \in 0..MaxRetries
      BY <3>1, BoundAssumption
    <3>3. queue' \in [0..MaxRetries -> Nat]
      BY <1>15, <3>2 DEF Retry, BrokerType
    <3> QED
      BY <1>15, <3>3 DEF Retry, BrokerType
  <2>2. PhaseType'
    BY <1>0, <1>15, GotoType DEF Retry, TaskPhases
  <2> QED
    BY <1>15, <2>1, <2>2, Untouched DEF Retry, storeVars
<1>16. CASE Ack(w)
  <2>1. LocalType' /\ retries' \in [Workers -> 0..MaxRetries]
    BY <1>16, ForgetType DEF Ack
  <2>2. BrokerType'
    BY <1>16, <2>1 DEF Ack, BrokerType
  <2>3. PhaseType'
    BY <1>0, <1>16, GotoType DEF Ack, TaskPhases
  <2> QED
    BY <1>16, <2>1, <2>2, <2>3, Untouched DEF Ack, storeVars
<1> QED
  BY <1>1, <1>2, <1>3, <1>4, <1>5, <1>6, <1>7, <1>8, <1>9, <1>10, <1>11,
     <1>12, <1>13, <1>14, <1>15, <1>16 DEF Progress

\* What goes wrong in a worker.
LEMMA MishapTypeStep ==
  ASSUME TypeOK, NEW w \in Workers, Mishap(w)
  PROVE  TypeOK'
<1> USE DEF TypeOK
<1>0. w \in Sessions /\ w \notin Requests
  BY SessionAssumption DEF Sessions
<1>1. CASE Fail(w)
  <2>1. PhaseType'
    BY <1>0, <1>1, GotoType DEF Fail, TaskPhases, EndPhases
  <2> QED
    BY <1>1, <2>1, Untouched DEF Fail, storeVars
<1>2. CASE Raise(w)
  <2>1. TxnType' /\ cur' = cur
    BY <1>0, <1>2, RollbackType DEF Raise, RollbackTxn
  <2>2. PhaseType'
    BY <1>0, <1>2, GotoType DEF Raise, TaskPhases
  <2> QED
    BY <1>2, <2>1, <2>2, Untouched DEF Raise, storeVars
<1>3. CASE Crash(w)
  <2>1. TxnType'
    BY <1>0, <1>3, RollbackType DEF Crash
  <2>2. LocalType' /\ retries' \in [Workers -> 0..MaxRetries]
    BY <1>3, ForgetType DEF Crash
  <2>3. queue' \in [0..MaxRetries -> Nat]
    BY <1>3 DEF Crash, BrokerType
  <2>4. crashes' \in 0..MaxCrashes
    BY <1>3, BoundAssumption DEF Crash, BrokerType
  <2>5. BrokerType'
    BY <1>3, <2>2, <2>3, <2>4 DEF Crash, BrokerType
  <2>6. PhaseType'
    BY <1>0, <1>3, GotoType DEF Crash, TaskPhases
  <2> QED
    BY <1>3, <2>1, <2>2, <2>5, <2>6, Untouched DEF Crash
<1> QED
  BY <1>1, <1>2, <1>3 DEF Mishap

\* What only the API does.
LEMMA RequestTypeStep ==
  ASSUME TypeOK, NEW q \in Requests, Arrive(q) \/ Serve(q) \/ FailRequest(q)
  PROVE  TypeOK'
<1> USE DEF TypeOK
<1>0. q \in Sessions /\ q \notin Workers
  BY SessionAssumption DEF Sessions
<1>1. CASE Post(q)
  <2>1. \A slot \in Slots, dur \in OperatorDurations : Row(slot, dur, Operator) \in Rows
    BY DurationAssumption, BoundAssumption DEF Row, Rows, Operator
  <2>2. \A slot \in Slots, dur \in OperatorDurations :
          <<Row(slot, dur, Operator)>> \in Seq(Rows)
    BY <2>1
  <2>3. ins' \in [Sessions -> Seq(Rows)]
    BY <1>1, <2>2 DEF Post, TxnType
  <2>4. TxnType'
    BY <1>1, <2>3 DEF Post, TxnType, storeVars
  <2>5. PhaseType'
    BY <1>0, <1>1, GotoType DEF Post, RequestPhases
  <2> QED
    BY <1>1, <2>4, <2>5, Untouched DEF Post
<1>2. CASE Delete(q)
  <2>1. TxnType'
    BY <1>0, <1>2 DEF Delete, TxnType, Visible, storeVars
  <2>2. PhaseType'
    BY <1>0, <1>2, GotoType DEF Delete, RequestPhases
  <2> QED
    BY <1>2, <2>1, <2>2, Untouched DEF Delete
<1>3. CASE Startup(q)
  <2>1. PhaseType'
    BY <1>0, <1>3, GotoType DEF Startup, RequestPhases, BootPhases
  <2> QED
    BY <1>3, <2>1, Untouched DEF Startup, storeVars
<1>4. CASE BootRead(q) \/ BootCommit(q) \/ SaveSelect(q) \/ Supersede(q) \/ AllSuperseded(q)
  BY <1>0, <1>4, SharedTypeStep
<1>5. CASE CommitRequest(q)
  <2>1. TxnType' /\ StoreType'
    BY <1>0, <1>5, CommitType DEF CommitRequest, StoreType
  <2>2. PhaseType'
    BY <1>0, <1>5, GotoType DEF CommitRequest, RequestPhases
  <2> QED
    BY <1>5, <2>1, <2>2, Untouched DEF CommitRequest
<1>6. CASE FailRequest(q)
  <2>1. TxnType' /\ cur' = cur
    BY <1>0, <1>6, RollbackType DEF FailRequest, RollbackTxn
  <2>2. PhaseType'
    BY <1>0, <1>6, GotoType DEF FailRequest, RequestPhases
  <2> QED
    BY <1>6, <2>1, <2>2, Untouched DEF FailRequest, storeVars
<1> QED
  BY <1>1, <1>2, <1>3, <1>4, <1>5, <1>6 DEF Arrive, Serve

LEMMA TypeStep == TypeOK /\ [Next]_vars => TypeOK'
<1> SUFFICES ASSUME TypeOK, [Next]_vars
             PROVE  TypeOK'
  OBVIOUS
<1>1. CASE Trigger
  <2>1. BrokerType'
    BY <1>1, BoundAssumption DEF Trigger, TypeOK, BrokerType
  <2> QED
    BY <1>1, <2>1, Untouched DEF Trigger, TypeOK, storeVars
<1>2. ASSUME NEW w \in Workers, Progress(w) \/ Mishap(w)
      PROVE  TypeOK'
  BY <1>2, ProgressTypeStep, MishapTypeStep
<1>3. ASSUME NEW q \in Requests, Arrive(q) \/ Serve(q) \/ FailRequest(q)
      PROVE  TypeOK'
  BY <1>3, RequestTypeStep
<1>4. CASE UNCHANGED vars
  BY <1>4, Untouched DEF vars, storeVars, TypeOK
<1> QED
  BY <1>1, <1>2, <1>3, <1>4 DEF Next, Finished

\* Whatever is triggered, retried, redelivered or requested, every session, row,
\* run and command is of the kind the code declares: no row of 0 minutes is ever
\* written, no slot is invented and no run changes its number.
THEOREM TypeCorrect == Spec => []TypeOK
BY InitType, TypeStep, PTL DEF Spec

-----------------------------------------------------------------------------
(* The budget of runs.  Every message descends from an origin, a trigger or a *)
(* redelivery after a crash.  A ledger charges each run to an origin and a    *)
(* retry count, no two runs to the same, and says where each origin's message *)
(* is: the ledger balances after each step, and has room for no more than     *)
(* MaxRetries + 1 runs of an origin.                                          *)

Origins == 1..(triggers + crashes)
Charges == Origins \X (0..MaxRetries)

\* Where the message of an origin is.
Gone == <<"gone", 0>>
Queued(n) == <<"queued", n>>
Held(w) == <<"held", w>>

\* Worker w works on its message, and has yet to create the run it is for.
Busy(w) == phase[w] \notin {"idle", "settled"}
Owing(w) == phase[w] \in BootPhases \union {"bootstrapped"}

Waiting(at, n) == {o \in Origins : at[o] = Queued(n)}

Ledger(spent, at) ==
  /\ spent \in [1..lastRun -> Charges]
  /\ \A r, s \in 1..lastRun : spent[r] = spent[s] => r = s
  /\ \A n \in 0..MaxRetries : queue[n] <= Cardinality(Waiting(at, n))
  /\ \A w \in Workers : Busy(w) => \E o \in Origins : at[o] = Held(w)
  /\ \A r \in 1..lastRun :
       /\ \A n \in 0..MaxRetries : at[spent[r][1]] = Queued(n) => spent[r][2] < n
       /\ \A w \in Workers :
            Busy(w) /\ at[spent[r][1]] = Held(w) =>
              /\ spent[r][2] <= retries[w]
              /\ Owing(w) => spent[r][2] # retries[w]

Accounted == \E spent, at : Ledger(spent, at)

\* A message is in one place.
LEMMA PlacesApart ==
  /\ \A m, n : Queued(m) = Queued(n) => m = n
  /\ \A v, w : Held(v) = Held(w) => v = w
  /\ \A n, w : Queued(n) # Held(w)
  /\ \A n : Queued(n) # Gone
  /\ \A w : Held(w) # Gone
BY DEF Queued, Held, Gone

LEMMA WaitingFinite ==
  ASSUME TypeOK, NEW at, NEW n
  PROVE  IsFiniteSet(Waiting(at, n)) /\ Cardinality(Waiting(at, n)) \in Nat
<1>1. triggers + crashes \in Int
  BY DEF TypeOK, BrokerType
<1>2. IsFiniteSet(Origins)
  BY <1>1, FS_Interval DEF Origins
<1>3. Waiting(at, n) \in SUBSET Origins
  BY DEF Waiting
<1> QED
  BY <1>2, <1>3, FS_Subset, FS_CardinalityType

\* A balanced ledger has at most MaxRetries + 1 runs for each origin.
LEMMA LedgerBounds ==
  ASSUME TypeOK, NEW spent, NEW at, Ledger(spent, at)
  PROVE  AttemptBudget
<1> DEFINE k == triggers + crashes
<1>1. k \in Nat /\ lastRun \in Nat /\ MaxRetries \in Nat
  BY BoundAssumption DEF TypeOK, BrokerType, StoreType
<1>2. IsFiniteSet(1..k) /\ Cardinality(1..k) = k
  BY <1>1, FS_Interval
<1>3. IsFiniteSet(0..MaxRetries) /\ Cardinality(0..MaxRetries) = MaxRetries + 1
  BY <1>1, FS_Interval
<1>4. IsFiniteSet(1..lastRun) /\ Cardinality(1..lastRun) = lastRun
  BY <1>1, FS_Interval
<1>5. IsFiniteSet(Charges) /\ Cardinality(Charges) = k * (MaxRetries + 1)
  BY <1>2, <1>3, FS_Product DEF Charges, Origins
<1>6. spent \in Injection(1..lastRun, Charges)
  BY DEF Ledger, Injection, IsInjective
<1>7. lastRun <= Cardinality(Charges)
  BY <1>4, <1>5, <1>6, FS_Injection
<1> QED
  BY <1>5, <1>7 DEF AttemptBudget

\* The ledger stays as it is when no message is published, no run is created,
\* and no worker starts on a message.
LEMMA LedgerKept ==
  ASSUME TypeOK, NEW spent, NEW at, Ledger(spent, at),
         UNCHANGED <<triggers, crashes, lastRun>>,
         \A n \in 0..MaxRetries : queue'[n] = queue[n],
         \A w \in Workers : Busy(w)' => Busy(w) /\ retries'[w] = retries[w],
         \A w \in Workers : Owing(w)' => Owing(w)
  PROVE  Accounted'
<1>1. Origins' = Origins /\ Charges' = Charges
  BY DEF Origins, Charges
<1>2. \A n : Waiting(at, n)' = Waiting(at, n)
  BY <1>1 DEF Waiting
<1>3. Ledger(spent, at)'
  BY <1>1, <1>2 DEF Ledger
<1> QED
  BY <1>3 DEF Accounted

\* A new message has an origin of its own, and no run yet.
LEMMA LedgerOpens ==
  ASSUME TypeOK, NEW spent, NEW at, Ledger(spent, at), NEW n \in 0..MaxRetries,
         triggers' + crashes' = triggers + crashes + 1,
         lastRun' = lastRun,
         queue' \in {queue, [queue EXCEPT ![n] = @ + 1]},
         \A w \in Workers : Busy(w)' => Busy(w) /\ retries'[w] = retries[w],
         \A w \in Workers : Owing(w)' => Owing(w)
  PROVE  Accounted'
<1> DEFINE new == triggers + crashes + 1
<1>1. triggers + crashes \in Nat
  BY BoundAssumption DEF TypeOK, BrokerType
<1>2. /\ Origins \subseteq Origins' /\ new \in Origins' /\ new \notin Origins
      /\ \A o \in Origins' : o # new => o \in Origins
  BY <1>1 DEF Origins
<1> PICK next : next = [o \in Origins' |-> IF o = new THEN Queued(n) ELSE at[o]]
  OBVIOUS
<1>3. \A o \in Origins : o # new /\ next[o] = at[o]
  BY <1>2
<1>4. next[new] = Queued(n)
  BY <1>2
<1>5. spent \in [1..lastRun' -> Charges'] /\ Charges \subseteq Charges'
  BY <1>2 DEF Ledger, Charges
<1>6. \A r, s \in 1..lastRun' : spent[r] = spent[s] => r = s
  BY DEF Ledger
<1>7. ASSUME NEW m \in 0..MaxRetries
      PROVE  queue'[m] <= Cardinality(Waiting(next, m)')
  <2>1. /\ IsFiniteSet(Waiting(at, m)) /\ Cardinality(Waiting(at, m)) \in Nat
        /\ queue[m] <= Cardinality(Waiting(at, m)) /\ queue[m] \in Nat
        /\ queue \in [0..MaxRetries -> Nat]
    BY WaitingFinite DEF Ledger, TypeOK, BrokerType
  <2>2. CASE m = n
    <3>1. Waiting(next, m)' = Waiting(at, m) \union {new}
      <4>1. next[new] = Queued(m)
        BY <1>4, <2>2
      <4> HIDE DEF new
      <4>2. \A o : o \in Waiting(next, m)' <=> o \in Waiting(at, m) \/ o = new
        BY <1>2, <1>3, <4>1 DEF Waiting
      <4> QED
        BY <4>2
    <3>2. new \notin Waiting(at, m)
      BY <1>2 DEF Waiting
    <3>3. Cardinality(Waiting(next, m)') = Cardinality(Waiting(at, m)) + 1
      BY <2>1, <3>1, <3>2, FS_AddElement
    <3>4. queue'[m] = queue[m] \/ queue'[m] = queue[m] + 1
      BY <2>1, <2>2
    <3> QED
      BY <2>1, <3>3, <3>4
  <2>3. CASE m # n
    <3>1. Waiting(next, m)' = Waiting(at, m)
      BY <1>2, <1>3, <1>4, <2>3, PlacesApart DEF Waiting
    <3> QED
      BY <2>1, <2>3, <3>1
  <2> QED
    BY <2>2, <2>3
<1>8. \A w \in Workers : Busy(w)' => \E o \in Origins' : next[o] = Held(w)
  BY <1>2, <1>3 DEF Ledger
<1>9. \A r \in 1..lastRun : spent[r][1] \in Origins
  BY DEF Ledger, Charges
<1>10. ASSUME NEW r \in 1..lastRun'
       PROVE  /\ \A m \in 0..MaxRetries : next[spent[r][1]] = Queued(m) => spent[r][2] < m
              /\ \A w \in Workers :
                   Busy(w)' /\ next[spent[r][1]] = Held(w) =>
                     /\ spent[r][2] <= retries'[w]
                     /\ Owing(w)' => spent[r][2] # retries'[w]
  <2>1. next[spent[r][1]] = at[spent[r][1]]
    BY <1>3, <1>9
  <2> QED
    BY <2>1 DEF Ledger
<1>11. Ledger(spent, next)'
  BY <1>5, <1>6, <1>7, <1>8, <1>10 DEF Ledger
<1> QED
  BY <1>11 DEF Accounted

\* A worker takes a message with its origin, whose runs had fewer retries.
LEMMA ReceiveMoves ==
  ASSUME TypeOK, NEW spent, NEW at, Ledger(spent, at), NEW w \in Workers, Receive(w)
  PROVE  Accounted'
<1>0. queue \in [0..MaxRetries -> Nat] /\ retries \in [Workers -> 0..MaxRetries]
      /\ phase \in [Sessions -> TaskPhases \union RequestPhases] /\ w \in Sessions
  BY DEF TypeOK, BrokerType, PhaseType, Sessions
<1>1. PICK n \in 0..MaxRetries : /\ queue[n] > 0
                                 /\ queue' = [queue EXCEPT ![n] = @ - 1]
                                 /\ retries' = [retries EXCEPT ![w] = n]
  BY DEF Receive
<1>2. phase[w] = "idle" /\ phase' = [phase EXCEPT ![w] = "starting"]
  BY DEF Receive, Goto
<1>3. Origins' = Origins /\ Charges' = Charges /\ lastRun' = lastRun
  BY DEF Receive, Origins, Charges, storeVars
<1>4. Waiting(at, n) # {}
  <2>1. queue[n] \in Nat /\ queue[n] <= Cardinality(Waiting(at, n))
    BY <1>0 DEF Ledger
  <2> QED
    BY <1>1, <2>1, FS_EmptySet, WaitingFinite
<1>5. PICK o \in Origins : at[o] = Queued(n)
  BY <1>4 DEF Waiting
<1> PICK next : next = [p \in Origins |-> IF p = o THEN Held(w)
                                           ELSE IF at[p] = Held(w) THEN Gone
                                           ELSE at[p]]
  OBVIOUS
<1>6. next[o] = Held(w) /\ \A p \in Origins \ {o} : next[p] # Held(w)
  BY PlacesApart
<1>7. ASSUME NEW v \in Workers \ {w}
      PROVE  /\ retries'[v] = retries[v]
             /\ Busy(v)' = Busy(v) /\ Owing(v)' = Owing(v)
             /\ \A p \in Origins : next[p] = Held(v) <=> at[p] = Held(v)
  <2>1. v \in Sessions
    BY DEF Sessions
  <2>2. \A p \in Origins : next[p] = Held(v) <=> at[p] = Held(v)
    BY <1>5, PlacesApart
  <2> QED
    BY <1>0, <1>1, <1>2, <2>1, <2>2 DEF Busy, Owing
<1>8. \A m \in 0..MaxRetries, p \in Origins : next[p] = Queued(m) => at[p] = Queued(m) /\ p # o
  BY PlacesApart
<1>9. \A m \in 0..MaxRetries, p \in Origins : at[p] = Queued(m) /\ p # o => next[p] = Queued(m)
  BY PlacesApart
<1>10. ASSUME NEW m \in 0..MaxRetries
       PROVE  queue'[m] <= Cardinality(Waiting(next, m)')
  <2>1. /\ IsFiniteSet(Waiting(at, m)) /\ Cardinality(Waiting(at, m)) \in Nat
        /\ queue[m] <= Cardinality(Waiting(at, m)) /\ queue[m] \in Nat
    BY <1>0, WaitingFinite DEF Ledger
  <2>2. Waiting(next, m)' = Waiting(at, m) \ {o}
    BY <1>3, <1>8, <1>9 DEF Waiting
  <2>3. CASE m = n
    <3>1. Cardinality(Waiting(next, m)') = Cardinality(Waiting(at, m)) - 1
      BY <1>5, <2>1, <2>2, <2>3, FS_RemoveElement DEF Waiting
    <3> QED
      BY <1>0, <1>1, <2>1, <2>3, <3>1
  <2>4. CASE m # n
    <3>1. o \notin Waiting(at, m)
      BY <1>5, <2>4, PlacesApart DEF Waiting
    <3>2. Waiting(next, m)' = Waiting(at, m)
      BY <2>2, <3>1
    <3> QED
      BY <1>0, <1>1, <2>1, <2>4, <3>2
  <2> QED
    BY <2>3, <2>4
<1>11. \A v \in Workers : Busy(v)' => \E p \in Origins : next[p] = Held(v)
  BY <1>6, <1>7 DEF Ledger
<1>12. ASSUME NEW r \in 1..lastRun
       PROVE  /\ \A m \in 0..MaxRetries : next[spent[r][1]] = Queued(m) => spent[r][2] < m
              /\ \A v \in Workers :
                   Busy(v)' /\ next[spent[r][1]] = Held(v) =>
                     /\ spent[r][2] <= retries'[v]
                     /\ Owing(v)' => spent[r][2] # retries'[v]
  <2>1. spent[r][1] \in Origins /\ spent[r][2] \in 0..MaxRetries
    BY DEF Ledger, Charges
  <2>2. \A m \in 0..MaxRetries : next[spent[r][1]] = Queued(m) => spent[r][2] < m
    BY <1>8, <2>1 DEF Ledger
  <2>3. ASSUME NEW v \in Workers, Busy(v)', next[spent[r][1]] = Held(v)
        PROVE  /\ spent[r][2] <= retries'[v]
               /\ Owing(v)' => spent[r][2] # retries'[v]
    <3>1. CASE v = w
      <4>1. spent[r][1] = o
        BY <1>6, <2>1, <2>3, <3>1
      <4>2. spent[r][2] < n
        BY <1>5, <4>1 DEF Ledger
      <4>3. retries'[v] = n
        BY <1>0, <1>1, <3>1
      <4> QED
        BY <2>1, <4>2, <4>3
    <3>2. CASE v # w
      BY <1>7, <2>1, <2>3, <3>2 DEF Ledger
    <3> QED
      BY <3>1, <3>2
  <2> QED
    BY <2>2, <2>3
<1>13. Ledger(spent, next)'
  <2>1. spent \in [1..lastRun -> Charges] /\ \A r, s \in 1..lastRun : spent[r] = spent[s] => r = s
    BY DEF Ledger
  <2> QED
    BY <1>3, <1>10, <1>11, <1>12, <2>1 DEF Ledger
<1> QED
  BY <1>13 DEF Accounted

\* A run is charged to the origin of the message its worker holds, at the retry
\* count it has, which no earlier run of the origin had.
LEMMA CreateCharges ==
  ASSUME TypeOK, NEW spent, NEW at, Ledger(spent, at), NEW w \in Workers, Create(w)
  PROVE  Accounted'
<1>0. /\ retries \in [Workers -> 0..MaxRetries] /\ lastRun \in Nat
      /\ phase \in [Sessions -> TaskPhases \union RequestPhases] /\ w \in Sessions
  BY BoundAssumption DEF TypeOK, BrokerType, PhaseType, StoreType, Sessions
<1>1. /\ phase[w] = "bootstrapped" /\ phase' = [phase EXCEPT ![w] = "queued"]
      /\ lastRun' = lastRun + 1 /\ queue' = queue /\ retries' = retries
  BY DEF Create, Goto, brokerVars
<1>2. Origins' = Origins /\ Charges' = Charges
  BY DEF Create, brokerVars, Origins, Charges
<1>3. Owing(w) /\ Busy(w) /\ ~Owing(w)'
  BY <1>0, <1>1 DEF Owing, Busy, BootPhases
<1>4. \A v \in Workers \ {w} : Owing(v)' = Owing(v) /\ Busy(v)' = Busy(v)
  BY <1>0, <1>1 DEF Owing, Busy, Sessions
<1>5. PICK o \in Origins : at[o] = Held(w)
  BY <1>3 DEF Ledger
<1> PICK charged : charged = [r \in 1..(lastRun + 1) |->
                                IF r = lastRun + 1 THEN <<o, retries[w]>> ELSE spent[r]]
  OBVIOUS
<1>6. /\ charged[lastRun + 1] = <<o, retries[w]>>
      /\ \A r \in 1..lastRun : charged[r] = spent[r] /\ r \in 1..(lastRun + 1)
      /\ \A r \in 1..(lastRun + 1) : r = lastRun + 1 \/ r \in 1..lastRun
  BY <1>0
<1>7. \A r \in 1..lastRun : spent[r] \in Charges
  BY DEF Ledger
<1>8. <<o, retries[w]>> \in Charges
  BY <1>0 DEF Charges
<1>9. charged \in [1..lastRun' -> Charges']
  BY <1>1, <1>2, <1>6, <1>7, <1>8
<1>10. ASSUME NEW r \in 1..lastRun
       PROVE  spent[r] # <<o, retries[w]>>
  <2>1. at[spent[r][1]] = Held(w) => spent[r][2] # retries[w]
    BY <1>3 DEF Ledger
  <2> QED
    BY <1>5, <2>1
<1>11. \A r, s \in 1..lastRun' : charged[r] = charged[s] => r = s
  <2>1. \A r, s \in 1..lastRun : spent[r] = spent[s] => r = s
    BY DEF Ledger
  <2> QED
    BY <1>1, <1>6, <1>10, <2>1
<1>12. \A n \in 0..MaxRetries : queue'[n] <= Cardinality(Waiting(at, n)')
  <2>1. \A n : Waiting(at, n)' = Waiting(at, n)
    BY <1>2 DEF Waiting
  <2> QED
    BY <1>1, <2>1 DEF Ledger
<1>13. \A v \in Workers : Busy(v)' => \E p \in Origins : at[p] = Held(v)
  BY <1>3, <1>4 DEF Ledger
<1>14. ASSUME NEW r \in 1..(lastRun + 1)
       PROVE  /\ \A n \in 0..MaxRetries : at[charged[r][1]] = Queued(n) => charged[r][2] < n
              /\ \A v \in Workers :
                   Busy(v)' /\ at[charged[r][1]] = Held(v) =>
                     /\ charged[r][2] <= retries'[v]
                     /\ Owing(v)' => charged[r][2] # retries'[v]
  <2>1. CASE r = lastRun + 1
    <3>1. charged[r][1] = o /\ charged[r][2] = retries[w] /\ retries[w] \in 0..MaxRetries
      BY <1>0, <1>6, <2>1
    <3>2. \A n \in 0..MaxRetries : at[o] # Queued(n)
      BY <1>5, PlacesApart
    <3>3. \A v \in Workers : at[o] = Held(v) => v = w
      BY <1>5, PlacesApart
    <3> QED
      BY <1>1, <1>3, <3>1, <3>2, <3>3
  <2>2. CASE r \in 1..lastRun
    <3>1. charged[r] = spent[r]
      BY <1>6, <2>2
    <3>2. \A v \in Workers : Busy(v)' => Busy(v)
      BY <1>3, <1>4
    <3>3. \A v \in Workers : Owing(v)' => Owing(v)
      BY <1>3, <1>4
    <3> QED
      BY <1>1, <2>2, <3>1, <3>2, <3>3 DEF Ledger
  <2> QED
    BY <1>6, <2>1, <2>2
<1>15. Ledger(charged, at)'
  BY <1>1, <1>2, <1>9, <1>11, <1>12, <1>13, <1>14 DEF Ledger
<1> QED
  BY <1>15 DEF Accounted

\* A retry publishes the message with a count that none of its runs had.
LEMMA RetryMoves ==
  ASSUME TypeOK, NEW spent, NEW at, Ledger(spent, at), NEW w \in Workers, Retry(w)
  PROVE  Accounted'
<1>0. /\ queue \in [0..MaxRetries -> Nat] /\ retries \in [Workers -> 0..MaxRetries]
      /\ phase \in [Sessions -> TaskPhases \union RequestPhases] /\ w \in Sessions
      /\ MaxRetries \in Nat
  BY BoundAssumption DEF TypeOK, BrokerType, PhaseType, Sessions
<1>1. /\ phase[w] = "raised" /\ phase' = [phase EXCEPT ![w] = "settled"]
      /\ UNCHANGED <<triggers, crashes, retries, lastRun>>
  BY DEF Retry, Goto, storeVars
<1>2. \A v \in Workers : Busy(v)' => Busy(v) /\ v # w
  BY <1>0, <1>1 DEF Busy, Sessions
<1>3. \A v \in Workers : Owing(v)' => Owing(v)
  BY <1>0, <1>1 DEF Owing, BootPhases, Sessions
<1>4. Origins' = Origins /\ Charges' = Charges
  BY <1>1 DEF Origins, Charges
<1>5. CASE retries[w] = MaxRetries
  <2>1. queue' = queue
    BY <1>0, <1>5 DEF Retry
  <2> QED
    BY <1>1, <1>2, <1>3, <2>1, LedgerKept
<1>6. CASE retries[w] # MaxRetries
  <2> DEFINE n == retries[w] + 1
  <2>1. n \in 0..MaxRetries /\ retries[w] \in Nat /\ queue' = [queue EXCEPT ![n] = @ + 1]
    BY <1>0, <1>6 DEF Retry
  <2>2. Busy(w)
    BY <1>1 DEF Busy
  <2>3. PICK o \in Origins : at[o] = Held(w)
    BY <2>2 DEF Ledger
  <2> PICK next : next = [p \in Origins |-> IF p = o THEN Queued(n) ELSE at[p]]
    OBVIOUS
  <2>4. next[o] = Queued(n) /\ \A p \in Origins \ {o} : next[p] = at[p]
    OBVIOUS
  <2> HIDE DEF n
  <2>5. ASSUME NEW m \in 0..MaxRetries
        PROVE  queue'[m] <= Cardinality(Waiting(next, m)')
    <3>1. /\ IsFiniteSet(Waiting(at, m)) /\ Cardinality(Waiting(at, m)) \in Nat
          /\ queue[m] <= Cardinality(Waiting(at, m)) /\ queue[m] \in Nat
      BY <1>0, WaitingFinite DEF Ledger
    <3>2. o \notin Waiting(at, m)
      BY <2>3, PlacesApart DEF Waiting
    <3>3. CASE m = n
      <4>1. \A p : p \in Waiting(next, m)' <=> p \in Waiting(at, m) \union {o}
        BY <1>4, <2>4, <3>3 DEF Waiting
      <4>2. Waiting(next, m)' = Waiting(at, m) \union {o}
        BY <4>1
      <4>3. Cardinality(Waiting(next, m)') = Cardinality(Waiting(at, m)) + 1
        BY <3>1, <3>2, <4>2, FS_AddElement
      <4>4. queue'[m] = queue[m] + 1
        BY <1>0, <2>1, <3>3
      <4> QED
        BY <3>1, <4>3, <4>4
    <3>4. CASE m # n
      <4>1. \A p : p \in Waiting(next, m)' <=> p \in Waiting(at, m)
        BY <1>4, <2>3, <2>4, <3>4, PlacesApart DEF Waiting
      <4>2. Waiting(next, m)' = Waiting(at, m)
        BY <4>1
      <4>3. queue'[m] = queue[m]
        BY <1>0, <2>1, <3>4
      <4> QED
        BY <3>1, <4>2, <4>3
    <3> QED
      BY <3>3, <3>4
  <2>6. ASSUME NEW v \in Workers, Busy(v)'
        PROVE  \E p \in Origins : next[p] = Held(v)
    <3>1. PICK p \in Origins : at[p] = Held(v)
      BY <1>2, <2>6 DEF Ledger
    <3>2. p # o
      BY <1>2, <2>3, <2>6, <3>1, PlacesApart
    <3> QED
      BY <2>4, <3>1, <3>2
  <2>7. ASSUME NEW r \in 1..lastRun
        PROVE  /\ \A m \in 0..MaxRetries : next[spent[r][1]] = Queued(m) => spent[r][2] < m
               /\ \A v \in Workers :
                    Busy(v)' /\ next[spent[r][1]] = Held(v) =>
                      /\ spent[r][2] <= retries'[v]
                      /\ Owing(v)' => spent[r][2] # retries'[v]
    <3>1. spent[r][1] \in Origins /\ spent[r][2] \in 0..MaxRetries
      BY DEF Ledger, Charges
    <3>2. CASE spent[r][1] = o
      <4>1. spent[r][2] <= retries[w]
        BY <2>2, <2>3, <3>2 DEF Ledger
      <4>2. spent[r][2] < n
        BY <2>1, <3>1, <4>1 DEF n
      <4> QED
        BY <2>4, <3>2, <4>2, PlacesApart
    <3>3. CASE spent[r][1] # o
      <4>1. next[spent[r][1]] = at[spent[r][1]]
        BY <2>4, <3>1, <3>3
      <4> QED
        BY <1>1, <1>2, <1>3, <4>1 DEF Ledger
    <3> QED
      BY <3>2, <3>3
  <2>8. spent \in [1..lastRun -> Charges] /\ \A r, s \in 1..lastRun : spent[r] = spent[s] => r = s
    BY DEF Ledger
  <2>9. Ledger(spent, next)'
    BY <1>1, <1>4, <2>5, <2>6, <2>7, <2>8 DEF Ledger
  <2> QED
    BY <2>9 DEF Accounted
<1> QED
  BY <1>5, <1>6

\* Everything else a worker does, mishaps but crashes included.
LEMMA WorkLeavesLedger ==
  ASSUME TypeOK, NEW spent, NEW at, Ledger(spent, at), NEW w \in Workers,
         Progress(w) \/ Mishap(w),
         ~Receive(w), ~Create(w), ~Retry(w), ~Crash(w)
  PROVE  Accounted'
<1>0. phase \in [Sessions -> TaskPhases \union RequestPhases] /\ w \in Sessions
      /\ retries \in [Workers -> 0..MaxRetries]
  BY DEF TypeOK, PhaseType, BrokerType, Sessions
<1>1. UNCHANGED <<queue, triggers, crashes, lastRun>>
  BY DEF Progress, Mishap, BootRead, BootCommit, Collect, GetWeather, Recommend,
         ApplyRules, Gate, SaveSelect, Supersede, AllSuperseded, Deactivate, AllDeactivated,
         Dispatch, Close, Commit, Rollback, Ack, Fail, Raise, brokerVars, storeVars
<1>2. CASE Ack(w)
  <2>1. /\ phase' = [phase EXCEPT ![w] = "idle"]
        /\ retries' = [retries EXCEPT ![w] = 0]
    BY <1>2 DEF Ack, Goto, ForgetTask
  <2>2. \A v \in Workers : Busy(v)' => Busy(v) /\ retries'[v] = retries[v]
    BY <1>0, <2>1 DEF Busy, Sessions
  <2>3. \A v \in Workers : Owing(v)' => Owing(v)
    BY <1>0, <2>1 DEF Owing, BootPhases, Sessions
  <2> QED
    BY <1>1, <2>2, <2>3, LedgerKept
<1>3. CASE ~Ack(w)
  <2>1. retries' = retries
    BY <1>3 DEF Progress, Mishap, BootRead, BootCommit, Collect, GetWeather, Recommend,
         ApplyRules, Gate, SaveSelect, Supersede, AllSuperseded, Deactivate, AllDeactivated,
         Dispatch, Close, Commit, Rollback, Fail, Raise, brokerVars
  <2>2. /\ \A v \in Workers \ {w} : phase'[v] = phase[v]
        /\ Busy(w)
        /\ Owing(w)' => Owing(w)
    <3>1. CASE BootRead(w) \/ BootCommit(w)
      BY <1>0, <3>1 DEF BootRead, BootCommit, Goto, Busy, Owing, BootPhases, Sessions
    <3>2. CASE Collect(w) \/ GetWeather(w) \/ Recommend(w) \/ ApplyRules(w) \/ SaveSelect(w)
      BY <1>0, <3>2 DEF Collect, GetWeather, Recommend, ApplyRules, SaveSelect,
                        Goto, Busy, Owing, BootPhases, Sessions
    <3>3. CASE Gate(w) \/ Supersede(w) \/ AllSuperseded(w)
      BY <1>0, <3>3 DEF Gate, Supersede, AllSuperseded, Goto, Busy, Owing, BootPhases, Sessions
    <3>4. CASE Deactivate(w) \/ AllDeactivated(w) \/ Dispatch(w) \/ Close(w) \/ Commit(w)
      BY <1>0, <3>4 DEF Deactivate, AllDeactivated, Dispatch, Close, Commit,
                        Goto, Busy, Owing, BootPhases, Sessions
    <3>5. CASE Rollback(w) \/ Fail(w) \/ Raise(w)
      BY <1>0, <3>5 DEF Rollback, Fail, Raise, Goto, Busy, Owing, BootPhases, TryPhases, Sessions
    <3> QED
      BY <1>3, <3>1, <3>2, <3>3, <3>4, <3>5 DEF Progress, Mishap
  <2>3. \A v \in Workers : Busy(v)' => Busy(v) /\ retries'[v] = retries[v]
    BY <2>1, <2>2 DEF Busy
  <2>4. \A v \in Workers : Owing(v)' => Owing(v)
    BY <2>2 DEF Owing
  <2> QED
    BY <1>1, <2>3, <2>4, LedgerKept
<1> QED
  BY <1>2, <1>3

LEMMA LedgerStep == TypeOK /\ Accounted /\ [Next]_vars => Accounted'
<1> SUFFICES ASSUME TypeOK, NEW spent, NEW at, Ledger(spent, at), [Next]_vars
             PROVE  Accounted'
  BY DEF Accounted
<1>0. phase \in [Sessions -> TaskPhases \union RequestPhases]
      /\ retries \in [Workers -> 0..MaxRetries] /\ MaxRetries \in Nat
      /\ triggers \in Nat /\ crashes \in Nat
  BY BoundAssumption DEF TypeOK, PhaseType, BrokerType
<1>1. CASE Trigger
  <2>1. /\ triggers' + crashes' = triggers + crashes + 1
        /\ lastRun' = lastRun /\ phase' = phase /\ retries' = retries
        /\ queue' = [queue EXCEPT ![0] = @ + 1]
    BY <1>0, <1>1 DEF Trigger, storeVars
  <2>2. 0 \in 0..MaxRetries
    BY <1>0
  <2>3. \A w \in Workers : Busy(w)' = Busy(w) /\ Owing(w)' = Owing(w)
    BY <2>1 DEF Busy, Owing
  <2> QED
    BY <2>1, <2>2, <2>3, LedgerOpens
<1>2. ASSUME NEW w \in Workers, Crash(w)
      PROVE  Accounted'
  <2>1. w \in Sessions /\ retries[w] \in 0..MaxRetries
    BY <1>0 DEF Sessions
  <2>0. crashes' = crashes + 1 /\ triggers' = triggers
    BY <1>2 DEF Crash
  <2>2. /\ triggers' + crashes' = triggers + crashes + 1
        /\ lastRun' = lastRun
        /\ phase' = [phase EXCEPT ![w] = "idle"]
        /\ retries' = [retries EXCEPT ![w] = 0]
        /\ queue' \in {queue, [queue EXCEPT ![retries[w]] = @ + 1]}
    <3>1. triggers' + crashes' = triggers + crashes + 1
      BY <1>0, <2>0
    <3> QED
      BY <1>2, <3>1 DEF Crash, Goto, ForgetTask, storeVars
  <2>3. \A v \in Workers : Busy(v)' => Busy(v) /\ retries'[v] = retries[v]
    BY <1>0, <2>1, <2>2 DEF Busy, Sessions
  <2>4. \A v \in Workers : Owing(v)' => Owing(v)
    BY <1>0, <2>1, <2>2 DEF Owing, BootPhases, Sessions
  <2> QED
    BY <2>1, <2>2, <2>3, <2>4, LedgerOpens
<1>3. ASSUME NEW w \in Workers, Progress(w) \/ Mishap(w)
      PROVE  Accounted'
  BY <1>2, <1>3, ReceiveMoves, CreateCharges, RetryMoves, WorkLeavesLedger
<1>4. ASSUME NEW q \in Requests, Arrive(q) \/ Serve(q) \/ FailRequest(q)
      PROVE  Accounted'
  <2>1. UNCHANGED <<queue, triggers, crashes, retries, lastRun>>
    BY <1>4 DEF Arrive, Serve, Post, Delete, Startup, BootRead, BootCommit, SaveSelect,
                Supersede, AllSuperseded, CommitRequest, FailRequest, brokerVars, storeVars
  <2>2. \A w \in Workers : phase'[w] = phase[w]
    BY <1>0, <1>4, SessionAssumption
       DEF Arrive, Serve, Post, Delete, Startup, BootRead, BootCommit, SaveSelect,
           Supersede, AllSuperseded, CommitRequest, FailRequest, Goto, Sessions
  <2>3. \A w \in Workers : Busy(w)' = Busy(w) /\ Owing(w)' = Owing(w)
    BY <2>2 DEF Busy, Owing
  <2> QED
    BY <2>1, <2>3, LedgerKept
<1>5. CASE UNCHANGED vars
  <2>1. UNCHANGED <<queue, triggers, crashes, retries, lastRun, phase>>
    BY <1>5 DEF vars, brokerVars, storeVars
  <2>2. \A w \in Workers : Busy(w)' = Busy(w) /\ Owing(w)' = Owing(w)
    BY <2>1 DEF Busy, Owing
  <2> QED
    BY <2>1, <2>2, LedgerKept
<1> QED
  BY <1>1, <1>3, <1>4, <1>5 DEF Next, Finished

LEMMA InitLedger == Init => Accounted
<1> SUFFICES ASSUME Init PROVE Accounted
  OBVIOUS
<1>1. Ledger(<<>>, <<>>)
  <2>1. 1..lastRun = {} /\ \A n \in 0..MaxRetries : queue[n] = 0
    BY DEF Init
  <2>2. Origins = {}
    BY DEF Init, Origins
  <2>3. <<>> \in [1..lastRun -> Charges]
    BY <2>1
  <2>4. \A n \in 0..MaxRetries : Cardinality(Waiting(<<>>, n)) = 0
    <3>1. \A n : Waiting(<<>>, n) = {}
      BY <2>2 DEF Waiting
    <3> QED
      BY <3>1, FS_EmptySet
  <2>5. \A w \in Workers : ~Busy(w)
    BY DEF Init, Busy, Sessions
  <2> QED
    BY <2>1, <2>3, <2>4, <2>5 DEF Ledger
<1> QED
  BY <1>1 DEF Accounted

\* However messages are retried, redelivered after crashes and interleaved, all
\* the runs there have ever been are no more than MaxRetries + 1 for each trigger
\* and each crash.
THEOREM RetriesBounded == Spec => []AttemptBudget
<1>1. TypeOK /\ Accounted => AttemptBudget
  BY LedgerBounds DEF Accounted
<1>2. Spec => []TypeOK
  BY TypeCorrect
<1> QED
  BY <1>1, <1>2, InitLedger, LedgerStep, PTL DEF Spec
=============================================================================
