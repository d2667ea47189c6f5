----------------------------- MODULE SlotProofs -----------------------------
(***************************************************************************)
(* Proofs about the slots of the daily adjustment: who may empty one, for  *)
(* any number of workers and requests; what holds of them as long as runs  *)
(* do not overlap, for any number of triggers, retries, crashes and runs;  *)
(* and that sessions never all wait for each other.                        *)
(***************************************************************************)
EXTENDS ScheduleFollowsRunProofs

-----------------------------------------------------------------------------
(* Who may empty a slot.                                                     *)

LockPhases == {"superseding", "deactivating", "dispatching", "verifying", "closed",
               "committing", "failed"}

\* The rows are those of the slot for which the session inserts one.
Aims(s, ids) == \A i \in ids : ins[s] # <<>> /\ cur[i].slot = ins[s][1].slot

MayEmpty(s) == IF s \in Workers THEN result[s].action = "skip" ELSE ins[s] = <<>>

\* A session that is not about to skip or to delete locks, and before it locks
\* reads, only rows that the visible row it inserts takes the place of.
LockInv(s) ==
  /\ phase[s] \notin LockPhases => hid[s] = {}
  /\ phase[s] = "idle" => ins[s] = <<>>
  /\ phase[s] = "saving" => ins[s] # <<>>
  /\ phase[s] = "deactivating" => MayEmpty(s)
  /\ phase[s] = "superseding" =>
       hid[s] \subseteq read[s] /\ (MayEmpty(s) \/ Aims(s, read[s]))
  /\ phase[s] \in {"dispatching", "verifying", "closed", "committing"} =>
       MayEmpty(s) \/ Aims(s, hid[s])
  /\ ins[s] # <<>> => ins[s][1].live

LocksAim == \A s \in Sessions : LockInv(s)

\* No step of a session moves a row to another slot, or changes what another
\* session has read and locked.
LEMMA TableGrows ==
  ASSUME TypeOK, NEW s \in Sessions, SessionStep(s), NEW i \in DOMAIN cur
  PROVE  i \in DOMAIN cur' /\ cur'[i].slot = cur[i].slot
<1>1. ASSUME CommitTxn(s)
      PROVE  i \in DOMAIN cur' /\ cur'[i].slot = cur[i].slot
  BY <1>1, CommittedRows DEF CommitTxn
<1> QED BY <1>1, StoreStep DEF BootCommit, Commit, CommitRequest

LEMMA ReadsAndLocksOfOthers ==
  ASSUME TypeOK, NEW s \in Sessions, SessionStep(s), NEW t \in Sessions \ {s}
  PROVE  read'[t] = read[t] /\ hid'[t] = hid[t]
<1>1. read \in [Sessions -> SUBSET (DOMAIN cur)] /\ hid \in [Sessions -> SUBSET (DOMAIN cur)]
  BY DEF TypeOK, TxnType
<1>2. CommitTxn(s) \/ RollbackTxn(s) => read'[t] = read[t] /\ hid'[t] = hid[t]
  BY <1>1 DEF CommitTxn, RollbackTxn
<1> USE DEF txnVars
<1>3. CASE BootRead(s) \/ SaveSelect(s) \/ Supersede(s) \/ AllSuperseded(s) \/ BootCommit(s)
  BY <1>1, <1>2, <1>3 DEF BootRead, SaveSelect, Supersede, AllSuperseded, BootCommit
<1>4. CASE Receive(s) \/ Create(s) \/ Collect(s) \/ GetWeather(s) \/ Recommend(s) \/ ApplyRules(s)
  BY <1>1, <1>4 DEF Receive, Create, Collect, GetWeather, Recommend, ApplyRules
<1>5. CASE Gate(s) \/ Deactivate(s) \/ AllDeactivated(s) \/ Dispatch(s) \/ Close(s)
  BY <1>1, <1>5 DEF Gate, Deactivate, AllDeactivated, Dispatch, Close
<1>6. CASE Commit(s) \/ Rollback(s) \/ Raise(s) \/ Crash(s) \/ CommitRequest(s) \/ FailRequest(s)
  BY <1>2, <1>6 DEF Commit, Rollback, Raise, Crash, CommitRequest, FailRequest
<1>7. CASE Retry(s) \/ Ack(s) \/ Fail(s) \/ Post(s) \/ Delete(s) \/ Startup(s)
  BY <1>1, <1>7 DEF Retry, Ack, Fail, Post, Delete, Startup
<1> QED BY <1>3, <1>4, <1>5, <1>6, <1>7 DEF SessionStep, Progress, Mishap, Arrive, Serve

\* The locks of a session stand when it is another's turn.
LEMMA OtherLocks ==
  ASSUME TypeOK, NEW s \in Sessions, SessionStep(s), NEW t \in Sessions \ {s}, LockInv(t)
  PROVE  LockInv(t)'
<1>1. /\ phase'[t] = phase[t] /\ ins'[t] = ins[t]
      /\ read'[t] = read[t] /\ hid'[t] = hid[t]
      /\ t \in Workers => result'[t] = result[t]
  BY Bystander, ReadsAndLocksOfOthers DEF Same
<1>2. read[t] \subseteq DOMAIN cur /\ hid[t] \subseteq DOMAIN cur
  BY DEF TypeOK, TxnType
<1>3. MayEmpty(t)' <=> MayEmpty(t)
  BY <1>1 DEF MayEmpty
<1>4. /\ Aims(t, read[t]) => Aims(t, read[t])'
      /\ Aims(t, hid[t]) => Aims(t, hid[t])'
  BY <1>1, <1>2, TableGrows DEF Aims
<1> QED BY <1>1, <1>3, <1>4 DEF LockInv

\* The rows a bootstrap inserts are visible.
LEMMA SeededLive ==
  ASSUME NEW S \in SUBSET TemplateRows, SetToSeq(S) # <<>>
  PROVE  SetToSeq(S)[1].live
<1>1. IsFiniteSet(S)
  BY RowAssumption, FS_Subset
<1>2. SetToSeq(S) \in Seq(S)
  BY <1>1, SetToSeqElements
<1>3. SetToSeq(S)[1] \in S
  BY <1>2
<1> QED BY <1>3, RowAssumption

LEMMA OwnLockStep ==
  ASSUME TypeOK, NEW s \in Sessions, SessionStep(s), LockInv(s),
         s \in Workers => TxnInv(s)
  PROVE  LockInv(s)'
<1>1. \A there : Goto(s, there) => phase'[s] = there
  BY OwnStep
<1>2. hid \in [Sessions -> SUBSET (DOMAIN cur)] /\ read \in [Sessions -> SUBSET (DOMAIN cur)]
      /\ ins \in [Sessions -> Seq(Rows)]
  BY DEF TypeOK, TxnType
<1>3. ASSUME CommitTxn(s) \/ RollbackTxn(s),
             phase'[s] \in {"bootstrapped", "committed", "raised", "idle", "done"}
      PROVE  LockInv(s)'
  <2>1. hid'[s] = {} /\ ins'[s] = <<>>
    BY <1>2, <1>3 DEF CommitTxn, RollbackTxn
  <2> QED BY <1>3, <2>1 DEF LockInv, LockPhases
<1>4. CASE BootCommit(s) \/ Commit(s) \/ Rollback(s) \/ Raise(s) \/ Crash(s)
           \/ CommitRequest(s) \/ FailRequest(s)
  BY <1>1, <1>3, <1>4 DEF BootCommit, Commit, Rollback, Raise, Crash, CommitRequest, FailRequest
<1>5. CASE Receive(s) \/ Create(s) \/ Collect(s) \/ GetWeather(s) \/ Recommend(s)
           \/ ApplyRules(s) \/ Retry(s) \/ Startup(s)
  <2>1. phase'[s] \in {"starting", "queued", "collecting_data", "reasoning", "rule_check",
                       "approval_gate", "settled"}
    BY <1>1, <1>5
       DEF Receive, Create, Collect, GetWeather, Recommend, ApplyRules, Retry, Startup
  <2>2. phase[s] \notin LockPhases /\ hid' = hid /\ ins' = ins
    BY <1>5 DEF Receive, Create, Collect, GetWeather, Recommend, ApplyRules, Retry, Startup,
                txnVars, LockPhases
  <2> QED BY <2>1, <2>2 DEF LockInv, LockPhases
<1>6. CASE s \in Workers /\ Ack(s)
  <2>1. phase[s] \in {"committed", "settled"} /\ phase'[s] = "idle" /\ hid' = hid /\ ins' = ins
    BY <1>1, <1>6 DEF Ack, txnVars
  <2>2. ins[s] = <<>> /\ hid[s] = {}
    BY <1>6, <2>1 DEF TxnInv, PendingPhases, LockInv, LockPhases
  <2> QED BY <2>1, <2>2 DEF LockInv, LockPhases
<1>7. CASE BootRead(s)
  <2>1. ins'[s] = SetToSeq({row \in TemplateRows : VisibleAt(row.slot) = {}})
    BY <1>2, <1>7 DEF BootRead
  <2>2. ins'[s] # <<>> => ins'[s][1].live
    BY <2>1, SeededLive
  <2>3. phase[s] = "starting" /\ phase'[s] = "booting" /\ hid' = hid
    BY <1>1, <1>7 DEF BootRead
  <2> QED BY <2>2, <2>3 DEF LockInv, LockPhases
<1>8. CASE s \in Workers /\ Gate(s)
  <2>1. phase[s] = "approval_gate" /\ hid' = hid /\ result' = result /\ hid[s] = {}
    BY <1>8 DEF Gate, LockInv, LockPhases, localVars
  <2>2. phase'[s] = IF NeedsReview(s) THEN "manual_review"
                    ELSE IF result[s].action = "skip" THEN "deactivating"
                    ELSE IF Waters(result[s]) THEN "saving"
                    ELSE "dispatching"
    BY <1>1, <1>8, Zenon DEF Gate
  <2>3. CASE ~NeedsReview(s) /\ Waters(result[s])
    <3>1. ins'[s] = <<Row(base[s].slot, result[s].dur, run[s])>> /\ phase'[s] = "saving"
      BY <1>2, <1>8, <2>2, <2>3 DEF Gate, Waters
    <3>2. ins'[s] # <<>> /\ ins'[s][1].live
      BY <3>1 DEF Row
    <3> QED BY <2>1, <3>1, <3>2 DEF LockInv, LockPhases
  <2>4. CASE NeedsReview(s) \/ ~Waters(result[s])
    <3>1. ins' = ins
      BY <1>8, <2>4 DEF Gate
    <3>2. phase'[s] \in {"manual_review", "deactivating", "dispatching"}
      BY <2>2, <2>4
    <3>3. phase'[s] = "deactivating" => result[s].action = "skip"
      BY <2>2
    <3>4. Aims(s, hid[s])'
      BY <2>1 DEF Aims
    <3> QED BY <1>8, <2>1, <3>1, <3>2, <3>3, <3>4 DEF LockInv, LockPhases, MayEmpty
  <2> QED BY <2>3, <2>4
<1>9. CASE SaveSelect(s)
  <2>1. /\ phase[s] = "saving" /\ phase'[s] = "superseding"
        /\ read'[s] = VisibleAt(ins[s][1].slot)
        /\ hid' = hid /\ ins' = ins /\ cur' = cur
    BY <1>1, <1>2, <1>9 DEF SaveSelect, storeVars
  <2>2. ins[s] # <<>> /\ hid[s] = {}
    BY <2>1 DEF LockInv, LockPhases
  <2>3. Aims(s, read[s])'
    BY <2>1, <2>2 DEF Aims, VisibleAt, Visible
  <2> QED BY <2>1, <2>2, <2>3 DEF LockInv, LockPhases
<1>10. CASE Supersede(s)
  <2>1. PICK i \in Left(s) : hid' = [hid EXCEPT ![s] = @ \union {i}]
    BY <1>10 DEF Supersede
  <2>2. /\ phase[s] = "superseding" /\ phase' = phase /\ read' = read
        /\ ins' = ins /\ result' = result /\ cur' = cur
    BY <1>10 DEF Supersede, storeVars, localVars
  <2>3. hid'[s] \subseteq read[s] /\ (MayEmpty(s) \/ Aims(s, read[s]))
    BY <1>2, <2>1, <2>2 DEF LockInv, Left
  <2>4. MayEmpty(s)' \/ Aims(s, read[s])'
    BY <2>2, <2>3 DEF MayEmpty, Aims
  <2> QED BY <2>2, <2>3, <2>4 DEF LockInv, LockPhases
<1>16. CASE AllSuperseded(s)
  <2>1. /\ phase[s] = "superseding" /\ phase'[s] \in {"dispatching", "committing"}
        /\ hid' = hid /\ ins' = ins /\ result' = result /\ cur' = cur
    BY <1>1, <1>16 DEF AllSuperseded, txnVars, storeVars, localVars
  <2>2. MayEmpty(s) \/ Aims(s, hid[s])
    BY <2>1 DEF LockInv, Aims
  <2>3. MayEmpty(s)' \/ Aims(s, hid[s])'
    BY <2>1, <2>2 DEF MayEmpty, Aims
  <2> QED BY <2>1, <2>3 DEF LockInv, LockPhases
<1>11. CASE s \in Workers /\ (Deactivate(s) \/ AllDeactivated(s))
  <2>1. /\ phase[s] = "deactivating" /\ phase'[s] \in {"deactivating", "dispatching"}
        /\ ins' = ins /\ result' = result
    BY <1>1, <1>11 DEF Deactivate, AllDeactivated, txnVars, localVars
  <2>2. MayEmpty(s)'
    BY <2>1 DEF LockInv, MayEmpty
  <2> QED BY <2>1, <2>2 DEF LockInv, LockPhases
<1>12. CASE s \in Workers /\ (Dispatch(s) \/ Close(s))
  <2>1. /\ phase[s] \in {"dispatching", "verifying"} /\ phase'[s] \in {"verifying", "closed"}
        /\ ins' = ins /\ hid' = hid /\ result' = result /\ cur' = cur
    BY <1>1, <1>12 DEF Dispatch, Close, txnVars, localVars, storeVars
  <2>2. MayEmpty(s)' \/ Aims(s, hid[s])'
    BY <2>1 DEF LockInv, MayEmpty, Aims
  <2> QED BY <2>1, <2>2 DEF LockInv, LockPhases
<1>13. CASE Fail(s)
  <2>1. phase'[s] = "failed" /\ ins' = ins
    BY <1>1, <1>13 DEF Fail, txnVars
  <2> QED BY <2>1 DEF LockInv, LockPhases
<1>14. CASE s \in Requests /\ Post(s)
  <2>1. PICK slot \in Slots, dur \in OperatorDurations :
          ins' = [ins EXCEPT ![s] = <<Row(slot, dur, Operator)>>]
    BY <1>14 DEF Post
  <2>2. ins'[s] = <<Row(slot, dur, Operator)>>
    BY <1>2, <2>1
  <2>3. ins'[s] # <<>> /\ ins'[s][1].live
    BY <2>2 DEF Row
  <2>4. phase[s] = "idle" /\ phase'[s] = "saving" /\ hid' = hid
    BY <1>1, <1>14 DEF Post
  <2> QED BY <2>3, <2>4 DEF LockInv, LockPhases
<1>15. CASE s \in Requests /\ Delete(s)
  <2>1. phase[s] = "idle" /\ phase'[s] = "superseding" /\ hid' = hid /\ ins' = ins
    BY <1>1, <1>15 DEF Delete
  <2>2. ins'[s] = <<>> /\ hid'[s] = {} /\ s \notin Workers
    BY <1>15, <2>1, SessionAssumption DEF LockInv, LockPhases
  <2> QED BY <2>1, <2>2 DEF LockInv, LockPhases, MayEmpty
<1> QED BY <1>4, <1>5, <1>6, <1>7, <1>8, <1>9, <1>10, <1>11, <1>12, <1>13, <1>14, <1>15,
           <1>16 DEF SessionStep, Progress, Mishap, Arrive, Serve

LEMMA LocksStep == IInv /\ LocksAim /\ [Next]_vars => LocksAim'
<1> SUFFICES ASSUME IInv, LocksAim, [Next]_vars PROVE LocksAim'
  OBVIOUS
<1>1. ASSUME NEW s \in Sessions, SessionStep(s) PROVE LocksAim'
  <2>1. LockInv(s)'
    BY <1>1, OwnLockStep DEF IInv, LocksAim
  <2>2. \A t \in Sessions \ {s} : LockInv(t)'
    BY <1>1, OtherLocks DEF IInv, LocksAim
  <2> QED BY <2>1, <2>2 DEF LocksAim
<1>2. ASSUME UNCHANGED <<phase, txnVars, localVars, storeVars>> PROVE LocksAim'
  BY <1>2 DEF LocksAim, LockInv, MayEmpty, Aims, txnVars, localVars, storeVars
<1>3. CASE Trigger
  BY <1>2, <1>3 DEF Trigger
<1>4. CASE UNCHANGED vars
  BY <1>2, <1>4 DEF vars
<1>5. ASSUME NEW w \in Workers, Progress(w) \/ Mishap(w) PROVE LocksAim'
  BY <1>1, <1>5 DEF SessionStep, Sessions
<1>6. ASSUME NEW q \in Requests, Arrive(q) \/ Serve(q) \/ FailRequest(q) PROVE LocksAim'
  BY <1>1, <1>6 DEF SessionStep, Sessions
<1> QED BY <1>3, <1>4, <1>5, <1>6 DEF Next, Finished

LEMMA InitLocks == Init => LocksAim
BY DEF Init, LocksAim, LockInv, LockPhases

\* A commit hides the rows it has locked and shows the row it inserts.
LEMMA CommitShows ==
  ASSUME TypeOK, NEW s \in Sessions, CommitTxn(s)
  PROVE  /\ \A i \in DOMAIN cur \ hid[s] : i \in DOMAIN cur' /\ cur'[i] = cur[i]
         /\ ins[s] # <<>> => \E i \in DOMAIN cur' : cur'[i] = ins[s][1]
<1> DEFINE old == [i \in DOMAIN cur |->
                     IF i \in hid[s] THEN [cur[i] EXCEPT !.live = FALSE] ELSE cur[i]]
<1>1. cur \in Seq(Rows) /\ ins[s] \in Seq(Rows)
  BY DEF TypeOK, StoreType, TxnType
<1>2. /\ Len(cur) \in Nat /\ DOMAIN cur = 1..Len(cur)
      /\ Len(ins[s]) \in Nat /\ DOMAIN ins[s] = 1..Len(ins[s])
  BY <1>1, LenProperties
<1>3. cur' = Committed(s) /\ Committed(s) = old \o ins[s]
  BY DEF CommitTxn, Committed
<1>4. /\ DOMAIN cur' = 1..(Len(cur) + Len(ins[s]))
      /\ \A i \in DOMAIN cur' \ DOMAIN cur :
           i - Len(cur) \in DOMAIN ins[s] /\ cur'[i] = ins[s][i - Len(cur)]
  BY <1>3, CommittedRows
<1>5. ASSUME ins[s] # <<>> PROVE \E i \in DOMAIN cur' : cur'[i] = ins[s][1]
  <2> DEFINE n == Len(cur) + 1
  <2>1. Len(ins[s]) > 0
    BY <1>1, <1>2, <1>5, EmptySeq
  <2>2. n \in DOMAIN cur' \ DOMAIN cur /\ n - Len(cur) = 1
    BY <1>2, <1>4, <2>1
  <2> QED BY <1>4, <2>2
<1>6. ASSUME NEW i \in DOMAIN cur \ hid[s] PROVE i \in DOMAIN cur' /\ cur'[i] = cur[i]
  <2>1. i \in DOMAIN cur'
    BY <1>2, <1>4
  <2>2. old \in Seq(Rows) /\ Len(old) = Len(cur)
    <3>1. ASSUME NEW j \in 1..Len(cur) PROVE old[j] \in Rows
      <4>1. cur[j] \in Rows
        BY <1>1, ElementOfSeq
      <4>2. [cur[j] EXCEPT !.live = FALSE] \in Rows
        BY <4>1 DEF Rows
      <4> QED BY <1>2, <4>1, <4>2
    <3> QED BY <1>2, <3>1
  <2>3. old[i] = cur[i]
    BY <1>6
  <2> HIDE DEF old
  <2>4. (old \o ins[s])[i] = old[i]
    BY <1>1, <1>2, <2>2, ConcatProperties
  <2> QED BY <1>3, <2>1, <2>3, <2>4
<1> QED BY <1>5, <1>6

\* What a commit can empty it could only because it aimed elsewhere.
LEMMA EmptiedBy ==
  ASSUME TypeOK, NEW s \in Sessions, CommitTxn(s), LockInv(s), NEW slot,
         VisibleAt(slot) # {}, VisibleAt(slot)' = {}
  PROVE  hid[s] # {} /\ ~Aims(s, hid[s])
<1>1. PICK i \in DOMAIN cur : cur[i].live /\ cur[i].slot = slot
  BY DEF VisibleAt, Visible
<1>2. \A j \in DOMAIN cur' : ~(cur'[j].live /\ cur'[j].slot = slot)
  BY DEF VisibleAt, Visible
<1>3. i \in hid[s]
  BY <1>1, <1>2, CommitShows
<1>4. ASSUME Aims(s, hid[s]) PROVE FALSE
  <2>1. ins[s] # <<>> /\ ins[s][1].slot = slot /\ ins[s][1].live
    BY <1>1, <1>3, <1>4 DEF Aims, LockInv
  <2> QED BY <1>2, <2>1, CommitShows
<1> QED BY <1>3, <1>4

EmptiedRightly ==
  \/ \E w \in Workers : /\ phase[w] = "closed" /\ phase'[w] = "committed"
                        /\ result[w].action = "skip"
  \/ \E q \in Requests : /\ phase[q] = "committing" /\ phase'[q] = "done"
                         /\ ins[q] = <<>>

LEMMA EmptyStep ==
  ASSUME IInv, LocksAim, [Next]_vars, NEW slot \in Slots,
         VisibleAt(slot) # {}, VisibleAt(slot)' = {}
  PROVE  EmptiedRightly
<1>0. TypeOK
  BY DEF IInv
<1>1. cur' # cur
  BY DEF VisibleAt, Visible
<1>2. ASSUME NEW s \in Sessions, SessionStep(s) PROVE EmptiedRightly
  <2>1. /\ LockInv(s)
        /\ \A there : Goto(s, there) => phase'[s] = there
    BY <1>0, <1>2, OwnStep DEF LocksAim
  <2>2. CASE BootCommit(s)
    BY <1>0, <2>1, <2>2, EmptiedBy DEF BootCommit, LockInv, LockPhases
  <2>3. CASE s \in Workers /\ Commit(s)
    <3>1. CommitTxn(s) /\ phase[s] \in {"closed", "manual_review"} /\ phase'[s] = "committed"
      BY <2>1, <2>3 DEF Commit
    <3>2. hid[s] # {} /\ ~Aims(s, hid[s])
      BY <1>0, <2>1, <3>1, EmptiedBy
    <3>3. phase[s] = "closed" /\ result[s].action = "skip"
      BY <2>1, <2>3, <3>1, <3>2 DEF LockInv, LockPhases, MayEmpty
    <3> QED BY <2>3, <3>1, <3>3 DEF EmptiedRightly
  <2>4. CASE s \in Requests /\ CommitRequest(s)
    <3>1. CommitTxn(s) /\ phase[s] = "committing" /\ phase'[s] = "done"
      BY <2>1, <2>4 DEF CommitRequest
    <3>2. ~Aims(s, hid[s])
      BY <1>0, <2>1, <3>1, EmptiedBy
    <3>3. ins[s] = <<>>
      BY <2>1, <2>4, <3>1, <3>2, SessionAssumption DEF LockInv, MayEmpty
    <3> QED BY <2>4, <3>1, <3>3 DEF EmptiedRightly
  <2> QED BY <1>0, <1>1, <1>2, <2>2, <2>3, <2>4, StoreStep
<1>3. ~(Trigger \/ UNCHANGED vars)
  BY <1>1 DEF Trigger, vars, storeVars
<1>4. ASSUME NEW w \in Workers, Progress(w) \/ Mishap(w) PROVE EmptiedRightly
  BY <1>2, <1>4 DEF SessionStep, Sessions
<1>5. ASSUME NEW q \in Requests, Arrive(q) \/ Serve(q) \/ FailRequest(q)
      PROVE  EmptiedRightly
  BY <1>2, <1>5 DEF SessionStep, Sessions
<1> QED BY <1>3, <1>4, <1>5 DEF Next, Finished

\* Whatever interleaves, an occupied slot is emptied only by the commit of a run
\* that skips or of a DELETE: a save never leaves a gap.
THEOREM SlotsStayOccupied == Spec => SlotNeverEmptied
<1>1. IInv /\ LocksAim /\ [Next]_vars =>
        [\A slot \in Slots : VisibleAt(slot) # {} /\ VisibleAt(slot)' = {} =>
           \/ \E w \in Workers : /\ phase[w] = "closed" /\ phase'[w] = "committed"
                                 /\ result[w].action = "skip"
           \/ \E q \in Requests : /\ phase[q] = "committing" /\ phase'[q] = "done"
                                  /\ ins[q] = <<>>]_vars
  BY EmptyStep DEF EmptiedRightly
<1> QED BY <1>1, Invariance, InitLocks, LocksStep, PTL DEF Spec, SlotNeverEmptied

-----------------------------------------------------------------------------
(* Runs that do not overlap.                                                 *)

\* One worker serves the queue, and nobody uses the API.
Alone == Requests = {} /\ \A v, w \in Workers : v = w

ReadPhases == {"collecting_data", "reasoning", "rule_check", "approval_gate",
               "deactivating", "saving"}

\* What a lone worker has read is what is visible, and it locks all of it for a
\* skip, the rows of its slot for a save; a bootstrap fills empty slots only.
ViewInv(w) ==
  /\ phase[w] \in ReadPhases => read[w] = Visible
  /\ phase[w] = "superseding" => read[w] = VisibleAt(ins[w][1].slot)
  /\ phase[w] \in {"dispatching", "verifying", "closed"} =>
       /\ result[w].action = "skip" => Visible \subseteq hid[w]
       /\ ins[w] # <<>> => hid[w] = VisibleAt(ins[w][1].slot)
  /\ phase[w] = "booting" =>
       ins[w] = SetToSeq({row \in TemplateRows : VisibleAt(row.slot) = {}})

ViewsHold == \A w \in Workers : ViewInv(w)

\* Nobody else commits between what the worker reads and its own commit, so
\* what it has read stays what is visible.
LEMMA OwnViewStep ==
  ASSUME TypeOK, NEW w \in Workers, Progress(w) \/ Mishap(w),
         TxnInv(w), LockInv(w), ViewInv(w)
  PROVE  ViewInv(w)'
<1>0. w \in Sessions /\ SessionStep(w)
  BY DEF Sessions, SessionStep
<1>1. \A there : Goto(w, there) => phase'[w] = there
  BY <1>0, OwnStep
<1>2. hid \in [Sessions -> SUBSET (DOMAIN cur)] /\ read \in [Sessions -> SUBSET (DOMAIN cur)]
      /\ ins \in [Sessions -> Seq(Rows)]
  BY DEF TypeOK, TxnType
<1>3. cur' = cur => Visible' = Visible /\ \A slot : VisibleAt(slot)' = VisibleAt(slot)
  BY DEF Visible, VisibleAt
<1>4. ASSUME phase'[w] \in {"starting", "bootstrapped", "queued", "manual_review", "committed",
                            "failed", "raised", "settled", "idle"}
      PROVE  ViewInv(w)'
  BY <1>4 DEF ViewInv, ReadPhases
<1>5. CASE Receive(w) \/ BootCommit(w) \/ Create(w) \/ Commit(w) \/ Rollback(w) \/ Retry(w)
           \/ Ack(w) \/ Fail(w) \/ Raise(w) \/ Crash(w)
  <2>1. phase'[w] \in {"starting", "bootstrapped", "queued", "committed", "failed",
                       "raised", "settled", "idle"}
    BY <1>1, <1>5
       DEF Receive, BootCommit, Create, Commit, Rollback, Retry, Ack, Fail, Raise, Crash
  <2> QED BY <1>4, <2>1
<1>6. CASE BootRead(w)
  <2>1. ins'[w] = SetToSeq({row \in TemplateRows : VisibleAt(row.slot) = {}}) /\ cur' = cur
    BY <1>0, <1>2, <1>6 DEF BootRead, storeVars
  <2>2. {row \in TemplateRows : VisibleAt(row.slot) = {}}'
          = {row \in TemplateRows : VisibleAt(row.slot) = {}}
    BY <1>3, <2>1
  <2>3. phase'[w] = "booting"
    BY <1>1, <1>6 DEF BootRead
  <2> QED BY <2>1, <2>2, <2>3 DEF ViewInv, ReadPhases
<1>7. CASE Collect(w)
  <2>1. read'[w] = Visible /\ phase'[w] = "collecting_data" /\ cur' = cur
    BY <1>0, <1>1, <1>2, <1>7 DEF Collect, storeVars
  <2> QED BY <1>3, <2>1 DEF ViewInv, ReadPhases
<1>8. CASE GetWeather(w) \/ Recommend(w) \/ ApplyRules(w)
  <2>1. /\ phase[w] \in ReadPhases /\ phase'[w] \in {"reasoning", "rule_check", "approval_gate"}
        /\ read' = read /\ cur' = cur
    BY <1>1, <1>8 DEF GetWeather, Recommend, ApplyRules, ReadPhases, txnVars, storeVars
  <2> QED BY <1>3, <2>1 DEF ViewInv, ReadPhases
<1>9. CASE Gate(w)
  <2>1. phase[w] = "approval_gate" /\ read' = read /\ cur' = cur /\ result' = result
    BY <1>9 DEF Gate, localVars, storeVars
  <2>2. phase'[w] = IF NeedsReview(w) THEN "manual_review"
                    ELSE IF result[w].action = "skip" THEN "deactivating"
                    ELSE IF Waters(result[w]) THEN "saving"
                    ELSE "dispatching"
    BY <1>1, <1>9, Zenon DEF Gate
  <2>3. CASE phase'[w] \in {"deactivating", "saving"}
    BY <1>3, <2>1, <2>3 DEF ViewInv, ReadPhases
  <2>4. CASE phase'[w] = "manual_review"
    BY <1>4, <2>4
  <2>5. CASE phase'[w] = "dispatching"
    <3>1. result[w].action # "skip" /\ ~Waters(result[w])
      BY <2>2, <2>5
    <3>2. ins' = ins /\ ins[w] = <<>>
      BY <1>9, <2>1, <3>1 DEF Gate, TxnInv, PendingPhases
    <3> QED BY <2>1, <2>5, <3>1, <3>2 DEF ViewInv, ReadPhases
  <2> QED BY <2>2, <2>3, <2>4, <2>5
<1>10. CASE SaveSelect(w)
  <2>1. /\ phase'[w] = "superseding" /\ read'[w] = VisibleAt(ins[w][1].slot)
        /\ ins' = ins /\ cur' = cur
    BY <1>0, <1>1, <1>2, <1>10 DEF SaveSelect, storeVars
  <2> QED BY <1>3, <2>1 DEF ViewInv, ReadPhases
<1>11. CASE Supersede(w) \/ AllSuperseded(w)
  <2>1. /\ phase[w] = "superseding" /\ ins' = ins /\ read' = read
        /\ result' = result /\ cur' = cur
    BY <1>11 DEF Supersede, AllSuperseded, txnVars, storeVars, localVars
  <2>2. read[w] = VisibleAt(ins[w][1].slot) /\ result[w].action # "skip"
    BY <2>1 DEF ViewInv, TxnInv, Waters
  <2>3. CASE Supersede(w)
    <3>1. phase' = phase
      BY <2>3 DEF Supersede
    <3> QED BY <1>3, <2>1, <2>2, <3>1 DEF ViewInv, ReadPhases
  <2>4. CASE AllSuperseded(w)
    <3>1. phase'[w] = "dispatching" /\ hid' = hid /\ hid[w] = read[w]
      BY <1>1, <2>1, <2>4 DEF AllSuperseded, LockInv, txnVars
    <3> QED BY <1>3, <2>1, <2>2, <3>1 DEF ViewInv, ReadPhases
  <2> QED BY <1>11, <2>3, <2>4
<1>12. CASE Deactivate(w)
  <2>1. /\ phase[w] = "deactivating" /\ phase' = phase /\ read' = read /\ cur' = cur
    BY <1>12 DEF Deactivate, storeVars
  <2> QED BY <1>3, <2>1 DEF ViewInv, ReadPhases
<1>13. CASE AllDeactivated(w)
  <2>1. /\ phase[w] = "deactivating" /\ phase'[w] = "dispatching" /\ read[w] \subseteq hid[w]
        /\ hid' = hid /\ ins' = ins /\ cur' = cur
    BY <1>1, <1>13 DEF AllDeactivated, txnVars, storeVars
  <2>2. ins[w] = <<>> /\ read[w] = Visible
    BY <2>1 DEF TxnInv, PendingPhases, ViewInv, ReadPhases
  <2> QED BY <1>3, <2>1, <2>2 DEF ViewInv, ReadPhases
<1>14. CASE Dispatch(w) \/ Close(w)
  <2>1. /\ phase[w] \in {"dispatching", "verifying"} /\ phase'[w] \in {"verifying", "closed"}
        /\ hid' = hid /\ ins' = ins /\ result' = result /\ cur' = cur
    BY <1>1, <1>14 DEF Dispatch, Close, txnVars, localVars, storeVars
  <2> QED BY <1>3, <2>1 DEF ViewInv, ReadPhases
<1> QED BY <1>5, <1>6, <1>7, <1>8, <1>9, <1>10, <1>11, <1>12, <1>13, <1>14
        DEF Progress, Mishap

LEMMA ViewsStep ==
  ASSUME Alone
  PROVE  IInv /\ LocksAim /\ ViewsHold /\ [Next]_vars => ViewsHold'
<1> SUFFICES ASSUME IInv, LocksAim, ViewsHold, [Next]_vars PROVE ViewsHold'
  OBVIOUS
<1>1. ASSUME NEW w \in Workers, Progress(w) \/ Mishap(w) PROVE ViewsHold'
  <2>1. ViewInv(w)'
    BY <1>1, OwnViewStep DEF IInv, LocksAim, ViewsHold, Sessions
  <2> QED BY <2>1 DEF ViewsHold, Alone
<1>2. ASSUME UNCHANGED <<phase, txnVars, localVars, storeVars>> PROVE ViewsHold'
  BY <1>2 DEF ViewsHold, ViewInv, Visible, VisibleAt, txnVars, localVars, storeVars
<1>3. CASE Trigger
  BY <1>2, <1>3 DEF Trigger
<1>4. CASE UNCHANGED vars
  BY <1>2, <1>4 DEF vars
<1> QED BY <1>1, <1>3, <1>4 DEF Next, Finished, Alone

LEMMA InitViews == Init => ViewsHold
BY DEF Init, ViewsHold, ViewInv, ReadPhases, Sessions

\* A commit takes the rows it has locked out of sight, and adds those it inserts.
LEMMA CommitSees ==
  ASSUME TypeOK, NEW s \in Sessions, CommitTxn(s), NEW i \in Visible'
  PROVE  \/ i \in Visible \ hid[s] /\ cur'[i].slot = cur[i].slot
         \/ i \notin DOMAIN cur /\ i - Len(cur) \in DOMAIN ins[s]
            /\ cur'[i] = ins[s][i - Len(cur)]
<1> DEFINE old == [j \in DOMAIN cur |->
                     IF j \in hid[s] THEN [cur[j] EXCEPT !.live = FALSE] ELSE cur[j]]
<1>1. cur \in Seq(Rows) /\ ins[s] \in Seq(Rows)
  BY DEF TypeOK, StoreType, TxnType
<1>2. /\ Len(cur) \in Nat /\ DOMAIN cur = 1..Len(cur)
      /\ Len(ins[s]) \in Nat /\ DOMAIN ins[s] = 1..Len(ins[s])
  BY <1>1, LenProperties
<1>3. cur' = Committed(s) /\ Committed(s) = old \o ins[s]
  BY DEF CommitTxn, Committed
<1>4. i \in DOMAIN cur' /\ cur'[i].live
  BY DEF Visible
<1>5. CASE i \notin DOMAIN cur
  BY <1>3, <1>4, <1>5, CommittedRows
<1>6. CASE i \in DOMAIN cur
  <2>1. old \in Seq(Rows) /\ Len(old) = Len(cur)
    <3>1. ASSUME NEW j \in 1..Len(cur) PROVE old[j] \in Rows
      <4>1. cur[j] \in Rows
        BY <1>1, ElementOfSeq
      <4>2. [cur[j] EXCEPT !.live = FALSE] \in Rows
        BY <4>1 DEF Rows
      <4> QED BY <1>2, <4>1, <4>2
    <3> QED BY <1>2, <3>1
  <2>2. i \in hid[s] => ~old[i].live
    <3>1. cur[i] \in Rows
      BY <1>1, <1>2, <1>6, ElementOfSeq
    <3> QED BY <1>6, <3>1 DEF Rows
  <2>3. i \notin hid[s] => old[i] = cur[i]
    BY <1>6
  <2> HIDE DEF old
  <2>4. cur'[i] = old[i]
    BY <1>1, <1>2, <1>3, <1>6, <2>1, ConcatProperties
  <2> QED BY <1>4, <1>6, <2>2, <2>3, <2>4 DEF Visible
<1> QED BY <1>5, <1>6

\* A skip overrides the baseline of its date entirely: when it commits nothing is
\* left to water, if runs do not overlap, whatever crashes and retries precede it.
THEOREM SkipsClear == ASSUME Alone PROVE Spec => SkipClearsDate
<1>1. IInv /\ LocksAim /\ ViewsHold /\ [Next]_vars =>
        [\A w \in Workers :
           phase[w] = "closed" /\ phase'[w] = "committed" /\ result[w].action = "skip"
             => Visible' = {}]_vars
  <2> SUFFICES ASSUME IInv, LocksAim, ViewsHold, [Next]_vars, NEW w \in Workers,
                      phase[w] = "closed", phase'[w] = "committed", result[w].action = "skip"
               PROVE  Visible' = {}
    OBVIOUS
  <2>1. w \in Sessions /\ TypeOK /\ phase' # phase
    BY DEF IInv, Sessions
  <2>2. Progress(w) \/ Mishap(w)
    BY <2>1, Zenon DEF Next, Finished, Alone, Trigger, vars
  <2>3. \A there : Goto(w, there) => there = "committed"
    BY <2>1, OwnStep
  <2>4. Commit(w)
    BY <2>2, <2>3 DEF Progress, Mishap, Receive, BootRead, BootCommit, Create, Collect,
         GetWeather, Recommend, ApplyRules, Gate, SaveSelect, Supersede, AllSuperseded,
         Deactivate, AllDeactivated, Dispatch, Close, Rollback, Retry, Ack, Fail, Raise, Crash
  <2>5. Visible \subseteq hid[w] /\ ins[w] = <<>>
    BY DEF ViewsHold, ViewInv, IInv, TxnInv, PendingPhases, Pending, Waters
  <2> QED BY <2>1, <2>4, <2>5, CommitSees DEF Commit
<1> QED BY <1>1, Invariance, InitLocks, LocksStep, InitViews, ViewsStep, PTL
        DEF Spec, SkipClearsDate

-----------------------------------------------------------------------------
(* A slot has one visible row.                                               *)

\* Neither the rows of the start nor the templates share a slot.
SlotsApart ==
  /\ \A i, j \in DOMAIN InitialRows :
       InitialRows[i].live /\ InitialRows[j].live /\ InitialRows[i].slot = InitialRows[j].slot
         => i = j
  /\ \A t, u \in TemplateRows : t.slot = u.slot => t = u

Unique == \A i, j \in Visible : cur[i].slot = cur[j].slot => i = j

\* A bootstrap inserts no row twice.
LEMMA SeededOnce ==
  ASSUME SlotsApart, NEW S \in SUBSET TemplateRows
  PROVE  /\ \A i \in DOMAIN SetToSeq(S) : SetToSeq(S)[i] \in S
         /\ \A i, j \in DOMAIN SetToSeq(S) :
              SetToSeq(S)[i].slot = SetToSeq(S)[j].slot => i = j
<1> DEFINE n == Cardinality(S)
<1>0. IsFiniteSet(S)
  BY RowAssumption, FS_Subset
<1>1. n \in Nat /\ ExistsBijection(1..n, S)
  BY <1>0, FS_CardinalityType
<1>2. PICK f \in Bijection(1..n, S) : TRUE
  BY <1>1 DEF ExistsBijection
<1>3. f \in [1..n -> S] /\ IsInjective(f)
  BY <1>2 DEF Bijection, Injection, IsInjective
<1>4. SetToSeq(S) \in [1..n -> S] /\ IsInjective(SetToSeq(S))
  BY <1>3 DEF SetToSeq
<1>5. \A i, j \in DOMAIN SetToSeq(S) : SetToSeq(S)[i] = SetToSeq(S)[j] => i = j
  BY <1>4 DEF IsInjective
<1>6. \A i \in DOMAIN SetToSeq(S) : SetToSeq(S)[i] \in S
  BY <1>4
<1> QED BY <1>5, <1>6 DEF SlotsApart

\* A commit keeps a slot's visible row the only one if it hides what it replaces.
LEMMA CommitUnique ==
  ASSUME TypeOK, Unique, NEW s \in Sessions, CommitTxn(s),
         \A i, j \in DOMAIN ins[s] : ins[s][i].slot = ins[s][j].slot => i = j,
         \A i \in DOMAIN ins[s] : VisibleAt(ins[s][i].slot) \subseteq hid[s]
  PROVE  Unique'
<1> SUFFICES ASSUME NEW i \in Visible', NEW j \in Visible', cur'[i].slot = cur'[j].slot
             PROVE  i = j
  BY DEF Unique
<1> DEFINE Old(k) == k \in Visible \ hid[s] /\ cur'[k].slot = cur[k].slot
           New(k) == k - Len(cur) \in DOMAIN ins[s] /\ cur'[k] = ins[s][k - Len(cur)]
<1>1. (Old(i) \/ New(i)) /\ (Old(j) \/ New(j))
  BY CommitSees
<1>2. Old(i) /\ Old(j) => i = j
  BY DEF Unique
<1>3. ASSUME NEW k, NEW l, Old(k), New(l), cur'[k].slot = cur'[l].slot PROVE FALSE
  BY <1>3 DEF VisibleAt
<1>4. ASSUME New(i), New(j) PROVE i = j
  <2>1. Len(cur) \in Nat /\ i \in Int /\ j \in Int
    <3>1. cur \in Seq(Rows) /\ cur' \in Seq(Rows)
      BY CommittedRows DEF TypeOK, StoreType, CommitTxn
    <3> QED BY <3>1, LenProperties DEF Visible
  <2>2. i - Len(cur) = j - Len(cur)
    BY <1>4
  <2> QED BY <2>1, <2>2
<1> QED BY <1>1, <1>2, <1>3, <1>4

\* A pending transaction inserts one row, or none.
LEMMA PendingOne ==
  ASSUME NEW w, ins[w] = Pending(w), NEW i \in DOMAIN ins[w]
  PROVE  i = 1 /\ ins[w] # <<>>
BY DEF Pending

LEMMA UniqueStep ==
  ASSUME Alone, SlotsApart
  PROVE  IInv /\ ViewsHold /\ Unique /\ [Next]_vars => Unique'
<1> SUFFICES ASSUME IInv, ViewsHold, Unique, [Next]_vars PROVE Unique'
  OBVIOUS
<1>0. TypeOK
  BY DEF IInv
<1>1. ASSUME cur' = cur PROVE Unique'
  BY <1>1 DEF Unique, Visible
<1>2. ASSUME NEW w \in Workers, Progress(w) \/ Mishap(w) PROVE Unique'
  <2>1. w \in Sessions /\ SessionStep(w) /\ w \notin Requests /\ TxnInv(w) /\ ViewInv(w)
    BY <1>2 DEF Sessions, SessionStep, Alone, IInv, ViewsHold
  <2>2. cur' = cur \/ BootCommit(w) \/ Commit(w)
    BY <1>0, <2>1, StoreStep
  <2>3. CASE BootCommit(w)
    <3> DEFINE S == {row \in TemplateRows : VisibleAt(row.slot) = {}}
    <3>1. ins[w] = SetToSeq(S) /\ CommitTxn(w)
      BY <2>1, <2>3 DEF BootCommit, ViewInv
    <3>2. /\ \A i \in DOMAIN ins[w] : ins[w][i] \in S
          /\ \A i, j \in DOMAIN ins[w] : ins[w][i].slot = ins[w][j].slot => i = j
      <4>1. S \in SUBSET TemplateRows
        OBVIOUS
      <4> QED BY <3>1, <4>1, SeededOnce
    <3> QED BY <1>0, <2>1, <3>1, <3>2, CommitUnique
  <2>4. CASE Commit(w)
    <3>1. CommitTxn(w) /\ phase[w] \in {"closed", "manual_review"}
      BY <2>4 DEF Commit
    <3>2. ASSUME NEW i \in DOMAIN ins[w]
          PROVE  i = 1 /\ VisibleAt(ins[w][i].slot) \subseteq hid[w]
      <4>1. phase[w] = "closed" /\ ins[w] = Pending(w)
        BY <2>1, <3>1, <3>2 DEF TxnInv, PendingPhases
      <4>2. i = 1 /\ ins[w] # <<>>
        BY <3>2, <4>1, PendingOne
      <4> QED BY <2>1, <4>1, <4>2 DEF ViewInv
    <3> QED BY <1>0, <2>1, <3>1, <3>2, CommitUnique
  <2> QED BY <1>1, <2>2, <2>3, <2>4
<1>3. CASE Trigger
  BY <1>1, <1>3 DEF Trigger, storeVars
<1>4. CASE UNCHANGED vars
  BY <1>1, <1>4 DEF vars, storeVars
<1> QED BY <1>2, <1>3, <1>4 DEF Next, Finished, Alone

LEMMA InitUnique == ASSUME SlotsApart PROVE Init => Unique
BY DEF Init, Unique, Visible, SlotsApart

LEMMA UniqueCounts == TypeOK /\ Unique => SlotUnique
<1> SUFFICES ASSUME TypeOK, Unique, NEW slot \in Slots
             PROVE  Cardinality(VisibleAt(slot)) <= 1
  BY DEF SlotUnique
<1>1. CASE VisibleAt(slot) = {}
  BY <1>1, FS_EmptySet
<1>2. CASE VisibleAt(slot) # {}
  <2>1. PICK i \in VisibleAt(slot) : TRUE
    BY <1>2
  <2>2. VisibleAt(slot) = {i}
    BY <2>1 DEF Unique, VisibleAt
  <2>3. Cardinality({i}) = 1
    BY FS_Singleton
  <2> QED BY <2>2, <2>3
<1> QED BY <1>1, <1>2

\* A slot never has two visible rows if runs do not overlap, the rows of the start
\* have a slot each and so do the templates: with one worker, and nobody at the
\* API, what create_current_schedule and save claim of a slot is true, through
\* crashes, retries and re-seeding.
THEOREM SlotsUnique == ASSUME Alone, SlotsApart PROVE Spec => []SlotUnique
<1>1. Init => Unique
  BY InitUnique
<1>2. IInv /\ ViewsHold /\ Unique /\ [Next]_vars => Unique'
  BY UniqueStep
<1>3. IInv /\ LocksAim /\ ViewsHold /\ [Next]_vars => ViewsHold'
  BY ViewsStep
<1>4. IInv /\ Unique => SlotUnique
  BY UniqueCounts DEF IInv
<1> QED BY <1>1, <1>2, <1>3, <1>4, Invariance, InitLocks, LocksStep, InitViews, PTL DEF Spec

-----------------------------------------------------------------------------
(* A run's plan is within the percentage of the row it replaces.             *)

\* The device can run what is scheduled at the start, and by the templates.
RowsFit ==
  /\ \A i \in DOMAIN InitialRows : InitialRows[i].dur \in DeviceMin..DeviceMax
  /\ \A t \in TemplateRows : t.dur \in DeviceMin..DeviceMax

AllFit == \A i \in DOMAIN cur : cur[i].dur \in DeviceMin..DeviceMax

Near(d, b) ==
  /\ 100 * (d - b) <= MaxAdjustPct * b + 50
  /\ 100 * (b - d) <= MaxAdjustPct * b + 50

\* A ruling that waters is what the device can run, near a baseline it can run.
Ruled(res, b) ==
  Waters(res) /\ ~res.mismatch =>
    /\ res.dur \in DeviceMin..DeviceMax
    /\ b \in DeviceMin..DeviceMax => Near(res.dur, b)

BasePhases == (TryPhases \ {"queued"}) \union {"closed"}
PassedPhases == PendingPhases \union {"deactivating"}

DecisionInv(w) ==
  /\ phase[w] \in BasePhases => base[w] \in FirstOf(Visible)
  /\ phase[w] = "rule_check" => rec[w] \in Recommendations(base[w].dur)
  /\ phase[w] \in PassedPhases \union {"approval_gate"} => Ruled(result[w], base[w].dur)
  /\ phase[w] \in PassedPhases => ~result[w].mismatch

DecisionsHold == \A w \in Workers : DecisionInv(w)

\* Whichever agent recommends, what the rules make of it is ruled.
LEMMA RulingHolds ==
  ASSUME NEW b \in Nat, NEW r \in Recommendations(b)
  PROVE  Ruled(Apply(r, b, FALSE), b)
<1> DEFINE res == Apply(r, b, FALSE)
           adjusted == ClampAdjustment(r.action, r.dur, b)
<1> SUFFICES ASSUME Waters(res), ~res.mismatch
             PROVE  /\ res.dur \in DeviceMin..DeviceMax
                    /\ b \in DeviceMin..DeviceMax => Near(res.dur, b)
  BY DEF Ruled
<1>1. /\ r \in RecommendationValues
      /\ r.action = "skip" \/ r.dur \in Nat
      /\ r.action = "keep" => r.dur = b
  <2>1. CASE r = Heuristic(b)
    BY <2>1 DEF Heuristic, RecommendationValues, Actions, Durations
  <2>2. ASSUME NEW x \in Replies, Acceptable(x), NEW dry \in BOOLEAN, r = Coerce(x, b, dry)
        PROVE  /\ r \in RecommendationValues
               /\ r.action = "skip" \/ r.dur \in Nat
               /\ r.action = "keep" => r.dur = b
    BY <2>2, CoerceCoherent, ReplyAssumption
  <2> QED BY <2>1, <2>2 DEF Recommendations
<1>2. res.action = r.action /\ res.dur = ClampDevice(adjusted)
  BY DEF Apply
<1>3. r.action \in {"keep", "reduce", "increase"} /\ r.dur \in Nat
  BY <1>1, <1>2 DEF Waters, RecommendationValues, Actions
<1> HIDE DEF res
<1>4. adjusted \in Int
  <2>1. Round100(b * (100 - MaxAdjustPct)) \in Int /\ Round100(b * (100 + MaxAdjustPct)) \in Int
    BY Round100Nearest, PctAssumption
  <2>2. MinAllowed(b) \in Int /\ MaxAllowed(b) \in Int
    BY <2>1, DeviceAssumption DEF MinAllowed, MaxAllowed, Greater, Lesser
  <2> QED BY <1>3, <2>2 DEF ClampAdjustment, Greater, Lesser
<1>5. res.dur \in DeviceMin..DeviceMax
  BY <1>2, <1>4, ClampDeviceBounds
<1>6. ASSUME b \in DeviceMin..DeviceMax PROVE Near(res.dur, b)
  <2>1. MaxAdjustPct * b \in Nat
    BY PctAssumption, PercentOf
  <2>2. CASE r.action = "keep"
    <3>1. adjusted = b
      BY <1>1, <2>2 DEF ClampAdjustment
    <3>2. res.dur = b
      BY <1>2, <1>6, <3>1, ClampDeviceBounds, DeviceAssumption
    <3> QED BY <2>1, <3>2 DEF Near
  <2>3. CASE r.action \in {"reduce", "increase"}
    <3>1. adjusted \in MinAllowed(b)..MaxAllowed(b)
      BY <1>3, <1>6, <2>3, ClampAdjustmentBounds
    <3>2. /\ MinAllowed(b) \in DeviceMin..b
          /\ MaxAllowed(b) \in b..DeviceMax
          /\ 100 * (b - MinAllowed(b)) <= MaxAdjustPct * b + 50
          /\ 100 * (MaxAllowed(b) - b) <= MaxAdjustPct * b + 50
      BY <1>6, WindowBounds
    <3>3. res.dur = adjusted
      BY <1>2, <3>1, <3>2, ClampDeviceBounds, DeviceAssumption
    <3> QED BY <2>1, <3>1, <3>2, <3>3, DeviceAssumption DEF Near
  <2> QED BY <1>3, <2>2, <2>3
<1> QED BY <1>5, <1>6

LEMMA OwnDecisionStep ==
  ASSUME TypeOK, NEW w \in Workers, Progress(w) \/ Mishap(w), DecisionInv(w)
  PROVE  DecisionInv(w)'
<1>0. w \in Sessions
  BY DEF Sessions
<1>1. \A there : Goto(w, there) => phase'[w] = there
  BY <1>0, OwnStep
<1>2. /\ base \in [Workers -> [slot : Slots, dur : Nat]]
      /\ rec \in [Workers -> RecommendationValues]
      /\ result \in [Workers -> RuleResults]
  BY DEF TypeOK, LocalType
<1>3. cur' = cur => Visible' = Visible /\ FirstOf(Visible)' = FirstOf(Visible)
  BY DEF Visible, FirstOf, Earliest
<1> USE DEF PassedPhases, PendingPhases, BasePhases, TryPhases
<1>4. CASE Receive(w) \/ BootRead(w) \/ BootCommit(w) \/ Create(w) \/ Commit(w)
           \/ Rollback(w) \/ Retry(w) \/ Ack(w) \/ Fail(w) \/ Raise(w) \/ Crash(w)
  <2>1. phase'[w] \in {"starting", "booting", "bootstrapped", "queued", "committed", "failed",
                       "raised", "settled", "idle"}
    BY <1>0, <1>1, <1>4 DEF Receive, BootRead, BootCommit, Create, Commit, Rollback, Retry,
                            Ack, Fail, Raise, Crash
  <2> QED BY <2>1 DEF DecisionInv
<1>5. CASE Collect(w)
  <2>1. phase'[w] = "collecting_data" /\ base'[w] \in FirstOf(Visible) /\ cur' = cur
    BY <1>1, <1>2, <1>5 DEF Collect, storeVars
  <2> QED BY <1>3, <2>1 DEF DecisionInv
<1>6. CASE GetWeather(w)
  <2>1. /\ phase[w] = "collecting_data" /\ phase'[w] = "reasoning" /\ base' = base /\ cur' = cur
    BY <1>1, <1>6 DEF GetWeather, localVars, storeVars
  <2> QED BY <1>3, <2>1 DEF DecisionInv
<1>7. CASE Recommend(w)
  <2>1. /\ phase[w] = "reasoning" /\ phase'[w] = "rule_check" /\ base' = base /\ cur' = cur
        /\ rec'[w] \in Recommendations(base[w].dur)
    BY <1>1, <1>2, <1>7 DEF Recommend, storeVars
  <2>2. Recommendations(base[w].dur)' = Recommendations(base[w].dur)
    BY <2>1 DEF Recommendations
  <2> QED BY <1>3, <2>1, <2>2 DEF DecisionInv
<1>8. CASE ApplyRules(w)
  <2>1. /\ phase[w] = "rule_check" /\ phase'[w] = "approval_gate" /\ base' = base /\ cur' = cur
        /\ result'[w] = Apply(rec[w], base[w].dur, FALSE)
    BY <1>1, <1>2, <1>8 DEF ApplyRules, storeVars
  <2>2. base[w].dur \in Nat /\ rec[w] \in Recommendations(base[w].dur)
    BY <1>2, <2>1 DEF DecisionInv
  <2>3. Ruled(result'[w], base'[w].dur)
    BY <2>1, <2>2, RulingHolds
  <2> QED BY <1>3, <2>1, <2>3 DEF DecisionInv
<1>9. CASE Gate(w)
  <2>1. phase[w] = "approval_gate" /\ UNCHANGED localVars /\ cur' = cur
    BY <1>9 DEF Gate, storeVars
  <2>2. phase'[w] = IF NeedsReview(w) THEN "manual_review"
                    ELSE IF result[w].action = "skip" THEN "deactivating"
                    ELSE IF Waters(result[w]) THEN "saving"
                    ELSE "dispatching"
    BY <1>1, <1>9, Zenon DEF Gate
  <2>3. CASE NeedsReview(w)
    BY <2>2, <2>3 DEF DecisionInv
  <2>4. CASE ~NeedsReview(w)
    <3>1. ~result[w].mismatch /\ phase'[w] \in {"deactivating", "saving", "dispatching"}
      BY <2>2, <2>4 DEF NeedsReview
    <3> QED BY <1>3, <2>1, <3>1 DEF DecisionInv, localVars
  <2> QED BY <2>3, <2>4
<1>10. CASE SaveSelect(w) \/ Supersede(w) \/ AllSuperseded(w) \/ Deactivate(w)
            \/ AllDeactivated(w) \/ Dispatch(w) \/ Close(w)
  <2>1. UNCHANGED localVars /\ cur' = cur
    BY <1>10 DEF SaveSelect, Supersede, AllSuperseded, Deactivate, AllDeactivated, Dispatch,
                 Close, storeVars
  <2>2. phase[w] \in PassedPhases /\ phase'[w] \in PassedPhases
    BY <1>0, <1>1, <1>10 DEF SaveSelect, Supersede, AllSuperseded, Deactivate, AllDeactivated,
                             Dispatch, Close
  <2> QED BY <1>3, <2>1, <2>2 DEF DecisionInv, localVars
<1> QED BY <1>4, <1>5, <1>6, <1>7, <1>8, <1>9, <1>10 DEF Progress, Mishap

LEMMA DecisionsStep ==
  ASSUME Alone
  PROVE  TypeOK /\ DecisionsHold /\ [Next]_vars => DecisionsHold'
<1> SUFFICES ASSUME TypeOK, DecisionsHold, [Next]_vars PROVE DecisionsHold'
  OBVIOUS
<1>1. ASSUME NEW w \in Workers, Progress(w) \/ Mishap(w) PROVE DecisionsHold'
  <2>1. DecisionInv(w)'
    BY <1>1, OwnDecisionStep DEF DecisionsHold
  <2> QED BY <2>1 DEF DecisionsHold, Alone
<1>2. ASSUME UNCHANGED <<phase, localVars, storeVars>> PROVE DecisionsHold'
  <2>1. FirstOf(Visible)' = FirstOf(Visible)
    BY <1>2 DEF FirstOf, Earliest, Visible, storeVars
  <2>3. \A b : Recommendations(b)' = Recommendations(b)
    BY DEF Recommendations
  <2>4. ASSUME NEW w \in Workers, DecisionInv(w) PROVE DecisionInv(w)'
    BY <1>2, <2>1, <2>3, <2>4, Zenon DEF DecisionInv, Ruled, Waters, Near, localVars
  <2> QED BY <2>4 DEF DecisionsHold
<1>3. CASE Trigger
  BY <1>2, <1>3 DEF Trigger
<1>4. CASE UNCHANGED vars
  BY <1>2, <1>4 DEF vars
<1> QED BY <1>1, <1>3, <1>4 DEF Next, Finished, Alone

LEMMA InitDecisions == Init => DecisionsHold
BY DEF Init, DecisionsHold, DecisionInv, BasePhases, PassedPhases, PendingPhases, TryPhases,
       Sessions

LEMMA FitStep ==
  ASSUME Alone, SlotsApart, RowsFit
  PROVE  IInv /\ ViewsHold /\ DecisionsHold /\ AllFit /\ [Next]_vars => AllFit'
<1> SUFFICES ASSUME IInv, ViewsHold, DecisionsHold, AllFit, [Next]_vars PROVE AllFit'
  OBVIOUS
<1>0. TypeOK
  BY DEF IInv
<1>1. ASSUME cur' = cur PROVE AllFit'
  BY <1>1 DEF AllFit
<1>2. ASSUME NEW w \in Workers, Progress(w) \/ Mishap(w) PROVE AllFit'
  <2>1. /\ w \in Sessions /\ SessionStep(w) /\ w \notin Requests
        /\ TxnInv(w) /\ ViewInv(w) /\ DecisionInv(w)
    BY <1>2 DEF Sessions, SessionStep, Alone, IInv, ViewsHold, DecisionsHold
  <2>2. cur' = cur \/ BootCommit(w) \/ Commit(w)
    BY <1>0, <2>1, StoreStep
  <2>3. ASSUME CommitTxn(w), \A i \in DOMAIN ins[w] : ins[w][i].dur \in DeviceMin..DeviceMax
        PROVE  AllFit'
    BY <1>0, <2>1, <2>3, CommittedRows DEF AllFit, CommitTxn
  <2>4. CASE BootCommit(w)
    <3> DEFINE S == {row \in TemplateRows : VisibleAt(row.slot) = {}}
    <3>1. ins[w] = SetToSeq(S) /\ CommitTxn(w)
      BY <2>1, <2>4 DEF BootCommit, ViewInv
    <3>2. \A i \in DOMAIN ins[w] : ins[w][i] \in S
      <4>1. S \in SUBSET TemplateRows
        OBVIOUS
      <4> QED BY <3>1, <4>1, SeededOnce
    <3> QED BY <2>3, <3>1, <3>2 DEF RowsFit
  <2>5. CASE Commit(w)
    <3>1. CommitTxn(w) /\ phase[w] \in {"closed", "manual_review"}
      BY <2>5 DEF Commit
    <3>2. ASSUME NEW i \in DOMAIN ins[w] PROVE ins[w][i].dur \in DeviceMin..DeviceMax
      <4>1. phase[w] = "closed" /\ ins[w] = Pending(w)
        BY <2>1, <3>1, <3>2 DEF TxnInv, PendingPhases
      <4>2. i = 1 /\ Waters(result[w]) /\ ins[w][i].dur = result[w].dur
        BY <3>2, <4>1 DEF Pending, Row
      <4> QED BY <2>1, <4>1, <4>2 DEF DecisionInv, PassedPhases, PendingPhases, Ruled
    <3> QED BY <2>3, <3>1, <3>2
  <2> QED BY <1>1, <2>2, <2>4, <2>5
<1>3. CASE Trigger
  BY <1>1, <1>3 DEF Trigger, storeVars
<1>4. CASE UNCHANGED vars
  BY <1>1, <1>4 DEF vars, storeVars
<1> QED BY <1>2, <1>3, <1>4 DEF Next, Finished, Alone

LEMMA InitFits == ASSUME RowsFit PROVE Init => AllFit
BY DEF Init, AllFit, RowsFit

\* What a closed run commits is near the row it hides.
LEMMA ClosedNear ==
  ASSUME TypeOK, Unique, AllFit, NEW w \in Workers, phase[w] = "closed",
         TxnInv(w), ViewInv(w), DecisionInv(w),
         NEW i \in DOMAIN ins[w], NEW j \in hid[w]
  PROVE  ins[w][i].slot = cur[j].slot /\ Near(ins[w][i].dur, cur[j].dur)
<1>1. ins[w] = Pending(w) /\ base[w] \in FirstOf(Visible)
      /\ Ruled(result[w], base[w].dur) /\ ~result[w].mismatch
  BY DEF TxnInv, DecisionInv, BasePhases, PassedPhases, PendingPhases
<1>2. /\ Waters(result[w]) /\ i = 1
      /\ ins[w][i].slot = base[w].slot /\ ins[w][i].dur = result[w].dur
  BY <1>1 DEF Pending, Row
<1>3. j \in VisibleAt(base[w].slot)
  BY <1>2 DEF ViewInv
<1>4. PICK k \in Visible : base[w] = [slot |-> cur[k].slot, dur |-> cur[k].dur]
  BY <1>1, <1>3 DEF FirstOf, Earliest, VisibleAt
<1>5. cur[j].slot = base[w].slot /\ cur[j].dur = base[w].dur
  BY <1>3, <1>4 DEF VisibleAt, Unique
<1>6. cur[j].dur \in DeviceMin..DeviceMax
  BY <1>3 DEF AllFit, VisibleAt, Visible
<1> QED BY <1>1, <1>2, <1>5, <1>6 DEF Ruled

\* A run changes what a slot is watered by MaxAdjustPct at most, rounding apart,
\* if runs do not overlap and the device can run what is seeded: what rule 4 holds
\* near the row that was read is still near the row that is superseded.
THEOREM StepsBounded == ASSUME Alone, SlotsApart, RowsFit PROVE Spec => BoundedStep
<1>1. Init => Unique /\ AllFit
  BY InitUnique, InitFits
<1>2. IInv /\ LocksAim /\ ViewsHold /\ [Next]_vars => ViewsHold'
  BY ViewsStep
<1>3. IInv /\ ViewsHold /\ Unique /\ [Next]_vars => Unique'
  BY UniqueStep
<1>4. IInv /\ DecisionsHold /\ [Next]_vars => DecisionsHold'
  BY DecisionsStep DEF IInv
<1>5. IInv /\ ViewsHold /\ DecisionsHold /\ AllFit /\ [Next]_vars => AllFit'
  BY FitStep
<1>6. IInv /\ ViewsHold /\ DecisionsHold /\ Unique /\ AllFit =>
        [\A w \in Workers :
           phase[w] = "closed" /\ phase'[w] = "committed" =>
             \A i \in DOMAIN ins[w], j \in hid[w] :
               /\ ins[w][i].slot = cur[j].slot
               /\ 100 * (ins[w][i].dur - cur[j].dur) <= MaxAdjustPct * cur[j].dur + 50
               /\ 100 * (cur[j].dur - ins[w][i].dur) <= MaxAdjustPct * cur[j].dur + 50]_vars
  BY ClosedNear DEF Near, IInv, ViewsHold, DecisionsHold
<1> QED BY <1>1, <1>2, <1>3, <1>4, <1>5, <1>6, Invariance, InitLocks, LocksStep, InitViews,
           InitDecisions, PTL DEF Spec, BoundedStep

-----------------------------------------------------------------------------
(* Nobody waits for ever.                                                    *)

\* Among rows some have the latest start.
LEMMA LatestRow ==
  ASSUME TypeOK, NEW ids, ids \subseteq DOMAIN cur, ids # {}
  PROVE  \E i \in ids : \A j \in ids : cur[j].slot <= cur[i].slot
<1> DEFINE from(i) == {j \in ids : cur[i].slot <= cur[j].slot}
           above == {from(i) : i \in ids}
<1>1. \A i \in ids : cur[i].slot \in Nat
  <2>1. \A i \in ids : cur[i] \in Rows
    BY ElementOfSeq, LenProperties DEF TypeOK, StoreType
  <2> QED
    BY <2>1, SlotAssumption DEF Rows
<1>2. IsFiniteSet(ids)
  <2>1. DOMAIN cur = 1..Len(cur) /\ Len(cur) \in Nat
    BY LenProperties DEF TypeOK, StoreType
  <2>2. IsFiniteSet(1..Len(cur)) /\ ids \subseteq 1..Len(cur)
    BY <2>1, FS_Interval
  <2> QED
    BY <2>2, FS_Subset
<1>3. PICK T \in above : \A U \in above : U \subseteq T => U = T
  <2>1. above # {} /\ above \in SUBSET (SUBSET ids)
    OBVIOUS
  <2> HIDE DEF above
  <2> QED
    BY <1>2, <2>1, SmallestSubset
<1>4. PICK i \in ids : T = from(i)
  OBVIOUS
<1>5. ASSUME NEW j \in ids, ~(cur[j].slot <= cur[i].slot)
      PROVE  FALSE
  <2>1. from(j) \subseteq from(i) /\ i \notin from(j) /\ i \in from(i)
    BY <1>1, <1>5
  <2> QED
    BY <1>3, <1>4, <2>1
<1> QED
  BY <1>5

RowPhases == {"deactivating", "superseding"}

\* A skip locks rows in the order of their starts, and a save or a DELETE only
\* rows of one start.
OrderInv(s) ==
  /\ phase[s] = "deactivating" =>
       \A i \in hid[s], j \in Left(s) : cur[i].slot <= cur[j].slot
  /\ phase[s] = "superseding" =>
       \A i, j \in read[s] : cur[i].slot = cur[j].slot

InOrder == \A s \in Sessions : OrderInv(s)

LEMMA OwnOrderStep ==
  ASSUME TypeOK, NEW s \in Sessions, SessionStep(s), LockInv(s), OrderInv(s)
  PROVE  OrderInv(s)'
<1>1. \A there : Goto(s, there) => phase'[s] = there
  BY OwnStep
<1>2. /\ hid \in [Sessions -> SUBSET (DOMAIN cur)]
      /\ read \in [Sessions -> SUBSET (DOMAIN cur)]
  BY DEF TypeOK, TxnType
<1>3. CASE Deactivate(s)
  <2>1. PICK k \in Earliest(Left(s)) : hid' = [hid EXCEPT ![s] = @ \union {k}]
    BY <1>3 DEF Deactivate
  <2>2. /\ phase[s] = "deactivating" /\ phase' = phase /\ read' = read /\ cur' = cur
        /\ hid'[s] = hid[s] \union {k}
    BY <1>2, <1>3, <2>1 DEF Deactivate, storeVars
  <2> QED
    BY <2>1, <2>2 DEF OrderInv, Earliest, Left
<1>4. CASE Gate(s)
  <2>1. hid' = hid /\ hid[s] = {} /\ phase'[s] # "superseding"
    BY <1>1, <1>4 DEF Gate, LockInv, LockPhases
  <2> QED
    BY <2>1 DEF OrderInv
<1>5. CASE SaveSelect(s)
  <2>1. /\ phase'[s] = "superseding" /\ cur' = cur
        /\ read'[s] = VisibleAt(ins[s][1].slot)
    BY <1>1, <1>2, <1>5 DEF SaveSelect, storeVars
  <2> QED
    BY <2>1 DEF OrderInv, VisibleAt
<1>6. CASE Supersede(s)
  <2>1. phase[s] = "superseding" /\ phase' = phase /\ read' = read /\ cur' = cur
    BY <1>6 DEF Supersede, storeVars
  <2> QED
    BY <2>1 DEF OrderInv
<1>7. CASE Delete(s)
  <2>1. PICK i \in Visible : read' = [read EXCEPT ![s] = {i}]
    BY <1>7 DEF Delete
  <2>2. phase'[s] = "superseding" /\ read'[s] = {i}
    BY <1>1, <1>2, <1>7, <2>1 DEF Delete
  <2> QED
    BY <2>2 DEF OrderInv
<1>8. ASSUME phase'[s] \notin RowPhases
      PROVE  OrderInv(s)'
  BY <1>8 DEF OrderInv, RowPhases
<1>9. CASE Receive(s) \/ BootRead(s) \/ BootCommit(s) \/ Create(s) \/ Collect(s)
           \/ GetWeather(s) \/ Recommend(s) \/ ApplyRules(s)
  BY <1>1, <1>8, <1>9 DEF Receive, BootRead, BootCommit, Create, Collect, GetWeather,
                          Recommend, ApplyRules, RowPhases
<1>10. CASE AllSuperseded(s) \/ AllDeactivated(s) \/ Dispatch(s) \/ Close(s) \/ Commit(s)
            \/ Rollback(s) \/ Retry(s) \/ Ack(s)
  BY <1>1, <1>8, <1>10 DEF AllSuperseded, AllDeactivated, Dispatch, Close, Commit, Rollback,
                           Retry, Ack, RowPhases
<1>11. CASE Mishap(s) \/ Post(s) \/ Startup(s) \/ CommitRequest(s) \/ FailRequest(s)
  BY <1>1, <1>8, <1>11 DEF Mishap, Fail, Raise, Crash, Post, Startup, CommitRequest,
                           FailRequest, RowPhases
<1> QED
  BY <1>3, <1>4, <1>5, <1>6, <1>7, <1>9, <1>10, <1>11
     DEF SessionStep, Progress, Arrive, Serve

LEMMA OtherOrder ==
  ASSUME TypeOK, NEW s \in Sessions, SessionStep(s), NEW t \in Sessions \ {s}, OrderInv(t)
  PROVE  OrderInv(t)'
<1>1. phase'[t] = phase[t] /\ read'[t] = read[t] /\ hid'[t] = hid[t]
  BY Bystander, ReadsAndLocksOfOthers DEF Same
<1>2. read[t] \subseteq DOMAIN cur /\ hid[t] \subseteq DOMAIN cur
  BY DEF TypeOK, TxnType
<1>3. \A i \in hid[t] \union read[t] : cur'[i].slot = cur[i].slot
  BY <1>2, TableGrows
<1> QED
  BY <1>1, <1>3 DEF OrderInv, Left

LEMMA OrderStep == IInv /\ LocksAim /\ InOrder /\ [Next]_vars => InOrder'
<1> SUFFICES ASSUME IInv, LocksAim, InOrder, [Next]_vars PROVE InOrder'
  OBVIOUS
<1>1. ASSUME NEW s \in Sessions, SessionStep(s) PROVE InOrder'
  <2>1. OrderInv(s)'
    BY <1>1, OwnOrderStep DEF IInv, LocksAim, InOrder
  <2>2. \A t \in Sessions \ {s} : OrderInv(t)'
    BY <1>1, OtherOrder DEF IInv, InOrder
  <2> QED
    BY <2>1, <2>2 DEF InOrder
<1>2. ASSUME UNCHANGED <<phase, txnVars, localVars, storeVars>> PROVE InOrder'
  BY <1>2 DEF InOrder, OrderInv, Left, txnVars, storeVars
<1>3. CASE Trigger
  BY <1>2, <1>3 DEF Trigger
<1>4. CASE UNCHANGED vars
  BY <1>2, <1>4 DEF vars
<1>5. ASSUME NEW w \in Workers, Progress(w) \/ Mishap(w) PROVE InOrder'
  BY <1>1, <1>5 DEF SessionStep, Sessions
<1>6. ASSUME NEW q \in Requests, Arrive(q) \/ Serve(q) \/ FailRequest(q) PROVE InOrder'
  BY <1>1, <1>6 DEF SessionStep, Sessions
<1> QED BY <1>3, <1>4, <1>5, <1>6 DEF Next, Finished

LEMMA InitOrder == Init => InOrder
BY DEF Init, InOrder, OrderInv, Sessions

\* The rows a session may update next are read and not yet locked by it, and do not
\* start before those it has locked.
LEMMA NextRowsLater ==
  ASSUME LocksAim, InOrder, NEW s \in Sessions, NEW j \in NextRows(s)
  PROVE  /\ phase[s] \in RowPhases
         /\ j \in Left(s)
         /\ \A i \in hid[s] : cur[i].slot <= cur[j].slot \/ cur[i].slot = cur[j].slot
<1>1. CASE phase[s] = "deactivating"
  BY <1>1 DEF NextRows, Earliest, RowPhases, InOrder, OrderInv
<1>2. CASE phase[s] = "superseding"
  <2>1. j \in Left(s) /\ hid[s] \subseteq read[s]
    BY <1>2 DEF NextRows, LocksAim, LockInv
  <2> QED
    BY <1>2, <2>1 DEF RowPhases, InOrder, OrderInv, Left
<1> QED
  BY <1>1, <1>2 DEF NextRows

\* Who has to wait for a row waits for one who holds it.
LEMMA RowHolder ==
  ASSUME NEW s \in Sessions, \E i \in NextRows(s) : ~Unlocked(i, s)
  PROVE  \E t \in Sessions \ {s} : hid[t] # {} /\ WaitsFor(s, t)
BY DEF Unlocked, WaitsFor

\* Who holds locks on rows is at work, and needs no other lock unless it is about
\* to update more rows.
LEMMA LockHolders ==
  ASSUME LocksAim, NEW t \in Sessions, hid[t] # {}
  PROVE  AtWork(t) /\ (Blocked(t) => phase[t] \in RowPhases)
<1>1. phase[t] \in LockPhases
  BY DEF LocksAim, LockInv
<1> QED
  BY <1>1 DEF AtWork, Blocked, LockPhases, NextRows, RowPhases

\* If everyone at work had to wait, those who update rows would wait for each other.
LEMMA AllBlocked ==
  ASSUME LocksAim, \A s \in Sessions : AtWork(s) => Blocked(s)
  PROVE  LET all == {s \in Sessions : phase[s] \in RowPhases}
         IN  /\ \A v \in all : \E u \in all \ {v} : WaitsFor(v, u)
             /\ (\E s \in Sessions : AtWork(s)) => all # {}
<1> DEFINE all == {s \in Sessions : phase[s] \in RowPhases}
<1>1. ASSUME NEW t \in Sessions, hid[t] # {}
      PROVE  t \in all
  BY <1>1, LockHolders
<1>2. ASSUME NEW v \in all
      PROVE  \E u \in all \ {v} : WaitsFor(v, u)
  <2>1. v \in Sessions /\ phase[v] \in RowPhases /\ Blocked(v)
    BY DEF AtWork, RowPhases
  <2>2. PICK u \in Sessions \ {v} : hid[u] # {} /\ WaitsFor(v, u)
    BY <2>1, RowHolder DEF Blocked, RowPhases
  <2> QED
    BY <1>1, <2>2
<1>3. ASSUME NEW s \in Sessions, AtWork(s), all = {}
      PROVE  FALSE
  <2>1. \A t \in Sessions : phase[t] \notin RowPhases /\ NextRows(t) = {}
    BY <1>3 DEF NextRows, RowPhases
  <2>2. \A t \in Sessions : AtWork(t) => phase[t] \in {"starting", "collecting_data"}
    BY <2>1 DEF Blocked
  <2>3. \A t \in Sessions : phase[t] # "booting"
    BY <2>2 DEF AtWork
  <2>4. \A v \in Workers : ~HoldsWeather(v)
    BY <2>2 DEF HoldsWeather, AtWork, TryPhases, EndPhases, Sessions
  <2> QED
    BY <1>3, <2>1, <2>3, <2>4 DEF Blocked
<1> QED
  BY <1>2, <1>3

\* Of sessions that wait for each other to update rows, those that hold a row of
\* the latest start wait for each other over rows of that start.
LEMMA LatestIsCycle ==
  ASSUME TypeOK, LocksAim, InOrder, NEW all \in SUBSET Sessions, all # {},
         \A v \in all : \E u \in all \ {v} : WaitsFor(v, u)
  PROVE  \E slot \in Slots : CycleOver(slot)
<1> DEFINE locked == UNION {hid[v] : v \in all}
<1>1. \A v \in all : hid[v] \subseteq DOMAIN cur
  BY DEF TypeOK, TxnType
<1>2. locked \subseteq DOMAIN cur /\ locked # {}
  BY <1>1 DEF WaitsFor
<1>3. PICK m \in locked : \A j \in locked : cur[j].slot <= cur[m].slot
  <2> HIDE DEF locked
  <2> QED
    BY <1>2, LatestRow
<1>4. \A i \in locked : cur[i].slot \in Nat /\ cur[i].slot \in Slots
  <2>1. \A i \in locked : cur[i] \in Rows
    BY <1>2, ElementOfSeq, LenProperties DEF TypeOK, StoreType
  <2> QED
    BY <2>1, SlotAssumption DEF Rows
<1> DEFINE holders == {v \in all : \E i \in hid[v] : cur[i].slot = cur[m].slot}
<1>5. holders \in (SUBSET Sessions) \ {{}}
  BY <1>3
<1>6. ASSUME NEW v \in holders
      PROVE  /\ \E i \in hid[v] : cur[i].slot = cur[m].slot
             /\ \E u \in holders \ {v} : \E j \in NextRows(v) \cap hid[u] :
                  cur[j].slot = cur[m].slot
  <2>1. PICK i \in hid[v] : cur[i].slot = cur[m].slot
    OBVIOUS
  <2>2. PICK u \in all \ {v} : WaitsFor(v, u)
    OBVIOUS
  <2>3. PICK j \in NextRows(v) : j \in hid[u]
    BY <2>2 DEF WaitsFor
  <2>4. i \in locked /\ j \in locked
    BY <2>1, <2>3
  <2>5. cur[i].slot <= cur[j].slot \/ cur[i].slot = cur[j].slot
    BY <2>1, <2>3, NextRowsLater
  <2>6. cur[j].slot = cur[m].slot
    <3> HIDE DEF locked
    <3> QED
      BY <1>3, <1>4, <2>1, <2>4, <2>5
  <2>7. u \in holders
    BY <2>2, <2>3, <2>6
  <2> QED
    BY <2>1, <2>3, <2>6, <2>7
<1>7. CycleOver(cur[m].slot)
  <2> HIDE DEF holders
  <2> QED
    BY <1>5, <1>6 DEF CycleOver
<1> QED
  BY <1>3, <1>4, <1>7

\* For any number of sessions, rows and locks: while anyone is at work someone need
\* not wait, or sessions wait for each other in a cycle over rows of one start.
THEOREM NobodyStuck == Spec => []NoGridlock
<1>1. IInv /\ LocksAim /\ InOrder => NoGridlock
  <2> SUFFICES ASSUME IInv, LocksAim, InOrder, \E s \in Sessions : AtWork(s),
                      \A s \in Sessions : AtWork(s) => Blocked(s)
               PROVE  \E slot \in Slots : CycleOver(slot)
    BY DEF NoGridlock
  <2> DEFINE all == {s \in Sessions : phase[s] \in RowPhases}
  <2>1. all # {} /\ \A v \in all : \E u \in all \ {v} : WaitsFor(v, u)
    BY AllBlocked
  <2>2. all \in SUBSET Sessions
    OBVIOUS
  <2> HIDE DEF all
  <2> QED
    BY <2>1, <2>2, LatestIsCycle DEF IInv
<1> QED
  BY <1>1, Invariance, InitLocks, LocksStep, InitOrder, OrderStep, PTL DEF Spec
=============================================================================
