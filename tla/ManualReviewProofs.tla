------------------------- MODULE ManualReviewProofs -------------------------
(***************************************************************************)
(* Proofs about ManualReview, for any number of runs, reviews, decisions   *)
(* and failures.                                                           *)
(***************************************************************************)
EXTENDS ManualReview, TLAPS

-----------------------------------------------------------------------------
(* The inductive invariant.                                                  *)

Past(v) == phase[v] \notin {"idle", "done"}

\* A review that got past the check works on a run that is referred or already
\* rejected, and what it is about to write is a rejection.
ReviewInv(v) ==
  /\ Past(v) => status[of[v]] \in {"manual_review", "failed"}
  /\ phase[v] \in {"updating", "committing"} => verdict[v] = "failed"

\* A run that is not open yet, or was referred, has sent nothing; only a run
\* that was referred has been commanded by reviews.
RunInv(r) ==
  /\ status[r] \in {"unborn", "manual_review", "failed"} => sent[r] = <<>>
  /\ orders[r] # <<>> => status[r] \in {"manual_review", "failed"}

IInv ==
  /\ TypeOK
  /\ \A v \in Reviews : ReviewInv(v)
  /\ \A r \in Runs : RunInv(r)

-----------------------------------------------------------------------------
LEMMA InitType == Init => TypeOK
BY FailureAssumption
   DEF Init, TypeOK, Contract!Init, Statuses, Contract!Statuses, ReviewPhases

LEMMA OrderType == \A d \in Decisions : Order(d) \in Orders
BY DecisionAssumption DEF Order, Orders, Actions

\* A step of a run keeps the types.
LEMMA RunStepType ==
  ASSUME TypeOK, NEW r \in Runs, RunStep(r)
  PROVE  TypeOK'
<1>1. UNCHANGED <<phase, of, verdict, orders, failures>>
  BY DEF RunStep, reviewVars
<1>2. status' \in [Runs -> Statuses]
  BY DEF RunStep, TypeOK, Contract!Open, Contract!Command, Contract!Close,
         Contract!Refer, Contract!Abandon, Contract!Move, Statuses, Contract!Statuses
<1>3. sent' \in [Runs -> Seq(Commands)]
  <2>1. CASE UNCHANGED sent
    BY <2>1 DEF TypeOK
  <2>2. ASSUME NEW c \in Commands, sent' = [sent EXCEPT ![r] = <<c>>]
        PROVE  sent' \in [Runs -> Seq(Commands)]
    BY <2>2 DEF TypeOK
  <2>3. QED
    BY <2>1, <2>2 DEF RunStep, Contract!Open, Contract!Close, Contract!Refer,
                      Contract!Abandon
<1>4. plan' \in [Runs -> SUBSET Rows]
  <2>1. CASE UNCHANGED plan
    BY <2>1 DEF TypeOK
  <2>2. CASE Contract!Close(r)
    <3>1. /\ sent[r] # <<>>
          /\ plan' = [plan EXCEPT ![r] = Contract!Effect(Head(sent[r]))]
      BY <2>2 DEF Contract!Close
    <3>2. Head(sent[r]) \in Commands
      BY <3>1 DEF TypeOK
    <3>3. Contract!Effect(Head(sent[r])) \subseteq Rows
      BY <3>2 DEF Rows
    <3>4. QED
      BY <3>1, <3>3 DEF TypeOK
  <2>3. QED
    BY <2>1, <2>2 DEF RunStep, Contract!Open, Contract!Command, Contract!Refer,
                      Contract!Abandon
<1>5. QED
  BY <1>1, <1>2, <1>3, <1>4 DEF TypeOK

\* So does a step of a review.
LEMMA ReviewStepType ==
  ASSUME TypeOK, NEW v \in Reviews, ReviewStep(v)
  PROVE  TypeOK'
<1> USE DEF TypeOK, Goto, ReviewPhases, runVars
<1>1. CASE Reject(v) \/ Approve(v)
  BY <1>1 DEF Reject, Approve
<1>2. CASE Dispatch(v)
  <2>1. PICK d \in Decisions : orders' = [orders EXCEPT ![of[v]] = Append(@, Order(d))]
    BY <1>2 DEF Dispatch
  <2>2. orders' \in [Runs -> Seq(Orders)]
    BY <2>1, OrderType
  <2>3. QED
    BY <1>2, <2>2 DEF Dispatch
<1>3. CASE CloseEntity(v) \/ Update(v)
  BY <1>3 DEF CloseEntity, Update
<1>4. CASE Commit(v)
  BY <1>4 DEF Commit, Statuses, Contract!Statuses
<1>5. CASE Fail(v)
  BY <1>5, FailureAssumption DEF Fail
<1>6. QED
  BY <1>1, <1>2, <1>3, <1>4, <1>5 DEF ReviewStep

LEMMA NextType == TypeOK /\ [Next]_vars => TypeOK'
<1>1. TypeOK /\ UNCHANGED vars => TypeOK'
  BY DEF TypeOK, vars, runVars, reviewVars
<1>2. QED
  BY <1>1, RunStepType, ReviewStepType DEF Next

\* Whatever happens, the variables keep their types.
THEOREM TypeCorrect == Spec => []TypeOK
BY InitType, NextType, PTL DEF Spec

-----------------------------------------------------------------------------
LEMMA InitInv == Init => IInv
<1>1. Init => \A v \in Reviews : ReviewInv(v)
  BY DEF Init, ReviewInv, Past
<1>2. Init => \A r \in Runs : RunInv(r)
  BY DEF Init, RunInv, Contract!Init
<1>3. QED
  BY <1>1, <1>2, InitType DEF IInv

\* A run in a status that a review looks at is not touched by a step of a run.
LEMMA RunStepInv ==
  ASSUME IInv, NEW r \in Runs, RunStep(r)
  PROVE  IInv'
<1> USE DEF IInv
<1>0. TypeOK'
  BY RunStepType
<1>1. UNCHANGED <<phase, of, verdict, orders, failures>>
  BY DEF RunStep, reviewVars
<1>2. \A s \in Runs : s # r => status'[s] = status[s] /\ sent'[s] = sent[s]
  BY DEF RunStep, TypeOK, Contract!Open, Contract!Command, Contract!Close,
         Contract!Refer, Contract!Abandon, Contract!Move
<1>3. status[r] \in {"unborn", "open"}
  BY DEF RunStep, Contract!Open, Contract!Command, Contract!Close,
         Contract!Refer, Contract!Abandon, Contract!Move
<1>4. orders[r] = <<>>
  BY <1>3 DEF RunInv
<1>5. \A v \in Reviews : ReviewInv(v)'
  BY <1>1, <1>2, <1>3 DEF ReviewInv, Past, TypeOK
<1>6. RunInv(r)'
  <2>1. CASE Contract!Open(r)
    BY <1>1, <1>4, <2>1 DEF Contract!Open, Contract!Move, RunInv, TypeOK
  <2>2. CASE Contract!Refer(r)
    BY <1>1, <1>4, <2>2 DEF Contract!Refer, Contract!Move, RunInv, TypeOK
  <2>3. CASE \/ Contract!Command(r) \/ Contract!Close(r) \/ Contract!Abandon(r)
    BY <1>1, <1>4, <2>3 DEF Contract!Command, Contract!Close, Contract!Abandon,
                            Contract!Move, RunInv, TypeOK
  <2>4. QED
    BY <2>1, <2>2, <2>3 DEF RunStep
<1>7. \A s \in Runs : RunInv(s)'
  BY <1>1, <1>2, <1>6 DEF RunInv
<1>8. QED
  BY <1>0, <1>5, <1>7

LEMMA ReviewStepInv ==
  ASSUME IInv, NEW v \in Reviews, ReviewStep(v)
  PROVE  IInv'
<1> USE DEF IInv
<1>0. TypeOK'
  BY ReviewStepType
<1>1. CASE Reject(v) \/ Approve(v)
  <2>1. status[of[v]] = "manual_review"
    BY <1>1 DEF Reject, Approve, Reviewable
  <2>2. \A u \in Reviews : ReviewInv(u)'
    BY <1>1, <2>1 DEF Reject, Approve, ReviewInv, Past, Goto, runVars, TypeOK
  <2>3. \A r \in Runs : RunInv(r)'
    BY <1>1 DEF Reject, Approve, RunInv, runVars
  <2>4. QED
    BY <1>0, <2>2, <2>3
<1>2. CASE Dispatch(v)
  <2>1. \A u \in Reviews : ReviewInv(u)'
    BY <1>2 DEF Dispatch, ReviewInv, Past, Goto, runVars, TypeOK
  <2>2. \A r \in Runs : RunInv(r)'
    <3>1. status[of[v]] \in {"manual_review", "failed"}
      BY <1>2 DEF Dispatch, ReviewInv, Past
    <3>2. \A r \in Runs : r # of[v] => orders'[r] = orders[r]
      BY <1>2 DEF Dispatch, TypeOK
    <3>3. QED
      BY <1>2, <3>1, <3>2 DEF Dispatch, RunInv, runVars
  <2>3. QED
    BY <1>0, <2>1, <2>2
<1>3. CASE CloseEntity(v) \/ Update(v) \/ Fail(v)
  <2>1. \A u \in Reviews : ReviewInv(u)'
    BY <1>3 DEF CloseEntity, Update, Fail, ReviewInv, Past, Goto, runVars, TypeOK, Terminal
  <2>2. \A r \in Runs : RunInv(r)'
    BY <1>3 DEF CloseEntity, Update, Fail, RunInv, runVars
  <2>3. QED
    BY <1>0, <2>1, <2>2
<1>4. CASE Commit(v)
  <2>1. /\ status[of[v]] \in {"manual_review", "failed"}
        /\ status' = [status EXCEPT ![of[v]] = "failed"]
    BY <1>4 DEF Commit, ReviewInv, Past
  <2>2. \A u \in Reviews : ReviewInv(u)'
    BY <1>4, <2>1 DEF Commit, ReviewInv, Past, Goto, TypeOK
  <2>3. \A r \in Runs : RunInv(r)'
    BY <1>4, <2>1 DEF Commit, RunInv, TypeOK
  <2>4. QED
    BY <1>0, <2>2, <2>3
<1>5. QED
  BY <1>1, <1>2, <1>3, <1>4 DEF ReviewStep

LEMMA Inductive == IInv /\ [Next]_vars => IInv'
<1>1. IInv /\ UNCHANGED vars => IInv'
  BY NextType DEF IInv, ReviewInv, Past, RunInv, vars, runVars, reviewVars
<1>2. QED
  BY <1>1, RunStepInv, ReviewStepInv DEF Next

LEMMA Invariance == Spec => []IInv
BY InitInv, Inductive, PTL DEF Spec

\* A run and the reviews of it never both command the device.
THEOREM OnlyOneMaster == Spec => []OneMaster
<1>1. IInv => OneMaster
  BY DEF IInv, RunInv, OneMaster
<1>2. QED
  BY <1>1, Invariance, PTL

-----------------------------------------------------------------------------
(* The action properties.                                                    *)

\* What a step of a review does to the runs' table: nothing, or a rejection of a
\* run that was referred or is rejected already.
LEMMA ReviewWrites ==
  ASSUME IInv, NEW v \in Reviews, ReviewStep(v)
  PROVE  /\ UNCHANGED <<sent, plan>>
         /\ \/ UNCHANGED status
            \/ /\ status[of[v]] \in {"manual_review", "failed"}
               /\ status' = [status EXCEPT ![of[v]] = "failed"]
<1>1. CASE Commit(v)
  BY <1>1 DEF Commit, IInv, ReviewInv, Past
<1>2. CASE ~Commit(v)
  BY <1>2 DEF ReviewStep, Reject, Approve, Dispatch, CloseEntity, Update, Fail, runVars
<1>3. QED
  BY <1>1, <1>2

\* What a step of a run does: nothing to a run that has ended.
LEMMA RunWrites ==
  ASSUME IInv, NEW r \in Runs, RunStep(r)
  PROVE  /\ status[r] \in {"unborn", "open"}
         /\ \A s \in Runs : s # r => status'[s] = status[s] /\ sent'[s] = sent[s]
         /\ UNCHANGED <<phase, of, orders>>
BY DEF RunStep, reviewVars, IInv, TypeOK, Contract!Open, Contract!Command,
       Contract!Close, Contract!Refer, Contract!Abandon, Contract!Move

LEMMA StepFinal ==
  IInv /\ [Next]_vars =>
    \A r \in Runs : status[r] \in {"closed", "failed", "gone"} => status'[r] = status[r]
<1>1. ASSUME IInv, NEW r \in Runs, status[r] \in {"closed", "failed", "gone"},
             NEW v \in Reviews, ReviewStep(v)
      PROVE  status'[r] = status[r]
  BY <1>1, ReviewWrites DEF IInv, TypeOK
<1>2. ASSUME IInv, NEW r \in Runs, status[r] \in {"closed", "failed", "gone"},
             NEW s \in Runs, RunStep(s)
      PROVE  status'[r] = status[r]
  BY <1>2, RunWrites
<1>3. QED
  BY <1>1, <1>2 DEF Next, vars, runVars

\* Closed, rejected and abandoned runs stay so, whatever races.
THEOREM FinalStatesHold == Spec => FinalStates
<1>1. IInv /\ [Next]_vars =>
        [\A r \in Runs : status[r] \in {"closed", "failed", "gone"} =>
                            status'[r] = status[r]]_vars
  BY StepFinal
<1>2. QED
  BY <1>1, Invariance, PTL DEF Spec, FinalStates

Silent(r) == Settled(r)' /\ sent'[r] = sent[r] /\ orders'[r] = orders[r]

LEMMA StepSilent ==
  ASSUME IInv, [Next]_vars, NEW r \in Runs, Settled(r)
  PROVE  Silent(r)
<1> DEFINE Ended == {"closed", "failed", "gone"}
<1>0. /\ status[r] \in Ended
      /\ status'[r] \in Ended
      /\ \A v \in Reviews : of[v] = r => phase[v] \in {"idle", "done"}
  BY StepFinal DEF Settled, UnderReview
<1>1. CASE UNCHANGED vars
  BY <1>0, <1>1 DEF Silent, Settled, UnderReview, vars, runVars, reviewVars
<1>2. ASSUME NEW s \in Runs, RunStep(s)
      PROVE  Silent(r)
  <2>1. UNCHANGED <<phase, of, orders>> /\ sent'[r] = sent[r]
    BY <1>0, <1>2, RunWrites
  <2>2. QED
    BY <1>0, <2>1 DEF Silent, Settled, UnderReview
<1>3. ASSUME NEW v \in Reviews, ReviewStep(v)
      PROVE  Silent(r)
  <2>0. UNCHANGED <<sent, of>>
    BY <1>3, ReviewWrites
       DEF ReviewStep, Reject, Approve, Dispatch, CloseEntity, Update, Commit, Fail
  <2>1. CASE of[v] # r
    <3>1. orders'[r] = orders[r]
      BY <1>3, <2>1 DEF ReviewStep, Reject, Approve, Dispatch, CloseEntity, Update,
                        Commit, Fail, IInv, TypeOK
    <3>2. \A u \in Reviews : u # v => phase'[u] = phase[u]
      BY <1>3 DEF ReviewStep, Reject, Approve, Dispatch, CloseEntity, Update,
                  Commit, Fail, Goto, IInv, TypeOK
    <3>3. QED
      BY <1>0, <2>0, <2>1, <3>1, <3>2 DEF Silent, Settled, UnderReview
  <2>2. CASE of[v] = r
    <3>1. phase[v] \in {"idle", "done"} /\ status[r] # "manual_review"
      BY <1>0, <2>2
    <3>2. QED
      BY <1>3, <2>2, <3>1 DEF ReviewStep, Reject, Approve, Reviewable, Dispatch,
                              CloseEntity, Update, Commit, Fail
  <2>3. QED
    BY <2>1, <2>2
<1>4. QED
  BY <1>1, <1>2, <1>3 DEF Next

\* Once a run has ended and nobody reviews it, the device hears of it no more.
THEOREM SettledRunsAreSilent == Spec => SettledIsSilent
<1>1. IInv /\ [Next]_vars =>
        [\A r \in Runs : Settled(r) => /\ Settled(r)'
                                       /\ sent'[r] = sent[r]
                                       /\ orders'[r] = orders[r]]_vars
  BY StepSilent DEF Silent
<1>2. QED
  BY <1>1, Invariance, PTL DEF Spec, SettledIsSilent

-----------------------------------------------------------------------------
(* The refinement.                                                           *)

Seen == [r \in Runs |-> IF status[r] = "failed" THEN "manual_review" ELSE status[r]]

\* A step of a run is a step of its contract, unless the run ended.
LEMMA RunRefines ==
  ASSUME IInv, NEW r \in Runs, RunStep(r)
  PROVE  FromRun!Next
<1>1. ASSUME NEW from \in {"unborn", "open"}, NEW to \in Contract!Statuses,
             Contract!Move(r, from, to)
      PROVE  FromRun!Move(r, from, to)
  <2>1. status[r] = from /\ status' = [status EXCEPT ![r] = to]
    BY <1>1 DEF Contract!Move
  <2>2. from # "failed" /\ to # "failed"
    BY DEF Contract!Statuses
  <2>3. Seen[r] = from
    BY <2>1, <2>2 DEF Seen
  <2>4. Seen' = [Seen EXCEPT ![r] = to]
    BY <2>1, <2>2 DEF Seen, IInv, TypeOK
  <2>5. QED
    BY <2>3, <2>4 DEF Seen, FromRun!Move
<1>2. CASE Contract!Open(r)
  BY <1>1, <1>2 DEF Contract!Statuses, Contract!Open, FromRun!Open, FromRun!Next
<1>3. CASE Contract!Command(r)
  <2>1. status[r] = "open" /\ UNCHANGED <<status, plan>>
    BY <1>3 DEF Contract!Command
  <2>2. FromRun!Command(r)
    BY <1>3, <2>1 DEF Contract!Command, FromRun!Command
  <2>3. QED
    BY <2>2 DEF FromRun!Next
<1>4. CASE Contract!Close(r)
  BY <1>1, <1>4 DEF Contract!Statuses, Contract!Close, FromRun!Close, FromRun!Next, Contract!Effect,
                    FromRun!Effect
<1>5. CASE Contract!Refer(r)
  BY <1>1, <1>5 DEF Contract!Statuses, Contract!Refer, FromRun!Refer, FromRun!Next
<1>6. CASE Contract!Abandon(r)
  BY <1>1, <1>6 DEF Contract!Statuses, Contract!Abandon, FromRun!Abandon, FromRun!Next
<1>7. QED
  BY <1>2, <1>3, <1>4, <1>5, <1>6 DEF RunStep

\* A step of a review is no step of it.
LEMMA ReviewStutters ==
  ASSUME IInv, NEW v \in Reviews, ReviewStep(v)
  PROVE  UNCHANGED FromRun!vars
<1>1. Seen' = Seen
  BY ReviewWrites DEF Seen, IInv, TypeOK
<1>2. QED
  BY <1>1, ReviewWrites DEF Seen, FromRun!vars

LEMMA StepRefines == IInv /\ [Next]_vars => [FromRun!Next]_(FromRun!vars)
<1>1. UNCHANGED vars => UNCHANGED FromRun!vars
  BY DEF vars, runVars, FromRun!vars
<1>2. QED
  BY <1>1, RunRefines, ReviewStutters DEF Next

\* Runs under review keep their contract: for them a review is no step at all.
THEOREM ReviewsRefineContract == Spec => ReviewsAddNothing
<1>1. Init => FromRun!Init
  BY DEF Init, Contract!Init, FromRun!Init
<1>2. QED
  BY <1>1, StepRefines, Invariance, PTL DEF Spec, ReviewsAddNothing, FromRun!Spec
==============================================================================
