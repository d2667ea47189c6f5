---------------------------- MODULE ManualReview ----------------------------
(***************************************************************************)
(* Operators reviewing the runs that the gate referred to them:            *)
(* ProcessManualReviewUseCase.execute (application/use_cases/              *)
(* process_manual_review.py) over the run repository and the device, next  *)
(* to the runs themselves, which appear by their contract (RunContract).   *)
(*                                                                         *)
(* A review is one call of execute with one decision, in a session of its  *)
(* own.  It holds the run it read at the start as an entity, and writes    *)
(* through update_state, which names the row by its id alone: what the row *)
(* says by then is not looked at.  No caller exists yet (the API routes    *)
(* and the script are stubs); the session is taken to be used as the       *)
(* schedule API uses its own: commit on return, rollback on an exception.  *)
(***************************************************************************)
EXTENDS Naturals, Sequences

CONSTANTS
  Runs,               \* names of the runs there may be
  Reviews,            \* calls of execute; each is made once
  Commands,           \* what a run may send: records with action, dur and slot
  Decisions,          \* [action, dur] an operator may approve with
  NoAction,           \* override_action is None
  DefaultSlot,        \* 06:00, the start time of every approved command
  NoDuration,         \* final_duration_minutes is None
  MaxFailures         \* bound: reviews that an exception or a crash ends

ASSUME FailureAssumption == MaxFailures \in Nat

Actions == {"keep", "reduce", "skip", "increase"}
ASSUME DecisionAssumption ==
  Decisions \subseteq [action : Actions \union {NoAction}, dur : Nat \union {NoDuration}]

VARIABLES
  status,   \* status[r]: committed state of run r, as RunContract names it,
            \*   or "failed"
  sent,     \* sent[r]: commands run r sent to the device itself
  plan,     \* plan[r]: the rows run r put in the schedule
  phase,    \* phase[v]: where review v is
  of,       \* of[v]: the run it reviews
  verdict,  \* verdict[v]: the state it means to write
  orders,   \* orders[r]: commands sent to the device by reviews of run r
  failures  \* reviews that went wrong so far

runVars == <<status, sent, plan>>
reviewVars == <<phase, of, verdict>>
vars == <<runVars, reviewVars, orders, failures>>

Contract == INSTANCE RunContract

Statuses == Contract!Statuses \union {"failed"}

Orders == [action : Actions, dur : Nat \union {NoDuration}, slot : {DefaultSlot}]

ReviewPhases == {"idle", "dispatching", "closing", "updating", "committing", "done"}

Rows == UNION {Contract!Effect(c) : c \in Commands}

TypeOK ==
  /\ status \in [Runs -> Statuses]
  /\ sent \in [Runs -> Seq(Commands)]
  /\ plan \in [Runs -> SUBSET Rows]
  /\ phase \in [Reviews -> ReviewPhases]
  /\ of \in [Reviews -> Runs]
  /\ verdict \in [Reviews -> {"closed", "failed"}]
  /\ orders \in [Runs -> Seq(Orders)]
  /\ failures \in 0..MaxFailures

Init ==
  /\ Contract!Init
  /\ phase = [v \in Reviews |-> "idle"]
  /\ of \in [Reviews -> Runs]
  /\ verdict = [v \in Reviews |-> "failed"]
  /\ orders = [r \in Runs |-> <<>>]
  /\ failures = 0

-----------------------------------------------------------------------------
(* The runs, each by its contract.                                           *)

RunStep(r) ==
  /\ \/ Contract!Open(r)
     \/ \E c \in Commands :
          sent' = [sent EXCEPT ![r] = <<c>>] /\ Contract!Command(r)
     \/ Contract!Close(r)
     \/ Contract!Refer(r)
     \/ Contract!Abandon(r)
  /\ UNCHANGED <<reviewVars, orders, failures>>

-----------------------------------------------------------------------------
(* A review.                                                                 *)

\* Mutant of Terminal: a run in review may still go on.
TerminalExceptReview == {"closed", "failed"}

\* RunState.is_terminal.
Terminal == {"closed", "failed", "manual_review"}

Goto(v, there) == phase' = [phase EXCEPT ![v] = there]

\* Mutant of Reviewable: whatever run there is may be reviewed.
ReviewableAny(r) == status[r] \in Terminal

\* list_pending_reviews, and the check of execute: any other run, and one that
\* is not committed, raises.
Reviewable(r) == status[r] = "manual_review"

Reject(v) ==
  /\ phase[v] = "idle"
  /\ Reviewable(of[v])
  /\ verdict' = [verdict EXCEPT ![v] = "failed"]
  /\ Goto(v, "updating")
  /\ UNCHANGED <<runVars, of, orders, failures>>

Approve(v) ==
  /\ phase[v] = "idle"
  /\ Reviewable(of[v])
  /\ verdict' = [verdict EXCEPT ![v] = "closed"]
  /\ Goto(v, "dispatching")
  /\ UNCHANGED <<runVars, of, orders, failures>>

\* Mutant of Order: an absent action is passed on.
OrderAsGiven(d) == [action |-> d.action, dur |-> d.dur, slot |-> DefaultSlot]

\* The command of an approval: the operator's action or KEEP, the operator's
\* duration or None, and a start time that is not looked up.
Order(d) ==
  [action |-> IF d.action = NoAction THEN "keep" ELSE d.action,
   dur |-> d.dur, slot |-> DefaultSlot]

\* The device obeys at once; the receipt is not looked at.
Dispatch(v) ==
  /\ phase[v] = "dispatching"
  /\ \E d \in Decisions : orders' = [orders EXCEPT ![of[v]] = Append(@, Order(d))]
  /\ Goto(v, "closing")
  /\ UNCHANGED <<runVars, of, verdict, failures>>

\* run.close() on the entity that was read: transition_to raises when its state
\* is terminal, and the session rolls back with nothing to undo.
CloseEntity(v) ==
  /\ phase[v] = "closing"
  /\ Goto(v, IF "manual_review" \in Terminal THEN "done" ELSE "updating")
  /\ UNCHANGED <<runVars, of, verdict, orders, failures>>

\* update_state: UPDATE ... WHERE id, which waits for whoever updates the row.
Update(v) ==
  /\ phase[v] = "updating"
  /\ \A u \in Reviews \ {v} : phase[u] = "committing" => of[u] # of[v]
  /\ Goto(v, "committing")
  /\ UNCHANGED <<runVars, of, verdict, orders, failures>>

Commit(v) ==
  /\ phase[v] = "committing"
  /\ status' = [status EXCEPT ![of[v]] = verdict[v]]
  /\ Goto(v, "done")
  /\ UNCHANGED <<sent, plan, of, verdict, orders, failures>>

\* The database or the device raises, or the process dies, before the commit.
Fail(v) ==
  /\ phase[v] \notin {"idle", "done"}
  /\ failures < MaxFailures
  /\ failures' = failures + 1
  /\ Goto(v, "done")
  /\ UNCHANGED <<runVars, of, verdict, orders>>

ReviewStep(v) ==
  \/ Reject(v) \/ Approve(v) \/ Dispatch(v) \/ CloseEntity(v)
  \/ Update(v) \/ Commit(v) \/ Fail(v)

Next ==
  \/ \E r \in Runs : RunStep(r)
  \/ \E v \in Reviews : ReviewStep(v)

Spec == Init /\ [][Next]_vars

-----------------------------------------------------------------------------
(* What holds.                                                               *)

\* A final state is final: no review changes a run that is closed or gone, and
\* when two reviews of a run race, one rejecting while the other has approved,
\* the rejection is not overwritten (adjustment_run.py, transition_to).
FinalStates ==
  [][\A r \in Runs :
       status[r] \in {"closed", "failed", "gone"} => status'[r] = status[r]]_vars

\* A review has got past the check for run r and may still act on it.
UnderReview(r) == \E v \in Reviews : of[v] = r /\ phase[v] \notin {"idle", "done"}

Settled(r) == status[r] \in {"closed", "failed", "gone"} /\ ~UnderReview(r)

\* Once a run has ended and no review of it is under way, the device hears of
\* it no more, neither from the run nor from a review.  A rejection alone is
\* not enough: a review that read the run before it still sends its command.
SettledIsSilent ==
  [][\A r \in Runs :
       Settled(r) => /\ Settled(r)'
                     /\ sent'[r] = sent[r]
                     /\ orders'[r] = orders[r]]_vars

\* Commands of reviews are for runs that sent none themselves: run and reviewers
\* never both command the device for one run (process_manual_review.py, the
\* check on manual_review, and the gate, which refers before it dispatches).
OneMaster == \A r \in Runs : sent[r] = <<>> \/ orders[r] = <<>>

\* To its contract, a run under review is a run referred to review: reviews add
\* no row to the plan, close nothing and reopen nothing.
FromRun == INSTANCE RunContract WITH
  status <- [r \in Runs |-> IF status[r] = "failed" THEN "manual_review" ELSE status[r]]
ReviewsAddNothing == FromRun!Spec

-----------------------------------------------------------------------------
(* What the code says and does not do.                                       *)

\* The module's first line: a review approves or rejects a queued run.  So, when
\* nothing fails, a run that an approval has commanded leaves the queue once
\* nobody reviews it.
ApprovalCloses ==
  \A r \in Runs : orders[r] # <<>> /\ ~UnderReview(r) => ~Reviewable(r)
==============================================================================
