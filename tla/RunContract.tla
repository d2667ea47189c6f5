----------------------------- MODULE RunContract -----------------------------
(***************************************************************************)
(* What a daily adjustment run promises, with the queue, the database and  *)
(* the workers taken away.  A run is born, sends the device at most one    *)
(* command, and ends in one of three ways: closed, after its command and   *)
(* with the command's row appearing in the plan in the same step; referred *)
(* to manual review, with no command and no row; or gone, leaving no row   *)
(* (and perhaps, which is the weak point, a command that was sent).        *)
(* DailyAdjustment implements it, see ContractHolds there.                 *)
(***************************************************************************)
EXTENDS Naturals, Sequences

CONSTANTS
  Runs,         \* names of the runs there may be
  Commands,     \* records with an action, a dur and a slot
  NoDuration    \* the dur of a command that has none

VARIABLES
  status,   \* status[r]: where run r stands
  sent,     \* sent[r]: commands sent to the device for run r
  plan      \* plan[r]: [slot, dur] of the rows run r put in the schedule

vars == <<status, sent, plan>>

Statuses == {"unborn", "open", "closed", "manual_review", "gone"}

\* The rows a command stands for.
Effect(c) ==
  IF c.action = "skip" \/ c.dur \in {0, NoDuration}
  THEN {}
  ELSE {[slot |-> c.slot, dur |-> c.dur]}

Init ==
  /\ status = [r \in Runs |-> "unborn"]
  /\ sent = [r \in Runs |-> <<>>]
  /\ plan = [r \in Runs |-> {}]

Move(r, from, to) ==
  /\ status[r] = from
  /\ status' = [status EXCEPT ![r] = to]

Open(r) == Move(r, "unborn", "open") /\ UNCHANGED <<sent, plan>>

Command(r) ==
  /\ status[r] = "open"
  /\ sent[r] = <<>>
  /\ Len(sent'[r]) = 1 /\ sent'[r][1] \in Commands
  /\ sent' = [sent EXCEPT ![r] = sent'[r]]
  /\ UNCHANGED <<status, plan>>

Close(r) ==
  /\ Move(r, "open", "closed")
  /\ sent[r] # <<>>
  /\ plan' = [plan EXCEPT ![r] = Effect(Head(sent[r]))]
  /\ UNCHANGED sent

Refer(r) ==
  /\ Move(r, "open", "manual_review")
  /\ sent[r] = <<>>
  /\ UNCHANGED <<sent, plan>>

Abandon(r) == Move(r, "open", "gone") /\ UNCHANGED <<sent, plan>>

Next == \E r \in Runs :
          Open(r) \/ Command(r) \/ Close(r) \/ Refer(r) \/ Abandon(r)

Spec == Init /\ [][Next]_vars
==============================================================================
