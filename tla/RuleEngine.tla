----------------------------- MODULE RuleEngine -----------------------------
(***************************************************************************)
(* The deterministic rule engine (domain/services/rule_engine.py): the     *)
(* hard policy constraints put on an agent recommendation between the      *)
(* agent's answer and the confidence gate.                                 *)
(*                                                                         *)
(* A recommendation is a record                                            *)
(*   action    one of Actions                                              *)
(*   dur       minutes, or NoDuration for Python's None                    *)
(*   conf      confidence_score, in hundredths                             *)
(*   policyOk  recommendation.policy_version = the expected version        *)
(* and the result of the engine is a record                                *)
(*   action, dur  final_action and final_duration_minutes                  *)
(*   mismatch     some effect has rule_id policy_mismatch_manual_review    *)
(* The other RuleEffect fields are text for the trace and are left out.    *)
(***************************************************************************)
EXTENDS Integers

CONSTANTS
  DeviceMin,      \* device_min_minutes
  DeviceMax,      \* device_max_minutes
  MaxAdjustPct,   \* max_auto_adjustment_pct, a whole number of percent
  NoDuration      \* final_duration_minutes is None

ASSUME DeviceAssumption == /\ DeviceMin \in Nat
                           /\ DeviceMax \in Nat
                           /\ DeviceMin <= DeviceMax
ASSUME PctAssumption == MaxAdjustPct \in 0..100
ASSUME NoDurationAssumption == NoDuration \notin Int

Actions == {"keep", "reduce", "skip", "increase"}

Durations == Nat \union {NoDuration}

RecommendationValues ==
  [action : Actions, dur : Durations, conf : 0..100, policyOk : BOOLEAN]

RuleResults == [action : Actions, dur : Durations, mismatch : BOOLEAN]

Lesser(a, b) == IF a <= b THEN a ELSE b
Greater(a, b) == IF a >= b THEN a ELSE b

\* Python's round(n / 100): to the nearest integer, a tie to the even one.
Round100(n) ==
  LET q == n \div 100
      r == n % 100
  IN  IF r < 50 \/ (r = 50 /\ q % 2 = 0) THEN q ELSE q + 1

\* Rule 4's window, with b a baseline of at least 0 minutes.
MinAllowed(b) == Greater(DeviceMin, Round100(b * (100 - MaxAdjustPct)))
MaxAllowed(b) == Lesser(DeviceMax, Round100(b * (100 + MaxAdjustPct)))

\* Mutant of ClampAdjustment: only a reduction is held in the window.
ClampReductionOnly(action, dur, b) ==
  IF action = "reduce" /\ dur # NoDuration
  THEN Greater(MinAllowed(b), Lesser(dur, MaxAllowed(b)))
  ELSE dur

\* Rule 4: a reduce or increase with a duration stays in the window.  When
\* the window is empty the lower end wins, as in max(min_allowed, min(...)).
ClampAdjustment(action, dur, b) ==
  IF action \in {"reduce", "increase"} /\ dur # NoDuration
  THEN Greater(MinAllowed(b), Lesser(dur, MaxAllowed(b)))
  ELSE dur

\* Rule 5: whatever the action, a duration stays within the device's limits.
ClampDevice(dur) ==
  IF dur = NoDuration THEN NoDuration
  ELSE Greater(DeviceMin, Lesser(dur, DeviceMax))

\* Mutant of Apply: the policy version is not looked at.
ApplyUnversioned(rec, b, blackout) ==
  IF blackout
  THEN [action |-> "skip", dur |-> NoDuration, mismatch |-> FALSE]
  ELSE [action   |-> rec.action,
        dur      |-> ClampDevice(ClampAdjustment(rec.action, rec.dur, b)),
        mismatch |-> FALSE]

\* RuleEngine.apply: the blackout returns before the policy version is looked
\* at, and a version mismatch returns before anything is clamped.
Apply(rec, b, blackout) ==
  IF blackout
  THEN [action |-> "skip", dur |-> NoDuration, mismatch |-> FALSE]
  ELSE IF ~rec.policyOk
  THEN [action |-> rec.action, dur |-> rec.dur, mismatch |-> TRUE]
  ELSE [action   |-> rec.action,
        dur      |-> ClampDevice(ClampAdjustment(rec.action, rec.dur, b)),
        mismatch |-> FALSE]
=============================================================================
