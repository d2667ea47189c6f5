-------------------------- MODULE DecisionPipeline --------------------------
(***************************************************************************)
(* One decision of RunDailyAdjustmentUseCase.execute, from the weather rows*)
(* and the agent's reply to the confidence gate, as a state machine over   *)
(* every input: the part of a run that touches nothing but its own values. *)
(* DailyAdjustment composes the same operators with the database, the      *)
(* queue and the device.                                                   *)
(***************************************************************************)
EXTENDS AgentDecision, WeatherContext

CONSTANTS
  Replies,               \* parsed replies of the language model
  Weathers,              \* hourly rows of a provider or of the history
  Times,                 \* times of a run, in half hours
  Baselines,             \* baseline_duration_minutes; 0 when nothing is scheduled
  ConfidenceThreshold    \* in hundredths

ASSUME BaselinesAssumption == Baselines \subseteq Nat
ASSUME RepliesAssumption == Replies \subseteq ParsedReplies
ASSUME ThresholdAssumption == ConfidenceThreshold \in 0..100
ASSUME TimesAssumption == Times \subseteq Int

\* What a provider's hour may say: no rain is negative, though nothing checks it.
Readings == [rain : Nat \union {Missing}, prob : Int \union {Missing}]
ASSUME WeathersAssumption ==
  \A hourly \in Weathers : /\ DOMAIN hourly \subseteq Int
                           /\ IsFiniteSet(DOMAIN hourly)
                           /\ \A h \in DOMAIN hourly : hourly[h] \in Readings

VARIABLES
  stage,      \* "asked", then "refused" or "recommended", "ruled", "auto" or "review"
  reply,      \* what the model answered
  baseline,   \* duration of the first slot read for the date
  port,       \* where the weather context comes from
  rows,       \* the hourly rows there are
  now,        \* request.as_of
  blackout,   \* request.maintenance_blackout
  rec,        \* the recommendation handed to the rule engine
  result      \* the rule engine's result

inputs == <<reply, baseline, port, rows, now, blackout>>
vars == <<stage, inputs, rec, result>>

Stages == {"asked", "refused", "recommended", "ruled", "auto", "review"}

TypeOK ==
  /\ stage \in Stages
  /\ reply \in Replies
  /\ baseline \in Baselines
  /\ port \in WeatherPorts
  /\ rows \in Weathers
  /\ now \in Times
  /\ blackout \in BOOLEAN
  /\ rec \in RecommendationValues
  /\ result \in RuleResults

Init ==
  /\ stage = "asked"
  /\ reply \in Replies
  /\ baseline \in Baselines
  /\ port \in WeatherPorts
  /\ rows \in Weathers
  /\ now \in Times
  /\ blackout \in BOOLEAN
  /\ rec = Heuristic(0)
  /\ result = [action |-> "keep", dur |-> 0, mismatch |-> FALSE]

IsDry == Dry(ContextFrom(port, rows, now))

\* The reply does not build a Recommendation: ValueError, and the run fails.
Refuse ==
  /\ stage = "asked"
  /\ ~Acceptable(reply)
  /\ stage' = "refused"
  /\ UNCHANGED <<inputs, rec, result>>

\* LangChainAgentAdapter.recommend: parse, check, coerce.
Recommend ==
  /\ stage = "asked"
  /\ Acceptable(reply)
  /\ rec' = Coerce(reply, baseline, IsDry)
  /\ stage' = "recommended"
  /\ UNCHANGED <<inputs, result>>

ApplyRules ==
  /\ stage = "recommended"
  /\ result' = Apply(rec, baseline, blackout)
  /\ stage' = "ruled"
  /\ UNCHANGED <<inputs, rec>>

NeedsReview(r, recommendation) ==
  r.mismatch \/ recommendation.conf < ConfidenceThreshold

Gate ==
  /\ stage = "ruled"
  /\ stage' = IF NeedsReview(result, rec) THEN "review" ELSE "auto"
  /\ UNCHANGED <<inputs, rec, result>>

Done == stage \in {"refused", "auto", "review"} /\ UNCHANGED vars

Next == Refuse \/ Recommend \/ ApplyRules \/ Gate \/ Done

Spec == Init /\ [][Next]_vars

-----------------------------------------------------------------------------
Watered == stage = "auto" /\ result.action # "skip"

BaselineFits == baseline \in DeviceMin..DeviceMax

\* |dur - b| is at most MaxAdjustPct percent of b, give or take the half
\* minute that rounding to whole minutes costs.
WithinPct(dur, b) ==
  /\ 100 * (dur - b) <= MaxAdjustPct * b + 50
  /\ 100 * (b - dur) <= MaxAdjustPct * b + 50

\* What is dispatched without a human always has a duration, within the
\* device's limits, and within the adjustment percentage of a baseline the
\* device can run, whatever the model answered: the coercion, rule 4 and
\* rule 5 together leave no way round (a keep, for one, is only bounded
\* because the coercion resets its duration).
AutoWithinPolicy ==
  Watered => /\ result.dur \in DeviceMin..DeviceMax
             /\ BaselineFits => WithinPct(result.dur, baseline)

\* Nothing is dispatched without a human on a reply whose own confidence was
\* below the threshold, and coercions never raise a confidence over it.
AutoOnlyIfConfident ==
  stage = "auto" => reply.conf >= ConfidenceThreshold

\* The direction of the command is the direction of the minutes: a reduce
\* never waters longer than the baseline and an increase never shorter.
DirectionKept ==
  Watered /\ BaselineFits =>
    /\ result.action = "reduce" => result.dur <= baseline
    /\ result.action = "increase" => result.dur >= baseline
    /\ result.action = "keep" => result.dur = baseline

\* A reply made under another policy version never waters without a human.
\* (docs/PROMPTS_AND_RULES.md, hard rule 5, sends every such reply to review;
\* during a blackout rule 1 closes it as a skip.)
MismatchNeverWaters == Watered => reply.policyOk

RainAt(h) == OrZero(rows[h].rain)

\* Two millimetres fall in an hour of the window or in two of them.
Wet(window) ==
  \E h1, h2 \in window : RainAt(h1) + (IF h1 = h2 THEN 0 ELSE RainAt(h2)) >= 200

\* The model's answer is overruled as a copied example only in dry weather: not
\* when rain fell in the 24 hours before or is expected in the 24 hours after,
\* the hours at their ends and the current one included, on the hour or not.
RainIsSeen ==
  /\ stage \notin {"asked", "refused"}
  /\ baseline > 0
  /\ port # "synthetic"
  /\ \/ Wet({h \in DOMAIN rows : h \in (now - Day)..now})
     \/ Wet({h \in DOMAIN rows : h \in (now + 1)..(now + Day)})
  => rec.action = reply.action

\* The replay of a day sees the rain a live run would have seen on the same
\* rows, hour for hour, though it is computed by other code; it is at least as
\* sure of rain to come, and exactly as sure when the rows say how sure to be.
ReplayAgrees ==
  LET live == LiveContext(rows, now)
      replay == ReplayContext(rows, now)
  IN  /\ replay.last = live.last
      /\ replay.next = live.next
      /\ replay.prob >= live.prob
      /\ (\A h \in DOMAIN rows : rows[h].prob # Missing) => replay.prob = live.prob
=============================================================================
