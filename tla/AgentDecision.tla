---------------------------- MODULE AgentDecision ----------------------------
(***************************************************************************)
(* What stands between the language model and the rule engine: the checks  *)
(* of the Recommendation value object (domain/value_objects/               *)
(* recommendation.py) and the coercion of incoherent answers               *)
(* (LangChainAgentAdapter._coerce_recommendation).                         *)
(*                                                                         *)
(* A reply is the parsed JSON of the model: a recommendation record (see   *)
(* RuleEngine) with one more field                                         *)
(*   example   the rationale repeats the worked example of the prompt.     *)
(***************************************************************************)
EXTENDS RuleEngine

ParsedReplies ==
  [action : Actions, dur : Int \union {NoDuration}, conf : Int,
   policyOk : BOOLEAN, example : BOOLEAN]

\* Mutant of Acceptable: the sign of the duration is not looked at.
AcceptableAnySign(reply) == reply.conf \in 0..100

\* Recommendation.__post_init__ accepts the reply; otherwise it raises.
Acceptable(reply) ==
  /\ reply.conf \in 0..100
  /\ reply.action # "skip" /\ reply.dur # NoDuration => reply.dur >= 0

\* Baselines below 240 minutes whose product with the float 1.1 exceeds a tie
\* (x.5) that exact arithmetic would round to the even neighbour.
FloatTies == {55, 95, 115, 175, 195, 215}

TenPercentDown(b) == Round100(90 * b)
TenPercentUp(b) == IF b \in FloatTies THEN (11 * b + 5) \div 10
                                      ELSE Round100(110 * b)

\* The copied worked example of the prompt: reduce to 32 minutes at 0.86.
CopiedExample(reply) ==
  reply.action = "reduce" /\ reply.dur = 32 /\ reply.conf = 86 /\ reply.example

\* Mutant of CoherentDuration: a keep retains the duration the model gave.
CoherentDurationKeepAsGiven(action, dur, b) ==
  CASE action = "skip"     -> NoDuration
    [] action = "keep"     -> IF dur = NoDuration THEN b ELSE dur
    [] action = "reduce"   -> IF dur = NoDuration THEN TenPercentDown(b) ELSE Lesser(dur, b)
    [] action = "increase" -> IF dur = NoDuration THEN TenPercentUp(b) ELSE Greater(dur, b)

\* Mutant of CoherentDuration: a reduce is not held under the baseline.
CoherentDurationReduceAsGiven(action, dur, b) ==
  CASE action = "skip"     -> NoDuration
    [] action = "keep"     -> b
    [] action = "reduce"   -> IF dur = NoDuration THEN TenPercentDown(b) ELSE dur
    [] action = "increase" -> IF dur = NoDuration THEN TenPercentUp(b) ELSE Greater(dur, b)

\* The duration that is coherent with the action, given baseline b > 0.
CoherentDuration(action, dur, b) ==
  CASE action = "skip"     -> NoDuration
    [] action = "keep"     -> b
    [] action = "reduce"   -> Lesser(IF dur = NoDuration THEN TenPercentDown(b)
                                                         ELSE dur, b)
    [] action = "increase" -> Greater(IF dur = NoDuration THEN TenPercentUp(b)
                                                          ELSE dur, b)

\* Mutant of Capped: the coerced answer is given the cap as its confidence.
CappedSet(conf, cap) == cap

\* A coerced answer keeps the model's confidence, capped.
Capped(conf, cap) == Lesser(conf, cap)

\* _coerce_recommendation; dry is dry_conditions of the weather context.
Coerce(reply, b, dry) ==
  LET as(action, dur, conf) == [action |-> action, dur |-> dur, conf |-> conf,
                                policyOk |-> reply.policyOk]
  IN  IF b <= 0
      THEN as("keep", 0, Capped(reply.conf, 75))
      ELSE IF dry /\ CopiedExample(reply)
      THEN as("keep", b, Capped(reply.conf, 70))
      ELSE as(reply.action, CoherentDuration(reply.action, reply.dur, b), reply.conf)

\* _HeuristicAgentAdapter: keep the baseline, with confidence 0.95.
Heuristic(b) ==
  [action |-> "keep", dur |-> b, conf |-> 95, policyOk |-> TRUE]
=============================================================================
