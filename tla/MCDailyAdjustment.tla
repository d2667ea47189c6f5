-------------------------- MODULE MCDailyAdjustment --------------------------
(* Instances of DailyAdjustment for TLC.  The date has a seeded row of 15    *)
(* minutes; the model keeps, lengthens, skips or is unsure.                  *)
EXTENDS DailyAdjustment

OneSeed == <<Row(1, 15, Seed)>>
TwoSeeds == <<Row(1, 15, Seed), Row(2, 10, Seed)>>
\* What two simultaneous POSTs can leave behind (see SlotUnique), before a slot
\* in order.
DoubledAndOne == <<Row(1, 15, Operator), Row(1, 20, Operator), Row(2, 10, Seed)>>
Template == {Row(1, 15, Seed)}
NoTemplate == {}

Reply(action, dur, conf) ==
  [action |-> action, dur |-> dur, conf |-> conf, policyOk |-> TRUE, example |-> FALSE]
Longer == Reply("increase", NoDuration, 90)
Longest == Reply("increase", 60, 90)
Skip == Reply("skip", NoDuration, 90)
Unsure == Reply("keep", 15, 50)

AllReplies == {Longer, Skip, Unsure}
Extremes == {Longest, Skip, Unsure}
Waterings == {Longest}
SkipOrWater == {Longer, Skip}

Perms == Permutations(Workers)
==============================================================================
