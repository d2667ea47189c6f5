------------------------- MODULE AgentDecisionProofs -------------------------
(***************************************************************************)
(* Lemmas about the rule engine and the coercion of replies, for every     *)
(* device, percentage, baseline and reply.  The proofs about the modules   *)
(* built from these operators cite them.                                   *)
(***************************************************************************)
EXTENDS AgentDecision, FiniteSetTheorems, WellFoundedInduction, TLAPS

-----------------------------------------------------------------------------
(* Rounding.                                                                 *)

\* round(n / 100) is at most half a minute from n / 100, and not negative when
\* n is not (rule_engine.py, rule 4).
LEMMA Round100Nearest ==
  ASSUME NEW n \in Int
  PROVE  /\ Round100(n) \in Int
         /\ 100 * Round100(n) <= n + 50
         /\ 100 * Round100(n) >= n - 50
         /\ n >= 0 => Round100(n) >= 0
<1> DEFINE q == n \div 100
           r == n % 100
<1>1. q \in Int /\ r \in 0..99 /\ n = 100 * q + r
  OBVIOUS
<1>2. Round100(n) = IF r < 50 \/ (r = 50 /\ q % 2 = 0) THEN q ELSE q + 1
  BY DEF Round100
<1>3. CASE r < 50 \/ (r = 50 /\ q % 2 = 0)
  <2>1. Round100(n) = q /\ r <= 50
    BY <1>1, <1>2, <1>3
  <2> QED
    BY <1>1, <2>1
<1>4. CASE ~(r < 50 \/ (r = 50 /\ q % 2 = 0))
  <2>1. Round100(n) = q + 1 /\ r >= 50
    BY <1>1, <1>2, <1>4
  <2> QED
    BY <1>1, <2>1
<1> QED
  BY <1>3, <1>4

\* The adjustment of a baseline by the policy's percentage is a number of
\* minutes between none and all of it.
LEMMA PercentOf ==
  ASSUME NEW b \in Nat, NEW p \in 0..100
  PROVE  /\ p * b \in Nat
         /\ p * b <= 100 * b
         /\ b * (100 - p) = 100 * b - p * b
         /\ b * (100 + p) = 100 * b + p * b
<1>1. p \in Int /\ b \in Int /\ p >= 0 /\ b >= 0 /\ 100 - p >= 0
  OBVIOUS
<1>2. b * (100 - p) = 100 * b - p * b /\ b * (100 + p) = 100 * b + p * b
  BY <1>1
<1>3. p * b \in Int /\ p * b >= 0
  BY <1>1
<1>4. b * (100 - p) >= 0
  BY <1>1
<1> QED
  BY <1>1, <1>2, <1>3, <1>4

-----------------------------------------------------------------------------
(* The rule engine.                                                          *)

\* Rule 5: whatever duration it is given, the device can run the result.
LEMMA ClampDeviceBounds ==
  ASSUME NEW d \in Int
  PROVE  /\ ClampDevice(d) \in DeviceMin..DeviceMax
         /\ d \in DeviceMin..DeviceMax => ClampDevice(d) = d
BY DeviceAssumption, NoDurationAssumption DEF ClampDevice, Greater, Lesser

\* Rule 4's window lies within the percentage of the baseline, and contains
\* the baseline when the device can run it.
LEMMA WindowBounds ==
  ASSUME NEW b \in DeviceMin..DeviceMax
  PROVE  /\ MinAllowed(b) \in DeviceMin..b
         /\ MaxAllowed(b) \in b..DeviceMax
         /\ 100 * (b - MinAllowed(b)) <= MaxAdjustPct * b + 50
         /\ 100 * (MaxAllowed(b) - b) <= MaxAdjustPct * b + 50
<1> DEFINE m == MaxAdjustPct * b
           lo == Round100(b * (100 - MaxAdjustPct))
           hi == Round100(b * (100 + MaxAdjustPct))
<1>1. b \in Nat /\ DeviceMin \in Nat /\ DeviceMax \in Nat /\ MaxAdjustPct \in 0..100
  BY DeviceAssumption, PctAssumption
<1>2. /\ m \in Nat
      /\ b * (100 - MaxAdjustPct) = 100 * b - m
      /\ b * (100 + MaxAdjustPct) = 100 * b + m
  BY <1>1, PercentOf
<1> HIDE DEF m
<1>3. lo \in Int /\ 100 * lo <= 100 * b - m + 50 /\ 100 * lo >= 100 * b - m - 50
  BY <1>1, <1>2, Round100Nearest
<1>4. hi \in Int /\ 100 * hi <= 100 * b + m + 50 /\ 100 * hi >= 100 * b + m - 50
  BY <1>1, <1>2, Round100Nearest
<1>5. MinAllowed(b) = Greater(DeviceMin, lo) /\ MaxAllowed(b) = Lesser(DeviceMax, hi)
  BY DEF MinAllowed, MaxAllowed
<1> HIDE DEF lo, hi
<1>6. lo <= b /\ hi >= b
  BY <1>1, <1>2, <1>3, <1>4
<1>7. /\ MinAllowed(b) \in DeviceMin..b
      /\ MaxAllowed(b) \in b..DeviceMax
      /\ 100 * (b - MinAllowed(b)) <= m + 50
      /\ 100 * (MaxAllowed(b) - b) <= m + 50
  BY <1>1, <1>2, <1>3, <1>4, <1>5, <1>6 DEF Greater, Lesser
<1> QED
  BY <1>7 DEF m

\* Rule 4 gives any reduce or increase a duration inside the window, and only
\* brings a duration towards the baseline: one on a side of it stays there.
LEMMA ClampAdjustmentBounds ==
  ASSUME NEW b \in DeviceMin..DeviceMax, NEW d \in Int,
         NEW a \in {"reduce", "increase"}
  PROVE  /\ ClampAdjustment(a, d, b) \in MinAllowed(b)..MaxAllowed(b)
         /\ d <= b => ClampAdjustment(a, d, b) <= b
         /\ d >= b => ClampAdjustment(a, d, b) >= b
<1>1. b \in Int /\ MinAllowed(b) \in Int /\ MaxAllowed(b) \in Int
      /\ MinAllowed(b) <= b /\ b <= MaxAllowed(b)
  BY WindowBounds, DeviceAssumption
<1>2. ClampAdjustment(a, d, b) = Greater(MinAllowed(b), Lesser(d, MaxAllowed(b)))
  BY NoDurationAssumption DEF ClampAdjustment
<1> QED
  BY <1>1, <1>2 DEF Greater, Lesser

-----------------------------------------------------------------------------
(* The coercion of replies.                                                  *)

\* Ten percent less is not more than the baseline, and ten percent more not
\* less: the durations put in when the model gives none.
LEMMA TenPercentNat ==
  ASSUME NEW b \in Nat
  PROVE  TenPercentDown(b) \in Nat /\ TenPercentUp(b) \in Nat
<1>1. TenPercentDown(b) \in Nat
  BY Round100Nearest, 90 * b \in Int, 90 * b >= 0 DEF TenPercentDown
<1>2. Round100(110 * b) \in Nat
  BY Round100Nearest, 110 * b \in Int, 110 * b >= 0
<1>3. (11 * b + 5) \div 10 \in Nat
  OBVIOUS
<1> QED
  BY <1>1, <1>2, <1>3 DEF TenPercentUp

\* An accepted reply is coerced into a recommendation: its duration is a number
\* of minutes unless it skips, and its confidence a percentage never above the
\* model's.  On a baseline, a keep is that baseline, a reduce not above it and
\* an increase not below it.
LEMMA CoerceCoherent ==
  ASSUME NEW x \in ParsedReplies, Acceptable(x), NEW b \in Nat, NEW d \in BOOLEAN
  PROVE  LET r == Coerce(x, b, d)
         IN  /\ r \in RecommendationValues
             /\ r.conf <= x.conf
             /\ r.policyOk = x.policyOk
             /\ r.action = "skip" \/ r.dur \in Nat
             /\ r.action = "keep" => r.dur = b
             /\ r.action = "reduce" => r.dur <= b
             /\ r.action = "increase" => r.dur >= b
<1> DEFINE r == Coerce(x, b, d)
           as(action, dur, conf) == [action |-> action, dur |-> dur, conf |-> conf,
                                     policyOk |-> x.policyOk]
           c == CoherentDuration(x.action, x.dur, b)
<1>1. /\ x.action \in Actions
      /\ x.dur \in Int \union {NoDuration}
      /\ x.conf \in 0..100
      /\ x.policyOk \in BOOLEAN
  BY DEF Acceptable, ParsedReplies
<1>2. x.action # "skip" /\ x.dur # NoDuration => x.dur \in Nat
  BY <1>1 DEF Acceptable
<1>3. \/ r = as("keep", 0, Capped(x.conf, 75)) /\ b = 0
      \/ r = as("keep", b, Capped(x.conf, 70))
      \/ r = as(x.action, c, x.conf)
  BY DEF Coerce
<1>4. /\ Capped(x.conf, 75) \in 0..100 /\ Capped(x.conf, 75) <= x.conf
      /\ Capped(x.conf, 70) \in 0..100 /\ Capped(x.conf, 70) <= x.conf
  BY <1>1 DEF Capped, Lesser
<1>5. /\ x.action = "skip" => c = NoDuration
      /\ x.action = "keep" => c = b
      /\ x.action = "reduce" => c \in Nat /\ c <= b
      /\ x.action = "increase" => c \in Nat /\ c >= b
  <2>1. CASE x.action = "skip"
    BY <2>1 DEF CoherentDuration
  <2>2. CASE x.action = "keep"
    BY <2>2 DEF CoherentDuration
  <2>3. CASE x.action = "reduce"
    <3>1. c = Lesser(IF x.dur = NoDuration THEN TenPercentDown(b) ELSE x.dur, b)
      BY <2>3 DEF CoherentDuration
    <3> QED
      BY <2>3, <3>1, <1>2, TenPercentNat DEF Lesser
  <2>4. CASE x.action = "increase"
    <3>1. c = Greater(IF x.dur = NoDuration THEN TenPercentUp(b) ELSE x.dur, b)
      BY <2>4 DEF CoherentDuration
    <3> QED
      BY <2>4, <3>1, <1>2, TenPercentNat DEF Greater
  <2> QED
    BY <1>1, <2>1, <2>2, <2>3, <2>4 DEF Actions
<1> HIDE DEF c
<1>6. CASE r = as("keep", 0, Capped(x.conf, 75)) /\ b = 0
  BY <1>1, <1>4, <1>6 DEF RecommendationValues, Actions, Durations
<1>7. CASE r = as("keep", b, Capped(x.conf, 70))
  BY <1>1, <1>4, <1>7 DEF RecommendationValues, Actions, Durations
<1>8. CASE r = as(x.action, c, x.conf)
  BY <1>1, <1>5, <1>8 DEF RecommendationValues, Actions, Durations
<1> QED
  BY <1>3, <1>6, <1>7, <1>8

\* The rule engine's result has the type of one: a mismatch keeps what was
\* recommended, and what is clamped is a number of minutes.
LEMMA ApplyType ==
  ASSUME NEW r \in RecommendationValues, NEW b \in Nat, NEW m \in BOOLEAN
  PROVE  Apply(r, b, m) \in RuleResults
<1>1. r.action \in Actions /\ r.dur \in Durations /\ r.policyOk \in BOOLEAN
  BY DEF RecommendationValues
<1>2. ClampDevice(ClampAdjustment(r.action, r.dur, b)) \in Durations
  <2>1. CASE r.dur = NoDuration
    BY <2>1 DEF ClampAdjustment, ClampDevice, Durations
  <2>2. CASE r.dur # NoDuration
    <3>1. r.dur \in Int
      BY <1>1, <2>2 DEF Durations
    <3>2. Round100(b * (100 - MaxAdjustPct)) \in Int /\ Round100(b * (100 + MaxAdjustPct)) \in Int
      BY Round100Nearest, PctAssumption
    <3>3. MinAllowed(b) \in Int /\ MaxAllowed(b) \in Int
      BY <3>2, DeviceAssumption DEF MinAllowed, MaxAllowed, Greater, Lesser
    <3>4. ClampAdjustment(r.action, r.dur, b) \in Int
      BY <3>1, <3>3 DEF ClampAdjustment, Greater, Lesser
    <3> QED
      BY <3>4, ClampDeviceBounds, DeviceAssumption DEF Durations
  <2> QED
    BY <2>1, <2>2
<1> QED
  BY <1>1, <1>2 DEF Apply, RuleResults, Actions, Durations

-----------------------------------------------------------------------------
(* Induction over data, by way of a smallest counterexample.                 *)

\* Among subsets of a finite set some have no smaller one like them.
LEMMA SmallestSubset ==
  ASSUME NEW S, IsFiniteSet(S), NEW B \in SUBSET (SUBSET S), B # {}
  PROVE  \E T \in B : \A U \in B : U \subseteq T => U = T
<1>1. FiniteSubsetsOf(S) = SUBSET S
  BY FS_FiniteSubsetsOfFinite
<1>2. IsWellFoundedOn(StrictSubsetOrdering(S), SUBSET S)
  BY <1>1, FS_StrictSubsetOrderingWellFounded
<1>3. PICK T \in B : \A U \in B : <<U, T>> \notin StrictSubsetOrdering(S)
  BY <1>2, WFMin
<1>4. ASSUME NEW U \in B, U \subseteq T
      PROVE  U = T
  <2>1. <<U, T>> \in (SUBSET S) \X (SUBSET S)
    OBVIOUS
  <2>2. U # T => <<U, T>> \in StrictSubsetOrdering(S)
    BY <1>4, <2>1 DEF StrictSubsetOrdering
  <2> QED
    BY <1>3, <2>2
<1> QED
  BY <1>4
==============================================================================
