----------------------- MODULE DecisionPipelineProofs -----------------------
(***************************************************************************)
(* Proofs about the decision a reply, the coercion, the rule engine and    *)
(* the gate make together, for every device, percentage, threshold, set of *)
(* baselines, set of replies and weather.                                  *)
(***************************************************************************)
EXTENDS DecisionPipeline, AgentDecisionProofs, FiniteSetTheorems, FunctionTheorems,
        WellFoundedInduction

-----------------------------------------------------------------------------
(* The decision.                                                             *)

\* What each stage of the decision rests on; inductive, and with it the
\* properties of a decision are properties of Apply and Coerce alone.
IInv ==
  /\ TypeOK
  /\ stage \in {"recommended", "ruled", "auto", "review"} =>
       Acceptable(reply) /\ rec = Coerce(reply, baseline, IsDry)
  /\ stage \in {"ruled", "auto", "review"} => result = Apply(rec, baseline, blackout)
  /\ stage = "auto" => ~NeedsReview(result, rec)

LEMMA IsDryType == IsDry \in BOOLEAN
BY DEF IsDry, Dry

LEMMA InitInvariant == Init => IInv
BY DeviceAssumption, NoDurationAssumption
   DEF Init, IInv, TypeOK, Stages, Heuristic, RecommendationValues, RuleResults, Actions, Durations

LEMMA NextInvariant == IInv /\ [Next]_vars => IInv'
<1> SUFFICES ASSUME IInv, [Next]_vars
             PROVE  IInv'
  OBVIOUS
<1> USE DEF IInv
<1>0. baseline \in Nat
  BY BaselinesAssumption DEF TypeOK
<1>same. UNCHANGED inputs => IsDry' = IsDry
  BY DEF inputs, IsDry
<1>1. CASE Refuse
  BY <1>same, <1>1 DEF Refuse, TypeOK, Stages, inputs
<1>2. CASE Recommend
  <2>1. rec' \in RecommendationValues
    BY <1>0, <1>2, CoerceCoherent, IsDryType, RepliesAssumption DEF Recommend, TypeOK
  <2> QED
    BY <1>same, <1>2, <2>1 DEF Recommend, TypeOK, Stages, inputs
<1>3. CASE ApplyRules
  <2>1. result' \in RuleResults
    BY <1>0, <1>3, ApplyType DEF ApplyRules, TypeOK
  <2> QED
    BY <1>same, <1>3, <2>1 DEF ApplyRules, TypeOK, Stages, inputs
<1>4. CASE Gate
  BY <1>same, <1>4 DEF Gate, TypeOK, Stages, inputs
<1>5. CASE UNCHANGED vars
  BY <1>same, <1>5 DEF TypeOK, vars, inputs
<1> QED
  BY <1>1, <1>2, <1>3, <1>4, <1>5 DEF Next, Done

THEOREM Invariance == Spec => []IInv
BY InitInvariant, NextInvariant, PTL DEF Spec

\* Every stage of a decision handles values of the kinds the code declares.
THEOREM TypeCorrect == Spec => []TypeOK
<1>1. IInv => TypeOK
  BY DEF IInv
<1> QED
  BY <1>1, Invariance, PTL

\* What waters without a human is a coherent recommendation, clamped.
LEMMA WateredResult ==
  ASSUME IInv, Watered
  PROVE  /\ rec.action \in {"keep", "reduce", "increase"}
         /\ rec.dur \in Nat
         /\ rec.action = "keep" => rec.dur = baseline
         /\ rec.action = "reduce" => rec.dur <= baseline
         /\ rec.action = "increase" => rec.dur >= baseline
         /\ result.action = rec.action
         /\ result.dur = ClampDevice(ClampAdjustment(rec.action, rec.dur, baseline))
<1>1. /\ baseline \in Nat
      /\ rec = Coerce(reply, baseline, IsDry)
      /\ result = Apply(rec, baseline, blackout)
      /\ ~result.mismatch /\ result.action # "skip"
  BY BaselinesAssumption DEF IInv, TypeOK, Watered, NeedsReview
<1>2. /\ rec \in RecommendationValues
      /\ rec.action = "skip" \/ rec.dur \in Nat
      /\ rec.action = "keep" => rec.dur = baseline
      /\ rec.action = "reduce" => rec.dur <= baseline
      /\ rec.action = "increase" => rec.dur >= baseline
  BY <1>1, CoerceCoherent, IsDryType, RepliesAssumption DEF IInv, TypeOK, Watered
<1>3. /\ result.action = rec.action
      /\ result.dur = ClampDevice(ClampAdjustment(rec.action, rec.dur, baseline))
  BY <1>1 DEF Apply
<1> QED
  BY <1>1, <1>2, <1>3 DEF RecommendationValues, Actions

\* Whatever the model answers, whatever the device and the percentage, what is
\* dispatched without a human is a duration the device can run, and within the
\* percentage of any baseline the device can run.
THEOREM PolicyHolds == Spec => []AutoWithinPolicy
<1>1. IInv => AutoWithinPolicy
  <2> SUFFICES ASSUME IInv, Watered
               PROVE  /\ result.dur \in DeviceMin..DeviceMax
                      /\ BaselineFits => WithinPct(result.dur, baseline)
    BY DEF AutoWithinPolicy
  <2> DEFINE adjusted == ClampAdjustment(rec.action, rec.dur, baseline)
  <2>1. baseline \in Nat
    BY BaselinesAssumption DEF IInv, TypeOK
  <2>2. rec.action = "keep" => rec.dur = baseline
    BY WateredResult
  <2>3. result.dur = ClampDevice(adjusted)
    BY WateredResult
  <2>4. rec.action \in {"keep", "reduce", "increase"} /\ rec.dur \in Nat
    BY WateredResult
  <2>5. adjusted \in Int
    <3>1. Round100(baseline * (100 - MaxAdjustPct)) \in Int
          /\ Round100(baseline * (100 + MaxAdjustPct)) \in Int
      BY <2>1, Round100Nearest, PctAssumption
    <3>2. MinAllowed(baseline) \in Int /\ MaxAllowed(baseline) \in Int
      BY <3>1, DeviceAssumption DEF MinAllowed, MaxAllowed, Greater, Lesser
    <3> QED
      BY <2>4, <3>2 DEF ClampAdjustment, Greater, Lesser
  <2>6. result.dur \in DeviceMin..DeviceMax
    BY <2>3, <2>5, ClampDeviceBounds
  <2>7. ASSUME BaselineFits
        PROVE  WithinPct(result.dur, baseline)
    <3>1. MaxAdjustPct * baseline \in Nat
      BY <2>1, PctAssumption, PercentOf
    <3>2. CASE rec.action = "keep"
      <4>1. adjusted = baseline
        BY <2>2, <3>2 DEF ClampAdjustment
      <4>2. result.dur = baseline
        BY <2>3, <2>7, <4>1, ClampDeviceBounds, DeviceAssumption DEF BaselineFits
      <4> QED
        BY <2>1, <3>1, <4>2 DEF WithinPct
    <3>3. CASE rec.action \in {"reduce", "increase"}
      <4>1. adjusted \in MinAllowed(baseline)..MaxAllowed(baseline)
        BY <2>4, <2>7, <3>3, ClampAdjustmentBounds DEF BaselineFits
      <4>2. /\ MinAllowed(baseline) \in DeviceMin..baseline
            /\ MaxAllowed(baseline) \in baseline..DeviceMax
            /\ 100 * (baseline - MinAllowed(baseline)) <= MaxAdjustPct * baseline + 50
            /\ 100 * (MaxAllowed(baseline) - baseline) <= MaxAdjustPct * baseline + 50
        BY <2>7, WindowBounds DEF BaselineFits
      <4>3. result.dur = adjusted
        BY <2>3, <4>1, <4>2, ClampDeviceBounds, DeviceAssumption
      <4> QED
        BY <2>1, <3>1, <4>1, <4>2, <4>3, DeviceAssumption DEF WithinPct
    <3> QED
      BY <2>4, <3>2, <3>3
  <2> QED
    BY <2>6, <2>7
<1> QED
  BY <1>1, Invariance, PTL

\* Coercions never lift a confidence over the threshold: what is dispatched
\* without a human was confident when the model answered.
THEOREM ConfidenceHolds == Spec => []AutoOnlyIfConfident
<1>1. IInv => AutoOnlyIfConfident
  <2> SUFFICES ASSUME IInv, stage = "auto"
               PROVE  reply.conf >= ConfidenceThreshold
    BY DEF AutoOnlyIfConfident
  <2>1. rec.conf \in 0..100 /\ rec.conf <= reply.conf /\ reply.conf \in 0..100
    BY CoerceCoherent, IsDryType, BaselinesAssumption, RepliesAssumption DEF IInv, TypeOK, RecommendationValues, Acceptable
  <2>2. ~(rec.conf < ConfidenceThreshold)
    BY DEF IInv, NeedsReview
  <2> QED
    BY <2>1, <2>2, ThresholdAssumption
<1> QED
  BY <1>1, Invariance, PTL

\* The direction of a command is the direction of its minutes, on any baseline
\* the device can run: rules 4 and 5 never carry a duration across it.
THEOREM DirectionHolds == Spec => []DirectionKept
<1>1. IInv => DirectionKept
  <2> SUFFICES ASSUME IInv, Watered, BaselineFits
               PROVE  /\ result.action = "reduce" => result.dur <= baseline
                      /\ result.action = "increase" => result.dur >= baseline
                      /\ result.action = "keep" => result.dur = baseline
    BY DEF DirectionKept
  <2> DEFINE adjusted == ClampAdjustment(rec.action, rec.dur, baseline)
  <2>1. CASE rec.action = "keep"
    <3>1. adjusted = baseline
      BY <2>1, WateredResult DEF ClampAdjustment
    <3>2. result.dur = baseline
      BY <3>1, WateredResult, ClampDeviceBounds, DeviceAssumption DEF BaselineFits
    <3> QED
      BY <2>1, <3>2, WateredResult
  <2>2. CASE rec.action \in {"reduce", "increase"}
    <3>1. /\ adjusted \in MinAllowed(baseline)..MaxAllowed(baseline)
          /\ rec.action = "reduce" => adjusted <= baseline
          /\ rec.action = "increase" => adjusted >= baseline
      BY <2>2, WateredResult, ClampAdjustmentBounds DEF BaselineFits
    <3>2. adjusted \in DeviceMin..DeviceMax
      BY <3>1, WindowBounds, DeviceAssumption DEF BaselineFits
    <3>3. result.dur = adjusted
      BY <3>2, WateredResult, ClampDeviceBounds
    <3> QED
      BY <2>2, <3>1, <3>3, WateredResult
  <2> QED
    BY <2>1, <2>2, WateredResult
<1> QED
  BY <1>1, Invariance, PTL

\* What a reply of another policy version proposes is never carried out
\* without a human: neither the coercion nor a rule loses the mismatch.
THEOREM MismatchHolds == Spec => []MismatchNeverWaters
<1>1. IInv => MismatchNeverWaters
  <2> SUFFICES ASSUME IInv, Watered PROVE reply.policyOk
    BY DEF MismatchNeverWaters
  <2>1. rec = Coerce(reply, baseline, IsDry) /\ result = Apply(rec, baseline, blackout)
    BY DEF IInv, Watered
  <2>2. ~result.mismatch /\ result.action # "skip"
    BY DEF IInv, Watered, NeedsReview
  <2>3. rec.policyOk
    BY <2>1, <2>2 DEF Apply
  <2>4. rec.policyOk = reply.policyOk
    BY <2>1 DEF Coerce
  <2> QED BY <2>3, <2>4
<1> QED BY <1>1, Invariance, PTL

-----------------------------------------------------------------------------
(* Sums of rain.  What a fold computes is shown by way of a smallest          *)
(* counterexample (SmallestSubset).                                          *)

\* The rain of one hour, and the hour a sum begins with.
Fall(obs, h) == OrZero(obs[h].rain)
First(hours) == CHOOSE h \in hours : TRUE
Rest(hours) == hours \ {First(hours)}
Added(obs, s, total) == Fall(obs, First(s)) + total

\* iter gives the sum over each subset of S.
Sums(obs, S, iter) ==
  iter = [s \in SUBSET S |-> IF s = {} THEN 0
                             ELSE Added(obs, s, iter[Rest(s)])]
Iter(obs, S) == CHOOSE iter : Sums(obs, S, iter)

LEMMA RainUnfolds ==
  ASSUME NEW obs, NEW hours
  PROVE  Rain(obs, hours) = Iter(obs, hours)[hours]
BY DEF Rain, MapThenSumSet, MapThenFoldSet, Iter, Sums, Added, Fall, First, Rest

LEMMA FirstIn ==
  ASSUME NEW s, s # {}
  PROVE  First(s) \in s /\ Rest(s) \subseteq s /\ Rest(s) # s
BY DEF First, Rest

LEMMA SumsAt ==
  ASSUME NEW obs, NEW S, NEW iter, Sums(obs, S, iter), NEW s, s \subseteq S
  PROVE  /\ s = {} => iter[s] = 0
         /\ s # {} => iter[s] = Added(obs, s, iter[Rest(s)])
<1>1. s \in SUBSET S
  OBVIOUS
<1> DEFINE value(t) == IF t = {} THEN 0 ELSE Added(obs, t, iter[Rest(t)])
<1>2. iter = [t \in SUBSET S |-> value(t)]
  BY DEF Sums
<1> HIDE DEF value
<1>3. iter[s] = value(s)
  BY <1>1, <1>2
<1> QED
  BY <1>3 DEF value

\* Two such functions agree wherever both are defined.
LEMMA SumsAgree ==
  ASSUME NEW obs, NEW S, IsFiniteSet(S), NEW T \in SUBSET S, NEW f, NEW g,
         Sums(obs, S, f), Sums(obs, T, g)
  PROVE  f[T] = g[T]
<1> DEFINE Bad == {s \in SUBSET T : f[s] # g[s]}
<1>1. IsFiniteSet(T)
  BY FS_Subset
<1>2. SUFFICES Bad = {}
  <2>1. T \in SUBSET T
    OBVIOUS
  <2> QED
    BY <1>2, <2>1
<1>3. SUFFICES ASSUME Bad # {} PROVE FALSE
  OBVIOUS
<1>4. Bad \in SUBSET (SUBSET T)
  OBVIOUS
<1>5. PICK s \in Bad : \A u \in Bad : u \subseteq s => u = s
  <2> HIDE DEF Bad
  <2> QED
    BY <1>1, <1>3, <1>4, SmallestSubset
<1>6. s \in SUBSET T /\ s \in SUBSET S /\ f[s] # g[s]
  OBVIOUS
<1>7. s # {}
  BY <1>6, SumsAt
<1>8. Rest(s) \subseteq s /\ Rest(s) # s
  BY <1>7, FirstIn
<1>9. f[Rest(s)] = g[Rest(s)]
  <2>1. Rest(s) \in SUBSET T
    BY <1>6, <1>8
  <2>2. Rest(s) \notin Bad
    BY <1>5, <1>8
  <2> QED
    BY <2>1, <2>2
<1>10. f[s] = Added(obs, s, f[Rest(s)]) /\ g[s] = Added(obs, s, g[Rest(s)])
  BY <1>6, <1>7, SumsAt
<1> QED
  BY <1>6, <1>9, <1>10

\* There is such a function on every finite set.
LEMMA SumsExist ==
  ASSUME NEW obs, NEW S, IsFiniteSet(S)
  PROVE  Sums(obs, S, Iter(obs, S))
<1> DEFINE Bad == {U \in SUBSET S : ~ Sums(obs, U, Iter(obs, U))}
<1>1. SUFFICES Bad = {}
  <2>1. S \in SUBSET S
    OBVIOUS
  <2> QED
    BY <1>1, <2>1
<1>2. SUFFICES ASSUME Bad # {} PROVE FALSE
  OBVIOUS
<1>3. Bad \in SUBSET (SUBSET S)
  OBVIOUS
<1>4. PICK T \in Bad : \A U \in Bad : U \subseteq T => U = T
  <2> HIDE DEF Bad
  <2> QED
    BY <1>2, <1>3, SmallestSubset
<1>5. T \in SUBSET S /\ ~ Sums(obs, T, Iter(obs, T))
  OBVIOUS
<1>6. ASSUME NEW u \in SUBSET T, u # T
      PROVE  Sums(obs, u, Iter(obs, u)) /\ IsFiniteSet(u)
  <2>1. u \in SUBSET S /\ u \notin Bad
    BY <1>4, <1>5, <1>6
  <2> QED
    BY <2>1, FS_Subset
<1> DEFINE value(s) == IF s = {} THEN 0
                       ELSE Added(obs, s, Iter(obs, Rest(s))[Rest(s)])
           g == [s \in SUBSET T |-> value(s)]
<1>7. ASSUME NEW u \in SUBSET T, u # T
      PROVE  g[u] = Iter(obs, u)[u]
  <2>1. g[u] = value(u)
    OBVIOUS
  <2>2. Sums(obs, u, Iter(obs, u)) /\ IsFiniteSet(u)
    BY <1>6, <1>7
  <2>3. CASE u = {}
    BY <2>1, <2>2, <2>3, SumsAt
  <2>4. CASE u # {}
    <3>1. Rest(u) \in SUBSET u /\ Rest(u) \in SUBSET T /\ Rest(u) # T
      BY <2>4, FirstIn
    <3>2. Sums(obs, Rest(u), Iter(obs, Rest(u)))
      BY <1>6, <3>1
    <3>3. Iter(obs, u)[Rest(u)] = Iter(obs, Rest(u))[Rest(u)]
      BY <2>2, <3>1, <3>2, SumsAgree
    <3>4. u \in SUBSET u
      OBVIOUS
    <3>5. Iter(obs, u)[u] = Added(obs, u, Iter(obs, u)[Rest(u)])
      BY <2>2, <2>4, <3>4, SumsAt
    <3> QED
      BY <2>1, <2>4, <3>3, <3>5
  <2> QED
    BY <2>3, <2>4
<1>8. ASSUME NEW s \in SUBSET T
      PROVE  value(s) = IF s = {} THEN 0 ELSE Added(obs, s, g[Rest(s)])
  <2>1. CASE s = {}
    BY <2>1
  <2>2. CASE s # {}
    <3>1. Rest(s) \in SUBSET T /\ Rest(s) # T
      BY <2>2, FirstIn
    <3>2. g[Rest(s)] = Iter(obs, Rest(s))[Rest(s)]
      BY <1>7, <3>1
    <3> QED
      BY <2>2, <3>2
  <2> QED
    BY <2>1, <2>2
<1>9. Sums(obs, T, g)
  <2> HIDE DEF value
  <2>1. g = [s \in SUBSET T |-> value(s)]
    OBVIOUS
  <2> HIDE DEF g
  <2> QED
    BY <1>8, <2>1 DEF Sums
<1>10. Sums(obs, T, Iter(obs, T))
  <2> HIDE DEF g
  <2> QED
    BY <1>9 DEF Iter
<1> QED
  BY <1>5, <1>10

\* No hours, no rain; and the rain of some hours is that of one and of the rest.
LEMMA RainOfNone == ASSUME NEW obs PROVE Rain(obs, {}) = 0
<1>1. IsFiniteSet({})
  BY FS_EmptySet
<1>2. Sums(obs, {}, Iter(obs, {}))
  BY <1>1, SumsExist
<1> QED
  BY <1>2, RainUnfolds, SumsAt

LEMMA RainOfFirst ==
  ASSUME NEW obs, NEW S, IsFiniteSet(S), S # {}
  PROVE  Rain(obs, S) = Fall(obs, First(S)) + Rain(obs, Rest(S))
<1>1. Rest(S) \in SUBSET S
  BY FirstIn
<1>2. IsFiniteSet(Rest(S))
  BY <1>1, FS_Subset
<1>3. Sums(obs, S, Iter(obs, S)) /\ Sums(obs, Rest(S), Iter(obs, Rest(S)))
  BY <1>2, SumsExist
<1>4. Iter(obs, S)[Rest(S)] = Iter(obs, Rest(S))[Rest(S)]
  BY <1>1, <1>3, SumsAgree
<1>5. Iter(obs, S)[S] = Added(obs, S, Iter(obs, S)[Rest(S)])
  BY <1>3, SumsAt
<1>6. Rain(obs, S) = Added(obs, S, Rain(obs, Rest(S)))
  BY <1>4, <1>5, RainUnfolds
<1> QED
  BY <1>6 DEF Added

\* Rain is an amount when that of each hour is.
LEMMA RainType ==
  ASSUME NEW obs, NEW S, IsFiniteSet(S), \A h \in S : Fall(obs, h) \in Nat
  PROVE  Rain(obs, S) \in Nat
<1> DEFINE Bad == {U \in SUBSET S : Rain(obs, U) \notin Nat}
<1>1. SUFFICES ASSUME Bad # {} PROVE FALSE
  <2>1. S \in SUBSET S
    OBVIOUS
  <2> QED
    BY <1>1, <2>1
<1>2. PICK T \in Bad : \A U \in Bad : U \subseteq T => U = T
  <2>1. Bad \in SUBSET (SUBSET S)
    OBVIOUS
  <2> HIDE DEF Bad
  <2> QED
    BY <1>1, <2>1, SmallestSubset
<1>3. T \in SUBSET S /\ Rain(obs, T) \notin Nat
  OBVIOUS
<1>4. T # {}
  BY <1>3, RainOfNone
<1>5. Rest(T) \subseteq T /\ Rest(T) # T /\ First(T) \in S
  BY <1>3, <1>4, FirstIn
<1>6. Rain(obs, Rest(T)) \in Nat
  BY <1>2, <1>3, <1>5
<1>7. IsFiniteSet(T)
  BY <1>3, FS_Subset
<1>8. Rain(obs, T) = Fall(obs, First(T)) + Rain(obs, Rest(T))
  BY <1>4, <1>7, RainOfFirst
<1>9. Fall(obs, First(T)) \in Nat
  BY <1>5
<1> QED
  BY <1>3, <1>6, <1>8, <1>9

\* The order in which hours are added makes no difference.
LEMMA RainOfOne ==
  ASSUME NEW obs, NEW S, IsFiniteSet(S), \A h \in S : Fall(obs, h) \in Nat,
         NEW x \in S
  PROVE  Rain(obs, S) = Fall(obs, x) + Rain(obs, S \ {x})
<1> DEFINE Splits(U, y) == Rain(obs, U) = Fall(obs, y) + Rain(obs, U \ {y})
           Bad == {U \in SUBSET S : \E y \in U : ~ Splits(U, y)}
<1>1. SUFFICES ASSUME Bad # {} PROVE FALSE
  <2>1. S \in SUBSET S
    OBVIOUS
  <2> QED
    BY <1>1, <2>1
<1>2. PICK T \in Bad : \A U \in Bad : U \subseteq T => U = T
  <2>1. Bad \in SUBSET (SUBSET S)
    OBVIOUS
  <2> HIDE DEF Bad
  <2> QED
    BY <1>1, <2>1, SmallestSubset
<1> HIDE DEF Splits
<1>3. T \in SUBSET S /\ \E y \in T : ~ Splits(T, y)
  OBVIOUS
<1>4. PICK y \in T : ~ Splits(T, y)
  BY <1>3
<1>5. \A U \in SUBSET T : U # T => \A z \in U : Splits(U, z)
  BY <1>2, <1>3
<1> DEFINE f == First(T)
<1>6. T # {} /\ IsFiniteSet(T)
  BY <1>3, <1>4, FS_Subset
<1>7. f \in T /\ Rest(T) = T \ {f}
  BY <1>6, FirstIn DEF Rest
<1>8. Rain(obs, T) = Fall(obs, f) + Rain(obs, T \ {f})
  BY <1>6, <1>7, RainOfFirst
<1>9. f # y
  BY <1>4, <1>8 DEF Splits
<1> HIDE DEF f
<1>10. Splits(T \ {f}, y) /\ Splits(T \ {y}, f)
  BY <1>5, <1>7, <1>9
<1> DEFINE U == T \ {f, y}
<1>11. (T \ {f}) \ {y} = U /\ (T \ {y}) \ {f} = U
  OBVIOUS
<1>12. Rain(obs, U) \in Nat /\ Fall(obs, f) \in Nat /\ Fall(obs, y) \in Nat
  <2>1. U \in SUBSET T /\ U \in SUBSET S
    BY <1>3
  <2>2. IsFiniteSet(U)
    BY <1>6, <2>1, FS_Subset
  <2> HIDE DEF U
  <2>3. \A h \in U : Fall(obs, h) \in Nat
    BY <2>1
  <2> QED
    BY <1>3, <1>4, <1>7, <2>2, <2>3, RainType
<1> HIDE DEF U
<1>13. /\ Rain(obs, T \ {f}) = Fall(obs, y) + Rain(obs, U)
       /\ Rain(obs, T \ {y}) = Fall(obs, f) + Rain(obs, U)
  BY <1>10, <1>11 DEF Splits
<1>14. Rain(obs, T) = Fall(obs, y) + Rain(obs, T \ {y})
  BY <1>8, <1>12, <1>13
<1> QED
  BY <1>4, <1>14 DEF Splits

\* Rain in an hour, or in two, is rain in the sum.
LEMMA RainAtLeast ==
  ASSUME NEW obs, NEW S, IsFiniteSet(S), \A h \in S : Fall(obs, h) \in Nat,
         NEW x \in S, NEW y \in S
  PROVE  Rain(obs, S) >= Fall(obs, x) + (IF x = y THEN 0 ELSE Fall(obs, y))
<1>1. S \ {x} \in SUBSET S /\ (S \ {x}) \ {y} \in SUBSET S
  OBVIOUS
<1>2. IsFiniteSet(S \ {x}) /\ IsFiniteSet((S \ {x}) \ {y})
  BY <1>1, FS_Subset
<1>3. Rain(obs, S) = Fall(obs, x) + Rain(obs, S \ {x})
  BY RainOfOne
<1>4. Rain(obs, S \ {x}) \in Nat /\ Rain(obs, (S \ {x}) \ {y}) \in Nat
  BY <1>1, <1>2, RainType
<1>5. CASE x = y
  BY <1>3, <1>4, <1>5
<1>6. CASE x # y
  <2>1. Rain(obs, S \ {x}) = Fall(obs, y) + Rain(obs, (S \ {x}) \ {y})
    BY <1>2, <1>6, RainOfOne
  <2> QED
    BY <1>3, <1>4, <1>6, <2>1
<1> QED
  BY <1>5, <1>6

\* A finite set of integers has a greatest.
LEMMA MaxIsGreatest ==
  ASSUME NEW S, IsFiniteSet(S), S # {}, \A x \in S : x \in Int
  PROVE  Max(S) \in S /\ \A x \in S : Max(S) >= x
<1> DEFINE Greatest(U, m) == m \in U /\ \A x \in U : m >= x
           Bad == {U \in SUBSET S : U # {} /\ ~ \E m \in U : Greatest(U, m)}
<1>1. Bad = {}
  <2>1. SUFFICES ASSUME Bad # {} PROVE FALSE
    OBVIOUS
  <2>2. PICK T \in Bad : \A U \in Bad : U \subseteq T => U = T
    <3>1. Bad \in SUBSET (SUBSET S)
      OBVIOUS
    <3> HIDE DEF Bad
    <3> QED
      BY <2>1, <3>1, SmallestSubset
  <2>3. T \in SUBSET S /\ T # {} /\ ~ \E m \in T : Greatest(T, m)
    OBVIOUS
  <2>4. PICK x \in T : TRUE
    BY <2>3
  <2>5. T \ {x} # {}
    <3>1. Greatest({x}, x)
      BY <2>3
    <3>2. T # {x}
      BY <2>3, <3>1
    <3> QED
      BY <2>4, <3>2
  <2>6. \E m \in T \ {x} : Greatest(T \ {x}, m)
    <3>1. T \ {x} \in SUBSET S /\ T \ {x} # T
      BY <2>3, <2>4
    <3>2. T \ {x} \notin Bad
      BY <2>2, <3>1
    <3> QED
      BY <2>5, <3>1, <3>2
  <2>7. PICK m \in T \ {x} : Greatest(T \ {x}, m)
    BY <2>6
  <2>8. x \in Int /\ m \in Int /\ \A y \in T : y \in Int
    BY <2>3, <2>4, <2>7
  <2>9. Greatest(T, IF x >= m THEN x ELSE m)
    BY <2>4, <2>7, <2>8
  <2> QED
    BY <2>3, <2>9
<1>2. S \in SUBSET S
  OBVIOUS
<1>3. \E m \in S : \A x \in S : m >= x
  BY <1>1, <1>2
<1> QED
  BY <1>3 DEF Max

\* The probabilities of some hours, and none, are finitely many.
LEMMA ImageFinite ==
  ASSUME NEW S, IsFiniteSet(S), NEW f \in [S -> Int]
  PROVE  /\ {0} \union {f[h] : h \in S} \in SUBSET Int
         /\ IsFiniteSet({0} \union {f[h] : h \in S})
<1> DEFINE T == {f[h] : h \in S}
<1>1. f \in Surjection(S, T)
  BY DEF Surjection
<1>2. IsFiniteSet(T)
  <2> HIDE DEF T
  <2> QED
    BY <1>1, FS_Surjection
<1>3. IsFiniteSet(T \union {0})
  <2> HIDE DEF T
  <2> QED
    BY <1>2, FS_AddElement
<1>4. {0} \union T = T \union {0}
  OBVIOUS
<1> QED
  BY <1>3, <1>4

-----------------------------------------------------------------------------
(* What a run makes of the rows.                                             *)

LEMMA HourlyRows ==
  ASSUME TypeOK
  PROVE  /\ now \in Int
         /\ DOMAIN rows \subseteq Int /\ IsFiniteSet(DOMAIN rows)
         /\ \A h \in DOMAIN rows : /\ Fall(rows, h) \in Nat
                                   /\ OrZero(rows[h].prob) \in Int
                                   /\ InferredProbability(rows[h]) \in Int
                                   /\ InferredProbability(rows[h]) >= OrZero(rows[h].prob)
                                   /\ rows[h].prob # Missing =>
                                        InferredProbability(rows[h]) = OrZero(rows[h].prob)
<1>1. now \in Int /\ DOMAIN rows \subseteq Int /\ IsFiniteSet(DOMAIN rows)
  BY TimesAssumption, WeathersAssumption DEF TypeOK
<1>2. ASSUME NEW h \in DOMAIN rows
      PROVE  /\ Fall(rows, h) \in Nat
             /\ OrZero(rows[h].prob) \in Int
             /\ InferredProbability(rows[h]) \in Int
             /\ InferredProbability(rows[h]) >= OrZero(rows[h].prob)
             /\ rows[h].prob # Missing => InferredProbability(rows[h]) = OrZero(rows[h].prob)
  <2>1. rows[h] \in Readings
    BY WeathersAssumption DEF TypeOK
  <2>2. /\ rows[h].rain = Missing \/ rows[h].rain \in Nat
        /\ rows[h].prob = Missing \/ rows[h].prob \in Int
    BY <2>1 DEF Readings
  <2>3. Fall(rows, h) \in Nat
    BY <2>2 DEF Fall, OrZero
  <2>4. CASE rows[h].prob = Missing
    <3>1. OrZero(rows[h].prob) = 0
      BY <2>4 DEF OrZero
    <3>2. InferredProbability(rows[h]) \in {0, 100}
      BY <2>4 DEF InferredProbability
    <3> QED
      BY <2>3, <2>4, <3>1, <3>2
  <2>5. CASE rows[h].prob # Missing
    <3>1. OrZero(rows[h].prob) = rows[h].prob
      BY <2>5 DEF OrZero
    <3>2. InferredProbability(rows[h]) = rows[h].prob
      BY <2>5 DEF InferredProbability
    <3> QED
      BY <2>2, <2>3, <2>5, <3>1, <3>2
  <2> QED
    BY <2>4, <2>5
<1> QED
  BY <1>1, <1>2

\* The windows of the replay are those of a live run.
LEMMA SameWindows ==
  ASSUME TypeOK
  PROVE  LET window == {h \in DOMAIN rows : now - Day <= h /\ h <= now + Day}
         IN  /\ {h \in window : h <= now} = PastHours(rows, now)
             /\ {h \in window : h > now} = NextHours(rows, now)
             /\ window = {} => PastHours(rows, now) = {} /\ NextHours(rows, now) = {}
BY HourlyRows DEF PastHours, NextHours, Day

\* What the live context says, whether there are rows or not.
LEMMA LiveSays ==
  ASSUME TypeOK
  PROVE  /\ LiveContext(rows, now).last = Rain(rows, PastHours(rows, now))
         /\ LiveContext(rows, now).next = Rain(rows, NextHours(rows, now))
         /\ LiveContext(rows, now).prob
              = Max({0} \union {OrZero(rows[h].prob) : h \in NextHours(rows, now)})
<1>1. CASE DOMAIN rows = {}
  <2>1. PastHours(rows, now) = {} /\ NextHours(rows, now) = {}
    BY <1>1 DEF PastHours, NextHours
  <2>2. {0} \union {OrZero(rows[h].prob) : h \in NextHours(rows, now)} = {0}
    BY <2>1
  <2>3. Max({0}) = 0
    BY DEF Max
  <2>4. LiveContext(rows, now) = NoRain(FALSE)
    BY <1>1 DEF LiveContext
  <2> QED
    BY <2>1, <2>2, <2>3, <2>4, RainOfNone DEF NoRain, Context
<1>2. CASE DOMAIN rows # {}
  BY <1>2 DEF LiveContext, Context
<1> QED
  BY <1>1, <1>2

LEMMA ReplaySays ==
  ASSUME TypeOK
  PROVE  /\ ReplayContext(rows, now).last = Rain(rows, PastHours(rows, now))
         /\ ReplayContext(rows, now).next = Rain(rows, NextHours(rows, now))
         /\ ReplayContext(rows, now).prob
              = Max({0} \union {InferredProbability(rows[h]) : h \in NextHours(rows, now)})
<1> DEFINE window == {h \in DOMAIN rows : now - Day <= h /\ h <= now + Day}
<1>1. CASE window = {}
  <2>1. PastHours(rows, now) = {} /\ NextHours(rows, now) = {}
    BY <1>1, SameWindows
  <2>2. {0} \union {InferredProbability(rows[h]) : h \in NextHours(rows, now)} = {0}
    BY <2>1
  <2>3. Max({0}) = 0
    BY DEF Max
  <2>4. ReplayContext(rows, now) = NoRain(TRUE)
    BY <1>1 DEF ReplayContext
  <2> QED
    BY <2>1, <2>2, <2>3, <2>4, RainOfNone DEF NoRain, Context
<1>2. CASE window # {}
  <2>1. ReplayContext(rows, now) =
          Context(Rain(rows, {h \in window : h <= now}), Rain(rows, {h \in window : h > now}),
                  Max({0} \union {InferredProbability(rows[h]) : h \in {k \in window : k > now}}),
                  FALSE)
    BY <1>2 DEF ReplayContext
  <2> QED
    BY <2>1, SameWindows DEF Context
<1> QED
  BY <1>1, <1>2

LEMMA WindowsFinite ==
  ASSUME TypeOK
  PROVE  /\ PastHours(rows, now) \subseteq DOMAIN rows /\ IsFiniteSet(PastHours(rows, now))
         /\ NextHours(rows, now) \subseteq DOMAIN rows /\ IsFiniteSet(NextHours(rows, now))
<1>1. PastHours(rows, now) \in SUBSET DOMAIN rows /\ NextHours(rows, now) \in SUBSET DOMAIN rows
  BY DEF PastHours, NextHours
<1> QED
  BY <1>1, HourlyRows, FS_Subset

\* What the replay of a day makes of the rows is what a live run would have: the
\* same rain behind and ahead, hour for hour, and at least the same certainty,
\* for every set of rows and every time of day.
THEOREM ReplayFaithful == Spec => []ReplayAgrees
<1>1. TypeOK => ReplayAgrees
  <2> SUFFICES ASSUME TypeOK PROVE ReplayAgrees
    OBVIOUS
  <2> DEFINE next == NextHours(rows, now)
             said == [h \in next |-> OrZero(rows[h].prob)]
             inferred == [h \in next |-> InferredProbability(rows[h])]
             sure == {0} \union {said[h] : h \in next}
             surer == {0} \union {inferred[h] : h \in next}
  <2>1. next \subseteq DOMAIN rows /\ IsFiniteSet(next)
    BY WindowsFinite
  <2>2. said \in [next -> Int] /\ inferred \in [next -> Int]
    BY <2>1, HourlyRows
  <2>3. /\ sure = {0} \union {OrZero(rows[h].prob) : h \in next}
        /\ surer = {0} \union {InferredProbability(rows[h]) : h \in next}
    OBVIOUS
  <2>4. sure \in SUBSET Int /\ IsFiniteSet(sure) /\ surer \in SUBSET Int /\ IsFiniteSet(surer)
    <3> HIDE DEF said, inferred, next
    <3> QED
      BY <2>1, <2>2, ImageFinite
  <2>5. sure # {} /\ surer # {}
    OBVIOUS
  <2>6. /\ Max(sure) \in sure /\ \A x \in sure : Max(sure) >= x
        /\ Max(surer) \in surer /\ \A x \in surer : Max(surer) >= x
    <3> HIDE DEF sure, surer
    <3> QED
      BY <2>4, <2>5, MaxIsGreatest
  <2>7. Max(surer) >= Max(sure)
    <3>1. ASSUME NEW x \in sure
          PROVE  \E y \in surer : y >= x
      <4>1. CASE x = 0
        BY <4>1
      <4>2. ASSUME NEW h \in next, x = said[h]
            PROVE  \E y \in surer : y >= x
        <5>1. inferred[h] >= said[h] /\ inferred[h] \in surer
          BY <2>1, HourlyRows
        <5> QED
          BY <4>2, <5>1
      <4> QED
        BY <4>1, <4>2
    <3> HIDE DEF sure, surer
    <3>2. PICK y \in surer : y >= Max(sure)
      BY <2>6, <3>1
    <3>3. Max(sure) \in Int /\ y \in Int /\ Max(surer) \in Int
      BY <2>4, <2>6
    <3>4. Max(surer) >= y
      BY <2>6
    <3> QED
      BY <3>2, <3>3, <3>4
  <2>8. (\A h \in DOMAIN rows : rows[h].prob # Missing) => sure = surer
    BY <2>1, HourlyRows
  <2>9. /\ LiveContext(rows, now).prob = Max(sure)
        /\ ReplayContext(rows, now).prob = Max(surer)
    BY <2>3, LiveSays, ReplaySays
  <2>10. /\ ReplayContext(rows, now).last = LiveContext(rows, now).last
         /\ ReplayContext(rows, now).next = LiveContext(rows, now).next
    BY LiveSays, ReplaySays
  <2> HIDE DEF sure, surer
  <2> QED
    BY <2>7, <2>8, <2>9, <2>10 DEF ReplayAgrees
<1>2. Spec => []TypeOK
  BY TypeCorrect
<1> QED
  BY <1>1, <1>2, PTL

\* Two millimetres in an hour of a window, or in two, are two millimetres.
LEMMA WetSums ==
  ASSUME TypeOK, NEW S, S \subseteq DOMAIN rows, IsFiniteSet(S), Wet(S)
  PROVE  Rain(rows, S) >= 200
<1>1. \A h \in S : Fall(rows, h) \in Nat
  BY HourlyRows
<1>2. PICK x \in S, y \in S : Fall(rows, x) + (IF x = y THEN 0 ELSE Fall(rows, y)) >= 200
  BY DEF Wet, RainAt, Fall
<1>3. Rain(rows, S) >= Fall(rows, x) + (IF x = y THEN 0 ELSE Fall(rows, y))
  BY <1>1, RainAtLeast
<1>4. Rain(rows, S) \in Nat
  BY <1>1, RainType
<1> QED
  BY <1>1, <1>2, <1>3, <1>4

\* Rain behind or ahead of a run, on the hour or not, is never missed: the model's
\* answer is not overruled as a copied example.
THEOREM RainNeverMissed == Spec => []RainIsSeen
<1>1. IInv => RainIsSeen
  <2> SUFFICES ASSUME IInv, stage \notin {"asked", "refused"}, baseline > 0,
                      port # "synthetic",
                      \/ Wet({h \in DOMAIN rows : h \in (now - Day)..now})
                      \/ Wet({h \in DOMAIN rows : h \in (now + 1)..(now + Day)})
               PROVE  rec.action = reply.action
    BY DEF RainIsSeen
  <2>1. TypeOK /\ rec = Coerce(reply, baseline, IsDry) /\ baseline \in Nat
    BY BaselinesAssumption DEF IInv, TypeOK, Stages
  <2>2. /\ {h \in DOMAIN rows : h \in (now - Day)..now} = PastHours(rows, now)
        /\ {h \in DOMAIN rows : h \in (now + 1)..(now + Day)} = NextHours(rows, now)
    BY <2>1, HourlyRows DEF PastHours, NextHours, Day
  <2>3. \/ Rain(rows, PastHours(rows, now)) >= 200
        \/ Rain(rows, NextHours(rows, now)) >= 200
    BY <2>1, <2>2, WetSums, WindowsFinite
  <2>4. /\ Rain(rows, PastHours(rows, now)) \in Nat
        /\ Rain(rows, NextHours(rows, now)) \in Nat
    BY <2>1, RainType, WindowsFinite, HourlyRows
  <2>5. ContextFrom(port, rows, now) \in {LiveContext(rows, now), ReplayContext(rows, now)}
    BY <2>1 DEF TypeOK, WeatherPorts, ContextFrom
  <2>6. /\ ContextFrom(port, rows, now).last = Rain(rows, PastHours(rows, now))
        /\ ContextFrom(port, rows, now).next = Rain(rows, NextHours(rows, now))
    BY <2>1, <2>5, LiveSays, ReplaySays
  <2>7. ~ IsDry
    BY <2>3, <2>4, <2>6 DEF IsDry, Dry
  <2> QED
    BY <2>1, <2>7 DEF Coerce
<1> QED
  BY <1>1, Invariance, PTL
=============================================================================
