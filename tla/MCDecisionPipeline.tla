------------------------- MODULE MCDecisionPipeline -------------------------
(* Inputs on which TLC checks DecisionPipeline: every kind of reply around   *)
(* the boundaries of the rules, on the seasonal baselines (10, 15, 25), no   *)
(* baseline, the device's maximum and a baseline above it.                   *)
EXTENDS DecisionPipeline, TLC

MCBaselines == {0, 1, 10, 15, 25, 60, 90}

MCReplies ==
  [action : Actions, dur : {-1, 0, 9, 15, 32, 61, 120, NoDuration},
   conf : {69, 70, 86, 101}, policyOk : BOOLEAN, example : {FALSE}]
  \union
  [action : {"reduce"}, dur : {32}, conf : {70, 86}, policyOk : {TRUE}, example : {TRUE}]

\* Rain at the ends of both windows, beyond them and now; together or alone;
\* certain, likely or of unknown probability; and no rows at all.
Shower(rain, prob) == [rain |-> rain, prob |-> prob]
MCWeathers ==
  {<<>>}
  \union {(h :> Shower(200, Missing)) : h \in {-50, -48, 0, 2, 48, 50}}
  \union {(h :> Shower(100, 10)) @@ (h + 2 :> Shower(100, Missing)) : h \in {-48, 0, 46}}
  \union {(2 :> Shower(Missing, 20)), (48 :> Shower(0, 20)), (0 :> Shower(0, 20)),
          (-48 :> Shower(150, 0)) @@ (2 :> Shower(150, 19))}
=============================================================================
