--------------------------- MODULE MCManualReview ---------------------------
(* Instances of ManualReview for TLC: a run waters or skips of its own, an   *)
(* operator approves as it is or with an INCREASE to 20 minutes.                      *)
EXTENDS ManualReview

OwnCommands == {[action |-> "keep", dur |-> 15, slot |-> 1],
                [action |-> "skip", dur |-> NoDuration, slot |-> 1]}
PlainOrLonger == {[action |-> NoAction, dur |-> NoDuration],
                  [action |-> "increase", dur |-> 20]}
==============================================================================
