---------------------------- MODULE MCEvaluation ----------------------------
(* Evaluation with the one tier of the quality target, a pilot of two arms  *)
(* and one round, a baseline of two cells and a screening of one.  An older *)
(* runner leaves the whole baseline, or half of it with the other half's    *)
(* tier paused.                                                             *)
EXTENDS Evaluation

Cell(arm, task) ==
  [arm |-> arm, task |-> task, repetition |-> 1, tier |-> "local-practical"]

MCSchedule ==
  [activation |-> <<Cell("active", "activation")>>,
   pilot |-> <<Cell("off", "symbol"), Cell("active", "symbol")>>,
   baseline |-> <<Cell("off", "symbol"), Cell("active", "symbol")>>,
   screening |-> <<Cell("ablation:graph", "symbol")>>]

Measured1(outcome, observed) == [outcome |-> outcome, observed |-> observed, wall |-> 1]

MCMeasurements ==
  [activation |-> {Measured1("PASS", TRUE), Measured1("FAIL", FALSE)},
   pilot |-> {Measured1("PASS", TRUE), Measured1("FAIL", TRUE)},
   baseline |-> {Measured1("PASS", TRUE), Measured1("UNAVAILABLE", TRUE)},
   screening |-> {Measured1("PASS", TRUE)}]

Older(arms, status) ==
  [results |-> {[cell |-> Cell(arm, "symbol"), outcome |-> "PASS", observed |-> TRUE, wall |-> 1,
                 head |-> 0] : arm \in arms},
   queue |-> [t \in Tiers |-> status]]

MCOlderBaselines == {Older({"off", "active"}, "none"), Older({"off"}, "PAUSED")}

=============================================================================
