----------------------------- MODULE MCMigration -----------------------------
(* Migration of a baseline with two sampled classes and one that is not,    *)
(* an unavailable cell, a timeout, a tier the policy does not require and a *)
(* sealed one, of checkpoints that must not migrate, of a bound one that has *)
(* gaps to requeue, and of a pilot.                                         *)
EXTENDS Migration

Cell(tier, class, arm) == [tier |-> tier, class |-> class, arm |-> arm, local |-> TRUE]

Passed(cell) ==
  [cell |-> cell, outcome |-> "PASS", gap |-> FALSE, provenance |-> TRUE, sealed |-> FALSE]

Baseline ==
  {Passed(Cell("practical", "symbol", "native")), Passed(Cell("practical", "symbol", "active")),
   Passed(Cell("practical", "impact", "native")), Passed(Cell("practical", "refactor", "native")),
   [Passed(Cell("practical", "impact", "active")) EXCEPT !.outcome = "UNAVAILABLE"],
   [Passed(Cell("practical", "refactor", "active")) EXCEPT !.outcome = "TIMEOUT"],
   Passed(Cell("codex", "symbol", "native")),
   [Passed(Cell("low", "symbol", "native")) EXCEPT !.outcome = "UNAVAILABLE", !.sealed = TRUE]}

(* One whose provider failed unnoticed.                                     *)
Gapped ==
  {Passed(Cell("practical", "symbol", "native")),
   [Passed(Cell("codex", "symbol", "native")) EXCEPT !.outcome = "FAIL", !.gap = TRUE]}

Checkpoint(scope, results) ==
  [scope |-> scope, results |-> results, torn |-> FALSE, bound |-> FALSE,
   semantics |-> "same", counted |-> TRUE, proceeds |-> TRUE]

Pilot == {Passed(Cell("practical", "symbol", arm)) : arm \in {"native", "off", "active"}}

MCSources ==
  {Checkpoint("b0a-baseline", Baseline), Checkpoint("b0a-pilot", Pilot),
   [Checkpoint("b0a-baseline", Baseline) EXCEPT !.torn = TRUE],
   [Checkpoint("b0a-baseline", Gapped) EXCEPT !.semantics = "changed"],
   [Checkpoint("b0a-baseline", Gapped) EXCEPT !.semantics = "changed", !.bound = TRUE],
   [Checkpoint("b0a-baseline", Gapped) EXCEPT !.semantics = "unsealed"]}

==============================================================================
