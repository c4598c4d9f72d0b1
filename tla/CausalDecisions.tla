--------------------------- MODULE CausalDecisions ---------------------------
(***************************************************************************)
(* What the evaluation concludes from pairs of results, one with a         *)
(* capability and one without: the sequential decision of the screening    *)
(* (evaluation/adaptive.py), the causal assessment of a forced pair        *)
(* (evaluation/causal.py), and the verdicts that                           *)
(* tools/local/causal_correction_runner.py and b0b_confirmation_runner.py  *)
(* draw from them.                                                         *)
(*                                                                         *)
(* A pair is [task, repetition, on, off]: the outcomes of the two cells,   *)
(* "none" for a cell without a result, and compliant, in forced pairs, for *)
(* each side.  A depth is its place in DEPTH_ORDER.                        *)
(*                                                                         *)
(* FutureCounted is no part of the model: it is a plausible mistake in     *)
(* SequentialDecision, swapped in by PROJECT.json.                         *)
(***************************************************************************)
EXTENDS Integers, FiniteSets, Sequences

CONSTANTS
  Rounds,        (* max_repetitions, REPETITIONS.                           *)
  Threshold,     (* threshold, EFFECT_PASS_DELTA.                           *)
  CriticalTasks  (* Those of class negative-control or                      *)
                 (* unsafe-or-insufficient-evidence.                        *)

ASSUME CausalAssumption == {Rounds, Threshold} \subseteq Nat \ {0}

PassesOn(pairs) == Cardinality({p \in pairs : p.on = "PASS"})
PassesOff(pairs) == Cardinality({p \in pairs : p.off = "PASS"})
Delta(pairs) == PassesOn(pairs) - PassesOff(pairs)
CriticalLoss(pairs) ==
  \E p \in pairs : p.on = "PASS" /\ p.off # "PASS" /\ p.task \in CriticalTasks
Effect(pairs) == Delta(pairs) >= Threshold \/ CriticalLoss(pairs)

(* depth_equivalence_classes and representative_depths: of the depths that  *)
(* give the same output, the least.                                         *)
Representatives(outputs) ==
  {d \in DOMAIN outputs : \A e \in DOMAIN outputs : outputs[e] = outputs[d] => d <= e}

(* sequential_ablation_decision: a repetition to come can add no more to    *)
(* the delta than its active passes.                                        *)
Completed(pairs, round) == {p \in pairs : p.repetition <= round /\ p.off # "none"}
FuturePasses(pairs, round) ==
  Cardinality({p \in pairs : p.on = "PASS" /\ p.repetition > round})

FutureCounted(pairs, round) ==
  LET done == Completed(pairs, round) IN
  IF Delta(done) + FuturePasses(pairs, round) >= Threshold THEN "PROCEED_TO_B0B_EARLY"
  ELSE "NO_SCREENED_EFFECT"

SequentialDecision(pairs, round) ==
  LET done == Completed(pairs, round) IN
  IF pairs = {} THEN "NOT_TESTED_NO_ACTIVE_USE"
  ELSE IF Effect(done) THEN "PROCEED_TO_B0B_EARLY"
  ELSE IF round = Rounds \/ Delta(done) + FuturePasses(pairs, round) < Threshold
       THEN "NO_SCREENED_EFFECT"
  ELSE "CONTINUE_TO_REPETITION"

(* How run_adaptive judges a depth after the repetitions it has so far.     *)
DepthVerdict(observed) ==
  LET passes == Cardinality({n \in DOMAIN observed : observed[n] = "PASS"}) IN
  IF observed = <<"PASS">> \/ passes >= 2 THEN "sufficient"
  ELSE IF (Len(observed) = 2 /\ passes = 0) \/ Len(observed) = Rounds THEN "insufficient"
  ELSE "open"

(* paired_causal_assessment; an input mismatch is a lack of compliance.     *)
Assessment(pair) ==
  IF ~pair.compliant THEN "FORCED_USE_COMPLIANCE_FAILURE"
  ELSE IF pair.on = "PASS" /\ pair.off # "PASS" THEN "POSITIVE_CAUSAL_SIGNAL"
  ELSE IF pair.on = "FAIL" /\ pair.off = "FAIL" THEN "PI_CAPABILITY_GAP"
  ELSE "NO_OBSERVED_CAUSAL_EFFECT_BOUNDARY"

(* _capability_state: the pairs so far, one of each repetition; the last    *)
(* one tells why there was no signal.                                       *)
CapabilityDecision(pairs) ==
  LET classes == {Assessment(p) : p \in pairs}
      last == CHOOSE p \in pairs : \A q \in pairs : q.repetition <= p.repetition
  IN
  IF "POSITIVE_CAUSAL_SIGNAL" \in classes THEN "PROCEED_TO_B0B_CAUSAL"
  ELSE IF {"FORCED_USE_COMPLIANCE_FAILURE", "PI_CAPABILITY_GAP"} \cap classes # {}
       THEN Assessment(last)
  ELSE IF Cardinality(pairs) = Rounds THEN "NO_CORRECTED_CAUSAL_SIGNAL"
  ELSE "BOUNDARY_REQUIRES_NEXT_REPETITION"

(* _aggregate_pairs.                                                        *)
AggregateDecision(pairs, expected) ==
  IF Cardinality(pairs) < expected THEN "NOT_TESTED_INCOMPLETE"
  ELSE IF \E p \in pairs : Assessment(p) = "FORCED_USE_COMPLIANCE_FAILURE"
       THEN "NOT_TESTED_FORCED_USE_COMPLIANCE_FAILURE"
  ELSE IF \E p \in pairs : {p.on, p.off} \cap {"UNAVAILABLE", "TIMEOUT"} # {}
       THEN "NOT_TESTED_PROVIDER_OR_TIMEOUT_GAP"
  ELSE IF Effect(pairs) THEN "CONFIRMED_CAUSAL_EFFECT_PENDING_LAYER_C_BUDGET"
  ELSE "NO_CONFIRMED_CAUSAL_EFFECT"

(* selection_assessment: how each capability fared in a cell that chose its *)
(* tools itself; the entry says what its task expects and what it allows.   *)
SelectionState(entry, used, capability) ==
  CASE capability \in entry.expected /\ capability \in used -> "EXPECTED_AND_USED"
    [] capability \in entry.expected /\ capability \notin used -> "EXPECTED_BUT_NOT_USED"
    [] capability \in used \ entry.expected ->
         IF capability \in entry.optional THEN "OPTIONAL_USED" ELSE "UNRESOLVED"
    [] OTHER -> "IRRELEVANT_NOT_USED"

Selection(entry, used) ==
  [states |-> [c \in entry.expected \cup entry.optional \cup used |->
                 SelectionState(entry, used, c)],
   class |-> IF entry.expected \subseteq used THEN "SELECTION_COMPLETE" ELSE "PI_SELECTION_GAP"]

(* auto_forced_diagnosis; a forced pass that cost more tokens is told apart *)
(* from BOTH_PASS in the code.                                              *)
Diagnosis(auto, forced) ==
  IF auto = "none" \/ (auto = "PASS" /\ forced # "PASS") THEN "UNRESOLVED"
  ELSE IF auto = "PASS" THEN "BOTH_PASS"
  ELSE IF forced = "PASS" THEN "PI_SELECTION_GAP"
  ELSE "PI_CAPABILITY_GAP"

(* efficiency_summary: calls that were made and calls that were spared; it  *)
(* raises when they are more than the plan has.                             *)
Efficiency(requested, executed, avoided) ==
  [executed |-> executed, avoided |-> avoided, raises |-> executed + avoided > requested]

=============================================================================
