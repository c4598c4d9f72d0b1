--------------------------- MODULE EvaluationGates ---------------------------
(***************************************************************************)
(* What tools/local/evaluation_runner.py concludes from the results of an  *)
(* activation and of an effect pilot: _activation_gate and _pilot_gate,    *)
(* which the runner writes into the report and whoever goes on from the    *)
(* report computes again.                                                  *)
(*                                                                         *)
(* A result is [cell, outcome, observed, wall]: observed says that         *)
(* _activation_assessment, _pilot_active_assessment or                     *)
(* _pilot_off_assessment found what the arm must show (the tools, modes,   *)
(* depths and evidence it has to use or to leave alone); wall is wall_ms.  *)
(* A cell is [scope, arm, task, repetition, tier].                         *)
(***************************************************************************)
EXTENDS Integers, FiniteSets, SequencesExt

CONSTANTS
  Tiers,            (* B0A_ACTIVATION_MODELS.                              *)
  RoutesReachable,  (* The activation plan: every capability route is      *)
                    (* REACHABLE,                                          *)
  InitialRounds,    (* initial_tranche_repetitions and                     *)
  Rounds,           (* repetitions of the pilot,                           *)
  MinDelta,         (* minimum_active_pass_delta_over_best_control,        *)
  MaxRatio          (* maximum_active_median_wall_ratio_over_slower_control. *)

ASSUME GateAssumption ==
  /\ RoutesReachable \in BOOLEAN
  /\ {InitialRounds, Rounds, MinDelta, MaxRatio} \subseteq Nat \ {0}
  /\ InitialRounds <= Rounds

Outcomes == {"PASS", "FAIL", "TIMEOUT", "UNAVAILABLE"}

TiersOf(results) == {r.cell.tier : r \in results}
OfArm(results, arm) == {r \in results : r.cell.arm = arm}
FailedObservation(results) == {r \in results : ~r.observed}

(* _activation_gate: one result per tier, each with its observations.      *)
MissingTiers(results) == Tiers \ TiersOf(results)
UnexpectedTiers(results) == TiersOf(results) \ Tiers
DuplicateTiers(results) ==
  {t \in TiersOf(results) : Cardinality({r \in results : r.cell.tier = t}) # 1}

ActivationPasses(results) ==
  /\ MissingTiers(results) = {} /\ UnexpectedTiers(results) = {}
  /\ DuplicateTiers(results) = {}
  /\ FailedObservation(results) = {}

ComprehensivePermitted(results) == ActivationPasses(results) /\ RoutesReachable

(* _pilot_gate: the stage is read off the set of cells, before anything    *)
(* else; a set that is neither tranche exactly is still being collected.   *)
UpTo(cells, rounds) == {c \in cells : c.repetition <= rounds}

Stage(cells, results) ==
  LET observed == {r.cell : r \in results} IN
  IF observed = UpTo(cells, Rounds) THEN "confirmation_complete"
  ELSE IF observed = UpTo(cells, InitialRounds) THEN "initial_complete"
  ELSE "collecting"

Passes(results, arm) == Cardinality({r \in OfArm(results, arm) : r.outcome = "PASS"})

AtLeast(m, n) == IF m >= n THEN m ELSE n

PassDelta(results) ==
  Passes(results, "active") - AtLeast(Passes(results, "native"), Passes(results, "off"))

(* Twice the median of the walls of an arm that has results.               *)
DoubleMedian(results) ==
  LET walls == SetToSortSeq(results, LAMBDA a, b : a.wall < b.wall)
      n == Len(walls)
  IN walls[(n + 1) \div 2].wall + walls[n \div 2 + 1].wall

Controls(results) == {OfArm(results, "native"), OfArm(results, "off")} \ {{}}

WallAbnormal(results) ==
  \/ OfArm(results, "active") = {}
  \/ \A control \in Controls(results) :
       DoubleMedian(OfArm(results, "active")) > MaxRatio * DoubleMedian(control)

PilotReasons(cells, results) ==
  {reason \in {"provider_or_timeout", "not_observed", "no_effect", "wall_abnormal"} :
     CASE reason = "provider_or_timeout" ->
            \E r \in results : r.outcome \in {"UNAVAILABLE", "TIMEOUT"}
       [] reason = "not_observed" ->
            FailedObservation(OfArm(results, "active") \cup OfArm(results, "off")) # {}
       [] reason = "no_effect" -> PassDelta(results) < MinDelta
       [] reason = "wall_abnormal" -> WallAbnormal(results)}

PilotDecision(cells, results) ==
  IF Stage(cells, results) = "collecting" THEN "COLLECT_MORE_CELLS"
  ELSE IF PilotReasons(cells, results) # {} THEN "REPAIR_AND_RETEST"
  ELSE IF Stage(cells, results) = "initial_complete" THEN "CONTINUE_TO_CONFIRMATION"
  ELSE "PROCEED_TO_COMPREHENSIVE"

=============================================================================
