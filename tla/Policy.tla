------------------------------- MODULE Policy -------------------------------
(***************************************************************************)
(* CapabilityPolicy, src/src/extendcodeagent/core/policy.py and            *)
(* core/config/schema.py: the authority (rollout mode) and the cost        *)
(* (depth) of every capability, resolved from one configuration            *)
(*   [enabled, mode, capabilities : capability -> mode,                    *)
(*    profile, depths : capability -> [minimum, maximum, preferred]]       *)
(* and the initial plan of orchestration/service.py inside those bounds.   *)
(* The text of a task is its intent: the wording rules are not modelled.   *)
(***************************************************************************)
EXTENDS Integers, FiniteSets

ProjectTruth == {"graph", "twin", "semantic"}
NotImplemented ==
  {"cfg", "data_flow", "state_event", "side_effects", "api_schema_db", "ui_graph", "memory"}
Capabilities ==
  ProjectTruth \cup NotImplemented \cup
  {"call_graph", "runtime", "impact", "test_selection", "test_obsolescence", "context",
   "blueprint", "strategy", "convergence", "research", "traceability"}

(* call_graph is folded into semantic: its authority is semantic's.        *)
Governing(c) == IF c = "call_graph" THEN "semantic" ELSE c

ModeRank == [off |-> 0, shadow |-> 1, advisory |-> 2, active |-> 3]
RolloutModes == DOMAIN ModeRank
BoundedMode(global, mode) == IF ModeRank[mode] <= ModeRank[global] THEN mode ELSE global

ModesOf(config) ==
  [c \in Capabilities |->
     IF ~ config.enabled \/ config.mode = "off" \/ c \in NotImplemented THEN "off"
     ELSE BoundedMode(config.mode, config.capabilities[Governing(c)])]

(* D0 to D4 are 0 to 4; -1 is a preferred depth that is not given.         *)
Depths == 0..4
ProfileDepth == [eco |-> 1, balanced |-> 2, quality |-> 3, max |-> 4, auto |-> 2]
ResolveDepth(profile, bounds) ==
  LET chosen == IF bounds.preferred >= 0 THEN bounds.preferred ELSE ProfileDepth[profile]
  IN  CASE chosen < bounds.minimum -> bounds.minimum
        [] chosen > bounds.maximum /\ chosen >= bounds.minimum -> bounds.maximum
        [] OTHER -> chosen

DepthsOf(config) ==
  [c \in Capabilities |-> ResolveDepth(config.profile, config.depths[Governing(c)])]

FromConfig(config) == [modes |-> ModesOf(config), depths |-> DepthsOf(config)]

IsEnabled(policy, c) == policy.modes[c] # "off"
ComputesAutomatically(policy, c) == policy.modes[c] \in {"shadow", "active"}
AllowsExplicitUse(policy, c) == policy.modes[c] \in {"advisory", "active"}

(***************************************************************************)
(* build_intelligence_plan.                                                *)
(***************************************************************************)

(* _PLAN_BY_INTENT: what an intent wants, and the depth it starts at.      *)
Wants ==
  [ mechanical            |-> {},
    locate_explain        |-> ProjectTruth,
    impact_assessment     |-> ProjectTruth \cup {"impact"},
    test_selection        |-> ProjectTruth \cup {"test_selection"},
    refactor              |-> ProjectTruth \cup {"impact", "blueprint", "strategy"},
    bug_fix               |-> ProjectTruth \cup {"impact", "test_selection"},
    requirement_trace     |-> ProjectTruth \cup {"traceability", "convergence"},
    runtime_boundary      |-> ProjectTruth \cup {"context", "runtime", "traceability", "convergence"},
    insufficient_evidence |-> {"runtime", "traceability", "convergence"},
    architecture          |-> ProjectTruth \cup {"impact", "blueprint", "strategy", "convergence"},
    research              |-> ProjectTruth \cup {"context", "research"},
    change                |-> ProjectTruth \cup {"impact", "test_selection"},
    unknown               |-> {} ]
Intents == DOMAIN Wants
StartsAt ==
  [i \in Intents |->
     IF i \in {"mechanical", "locate_explain", "impact_assessment", "test_selection", "unknown"}
       THEN 0 ELSE 1]

(* No deeper than the shallowest of the selected capabilities.             *)
BoundedMinimumDepth(desired, selected, policy) ==
  CHOOSE d \in Depths :
    /\ d <= desired /\ \A c \in selected : d <= policy.depths[c]
    /\ selected = {} => d = 0
    /\ selected # {} => d = desired \/ \E c \in selected : d = policy.depths[c]

(* signals: [task, changed, model, tools, checks].                         *)
IntelligencePlan(signals, policy) ==
  LET desired == Wants[signals.task]
      selected == { c \in desired : IsEnabled(policy, c) }
  IN  [ intent      |-> signals.task,
        changed     |-> signals.changed,
        model       |-> signals.model,
        selected    |-> selected,
        unavailable |-> desired \ selected,
        depth       |-> BoundedMinimumDepth(StartsAt[signals.task], selected, policy),
        needs       |-> { n \in {"fresh_runtime_evidence", "verification_coverage"} :
                            \/ n = "fresh_runtime_evidence" /\ "runtime" \in desired
                                 /\ ~ signals.tools
                            \/ n = "verification_coverage" /\ "test_selection" \in desired
                                 /\ ~ signals.checks } ]

=============================================================================
