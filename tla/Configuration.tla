---------------------------- MODULE Configuration ----------------------------
(***************************************************************************)
(* ConfigResolver, core/config/resolver.py, and resolve_policy of          *)
(* adapters/local_sidecar.py: the defaults and the layers over them (user, *)
(* project, command) are merged key by key and the result is taken whole   *)
(* or refused.                                                             *)
(*                                                                         *)
(* A layer gives some of the keys of Defaults: flags and models are        *)
(* settings, capabilities and roles go by name, depths and endpoints by    *)
(* name to settings of their own.  A value of the wrong type is one more   *)
(* value out of range; numeric budgets are one setting, budget; JSONC,     *)
(* which is how a file is read, and the analyzers' names are left out.     *)
(*                                                                         *)
(* OutOfOrder is no part of the model: PROJECT.json swaps it in for the   *)
(* operator after it.                                                      *)
(***************************************************************************)
EXTENDS Policy, SequencesExt

Localities == {"local", "host", "remote"}
RoutingModes ==
  {"manual", "local_first", "frontier_first", "cost_optimized", "latency_optimized",
   "quality_optimized", "adaptive", "host_only", "local_only"}
RemoteCodePolicies == {"deny", "metadata_only", "selected_context", "allow"}
Roles ==
  {"fast_classifier", "small_structured", "summarizer", "code_reasoner", "strategy_reasoner",
   "research_synthesizer", "verification_reviewer", "fallback"}

Nothing == [n \in {} |-> 0]

(* DEFAULT_CONFIG.                                                          *)
Defaults ==
  [flags        |-> [enabled |-> FALSE, mode |-> "off", profile |-> "balanced", budget |-> 100],
   capabilities |-> [c \in Capabilities |-> "off"],
   depths       |-> Nothing,
   models       |-> [routing_mode |-> "host_only", allow_remote_escalation |-> FALSE,
                     allow_local_fallback |-> FALSE, remote_code_policy |-> "deny"],
   roles        |-> Nothing,
   endpoints    |-> Nothing]

EmptyLayer == [section \in DOMAIN Defaults |-> Nothing]

(* _deep_merge.  A list, such as the endpoints of a role, is replaced whole.*)
Override(target, source) ==
  [k \in DOMAIN target \cup DOMAIN source |-> IF k \in DOMAIN source THEN source[k] ELSE target[k]]

OverrideEach(target, source) ==
  [n \in DOMAIN target \cup DOMAIN source |->
     IF n \notin DOMAIN source THEN target[n]
     ELSE IF n \notin DOMAIN target THEN source[n]
     ELSE Override(target[n], source[n])]

Merge(target, layer) ==
  [flags        |-> Override(target.flags, layer.flags),
   capabilities |-> Override(target.capabilities, layer.capabilities),
   depths       |-> OverrideEach(target.depths, layer.depths),
   models       |-> Override(target.models, layer.models),
   roles        |-> Override(target.roles, layer.roles),
   endpoints    |-> OverrideEach(target.endpoints, layer.endpoints)]

OutOfOrder(layers) == FoldLeft(Merge, Defaults, Reverse(layers))
Merged(layers) ==
  LET upTo[n \in 0..Len(layers)] == IF n = 0 THEN Defaults ELSE Merge(upTo[n - 1], layers[n])
  IN upTo[Len(layers)]

-----------------------------------------------------------------------------
(* _materialize: what makes a merged configuration one that is refused.     *)

(* unconfigurable_reason: not implemented, or governed by another.          *)
Configurable(c) == c \notin NotImplemented /\ Governing(c) = c

EndpointDefaults ==
  [window |-> 8192, retry |-> 0, cost |-> 0, latency |-> 0,
   structured |-> FALSE, tools |-> FALSE, reasoning |-> 0, code |-> 0]
Required == {"locality"}

Endpoint(given) == given @@ EndpointDefaults

BoundsDefaults == [minimum |-> 0, maximum |-> 4, preferred |-> -1]
Bounds(given) == given @@ BoundsDefaults

FlagsRefused(raw) ==
  \/ DOMAIN raw.flags # DOMAIN Defaults.flags
  \/ raw.flags.mode \notin RolloutModes
  \/ raw.flags.profile \notin DOMAIN ProfileDepth

BudgetsRefused(raw) == raw.flags.budget <= 0

CapabilitiesRefused(raw) ==
  \/ ~ DOMAIN raw.capabilities \subseteq Capabilities
  \/ \E c \in DOMAIN raw.capabilities :
       \/ raw.capabilities[c] \notin RolloutModes
       \/ raw.capabilities[c] # "off" /\ ~ Configurable(c)

(* _depths.  What is not configurable may not be tuned either.              *)
DepthsRefused(raw) ==
  \E c \in DOMAIN raw.depths :
    LET bounds == Bounds(raw.depths[c]) IN
    \/ c \notin Capabilities \/ ~ Configurable(c)
    \/ ~ {bounds.minimum, bounds.maximum} \subseteq Depths
    \/ bounds.minimum > bounds.maximum
    \/ bounds.preferred # -1 /\ bounds.preferred \notin bounds.minimum..bounds.maximum

(* _endpoint.                                                               *)
EndpointRefused(given) ==
  \/ ~ Required \subseteq DOMAIN given
  \/ ~ DOMAIN given \subseteq Required \cup DOMAIN EndpointDefaults
  \/ given.locality \notin Localities
  \/ Endpoint(given).window <= 0
  \/ \E field \in {"retry", "cost", "latency", "reasoning", "code"} : Endpoint(given)[field] < 0

ModelsRefused(raw) ==
  \/ DOMAIN raw.models # DOMAIN Defaults.models
  \/ raw.models.routing_mode \notin RoutingModes
  \/ raw.models.remote_code_policy \notin RemoteCodePolicies
  \/ \E e \in DOMAIN raw.endpoints : EndpointRefused(raw.endpoints[e])
  \/ \E role \in DOMAIN raw.roles :
       role \notin Roles \/ ~ ToSet(raw.roles[role]) \subseteq DOMAIN raw.endpoints

Refused(raw) ==
  FlagsRefused(raw) \/ BudgetsRefused(raw) \/ CapabilitiesRefused(raw) \/ DepthsRefused(raw)
    \/ ModelsRefused(raw)

(* What Policy is resolved from, ...                                        *)
Intelligence(raw) ==
  [enabled |-> raw.flags.enabled, mode |-> raw.flags.mode, profile |-> raw.flags.profile,
   capabilities |-> [c \in Capabilities |-> raw.capabilities[c]],
   depths |-> [c \in Capabilities |->
                 IF c \in DOMAIN raw.depths THEN Bounds(raw.depths[c]) ELSE BoundsDefaults]]

(* ... and the ModelConfig.                                                 *)
Models(raw) ==
  [routing_mode |-> raw.models.routing_mode,
   allow_remote_escalation |-> raw.models.allow_remote_escalation,
   allow_local_fallback |-> raw.models.allow_local_fallback,
   remote_code_policy |-> raw.models.remote_code_policy,
   roles |-> raw.roles,
   endpoints |-> [e \in DOMAIN raw.endpoints |-> Endpoint(raw.endpoints[e])]]

-----------------------------------------------------------------------------
(* resolve_policy: --mode is a layer over all others.                       *)
ActiveCapabilities ==
  Capabilities \ (NotImplemented \cup {"call_graph"})

CommandLayer(mode) ==
  [EmptyLayer EXCEPT
     !.flags = [enabled |-> mode # "off", mode |-> mode],
     !.capabilities = [c \in ActiveCapabilities |-> mode]]

=============================================================================
