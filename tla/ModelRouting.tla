---------------------------- MODULE ModelRouting -----------------------------
(***************************************************************************)
(* PolicyModelRouter, core/model_routing/router.py, under a configuration  *)
(* resolved from layers, over the adapters of adapters.py: which endpoints *)
(* may hear a request, in what order, with what retries and fallbacks, and *)
(* what the OpenCode host adapter leaves behind at the host.               *)
(*                                                                         *)
(* One request is executed at a time, as execute is a plain call.  Any     *)
(* call to an endpoint may be refused, may be answered badly, or may be    *)
(* lost on its way there or back, which is the same to the caller.         *)
(*                                                                         *)
(* SkippedOver and RaisedBeforeTry are no part of the model: PROJECT.json  *)
(* swaps each in for the operator after it.                                *)
(***************************************************************************)
EXTENDS Configuration

CONSTANTS
  Stacks,       (* Sequences of layers, of which one is resolved.           *)
  Requests,     (* What may be asked: [role, source, approved, tokens,      *)
                (* structured, tools, strength, requested, signals].        *)
  Adapters,     (* Endpoint -> "openai", "host" or "none".                  *)
  MaxRequests   (* Bound: requests in a behaviour.                          *)

IsList(s) == s \in Seq(ToSet(s))

ASSUME RoutingAssumption ==
  /\ MaxRequests \in Nat
  /\ \A stack \in Stacks :
       IsList(stack) /\ \A n \in DOMAIN stack : \A role \in DOMAIN stack[n].roles : IsList(stack[n].roles[role])

VARIABLES
  layers,       (* The stack.                                               *)
  models,       (* Its ModelConfig, or Unresolved.                          *)
  asked,        (* How many requests were executed.                         *)
  exchange,     (* execute: [step, request, candidates, index, tries,       *)
                (* attempts, good], good once the host's answer is whole.   *)
  heard,        (* What reached an endpoint: [endpoint, request].           *)
  sessions,     (* Those open at the host: [id, lost], lost being the call  *)
                (* about it that was lost, or "none".                       *)
  response      (* Of the last request.                                     *)

routingVars == <<layers, models, asked, exchange, heard, sessions, response>>

Unresolved == [refused |-> TRUE]
Idle == [step |-> "idle"]
Unavailable == [endpoint |-> "none", attempts |-> <<>>]

Resolved(stack) ==
  LET raw == Merged(stack) IN IF Refused(raw) THEN Unresolved ELSE Models(raw)

RoutingInit ==
  /\ layers \in Stacks /\ models = Resolved(layers)
  /\ asked = 0 /\ exchange = Idle /\ heard = {} /\ sessions = {} /\ response = Unavailable

-----------------------------------------------------------------------------
(* route.                                                                   *)

LocalityRank == [local |-> 0, host |-> 1, remote |-> 2]

(* The key of _ordered_candidates, compared lexicographically.              *)
SortKey(e) ==
  LET endpoint == models.endpoints[e] IN
  CASE models.routing_mode \in {"local_first", "adaptive"} -> <<LocalityRank[endpoint.locality], 0>>
    [] models.routing_mode = "frontier_first" -> <<0 - LocalityRank[endpoint.locality], 0>>
    [] models.routing_mode = "cost_optimized" -> <<endpoint.cost, 0>>
    [] models.routing_mode = "latency_optimized" -> <<endpoint.latency, 0>>
    [] models.routing_mode = "quality_optimized" -> <<0 - endpoint.reasoning, 0 - endpoint.code>>
    [] OTHER -> <<0, 0>>

Before(j, k) == j[1] < k[1] \/ (j[1] = k[1] /\ j[2] < k[2])

(* sorted is stable.                                                        *)
Ordered(endpoints) ==
  LET order == SetToSortSeq(DOMAIN endpoints, LAMBDA m, n :
                 \/ Before(SortKey(endpoints[m]), SortKey(endpoints[n]))
                 \/ SortKey(endpoints[m]) = SortKey(endpoints[n]) /\ m < n)
  IN [n \in DOMAIN endpoints |-> endpoints[order[n]]]

OrderedCandidates(request) ==
  LET configured == IF request.role \in DOMAIN models.roles THEN models.roles[request.role]
                    ELSE <<>>
  IN IF models.routing_mode # "manual" THEN Ordered(configured)
     ELSE IF request.requested \in ToSet(configured) THEN <<request.requested>> ELSE <<>>

(* AdaptiveSignals.required_reasoning_strength, for signals that are        *)
(* "wide", "conflicted" or "sensitive".                                     *)
RequiredReasoningStrength(signals) ==
  CASE "sensitive" \in signals -> 5
    [] "conflicted" \in signals /\ "sensitive" \notin signals -> 4
    [] "wide" \in signals /\ signals \cap {"conflicted", "sensitive"} = {} -> 3
    [] OTHER -> 0

RequiredReasoning(request) ==
  IF models.routing_mode = "adaptive" /\ RequiredReasoningStrength(request.signals) > request.strength
  THEN RequiredReasoningStrength(request.signals) ELSE request.strength

RemoteSourceAllowed(request) ==
  models.remote_code_policy = "allow"
    \/ (models.remote_code_policy = "selected_context" /\ request.approved)

Rejected(request, endpoint) ==
  \/ models.routing_mode = "local_only" /\ endpoint.locality # "local"
  \/ models.routing_mode = "host_only" /\ endpoint.locality # "host"
  \/ endpoint.locality = "remote" /\ ~ models.allow_remote_escalation
  \/ endpoint.locality = "remote" /\ request.source /\ ~ RemoteSourceAllowed(request)
  \/ request.tokens > endpoint.window
  \/ request.structured /\ ~ endpoint.structured
  \/ request.tools /\ ~ endpoint.tools
  \/ endpoint.reasoning < RequiredReasoning(request)

Route(request) ==
  LET ordered == OrderedCandidates(request)
      upTo[n \in 0..Len(ordered)] ==
        IF n = 0 THEN <<>>
        ELSE IF Rejected(request, models.endpoints[ordered[n]]) THEN upTo[n - 1]
        ELSE Append(upTo[n - 1], ordered[n])
  IN upTo[Len(ordered)]

-----------------------------------------------------------------------------
(* execute.                                                                 *)

Execute(request) ==
  /\ exchange = Idle /\ models # Unresolved /\ asked < MaxRequests
  /\ asked' = asked + 1
  /\ response' = Unavailable
  /\ exchange' = IF Route(request) = <<>> THEN Idle
             ELSE [step |-> "endpoint", request |-> request, candidates |-> Route(request),
                   index |-> 1, tries |-> 0, attempts |-> <<>>, good |-> FALSE]
  /\ UNCHANGED <<layers, models, heard, sessions>>

Current == exchange.candidates[exchange.index]
Locality(e) == models.endpoints[e].locality

FallbackAllowed(previous, following) ==
  CASE Locality(following) = "remote" -> models.allow_remote_escalation
    [] Locality(following) = "local" /\ Locality(previous) # "local" -> models.allow_local_fallback
    [] OTHER -> TRUE

Following(c) == [c EXCEPT !.index = @ + 1, !.tries = 0, !.step = "endpoint"]
Raised == exchange' = Idle /\ response' = [Unavailable EXCEPT !.attempts = exchange.attempts]
Responded(c) == exchange' = Idle /\ response' = [endpoint |-> Current, attempts |-> c.attempts]
Continues(c) == exchange' = c /\ response' = response

SkippedOver == Continues(Following(exchange))

(* A fallback that is not allowed ends the request.                         *)
Forbidden == Raised

(* The next candidate; one that has no adapter still counts as an attempt.  *)
Tried == [exchange EXCEPT !.attempts = Append(@, Current)]

Turn ==
  /\ exchange.step = "endpoint"
  /\ IF exchange.index > Len(exchange.candidates) THEN Raised
     ELSE IF exchange.index > 1 /\ ~ FallbackAllowed(exchange.candidates[exchange.index - 1], Current)
     THEN Forbidden
     ELSE IF Adapters[Current] = "none" THEN Continues(Following(Tried))
     ELSE Continues([exchange EXCEPT !.step = "attempt"])
  /\ UNCHANGED <<layers, models, asked, heard, sessions>>

(* An attempt is made once and retry times more.                            *)
Failed(c) ==
  IF c.tries < models.endpoints[Current].retry
  THEN [c EXCEPT !.tries = @ + 1, !.step = "attempt"] ELSE Following(c)

Hears(arrives) ==
  heard' = IF arrives THEN heard \cup {[endpoint |-> Current, request |-> exchange.request]} ELSE heard

(* OpenAICompatibleAdapter.complete.                                        *)
CompleteOpenAI(outcome, arrives) ==
  /\ exchange.step = "attempt" /\ Adapters[Current] = "openai"
  /\ outcome # "lost" => arrives
  /\ Hears(arrives)
  /\ IF outcome = "good" THEN Responded(Tried) ELSE Continues(Failed(Tried))
  /\ UNCHANGED <<layers, models, asked, sessions>>

(* OpenCodeHostAdapter.complete: a session for the one message, ...         *)
Session == <<asked, Len(exchange.attempts)>>

CreateSession(outcome, arrives) ==
  /\ exchange.step = "attempt" /\ Adapters[Current] = "host"
  /\ outcome # "lost" => arrives = (outcome = "good")
  /\ sessions' = IF arrives
                 THEN sessions \cup {[id |-> <<asked, Len(Tried.attempts)>>,
                                     lost |-> IF outcome = "good" THEN "none" ELSE "create"]}
                 ELSE sessions
  /\ Continues(IF outcome = "good" THEN [Tried EXCEPT !.step = "message"] ELSE Failed(Tried))
  /\ UNCHANGED <<layers, models, asked, heard>>

Lost(which) ==
  {IF s.id = Session THEN [s EXCEPT !.lost = which] ELSE s : s \in sessions}

RaisedBeforeTry == Failed(exchange)
Releasing == [exchange EXCEPT !.step = "release", !.good = FALSE]

(* ... which may fail at the provider; when it is lost it is raised before  *)
(* the try whose finally deletes the session.                               *)
SendMessage(outcome, arrives) ==
  /\ exchange.step = "message"
  /\ outcome # "lost" => arrives
  /\ Hears(arrives)
  /\ sessions' = IF outcome = "lost" THEN Lost("message") ELSE sessions
  /\ Continues(CASE outcome = "good" -> [exchange EXCEPT !.step = "history"]
                 [] outcome = "bad" -> Releasing
                 [] outcome = "lost" -> Failed(exchange))
  /\ UNCHANGED <<layers, models, asked>>

(* ... whose token counts are read back ...                                 *)
ReadHistory(outcome) ==
  /\ exchange.step = "history"
  /\ Continues([exchange EXCEPT !.step = "release", !.good = (outcome = "good")])
  /\ UNCHANGED <<layers, models, asked, heard, sessions>>

(* ... before the session is deleted, if that can be.                       *)
DeleteSession(outcome) ==
  /\ exchange.step = "release"
  /\ sessions' = IF outcome = "good" THEN {s \in sessions : s.id # Session} ELSE Lost("delete")
  /\ IF exchange.good THEN Responded(exchange) ELSE Continues(Failed(exchange))
  /\ UNCHANGED <<layers, models, asked, heard>>

Outcomes == {"good", "bad", "lost"}

RoutingNext ==
  \/ \E request \in Requests : Execute(request)
  \/ Turn
  \/ \E outcome \in Outcomes, arrives \in BOOLEAN :
       CompleteOpenAI(outcome, arrives) \/ CreateSession(outcome, arrives) \/ SendMessage(outcome, arrives)
  \/ \E outcome \in Outcomes : ReadHistory(outcome) \/ DeleteSession(outcome)

RoutingSpec == RoutingInit /\ [][RoutingNext]_routingVars

-----------------------------------------------------------------------------
(* Properties.                                                              *)

RoutingTypeOK ==
  /\ asked \in 0..MaxRequests
  /\ exchange.step \in {"idle", "endpoint", "attempt", "message", "history", "release"}
  /\ \A h \in heard : h.endpoint \in DOMAIN models.endpoints /\ h.request \in Requests
  /\ \A s \in sessions : s.lost \in {"none", "create", "message", "delete"}

(* What the layers say of a setting: the last that says something.          *)
Said(setting) ==
  LET says == {n \in DOMAIN layers : setting \in DOMAIN layers[n].models}
  IN IF says = {} THEN Defaults.models[setting] ELSE layers[Max(says)].models[setting]

(* Whatever the routing mode, retries and fallbacks, a remote endpoint      *)
(* hears a request only where the last layer to speak allows escalation,    *)
(* and one with source code only where the last layer to speak of that      *)
(* allows it, or allows what was approved and this was.  ("No silent remote *)
(* escalation is allowed when policy forbids it",                           *)
(* docs/PROJECT_INTELLIGENCE_MASTER_PLAN.md.)                               *)
SourceStaysPermitted ==
  \A h \in heard : Locality(h.endpoint) = "remote" =>
    /\ Said("allow_remote_escalation")
    /\ h.request.source => \/ Said("remote_code_policy") = "allow"
                          \/ /\ Said("remote_code_policy") = "selected_context"
                             /\ h.request.approved

(* Where local fallback is not allowed no request comes down to a local     *)
(* endpoint after it was tried elsewhere, however many endpoints lie        *)
(* between.  (_fallback_allowed looks at the candidate before only.)        *)
NoForbiddenFallback ==
  ~ (models # Unresolved /\ models.allow_local_fallback) =>
    LET attempts == IF exchange = Idle THEN response.attempts ELSE exchange.attempts IN
    \A m, n \in DOMAIN attempts :
      m < n /\ Locality(attempts[m]) # "local" => Locality(attempts[n]) # "local"

(* When nothing is being executed, a session that is still open is one of   *)
(* which a call was lost: a provider that fails, an answer without text or  *)
(* a history that cannot be read leave none.                                *)
SessionsAreClosed == exchange = Idle => \A s \in sessions : s.lost # "none"

(* ... and only a creation or a deletion that was lost can leave one.       *)
(* False: a message that is lost is raised before the finally that deletes. *)
OnlyTheUnreachableStay == exchange = Idle => \A s \in sessions : s.lost \in {"create", "delete"}

=============================================================================
