--------------------------- MODULE MCModelRouting ----------------------------
(* ModelRouting over stacks of a user and a project layer: every routing    *)
(* mode, what either says of remote code and of fallbacks, and endpoints of *)
(* every locality; two stacks are refused.                                  *)
EXTENDS ModelRouting

Plain == [locality |-> "host"]
Endpoints ==
  [local |-> [locality |-> "local", retry |-> 1, cost |-> 1],
   small |-> [locality |-> "local", cost |-> 3, latency |-> 1],
   host |-> [locality |-> "host", cost |-> 2],
   remote |-> [locality |-> "remote", cost |-> 2, latency |-> 2, reasoning |-> 5, tools |-> TRUE]]

User(mode, code, remote) ==
  [EmptyLayer EXCEPT
     !.models = [routing_mode |-> mode, remote_code_policy |-> code,
                 allow_remote_escalation |-> remote],
     !.roles = [code_reasoner |-> <<"remote", "host", "local", "small">>],
     !.endpoints = Endpoints]

Project(settings, changed) == [EmptyLayer EXCEPT !.models = settings, !.endpoints = changed]

Denying == [remote_code_policy |-> "deny"]
FallingBack == [allow_local_fallback |-> TRUE]

MCStacks ==
  {<<User(mode, code, remote), Project(project, Nothing)>> :
     mode \in RoutingModes, code \in {"selected_context", "allow"}, remote \in BOOLEAN,
     project \in {Nothing, Denying, FallingBack}}
  \cup {<<>>, <<Project([routing_mode |-> "none"], Nothing)>>,
        <<User("frontier_first", "allow", TRUE), Project(Nothing, [small |-> [window |-> 0]])>>}

Request(source, approved, signals) ==
  [role |-> "code_reasoner", source |-> source, approved |-> approved, tokens |-> 10,
   structured |-> FALSE, tools |-> FALSE, strength |-> 0, requested |-> "small",
   signals |-> signals]

MCRequests ==
  {Request(TRUE, FALSE, {}), Request(TRUE, TRUE, {"wide"}), Request(FALSE, FALSE, {"sensitive"})}

MCAdapters == [local |-> "none", small |-> "openai", host |-> "host", remote |-> "openai"]
=============================================================================
