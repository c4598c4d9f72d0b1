---------------------------- MODULE MCApplication ----------------------------
(* Application with two files, two requirements that share one of them,    *)
(* and sidecars in active, shadow, advisory and mixed mode.                *)
EXTENDS Application, Configuration

(* A project layer under the command layer of --mode, if there is one.     *)
Project(mode, runtime) ==
  [EmptyLayer EXCEPT
     !.flags = [enabled |-> TRUE, mode |-> mode],
     !.capabilities = [c \in ActiveCapabilities |-> IF c = "runtime" THEN runtime ELSE "active"],
     !.depths = [impact |-> [maximum |-> 0]]]

Configured(mode, runtime) == Intelligence(Merged(<<Project(mode, runtime)>>))
Commanded(mode) == Intelligence(Merged(<<Project("off", "off"), CommandLayer(mode)>>))

Scenario(mode, runtime, what) == [config |-> Configured(mode, runtime), happens |-> what]
MCScenarios ==
  { Scenario("active", "off", {"requests", "others", "overflow"}),
    Scenario("active", "off", {"requests", "commits"}),
    Scenario("active", "off", {"verdicts", "commits"}),
    Scenario("active", "active", {"signals"}), [config |-> Commanded("shadow"), happens |-> {"signals"}],
    Scenario("advisory", "active", {"requests"}), Scenario("off", "active", {"requests"}) }

MCRequirements ==
  << [expects |-> <<"a">>, mandatory |-> TRUE, verify |-> TRUE, after |-> {}],
     [expects |-> <<"a", "b">>, mandatory |-> FALSE, verify |-> TRUE, after |-> {}] >>
MCTarget ==
  << [expects |-> <<"a">>, mandatory |-> TRUE, verify |-> TRUE, after |-> {}],
     [expects |-> <<"b">>, mandatory |-> TRUE, verify |-> FALSE, after |-> {1}] >>

Item(statuses, source, refs) ==
  [given |-> TRUE, external |-> FALSE, statuses |-> statuses, source |-> source, refs |-> refs]
MCItems ==
  { [Item({}, 0, {}) EXCEPT !.given = FALSE], [Item({"verified"}, 0, {"a"}) EXCEPT !.external = TRUE],
    Item({"failed", "verified"}, 0, {"a"}), Item({"observed"}, 0, {"a"}), Item({}, 0, {"a"}) }
    \cup { Item({"verified"}, c, {"a"}) : c \in 0..MaxCommits }

MCFlags ==
  {NoFlags, [NoFlags EXCEPT !.unsafe = TRUE], [NoFlags EXCEPT !.decision = TRUE],
   [NoFlags EXCEPT !.invalid = TRUE], [NoFlags EXCEPT !.changed = {1}]}

MCDeclared == {SignalKinds, SignalKinds \ {"verification"}}
=============================================================================
