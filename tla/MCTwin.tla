------------------------------- MODULE MCTwin -------------------------------
(* Twin on three files, one importing another and two of them the same     *)
(* dependency, among three that stay put: a closure over importers of one  *)
(* edit is refreshed incrementally or, when it takes in all three, in      *)
(* full.  One sidecar builds a twin and keeps it up to date; two refresh   *)
(* one twin against each other; two share one while contents come back;    *)
(* and one loses events of files that appear, to a full queue or a         *)
(* restart.                                                                *)
EXTENDS Twin

MCPaths == {"a", "b", "c"}
MCImports == {<<"b", "a">>}
MCUses == [p \in MCPaths |-> IF p = "a" THEN {} ELSE {"lib"}]
MCAbove == [p \in MCPaths |-> IF p = "c" THEN {"src"} ELSE {"src", "src/core"}]

MCScenarios ==
  {[sidecars |-> {"s1"}, files |-> MCPaths, happens |-> {"first", "open"}, edits |-> 3],
   [sidecars |-> {"s1", "s2"}, files |-> {"a", "b"}, happens |-> {"open"}, edits |-> 2],
   [sidecars |-> {"s1", "s2"}, files |-> {"a"},
    happens |-> {"open", "create", "return", "restart"}, edits |-> 2],
   [sidecars |-> {"s1"}, files |-> {"a", "c"},
    happens |-> {"overflow", "create", "restart"}, edits |-> 2]}

=============================================================================
