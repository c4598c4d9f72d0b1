----------------------------- MODULE MCRuntime -----------------------------
(* Runtime with a failing and a passing test of one ref, in a git          *)
(* repository that is edited once.                                         *)
EXTENDS Runtime

MCResults == {"unit test", "smoke test"}
MCStatus == [r \in MCResults |-> IF r = "unit test" THEN "failed" ELSE "passed"]

============================================================================
