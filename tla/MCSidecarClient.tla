-------------------------- MODULE MCSidecarClient --------------------------
(* SidecarClient on three requests, under one choice of what goes wrong    *)
(* after another: one call at a time with nearly every fault, overlapping  *)
(* calls with the faults that make a sidecar fail, and calls that overlap  *)
(* while nothing fails.                                                    *)
EXTENDS SidecarClient

With(faults, limit) == [faults |-> faults, limit |-> limit]

MCScenarios ==
  {With(Faults \ {"incompatible"}, 1),
   With({"exit", "incompatible", "hang"}, 3),
   With({"exit", "slow"}, 3),
   With({"refuse"}, 3)}

============================================================================
