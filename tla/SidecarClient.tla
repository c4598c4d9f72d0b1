---------------------------- MODULE SidecarClient ----------------------------
(***************************************************************************)
(* SidecarClient, adapters/opencode/src/client.ts, and the plugin's        *)
(* dispose: concurrent requests over one child process that is spawned on  *)
(* demand, killed when a request fails, and spawned again.                 *)
(*                                                                         *)
(* JavaScript runs a function up to its next await without interruption,   *)
(* so a step is the code between two awaits: start() up to the promise it  *)
(* waits for, a promise that settles with all who wait for it, an answer   *)
(* or the failure of a fetch with the synchronous part of stop() after it. *)
(* The instance fields process, ready and starting are shared by all.      *)
(*                                                                         *)
(* The child process and the HTTP exchange are the environment: they do    *)
(* what the scenario allows.  A child that was sent a signal is doomed: it *)
(* may still answer, and it will exit (SIGKILL follows SIGTERM).           *)
(*                                                                         *)
(* JoinNever, BootTimesOutIfRunning, ForgetAllButReady and StoppedIfReady  *)
(* are no part of the model: each is a plausible mistake in the operator   *)
(* after it, swapped in by PROJECT.json.                                   *)
(***************************************************************************)
EXTENDS Naturals, FiniteSets

CONSTANTS
  Calls,          (* How many calls of request() there are.                 *)
  Scenarios       (* What goes wrong in a behaviour, and how many calls     *)
                  (* overlap at most: records [faults, limit].              *)

(* "exit": a child dies by itself; "slow": there is no ready line in time; *)
(* "incompatible": another ready line; "hang": no answer, or a 5xx;        *)
(* "refuse": a 4xx; "stubborn": SIGTERM takes more than two seconds;       *)
(* "dispose": the plugin is unloaded.                                      *)
Faults == {"exit", "slow", "incompatible", "hang", "refuse", "stubborn", "dispose"}

ASSUME CallsAssumption == Calls \in Nat
ASSUME ScenariosAssumption == Scenarios \subseteq [faults : SUBSET Faults, limit : Nat]

(* Requests are numbered in the order in which they are made.              *)
Requests == 1..Calls

(* A request calls start() at most twice, so this many children suffice.   *)
Sidecars == 1..2 * Calls
None == 0

VARIABLES
  scenario,       (* What may happen in this behaviour.                     *)
  process,        (* The child spawned last, unless stop() cleared it.      *)
  ready,          (* The child whose ready envelope is in use.              *)
  starting,       (* The child whose start the next caller would join.      *)
  unsettled,      (* Children whose spawnSidecar() promise is unsettled.    *)
  sidecar,        (* "unborn", "booting", "up" or "exited", per child.      *)
  doomed,         (* Children that were sent SIGTERM or SIGKILL.            *)
  disposed,       (* dispose() was called.                                  *)
  pc,             (* What each request waits for.                           *)
  at,             (* The child it waits for.                                *)
  failedAt        (* The child its first attempt failed on.                 *)

setting == <<scenario, disposed>>
fields == <<process, ready, starting>>
world == <<unsettled, sidecar, doomed>>
calls == <<pc, at, failedAt>>
vars == <<scenario, process, ready, starting, unsettled, sidecar, doomed, disposed, pc, at, failedAt>>

TypeOK ==
  /\ scenario \in Scenarios
  /\ {process, ready, starting} \subseteq Sidecars \cup {None}
  /\ unsettled \subseteq Sidecars
  /\ sidecar \in [Sidecars -> {"unborn", "booting", "up", "exited"}]
  /\ doomed \subseteq Sidecars
  /\ disposed \in BOOLEAN
  /\ pc \in [Requests -> {"new", "boot", "fetch", "again", "answered", "failed"}]
  /\ at \in [Requests -> Sidecars \cup {None}]
  /\ failedAt \in [Requests -> Sidecars \cup {None}]

Init ==
  /\ scenario \in Scenarios
  /\ process = None /\ ready = None /\ starting = None
  /\ unsettled = {} /\ doomed = {}
  /\ sidecar = [s \in Sidecars |-> "unborn"]
  /\ disposed = FALSE
  /\ pc = [r \in Requests |-> "new"]
  /\ at = [r \in Requests |-> None]
  /\ failedAt = [r \in Requests |-> None]

InFlight == { r \in Requests : pc[r] \in {"boot", "fetch", "again"} }
Live == { s \in Sidecars : sidecar[s] \in {"booting", "up"} /\ s \notin doomed }

(***************************************************************************)
(* start(): the first call of a request, and the second after stop().      *)
(***************************************************************************)

(* stop() returns once the child it ended is gone, or after two seconds.   *)
StopReturned(r) ==
  /\ pc[r] = "again"
  /\ at[r] \notin { s \in Sidecars : sidecar[s] # "exited" } \/ "stubborn" \in scenario.faults

CallsStart(r) ==
  \/ StopReturned(r)
  \/ /\ pc[r] = "new" /\ ~ disposed
     /\ \A earlier \in 1..r - 1 : pc[earlier] # "new"
     /\ Cardinality(InFlight) < scenario.limit

Goto(r, to, s) == pc' = [pc EXCEPT ![r] = to] /\ at' = [at EXCEPT ![r] = s]

UseReady(r) ==
  /\ CallsStart(r)
  /\ ready # None
  /\ Goto(r, "fetch", ready)
  /\ UNCHANGED <<fields, world, setting, failedAt>>

JoinNever == None
Joinable == starting

JoinStart(r) ==
  /\ CallsStart(r)
  /\ ready = None /\ Joinable # None
  /\ Goto(r, "boot", Joinable)
  /\ UNCHANGED <<fields, world, setting, failedAt>>

(* spawnSidecar() up to the promise it returns.                            *)
Spawn(r) ==
  LET s == Cardinality({ x \in Sidecars : sidecar[x] # "unborn" }) + 1
  IN /\ CallsStart(r)
     /\ ready = None /\ Joinable = None
     /\ process' = s /\ starting' = s
     /\ unsettled' = unsettled \cup {s}
     /\ sidecar' = [sidecar EXCEPT ![s] = "booting"]
     /\ Goto(r, "boot", s)
     /\ UNCHANGED <<ready, doomed, setting, failedAt>>

(* The promise settles for the caller that spawned and all that joined;    *)
(* the finally clause clears starting, whatever it holds by then.          *)
Settle(s, to) ==
  /\ unsettled' = unsettled \ {s}
  /\ starting' = None
  /\ pc' = [r \in Requests |-> IF pc[r] = "boot" /\ at[r] = s THEN to ELSE pc[r]]
  /\ UNCHANGED <<process, setting, at, failedAt>>

Announce(s) ==
  /\ s \in unsettled /\ sidecar[s] = "booting"
  /\ sidecar' = [sidecar EXCEPT ![s] = "up"]
  /\ ready' = s
  /\ Settle(s, "fetch")
  /\ UNCHANGED doomed

(* "sidecar returned an incompatible ready envelope": nobody kills it.     *)
AnnounceIncompatible(s) ==
  /\ "incompatible" \in scenario.faults
  /\ s \in unsettled /\ sidecar[s] = "booting"
  /\ sidecar' = [sidecar EXCEPT ![s] = "up"]
  /\ Settle(s, "failed")
  /\ UNCHANGED <<ready, doomed>>

(* The exit listener rejects the start only while no child is ready.       *)
Exit(s) ==
  /\ sidecar[s] \in {"booting", "up"}
  /\ s \in doomed \/ "exit" \in scenario.faults
  /\ sidecar' = [sidecar EXCEPT ![s] = "exited"]
  /\ IF s \in unsettled /\ ready = None
       THEN Settle(s, "failed")
       ELSE UNCHANGED <<process, starting, unsettled, setting, calls>>
  /\ UNCHANGED <<ready, doomed>>

BootTimesOutIfRunning(s) == "slow" \in scenario.faults /\ sidecar[s] = "booting"

(* The ready line is late, or never comes because the child is gone.       *)
BootTimesOut(s) == "slow" \in scenario.faults \/ sidecar[s] = "exited"

BootTimeout(s) ==
  /\ s \in unsettled
  /\ BootTimesOut(s)
  /\ doomed' = doomed \cup {s}
  /\ Settle(s, "failed")
  /\ UNCHANGED <<ready, sidecar>>

(***************************************************************************)
(* requestJson() and the catch clause of request().                        *)
(***************************************************************************)

Answered(r) ==
  /\ pc[r] = "fetch"
  /\ sidecar[at[r]] = "up"
  /\ Goto(r, "answered", None)
  /\ UNCHANGED <<fields, world, setting, failedAt>>

(* SidecarRequestError below 500 is thrown to the caller.                  *)
Refused(r) ==
  /\ "refuse" \in scenario.faults
  /\ pc[r] = "fetch"
  /\ sidecar[at[r]] = "up"
  /\ Goto(r, "failed", None)
  /\ UNCHANGED <<fields, world, setting, failedAt>>

FetchFails(r) ==
  /\ pc[r] = "fetch"
  /\ sidecar[at[r]] = "exited" \/ at[r] \in doomed \/ "hang" \in scenario.faults

ForgetAllButReady == process' = None /\ starting' = None /\ UNCHANGED ready
Forget == process' = None /\ ready' = None /\ starting' = None

StoppedIfReady == { s \in {process} \ {None} : sidecar[s] = "up" }

(* The child stop() ends: the one spawned last, unless it has exited.      *)
Stopped == { s \in {process} \ {None} : sidecar[s] # "exited" }

(* stop() up to its await.                                                 *)
Stop ==
  /\ Forget
  /\ doomed' = doomed \cup Stopped
  /\ UNCHANGED <<unsettled, sidecar>>

MayRetry(r) == failedAt[r] = None

Retry(r) ==
  /\ FetchFails(r)
  /\ MayRetry(r)
  /\ Stop
  /\ failedAt' = [failedAt EXCEPT ![r] = at[r]]
  /\ Goto(r, "again", IF Stopped = {} THEN None ELSE process)
  /\ UNCHANGED setting

GiveUp(r) ==
  /\ FetchFails(r)
  /\ ~ MayRetry(r)
  /\ Goto(r, "failed", None)
  /\ UNCHANGED <<fields, world, setting, failedAt>>

(* dispose() stops the client; requests under way are not waited for.      *)
Dispose ==
  /\ "dispose" \in scenario.faults
  /\ ~ disposed
  /\ disposed' = TRUE
  /\ Stop
  /\ UNCHANGED <<scenario, calls>>

----------------------------------------------------------------------------

Start(r) == UseReady(r) \/ JoinStart(r) \/ Spawn(r)
FetchSettles(r) == Answered(r) \/ Refused(r) \/ Retry(r) \/ GiveUp(r)
BootSettles(s) == Announce(s) \/ AnnounceIncompatible(s) \/ BootTimeout(s) \/ (s \in unsettled /\ Exit(s))

Next ==
  \/ \E r \in Requests : Start(r) \/ FetchSettles(r)
  \/ \E s \in Sidecars : BootSettles(s) \/ Exit(s)
  \/ Dispose

(* A promise continuation runs once it is due.  Every wait has a timer of  *)
(* its own: 15 s for a start, 30 s for a fetch, 2 s for stop().  A child   *)
(* that was sent a signal exits.                                           *)
Fairness ==
  /\ \A r \in Requests : WF_vars(pc[r] = "again" /\ Start(r)) /\ WF_vars(FetchSettles(r))
  /\ \A s \in Sidecars : WF_vars(BootSettles(s)) /\ WF_vars(s \in doomed /\ Exit(s))

Spec == Init /\ [][Next]_vars /\ Fairness

----------------------------------------------------------------------------
(* Properties.                                                             *)

(* Callers that need a sidecar before one is ready share one start: while  *)
(* nothing fails, no second sidecar is spawned, however requests overlap.  *)
OneStart ==
  scenario.faults \subseteq {"refuse"}
    => Cardinality({ s \in Sidecars : sidecar[s] # "unborn" }) <= 1

(* "One plugin, one sidecar": a sidecar that runs is the one stop() will   *)
(* end, and retries and restarts leave none behind.                        *)
OneSidecar == Live \subseteq {process}

(* That is so while calls do not overlap and every child that announces    *)
(* itself speaks this interface.                                           *)
OneSidecarInSequence ==
  scenario.limit = 1 /\ "incompatible" \notin scenario.faults => OneSidecar

(* A retried request goes to another sidecar than the one it failed on,    *)
(* whatever other requests stopped and started meanwhile.                  *)
RetryIsFresh ==
  \A r \in Requests : pc[r] \in {"boot", "fetch"} /\ failedAt[r] # None => at[r] # failedAt[r]

(* No request waits forever: not for a start that nobody completes, not    *)
(* for a sidecar another request has stopped.                              *)
RequestsSettle == \A r \in Requests : pc[r] \in {"boot", "fetch", "again"} ~> r \notin InFlight

============================================================================
