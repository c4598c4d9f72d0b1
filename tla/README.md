# A TLA+ model of ExtendCodeAgent

ExtendCodeAgent keeps a *program twin* of a source tree (a graph of files, modules, definitions and
their relations, stored as numbered revisions) and offers it to a coding agent, with plans
("blueprints"), runtime observations, impact reports and verdicts on top. An OpenCode plugin in
TypeScript watches the host and talks over HTTP to a Python sidecar, which it spawns and respawns;
each project has one SQLite file that several sidecars and tools may have open. A second half of the
repository, the evaluation, puts agents to work with and without these capabilities and decides from
the results which of them to keep.

The modules here model both halves where several actors meet, where a process may die between two
writes, or where a decision follows from a long sequence of legal steps. TLC checks each on a small
instance; for all twelve that it checks TLAPS proves safety properties for every instance. Paths below are relative
to the repository; Python is under `src/extendcodeagent/` unless it starts with `tools/`.

## The system

| Part | State | Operations | What is hard | Correct when |
| --- | --- | --- | --- | --- |
| Graph store, `storage/sqlite.py` | tables `revisions`, `projects` (head), `nodes` and `edges` with validity intervals, `evidence`, `delta_log` | `apply`, `snapshot`, `export_snapshot`, `import_snapshot`, `prune` | reads outside transactions, prune against everything, replayed deltas | revisions are immutable, on one line, and the head is the last |
| Program twin, `twin/lifecycle.py`, `twin/source_snapshot.py` | none of its own: the worktree on disk and the store | `open`, `refresh`, `_apply` | worktree and head move during a refresh; incremental closure over importers; replay keys | once events are handled the head has the facts a rebuild gives; no refresh turns a file back |
| Sidecar client, `adapters/opencode/src/client.ts` | fields `process`, `ready`, `starting`; the child | `request`, `start`, `spawnSidecar`, `stop` | overlapping requests share fields across awaits; child exits at any time | shared starts, fresh retries, no request waits forever, no stray child |
| Event queue, `adapters/opencode/src/queue.ts`; `watcher.ts` | `pending`, `overflowed`, `timer`, `chain` | `enqueue`, `flush`, `close` | overflow, timer against close, enqueue while consuming | no change is forgotten |
| Plugin, `adapters/opencode/src/plugin.ts` | client, queue, watcher | host hooks, `dispose` | unordered callbacks, errors swallowed | as its client and queue |
| Application, `service/application.py` | snapshot, symbol and analysis caches, signal collector, shadow plan | one handler per request, `process_event` | caches keyed by revision id while other sidecars move the head; rollout modes decide what is refreshed | answers belong to the head, the plan to the signals, COMPLETE to what was verified |
| Policy and configuration, `core/policy.py`, `core/config/` | none | layers merged key by key, modes, depths and ceilings resolved | a later layer lifts or undoes an earlier one | what a layer forbids stays forbidden unless a later one speaks of it |
| Model routing, `core/model_routing/` | sessions at the host | `route`, `execute`, adapters | retries, fallbacks, four calls per request of which any may be lost | source stays where it may go, no forbidden fallback, no session left |
| Orchestration, `orchestration/` | the signals of a task | `collect`, `build_intelligence_plan` | signals arrive in any order | the plan follows the signals |
| Blueprint service, `blueprint/` | immutable plans, `status` per plan, `active_blueprints` | `create`, `revise`, `review`, `approve`, `activate` | check, then up to three transactions; several services | nothing takes effect unapproved; pointer and statuses agree |
| Runtime, `runtime/service.py` | capabilities, last signals and counts in memory, observations in the store | `connect`, `collect`, `collect_observation`, `reconcile_observations` | duplicated and replayed results, restart | an observation counts once and for the right source |
| Convergence and traceability, `convergence/`, `traceability/` | reports | `evaluate_convergence`, `decide_convergence`, matching of refs | the verdict depends on the order and age of evidence | nothing unverified is reported complete |
| Impact, testing, verification, `analysis/`, `testing/`, `verification/` | work lists of one call | `assess_impact`, `select_tests`, obligations | cycles, aliases, surer ways found after weaker ones | exactly the dependents are reported, each change leaves an obligation |
| Trace log, `evaluation/trace.py` | a hash-chained JSONL file | `append`, `read`, replay | torn last line | what was appended replays |
| Evaluation runner, `tools/local/evaluation_runner.py` | per scope a report and a trace log; provider queues; proofs of availability | `run`, `--resume`, probes, gates | kills between two writes, providers that fail, reports that rest on reports, commits | results are traced, on evidence of their revision, and never lost |
| Compatibility, `evaluation/compatibility.py` | audit, bridge plan and report, proof, migrated checkpoint | `audit_checkpoint`, `create_bridge_plan`, `run_bridge`, `prove_bridge`, `migrate_checkpoint`, `promote_pilot`, `requeue_provider_gaps` | separate commands on files, in any order and at any revision | only what was compared is taken over |
| Agent runners, `tools/local/adaptive_screening_runner.py`, `causal_correction_runner.py`, `b0b_confirmation_runner.py` | captures, fragments, traces, report | batches of agents with oracles behind them, skips, resume | kills, raising oracles, provider failures; skips by what was decided so far; shared cells | no agent work is repeated, nothing is ablated again without need, no signal invented |
| Analyzers, context, research, strategy | none | functions of a snapshot or a request | defaults and boundaries | as their definitions |
| HTTP sidecar, MCP adapter | none | one request at a time | `HTTPServer` is single-threaded, so the requests of one sidecar are serial | |

How they interact: a host callback enqueues an event or sends a request; the queue hands coalesced
events to `client.request("event", ...)`; the client posts to the sidecar it has started; the
application's `process_event` opens or refreshes the twin as the policy allows; the twin computes a
delta and applies it to the store, expecting the head it has read. Queries read a snapshot of the head
through the caches. Tool results become observations in the store, from which the runtime service and
convergence conclude what is verified. Two plugins, or a plugin and an MCP server, on one project mean
two sidecars on one database, with only SQLite between them. The evaluation drives all of it from
outside: its runners start agents whose plugin is configured for one arm, and leave reports and trace
logs, on which the next scope, the migration and the agent runners build.

`PROJECT.json` lists every component with its status, every hazard with the line where it bites and the
properties that watch it, and for every definition of the modules the lines it translates.

## The modules

**RevisionHistory** is the abstract specification of the store: a set of immutable revisions, each with
the facts it shows, and a head. `Commit` adds one on top of the head, `Forget` drops some but never the head.

**GraphStore** is `SqliteGraphStore`. The tables are sets of rows: `revisions` of `[id, seq, parent]`,
`facts` of `[fact, payload, from, to]`, and so on. A transaction is one action (`Apply`, `ImportApply`,
`PruneDelete`); each autocommitted SELECT that an operation does before or without a transaction is an
action of its own, with what it read in `local[c]`. `Crash` ends a connection between two of its steps.
`History!Spec` under the mapping `shows[id] = ShownAt(SeqOf(id), Facts)` is `ImplementsHistory`.

**Twin** is `TwinService` with its surroundings: a worktree that edits change, the change events each
sidecar has not handled, and the store as `RevisionHistory` plus the log of idempotency keys (the
composition: what GraphStore is shown to implement is what Twin builds on). A refresh is the steps
`Refresh`, `RefreshSource`, `Expand`, `Analyze`, `Apply`; `Open` and `OpenReady`/`OpenBuild` stand for
`open`. The facts whose `source_ref` is a file are one value: its hash and what the analysis, which reads the disk a second
time, saw of the file and of the files it imports. Nodes that files share are kept apart in `shared`, since no path says when they are
stale: directories, which only full builds write (`NextDirectories`), and dependencies from outside, each owned by the first importer
that was analysed (`NextOwner`, with `Sharers` in the closure). Events come in batches, one for each kind that is pending, and `open` also serves
events without paths, those of tool calls and those of a full queue, while others wait. A `scenario` says how many sidecars share the store and what happens.

**SidecarClient** is `client.ts` at the grain of JavaScript: an action is the code between two awaits.
`Settle` is the continuation of everybody who waits for one start, with the `finally` of `start()`;
`Retry` is the catch clause with the synchronous part of `stop()`. Children are numbered; `unsettled` are
those whose promise is open and `doomed` those that were sent a signal. A child terminated by a signal has
no exit code, so `stop()` may wait two more seconds for an exit that has happened: no more than a delay,
and left out. A `scenario`, chosen once, says which faults occur and how many calls overlap.

**EventQueue** is `queue.ts` as `plugin.ts` uses it: kinds with paths (`file.edited`) and kinds without
(`session.idle`), and events without paths that make the sidecar look at everything. The history
variables number calls of `enqueue`, so that "the sidecar has been told" can be stated.

**Blueprint** is `BlueprintService` on the SQLite repository: a check is one step and each later write is
one. `signed` and `disturbed` are history: which operations a revision has passed, and whether one
operation ever overlapped another or died.

**Runtime** follows a tool result: `Finish` is the hook `tool.execute.after`, `Retry` and `GiveUp` are the
two attempts of `request`, `Ingest`, `Lookup`, `Insert` and `Collect` are `ingest_runtime` in a sidecar
with `put_observation` cut at its statements, and `Refresh`, `RefreshApply` move the head meanwhile. A
request may be served after its client has given up, beside the next sidecar. A revision of the twin is
its content and its source revision (git's HEAD, which `Commit` moves and `Edit` does not); contents only
grow, so that revisions can be dated, and the checkout of an older commit is left out. `Reconcile` and
`Successful` are `reconcile_observations` and `summarize_observations`, which nothing in the service calls:
they are what a caller makes of the rows. `ranOn` and `sentAt` are history.

**Policy** resolves authority and depth of every capability from a configuration, and **Configuration** is
the merge and the validation of the layers that give one. **Convergence** holds the rules of
`convergence/service.py` and `traceability/service.py`. All three are pure; Application and ModelRouting are built on them.

**Application** is `ProjectIntelligenceApplication` over the twin, abstracted to what Twin settles (a
refresh is one step, a file's facts are its version). `ProcessEvent` delivers a batch of paths, or none where a queue was full, and
`ToolEvent` an event without paths; a refresh is stamped with the whole worktree whatever it read, and one that another sidecar (`OtherCommits`, a build or a
partial refresh) is quicker than answers DEGRADED and is consumed. A request is `Request`, which reads the head, fills the
caches and leaves the snapshot in `call`, and `Answer`, so that another sidecar can move the head in between.
Signals, file events and runtime results feed the `collector`, from which each handler recomputes `plan`. A scenario is
a configuration with what happens under it.

**ModelRouting** is `PolicyModelRouter` with its adapters: `Execute` orders the candidates of a request,
`Turn` tries the current one, falls back or raises, and the host adapter is one action per HTTP call, each with the
outcomes good, bad and lost.

**Impact** is `assess_impact`, one step for each entry taken off a work list and for each edge looked at,
with the resolver's equivalences; the selection of tests and the obligations are operators over its report.

**TraceLog** is the log the evaluation writes, **EvaluationGates** what is concluded from an activation and
a pilot. **Evaluation** is `run()`: `Start` (with `--resume`, on the reports of earlier scopes), `Execute`,
`AppendTrace`, `WriteReport`, `Finish`, a probe, and `Crash` between any two, with a torn line if it happens in an append.

a report that is bound to a compatibility proof (`TakeOver`), as Migration makes one, is resumed whatever its evidence, and promoted evidence stands for a pilot (`TakeOverPilot`).

**Migration** has one action per command of the compatibility bridge, and `run_bridge` in the steps of a run.

**CausalDecisions** holds the sequential decision, the causal assessment of forced pairs and the verdicts
drawn from them. **AgentRunner** is the three runners over the `_execute_batch` they share: `Start` and `Recover` take over
what is there, `StartBatch` applies the skips, `RunAgent` leaves a capture, oracles run on other threads
and leave fragments, `EndBatch` discards workspaces, results are traced and reported, `Close` reports the whole.

The `MC...` modules only choose instances. Operators directly before a definition, such as `CloseOneLate`
before `Close`, are no part of the model: each is a plausible mistake in the definition after it, and
`PROJECT.json` ("mutants") says which property notices when it is swapped in. Constants named in a
configuration that end in a bound (`MaxEdits`, `MaxHead`, ...) are the only limits on counters.

## The runs

| Run | Instance | Distinct states | What it shows |
| --- | --- | --- | --- |
| `GraphStore` | 2 connections, 1 node with 2 versions, 2 keys, 3 revisions, symmetry | 125 808 | `ReplayIsAnswered`, `SingleLineage` and the refinement `ImplementsHistory` under every interleaving of SELECTs and transactions |
| `Twin` | 1 sidecar, 3 files in 2 directories, `b` imports `a`, `b` and `c` the same dependency, 3 modules that stay put, 3 edits, the store starts empty; 2 sidecars, 2 files; 2 sidecars, 1 file that appears, gets contents back, restarts; 1 sidecar with full queues, files that appear, restarts; 2 edits each | 2 820 377 | `Settled`: when all events are handled the head has the facts, the dependencies and the directories of a rebuild, across batches, edits during a refresh, deletions, closures and the switch to a full refresh; `BuiltOnTheHead`, `FullBuildReplacesAll`: no revision is computed from facts of another revision than the one it replaces; `RefreshNeverTurnsBack`: unless contents come back, an incremental refresh that takes puts no file back to an older content, of however many sidecars |
| `SidecarClient` | 3 requests, 6 children, 4 scenarios | 224 109 | `OneStart`, `RetryIsFresh`, `RequestsSettle` with overlapping calls; `OneSidecarInSequence` for one call at a time |
| `EventQueue` | 2 kinds, 2 paths, a batch holds 1, 4 calls of `enqueue` | 79 319 | `NothingForgotten`, `CloseDrains`, `ChangesReported` |
| `Blueprint` | 2 services, 3 revisions | 244 690 | `OnlyApprovedTakesEffect` under every interleaving and crash; `ActivationIsOrderly` while operations neither overlap nor die |
| `Runtime` | 2 results of one ref, one passed, one failed, 2 sidecars, 2 contents | 384 970 | `RecordedOnce`, `CountedOnce`, `AnsweredAsRecorded` however attempts and sidecars overlap; `FailureSticks`: more evidence does not outvote a fresh failure |
| `Application` | 2 files, 2 edits, 1 commit, 3 revisions, 7 scenarios of a layered configuration and what happens | 977 044 | `AnswersAreOfTheHead` however caches and head move; `PlanFollowsSignals`; `CompleteIsVerified` over 7 pieces of evidence for each of 2 requirements; `ActiveAnswersAreCurrent` once events are delivered, where the sidecar may compute by itself and is the only one |
| `ModelRouting` | stacks of a user and a project layer with each of 9 routing modes, 4 endpoints of every locality, 2 of 3 kinds of request | 254 338 | `SourceStaysPermitted`, `NoForbiddenFallback`, `SessionsAreClosed` with every call refused, answered badly or lost |
| `Impact` | every graph of 7 nodes with at least 5 of 10 given edges, changed or removed node, depth 2 | 75 927 | `ImpactIsExact` against a reference definition by paths; `NothingUnobliged` |
| `Evaluation` | 1 tier, 2 heads, 4 executions; an activation of 1 cell, a pilot and a baseline of 2, a screening of 1; 2 baselines of an older runner, promoted pilot evidence | 1 820 000 (about) | `TracedResults`, `RestsOnItsHead`, `GapHeld`, `NothingLost` over kills between any two writes, torn lines, resumes, probes, commits and checkpoints taken over |
| `Migration` | 6 checkpoints of an older runner, one bound with gaps, 2 heads | 494 252 | `OnlyProvenMigrates` and `BridgeTraced` with the commands in any order |
| `AgentRunner` | 5 plans (2 ablations, depths, a correction, a confirmation), 3 rounds, batches of 3, 2 heads, 1 fault | 402 366 | `WorkDoneOnce`, `ReportTraced` (of corrections and confirmations), `AblationsEarned`, `ClosedIsDecided`, `PositiveIsFinal` |

### Where documents and code part

Sixteen more properties are defined in the modules, and no run lists them: each states what a document, comment or test of
the repository says, and TLC finds it violated when it is added to the configuration named here.
`PROJECT.json` ("findings") quotes the lines.

- `Twin`, `FullBuildTakes`: a file is changed and changed back. The full build of the restored content has the
  key of the first full build, `apply` answers with the old revision, `open` reports READY, and the head still
  shows the content in between. `RefreshNeverTurnsBack` and `Settled` are what does hold, while no content comes back.
- `Twin`, `StaleIsDetectable`: `c` is edited, the refresh for `c` reads the sources after `a` has been edited too
  and stamps its revision with the fingerprint of the whole tree, and the process restarts with the event of `a`
  unhandled. The next `open` finds the fingerprint matching and keeps the old facts of `a`.
- `SidecarClient`, `OneSidecar`: two requests fail on the same dead child. The second one's `stop()` ends the
  child the first one's retry has just spawned and clears the fields; a third request spawns a child of its own;
  then the first retry fails with its child, and its `finally` clause clears `starting`, which is the third
  request's by now. The second retry spawns again, beside the child that is starting.
  (TLC's shortest trace is a child with a wrong envelope that is rejected and left running; take "incompatible" out of the faults to see this one.)
- `Blueprint`, `ActiveIsActive`: `activate` dies between its writes: a plan has the status active and the pointer
  does not name it (or, with a prior plan, the pointer names a superseded one). Nothing repairs it: the plan's
  status is no longer approved, so it cannot be activated again.
- `Runtime`, `StaleNeverFresh`: a test finishes on the first content, the file is edited and the twin refreshed;
  the pass is recorded under the current source revision and verifies the second content. It is the same when the
  pass was recorded before the edit: HEAD has not moved.
- `Application`, `AnswersAreCurrent`: in advisory mode every file event is declined and the twin is opened only
  when there is no revision, so queries are answered from the first build for good. `ActiveAnswersAreCurrent` is what holds
  in active mode, for one sidecar and no full queue. With another sidecar it fails there too: the refresh of an event loses the race for the head and is not tried
  again, or the other one refreshes by a path of its own and stamps the head with the worktree, so that `open` finds nothing to do. With a full queue it fails for the
  latter reason.
- `ModelRouting`, `OnlyTheUnreachableStay`: a message that is lost raises before the `try` whose `finally` deletes the session.
- `Evaluation`, `Resumable`: a kill between the trace and the report leaves a trace that conflicts with the next
  execution of its cell, a kill in the append a line no reader gets past.
- `Evaluation`, `ActivatedFirst`: with an availability proof the pilot and the baseline call a tier that the
  activation left paused, and the gates still accept the partial activation.
- `Evaluation`, `RecoveryIsProved`: the activation was given a proof, the provider fails again in the baseline, and a resume without a proof takes the
  activation's AVAILABLE over the PAUSED of its own report and calls it.
- `Migration`, `ValidatedByRunner`: the validating runner is HEAD, not the revision the bridge ran at.
- `Migration`, `OnlyPermittedClasses`: a class the bridge never sampled goes along with its tier.
- `Migration`, `NoUnconditionalResume`: a bound checkpoint of an older revision with provider gaps is requeued; it keeps its proof and gets HEAD as its revision, and a resume
  accepts it with results that nothing has been compared with since. `OnlyProvenMigrates` speaks of what `migrate_checkpoint` copies, not of what is requeued.
- `AgentRunner`, `OutcomeIsTheAgents`: the workspace of a persisted capture is discarded when its oracle raises, and
  the oracle of the resume reports a failure the agent did not have.
- `AgentRunner`, `FutilityIsProven`: the bound on what is to come counts passes only, and one critical loss would still have been an effect.
- `AgentRunner`, `SameHeadOnly`: `run` of the confirmation takes over fragments of any revision.

Smaller facts that the models carry: an endpoint without an adapter counts as an attempt (`router.py:74`), and a
forbidden local fallback ends a request although later candidates would be permitted (`router.py:67`); a cell
whose outcome is UNAVAILABLE through an API error counts as a result of quality (`evaluation_runner.py:1113`);
`_report` asks for HEAD when it writes, so a commit during a run dates everything before it forward (set
`CommitsDuringRun` and `RestsOnItsHead` fails); the evidence a bound baseline was migrated with is not compared when it is resumed, so it may be
of another revision until its first result of its own (`RestsOnItsHead` says as much); `run_adaptive`
restores fragments without their traces, so `ReportTraced` does not speak of screenings.

More behaviours of the kind can be seen by changing constants or adding formulas. `Twin` with `"create"` in the
first scenario breaks `Settled`: files that imported a missing file are not refreshed when it appears. With two sidecars
`Settled` fails because a refresh that loses the race for the head answers DEGRADED and is not tried again. With `"overflow"` it fails because a refresh by
a path that did arrive has stamped the head with the fingerprint of the whole worktree, and the full scan that a full queue asks for opens the twin and finds it
matching. `SettledShares` (the head is all that a rebuild would be) fails because a directory whose last file was deleted keeps its node until the next full build,
and a dependency may have another owner than a rebuild would give it. `BuildNeverTurnsBack` fails because `open` reads the sources before the head: a build may replace
newer facts of another sidecar by older ones. In `Impact`, `EquivalentsAreAsSure` fails: a reference that is reached a second time by a surer way of the same length
gets its confidence raised, its equivalents keep the one they were first given (`analysis/service.py:161`). Two
sidecars that build an empty store (`"first"` in the second scenario) break `FullBuildReplacesAll`: both expect no
head, and the second is applied on top of the first. In `Application`,
`NegotiatedStaysHeard` fails because a restarted sidecar has negotiated nothing, and `FailureBlocksCompletion`
because the last piece of evidence for a ref decides.

### Bounds, and why they are enough

- `GraphStore`: three revisions are the fewest for a prune that keeps two and a commit after it; two keys for a
  replay of an older delta; two versions for a fact that changes and comes back. The tables treat each fact by
  itself, and nodes and edges alike except for the SELECT that reads them, so a second fact adds interleavings of
  reads only. The proofs cover those: they fix no constant.
- `Twin`: three edits allow one before a refresh, one between its two readings and one after its apply; two share a batch or
  come in two. Three modules that stay put keep a closure of two modules below 40 % and let three exceed it. `b` and `c` share a dependency, so that its owner is refreshed or deleted
  without the other; `c` is not in the directory of `a` and `b`. No behaviour of that many
  edits reaches `MaxRevisions`.
- `SidecarClient`: a third request can start what the first two have just taken down. A request starts at most
  twice, so six children suffice.
- `EventQueue`: a second path overflows the batch; the fourth enqueue comes after an overflow, a flush and a batch that fits.
- `Blueprint`: three revisions allow a prior plan, its successor, and one more that races.
- `Runtime`: the second sidecar is the last a single request can reach; two contents give an observation two dates.
- `Application`: two files make a verdict in which one element is verified and the other is not; the third revision
  comes after one that a cache holds and one that another sidecar added; two paths come in one batch or in two, with an open in between. Each handler replans for itself, so one or two
  signals of a kind show whether it does.
- `ModelRouting`: the four endpoints allow a chain of two permitted steps around a forbidden one; the second request
  finds what the first has left at the host.
- `Impact`: among the edges are a cycle, an alias that is reached and not seeded, a weak way that is shorter and a sure way that is longer; depth 2 is
  the least at which a node is relaxed again after its neighbours were queued.
- `Evaluation`: four executions reach the end of the baseline, the screening where pilot evidence or a baseline is taken over, or repeat cells of the scopes before it after a kill, a gap or a fresh path; the second head
  makes every earlier report one of another revision. With one tier every provider gap stops its scope; that other tiers
  go on is covered by the proofs.
- `Migration`: the checkpoints hold the classes of result that the audit and the proof treat differently: reusable ones of sampled and unsampled classes, provider gaps, timeouts,
  results without provenance, tiers that are not required or sealed as unavailable; and one is torn, one of changed semantics, one bound.
- `AgentRunner`: three repetitions are the least at which stopping early spares one; one fault at every place; a batch of
  three splits the confirmation's four cells.

`CHECK_DEADLOCK FALSE` stands where the system may stop: requests, hooks, plans, edits and cells are finite in the model
and nobody has to make more.

### Fairness

Only the last step of a wait is fair, and only where the code arms a timer or the runtime must go on. `EventQueue`:
a scheduled timeout fires, a due continuation runs, a request to the sidecar ends (it has timeouts at every
stage); nobody has to enqueue or close. `SidecarClient`: a continuation runs after `stop()`, a fetch settles (30 s),
a start settles (15 s), a child that was sent a signal exits (SIGKILL follows). A child need not exit by itself,
answer or announce itself. The other modules have safety properties only and state no fairness: a
user need not edit, resume or migrate, and an agent need not end.

## The proofs

None of the properties below is inductive as it stands; each module
first says which `IInv` carries it, proves it one action at a time, and draws the properties from `Invariance`. Each proof module holds
the theorems of one component or of two that share lemmas or a side of the system.

The only assumptions are the named ones on constants and, for four theorems, a hypothesis that they state: no commit is made during
a run (`RestsOnItsHead`, `GapHeld`), and an empty store is not built by two sidecars at once (`OneBuilder`, for `BuiltOnTheHead` and
`FullBuildReplacesAll`; two such builders do break the latter, as told above). Most of what is assumed of constants is that bounds are natural numbers and data have
their types. What goes further:

- `ImpactAssumption`: graphs are finite, and their edges are between their references.
- `RunnerAssumption`: repetitions are within `Rounds`; a cell has its four parts and no more; a result has an outcome; results taken over from an
  earlier screen are one per cell, as the code keeps them in a dictionary, and only a screening has them. Of the plans: in a correction (`CorrectionPlan`) what is
  ablated is ablated in every repetition and, as `representative_tasks` maps a capability to a task, in one task, and the forced cells are those that
  ablations are compared with; a confirmation (`ConfirmationPlan`) has the forced cell of whatever it ablates, as its `create_plan` lays them out. A screening is modelled with
  one capability that is ablated and one task in which depths are tried (`ScreeningPlan`): its theorems speak of such plans only, with any number of tasks, depths and cells otherwise.
- `EvaluationAssumption` and `GateAssumption`: a schedule names a cell once, and the first tranche is within the pilot.

What each module proves, and along which argument:

- **GraphStoreProofs**: for any connections, nodes, edges, payloads, evidence and keys, the safety properties of the run,
  that the head only advances, and `StoreImplementsHistory`. `IInv` adds that ids and sequences
  grow together (`IdsAndSequences`), that a new sequence is beyond every row (`RowsBounded`), that
  two rows of a fact do not overlap (`IntervalsDisjoint`, stronger than not being seen together by a
  *kept* revision, since rows outlive revisions), that what a prune will delete is a prefix of the history without the head
  although commits come between its read and its delete (`PendingPrunes`), and that what a snapshot has read so far is still
  what its revision shows (`PendingReads`). The refinement uses that closing rows at a new sequence changes no
  older revision, and that `Expired` rows are visible only to revisions deleted in the same transaction.
- **TwinProofs**, Twin: for any files, imports, edits, size of the closure and number of sidecars, `BuiltOnTheHead` and
  `FullBuildReplacesAll`: a refresh expects a head no later than the revision whose facts it takes (`Ordered`), so if another revision came
  between the two the store refuses it. `Settled` is about a lone sidecar that is not restarted and whose queue was never full, and files that are edited and deleted but not created.
  `Known` says how worktree, head, keys and the sources read so far follow each other: every fact shown is of the worktree (`Sound`) but for
  the paths that an event, or the closure of the refresh under way, still owes, and every dependency has an owner that imports it or is owed.
  `RefreshNeverTurnsBack` is for any number of sidecars, restarts and full queues, and needs an invariant of its own: whatever was read of a file is no newer than the file (`Late`), by number
  and, as a file may be gone, by `Past`; and what a refresh has read is no older than the head it expects (`Overtakes`), because it reads the head first.
- **TwinProofs**, Impact: for any graphs, equivalences, depth and thresholds, `ImpactIsExact` and `NothingUnobliged`. While dependents are sought
  whatever is reached is reached over a way (`Explains`), its equivalents no further away, and is still listed, or its edges were looked at and what is known of their sources is no worse (`OnTheList`);
  the list is empty when the report is made, so no way is missed. Effects are visited once, so it matters that they are visited in the order of their distance.
  The code does not keep it: `Spreading` says that some function is it, and that the work list is sorted by it and never spans more than one step (`LevelByLevel`).
  That the reference's recursive functions satisfy their equations is proved; what they compute for each input is not needed.
- **PluginProofs**, SidecarClient: for any number of requests and any faults, `RetryIsFresh`, `OneStart` and `OneSidecarInSequence`.
  Each child was spawned by a start of its own, so the numbers do not run out (`Counted`, by cardinality), and a request
  waits for a pending start and fetches from a child that is not (`Placed`), so what has failed can neither be joined nor become ready again.
- **PluginProofs**, EventQueue: for any kinds, paths and limit, `NothingForgotten` and `CloseDrains`. A batch of file events is empty
  only when it overflowed (`Batched`), events are consumed in the order of their numbers (`Numbered`), and `Draining`
  counts the events `close()` waits for.
- **BlueprintProofs**: for any number of services and revisions, what a status, the pointer or a pending write says has been
  earned (`StatusEarned`, `PointerEarned`, `StepEarned`), and while nothing disturbs them pointer and
  statuses stay in step (`Orderly`: the tables are exactly as far as the one busy service says).
- **RuntimeProofs**: for any results and any number of sidecars, the run's properties, and that nothing is dated back. The table says nothing of what is about to be
  recorded, so `Sent`, `Dated`, `Collecting` and `Once` say of every job and backlog, of old sidecars too, what the table says of rows.
- **ServiceProofs**, Application: for any files, configurations, tasks and elements, `AnswersAreOfTheHead`, `ActiveAnswersAreCurrent`, `PlanFollowsSignals` and
  `CompleteIsVerified`. Every cache names a revision of the store and holds what it shows; the store only
  grows, so comparing ids is enough. That an answer is of the worktree needs that what is not pending the head shows, whatever the print
  of the head claims, and that a key used again speaks of what the head still shows (`TwinCurrent`): a batch takes away from what is pending exactly what it makes the head show. `CompleteIsVerified` rests on pure lemmas about Convergence
  (`CompleteStates`, `ElementStands`, `EvidenceIsGiven`).
- **ServiceProofs**, ModelRouting: for any layers, requests and adapters, `NoForbiddenFallback`, `SourceStaysPermitted` and `SessionsAreClosed`.
  `_fallback_allowed` compares neighbours only; `Descent` says why that is enough: the candidate a request has come to is not local if any attempt was not.
  Where source may go is what the last layer to speak of it says. The merge and the search for that layer recurse over the list of layers; as induction cannot be
  cited, each is led through the set of places it reaches, whose greatest member is the end of the list (`Reaches`).
- **EvaluationProofs**, Evaluation: for any schedule, tiers and kills, `TracedResults` and `NothingLost`, and where no
  commit is made during a run `RestsOnItsHead` and `GapHeld`, with any checkpoints taken over. A report alone does not carry these from one run to
  the next: `Traced`, `Founded` and `Answered` say of the process what they say of the reports.
- **EvaluationProofs**, Migration: for any checkpoints and outcomes and the commands in any order, `OnlyProvenMigrates` and `BridgeTraced`. Each file
  is only as good as those it was made from, which a later command may have replaced: `Proven` says of each, and of the copies that later files hold, what its maker saw (`Audited`;
  a plan `Covers` every required tier and sampled class; a proof `Compares` each sample of a tier it does not call unavailable; a migrated result is `Sound`), and
  `Lined` that each result has its one line in the log before it is claimed.
- **AgentRunnerProofs**: for any plan of cells, agents, batch size, kills and failures, `WorkDoneOnce`, `ReportTraced`, `AblationsEarned`, `PositiveIsFinal` and
  `ClosedIsDecided`. `Kept` says where the result of a capture may be at every step, in the process or in the raw root, and `Traces` that results are traced
  before they are reported. A run closes only with an empty frontier, and whatever a frontier leaves out has a result or a skip. For `PositiveIsFinal`
  the invariant `Screens` says that a screening compares ablations with active results that passed and, once it has gone on to a later
  repetition, are not judged again; a counting lemma then shows that what is to come cannot take the effect below the threshold.

  `ClosedIsDecided` is not inductive, nor is it with the above: a report of a run that has *not* closed may hold an ablation without its forced partner (results
  reclassified on resume make such holes, with several tasks), and a provider failure leaves a cell that the report counts as attempted. What excludes that a run closes so
  is `Run`, which adds five parts. `Recorded`: a result is the fragment of a captured cell or of an earlier screen, one of each cell. `Gathered`: a run that resumes
  another has, or is about to have, a result of whatever was captured. `OneLine`: a cell has one trace, so a cell that is judged again after a kill
  has the outcome it had, or the run stops. `Earned`: an ablation of a later round was run only after rounds whose two cells are compliant and whose traces show neither a
  signal nor a gap; without it a capability could be settled by a result that is later replaced, and the round it skipped be missing. `Owed`: a cell whose provider failed has been captured
  since, has a result, or is on the frontier (`Awaited`), where it stays until it is run (`AwaitedStays`). At an empty frontier nothing is owed (`NothingOwed`), the pairs of each
  capability are complete up to the round that settled it or are as many as there are rounds (`BoundaryIs`), and calls and skips are disjoint parts of the plan (`AddsUp`).
  The five parts were checked with TLC on the run's scenarios before they were proved: on all of its states, and with two faults on 4.1 million states without an
  error, not exhausted. `Recorded` and `Earned` are theorems of their own.
  As a decision over pairs has one pair of each repetition, `CapabilityDecision` takes the set of complete pairs (`CompletePairs`), as `_capability_state` collects them.

Only model-checked:

- `RequestsSettle` and `ChangesReported`: liveness, and with it fairness and ENABLED, is out of the prover's reach.
- What recursive computations return for every input, where no theorem names them.

## What is not modelled

Contents of files and the syntax trees of the analyzers; git, except HEAD (a fingerprint determines the tree); limits on
file number and size; the SQL text, the `status` columns of facts, which no query of the store reads, and the scope
column, on which every statement filters; a transaction that does not get its lock within SQLite's timeout, which
raises and changes nothing; the table of research evidence, which no other component reads; a rejecting `consume`, as the plugin's catches everything; the reading of JSONC files;
keyword rules that classify a task; the planning requests of the application (strategy, research, context), which only read the
snapshot that is modelled; hashes and seals as such (nobody edits a report, so a seal is what it seals); scores, timing and token counts;
preparation of workspaces and the oracles themselves, of which a cell's outcome is left; the one-off benchmarks and smoke tests under `tools/local/`;
the wording of diagnostics. `reverse_edges` only reads. The components with status `not_modelled` are in `PROJECT.json` with the reason.

## Plan

Done: the store, the twin, the client and the queue; blueprints, observations, the application with policy,
configuration and convergence; routing; impact with its obligations; the evaluation from trace log to agent runners; proofs for all twelve checked
modules, of every property but the two named above.

Next, in this order:

1. Larger instances where time allows: two tiers in Evaluation, screening of two capabilities in AgentRunner, two facts in GraphStore.
2. Context, strategy and research as operators, checked against reference definitions, when they begin to keep state or to depend on
   each other.
