----------------------------- MODULE Application -----------------------------
(***************************************************************************)
(* ProjectIntelligenceApplication,                                         *)
(* src/src/extendcodeagent/service/application.py: one sidecar's requests  *)
(* against the shared store, its caches keyed by revision, the signals it  *)
(* collects and the shadow plan it derives from them, and the convergence  *)
(* it reports, under one capability policy.  Requests are served one at a  *)
(* time; the worktree, git and another sidecar move while one is served.   *)
(*                                                                         *)
(* The twin is abstracted: a build or refresh is one step, a file's facts  *)
(* are its version, importers are left out; Twin.tla has what happens      *)
(* within one.  A refresh by paths is stamped with the whole worktree, and *)
(* one that another sidecar is quicker than is refused.  A file that is    *)
(* present is one canonical ref.                                           *)
(*                                                                         *)
(* AnyRevision, Unrefreshed and OnlyTheFirst are no part of the model:     *)
(* PROJECT.json swaps each in for an operator after it.                    *)
(***************************************************************************)
EXTENDS Policy, Convergence

CONSTANTS
  Scenarios,      (* Pairs of a configuration and which of "requests",      *)
                  (* "signals", "others", "commits", "overflow" and         *)
                  (* "verdicts" occur.                                      *)
  Paths,          (* The files that change.                                 *)
  Calls,          (* The explicit requests made, of DOMAIN Needs.           *)
  Declared,       (* What a runtime may negotiate: sets of signal kinds.    *)
  Tasks,          (* The intents of the tasks that arrive, of Intents.      *)
  Requirements,   (* What pi_verify is asked: elements of Convergence.      *)
  Items,          (* The evidence that comes with a requirement.            *)
  Target,         (* The elements of the blueprint revision converged on.   *)
  Flags,          (* The flags of evaluate_task_convergence.                *)
  MaxEdits,       (* Bound: edits in a behaviour.                           *)
  MaxCommits,     (* Bound: git commits in a behaviour.                     *)
  MaxRevisions    (* Bound: twin revisions in a behaviour.                  *)

SignalKinds == {"task", "mutation", "model", "tool", "verification"}

(* The capabilities a request needs for explicit use, and whether it reads *)
(* the snapshot itself, the symbol index or the analysis service.          *)
Needs ==
  [ symbol |-> {"semantic"}, references |-> {"semantic"}, impact |-> {"impact"},
    tests |-> {"test_selection"}, context |-> {"context"}, runtime_evidence |-> {"runtime"},
    plan_change |-> {"strategy", "blueprint"}, verify |-> {"convergence", "traceability"} ]
Reads(c) ==
  CASE c = "symbol" -> "symbols"
    [] c \in {"references", "impact", "tests", "plan_change"} -> "analysis"
    [] OTHER -> "snapshot"

Element == [expects : Seq(Paths), mandatory : BOOLEAN, verify : BOOLEAN, after : SUBSET Nat]

ASSUME ApplicationAssumption ==
  /\ Calls \subseteq DOMAIN Needs
  /\ Declared \subseteq SUBSET SignalKinds
  /\ Tasks \subseteq Intents
  /\ Requirements \in Seq(Element) /\ Target \in Seq(Element)
  /\ {MaxEdits, MaxCommits, MaxRevisions} \subseteq Nat

Absent == 0
None == [none |-> TRUE]

VARIABLES
  happens,        (* What occurs in this behaviour.                         *)
  policy,         (* The resolved capability policy.                        *)
  tree,           (* Path -> content version, Absent when deleted.          *)
  edits,          (* How many edits there were.                             *)
  commit,         (* The git HEAD, which is the source revision.            *)
  pending,        (* Changed paths the plugin has not delivered.            *)
  revisions,      (* The store: <<[shows, source, print]>>; the last is head. *)
  keys,           (* The idempotency keys of applied deltas.                *)
  cache,          (* _snapshot_cache, or None.                              *)
  analysis,       (* _analysis_cache, or None.                              *)
  symbols,        (* _symbol_index_cache, or None.                          *)
  collector,      (* TaskSignalCollector.                                   *)
  plan,           (* _shadow_plan, or None.                                 *)
  call,           (* The request being served, or None.                     *)
  answer          (* What the last step answered, or None.                  *)

world == <<tree, edits, commit>>
twin == <<revisions, keys>>
caches == <<cache, analysis, symbols>>
guide == <<collector, plan>>
vars == <<happens, policy, world, pending, twin, caches, guide, call, answer>>

head == Len(revisions)
ShowsOf(store, id) == IF id = 0 THEN [p \in Paths |-> Absent] ELSE store[id].shows
Refs(shown) == { p \in Paths : shown[p] # Absent }

NoSignals == [caps |-> {}, task |-> "none", changed |-> {}, model |-> "none",
              tools |-> FALSE, checks |-> FALSE]

Init ==
  /\ \E s \in Scenarios : happens = s.happens /\ policy = FromConfig(s.config)
  /\ tree = [p \in Paths |-> 1]
  /\ edits = 0 /\ commit = 0 /\ pending = {}
  /\ revisions = <<>> /\ keys = {}
  /\ cache = None /\ analysis = None /\ symbols = None
  /\ collector = NoSignals /\ plan = None
  /\ call = None /\ answer = None

(***************************************************************************)
(* The world.                                                              *)
(***************************************************************************)

(* A change, or one more report of it.  A worktree that a build has seen   *)
(* does not come back: Twin.tla has what idempotency keys make of that.    *)
Edit(p, v) ==
  /\ edits < MaxEdits
  /\ v \in {Absent, edits + 2, tree[p]} /\ (v = tree[p] => p \notin pending)
  /\ tree' = [tree EXCEPT ![p] = v]
  /\ v # tree[p] => tree' \notin { key[1][2] : key \in keys }
  /\ edits' = edits + 1
  /\ pending' = pending \cup {p}
  /\ answer' = None
  /\ UNCHANGED <<happens, policy, commit, twin, caches, guide, call>>

(* git commit: no source file changes and no event is sent.                *)
Commit ==
  /\ "commits" \in happens /\ commit < MaxCommits
  /\ commit' = commit + 1
  /\ answer' = None
  /\ UNCHANGED <<happens, policy, tree, edits, pending, twin, caches, guide, call>>

(***************************************************************************)
(* TwinService.open and refresh.                                           *)
(***************************************************************************)

Worktree == <<commit, tree>>

(* What applying a build of ps leaves in the store.  A key that was seen   *)
(* answers with the revision it made then.                                 *)
Applied(full, ps) ==
  LET key == <<Worktree, full, ps>>
      shows == [p \in Paths |-> IF full \/ p \in ps THEN tree[p] ELSE revisions[head].shows[p]]
  IN  IF key \in keys THEN <<revisions, keys>>
      ELSE << Append(revisions, [shows |-> shows, source |-> commit, print |-> Worktree]),
              keys \cup {key} >>

Opened ==
  IF head > 0 /\ revisions[head].print = Worktree THEN <<revisions, keys>>
  ELSE Applied(TRUE, Paths)

TwinBecomes(store) == Len(store[1]) <= MaxRevisions /\ revisions' = store[1] /\ keys' = store[2]

(* Another sidecar of the project builds, or refreshes by some paths.      *)
OtherCommits ==
  /\ "others" \in happens
  /\ \/ TwinBecomes(Opened)
     \/ head > 0 /\ \E ps \in SUBSET Paths \ {{}} : TwinBecomes(Applied(FALSE, ps))
  /\ revisions' # revisions

OtherSidecar ==
  /\ OtherCommits
  /\ answer' = None
  /\ UNCHANGED <<happens, policy, world, pending, caches, guide, call>>

(***************************************************************************)
(* Signals and the shadow plan.                                            *)
(***************************************************************************)

Planned(c) == IF c.task = "none" THEN plan ELSE IntelligencePlan(c, policy)

Unrefreshed(c) == collector' = c /\ plan' = plan
Collect(c) == collector' = c /\ plan' = Planned(c)

(* A signal whose capabilities were not negotiated is dropped.             *)
Collected(kind, c) == IF kind \in collector.caps THEN Collect(c) ELSE UNCHANGED guide

Connect(caps) ==
  /\ "signals" \in happens /\ call = None
  /\ collector' = [collector EXCEPT !.caps = caps]
  /\ answer' = None
  /\ UNCHANGED <<happens, policy, world, pending, twin, caches, plan, call>>

IngestTask(intent) ==
  /\ "signals" \in happens /\ call = None
  /\ Collected("task", [collector EXCEPT !.task = intent])
  /\ answer' = None
  /\ UNCHANGED <<happens, policy, world, pending, twin, caches, call>>

IngestModel(m) ==
  /\ "signals" \in happens /\ call = None
  /\ Collected("model", [collector EXCEPT !.model = m])
  /\ answer' = None
  /\ UNCHANGED <<happens, policy, world, pending, twin, caches, call>>

(***************************************************************************)
(* Snapshots and what is indexed over them.                                *)
(***************************************************************************)

Snapshot(store) == [id |-> Len(store), shows |-> ShowsOf(store, Len(store))]

AnyRevision(store) == Len(store) > 0 /\ cache # None

(* The cached snapshot is used only while it is of the store's head.       *)
Cached(store) == Len(store) > 0 /\ cache # None /\ cache.id = Len(store)

Loaded(store) == IF Cached(store) THEN cache ELSE Snapshot(store)

LoadSnapshot(store) ==
  IF Cached(store) THEN UNCHANGED caches
  ELSE /\ cache' = IF Len(store) > 0 THEN Snapshot(store) ELSE None
       /\ analysis' = None /\ symbols' = None

InvalidateQueryCache == cache' = None /\ analysis' = None /\ symbols' = None

(* An index is kept for one revision id.                                   *)
Indexed(index, snapshot) == IF index # None /\ index.id = snapshot.id THEN index ELSE snapshot

(* _snapshot: the first request builds the twin.                           *)
OpenIfMissing == IF head = 0 THEN Opened ELSE <<revisions, keys>>

(***************************************************************************)
(* Events and runtime observations.                                        *)
(***************************************************************************)

OnlyTheFirst(ps) == OpenIfMissing

EventStore(ps) == IF head > 0 /\ ps # {} THEN Applied(FALSE, ps) ELSE Opened

(* Outside shadow and active mode an event is consumed and refused.  It is *)
(* also consumed where the twin answers DEGRADED, because another sidecar  *)
(* has moved the head that it was to replace.                              *)
Consume(store) ==
  IF \A c \in ProjectTruth : ComputesAutomatically(policy, c)
    THEN (TwinBecomes(store) \/ (head > 0 /\ OtherCommits)) /\ InvalidateQueryCache
    ELSE UNCHANGED <<twin, caches>>

(* The queue delivers the paths of one kind of event, or no paths where    *)
(* there were too many of that kind.                                       *)
ProcessEvent(ps) ==
  /\ call = None /\ pending # {}
  /\ IF ps = {} THEN "overflow" \in happens /\ pending' \in SUBSET pending
                ELSE ps \subseteq pending /\ pending' = pending \ ps
  /\ Collected("mutation", [collector EXCEPT !.changed = ps])
  /\ Consume(EventStore(ps))
  /\ answer' = None
  /\ UNCHANGED <<happens, policy, world, call>>

(* The event of a tool call has no paths and is no mutation.               *)
ToolEvent ==
  /\ call = None
  /\ Consume(EventStore({}))
  /\ answer' = None
  /\ UNCHANGED <<happens, policy, world, pending, guide, call>>

(* collect_observation: a tool execution, and verification unless it is of *)
(* kind runtime.                                                           *)
ObservationCollected(verifies) ==
  LET tool == "tool" \in collector.caps
      check == verifies /\ "verification" \in collector.caps
      c == [collector EXCEPT !.tools = @ \/ tool, !.checks = @ \/ check]
  IN  IF tool \/ check THEN Collect(c) ELSE UNCHANGED guide

(* The observation is recorded at the source revision of the head, which   *)
(* is built when there is none; Runtime.tla has what becomes of it.        *)
IngestRuntime(automatic, verifies) ==
  /\ "signals" \in happens /\ call = None
  /\ IF automatic THEN ComputesAutomatically(policy, "runtime")
                  ELSE AllowsExplicitUse(policy, "runtime")
  /\ TwinBecomes(OpenIfMissing)
  /\ LoadSnapshot(revisions')
  /\ ObservationCollected(verifies)
  /\ answer' = None
  /\ UNCHANGED <<happens, policy, world, pending, call>>

(***************************************************************************)
(* Explicit requests.                                                      *)
(***************************************************************************)

(* Needs is checked, the snapshot loaded; the request then works on it     *)
(* while the store may move.  "fresh" is the worktree, when the plugin has *)
(* delivered every change of it.                                           *)
Request(c) ==
  /\ "requests" \in happens /\ call = None
  /\ \A need \in Needs[c] : AllowsExplicitUse(policy, need)
  /\ TwinBecomes(OpenIfMissing)
  /\ LoadSnapshot(revisions')
  /\ call' = [name |-> c, head |-> Len(revisions'), snapshot |-> Loaded(revisions'),
              fresh |-> IF pending = {} THEN tree ELSE None]
  /\ answer' = None
  /\ UNCHANGED <<happens, policy, world, pending, guide>>

Answered(facts, verdict) ==
  [head |-> call.head, id |-> call.snapshot.id, fresh |-> call.fresh,
   facts |-> facts, verdict |-> verdict]

Answer ==
  /\ call # None /\ call.name # "verify"
  /\ LET snapshot == call.snapshot
     IN  CASE Reads(call.name) = "symbols" ->
                /\ symbols' = Indexed(symbols, snapshot)
                /\ answer' = Answered(symbols'.shows, None)
                /\ UNCHANGED <<cache, analysis>>
           [] Reads(call.name) = "analysis" ->
                /\ analysis' = Indexed(analysis, snapshot)
                /\ answer' = Answered(analysis'.shows, None)
                /\ UNCHANGED <<cache, symbols>>
           [] Reads(call.name) = "snapshot" ->
                /\ answer' = Answered(snapshot.shows, None)
                /\ UNCHANGED caches
  /\ call' = None
  /\ UNCHANGED <<happens, policy, world, pending, twin, guide>>

(* What a verdict should rest on: each element's refs are facts, and where *)
(* verification is asked for some evidence of this source verifies it.     *)
(* An item is [refs, statuses, source] with what else its caller gave.     *)
Supported(elements, items, actual) ==
  \A i \in DOMAIN elements :
    LET expects == { elements[i].expects[k] : k \in DOMAIN elements[i].expects }
    IN  /\ expects \subseteq actual.refs
        /\ elements[i].verify =>
             \E item \in items : /\ "verified" \in item.statuses /\ item.source = actual.source
                                 /\ expects \cap item.refs # {}

Verdict(decision, elements, items, actual) ==
  [ decision  |-> decision,
    supported |-> Supported(elements, items, actual),
    failed    |-> \E item \in items, i \in DOMAIN elements :
                    /\ "failed" \in item.statuses /\ elements[i].verify
                    /\ \E k \in DOMAIN elements[i].expects : elements[i].expects[k] \in item.refs ]

ActualOf(id) == [refs |-> Refs(ShowsOf(revisions, id)), source |-> revisions[id].source]

(* pi_verify: requirements against the facts of the snapshot.              *)
Verify(items) ==
  /\ call # None /\ call.name = "verify"
  /\ LET actual == [ActualOf(call.snapshot.id) EXCEPT !.refs = Refs(call.snapshot.shows)]
         given == { items[i] : i \in { j \in DOMAIN items : items[j].given /\ ~ items[j].external } }
         decision == EvaluateRequirements(Requirements, actual, items).decision
     IN  answer' = Answered(call.snapshot.shows, Verdict(decision, Requirements, given, actual))
  /\ call' = None
  /\ UNCHANGED <<happens, policy, world, pending, twin, caches, guide>>

(* evaluate_task_convergence: the caller says what is actual, and gives    *)
(* evidence per ref.                                                       *)
ConvergeTask(id, verification, flags) ==
  /\ call = None
  /\ AllowsExplicitUse(policy, "convergence")
  /\ LET given == { [refs |-> {r}, statuses |-> {verification[r].status},
                     source |-> verification[r].source] : r \in DOMAIN verification }
         decision == EvaluateConvergence(Target, ActualOf(id), verification, flags).decision
     IN  answer' = [head |-> id, id |-> id, fresh |-> None, facts |-> revisions[id].shows,
                    verdict |-> Verdict(decision, Target, given, ActualOf(id))]
  /\ UNCHANGED <<happens, policy, world, pending, twin, caches, guide, call>>

(* The sidecar is closed and a new one opens the store.                    *)
Restart ==
  /\ InvalidateQueryCache
  /\ collector' = NoSignals /\ plan' = None
  /\ call' = None /\ answer' = None
  /\ UNCHANGED <<happens, policy, world, pending, twin>>

Next ==
  \/ \E p \in Paths, v \in 0..MaxEdits + 1 : Edit(p, v)
  \/ Commit
  \/ OtherSidecar
  \/ \E caps \in Declared : Connect(caps)
  \/ \E intent \in Tasks : IngestTask(intent)
  \/ \E m \in {"m"} : IngestModel(m)
  \/ \E ps \in SUBSET Paths : ProcessEvent(ps)
  \/ ToolEvent
  \/ \E automatic, verifies \in BOOLEAN : IngestRuntime(automatic, verifies)
  \/ \E c \in Calls : Request(c)
  \/ Answer
  \/ call # None /\ \E items \in [DOMAIN Requirements -> Items] : Verify(items)
  \/ "verdicts" \in happens /\ answer = None /\   \* asked twice, it says the same
     \E id \in DOMAIN revisions, flags \in Flags, S \in SUBSET Paths,
        e \in [status : {"verified", "failed"}, source : 0..commit] :
       ConvergeTask(id, [r \in S |-> e], flags)
  \/ Restart

Spec == Init /\ [][Next]_vars

----------------------------------------------------------------------------
(* Properties.                                                             *)

TypeOK ==
  /\ policy.modes \in [Capabilities -> RolloutModes]
  /\ policy.depths \in [Capabilities -> Depths]
  /\ tree \in [Paths -> 0..MaxEdits + 1]
  /\ edits \in 0..MaxEdits /\ commit \in 0..MaxCommits
  /\ pending \subseteq Paths
  /\ head <= MaxRevisions
  /\ \A id \in DOMAIN revisions : /\ revisions[id].shows \in [Paths -> 0..MaxEdits + 1]
                                  /\ revisions[id].source \in 0..commit
  /\ collector.caps \subseteq SignalKinds
  /\ collector.task \in Tasks \cup {"none"} /\ collector.changed \subseteq Paths

(* An answer is made of the facts of one revision, the one that was the    *)
(* head when the request began: whatever the caches held, however the head *)
(* moved, in this sidecar or another, before the request or during it.     *)
AnswersAreOfTheHead ==
  answer # None => answer.id = answer.head /\ answer.facts = ShowsOf(revisions, answer.head)

(* The shadow plan is the plan of the task, the changes, the model and the *)
(* evidence collected so far, in whatever order they arrived.              *)
PlanFollowsSignals ==
  plan = IF collector.task = "none" THEN None ELSE IntelligencePlan(collector, policy)

(* COMPLETE is told only of a target whose every expected ref is a fact of *)
(* the revision it names, and, where verification is asked for, was        *)
(* verified at that revision's source.                                     *)
Complete == answer # None /\ answer.verdict # None /\ answer.verdict.decision = "complete"
CompleteIsVerified == Complete => answer.verdict.supported

(* "Stale detection and rebuild-from-source are mandatory": an answer is   *)
(* of the worktree once the plugin has delivered every change of it.       *)
AnswersAreCurrent == answer # None /\ answer.fresh # None => answer.facts = answer.fresh

(* ... where the policy lets the sidecar compute without being asked, and  *)
(* it is the only one and no queue was full: in whichever batches the      *)
(* paths came, although each is stamped with the whole worktree, so that a *)
(* build asked for in between finds nothing to do.  Where there are others *)
(* or a queue was full it is not so, see the README.                       *)
ActiveAnswersAreCurrent ==
  /\ \A c \in ProjectTruth : ComputesAutomatically(policy, c)
  /\ happens \cap {"others", "overflow"} = {}
  => AnswersAreCurrent

(* No target is complete while evidence given with it, for a ref whose     *)
(* element asks for verification, failed.                                  *)
FailureBlocksCompletion == Complete => ~ answer.verdict.failed

(* A runtime that negotiated once is heard: a sidecar that was restarted   *)
(* has negotiated nothing, and no one connects it again.                   *)
NegotiatedStaysHeard == [][collector.caps # {} => collector'.caps # {}]_vars

============================================================================
