------------------------------ MODULE Migration ------------------------------
(***************************************************************************)
(* How results of an older runner get into a checkpoint of this one        *)
(* (evaluation/compatibility.py with run_bridge, promote_pilot,            *)
(* requeue_provider_gaps and _bind_migrated_checkpoint_to_local_schedule   *)
(* of tools/local/evaluation_runner.py): the old checkpoint is audited     *)
(* cell by cell, a sample of its reusable cells runs again as a bridge,    *)
(* the two are compared, and what the proof permits is copied with its     *)
(* traces.  Each step is a command of its own that reads the files of the  *)
(* earlier ones; commits and kills come between any two of them.           *)
(*                                                                         *)
(* A seal or a hash of a file is the file.  The source is never edited.    *)
(* A source result is [cell, outcome, gap, provenance, sealed]: gap says   *)
(* that its output shows a provider failure, provenance that it is the     *)
(* cell of the schedule it says it is, with its own trace, sealed that it  *)
(* is a cell of a tier the plan seals as unavailable.  A cell is           *)
(* [tier, class, arm, local]: local, that today's schedule has it.  The    *)
(* source is bound if an earlier migration gave it a compatibility proof.  *)
(*                                                                         *)
(* MatchedForGood and BridgeUntraced are no part of the model: each is a   *)
(* plausible mistake in the operator after it, swapped in by PROJECT.json. *)
(***************************************************************************)
EXTENDS TraceLog, FiniteSets, Naturals

CONSTANTS
  Sources,       (* Checkpoints of the older runner to begin with.          *)
  RequiredTiers, (* bridge_sample_policy of the manifest: the tiers and the *)
  SampleClasses, (* task classes to sample, and how many                    *)
  SampleSize,    (* cells that must make.                                   *)
  MaxRevision    (* Bound: commits, counting the first.                     *)

ASSUME MigrationAssumption ==
  /\ MaxRevision \in Nat \ {0}
  /\ SampleSize \subseteq Nat
  /\ \A s \in Sources :
       /\ s.semantics \in {"same", "changed", "unsealed"}
       /\ \A r \in s.results : r.outcome \in {"PASS", "FAIL", "TIMEOUT", "UNAVAILABLE"}

VARIABLES
  revision,  (* git rev-parse HEAD.                                         *)
  source,    (* The old checkpoint: [scope, results, torn, bound,           *)
             (* semantics, counted, proceeds].                              *)
  audit,     (* Each output file, None until its command has written it.    *)
  plan,
  bridge,    (* The report of the bridge run and                            *)
  log,       (* its trace log.                                              *)
  run,       (* The process that runs the bridge.                           *)
  proof,
  migrated,
  promoted,
  requeued

migrationVars ==
  <<revision, source, audit, plan, bridge, log, run, proof, migrated, promoted, requeued>>

None == [head |-> 0]
NoRun == [step |-> "idle"]
Classified == {"REUSABLE", "REPLAY_REQUIRED", "INVALID_SEAL_MISMATCH", "INVALID_INCOMPLETE",
               "INVALID_PROVENANCE", "INVALID_PROVIDER_GAP", "INVALID_TIMEOUT"}
Rerun == {"match", "mismatch", "unavailable"}

MigrationTypeOK ==
  /\ revision \in 1..MaxRevision /\ source \in Sources
  /\ \A file \in {audit, plan, bridge, proof, migrated, promoted, requeued} :
       file.head \in 0..revision
  /\ audit # None => audit.class \in [source.results -> Classified]
  /\ plan # None => plan.cells \subseteq {r.cell : r \in source.results}
  /\ bridge # None => \A r \in bridge.results : r.outcome \in Rerun
  /\ run.step \in {"idle", "loop", "trace", "write"}
  /\ \A file \in {migrated, requeued} \ {None} : \A r \in file.results : r.result \in source.results

MigrationInit ==
  /\ revision = 1 /\ source \in Sources
  /\ audit = None /\ plan = None /\ bridge = None /\ proof = None
  /\ migrated = None /\ promoted = None /\ requeued = None
  /\ log = <<>> /\ run = NoRun

-----------------------------------------------------------------------------
(* audit_checkpoint.                                                        *)

(* _global_compatibility, and the count of cells the checkpoint claims.     *)
Global ==
  IF ~source.counted THEN "INVALID_INCOMPLETE"
  ELSE CASE source.semantics = "changed" -> "REPLAY_REQUIRED"
         [] source.semantics = "unsealed" -> "INVALID_SEAL_MISMATCH"
         [] source.semantics = "same" -> "REUSABLE"

Class(result) ==
  IF Global # "REUSABLE" THEN Global
  ELSE IF ~result.provenance THEN "INVALID_PROVENANCE"
  ELSE IF result.gap THEN "INVALID_PROVIDER_GAP"
  ELSE IF result.outcome = "TIMEOUT" THEN "INVALID_TIMEOUT"
  ELSE IF result.outcome = "UNAVAILABLE" /\ ~result.sealed THEN "INVALID_PROVIDER_GAP"
  ELSE IF source.torn THEN "INVALID_PROVENANCE"
  ELSE "REUSABLE"

Audit ==
  /\ run = NoRun
  /\ audit' = [head |-> revision, integrity |-> ~source.torn,
               class |-> [r \in source.results |-> Class(r)]]
  /\ UNCHANGED <<revision, source, plan, bridge, log, run, proof, migrated, promoted, requeued>>

Reusable(file) == {r \in source.results : file.class[r] = "REUSABLE"}

(* create_bridge_plan: of each required tier and class one reusable cell,   *)
(* of the native arm if there is one.                                       *)
Candidates(tier, class) ==
  {r.cell : r \in {s \in Reusable(audit) : s.cell.tier = tier /\ s.cell.class = class}}

First(candidates) ==
  LET native == {c \in candidates : c.arm = "native"} IN
  CHOOSE c \in IF native # {} THEN native ELSE candidates : TRUE

PlanBridge ==
  /\ run = NoRun /\ audit # None
  /\ \A t \in RequiredTiers, k \in SampleClasses : Candidates(t, k) # {}
  /\ Cardinality(RequiredTiers) * Cardinality(SampleClasses) \in SampleSize
  /\ plan' = [head |-> revision, audit |-> audit,
              cells |-> {First(Candidates(t, k)) : t \in RequiredTiers, k \in SampleClasses}]
  /\ UNCHANGED <<revision, source, audit, bridge, log, run, proof, migrated, promoted, requeued>>

-----------------------------------------------------------------------------
(* run_bridge.                                                              *)

(* The paused tiers of the report it resumes.                               *)
PausedTiers == IF bridge = None THEN {} ELSE bridge.paused

(* Given proofs that some of the paused tiers are available again.          *)
StartBridge(selected, available) ==
  /\ run = NoRun /\ plan # None /\ plan.head = revision
  /\ \/ bridge = None /\ log = <<>>
     \/ bridge # None /\ bridge.plan = plan /\ bridge.head = revision
  /\ Readable(log)
  /\ available \subseteq PausedTiers
  /\ run' = [step |-> "loop", selected |-> selected,
             head |-> revision, paused |-> PausedTiers \ available, result |-> None,
             results |-> IF bridge = None THEN {} ELSE bridge.results]
  /\ UNCHANGED <<revision, source, audit, plan, bridge, log, proof, migrated, promoted, requeued>>

PendingBridge ==
  {c \in plan.cells : /\ c.tier \in run.selected /\ c.tier \notin run.paused
                      /\ \A r \in run.results : r.cell # c}

(* In the plan's order, which makes no difference.                          *)
NextPlanned == CHOOSE c \in PendingBridge : TRUE

(* A rerun compared with the source's cell, or a provider failure.          *)
ExecuteBridge ==
  /\ run.step = "loop" /\ PendingBridge # {}
  /\ \/ \E outcome \in Rerun :
          run' = [run EXCEPT !.step = "trace",
                    !.result = [cell |-> NextPlanned, outcome |-> outcome, wall |-> 1]]
     \/ run' = [run EXCEPT !.step = "write", !.paused = @ \cup {NextPlanned.tier}]
  /\ UNCHANGED <<revision, source, audit, plan, bridge, log, proof, migrated, promoted, requeued>>

(* The result is kept whether or not its trace was.                         *)
BridgeUntraced ==
  /\ run.step = "trace"
  /\ log' = Appended(log, TraceOf(run.result))
  /\ run' = [run EXCEPT !.step = "write", !.results = @ \cup {run.result}]
  /\ UNCHANGED <<revision, source, audit, plan, bridge, proof, migrated, promoted, requeued>>

TraceBridge ==
  /\ run.step = "trace"
  /\ log' = Appended(log, TraceOf(run.result))
  /\ run' = IF AppendAnswer(log, TraceOf(run.result)) \in {"appended", "same"}
            THEN [run EXCEPT !.step = "write", !.results = @ \cup {run.result}]
            ELSE NoRun
  /\ UNCHANGED <<revision, source, audit, plan, bridge, proof, migrated, promoted, requeued>>

(* The revision is the one the run began at.                                *)
BridgeReport ==
  [head |-> run.head, plan |-> plan, paused |-> run.paused, results |-> run.results]

WriteBridge ==
  /\ run.step = "write"
  /\ bridge' = BridgeReport
  /\ run' = [run EXCEPT !.step = "loop", !.result = None]
  /\ UNCHANGED <<revision, source, audit, plan, log, proof, migrated, promoted, requeued>>

(* An existing report is left as it is.                                     *)
FinishBridge ==
  /\ run.step = "loop" /\ PendingBridge = {}
  /\ bridge' = IF bridge = None THEN BridgeReport ELSE bridge
  /\ run' = NoRun
  /\ UNCHANGED <<revision, source, audit, plan, log, proof, migrated, promoted, requeued>>

-----------------------------------------------------------------------------
(* prove_bridge.                                                            *)

BridgeOutcome(c) ==
  IF \E r \in bridge.results : r.cell = c
  THEN (CHOOSE r \in bridge.results : r.cell = c).outcome
  ELSE "unavailable"

ClassesOf(outcome) ==
  {<<c.tier, c.class>> : c \in {d \in bridge.plan.cells : BridgeOutcome(d) = outcome}}

Prove ==
  /\ run = NoRun /\ plan # None /\ bridge # None /\ bridge.plan = plan
  /\ proof' = [head |-> revision, plan |-> plan, ran |-> bridge.head,
               matched |-> ClassesOf("match"), replay |-> ClassesOf("mismatch"),
               unavailable |-> ClassesOf("unavailable")]
  /\ UNCHANGED <<revision, source, audit, plan, bridge, log, run, migrated, promoted, requeued>>

-----------------------------------------------------------------------------
(* migrate_checkpoint.                                                      *)

TiersIn(classes) == {k[1] : k \in classes}

MatchedForGood(result) == result.cell.tier \in TiersIn(proof.matched)

(* The tier matched somewhere and was available throughout, and the class   *)
(* matched wherever it was sampled.                                         *)
Permitted(result) ==
  /\ result.cell.tier \in RequiredTiers \cap TiersIn(proof.matched)
  /\ result.cell.tier \notin TiersIn(proof.unavailable)
  /\ <<result.cell.tier, result.cell.class>> \notin proof.replay

SealedUnavailable(result) == result.sealed /\ result.outcome = "UNAVAILABLE"

Migrants == {r \in Reusable(audit) : SealedUnavailable(r) \/ Permitted(r)}

(* With what _bind_migrated_checkpoint_to_local_schedule makes of it; a     *)
(* cell outside today's schedule fails the command.                         *)
Migrate ==
  /\ run = NoRun /\ audit # None /\ proof # None /\ migrated = None
  /\ proof.plan.audit = audit
  /\ audit.integrity
  /\ proof.matched # {}
  /\ \A r \in Migrants : r.cell.local
  /\ migrated' = [head |-> revision, bound |-> TRUE, proof |-> proof,
                  results |-> {[result |-> r, validated |-> revision] : r \in Migrants},
                  traces |-> {r.cell : r \in Migrants}]
  /\ UNCHANGED <<revision, source, audit, plan, bridge, log, run, proof, promoted, requeued>>

(* promote_pilot.                                                           *)
PromotePilot ==
  /\ run = NoRun /\ audit # None /\ audit.integrity
  /\ source.counted /\ source.results # {}
  /\ Reusable(audit) = source.results
  /\ source.scope = "b0a-pilot" /\ source.proceeds
  /\ promoted' = [head |-> revision, audit |-> audit]
  /\ UNCHANGED <<revision, source, audit, plan, bridge, log, run, proof, migrated, requeued>>

(* requeue_provider_gaps, applied to the source: it takes any baseline      *)
(* checkpoint, whatever revision made it, and makes it one of HEAD; the     *)
(* proof the source is bound to, if it has one, is copied.  What Migrate    *)
(* wrote has no gaps to requeue.                                            *)
Scheduled == {r \in source.results : r.cell.local}
Gaps == {r \in Scheduled : r.gap}

RequeueGaps ==
  /\ run = NoRun /\ requeued = None
  /\ source.scope = "b0a-baseline"
  /\ Gaps # {}
  /\ ~source.torn /\ \A r \in Scheduled \ Gaps : r.provenance
  /\ requeued' = [head |-> revision, bound |-> source.bound,
                  results |-> {[result |-> r, validated |-> 0] : r \in Scheduled \ Gaps},
                  traces |-> {r.cell : r \in Scheduled \ Gaps},
                  paused |-> {r.cell.tier : r \in Gaps}]
  /\ UNCHANGED <<revision, source, audit, plan, bridge, log, run, proof, migrated, promoted>>

-----------------------------------------------------------------------------
KillBridge ==
  /\ run # NoRun
  /\ run' = NoRun
  /\ \/ log' = log
     \/ /\ run.step = "trace"
        /\ AppendAnswer(log, TraceOf(run.result)) = "appended"
        /\ \E line \in {Torn, TraceOf(run.result)} : log' = Append(log, line)
  /\ UNCHANGED <<revision, source, audit, plan, bridge, proof, migrated, promoted, requeued>>

NewRevision ==
  /\ revision < MaxRevision /\ revision' = revision + 1
  /\ UNCHANGED <<source, audit, plan, bridge, log, run, proof, migrated, promoted, requeued>>

(* The bridge is begun again with a fresh output and raw root.              *)
FreshBridge ==
  /\ run = NoRun /\ (bridge # None \/ log # <<>>)
  /\ bridge' = None /\ log' = <<>>
  /\ UNCHANGED <<revision, source, audit, plan, run, proof, migrated, promoted, requeued>>

MigrationNext ==
  \/ Audit \/ PlanBridge
  \/ \E selected, available \in SUBSET RequiredTiers : StartBridge(selected, available)
  \/ ExecuteBridge \/ TraceBridge \/ WriteBridge \/ FinishBridge
  \/ Prove \/ Migrate \/ PromotePilot \/ RequeueGaps
  \/ KillBridge \/ NewRevision \/ FreshBridge

MigrationSpec == MigrationInit /\ [][MigrationNext]_migrationVars

-----------------------------------------------------------------------------
(* Properties.                                                              *)

(* What migrate_checkpoint copies from an old runner has a proof: the       *)
(* result was complete, with its own trace and no provider failure, under   *)
(* unchanged semantics; every sampled class of its tier ran again, and if   *)
(* its own class is one of them it did not come out otherwise.  Cells       *)
(* sealed as unavailable need no rerun.  (audit_checkpoint,                 *)
(* create_bridge_plan, run_bridge, prove_bridge and migrate_checkpoint, in  *)
(* whatever order and at whatever revision they ran.)                       *)
OnlyProvenMigrates ==
  migrated # None =>
    \A m \in migrated.results :
      LET r == m.result
          compared == migrated.proof.matched \cup migrated.proof.replay
          rerun == {k \in compared : k[1] = r.cell.tier}
      IN /\ r.provenance /\ ~r.gap /\ r.outcome # "TIMEOUT"
         /\ source.semantics = "same" /\ ~source.torn
         /\ ~SealedUnavailable(r) =>
              /\ r.outcome \in {"PASS", "FAIL"}
              /\ rerun = {<<r.cell.tier, k>> : k \in SampleClasses}
              /\ <<r.cell.tier, r.cell.class>> \notin migrated.proof.replay

(* Every rerun a bridge report claims has its own trace, over every kill    *)
(* and resume of run_bridge.                                                *)
BridgeTraced ==
  bridge # None =>
    \A r \in bridge.results :
      Cardinality({n \in DOMAIN log : log[n] = TraceOf(r)}) = 1

(* "Every copied result records its original result hash, old runner,       *)
(* validating runner" (docs/evaluation/README.md): the revision it records  *)
(* is the one its tier ran the bridge at.  False: migrate_checkpoint takes  *)
(* HEAD and never looks at the bridge's revision, so results are bound to   *)
(* commits that nothing was compared with.                                  *)
ValidatedByRunner ==
  migrated # None =>
    \A m \in migrated.results :
      ~SealedUnavailable(m.result) => m.validated = migrated.proof.ran

(* "Copy only permitted classes into a new checkpoint" (the same): what was *)
(* migrated is of a class the proof lists as matched.  False: a class that  *)
(* was never sampled goes along with its tier.                              *)
OnlyPermittedClasses ==
  migrated # None =>
    \A m \in migrated.results :
      ~SealedUnavailable(m.result) =>
        <<m.result.cell.tier, m.result.cell.class>> \in migrated.proof.matched

(* A checkpoint that a resume of the runner at HEAD goes on from: one bound *)
(* to a proof may rest on evidence of another revision.                     *)
Accepted == {file \in {migrated, requeued} \ {None} : file.head = revision /\ file.bound}

(* "Runner-only changes do not authorize either an unconditional resume or  *)
(* automatic deletion of prior results" (docs/evaluation/README.md): what a *)
(* resume at HEAD goes on from was compared at HEAD.  False:                *)
(* requeue_provider_gaps takes the proof of an older migration along to     *)
(* HEAD, with results that no audit and no bridge has looked at since.      *)
NoUnconditionalResume ==
  \A file \in Accepted : \A m \in file.results :
    ~SealedUnavailable(m.result) => m.validated = file.head

=============================================================================
