------------------------------ MODULE Evaluation ------------------------------
(***************************************************************************)
(* The evaluation runner, tools/local/evaluation_runner.py: run() goes     *)
(* through the cells of a scope, one process at a time, appends the trace  *)
(* of each measured cell to the scope's log (TraceLog) and then replaces   *)
(* the scope's report, which --resume starts from.  Each scope rests on    *)
(* reports of the ones before it: the activation, the effect pilot, the    *)
(* baseline, the screening.  The process may be killed between any two of  *)
(* its steps, and in the middle of an append; the revision under test      *)
(* moves with every commit.  What module Migration makes of an older       *)
(* runner's files comes in from outside: a baseline that is bound to a     *)
(* proof (TakeOver) and pilot evidence (TakeOverPilot).                     *)
(*                                                                         *)
(* Left out: the seals (nobody edits a report; a seal that is evidence is  *)
(* the content it seals, without its time of capture), the selection of    *)
(* arms, models and tasks (it changes the schedule, which a resume         *)
(* refuses), cells of a tier that is sealed as unavailable (Migration),    *)
(* provider_attempts, and the worktree, which is clean: every change is a  *)
(* commit.                                                                 *)
(*                                                                         *)
(* AnyRevision, ResultsForgotten, QueueForgotten, GapScored and            *)
(* ReportedUntraced are no part of the model: each is a plausible mistake  *)
(* in the operator after it, swapped in by PROJECT.json.                   *)
(***************************************************************************)
EXTENDS EvaluationGates, TraceLog

CONSTANTS
  Schedule,         (* plan(scope): a sequence of cells for each scope.     *)
  Measurements,     (* What an execution in each scope may measure:         *)
                    (* [outcome, observed, wall].                           *)
  OlderBaselines,   (* Baselines that TakeOver may bring: [results, queue]. *)
  MigratedAt,       (* Bound: revisions at which an older runner's files    *)
                    (* are brought in.                                      *)
  MaxHead,          (* Bound: commits, counting the first.                  *)
  MaxExecutions,    (* Bound: cells executed.                               *)
  CommitsDuringRun  (* A commit may be made while the runner runs.          *)

Scopes == {"activation", "pilot", "baseline", "screening"}

ASSUME EvaluationAssumption ==
  /\ DOMAIN Schedule = Scopes /\ DOMAIN Measurements = Scopes
  /\ \A s \in Scopes : Schedule[s] \in Seq(ToSet(Schedule[s])) /\ IsInjective(Schedule[s])
  /\ \A s \in Scopes : \A c \in ToSet(Schedule[s]) : c.tier \in Tiers
  /\ MaxHead \in Nat \ {0} /\ MaxExecutions \in Nat
  /\ CommitsDuringRun \in BOOLEAN

Cells(s) == ToSet(Schedule[s])
Queues == [Tiers -> {"none", "PAUSED", "AVAILABLE"}]

ResultOf(cell, m, commit) ==
  [cell |-> cell, outcome |-> m.outcome, observed |-> m.observed, wall |-> m.wall, head |-> commit]

(* The head of a result is 0 if an older runner measured it.                *)
ResultsAt(s, heads) ==
  {ResultOf(c, m, h) : c \in Cells(s), m \in Measurements[s], h \in heads}

ASSUME OlderAssumption ==
  \A older \in OlderBaselines :
    /\ older.results \subseteq ResultsAt("baseline", {0}) /\ IsFiniteSet(older.results)
    /\ \A q, r \in older.results : q.cell = r.cell => q = r
    /\ older.queue \in Queues

VARIABLES
  head,       (* git rev-parse HEAD.                                        *)
  proofs,     (* Availability proofs of probe_provider: [revision, tier].   *)
  reports,    (* The report file of each scope, or NoReport.                *)
  logs,       (* Its trace log; a file with no line does not exist.         *)
  promotedAt,   (* The revision that promoted pilot evidence names, or 0.     *)
  job,        (* The process: its step and its local variables.             *)
  executions  (* Cells executed so far.                                     *)

vars == <<head, proofs, reports, logs, promotedAt, job, executions>>

NoReport == [results |-> {}, exists |-> FALSE]
NoEvidence == [revision |-> 0]
NoResult == [outcome |-> "none"]
Idle == [step |-> "idle"]
NoQueue == [t \in Tiers |-> "none"]
OlderEvidence == [activation |-> NoEvidence, pilot |-> NoEvidence, baseline |-> NoEvidence]

Results == UNION {ResultsAt(s, 0..MaxHead) : s \in Scopes}

TypeOK ==
  /\ head \in 1..MaxHead
  /\ proofs \subseteq [revision : 1..head, tier : Tiers]
  /\ \A s \in Scopes :
       /\ reports[s] # NoReport =>
            /\ reports[s].revision \in 1..head /\ reports[s].bound \in BOOLEAN
            /\ reports[s].results \subseteq Results
            /\ reports[s].queue \in Queues
       /\ \A n \in DOMAIN logs[s] :
            logs[s][n] = Torn \/ logs[s][n] \in {TraceOf(r) : r \in Results}
  /\ job.step \in {"idle", "loop", "trace", "write"}
  /\ promotedAt \in 0..head
  /\ job # Idle => job.results \subseteq Results /\ job.scope \in Scopes
  /\ executions \in 0..MaxExecutions

Init ==
  /\ head = 1 /\ proofs = {} /\ promotedAt = 0 /\ executions = 0
  /\ reports = [s \in Scopes |-> NoReport]
  /\ logs = [s \in Scopes |-> <<>>]
  /\ job = Idle

-----------------------------------------------------------------------------
(* What a later scope demands of the reports it rests on.                   *)

Paused(queue) == {t \in Tiers : queue[t] = "PAUSED"}

(* The activation failed for nothing but tiers whose provider is paused.    *)
PartialProviderGap(report) ==
  /\ ~ActivationPasses(report.results)
  /\ Paused(report.queue) # {}
  /\ MissingTiers(report.results) = Paused(report.queue)
  /\ FailedObservation(report.results) = {}
  /\ RoutesReachable

AnyRevision(report) == TRUE

AtHead(report) == report.revision = head

ActivationHolds(comprehensive) ==
  LET report == reports["activation"] IN
  /\ report # NoReport
  /\ \/ PartialProviderGap(report)
     \/ /\ ActivationPasses(report.results)
        /\ comprehensive => ComprehensivePermitted(report.results)
  /\ AtHead(report)
  /\ TiersOf(report.results) = Tiers \ Paused(report.queue)

ActivationEvidence ==
  [revision |-> head, partial |-> PartialProviderGap(reports["activation"]),
   activated |-> TiersOf(reports["activation"].results),
   queue |-> reports["activation"].queue]

PilotHolds ==
  LET report == reports["pilot"] IN
  /\ report # NoReport
  /\ PilotDecision(Cells("pilot"), report.results) = "PROCEED_TO_COMPREHENSIVE"
  /\ AtHead(report)

(* --pilot-report names the report of a pilot, or evidence promoted from      *)
(* an older one at this very HEAD.                                          *)
PilotEvidence ==
  [revision : {head},
   promoted : {p \in BOOLEAN : IF p THEN promotedAt = head ELSE PilotHolds}]

TracesCover(report, log) ==
  /\ Readable(log)
  /\ Len(log) = Cardinality(report.results)
  /\ \A r \in report.results : Holds(log, r.cell)

BaselineHolds ==
  LET report == reports["baseline"] IN
  /\ report # NoReport
  /\ AtHead(report)
  /\ {r.cell : r \in report.results} = Cells("baseline")
  /\ \A r \in report.results : r.outcome # "UNAVAILABLE"
  /\ TracesCover(report, logs["baseline"])

BaselineEvidence ==
  [revision |-> head, sealed |-> reports["baseline"].results, bound |-> reports["baseline"].bound]

Required(s) ==
  CASE s = "activation" -> TRUE
    [] s = "pilot" -> ActivationHolds(FALSE)
    [] s = "baseline" -> ActivationHolds(TRUE)
    [] s = "screening" -> ActivationHolds(TRUE) /\ BaselineHolds

(* What run() may go on, none where the pilot's is missing.                 *)
Evidence(s) ==
  [activation : {IF s = "activation" THEN NoEvidence ELSE ActivationEvidence},
   pilot : IF s \in {"baseline", "screening"} THEN PilotEvidence ELSE {NoEvidence},
   baseline : {IF s = "screening" THEN BaselineEvidence ELSE NoEvidence}]

(* _validate_resume: for a checkpoint that is bound to a proof of           *)
(* compatibility the evidence it carries is not compared.                   *)
ResumePermitted(s, evidence) ==
  LET report == reports[s] IN
  /\ AtHead(report)
  /\ report.bound \/ report.evidence = evidence
  /\ report.results # {} => logs[s] # <<>>

-----------------------------------------------------------------------------
(* run(): what it starts from.                                              *)

ResultsForgotten(s) == {}

(* Results of the report it resumes, the completed cells.                   *)
ResumedResults(s) == reports[s].results

QueueForgotten(s, proved) ==
  [t \in Tiers |-> IF t \in proved THEN "AVAILABLE" ELSE "none"]

(* The report's queue, overridden by the activation's, overridden by the    *)
(* proofs it was given.                                                     *)
StartQueue(s, proved) ==
  LET resumed == IF reports[s] = NoReport THEN NoQueue ELSE reports[s].queue
      activation == IF s = "activation" THEN NoQueue ELSE reports["activation"].queue
  IN [t \in Tiers |-> IF t \in proved THEN "AVAILABLE"
                      ELSE IF activation[t] # "none" THEN activation[t]
                      ELSE resumed[t]]

Proved == {p.tier : p \in {q \in proofs : q.revision = head}}

Start(s, limit, proved) ==
  /\ job = Idle
  /\ Required(s)
  /\ Readable(logs[s])
  /\ proved \subseteq Proved
  /\ \E evidence \in Evidence(s) :
       /\ \/ reports[s] = NoReport /\ logs[s] = <<>>
          \/ reports[s] # NoReport /\ ResumePermitted(s, evidence)
       /\ job' = [step |-> "loop", scope |-> s, limit |-> limit, proved |-> proved,
                  results |-> ResumedResults(s), queue |-> StartQueue(s, proved),
                  evidence |-> evidence, result |-> NoResult,
                  bound |-> reports[s] # NoReport /\ reports[s].bound]
  /\ UNCHANGED <<head, proofs, reports, logs, promotedAt, executions>>

(* The first cell that is neither completed nor of a paused tier.           *)
Pending ==
  {n \in 1..job.limit :
     LET cell == Schedule[job.scope][n] IN
     /\ \A r \in job.results : r.cell # cell
     /\ job.queue[cell.tier] # "PAUSED"}

Next1 == CHOOSE n \in Pending : \A m \in Pending : n <= m
NextCell == Schedule[job.scope][Next1]

(* A gap is scored like any other outcome.                                  *)
GapScored ==
  /\ job.step = "loop" /\ Pending # {}
  /\ executions < MaxExecutions
  /\ executions' = executions + 1
  /\ \E outcome \in {"PASS", "PROVIDER_GAP"} :
       job' = [job EXCEPT !.step = "trace",
                 !.result = [cell |-> NextCell, outcome |-> outcome, observed |-> TRUE,
                             wall |-> 1, head |-> head]]
  /\ UNCHANGED <<head, proofs, reports, logs, promotedAt>>

(* _execute and _run_opencode; the answer is a measurement or a gap.        *)
Execute ==
  /\ job.step = "loop" /\ Pending # {}
  /\ executions < MaxExecutions
  /\ executions' = executions + 1
  /\ \/ \E m \in Measurements[job.scope] :
          job' = [job EXCEPT !.step = "trace", !.result = ResultOf(NextCell, m, head)]
     \/ job' = [job EXCEPT !.step = "write", !.queue[NextCell.tier] = "PAUSED"]
  /\ UNCHANGED <<head, proofs, reports, logs, promotedAt>>

Measured ==
  [job EXCEPT !.step = "write", !.results = @ \cup {job.result}, !.result = NoResult]

(* The result is kept whether or not its trace was.                         *)
ReportedUntraced ==
  /\ job.step = "trace"
  /\ logs' = [logs EXCEPT ![job.scope] = Appended(@, TraceOf(job.result))]
  /\ job' = Measured
  /\ UNCHANGED <<head, proofs, reports, promotedAt, executions>>

(* _append_trace; a log it cannot add to ends the run.                      *)
AppendTrace ==
  /\ job.step = "trace"
  /\ logs' = [logs EXCEPT ![job.scope] = Appended(@, TraceOf(job.result))]
  /\ job' = IF AppendAnswer(logs[job.scope], TraceOf(job.result)) \in {"appended", "same"}
            THEN Measured
            ELSE Idle
  /\ UNCHANGED <<head, proofs, reports, promotedAt, executions>>

(* _report asks git for the revision when it writes, and repeats the        *)
(* binding of the checkpoint that was resumed.                              *)
Report ==
  [exists |-> TRUE, bound |-> job.bound, revision |-> head, results |-> job.results,
   queue |-> job.queue, evidence |-> job.evidence]

WriteReport ==
  /\ job.step = "write"
  /\ reports' = [reports EXCEPT ![job.scope] = Report]
  /\ job' = [job EXCEPT !.step = "loop"]
  /\ UNCHANGED <<head, proofs, logs, promotedAt, executions>>

Finish ==
  /\ job.step = "loop" /\ Pending = {}
  /\ reports' = [reports EXCEPT ![job.scope] = Report]
  /\ job' = Idle
  /\ UNCHANGED <<head, proofs, logs, promotedAt, executions>>

-----------------------------------------------------------------------------
(* Around the runner.                                                       *)

(* Killed; a line that was being appended is whole, torn or not there.      *)
Crash ==
  /\ job # Idle
  /\ job' = Idle
  /\ \/ logs' = logs
     \/ /\ job.step = "trace"
        /\ AppendAnswer(logs[job.scope], TraceOf(job.result)) = "appended"
        /\ \E line \in {Torn, TraceOf(job.result)} :
             logs' = [logs EXCEPT ![job.scope] = Append(@, line)]
  /\ UNCHANGED <<head, proofs, reports, promotedAt, executions>>

(* probe_provider: a proof of another status is no proof.                   *)
ProbeProvider(tier) ==
  /\ proofs' = proofs \cup {[revision |-> head, tier |-> tier]}
  /\ UNCHANGED <<head, reports, logs, promotedAt, job, executions>>

Commit ==
  /\ head < MaxHead
  /\ job = Idle \/ CommitsDuringRun
  /\ head' = head + 1
  /\ UNCHANGED <<proofs, reports, logs, promotedAt, job, executions>>

(* The next run of the scope is given a fresh path and raw root.            *)
FreshPath(s) ==
  /\ job = Idle
  /\ reports[s] # NoReport \/ logs[s] # <<>>
  /\ reports' = [reports EXCEPT ![s] = NoReport]
  /\ logs' = [logs EXCEPT ![s] = <<>>]
  /\ UNCHANGED <<head, proofs, promotedAt, job, executions>>

(* migrate_checkpoint, or requeue_provider_gaps of a checkpoint that is     *)
(* bound already: a baseline with what an older runner measured of some of  *)
(* the cells and its traces, under today's HEAD and schedule.  The older    *)
(* runner may be this one before a commit.  (A baseline of this runner has  *)
(* no gaps to requeue.)                                                     *)
TakeOver(older) ==
  /\ job = Idle /\ head \in MigratedAt
  /\ reports["baseline"] = NoReport /\ logs["baseline"] = <<>>
  /\ reports' = [reports EXCEPT !["baseline"] =
                   [exists |-> TRUE, bound |-> TRUE, revision |-> head, results |-> older.results,
                    queue |-> older.queue, evidence |-> OlderEvidence]]
  /\ logs' = [logs EXCEPT !["baseline"] = SetToSeq({TraceOf(r) : r \in older.results})]
  /\ UNCHANGED <<head, proofs, promotedAt, job, executions>>

(* promote_pilot; a run asks for its file only when it starts.              *)
TakeOverPilot ==
  /\ job = Idle /\ head \in MigratedAt
  /\ promotedAt' = head
  /\ UNCHANGED <<head, proofs, reports, logs, job, executions>>

Next ==
  \/ \E s \in Scopes, proved \in SUBSET Tiers :
       \E limit \in 1..Len(Schedule[s]) : Start(s, limit, proved)
  \/ Execute \/ AppendTrace \/ WriteReport \/ Finish
  \/ Crash
  \/ \E t \in Tiers : ProbeProvider(t)
  \/ Commit
  \/ \E s \in Scopes : FreshPath(s)
  \/ \E older \in OlderBaselines : TakeOver(older)
  \/ TakeOverPilot

Spec == Init /\ [][Next]_vars

-----------------------------------------------------------------------------
(* Properties.                                                              *)

Reported == {s \in Scopes : reports[s] # NoReport}

(* Every result a report claims has its own trace, and only that one, in    *)
(* the scope's log, whatever run was killed in between (_append_trace       *)
(* before _write_report; append refuses another trace of a cell).           *)
TracedResults ==
  \A s \in Reported : \A r \in reports[s].results :
    {logs[s][n] : n \in {m \in DOMAIN logs[s] :
                          logs[s][m] # Torn /\ logs[s][m].cell = r.cell}} = {TraceOf(r)}

MeasuredAt(commit, bound, results) ==
  \A r \in results : r.head = commit \/ (bound /\ r.head = 0)

(* What a report holds was measured at the revision it names, on evidence   *)
(* of that revision.  Only a baseline that is bound to a proof may hold     *)
(* older results besides, and its evidence may be older only as long as it  *)
(* holds nothing else.  A screening rests on a baseline of its revision,    *)
(* or a bound one, that was complete and free of provider gaps.  (The gates *)
(* of run() and _validate_resume, across commits, kills, resumes and        *)
(* checkpoints taken over.)  It takes commits to stay away from running     *)
(* evaluations: _report asks for HEAD anew.                                 *)
RestsOnItsHead ==
  \A s \in Reported :
    LET report == reports[s]
        evidence == report.evidence
    IN /\ report.bound => s = "baseline"
       /\ MeasuredAt(report.revision, report.bound, report.results)
       /\ \/ report.bound /\ \A r \in report.results : r.head = 0
          \/ /\ s # "activation" => evidence.activation.revision = report.revision
             /\ s \in {"baseline", "screening"} => evidence.pilot.revision = report.revision
       /\ s = "screening" =>
            LET sealed == evidence.baseline.sealed IN
            /\ {r.cell : r \in sealed} = Cells("baseline")
            /\ MeasuredAt(report.revision, evidence.baseline.bound, sealed)
            /\ \A r \in sealed : r.outcome # "UNAVAILABLE"

(* Is a tier paused in the activation's report, only a run that was itself  *)
(* given a proof for it calls it.  Is it paused in the scope's own report,  *)
(* a run calls it that was given a proof, or whose activation was (run()    *)
(* lets the activation's queue override the report's); in either case the   *)
(* provider answered at this HEAD.                                          *)
GapHeld ==
  [][executions' # executions =>
       LET tier == NextCell.tier
           shows(s, status) == s \in Reported /\ reports[s].queue[tier] = status
           later == job.scope # "activation"
       IN /\ later /\ shows("activation", "PAUSED") => tier \in job.proved
          /\ shows(job.scope, "PAUSED") =>
               /\ tier \in job.proved \/ (later /\ shows("activation", "AVAILABLE"))
               /\ [revision |-> head, tier |-> tier] \in proofs]_vars

(* What a report has claimed stays in it for as long as the path is used,   *)
(* over every kill and resume.                                              *)
NothingLost ==
  [][\A s \in Scopes :
       reports'[s] # NoReport => reports[s].results \subseteq reports'[s].results]_vars

(* "The runner checkpoints atomically after every cell; --resume reuses     *)
(* completed cell IDs" (docs/evaluation/README.md): with no run under way   *)
(* the log can be read and holds only cells of the report.  False: a kill   *)
(* between _append_trace and _write_report leaves a trace that conflicts    *)
(* with the cell's next execution, one during the append a line that        *)
(* nothing reads.                                                           *)
Resumable ==
  job = Idle =>
    \A s \in Scopes :
      /\ Readable(logs[s])
      /\ \A n \in DOMAIN logs[s] : \E r \in reports[s].results : logs[s][n].cell = r.cell

(* "This permits unaffected providers to continue; it does not complete the *)
(* activation gate" (docs/evaluation/README.md on PARTIAL_PROVIDER_GAP): a  *)
(* tier that was not activated has no quality results.  False: with an      *)
(* availability proof the pilot and the baseline call it, and the gates     *)
(* still accept the partial activation.                                     *)
ActivatedFirst ==
  \A s \in Reported \ {"activation"} :
    ~reports[s].bound =>
      TiersOf(reports[s].results) \subseteq reports[s].evidence.activation.activated

(* "Recovery requires a separate probe and sealed proof before resume"      *)
(* (docs/evaluation/README.md): a run given no proof does not call a tier   *)
(* that the scope's report shows as paused.  False: run() lets the queue of *)
(* the activation override the report's, so where the activation had a      *)
(* proof the tier counts as available again.                                *)
RecoveryIsProved ==
  [][executions' # executions =>
       (job.scope \in Reported /\ reports[job.scope].queue[NextCell.tier] = "PAUSED" =>
          NextCell.tier \in job.proved)]_vars

=============================================================================
