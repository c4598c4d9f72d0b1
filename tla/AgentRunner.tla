----------------------------- MODULE AgentRunner -----------------------------
(***************************************************************************)
(* The three runners that put an agent to work cell by cell:               *)
(* run_adaptive of tools/local/adaptive_screening_runner.py (screening),   *)
(* run of causal_correction_runner.py (correction) and run of              *)
(* b0b_confirmation_runner.py (confirmation), over the _execute_batch they *)
(* share.  One agent works at a time; what it did is captured, then an     *)
(* oracle judges it in its workspace on another thread and the result is   *)
(* kept as a fragment; results are traced and reported when the batch is   *)
(* through and its workspaces are gone.  A run may be killed between any   *)
(* two of these, a provider may fail, an oracle may raise; a new revision  *)
(* takes a new plan and a new output, over the raw root there is.          *)
(*                                                                         *)
(* A cell is [policy, task, of, repetition]; of is the capability that an  *)
(* ablation turns off, the depth of a depth cell, "" otherwise.  Left out: *)
(* timing and token counts, templates, a torn trace (Evaluation has it),   *)
(* and screening of more than one capability, which repeats itself.        *)
(*                                                                         *)
(* CapturesIgnored, OnlyNewTraced, LastRoundLost and GapAblated are no     *)
(* part of the model: each is a plausible mistake in the operator after    *)
(* it, swapped in by PROJECT.json, like FutureCounted.                     *)
(***************************************************************************)
EXTENDS CausalDecisions, TraceLog, FiniteSetsExt

CONSTANTS
  Scenarios,   (* What the runner is given: [runner, schedule, source,      *)
               (* used, outputs, behaviours], see below.                    *)
  BatchSize,   (* cpu_pipeline_batch_size of the confirmation.              *)
  MaxHead,     (* Bound: commits, counting the first.                       *)
  MaxFaults    (* Bound: kills, provider failures and oracles that raise.   *)

(* create_plan of the correction: what is ablated is ablated in every       *)
(* repetition, in the one task that represents the capability, and the      *)
(* forced cells are those it is compared with; and of the confirmation,     *)
(* whose plan has the forced cell of each task.                             *)
ForcedFor(c) == [policy |-> "forced", task |-> c.task, of |-> "", repetition |-> c.repetition]

CorrectionPlan(cells) ==
  LET ablations == {c \in cells : c.policy = "ablation"}
  IN /\ \A c \in cells : c.policy \in {"auto", "forced", "off", "ablation"}
     /\ {c \in cells : c.policy = "forced"} = {ForcedFor(c) : c \in ablations}
     /\ \A c \in ablations, r \in 1..Rounds : [c EXCEPT !.repetition = r] \in ablations
     /\ \A c, d \in ablations : c.of = d.of => c.task = d.task

ConfirmationPlan(cells) == \A c \in cells : c.policy = "ablation" => ForcedFor(c) \in cells

(* What this module has of analyze's plan: one capability that is ablated,  *)
(* one task in which the depths are tried.                                  *)
ScreeningPlan(cells, used) ==
  \A c, d \in cells :
    /\ c.policy = "ablation" /\ d.policy = "ablation" /\ {c.of, d.of} \subseteq used => c.of = d.of
    /\ c.policy = "depth" /\ d.policy = "depth" => c.task = d.task

Cell(c) == c = [policy |-> c.policy, task |-> c.task, of |-> c.of, repetition |-> c.repetition]

ASSUME RunnerAssumption ==
  /\ BatchSize \in Nat \ {0} /\ MaxHead \in Nat \ {0} /\ MaxFaults \in Nat
  /\ \A s \in Scenarios :
       /\ s.runner \in {"screening", "correction", "confirmation"}
       /\ s.schedule \in Seq(ToSet(s.schedule))
       /\ \A c \in ToSet(s.schedule) : Cell(c) /\ c.repetition \in 1..Rounds
       /\ \A q, r \in s.source : q.cell = r.cell => q = r
       /\ DOMAIN s.outputs \subseteq Nat
       /\ s.source # {} => s.runner = "screening"
       /\ \A r \in s.source : r.outcome # "none"
       /\ \A c \in ToSet(s.schedule) : \A b \in s.behaviours[c.policy] : b.outcome # "none"
       /\ s.runner = "screening" => ScreeningPlan(ToSet(s.schedule), s.used)
       /\ s.runner = "correction" => CorrectionPlan(ToSet(s.schedule))
       /\ s.runner = "confirmation" => ConfirmationPlan(ToSet(s.schedule))

VARIABLES
  scenario,   (* runner; schedule, a sequence of cells; source, results     *)
              (* [cell, outcome] of an earlier screen that are compatible;  *)
              (* used, the capabilities its active cells used; outputs, the *)
              (* preflight's output at each depth; behaviours, what the     *)
              (* agent may do under a policy: [outcome, compliant, used];   *)
              (* entry, the plan's expected and optional capabilities.      *)
  head,       (* git rev-parse HEAD, for which there always is a plan.      *)
  captures,   (* agent-captures: [cell, outcome, compliant, head].          *)
  fragments,  (* result-fragments: results.                                 *)
  work,       (* Cells whose agent's workspace is still there.              *)
  log,        (* The trace log.                                             *)
  report,     (* The output, or NoReport.                                   *)
  job,        (* The process.                                               *)
  faults

vars == <<scenario, head, captures, fragments, work, log, report, job, faults>>

Idle == [step |-> "idle"]
NoReport == [head |-> 0]

(* analyze: the cells left after the deterministic skips; the other two     *)
(* runners plan their cells as they stand.                                  *)
PlanSkip(c) ==
  CASE c.policy = "active" -> "none"
    [] c.policy = "ablation" /\ c.of \notin scenario.used -> "NOT_TESTED_NO_ACTIVE_USE"
    [] c.policy = "depth" /\ c.of \notin Representatives(scenario.outputs)
         -> "SKIPPED_DEPTH_OUTPUT_EQUIVALENT"
    [] OTHER -> "none"

Planned ==
  {c \in ToSet(scenario.schedule) : scenario.runner = "screening" => PlanSkip(c) = "none"}
CellsOf(policy) == {c \in Planned : c.policy = policy}
CellsAt(policy, repetition) == {c \in CellsOf(policy) : c.repetition = repetition}

CellsIn(results) == {r.cell : r \in results}
ResultOf(results, c) == CHOOSE r \in results : r.cell = c
OutcomeIn(results, c) == IF c \in CellsIn(results) THEN ResultOf(results, c).outcome ELSE "none"
Replaced(results, new) == {r \in results : r.cell \notin CellsIn(new)} \cup new

Init ==
  /\ scenario \in Scenarios
  /\ head = 1 /\ captures = {} /\ fragments = {} /\ work = {} /\ log = <<>>
  /\ report = NoReport /\ job = Idle /\ faults = 0

-----------------------------------------------------------------------------
(* What to run next, from the results so far: {} when the runner is done.   *)

(* The pairs of an ablated capability; the policy of its other cell is      *)
(* active in the screening, forced elsewhere.                               *)
Partner(c) ==
  [policy |-> IF scenario.runner = "screening" THEN "active" ELSE "forced",
   task |-> c.task, of |-> "", repetition |-> c.repetition]

Compliant(results, c) == c \in CellsIn(results) => ResultOf(results, c).compliant

PairOf(results, c) ==
  [task |-> c.task, repetition |-> c.repetition,
   on |-> OutcomeIn(results, Partner(c)), off |-> OutcomeIn(results, c),
   compliant |-> Compliant(results, c) /\ Compliant(results, Partner(c))]

Ablations(capability) == {c \in CellsOf("ablation") : c.of = capability}
Capabilities == {c.of : c \in CellsOf("ablation")}
Pairs(results, capability) == {PairOf(results, c) : c \in Ablations(capability)}

(* run_adaptive: the active cells, ...                                      *)
Unobtained(results, cells) == cells \ CellsIn(results)

RoundCells(results, round) ==
  {c \in Unobtained(results, CellsAt("ablation", round)) :
     OutcomeIn(results, Partner(c)) = "PASS"}

Continues(results, round) ==
  SequentialDecision({PairOf(results, c) : c \in CellsOf("ablation")}, round)
    = "CONTINUE_TO_REPETITION"

(* ... the ablation, round by round until it is decided, ...                *)
AblationFrontier(results) ==
  LET open == {r \in 1..Rounds :
                 RoundCells(results, r) # {} /\ \A q \in 1..(r - 1) : Continues(results, q)}
  IN IF open = {} THEN {} ELSE RoundCells(results, Min(open))

(* Its repetitions in order, up to the first that there is no result of.    *)
Observed(results, depth) ==
  LET cells == {c \in CellsOf("depth") : c.of = depth /\ c \in CellsIn(results)}
      obtained == {n \in 1..Rounds : \A m \in 1..n : \E c \in cells : c.repetition = m}
  IN [n \in obtained |-> OutcomeIn(results, CHOOSE c \in cells : c.repetition = n)]

Verdict(results, depth) == DepthVerdict(Observed(results, depth))
Depths == {c.of : c \in CellsOf("depth")}

(* ... and the depths, from the least until one suffices.                   *)
DepthFrontier(results) ==
  LET open == {d \in Depths : /\ Verdict(results, d) = "open"
                              /\ \A e \in Depths : e < d => Verdict(results, e) = "insufficient"}
  IN {c \in CellsOf("depth") :
        c.of \in open /\ c.repetition = Len(Observed(results, c.of)) + 1}

ScreeningFrontier(results) ==
  LET active == Unobtained(results, CellsOf("active")) IN
  IF active # {} THEN active
  ELSE IF AblationFrontier(results) # {} THEN AblationFrontier(results)
  ELSE DepthFrontier(results)

(* _capability_state and the rounds of the correction: the pairs that are   *)
(* complete; a capability goes on while it is at the boundary.              *)
CompletePairs(results, capability) ==
  {p \in Pairs(results, capability) : p.on # "none" /\ p.off # "none"}

StateOf(results, capability) == CapabilityDecision(CompletePairs(results, capability))

GapAblated(results) ==
  {k \in Capabilities : StateOf(results, k) # "PROCEED_TO_B0B_CAUSAL"}

AtBoundary(results) ==
  {k \in Capabilities : StateOf(results, k) = "BOUNDARY_REQUIRES_NEXT_REPETITION"}

(* The auto cells come before the rounds.                                   *)
CorrectionRound(results, round) ==
  LET capabilities == IF round = 1 THEN Capabilities ELSE AtBoundary(results)
      off == {c \in CellsAt("ablation", round) : c.of \in capabilities}
      on == CellsAt("forced", round) \cap {Partner(c) : c \in off}
  IN <<Unobtained(results, on), Unobtained(results, CellsAt("off", round)),
       Unobtained(results, off)>>

LastRoundLost(results) ==
  LET auto == Unobtained(results, CellsOf("auto"))
      open == {x \in (1..(Rounds - 1)) \X (1..3) : CorrectionRound(results, x[1])[x[2]] # {}}
      first == CHOOSE x \in open : \A y \in open : x[1] < y[1] \/ (x[1] = y[1] /\ x[2] <= y[2])
  IN IF auto # {} THEN {CHOOSE c \in auto : TRUE}
     ELSE IF open = {} THEN {}
     ELSE {CHOOSE c \in CorrectionRound(results, first[1])[first[2]] : TRUE}

CorrectionFrontier(results) ==
  LET auto == Unobtained(results, CellsOf("auto"))
      pending == {x \in (1..Rounds) \X (1..3) : CorrectionRound(results, x[1])[x[2]] # {}}
      first == CHOOSE x \in pending : \A y \in pending :
                 x[1] < y[1] \/ (x[1] = y[1] /\ x[2] <= y[2])
  IN IF auto # {} THEN {CHOOSE c \in auto : TRUE}
     ELSE IF pending = {} THEN {}
     ELSE {CHOOSE c \in CorrectionRound(results, first[1])[first[2]] : TRUE}

(* run of the confirmation: whatever is pending, in the order of the plan.  *)
ConfirmationFrontier(results) ==
  LET plan == scenario.schedule
      pending == {n \in DOMAIN plan : plan[n] \notin CellsIn(results)}
  IN {plan[n] : n \in {m \in pending : Cardinality({k \in pending : k <= m}) <= BatchSize}}

Frontier(results) ==
  CASE scenario.runner = "screening" -> ScreeningFrontier(results)
    [] scenario.runner = "correction" -> CorrectionFrontier(results)
    [] scenario.runner = "confirmation" -> ConfirmationFrontier(results)

-----------------------------------------------------------------------------
(* The report.                                                              *)

(* An ablation whose capability has stopped, and a forced cell all of whose *)
(* capabilities have.                                                       *)
Stopped(results, capability) == capability \notin AtBoundary(results)

CorrectionSkips(results) ==
  {c \in Planned \ CellsIn(results) :
     /\ c.repetition > 1
     /\ \/ c.policy = "ablation" /\ Stopped(results, c.of)
        \/ /\ c.policy = "forced"
           /\ \A k \in Capabilities :
                (\E a \in Ablations(k) : a.task = c.task) => Stopped(results, k)}

(* Whatever the screening has not run when it closes is skipped.            *)
Skips(results) ==
  CASE scenario.runner = "screening" -> Planned \ CellsIn(results)
    [] scenario.runner = "correction" -> CorrectionSkips(results)
    [] scenario.runner = "confirmation" -> {}

(* What the runner concludes of each capability ...                         *)
ConfirmedAs(results, capability) ==
  AggregateDecision(CompletePairs(results, capability), Cardinality(Ablations(capability)))

Conclusions(results) ==
  [k \in Capabilities |->
     CASE scenario.runner = "correction" -> StateOf(results, k)
       [] scenario.runner = "confirmation" -> ConfirmedAs(results, k)
       [] OTHER -> "none"]

(* ... of the task with the route forced on and disabled, ...               *)
Intrinsic(results) ==
  {Assessment([task |-> c.task, repetition |-> c.repetition,
               on |-> OutcomeIn(results, Partner(c)), off |-> OutcomeIn(results, c),
               compliant |-> Compliant(results, c) /\ Compliant(results, Partner(c))]) :
     c \in {d \in CellsOf("off") \cap CellsIn(results) : Partner(d) \in CellsIn(results)}}

(* ... and of what the agent chose by itself.                               *)
Selections(results) ==
  {Selection(scenario.entry, ResultOf(results, c).used) : c \in CellsOf("auto") \cap CellsIn(results)}

Diagnoses(results) ==
  {Diagnosis(OutcomeIn(results, [c EXCEPT !.policy = "auto"]), OutcomeIn(results, c)) :
     c \in CellsOf("forced") \cap CellsIn(results)}

(* attempts: cells whose provider failed, in this run or one it resumes.    *)
Complete(results, skips, attempts) ==
  CellsIn(results) \cup skips = Planned /\ attempts \subseteq CellsIn(results)

EfficiencyOf(results, skips) ==
  Efficiency(Cardinality(Planned), Cardinality({r \in results : r.ran # 0}), Cardinality(skips))

(* What the skips were before is of no consequence: a resume computes them  *)
(* again.                                                                   *)
ReportOf(results, closed, attempts) ==
  LET skips == IF closed THEN Skips(results) ELSE {}
  IN [head |-> head, results |-> results, closed |-> closed, attempts |-> attempts,
      skips |-> skips, complete |-> Complete(results, skips, attempts),
      conclusions |-> Conclusions(results), intrinsic |-> Intrinsic(results),
      selections |-> Selections(results), diagnoses |-> Diagnoses(results),
      efficiency |-> EfficiencyOf(results, skips)]

-----------------------------------------------------------------------------
(* Starting, and taking over what earlier runs left in the raw root.        *)

(* _finalize_agent: the oracle finds the work of the agent, or finds that   *)
(* there is no workspace and fails.  wall stands for the timing, which      *)
(* comes out otherwise at another time.                                     *)
Finalized(capture) ==
  [cell |-> capture.cell, compliant |-> capture.compliant, used |-> capture.used,
   ran |-> capture.head, wall |-> head,
   outcome |-> IF capture.outcome = "PASS" /\ capture.cell \notin work THEN "FAIL"
               ELSE capture.outcome]

PlannedFragments == {r \in fragments : r.cell \in Planned}

(* The screening lets the fragments override the report.                    *)
Restored ==
  LET reported == IF report = NoReport THEN {} ELSE report.results
      missing == {r \in PlannedFragments : r.cell \notin CellsIn(reported)}
  IN IF scenario.runner = "screening" THEN Replaced(reported, PlannedFragments)
     ELSE reported \cup missing

CapturesIgnored(results) == {}

Recoverable(results) == {c \in captures : c.cell \in Planned \ CellsIn(results)}

(* reclassify: --capture-source-revision with a new output, which takes     *)
(* every capture through the oracle again.                                  *)
Start(reclassify) ==
  /\ job = Idle
  /\ report = NoReport \/ report.head = head
  /\ reclassify => scenario.runner = "correction" /\ report = NoReport /\ captures # {}
  /\ job' = [step |-> "recover", results |-> Restored, reclassify |-> reclassify, added |-> {},
             attempts |-> IF report = NoReport THEN {} ELSE report.attempts,
             recover |-> IF reclassify THEN {c \in captures : c.cell \in Planned}
                         ELSE Recoverable(Restored)]
  /\ UNCHANGED <<scenario, head, captures, fragments, work, log, report, faults>>

(* _capture_is_compliance_compatible: a capture that was not compliant is   *)
(* no evidence to take over, and its cell runs again.                       *)
Recover ==
  /\ job.step = "recover" /\ job.recover # {}
  /\ LET capture == CHOOSE c \in job.recover : TRUE
         result == Finalized(capture)
         kept == IF job.reclassify /\ ~result.compliant THEN {} ELSE {result}
     IN /\ fragments' = Replaced(fragments, {result})
        /\ job' = [job EXCEPT !.recover = @ \ {capture}, !.added = @ \cup kept,
                     !.results = {r \in @ : r.cell # capture.cell} \cup kept]
  /\ UNCHANGED <<scenario, head, captures, work, log, report, faults>>

(* _append_missing_traces: a result whose trace has another outcome is not  *)
(* passed over, and AppendTrace raises when its turn comes.  The screening  *)
(* traces what it recovered and takes it that a result restored whole has   *)
(* its trace.                                                               *)
Untraced(results) ==
  {r \in results : ~\E n \in DOMAIN log : log[n].cell = r.cell /\ log[n].outcome = r.outcome}

OnlyNewTraced(results, added) == added

ToTrace(results, added) ==
  IF scenario.runner = "screening" THEN added ELSE Untraced(results)

Recovered ==
  /\ job.step = "recover" /\ job.recover = {}
  /\ job' = [step |-> "trace", results |-> job.results, then |-> "frontier", gap |-> FALSE,
             attempts |-> job.attempts, trace |-> ToTrace(job.results, job.added)]
  /\ UNCHANGED <<scenario, head, captures, fragments, work, log, report, faults>>

(* _append_trace, which raises when the cell has another trace.             *)
AppendTrace ==
  /\ job.step = "trace" /\ job.trace # {}
  /\ LET r == CHOOSE r \in job.trace : TRUE IN
     /\ log' = Appended(log, TraceOf(r))
     /\ job' = IF AppendAnswer(log, TraceOf(r)) = "conflict" THEN Idle
               ELSE [job EXCEPT !.trace = @ \ {r}]
  /\ UNCHANGED <<scenario, head, captures, fragments, work, report, faults>>

(* The screening reports the depths when they are through; a provider       *)
(* failure is reported at once and ends the run.                            *)
ReportDue ==
  \/ job.gap \/ scenario.runner # "screening"
  \/ DepthFrontier(job.results) = {}
  \/ CellsIn(job.results) \cap CellsOf("depth") = {}

Checkpoint ==
  /\ job.step = "trace" /\ job.trace = {} /\ job.then = "checkpoint"
  /\ report' = IF ReportDue THEN ReportOf(job.results, FALSE, job.attempts) ELSE report
  /\ job' = IF job.gap THEN Idle ELSE [job EXCEPT !.then = "frontier"]
  /\ UNCHANGED <<scenario, head, captures, fragments, work, log, faults>>

-----------------------------------------------------------------------------
(* The frontier: reuse of the source's results, then _execute_batch.        *)

AtFrontier == job.step = "trace" /\ job.trace = {} /\ job.then = "frontier"

Reusable == {r \in scenario.source : r.cell \in Frontier(job.results)}
Migrated(r) ==
  [cell |-> r.cell, outcome |-> r.outcome, compliant |-> TRUE, used |-> {}, ran |-> 0,
   wall |-> 0]

Reuse ==
  /\ AtFrontier /\ Reusable # {}
  /\ LET new == {Migrated(r) : r \in Reusable} IN
     job' = [job EXCEPT !.results = @ \cup new, !.trace = new]
  /\ UNCHANGED <<scenario, head, captures, fragments, work, log, report, faults>>

StartBatch ==
  /\ AtFrontier /\ Reusable = {} /\ Frontier(job.results) # {}
  /\ job' = [step |-> "batch", results |-> job.results, queue |-> Frontier(job.results),
             cells |-> Frontier(job.results), finalizing |-> {}, done |-> {}, raised |-> FALSE,
             gap |-> FALSE, attempts |-> job.attempts]
  /\ UNCHANGED <<scenario, head, captures, fragments, work, log, report, faults>>

(* In a fresh workspace; the capture replaces one there was of the cell.    *)
RunAgent ==
  /\ job.step = "batch" /\ job.queue # {}
  /\ LET cell == CHOOSE c \in job.queue : TRUE IN
     \E b \in scenario.behaviours[cell.policy] :
       LET capture == [cell |-> cell, outcome |-> b.outcome, compliant |-> b.compliant,
                       used |-> b.used, head |-> head]
       IN /\ captures' = Replaced(captures, {capture})
          /\ work' = work \cup {cell}
          /\ job' = [job EXCEPT !.queue = @ \ {cell}, !.finalizing = @ \cup {capture}]
  /\ UNCHANGED <<scenario, head, fragments, log, report, faults>>

(* The attempt is kept apart and the rest of the batch left.                *)
ProviderFails ==
  /\ job.step = "batch" /\ job.queue # {} /\ faults < MaxFaults
  /\ job' = [job EXCEPT !.queue = {}, !.gap = TRUE, !.attempts = @ \cup {CHOOSE c \in job.queue : TRUE}]
  /\ faults' = faults + 1
  /\ UNCHANGED <<scenario, head, captures, fragments, work, log, report>>

(* On a thread of its own while the next agent works.                       *)
Finalize(capture) ==
  /\ job.step = "batch" /\ capture \in job.finalizing
  /\ fragments' = Replaced(fragments, {Finalized(capture)})
  /\ job' = [job EXCEPT !.finalizing = @ \ {capture}, !.done = @ \cup {Finalized(capture)}]
  /\ UNCHANGED <<scenario, head, captures, work, log, report, faults>>

(* The oracle's timeout is raised; it surfaces when the batch is gathered.  *)
FinalizeRaises(capture) ==
  /\ job.step = "batch" /\ capture \in job.finalizing /\ faults < MaxFaults
  /\ job' = [job EXCEPT !.finalizing = @ \ {capture}, !.raised = TRUE]
  /\ faults' = faults + 1
  /\ UNCHANGED <<scenario, head, captures, fragments, work, log, report>>

(* The workspaces go whatever came of the batch.                            *)
EndBatch ==
  /\ job.step = "batch" /\ job.queue = {} /\ job.finalizing = {}
  /\ work' = work \ job.cells
  /\ job' = IF job.raised THEN Idle
            ELSE [step |-> "trace", results |-> Replaced(job.results, job.done),
                  trace |-> job.done, then |-> "checkpoint", gap |-> job.gap,
                  attempts |-> job.attempts]
  /\ UNCHANGED <<scenario, head, captures, fragments, log, report, faults>>

Close ==
  /\ AtFrontier /\ Frontier(job.results) = {}
  /\ report' = ReportOf(job.results, TRUE, job.attempts)
  /\ job' = Idle
  /\ UNCHANGED <<scenario, head, captures, fragments, work, log, faults>>

-----------------------------------------------------------------------------
Kill ==
  /\ job # Idle /\ faults < MaxFaults
  /\ job' = Idle /\ faults' = faults + 1
  /\ UNCHANGED <<scenario, head, captures, fragments, work, log, report>>

(* The plan is made again for the new revision, which takes a new output.   *)
Commit ==
  /\ job = Idle /\ head < MaxHead
  /\ head' = head + 1 /\ report' = NoReport
  /\ UNCHANGED <<scenario, captures, fragments, work, log, job, faults>>

Next ==
  \/ \E reclassify \in BOOLEAN : Start(reclassify)
  \/ Recover \/ Recovered \/ AppendTrace \/ Checkpoint
  \/ Reuse \/ StartBatch \/ RunAgent \/ ProviderFails
  \/ \E capture \in captures : Finalize(capture) \/ FinalizeRaises(capture)
  \/ EndBatch \/ Close \/ Kill \/ Commit

Spec == Init /\ [][Next]_vars

-----------------------------------------------------------------------------
(* Properties.                                                              *)

(* What an agent did is not done again: whatever kill, provider failure or  *)
(* raising oracle ends a run, the next one takes its captures over.  Only a *)
(* capture that did not follow the plan is ever replaced.                   *)
(* (_execute_batch and the recovery in each runner.)                        *)
WorkDoneOnce == [][\A c \in captures : c.compliant => c \in captures']_captures

(* Every result that the correction or the confirmation reports has its     *)
(* trace, with the same outcome, although a run may end between a fragment  *)
(* and its trace, or between a trace and the report.  (_append_missing_     *)
(* traces, add_result.)                                                     *)
ReportTraced ==
  report # NoReport /\ scenario.runner # "screening" =>
    \A r \in report.results :
      \E n \in DOMAIN log : log[n].cell = r.cell /\ log[n].outcome = r.outcome

(* The correction spends no agent on a capability that is decided: an       *)
(* ablation that was run again follows rounds of both whose cells there     *)
(* are compliant captures and fragments, and whose traces show neither a    *)
(* signal nor a gap, although kills come between the round, its fragments,  *)
(* its traces and the report, other capabilities use the same forced        *)
(* cells, and captures are judged again for a new plan.                     *)
(* (_capability_state and the rounds of run.)                               *)
Earlier(c, n) == [c EXCEPT !.repetition = n]
Unsettled(on, off) == ~(on = "PASS" /\ off # "PASS") /\ ~(on = "FAIL" /\ off = "FAIL")

Sound(c) ==
  /\ \E a \in captures : a.cell = c /\ a.compliant
  /\ \E r \in fragments : r.cell = c /\ r.compliant

Undecided(c, p) ==
  /\ Sound(c) /\ Sound(p)
  /\ \E m, n \in DOMAIN log : /\ log[m].cell = p /\ log[n].cell = c
                              /\ Unsettled(log[m].outcome, log[n].outcome)

AblationsEarned ==
  scenario.runner = "correction" =>
    \A a \in captures : a.cell.policy = "ablation" =>
      \A n \in 1..(a.cell.repetition - 1) :
        Undecided(Earlier(a.cell, n), Partner(Earlier(a.cell, n)))

(* A run that goes through all of its plan is reported as complete, has the *)
(* result that each ablation is compared with, says of every capability     *)
(* what it came to, and adds up: no capability is left at the boundary, or  *)
(* untested for want of a repetition, by a skip, a kill, a provider failure *)
(* or what was taken over.                                                  *)
ClosedIsDecided ==
  report # NoReport /\ report.closed =>
    /\ report.complete /\ ~report.efficiency.raises
    /\ scenario.runner # "confirmation" =>
         \A c \in CellsIn(report.results) \cap CellsOf("ablation") :
           Partner(c) \in CellsIn(report.results)
    /\ \A k \in Capabilities :
         report.conclusions[k] \notin {"BOUNDARY_REQUIRES_NEXT_REPETITION", "NOT_TESTED_INCOMPLETE"}

(* What the ablation cells that are still missing could come out as.        *)
Missing(results) ==
  {c \in CellsOf("ablation") \ CellsIn(results) : OutcomeIn(results, Partner(c)) = "PASS"}

Completions(results) ==
  {{IF c \in Missing(results) THEN [PairOf(results, c) EXCEPT !.off = f[c]]
    ELSE PairOf(results, c) : c \in CellsOf("ablation")} :
     f \in [Missing(results) -> {"PASS", "FAIL"}]}

Decided(results, decision) ==
  \E r \in 1..Rounds :
    /\ SequentialDecision({PairOf(results, c) : c \in CellsOf("ablation")}, r) = decision
    /\ \A q \in 1..(r - 1) : Continues(results, q)

ScreenedWhole ==
  report # NoReport /\ scenario.runner = "screening"
    /\ CellsOf("active") \subseteq CellsIn(report.results)

(* "Stopping cannot manufacture a positive signal" (docstring of            *)
(* sequential_ablation_decision): a capability that proceeds early would    *)
(* have proceeded however the repetitions it was spared had come out.       *)
PositiveIsFinal ==
  ScreenedWhole /\ Decided(report.results, "PROCEED_TO_B0B_EARLY") =>
    \A pairs \in Completions(report.results) : Effect(Completed(pairs, Rounds))

(* "Closes a capability at a positive B0b signal or a proven non-boundary"  *)
(* (docs/evaluation/README.md).  False: the bound on what is to come counts *)
(* passes only, and one critical loss would still have been an effect.      *)
FutilityIsProven ==
  ScreenedWhole /\ Decided(report.results, "NO_SCREENED_EFFECT") =>
    \A pairs \in Completions(report.results) : ~Effect(Completed(pairs, Rounds))

(* "Persist completed model work before CPU oracle/parsing begins. A resume *)
(* can finish this capture without repeating identical reasoning."          *)
(* (adaptive_screening_runner.py): what is reported of a cell is what its   *)
(* agent achieved.  False: the workspace is discarded though its oracle     *)
(* raised, and the next oracle fails for want of it.                        *)
OutcomeIsTheAgents ==
  report # NoReport =>
    \A r \in report.results : r.ran # 0 =>
      \E c \in captures : c.cell = r.cell /\ c.outcome = r.outcome

(* "Same-head result fragments and captures only" (the reuse_policy of the  *)
(* confirmation's own plan).  False: run takes any fragment of the raw root.*)
SameHeadOnly ==
  report # NoReport /\ scenario.runner = "confirmation" =>
    \A r \in report.results : r.ran = report.head

=============================================================================
