--------------------------- MODULE EvaluationProofs ---------------------------
(***************************************************************************)
(* The evaluation runner and the migration of its checkpoints.             *)
(*                                                                         *)
(* For any schedule, measurements, kills, resumes and fresh paths: every   *)
(* result a report claims has its one trace in the log, and a report loses *)
(* nothing it claimed.  Where no commit is made while the runner runs:     *)
(* what a report holds was measured at the revision it names, on evidence  *)
(* of that revision, but for what a bound baseline took over from an older *)
(* runner; and a paused tier is called only by a run that was given a      *)
(* proof or whose activation was.                                          *)
(*                                                                         *)
(* A report alone does not carry this from one run to the next: the        *)
(* process in between has to hold what the report will say.  Traced,       *)
(* Founded and Answered each say the same of the process and the reports.  *)
(***************************************************************************)
EXTENDS Evaluation, Migration, TLAPS, FiniteSetTheorems, WellFoundedInduction

Fields == {"step", "scope", "limit", "proved", "results", "queue", "evidence", "result", "bound"}
Lines == {Torn} \cup {TraceOf(r) : r \in Results}

Typed ==
  /\ head \in 1..MaxHead /\ proofs \subseteq [revision : Nat, tier : Tiers]
  /\ DOMAIN reports = Scopes /\ DOMAIN logs = Scopes
  /\ \A s \in Scopes :
       /\ reports[s].results \subseteq Results
       /\ reports[s] # NoReport => reports[s].queue \in Queues
       /\ logs[s] \in Seq(Lines)
  /\ job # Idle =>
       /\ DOMAIN job = Fields
       /\ job.scope \in Scopes /\ job.limit \in 1..Len(Schedule[job.scope])
       /\ job.results \subseteq Results /\ job.queue \in Queues
       /\ job.step = "trace" => job.result \in Results

Kept(lines, r) == \E n \in DOMAIN lines : lines[n] = TraceOf(r)

(* No two lines are of the same cell.                                      *)
Single(lines) ==
  \A m, n \in DOMAIN lines :
    lines[m] # Torn /\ lines[n] # Torn /\ lines[m].cell = lines[n].cell => m = n

Traced ==
  /\ \A s \in Scopes : Single(logs[s]) /\ \A r \in reports[s].results : Kept(logs[s], r)
  /\ job # Idle =>
       /\ \A r \in job.results : Kept(logs[job.scope], r)
       /\ reports[job.scope].results \subseteq job.results

(* What results and the evidence of a scope rest on at a revision.         *)
RestsOn(s, commit, bound, results, evidence) ==
  /\ bound => s = "baseline"
  /\ MeasuredAt(commit, bound, results)
  /\ s = "screening" =>
       /\ {r.cell : r \in evidence.baseline.sealed} = Cells("baseline")
       /\ MeasuredAt(commit, evidence.baseline.bound, evidence.baseline.sealed)
       /\ \A r \in evidence.baseline.sealed : r.outcome # "UNAVAILABLE"

EvidenceOf(s, commit, evidence) ==
  /\ s # "activation" => evidence.activation.revision = commit
  /\ s \in {"baseline", "screening"} => evidence.pilot.revision = commit

Founded ==
  /\ \A s \in Reported :
       LET report == reports[s] IN
       /\ RestsOn(s, report.revision, report.bound, report.results, report.evidence)
       /\ \/ report.bound /\ \A r \in report.results : r.head = 0
          \/ EvidenceOf(s, report.revision, report.evidence)
  /\ job # Idle =>
       /\ RestsOn(job.scope, head, job.bound, job.results, job.evidence)
       /\ EvidenceOf(job.scope, head, job.evidence)
       /\ job.step = "trace" => job.result.head = head

ProvedAt(commit, t) == [revision |-> commit, tier |-> t] \in proofs
Shows(s, t, status) == s \in Reported /\ reports[s].queue[t] = status

(* What the activation or the scope's report shows as paused is paused for *)
(* the process, too, unless a proof was given to it or to the activation.  *)
Heeded ==
  /\ \A t \in job.proved : ProvedAt(head, t)
  /\ job.scope # "activation" =>
       "activation" \in Reported /\ reports["activation"].revision = head
  /\ \A t \in Tiers :
       /\ job.scope = "activation" /\ job.queue[t] = "AVAILABLE" => ProvedAt(head, t)
       /\ job.scope # "activation" /\ Shows("activation", t, "PAUSED") =>
            job.queue[t] = "PAUSED" \/ t \in job.proved
       /\ Shows(job.scope, t, "PAUSED") =>
            \/ job.queue[t] = "PAUSED" \/ t \in job.proved
            \/ job.scope # "activation" /\ Shows("activation", t, "AVAILABLE")

(* An activation shows a tier as available only where that was proved.     *)
Answered ==
  /\ \A t \in Tiers :
       Shows("activation", t, "AVAILABLE") => ProvedAt(reports["activation"].revision, t)
  /\ job # Idle => Heeded

IInv == Typed /\ Traced /\ (~ CommitsDuringRun => Founded /\ Answered)

LEMMA Assumed ==
  /\ MaxHead \in Nat \ {0} /\ CommitsDuringRun \in BOOLEAN
  /\ \A s \in Scopes : /\ Schedule[s] \in Seq(Cells(s))
                      /\ \A c \in Cells(s) : c.tier \in Tiers
  BY EvaluationAssumption, Zenon DEF EvaluationAssumption, Cells

LEMMA InitHolds == Init => IInv
  <1>1. SUFFICES ASSUME Init PROVE IInv
    OBVIOUS
  <1>2. /\ head = 1 /\ proofs = {} /\ job = Idle /\ DOMAIN reports = Scopes /\ DOMAIN logs = Scopes
        /\ \A s \in Scopes : reports[s] = NoReport /\ logs[s] = <<>>
    BY <1>1 DEF Init
  <1>3. Typed
    <2>1. head \in 1..MaxHead
      BY <1>2, Assumed
    <2>2. \A s \in Scopes : reports[s].results = {} /\ logs[s] \in Seq(Lines)
      <3>1. <<>> \in Seq(Lines) /\ NoReport.results = {}
        BY DEF NoReport
      <3>2. QED
        BY <1>2, <3>1
    <2>3. QED
      BY <1>2, <2>1, <2>2 DEF Typed
  <1>4. Traced
    BY <1>2 DEF Traced, Single, NoReport
  <1>5. Founded /\ Answered
    BY <1>2 DEF Founded, Answered, Heeded, Shows, Reported
  <1>6. QED
    BY <1>3, <1>4, <1>5 DEF IInv

-----------------------------------------------------------------------------
(* The log.                                                                *)

(* What a line added for a new cell keeps, be it whole or torn.            *)
LEMMA AddedLine ==
  ASSUME NEW lines \in Seq(Lines), NEW r \in Results, NEW line \in {Torn, TraceOf(r)},
         AppendAnswer(lines, TraceOf(r)) = "appended", Single(lines)
  PROVE  /\ Append(lines, line) \in Seq(Lines) /\ Single(Append(lines, line))
         /\ \A q : Kept(lines, q) => Kept(Append(lines, line), q)
         /\ line = TraceOf(r) => Kept(Append(lines, line), r)
  <1> DEFINE l == Append(lines, line)
  <1>1. /\ line \in Lines /\ l \in Seq(Lines) /\ Len(lines) \in Nat
        /\ DOMAIN lines = 1..Len(lines) /\ DOMAIN l = 1..Len(lines) + 1
        /\ l[Len(lines) + 1] = line /\ \A n \in 1..Len(lines) : l[n] = lines[n]
    BY DEF Lines
  <1>2. \A n \in DOMAIN lines : lines[n].cell # TraceOf(r).cell
    BY DEF AppendAnswer, Holds
  <1>3. Single(l)
    BY <1>1, <1>2 DEF Single
  <1>4. \A q : Kept(lines, q) => Kept(l, q)
    BY <1>1 DEF Kept
  <1>5. line = TraceOf(r) => Kept(l, r)
    BY <1>1 DEF Kept
  <1>6. QED
    BY <1>1, <1>3, <1>4, <1>5

(* append, when it answers that the trace is there, has it there.          *)
LEMMA AppendedTrace ==
  ASSUME NEW lines \in Seq(Lines), NEW r \in Results, Single(lines)
  PROVE  LET l == Appended(lines, TraceOf(r)) IN
         /\ l \in Seq(Lines) /\ Single(l) /\ \A q : Kept(lines, q) => Kept(l, q)
         /\ AppendAnswer(lines, TraceOf(r)) \in {"appended", "same"} => Kept(l, r)
  <1>1. CASE AppendAnswer(lines, TraceOf(r)) = "appended"
    BY <1>1, AddedLine DEF Appended
  <1>2. CASE AppendAnswer(lines, TraceOf(r)) # "appended"
    <2>1. Appended(lines, TraceOf(r)) = lines
      BY <1>2 DEF Appended
    <2>2. AppendAnswer(lines, TraceOf(r)) = "same" => Kept(lines, r)
      BY DEF AppendAnswer, Kept, ToSet
    <2>3. QED
      BY <1>2, <2>1, <2>2
  <1>3. QED
    BY <1>1, <1>2

(* A set of numbers has a least: 1..n is a least finite set.               *)
LEMMA Least ==
  ASSUME NEW S, S \subseteq Nat, S # {}
  PROVE  \E n \in S : \A m \in S : n <= m
  <1> DEFINE Initial == {1..m : m \in S}
  <1>1. \A m \in S : 1..m \in FiniteSubsetsOf(Nat)
    BY FS_Interval DEF FiniteSubsetsOf
  <1>2. Initial \subseteq FiniteSubsetsOf(Nat) /\ Initial # {}
    BY <1>1
  <1>3. PICK i \in Initial : \A j \in Initial : ~ (<<j, i>> \in StrictSubsetOrdering(Nat))
    <2> HIDE DEF Initial
    <2>1. QED
      BY <1>2, FS_StrictSubsetOrderingWellFounded, WFMin
  <1>4. PICK n \in S : i = 1..n
    OBVIOUS
  <1>5. ASSUME NEW m \in S, ~ (n <= m) PROVE FALSE
    <2>1. m \in Nat /\ n \in Nat /\ m < n
      BY <1>5
    <2>2. 1..m \subseteq 1..n /\ n \in 1..n /\ n \notin 1..m
      BY <2>1
    <2>3. <<1..m, 1..n>> \in StrictSubsetOrdering(Nat)
      BY <2>1, <2>2 DEF StrictSubsetOrdering
    <2>4. QED
      BY <1>3, <1>4, <2>3
  <1>6. QED
    BY <1>5

(* The loop of run() goes on with a cell that is pending.                  *)
LEMMA FirstPending ==
  ASSUME Typed, job # Idle, Pending # {}
  PROVE  /\ Next1 \in Pending /\ NextCell \in Cells(job.scope)
         /\ NextCell.tier \in Tiers /\ job.queue[NextCell.tier] # "PAUSED"
  <1>1. Pending \subseteq 1..job.limit /\ job.limit \in 1..Len(Schedule[job.scope])
    BY DEF Typed, Pending
  <1>2. Next1 \in Pending
    <2>1. Pending \subseteq Nat
      BY <1>1
    <2>2. \E n \in Pending : \A m \in Pending : n <= m
      BY <2>1, Least
    <2>3. QED
      BY <2>2, Zenon DEF Next1
  <1>3. NextCell \in Cells(job.scope)
    <2>1. Schedule[job.scope] \in Seq(Cells(job.scope))
      BY Assumed DEF Typed
    <2>2. Next1 \in 1..Len(Schedule[job.scope])
      BY <1>1, <1>2, <2>1
    <2>3. QED
      BY <2>1, <2>2 DEF NextCell
  <1>4. QED
    <2>1. NextCell.tier \in Tiers
      BY <1>3, Assumed DEF Typed
    <2>2. job.queue[NextCell.tier] # "PAUSED"
      BY <1>2 DEF Pending, NextCell
    <2>3. QED
      BY <1>2, <1>3, <2>1, <2>2

-----------------------------------------------------------------------------
(* The runner.                                                             *)

(* Every scope but the first starts from an activation of the head.        *)
LEMMA RequiredOfStart ==
  ASSUME NEW s \in Scopes, Required(s)
  PROVE  /\ s # "activation" => "activation" \in Reported /\ reports["activation"].revision = head
         /\ s = "screening" => BaselineHolds
  BY DEF Required, ActivationHolds, AtHead, Reported, Scopes

(* What a process starts with.                                             *)
LEMMA Started ==
  ASSUME NEW s \in Scopes, NEW proved \in SUBSET Tiers, NEW limit \in 1..Len(Schedule[s]),
         Start(s, limit, proved)
  PROVE  /\ job = Idle /\ job' # Idle /\ DOMAIN job' = Fields /\ proved \subseteq Proved
         /\ job'.step = "loop" /\ job'.scope = s /\ job'.limit = limit /\ job'.proved = proved
         /\ job'.results = reports[s].results /\ job'.queue = StartQueue(s, proved)
         /\ job'.evidence \in Evidence(s)
         /\ job'.bound = (reports[s] # NoReport /\ reports[s].bound)
         /\ reports[s] # NoReport => reports[s].revision = head
         /\ head' = head /\ proofs' = proofs /\ reports' = reports /\ logs' = logs
  <1>1. PICK evidence \in Evidence(s) :
          /\ \/ reports[s] = NoReport /\ logs[s] = <<>>
             \/ reports[s] # NoReport /\ ResumePermitted(s, evidence)
          /\ job' = [step |-> "loop", scope |-> s, limit |-> limit, proved |-> proved,
                     results |-> ResumedResults(s), queue |-> StartQueue(s, proved),
                     evidence |-> evidence, result |-> NoResult,
                     bound |-> reports[s] # NoReport /\ reports[s].bound]
    BY DEF Start
  <1>2. job' # Idle /\ DOMAIN job' = Fields
    BY <1>1 DEF Idle, Fields
  <1>3. reports[s] # NoReport => reports[s].revision = head
    BY <1>1 DEF ResumePermitted, AtHead
  <1>4. QED
    BY <1>1, <1>2, <1>3 DEF Start, ResumedResults

LEMMA StartQueueTyped ==
  ASSUME Typed, NEW s \in Scopes, Required(s), NEW proved \in SUBSET Tiers
  PROVE  StartQueue(s, proved) \in Queues
  <1>1. /\ reports[s] # NoReport => reports[s].queue \in Queues
        /\ s # "activation" => reports["activation"].queue \in Queues
    BY RequiredOfStart DEF Typed, Reported, Scopes
  <1>2. NoQueue \in Queues
    BY DEF NoQueue, Queues
  <1> DEFINE resumed == IF reports[s] = NoReport THEN NoQueue ELSE reports[s].queue
             activation == IF s = "activation" THEN NoQueue ELSE reports["activation"].queue
  <1>3. resumed \in Queues /\ activation \in Queues
    BY <1>1, <1>2
  <1>4. StartQueue(s, proved) =
          [t \in Tiers |-> IF t \in proved THEN "AVAILABLE"
                           ELSE IF activation[t] # "none" THEN activation[t] ELSE resumed[t]]
    BY DEF StartQueue
  <1> HIDE DEF resumed, activation
  <1>5. QED
    BY <1>3, <1>4 DEF Queues

(* Where no commit interferes, a start finds everything at the head.       *)
LEMMA StartFounded ==
  ASSUME Typed, Founded, NEW s \in Scopes, NEW proved \in SUBSET Tiers,
         NEW limit \in 1..Len(Schedule[s]), Start(s, limit, proved), NEW evidence \in Evidence(s)
  PROVE  LET bound == reports[s] # NoReport /\ reports[s].bound IN
         /\ RestsOn(s, head, bound, reports[s].results, evidence)
         /\ EvidenceOf(s, head, evidence)
  <1> DEFINE bound == reports[s] # NoReport /\ reports[s].bound
  <1>1. (bound => s = "baseline") /\ MeasuredAt(head, bound, reports[s].results)
    <2>1. CASE reports[s] = NoReport
      BY <2>1 DEF NoReport, MeasuredAt
    <2>2. CASE reports[s] # NoReport
      <3>1. s \in Reported /\ reports[s].revision = head
        BY <2>2, Started DEF Reported
      <3>2. RestsOn(s, head, reports[s].bound, reports[s].results, reports[s].evidence)
        BY <3>1, Zenon DEF Founded
      <3>3. bound <=> reports[s].bound
        BY <2>2, Zenon
      <3>4. QED
        BY <3>2, <3>3, Zenon DEF RestsOn, MeasuredAt
    <2>3. QED
      BY <2>1, <2>2
  <1>2. EvidenceOf(s, head, evidence)
    BY DEF EvidenceOf, Evidence, ActivationEvidence, PilotEvidence
  <1>3. ASSUME s = "screening"
        PROVE  /\ {r.cell : r \in evidence.baseline.sealed} = Cells("baseline")
               /\ MeasuredAt(head, evidence.baseline.bound, evidence.baseline.sealed)
               /\ \A r \in evidence.baseline.sealed : r.outcome # "UNAVAILABLE"
    <2>1. BaselineHolds
      BY <1>3, RequiredOfStart DEF Start
    <2>2. /\ evidence.baseline.sealed = reports["baseline"].results
          /\ evidence.baseline.bound = reports["baseline"].bound
      BY <1>3 DEF Evidence, BaselineEvidence
    <2>3. "baseline" \in Reported /\ reports["baseline"].revision = head
      BY <2>1 DEF BaselineHolds, AtHead, Reported, Scopes
    <2>4. MeasuredAt(head, reports["baseline"].bound, reports["baseline"].results)
      BY <2>3 DEF Founded, RestsOn
    <2>5. QED
      BY <2>1, <2>2, <2>4 DEF BaselineHolds
  <1>4. QED
    BY <1>1, <1>2, <1>3 DEF RestsOn

LEMMA StartAnswered ==
  ASSUME Typed, Answered, NEW s \in Scopes, NEW proved \in SUBSET Tiers,
         NEW limit \in 1..Len(Schedule[s]), Start(s, limit, proved)
  PROVE  LET queue == StartQueue(s, proved) IN
         /\ \A t \in proved : ProvedAt(head, t)
         /\ s # "activation" => "activation" \in Reported /\ reports["activation"].revision = head
         /\ \A t \in Tiers :
              /\ s = "activation" /\ queue[t] = "AVAILABLE" => ProvedAt(head, t)
              /\ s # "activation" /\ Shows("activation", t, "PAUSED") =>
                   queue[t] = "PAUSED" \/ t \in proved
              /\ Shows(s, t, "PAUSED") =>
                   \/ queue[t] = "PAUSED" \/ t \in proved
                   \/ s # "activation" /\ Shows("activation", t, "AVAILABLE")
  <1> DEFINE queue == StartQueue(s, proved)
             resumed == IF reports[s] = NoReport THEN NoQueue ELSE reports[s].queue
             activation == IF s = "activation" THEN NoQueue ELSE reports["activation"].queue
  <1>1. \A t \in Tiers :
          queue[t] = IF t \in proved THEN "AVAILABLE"
                     ELSE IF activation[t] # "none" THEN activation[t] ELSE resumed[t]
    BY DEF StartQueue
  <1>2. ASSUME NEW t \in proved PROVE ProvedAt(head, t)
    <2>0. proved \subseteq Proved
      BY Started
    <2>1. PICK p \in proofs : p.revision = head /\ p.tier = t
      BY <1>2, <2>0 DEF Proved
    <2>2. p = [revision |-> head, tier |-> t]
      BY <2>1 DEF Typed
    <2>3. QED
      BY <2>1, <2>2 DEF ProvedAt
  <1>3. s \in Reported => reports[s].revision = head
    BY Started DEF Reported
  <1>4. s # "activation" => "activation" \in Reported /\ reports["activation"].revision = head
    BY RequiredOfStart DEF Start
  <1>5. ASSUME NEW t \in Tiers, s = "activation", queue[t] = "AVAILABLE" PROVE ProvedAt(head, t)
    <2>1. t \in proved \/ resumed[t] = "AVAILABLE"
      BY <1>1, <1>5 DEF NoQueue
    <2>2. resumed[t] = "AVAILABLE" => Shows("activation", t, "AVAILABLE")
      BY <1>5 DEF NoQueue, Shows, Reported
    <2>3. QED
      BY <1>2, <1>3, <1>5, <2>1, <2>2 DEF Answered, Heeded, Shows
  <1>6. ASSUME NEW t \in Tiers, s # "activation", Shows("activation", t, "PAUSED")
        PROVE  queue[t] = "PAUSED" \/ t \in proved
    BY <1>1, <1>6 DEF Shows
  <1>7. ASSUME NEW t \in Tiers, Shows(s, t, "PAUSED"), t \notin proved
        PROVE  \/ queue[t] = "PAUSED"
               \/ s # "activation" /\ Shows("activation", t, "AVAILABLE")
    <2>1. resumed[t] = "PAUSED"
      BY <1>7 DEF Shows, Reported
    <2>2. activation[t] \in {"none", "PAUSED", "AVAILABLE"}
      <3>1. s # "activation" => reports["activation"].queue \in Queues
        BY <1>4 DEF Typed, Reported
      <3>2. QED
        BY <3>1 DEF NoQueue, Queues
    <2>3. s = "activation" => activation[t] = "none"
      BY DEF NoQueue
    <2>4. QED
      BY <1>1, <1>4, <1>7, <2>1, <2>2, <2>3 DEF Shows
  <1>8. QED
    BY <1>2, <1>4, <1>5, <1>6, <1>7

LEMMA StartHolds ==
  ASSUME IInv, NEW s \in Scopes, NEW proved \in SUBSET Tiers, NEW limit \in 1..Len(Schedule[s]),
         Start(s, limit, proved)
  PROVE  IInv'
  <1>1. Typed /\ Traced /\ (~ CommitsDuringRun => Founded /\ Answered)
    BY DEF IInv
  <1>2. Required(s)
    BY DEF Start
  <1>3. Typed'
    <2>1. job'.queue \in Queues
      <3>1. StartQueue(s, proved) \in Queues
        BY <1>1, <1>2, StartQueueTyped
      <3>2. job'.queue = StartQueue(s, proved)
        BY Started
      <3>3. QED
        BY <3>1, <3>2
    <2>2. /\ DOMAIN job' = Fields /\ job'.scope = s /\ job'.limit = limit /\ job'.step = "loop"
          /\ job'.results = reports[s].results /\ UNCHANGED <<head, proofs, reports, logs>>
      BY Started
    <2>3. QED
      BY <1>1, <2>1, <2>2 DEF Typed
  <1>4. Traced'
    BY <1>1, Started DEF Traced
  <1>5. Reported' = Reported /\ \A commit, t : ProvedAt(commit, t)' <=> ProvedAt(commit, t)
    BY Started DEF Reported, ProvedAt
  <1>6. \A q, t, status : Shows(q, t, status)' <=> Shows(q, t, status)
    BY <1>5, Started DEF Shows
  <1>7. ASSUME ~ CommitsDuringRun PROVE Founded'
    <2>1. PICK evidence \in Evidence(s) : evidence = job'.evidence
      BY Started
    <2>2. /\ RestsOn(s, head, job'.bound, reports[s].results, evidence)
          /\ EvidenceOf(s, head, evidence)
      BY <1>1, <1>7, Started, StartFounded
    <2>3. QED
      BY <1>1, <1>5, <1>7, <2>1, <2>2, Started DEF Founded
  <1>8. ASSUME ~ CommitsDuringRun PROVE Answered'
    <2>1. Answered
      BY <1>1, <1>8
    <2>2. Heeded'
      <3>1. /\ job'.scope = s /\ job'.queue = StartQueue(s, proved) /\ job'.proved = proved
            /\ reports' = reports /\ head' = head
        BY Started
      <3>2. /\ \A t \in proved : ProvedAt(head, t)
            /\ s # "activation" => "activation" \in Reported /\ reports["activation"].revision = head
            /\ \A t \in Tiers :
                 /\ s = "activation" /\ StartQueue(s, proved)[t] = "AVAILABLE" => ProvedAt(head, t)
                 /\ s # "activation" /\ Shows("activation", t, "PAUSED") =>
                      StartQueue(s, proved)[t] = "PAUSED" \/ t \in proved
                 /\ Shows(s, t, "PAUSED") =>
                      \/ StartQueue(s, proved)[t] = "PAUSED" \/ t \in proved
                      \/ s # "activation" /\ Shows("activation", t, "AVAILABLE")
        BY <1>1, <2>1, StartAnswered
      <3>3. QED
        BY <1>5, <1>6, <3>1, <3>2 DEF Heeded
    <2>3. reports' = reports
      BY Started
    <2>4. QED
      BY <1>5, <1>6, <2>1, <2>2, <2>3 DEF Answered
  <1>9. QED
    BY <1>3, <1>4, <1>7, <1>8 DEF IInv

(* A measurement or a gap.                                                 *)
LEMMA ExecuteHolds ==
  ASSUME IInv, Execute
  PROVE  IInv'
  <1>1. /\ job # Idle /\ Pending # {} /\ UNCHANGED <<head, proofs, reports, logs>>
        /\ Typed /\ Traced /\ (~ CommitsDuringRun => Founded /\ Answered)
    <2>1. job.step = "loop" /\ Pending # {} /\ UNCHANGED <<head, proofs, reports, logs>>
      BY Zenon DEF Execute
    <2>2. QED
      BY <2>1 DEF Idle, IInv
  <1>2. NextCell \in Cells(job.scope) /\ NextCell.tier \in Tiers
    BY <1>1, FirstPending
  <1>3. DOMAIN job = Fields /\ job.scope \in Scopes /\ job.queue \in Queues
    BY <1>1 DEF Typed
  <1>4. ASSUME NEW m \in Measurements[job.scope], NEW result,
               result = ResultOf(NextCell, m, head),
               job' = [job EXCEPT !.step = "trace", !.result = result]
        PROVE  IInv'
    <2>1. result \in Results /\ result.head = head
      BY <1>1, <1>2, <1>3, <1>4, Assumed DEF Results, ResultsAt, ResultOf, Typed
    <2>2. /\ job' # Idle /\ DOMAIN job' = Fields /\ job'.scope = job.scope
          /\ job'.limit = job.limit /\ job'.results = job.results /\ job'.queue = job.queue
          /\ job'.evidence = job.evidence /\ job'.result = result
          /\ job'.bound = job.bound /\ job'.proved = job.proved
      BY <1>3, <1>4 DEF Fields, Idle
    <2>3. Typed'
      BY <1>1, <2>1, <2>2 DEF Typed
    <2>4. Traced'
      BY <1>1, <2>2 DEF Traced
    <2>5. ~ CommitsDuringRun => Founded'
      BY <1>1, <2>1, <2>2 DEF Founded, Reported
    <2>6. ~ CommitsDuringRun => Answered'
      BY <1>1, <2>2 DEF Answered, Heeded, Shows, Reported, ProvedAt
    <2>7. QED
      BY <2>3, <2>4, <2>5, <2>6 DEF IInv
  <1>5. CASE job' = [job EXCEPT !.step = "write", !.queue[NextCell.tier] = "PAUSED"]
    <2>1. /\ job' # Idle /\ DOMAIN job' = Fields /\ job'.scope = job.scope /\ job'.step = "write"
          /\ job'.limit = job.limit /\ job'.results = job.results
          /\ job'.evidence = job.evidence
          /\ job'.bound = job.bound /\ job'.proved = job.proved
          /\ job'.queue = [job.queue EXCEPT ![NextCell.tier] = "PAUSED"]
      BY <1>3, <1>5 DEF Fields, Idle
    <2>2. job'.queue \in Queues /\ \A t \in Tiers : job'.queue[t] \in {job.queue[t], "PAUSED"}
      BY <1>2, <1>3, <2>1 DEF Queues
    <2>3. Typed'
      BY <1>1, <2>1, <2>2 DEF Typed
    <2>4. Traced'
      BY <1>1, <2>1 DEF Traced
    <2>5. ~ CommitsDuringRun => Founded'
      BY <1>1, <2>1 DEF Founded, Reported
    <2>6. ~ CommitsDuringRun => Answered'
      BY <1>1, <2>1, <2>2 DEF Answered, Heeded, Shows, Reported, ProvedAt
    <2>7. QED
      BY <2>3, <2>4, <2>5, <2>6 DEF IInv
  <1>6. QED
    BY <1>4, <1>5 DEF Execute

(* Without a process, reports that stay say what they said.                *)
LEMMA ReportsKept ==
  ASSUME Founded, Answered, UNCHANGED <<head, proofs, reports>>, job' = Idle
  PROVE  Founded' /\ Answered'
  <1>1. Reported' = Reported /\ \A commit, t : ProvedAt(commit, t)' <=> ProvedAt(commit, t)
    BY DEF Reported, ProvedAt
  <1>2. Founded'
    BY <1>1 DEF Founded
  <1>3. Answered'
    BY <1>1 DEF Answered, Heeded, Shows
  <1>4. QED
    BY <1>2, <1>3

(* Lines are added to the log of the scope only.                           *)
LEMMA LogsKept ==
  ASSUME Typed, Traced, NEW l, NEW s \in Scopes, logs' = [logs EXCEPT ![s] = l],
         l \in Seq(Lines), Single(l), \A q : Kept(logs[s], q) => Kept(l, q),
         reports' = reports
  PROVE  /\ DOMAIN logs' = Scopes
         /\ \A q \in Scopes : logs'[q] \in Seq(Lines)
         /\ \A q \in Scopes : Single(logs'[q]) /\ \A r \in reports'[q].results : Kept(logs'[q], r)
         /\ \A r : Kept(logs[s], r) => Kept(logs'[s], r)
  <1>1. DOMAIN logs' = Scopes /\ \A q \in Scopes : logs'[q] = IF q = s THEN l ELSE logs[q]
    BY DEF Typed
  <1>2. QED
    BY <1>1 DEF Typed, Traced

LEMMA AppendTraceHolds ==
  ASSUME IInv, AppendTrace
  PROVE  IInv'
  <1> DEFINE lines == logs[job.scope]
             l == Appended(lines, TraceOf(job.result))
  <1>1. /\ job # Idle /\ job.step = "trace" /\ UNCHANGED <<head, proofs, reports>>
        /\ logs' = [logs EXCEPT ![job.scope] = l]
        /\ Typed /\ Traced /\ (~ CommitsDuringRun => Founded /\ Answered)
    BY DEF AppendTrace, Idle, IInv
  <1>2. DOMAIN job = Fields /\ job.scope \in Scopes /\ job.result \in Results
        /\ lines \in Seq(Lines) /\ Single(lines)
    BY <1>1 DEF Typed, Traced
  <1>3. /\ l \in Seq(Lines) /\ Single(l) /\ \A q : Kept(lines, q) => Kept(l, q)
        /\ AppendAnswer(lines, TraceOf(job.result)) \in {"appended", "same"} => Kept(l, job.result)
    BY <1>2, AppendedTrace
  <1> HIDE DEF l
  <1>4. /\ DOMAIN logs' = Scopes /\ \A q \in Scopes : logs'[q] \in Seq(Lines)
        /\ \A q \in Scopes : Single(logs'[q]) /\ \A r \in reports'[q].results : Kept(logs'[q], r)
        /\ \A r : Kept(lines, r) => Kept(logs'[job.scope], r)
        /\ logs'[job.scope] = l
    <2>1. logs'[job.scope] = l
      BY <1>1, <1>2 DEF Typed
    <2>2. QED
      BY <1>1, <1>2, <1>3, <2>1, LogsKept
  <1>5. CASE job' = Idle
    <2>1. Typed' /\ Traced'
      BY <1>1, <1>4, <1>5 DEF Typed, Traced
    <2>2. ~ CommitsDuringRun => Founded' /\ Answered'
      BY <1>1, <1>5, ReportsKept
    <2>3. QED
      BY <2>1, <2>2 DEF IInv
  <1>6. CASE job' # Idle
    <2>1. job' = Measured /\ Kept(l, job.result)
      BY <1>3, <1>6 DEF AppendTrace
    <2>2. /\ DOMAIN job' = Fields /\ job'.scope = job.scope /\ job'.step = "write"
          /\ job'.limit = job.limit /\ job'.results = job.results \cup {job.result}
          /\ job'.evidence = job.evidence /\ job'.queue = job.queue
          /\ job'.bound = job.bound /\ job'.proved = job.proved
      BY <1>2, <2>1 DEF Measured, Fields
    <2>3. Typed'
      BY <1>1, <1>2, <1>4, <2>2 DEF Typed
    <2>4. Traced'
      BY <1>1, <1>4, <2>1, <2>2 DEF Traced
    <2>5. ~ CommitsDuringRun => Founded'
      BY <1>1, <1>2, <2>2 DEF Founded, Reported, RestsOn, MeasuredAt
    <2>6. ~ CommitsDuringRun => Answered'
      BY <1>1, <2>2 DEF Answered, Heeded, Shows, Reported, ProvedAt
    <2>7. QED
      BY <2>3, <2>4, <2>5, <2>6 DEF IInv
  <1>7. QED
    BY <1>5, <1>6

(* The report says what the process holds, at the head of that moment.     *)
LEMMA Written ==
  ASSUME IInv, job # Idle, job.step # "trace", UNCHANGED <<head, proofs, logs>>,
         reports' = [reports EXCEPT ![job.scope] = Report],
         job' = [job EXCEPT !.step = "loop"] \/ job' = Idle
  PROVE  IInv'
  <1>1. Typed /\ Traced /\ (~ CommitsDuringRun => Founded /\ Answered)
    BY DEF IInv
  <1>2. /\ DOMAIN job = Fields /\ job.scope \in Scopes
        /\ job.results \subseteq Results /\ job.queue \in Queues
    BY <1>1 DEF Typed
  <1>3. /\ Report # NoReport /\ Report.results = job.results /\ Report.queue = job.queue
        /\ Report.revision = head /\ Report.evidence = job.evidence /\ Report.bound = job.bound
    BY DEF Report, NoReport
  <1>4. DOMAIN reports' = Scopes
        /\ \A s \in Scopes : reports'[s] = IF s = job.scope THEN Report ELSE reports[s]
    BY <1>1 DEF Typed
  <1>5. job' # Idle =>
          /\ DOMAIN job' = Fields /\ job'.scope = job.scope /\ job'.step = "loop"
          /\ job'.limit = job.limit /\ job'.results = job.results
          /\ job'.evidence = job.evidence /\ job'.queue = job.queue
          /\ job'.bound = job.bound /\ job'.proved = job.proved
    BY <1>2 DEF Fields
  <1>6. Typed'
    BY <1>1, <1>2, <1>3, <1>4, <1>5 DEF Typed
  <1>7. Traced'
    BY <1>1, <1>2, <1>3, <1>4, <1>5 DEF Traced
  <1>8. Reported' = Reported \cup {job.scope}
    BY <1>2, <1>3, <1>4 DEF Reported
  <1>9. ASSUME ~ CommitsDuringRun PROVE Founded'
    BY <1>1, <1>2, <1>3, <1>4, <1>5, <1>8, <1>9 DEF Founded
  <1>10. ASSUME ~ CommitsDuringRun PROVE Answered'
    <2>1. \A commit, t : ProvedAt(commit, t)' <=> ProvedAt(commit, t)
      BY DEF ProvedAt
    <2>2. \A q, t, status : Shows(q, t, status)' <=>
            IF q = job.scope THEN job.queue[t] = status ELSE Shows(q, t, status)
      BY <1>2, <1>3, <1>4, <1>8 DEF Shows, Reported
    <2>3. reports'["activation"].revision =
            IF job.scope = "activation" THEN head ELSE reports["activation"].revision
      BY <1>3, <1>4 DEF Scopes
    <2>4. \A t \in Tiers :
            Shows("activation", t, "AVAILABLE")' => ProvedAt(reports'["activation"].revision, t)
      BY <1>1, <1>10, <2>2, <2>3 DEF Answered, Heeded
    <2>5. ASSUME job' # Idle PROVE Heeded'
      <3>1. /\ job'.scope = job.scope /\ job'.queue = job.queue /\ job'.proved = job.proved
            /\ \A t \in job.proved : ProvedAt(head, t)
            /\ job.scope # "activation" =>
                 "activation" \in Reported' /\ reports'["activation"].revision = head
        BY <1>1, <1>5, <1>8, <1>10, <2>3, <2>5 DEF Answered, Heeded
      <3>0. Heeded
        BY <1>1, <1>10 DEF Answered
      <3>2. \A t \in Tiers :
              /\ job.scope = "activation" /\ job.queue[t] = "AVAILABLE" => ProvedAt(head, t)
              /\ job.scope # "activation" /\ Shows("activation", t, "PAUSED")' =>
                   job.queue[t] = "PAUSED" \/ t \in job.proved
              /\ Shows(job.scope, t, "PAUSED")' => job.queue[t] = "PAUSED"
        <4>1. ASSUME NEW t \in Tiers, job.scope # "activation", Shows("activation", t, "PAUSED")'
              PROVE  job.queue[t] = "PAUSED" \/ t \in job.proved
          <5>1. Shows("activation", t, "PAUSED")
            BY <2>2, <4>1
          <5>2. QED
            BY <3>0, <4>1, <5>1 DEF Heeded
        <4>2. \A t : Shows(job.scope, t, "PAUSED")' => job.queue[t] = "PAUSED"
          <5>1. reports'[job.scope].queue = job.queue
            BY <1>2, <1>3, <1>4
          <5>2. \A t : Shows(job.scope, t, "PAUSED")' => reports'[job.scope].queue[t] = "PAUSED"
            <6>1. TAKE t
            <6>2. QED
              <7>1. job'.scope = job.scope
                BY <1>5, <2>5
              <7>2. QED
                BY <7>1 DEF Shows
          <5>3. QED
            BY <5>1, <5>2
        <4>3. QED
          BY <3>0, <4>1, <4>2 DEF Heeded
      <3>3. QED
        BY <2>1, <3>1, <3>2 DEF Heeded
    <2>6. QED
      BY <2>1, <2>4, <2>5 DEF Answered
  <1>11. QED
    BY <1>6, <1>7, <1>9, <1>10 DEF IInv

LEMMA WriteReportHolds ==
  ASSUME IInv, WriteReport
  PROVE  IInv'
  BY Written DEF WriteReport, Idle

LEMMA FinishHolds ==
  ASSUME IInv, Finish
  PROVE  IInv'
  BY Written DEF Finish, Idle

-----------------------------------------------------------------------------
(* Around the runner.                                                      *)

LEMMA CrashHolds ==
  ASSUME IInv, Crash
  PROVE  IInv'
  <1>1. /\ job # Idle /\ job' = Idle /\ UNCHANGED <<head, proofs, reports>>
        /\ Typed /\ Traced /\ (~ CommitsDuringRun => Founded /\ Answered)
    BY DEF Crash, IInv
  <1>2. /\ DOMAIN logs' = Scopes /\ \A q \in Scopes : logs'[q] \in Seq(Lines)
        /\ \A q \in Scopes : Single(logs'[q]) /\ \A r \in reports'[q].results : Kept(logs'[q], r)
    <2>1. CASE logs' = logs
      BY <1>1, <2>1 DEF Typed, Traced
    <2>2. ASSUME NEW line \in {Torn, TraceOf(job.result)}, job.step = "trace",
                 AppendAnswer(logs[job.scope], TraceOf(job.result)) = "appended",
                 logs' = [logs EXCEPT ![job.scope] = Append(@, line)]
          PROVE  <1>2!1 /\ <1>2!2
      <3> DEFINE l == Append(logs[job.scope], line)
      <3>1. /\ job.scope \in Scopes /\ job.result \in Results
            /\ logs[job.scope] \in Seq(Lines) /\ Single(logs[job.scope])
        BY <1>1, <2>2 DEF Typed, Traced
      <3>2. l \in Seq(Lines) /\ Single(l) /\ \A q : Kept(logs[job.scope], q) => Kept(l, q)
        BY <2>2, <3>1, AddedLine
      <3>3. logs' = [logs EXCEPT ![job.scope] = l]
        BY <2>2
      <3> HIDE DEF l
      <3>4. QED
        BY <1>1, <3>1, <3>2, <3>3, LogsKept
    <2>3. QED
      BY <2>1, <2>2 DEF Crash
  <1>3. Typed' /\ Traced'
    BY <1>1, <1>2 DEF Typed, Traced
  <1>4. ~ CommitsDuringRun => Founded' /\ Answered'
    BY <1>1, ReportsKept
  <1>5. QED
    BY <1>3, <1>4 DEF IInv

LEMMA ProbeHolds ==
  ASSUME IInv, NEW tier \in Tiers, ProbeProvider(tier)
  PROVE  IInv'
  <1>1. /\ proofs' = proofs \cup {[revision |-> head, tier |-> tier]}
        /\ UNCHANGED <<head, reports, logs, job>>
        /\ Typed /\ Traced /\ (~ CommitsDuringRun => Founded /\ Answered)
    BY DEF ProbeProvider, IInv
  <1>2. Typed'
    <2>1. proofs' \subseteq [revision : Nat, tier : Tiers]
      BY <1>1, Assumed DEF Typed
    <2>2. QED
      BY <1>1, <2>1 DEF Typed
  <1>3. Traced'
    BY <1>1 DEF Traced
  <1>4. ~ CommitsDuringRun => Founded'
    BY <1>1 DEF Founded, Reported
  <1>5. ~ CommitsDuringRun => Answered'
    <2>1. \A commit, t : ProvedAt(commit, t) => ProvedAt(commit, t)'
      BY <1>1 DEF ProvedAt
    <2>2. Reported' = Reported /\ \A q, t, status : Shows(q, t, status)' <=> Shows(q, t, status)
      BY <1>1 DEF Reported, Shows
    <2>3. QED
      BY <1>1, <2>1, <2>2 DEF Answered, Heeded
  <1>6. QED
    BY <1>2, <1>3, <1>4, <1>5 DEF IInv

LEMMA CommitHolds ==
  ASSUME IInv, Commit
  PROVE  IInv'
  <1>1. /\ head < MaxHead /\ head' = head + 1 /\ UNCHANGED <<proofs, reports, logs, job>>
        /\ ~ CommitsDuringRun => job = Idle
        /\ Typed /\ Traced /\ (~ CommitsDuringRun => Founded /\ Answered)
    BY DEF Commit, IInv
  <1>2. Typed'
    <2>1. head' \in 1..MaxHead
      BY <1>1, Assumed DEF Typed
    <2>2. QED
      BY <1>1, <2>1 DEF Typed
  <1>3. Traced'
    BY <1>1 DEF Traced
  <1>4. ~ CommitsDuringRun => Founded'
    BY <1>1 DEF Founded, Reported
  <1>5. ~ CommitsDuringRun => Answered'
    BY <1>1 DEF Answered, Heeded, Shows, Reported, ProvedAt
  <1>6. QED
    BY <1>2, <1>3, <1>4, <1>5 DEF IInv

LEMMA FreshPathHolds ==
  ASSUME IInv, NEW s \in Scopes, FreshPath(s)
  PROVE  IInv'
  <1>1. /\ job = Idle /\ job' = Idle /\ UNCHANGED <<head, proofs>>
        /\ Typed /\ Traced /\ (~ CommitsDuringRun => Founded /\ Answered)
    BY DEF FreshPath, IInv
  <1>2. /\ DOMAIN reports' = Scopes /\ DOMAIN logs' = Scopes
        /\ \A q \in Scopes : /\ reports'[q] = IF q = s THEN NoReport ELSE reports[q]
                             /\ logs'[q] = IF q = s THEN <<>> ELSE logs[q]
    BY <1>1 DEF FreshPath, Typed
  <1>3. NoReport.results = {} /\ <<>> \in Seq(Lines)
    BY DEF NoReport
  <1>4. Typed'
    BY <1>1, <1>2, <1>3 DEF Typed
  <1>5. Traced'
    BY <1>1, <1>2, <1>3 DEF Traced, Single
  <1>6. Reported' \subseteq Reported /\ \A q \in Reported' : reports'[q] = reports[q]
    BY <1>2 DEF Reported
  <1>7. ~ CommitsDuringRun => Founded'
    BY <1>1, <1>6 DEF Founded
  <1>8. ~ CommitsDuringRun => Answered'
    <2>1. \A commit, t : ProvedAt(commit, t)' <=> ProvedAt(commit, t)
      BY <1>1 DEF ProvedAt
    <2>2. \A q, t, status : Shows(q, t, status)' => Shows(q, t, status)
      BY <1>6 DEF Shows
    <2>3. QED
      BY <1>1, <1>6, <2>1, <2>2 DEF Answered, Heeded, Shows
  <1>9. QED
    BY <1>4, <1>5, <1>7, <1>8 DEF IInv

(* The traces of a checkpoint taken over, in any order.                    *)
LEMMA OlderLog ==
  ASSUME NEW older \in OlderBaselines
  PROVE  LET l == SetToSeq({TraceOf(r) : r \in older.results}) IN
         /\ l \in Seq(Lines) /\ Single(l)
         /\ older.results \subseteq Results
         /\ \A r \in older.results : r.head = 0 /\ Kept(l, r)
  <1> DEFINE S == {TraceOf(r) : r \in older.results}
             n == Cardinality(S)
             l == SetToSeq(S)
  <1>1. /\ older.results \subseteq ResultsAt("baseline", {0}) /\ IsFiniteSet(older.results)
        /\ \A q, r \in older.results : q.cell = r.cell => q = r
    BY OlderAssumption
  <1>2. older.results \subseteq Results /\ \A r \in older.results : r.head = 0
    <2>1. ResultsAt("baseline", {0}) \subseteq ResultsAt("baseline", 0..MaxHead)
      BY Assumed DEF ResultsAt
    <2>2. ResultsAt("baseline", 0..MaxHead) \subseteq Results
      BY DEF Results, Scopes
    <2>3. \A r \in ResultsAt("baseline", {0}) : r.head = 0
      BY DEF ResultsAt, ResultOf
    <2>4. QED
      BY <1>1, <2>1, <2>2, <2>3
  <1>3. IsFiniteSet(S)
    <2>1. [r \in older.results |-> TraceOf(r)] \in Surjection(older.results, S)
      BY DEF Surjection
    <2>2. QED
      BY <1>1, <2>1, FS_Surjection
  <1>4. n \in Nat /\ l \in [1..n -> S] /\ IsInjective(l) /\ \A x \in S : \E i \in 1..n : l[i] = x
    <2>1. n \in Nat /\ ExistsBijection(1..n, S)
      BY <1>3, FS_CardinalityType
    <2>2. \E g \in [1..n -> S] : IsInjective(g)
      BY <2>1 DEF ExistsBijection, Bijection, Injection, IsInjective
    <2>3. l \in [1..n -> S] /\ IsInjective(l)
      BY <2>2, Zenon DEF SetToSeq
    <2>4. l \in Surjection(1..n, S)
      <3>1. l \in Injection(1..n, S)
        BY <2>3 DEF Injection, IsInjective
      <3>2. Cardinality(1..n) = n
        BY <2>1, FS_Interval
      <3>3. QED
        BY <1>3, <3>1, <3>2, FS_Injection
    <2>5. QED
      BY <2>1, <2>3, <2>4 DEF Surjection
  <1>5. S \subseteq Lines
    BY <1>2 DEF Lines
  <1> HIDE DEF l, n
  <1>6. DOMAIN l = 1..n /\ l \in Seq(Lines)
    BY <1>4, <1>5
  <1>7. \A p, q \in S : p.cell = q.cell => p = q
    <2>1. SUFFICES ASSUME NEW q \in older.results, NEW r \in older.results,
                          TraceOf(q).cell = TraceOf(r).cell
                   PROVE  TraceOf(q) = TraceOf(r)
      OBVIOUS
    <2>2. q.cell = r.cell
      BY <2>1 DEF TraceOf
    <2>3. QED
      BY <1>1, <2>2
  <1>8. Single(l)
    BY <1>4, <1>6, <1>7 DEF Single, IsInjective
  <1>9. \A r \in older.results : Kept(l, r)
    BY <1>4, <1>6 DEF Kept
  <1>10. QED
    BY <1>2, <1>6, <1>8, <1>9 DEF l

LEMMA TakeOverHolds ==
  ASSUME IInv, NEW older \in OlderBaselines, TakeOver(older)
  PROVE  IInv'
  <1> DEFINE l == SetToSeq({TraceOf(r) : r \in older.results})
             taken == [exists |-> TRUE, bound |-> TRUE, revision |-> head,
                       results |-> older.results, queue |-> older.queue, evidence |-> OlderEvidence]
  <1>1. /\ job = Idle /\ job' = Idle /\ UNCHANGED <<head, proofs>>
        /\ reports["baseline"] = NoReport
        /\ reports' = [reports EXCEPT !["baseline"] = taken]
        /\ logs' = [logs EXCEPT !["baseline"] = l]
        /\ Typed /\ Traced /\ (~ CommitsDuringRun => Founded /\ Answered)
    BY DEF TakeOver, IInv
  <1>2. /\ l \in Seq(Lines) /\ Single(l) /\ older.results \subseteq Results
        /\ \A r \in older.results : r.head = 0 /\ Kept(l, r)
    BY OlderLog
  <1>3. older.queue \in Queues
    BY OlderAssumption
  <1> HIDE DEF l
  <1>4. /\ DOMAIN reports' = Scopes /\ DOMAIN logs' = Scopes
        /\ \A q \in Scopes : /\ reports'[q] = IF q = "baseline" THEN taken ELSE reports[q]
                             /\ logs'[q] = IF q = "baseline" THEN l ELSE logs[q]
    BY <1>1 DEF Typed
  <1>5. /\ taken # NoReport /\ taken.results = older.results /\ taken.queue = older.queue
        /\ taken.bound = TRUE /\ taken.revision = head
    BY DEF NoReport
  <1> HIDE DEF taken
  <1>6. Typed'
    BY <1>1, <1>2, <1>3, <1>4, <1>5 DEF Typed
  <1>7. Traced'
    BY <1>1, <1>2, <1>4, <1>5 DEF Traced
  <1>8. Reported' = Reported \cup {"baseline"} /\ "baseline" \notin Reported
    BY <1>1, <1>4, <1>5 DEF Reported, Scopes
  <1>9. ASSUME ~ CommitsDuringRun PROVE Founded'
    <2>1. RestsOn("baseline", head, TRUE, older.results, taken.evidence)
      BY <1>2 DEF RestsOn, MeasuredAt
    <2>2. QED
      BY <1>1, <1>2, <1>4, <1>5, <1>8, <1>9, <2>1 DEF Founded, Reported
  <1>10. ASSUME ~ CommitsDuringRun PROVE Answered'
    <2>1. \A t, status : Shows("activation", t, status)' <=> Shows("activation", t, status)
      BY <1>4, <1>8 DEF Shows, Scopes
    <2>2. \A commit, t : ProvedAt(commit, t)' <=> ProvedAt(commit, t)
      BY <1>1 DEF ProvedAt
    <2>3. reports'["activation"] = reports["activation"]
      BY <1>4 DEF Scopes
    <2>4. QED
      BY <1>1, <1>10, <2>1, <2>2, <2>3 DEF Answered
  <1>11. QED
    BY <1>6, <1>7, <1>9, <1>10 DEF IInv

LEMMA TakeOverPilotHolds ==
  ASSUME IInv, TakeOverPilot
  PROVE  IInv'
  <1>1. UNCHANGED <<head, proofs, reports, logs, job>>
    BY DEF TakeOverPilot
  <1>2. QED
    BY <1>1 DEF IInv, Typed, Traced, Founded, Answered, Heeded, Shows, Reported, ProvedAt

LEMMA NextHolds == IInv /\ [Next]_vars => IInv'
  <1>1. SUFFICES ASSUME IInv, [Next]_vars PROVE IInv'
    OBVIOUS
  <1>2. CASE UNCHANGED vars
    BY <1>1, <1>2 DEF vars, IInv, Typed, Traced, Founded, Answered, Heeded, Shows, Reported, ProvedAt
  <1>3. ASSUME NEW s \in Scopes, NEW proved \in SUBSET Tiers, NEW limit \in 1..Len(Schedule[s]),
               Start(s, limit, proved)
        PROVE  IInv'
    BY <1>1, <1>3, StartHolds
  <1>4. CASE Execute \/ AppendTrace \/ WriteReport \/ Finish \/ Crash \/ Commit \/ TakeOverPilot
    BY <1>1, <1>4, ExecuteHolds, AppendTraceHolds, WriteReportHolds, FinishHolds, CrashHolds,
       CommitHolds, TakeOverPilotHolds
  <1>5. ASSUME NEW t \in Tiers, ProbeProvider(t) PROVE IInv'
    BY <1>1, <1>5, ProbeHolds
  <1>6. ASSUME NEW s \in Scopes, FreshPath(s) PROVE IInv'
    BY <1>1, <1>6, FreshPathHolds
  <1>7. ASSUME NEW older \in OlderBaselines, TakeOver(older) PROVE IInv'
    BY <1>1, <1>7, TakeOverHolds
  <1>8. QED
    BY <1>1, <1>2, <1>3, <1>4, <1>5, <1>6, <1>7 DEF Next

(* The inductive invariant holds in every reachable state, over any kills, *)
(* resumes and fresh paths.                                                *)
THEOREM Invariance == Spec => []IInv
  BY InitHolds, NextHolds, PTL DEF Spec

(* Whatever is killed, a result a report claims has its own trace in the   *)
(* log of the scope and no other (_append_trace before _write_report).     *)
THEOREM ResultsAreTraced == Spec => []TracedResults
  <1>1. ASSUME IInv PROVE TracedResults
    <2>1. SUFFICES ASSUME NEW s \in Reported, NEW r \in reports[s].results
                   PROVE  {logs[s][n] : n \in {m \in DOMAIN logs[s] :
                             logs[s][m] # Torn /\ logs[s][m].cell = r.cell}} = {TraceOf(r)}
      BY DEF TracedResults
    <2>2. s \in Scopes /\ Single(logs[s])
      BY <1>1 DEF IInv, Traced, Reported
    <2>3. PICK n \in DOMAIN logs[s] : logs[s][n] = TraceOf(r)
      BY <1>1, <2>2 DEF IInv, Traced, Kept
    <2>4. TraceOf(r) # Torn /\ TraceOf(r).cell = r.cell
      BY DEF TraceOf, Torn
    <2>5. \A m \in DOMAIN logs[s] : logs[s][m] # Torn /\ logs[s][m].cell = r.cell => m = n
      BY <2>2, <2>3, <2>4 DEF Single
    <2>6. QED
      BY <2>3, <2>4, <2>5
  <1>2. QED
    BY <1>1, Invariance, PTL

(* Without commits during a run, what a report holds was measured at the   *)
(* revision it names, on evidence of that revision, but for what a bound   *)
(* baseline took over (_validate_resume and the gates of run()).           *)
THEOREM ReportsRestOnTheirHead ==
  ASSUME ~ CommitsDuringRun PROVE Spec => []RestsOnItsHead
  <1>1. IInv => RestsOnItsHead
    BY DEF IInv, Founded, RestsOn, EvidenceOf, RestsOnItsHead
  <1>2. QED
    BY <1>1, Invariance, PTL

(* Without commits during a run, a tier that the activation shows as       *)
(* paused is called only by a run that was given a proof, one that the     *)
(* scope's report shows as paused only where the run or its activation was *)
(* given one, and it was made at the revision.                             *)
THEOREM GapsAreHeld ==
  ASSUME ~ CommitsDuringRun PROVE Spec => GapHeld
  <1> DEFINE tier == NextCell.tier
             shows(s, status) == s \in Reported /\ reports[s].queue[tier] = status
             later == job.scope # "activation"
             Called ==
               executions' # executions =>
                 /\ later /\ shows("activation", "PAUSED") => tier \in job.proved
                 /\ shows(job.scope, "PAUSED") =>
                      /\ tier \in job.proved \/ (later /\ shows("activation", "AVAILABLE"))
                      /\ [revision |-> head, tier |-> tier] \in proofs
  <1>1. ASSUME IInv, Next, executions' # executions PROVE Called!2
    <2>1. Execute
      BY <1>1 DEF Next, Start, AppendTrace, WriteReport, Finish, Crash, ProbeProvider, Commit,
                  FreshPath, TakeOver, TakeOverPilot
    <2>2. job # Idle /\ Pending # {}
      <3>1. job.step = "loop" /\ Pending # {}
        BY <2>1, Zenon DEF Execute
      <3>2. QED
        BY <3>1 DEF Idle
    <2>3. tier \in Tiers /\ job.queue[tier] # "PAUSED"
      BY <1>1, <2>2, FirstPending DEF IInv
    <2>4. Answered
      BY <1>1 DEF IInv
    <2> HIDE DEF tier
    <2>5. QED
      BY <2>2, <2>3, <2>4 DEF Answered, Heeded, Shows, ProvedAt
  <1>2. IInv /\ [Next]_vars => [Called]_vars
    BY <1>1
  <1> HIDE DEF Called
  <1>3. Spec => [][Called]_vars
    BY <1>2, Invariance, PTL DEF Spec
  <1>4. QED
    BY <1>3 DEF Called, GapHeld

(* What a report has claimed stays in it as long as its path is used.      *)
THEOREM NothingIsLost == Spec => NothingLost
  <1> DEFINE Claimed ==
        \A s \in Scopes :
          reports'[s] # NoReport => reports[s].results \subseteq reports'[s].results
  <1>1. ASSUME IInv, Next PROVE Claimed
    <2>1. CASE UNCHANGED reports
      BY <2>1
    <2>2. CASE WriteReport \/ Finish
      <3>1. job # Idle /\ reports' = [reports EXCEPT ![job.scope] = Report]
        BY <2>2 DEF WriteReport, Finish, Idle
      <3>2. \A s \in Scopes : reports'[s] = IF s = job.scope THEN Report ELSE reports[s]
        BY <1>1, <3>1 DEF IInv, Typed
      <3>3. reports[job.scope].results \subseteq Report.results
        BY <1>1, <3>1 DEF IInv, Traced, Report
      <3>4. QED
        BY <3>2, <3>3
    <2>3. ASSUME NEW s \in Scopes, FreshPath(s) PROVE Claimed
      BY <1>1, <2>3 DEF IInv, Typed, FreshPath
    <2>4. CASE Execute
      <3>1. UNCHANGED reports
        BY <2>4, Zenon DEF Execute
      <3>2. QED
        BY <2>1, <3>1
    <2>5. ASSUME NEW older \in OlderBaselines, TakeOver(older) PROVE Claimed
      <3>1. /\ \A s \in Scopes \ {"baseline"} : reports'[s] = reports[s]
            /\ reports["baseline"].results = {}
        BY <1>1, <2>5 DEF IInv, Typed, TakeOver, NoReport
      <3>2. QED
        BY <3>1
    <2>6. QED
      BY <1>1, <2>1, <2>2, <2>3, <2>4, <2>5
         DEF Next, Start, AppendTrace, Crash, ProbeProvider, Commit, TakeOverPilot
  <1>2. IInv /\ [Next]_vars => [Claimed]_vars
    BY <1>1
  <1> HIDE DEF Claimed
  <1>3. Spec => [][Claimed]_vars
    BY <1>2, Invariance, PTL DEF Spec
  <1>4. QED
    BY <1>3 DEF Claimed, NothingLost

-----------------------------------------------------------------------------
(***************************************************************************)
(* Migration.  For any source, policy, reruns, kills and order of the      *)
(* commands: the files before a migration say of the source what is true   *)
(* of it.  Audited, Planned, Bridged and Proven each say it of one file,   *)
(* or of the copy of it that a later file has.                             *)
(***************************************************************************)

(* A plan has a cell of each required tier and sampled class, and no other. *)
Covers(p) ==
  /\ \A c \in p.cells : c.tier \in RequiredTiers /\ c.class \in SampleClasses
  /\ \A t \in RequiredTiers, k \in SampleClasses :
       \E c \in p.cells : c.tier = t /\ c.class = k

(* A tier is not unavailable only if each of its samples was compared.     *)
Compares(p) ==
  /\ \A x \in p.matched \cup p.replay :
       \E t \in RequiredTiers, k \in SampleClasses : x = <<t, k>>
  /\ \A t \in RequiredTiers : t \notin TiersIn(p.unavailable) =>
       \A k \in SampleClasses : <<t, k>> \in p.matched \cup p.replay

Sound(m) ==
  LET r == m.result
      compared == migrated.proof.matched \cup migrated.proof.replay
      rerun == {k \in compared : k[1] = r.cell.tier}
  IN /\ r.provenance /\ ~r.gap /\ r.outcome # "TIMEOUT"
     /\ source.semantics = "same" /\ ~source.torn
     /\ ~SealedUnavailable(r) =>
          /\ r.outcome \in {"PASS", "FAIL"}
          /\ rerun = {<<r.cell.tier, k>> : k \in SampleClasses}
          /\ <<r.cell.tier, r.cell.class>> \notin migrated.proof.replay

Audited == audit # None => audit.class = [r \in source.results |-> Class(r)]

Bridging == {"step", "selected", "head", "paused", "result", "results"}

Proven ==
  /\ source \in Sources
  /\ Audited
  /\ plan # None => Covers(plan)
  /\ bridge # None => Covers(bridge.plan) /\ \A r \in bridge.results : r.outcome \in Rerun
  /\ run # NoRun =>
       /\ plan # None /\ DOMAIN run = Bridging
       /\ \A r \in run.results : r.outcome \in Rerun
       /\ run.step = "trace" => run.result.outcome \in Rerun
  /\ proof # None => Compares(proof)
  /\ migrated # None => \A m \in migrated.results : Sound(m)

(* Each bridge result that is reported, or is about to be, has its line.    *)
HasLine(r) == \E n \in DOMAIN log : log[n] = TraceOf(r)

OneLine ==
  \A m, n \in DOMAIN log :
    log[m] # Torn /\ log[n] # Torn /\ log[m].cell = log[n].cell => m = n

Lined ==
  /\ log \in Seq(ToSet(log)) /\ OneLine
  /\ bridge # None => \A r \in bridge.results : HasLine(r)
  /\ run # NoRun => DOMAIN run = Bridging /\ \A r \in run.results : HasLine(r)

LEMMA MigrationStarts == MigrationInit => Proven /\ Lined
  <1> SUFFICES ASSUME MigrationInit PROVE Proven /\ Lined
    OBVIOUS
  <1> USE DEF MigrationInit
  <1>1. Proven
    BY DEF Proven, Audited
  <1>2. log \in Seq(ToSet(log))
    BY DEF ToSet
  <1>3. Lined
    BY <1>2 DEF Lined, OneLine
  <1>4. QED
    BY <1>1, <1>3

-----------------------------------------------------------------------------
(* The commands before a migration.                                        *)

LEMMA PlanCovers ==
  ASSUME PlanBridge
  PROVE  Covers(plan')
  <1>1. /\ \A t \in RequiredTiers, k \in SampleClasses : Candidates(t, k) # {}
        /\ plan'.cells = {First(Candidates(t, k)) : t \in RequiredTiers, k \in SampleClasses}
    BY DEF PlanBridge
  <1>2. ASSUME NEW candidates, candidates # {} PROVE First(candidates) \in candidates
    BY <1>2 DEF First
  <1>3. ASSUME NEW t \in RequiredTiers, NEW k \in SampleClasses
        PROVE  First(Candidates(t, k)).tier = t /\ First(Candidates(t, k)).class = k
    <2>1. First(Candidates(t, k)) \in Candidates(t, k)
      BY <1>1, <1>2
    <2>2. QED
      BY <2>1 DEF Candidates
  <1>4. \A c \in plan'.cells : c.tier \in RequiredTiers /\ c.class \in SampleClasses
    BY <1>1, <1>3
  <1>5. \A t \in RequiredTiers, k \in SampleClasses : \E c \in plan'.cells : c.tier = t /\ c.class = k
    BY <1>1, <1>3
  <1>6. QED
    BY <1>4, <1>5 DEF Covers

LEMMA ProofCompares ==
  ASSUME Prove, Proven
  PROVE  Compares(proof')
  <1>1. /\ Covers(bridge.plan)
        /\ \A r \in bridge.results : r.outcome \in Rerun
        /\ proof'.matched = ClassesOf("match") /\ proof'.replay = ClassesOf("mismatch")
        /\ proof'.unavailable = ClassesOf("unavailable")
    BY DEF Prove, Proven
  <1>2. \A c \in bridge.plan.cells : BridgeOutcome(c) \in Rerun
    BY <1>1 DEF BridgeOutcome, Rerun
  <1>3. \A c \in bridge.plan.cells : <<c.tier, c.class>> \in ClassesOf(BridgeOutcome(c))
    BY DEF ClassesOf
  <1>4. ASSUME NEW x \in proof'.matched \cup proof'.replay
        PROVE  \E t \in RequiredTiers, k \in SampleClasses : x = <<t, k>>
    BY <1>1 DEF ClassesOf, Covers
  <1>5. ASSUME NEW t \in RequiredTiers, t \notin TiersIn(proof'.unavailable), NEW k \in SampleClasses
        PROVE  <<t, k>> \in proof'.matched \cup proof'.replay
    <2>1. PICK c \in bridge.plan.cells : c.tier = t /\ c.class = k
      BY <1>1 DEF Covers
    <2>2. BridgeOutcome(c) # "unavailable"
      <3>1. SUFFICES ASSUME BridgeOutcome(c) = "unavailable" PROVE FALSE
        OBVIOUS
      <3>2. <<t, k>> \in proof'.unavailable /\ <<t, k>>[1] = t
        BY <1>1, <1>3, <2>1, <3>1
      <3>3. QED
        BY <1>5, <3>2 DEF TiersIn
    <2>3. BridgeOutcome(c) \in {"match", "mismatch"}
      BY <1>2, <2>2 DEF Rerun
    <2>4. QED
      BY <1>1, <1>3, <2>1, <2>3
  <1>6. QED
    BY <1>4, <1>5 DEF Compares

(* What is migrated was reusable, and is permitted by a proof that compares. *)
LEMMA MigrantsAreSound ==
  ASSUME Migrate, Proven
  PROVE  \A m \in migrated'.results : Sound(m)'
  <1>1. /\ migrated'.results = {[result |-> r, validated |-> revision] : r \in Migrants}
        /\ migrated'.proof = proof /\ UNCHANGED source
        /\ Compares(proof) /\ audit.class = [r \in source.results |-> Class(r)]
        /\ source \in Sources
    BY DEF Migrate, Proven, Audited
  <1>2. SUFFICES ASSUME NEW m \in migrated'.results PROVE Sound(m)'
    OBVIOUS
  <1>3. PICK r \in Migrants : m.result = r
    BY <1>1
  <1>4. r \in source.results /\ Class(r) = "REUSABLE"
    BY <1>1 DEF Migrants, Reusable
  <1>5. /\ source.semantics \in {"same", "changed", "unsealed"}
        /\ r.outcome \in {"PASS", "FAIL", "TIMEOUT", "UNAVAILABLE"}
    BY <1>1, <1>4, MigrationAssumption
  <1>6. source.semantics = "same"
    <2>1. Global = "REUSABLE"
      BY <1>4 DEF Class
    <2>2. QED
      BY <1>5, <2>1 DEF Global
  <1>7. /\ r.provenance /\ ~r.gap /\ r.outcome # "TIMEOUT" /\ ~source.torn
        /\ r.outcome = "UNAVAILABLE" => r.sealed
    <2>1. Global = "REUSABLE"
      BY <1>4 DEF Class
    <2>2. QED
      BY <1>4, <2>1 DEF Class
  <1>8. ASSUME ~SealedUnavailable(r)
        PROVE  /\ r.outcome \in {"PASS", "FAIL"}
               /\ {k \in proof.matched \cup proof.replay : k[1] = r.cell.tier}
                    = {<<r.cell.tier, k>> : k \in SampleClasses}
               /\ <<r.cell.tier, r.cell.class>> \notin proof.replay
    <2>1. r.outcome \in {"PASS", "FAIL"}
      BY <1>5, <1>7, <1>8 DEF SealedUnavailable
    <2>2. /\ r.cell.tier \in RequiredTiers /\ r.cell.tier \notin TiersIn(proof.unavailable)
          /\ <<r.cell.tier, r.cell.class>> \notin proof.replay
      BY <1>8 DEF Migrants, Permitted
    <2>3. \A x \in proof.matched \cup proof.replay :
            x[1] = r.cell.tier => x \in {<<r.cell.tier, k>> : k \in SampleClasses}
      BY <1>1 DEF Compares
    <2>4. \A k \in SampleClasses : <<r.cell.tier, k>> \in proof.matched \cup proof.replay
      BY <1>1, <2>2 DEF Compares
    <2>5. QED
      BY <2>1, <2>2, <2>3, <2>4
  <1>9. SealedUnavailable(r)' = SealedUnavailable(r)
    BY DEF SealedUnavailable
  <1>10. QED
    BY <1>1, <1>3, <1>6, <1>7, <1>8, <1>9 DEF Sound, SealedUnavailable

-----------------------------------------------------------------------------
(* The process of the bridge, and its log.                                 *)

LEMMA Executes ==
  ASSUME ExecuteBridge
  PROVE  /\ run # NoRun /\ UNCHANGED <<source, audit, plan, bridge, log, proof, migrated, requeued>>
  <1>1. run.step = "loop" /\ UNCHANGED <<revision, source, audit, plan, bridge, log, proof, migrated, promoted, requeued>>
    BY Zenon DEF ExecuteBridge
  <1>2. QED
    BY <1>1 DEF NoRun

LEMMA ExecuteForm ==
  ASSUME ExecuteBridge, DOMAIN run = Bridging
  PROVE  /\ run # NoRun /\ run' # NoRun /\ DOMAIN run' = Bridging /\ run'.results = run.results
         /\ run'.step = "trace" => run'.result.outcome \in Rerun
  <1>1. run # NoRun
    BY Executes
  <1>2. CASE \E outcome \in Rerun :
               run' = [run EXCEPT !.step = "trace",
                         !.result = [cell |-> NextPlanned, outcome |-> outcome, wall |-> 1]]
    <2>1. PICK outcome \in Rerun :
            run' = [run EXCEPT !.step = "trace",
                      !.result = [cell |-> NextPlanned, outcome |-> outcome, wall |-> 1]]
      BY <1>2
    <2>2. DOMAIN run' = Bridging /\ run'.step = "trace" /\ run'.result.outcome = outcome /\ run'.results = run.results
      BY <2>1 DEF Bridging
    <2>3. QED
      BY <1>1, <2>2 DEF NoRun
  <1>3. CASE run' = [run EXCEPT !.step = "write", !.paused = @ \cup {NextPlanned.tier}]
    <2>1. DOMAIN run' = Bridging /\ run'.step = "write" /\ run'.results = run.results
      BY <1>3 DEF Bridging
    <2>2. QED
      BY <1>1, <2>1 DEF NoRun
  <1>4. QED
    BY <1>2, <1>3 DEF ExecuteBridge

LEMMA TraceForm ==
  ASSUME TraceBridge, DOMAIN run = Bridging
  PROVE  /\ run.step = "trace" /\ run # NoRun /\ log' = Appended(log, TraceOf(run.result))
         /\ UNCHANGED bridge
         /\ \/ run' = NoRun
            \/ /\ AppendAnswer(log, TraceOf(run.result)) \in {"appended", "same"}
               /\ run' # NoRun /\ DOMAIN run' = Bridging /\ run'.step = "write"
               /\ run'.results = run.results \cup {run.result}
  <1>1. /\ run.step = "trace" /\ run # NoRun /\ log' = Appended(log, TraceOf(run.result))
        /\ UNCHANGED bridge
    BY DEF TraceBridge, NoRun
  <1>2. CASE run' = NoRun
    BY <1>1, <1>2
  <1>3. CASE run' # NoRun
    <2>1. /\ AppendAnswer(log, TraceOf(run.result)) \in {"appended", "same"}
          /\ run' = [run EXCEPT !.step = "write", !.results = @ \cup {run.result}]
      BY <1>3 DEF TraceBridge
    <2>2. DOMAIN run' = Bridging /\ run'.step = "write" /\ run'.results = run.results \cup {run.result}
      BY <2>1 DEF Bridging
    <2>3. QED
      BY <1>1, <1>3, <2>1, <2>2
  <1>4. QED
    BY <1>2, <1>3

LEMMA WriteForm ==
  ASSUME WriteBridge, DOMAIN run = Bridging
  PROVE  /\ run # NoRun /\ run' # NoRun /\ DOMAIN run' = Bridging /\ run'.step = "loop"
         /\ run'.results = run.results
         /\ bridge'.plan = plan /\ bridge'.results = run.results /\ UNCHANGED log
  <1>1. /\ run.step = "write" /\ run' = [run EXCEPT !.step = "loop", !.result = None]
        /\ bridge' = BridgeReport /\ UNCHANGED log
    BY DEF WriteBridge
  <1>2. DOMAIN run' = Bridging /\ run'.step = "loop" /\ run'.results = run.results
    BY <1>1 DEF Bridging
  <1>3. run # NoRun /\ run' # NoRun
    <2>1. run.step = "write" /\ run'.step = "loop"
      BY <1>1, <1>2
    <2>2. QED
      BY <2>1 DEF NoRun
  <1>4. bridge'.plan = plan /\ bridge'.results = run.results
    BY <1>1 DEF BridgeReport
  <1>5. QED
    BY <1>1, <1>2, <1>3, <1>4

(* Class asks no more than the source, which nobody edits.                 *)
LEMMA SourceStays ==
  ASSUME [MigrationNext]_migrationVars
  PROVE  UNCHANGED source /\ \A r : Class(r)' = Class(r)
  <1>1. UNCHANGED source
    BY Executes
       DEF MigrationNext, migrationVars, Audit, PlanBridge, StartBridge, TraceBridge, WriteBridge,
           FinishBridge, Prove, Migrate, PromotePilot, RequeueGaps, KillBridge, NewRevision, FreshBridge
  <1>2. Global' = Global
    BY <1>1 DEF Global
  <1>3. ASSUME NEW r PROVE Class(r)' = Class(r)
    BY <1>1, <1>2 DEF Class
  <1>4. QED
    BY <1>1, <1>3

LEMMA ProvenHolds ==
  ASSUME Proven, [MigrationNext]_migrationVars
  PROVE  Proven'
  <1> USE SourceStays DEF Proven
  <1>1. \A m : UNCHANGED migrated => (Sound(m) => Sound(m)')
    BY DEF Sound, SealedUnavailable
  <1>2. ASSUME UNCHANGED <<audit, plan, bridge, run, proof, migrated, requeued>> PROVE Proven'
    BY <1>1, <1>2 DEF Audited, Covers, Compares
  <1>3. CASE Audit
    <2>1. /\ UNCHANGED <<plan, bridge, run, proof, migrated, requeued>>
          /\ audit'.class = [r \in source.results |-> Class(r)]
      BY <1>3 DEF Audit
    <2>2. Audited'
      BY <2>1 DEF Audited
    <2>3. QED
      BY <1>1, <2>1, <2>2 DEF Covers, Compares
  <1>4. CASE PlanBridge
    <2>1. UNCHANGED <<audit, bridge, run, proof, migrated, requeued>> /\ run = NoRun
      BY <1>4 DEF PlanBridge
    <2>2. Covers(plan')
      BY <1>4, PlanCovers
    <2>3. QED
      BY <1>1, <2>1, <2>2 DEF Audited, Covers, Compares
  <1>5. ASSUME NEW selected, NEW available, StartBridge(selected, available) PROVE Proven'
    <2>1. UNCHANGED <<audit, plan, bridge, proof, migrated, requeued>> /\ plan # None
      BY <1>5 DEF StartBridge
    <2>2. /\ DOMAIN run' = Bridging /\ run'.step = "loop"
          /\ run'.results = IF bridge = None THEN {} ELSE bridge.results
      BY <1>5 DEF StartBridge, Bridging
    <2>3. QED
      BY <1>1, <2>1, <2>2 DEF Audited, Covers, Compares
  <1>6. CASE ExecuteBridge
    <2>1. UNCHANGED <<audit, plan, bridge, proof, migrated, requeued>> /\ run # NoRun
      BY <1>6, Executes
    <2>2. DOMAIN run' = Bridging /\ run'.results = run.results
          /\ (run'.step = "trace" => run'.result.outcome \in Rerun)
      BY <1>6, <2>1, ExecuteForm
    <2>3. QED
      BY <1>1, <2>1, <2>2 DEF Audited, Covers, Compares
  <1>7. CASE TraceBridge
    <2>1. UNCHANGED <<audit, plan, bridge, proof, migrated, requeued>> /\ run # NoRun /\ run.step = "trace"
      BY <1>7 DEF TraceBridge, NoRun
    <2>2. run' = NoRun \/ (/\ DOMAIN run' = Bridging /\ run'.step = "write"
                           /\ run'.results = run.results \cup {run.result})
      BY <1>7, <2>1, TraceForm
    <2>3. QED
      BY <1>1, <2>1, <2>2 DEF Audited, Covers, Compares
  <1>8. CASE WriteBridge
    <2>1. UNCHANGED <<audit, plan, proof, migrated, requeued>> /\ run # NoRun
      BY <1>8 DEF WriteBridge, NoRun
    <2>2. /\ DOMAIN run' = Bridging /\ run'.step = "loop" /\ run'.results = run.results
          /\ bridge'.plan = plan /\ bridge'.results = run.results
      BY <1>8, <2>1, WriteForm
    <2>3. QED
      BY <1>1, <2>1, <2>2 DEF Audited, Covers, Compares
  <1>9. CASE FinishBridge
    <2>1. /\ UNCHANGED <<audit, plan, proof, migrated, requeued>> /\ run # NoRun /\ run' = NoRun
          /\ bridge' = bridge \/ (bridge'.plan = plan /\ bridge'.results = run.results)
      BY <1>9 DEF FinishBridge, NoRun, BridgeReport
    <2>2. QED
      BY <1>1, <2>1 DEF Audited, Covers, Compares
  <1>10. CASE Prove
    <2>1. UNCHANGED <<audit, plan, bridge, run, migrated, requeued>> /\ run = NoRun
      BY <1>10 DEF Prove
    <2>2. Compares(proof')
      BY <1>10, ProofCompares
    <2>3. QED
      BY <1>1, <2>1, <2>2 DEF Audited, Covers, Compares
  <1>11. CASE Migrate
    <2>1. UNCHANGED <<audit, plan, bridge, run, proof, requeued>>
      BY <1>11 DEF Migrate
    <2>2. \A m \in migrated'.results : Sound(m)'
      BY <1>11, MigrantsAreSound
    <2>3. QED
      BY <2>1, <2>2 DEF Audited, Covers, Compares
  <1>12. CASE PromotePilot
    BY <1>2, <1>12 DEF PromotePilot
  <1>13. CASE RequeueGaps
    <2>1. UNCHANGED <<audit, plan, bridge, run, proof, migrated>>
      BY <1>13 DEF RequeueGaps
    <2>2. QED
      BY <1>1, <2>1 DEF Audited, Covers, Compares
  <1>14. CASE KillBridge
    <2>1. UNCHANGED <<audit, plan, bridge, proof, migrated, requeued>> /\ run' = NoRun
      BY <1>14 DEF KillBridge
    <2>2. QED
      BY <1>1, <2>1 DEF Audited, Covers, Compares
  <1>15. CASE NewRevision \/ UNCHANGED migrationVars
    BY <1>2, <1>15 DEF NewRevision, migrationVars
  <1>16. CASE FreshBridge
    <2>1. UNCHANGED <<audit, plan, run, proof, migrated, requeued>> /\ bridge' = None
      BY <1>16 DEF FreshBridge
    <2>2. QED
      BY <1>1, <2>1 DEF Audited, Covers, Compares
  <1>17. QED
    BY <1>3, <1>4, <1>5, <1>6, <1>7, <1>8, <1>9, <1>10, <1>11, <1>12, <1>13, <1>14, <1>15, <1>16
       DEF MigrationNext

(* What a line added for a new cell keeps, be it whole or torn.            *)
LEMMA LineAdded ==
  ASSUME log \in Seq(ToSet(log)), OneLine, NEW r, NEW line \in {Torn, TraceOf(r)},
         AppendAnswer(log, TraceOf(r)) = "appended", log' = Append(log, line)
  PROVE  /\ log' \in Seq(ToSet(log')) /\ OneLine'
         /\ \A q : HasLine(q) => HasLine(q)'
         /\ line = TraceOf(r) => HasLine(r)'
  <1> DEFINE S == ToSet(log) \cup {line}
  <1>1. log \in Seq(S) /\ line \in S
    OBVIOUS
  <1>2. /\ DOMAIN log = 1..Len(log) /\ Len(log) \in Nat
        /\ DOMAIN log' = 1..(Len(log) + 1) /\ log'[Len(log) + 1] = line
        /\ \A n \in 1..Len(log) : log'[n] = log[n]
        /\ log' \in Seq(S)
    BY <1>1
  <1>3. ToSet(log') = S
    BY <1>2 DEF ToSet
  <1>4. \A n \in DOMAIN log : log[n].cell # TraceOf(r).cell
    BY DEF AppendAnswer, Holds
  <1>5. OneLine'
    <2>1. SUFFICES ASSUME NEW m \in DOMAIN log', NEW n \in DOMAIN log', log'[m] # Torn, log'[n] # Torn,
                          log'[m].cell = log'[n].cell
                   PROVE  m = n
      BY DEF OneLine
    <2>2. CASE m \in DOMAIN log /\ n \in DOMAIN log
      BY <1>2, <2>1, <2>2 DEF OneLine
    <2>3. CASE m \notin DOMAIN log \/ n \notin DOMAIN log
      <3>1. line # Torn
        BY <1>2, <2>1, <2>3
      <3>2. line = TraceOf(r)
        BY <3>1
      <3>3. QED
        BY <1>2, <1>4, <2>1, <2>3, <3>2
    <2>4. QED
      BY <2>2, <2>3
  <1>6. \A q : HasLine(q) => HasLine(q)'
    BY <1>2 DEF HasLine
  <1>7. line = TraceOf(r) => HasLine(r)'
    BY <1>2 DEF HasLine
  <1>8. QED
    BY <1>2, <1>3, <1>5, <1>6, <1>7

LEMMA LineAppended ==
  ASSUME log \in Seq(ToSet(log)), OneLine, NEW r, log' = Appended(log, TraceOf(r))
  PROVE  /\ log' \in Seq(ToSet(log')) /\ OneLine'
         /\ \A q : HasLine(q) => HasLine(q)'
         /\ AppendAnswer(log, TraceOf(r)) \in {"appended", "same"} => HasLine(r)'
  <1>1. CASE AppendAnswer(log, TraceOf(r)) = "appended"
    <2>1. log' = Append(log, TraceOf(r))
      BY <1>1 DEF Appended
    <2>2. QED
      BY <1>1, <2>1, LineAdded
  <1>2. CASE AppendAnswer(log, TraceOf(r)) # "appended"
    <2>1. log' = log
      BY <1>2 DEF Appended
    <2>2. OneLine' /\ \A q : HasLine(q) => HasLine(q)'
      BY <2>1 DEF OneLine, HasLine
    <2>3. AppendAnswer(log, TraceOf(r)) = "same" => HasLine(r)'
      BY <2>1 DEF AppendAnswer, HasLine, ToSet
    <2>4. QED
      BY <1>2, <2>1, <2>2, <2>3
  <1>3. QED
    BY <1>1, <1>2

LEMMA LinedHolds ==
  ASSUME Lined, [MigrationNext]_migrationVars
  PROVE  Lined'
  <1> USE DEF Lined
  <1>1. UNCHANGED log => OneLine' /\ \A r : HasLine(r) => HasLine(r)'
    BY DEF OneLine, HasLine
  <1>2. ASSUME UNCHANGED <<log, bridge, run>> PROVE Lined'
    BY <1>1, <1>2
  <1>3. ASSUME NEW selected, NEW available, StartBridge(selected, available) PROVE Lined'
    <2>1. UNCHANGED <<log, bridge>>
      BY <1>3 DEF StartBridge
    <2>2. /\ DOMAIN run' = Bridging
          /\ run'.results = IF bridge = None THEN {} ELSE bridge.results
      BY <1>3 DEF StartBridge, Bridging
    <2>3. QED
      BY <1>1, <2>1, <2>2
  <1>4. CASE ExecuteBridge
    <2>1. UNCHANGED <<log, bridge>> /\ run # NoRun
      BY <1>4, Executes
    <2>2. DOMAIN run' = Bridging /\ run'.results = run.results
      BY <1>4, <2>1, ExecuteForm
    <2>3. QED
      BY <1>1, <2>1, <2>2
  <1>5. CASE TraceBridge
    <2>1. run # NoRun
      BY <1>5 DEF TraceBridge, NoRun
    <2>2. /\ log' = Appended(log, TraceOf(run.result)) /\ UNCHANGED bridge
          /\ \/ run' = NoRun
             \/ /\ AppendAnswer(log, TraceOf(run.result)) \in {"appended", "same"}
                /\ DOMAIN run' = Bridging /\ run'.results = run.results \cup {run.result}
      BY <1>5, <2>1, TraceForm
    <2>3. PICK r : r = run.result
      OBVIOUS
    <2>4. /\ log' \in Seq(ToSet(log')) /\ OneLine'
          /\ \A q : HasLine(q) => HasLine(q)'
          /\ AppendAnswer(log, TraceOf(r)) \in {"appended", "same"} => HasLine(r)'
      BY <2>2, <2>3, LineAppended
    <2>5. QED
      BY <2>1, <2>2, <2>3, <2>4
  <1>6. CASE WriteBridge
    <2>1. UNCHANGED log /\ run # NoRun
      BY <1>6 DEF WriteBridge, NoRun
    <2>2. /\ DOMAIN run' = Bridging /\ run'.results = run.results /\ bridge'.results = run.results
      BY <1>6, <2>1, WriteForm
    <2>3. QED
      BY <1>1, <2>1, <2>2
  <1>7. CASE FinishBridge
    <2>1. /\ UNCHANGED log /\ run # NoRun /\ run' = NoRun
          /\ bridge' = bridge \/ bridge'.results = run.results
      BY <1>7 DEF FinishBridge, NoRun, BridgeReport
    <2>2. QED
      BY <1>1, <2>1
  <1>8. CASE KillBridge
    <2>1. run' = NoRun /\ UNCHANGED bridge
      BY <1>8 DEF KillBridge
    <2>2. CASE UNCHANGED log
      BY <1>1, <2>1, <2>2
    <2>3. CASE ~ UNCHANGED log
      <3>1. /\ AppendAnswer(log, TraceOf(run.result)) = "appended"
            /\ \E line \in {Torn, TraceOf(run.result)} : log' = Append(log, line)
        BY <1>8, <2>3 DEF KillBridge
      <3>2. PICK r : /\ AppendAnswer(log, TraceOf(r)) = "appended"
                     /\ \E line \in {Torn, TraceOf(r)} : log' = Append(log, line)
        BY <3>1
      <3>3. log' \in Seq(ToSet(log')) /\ OneLine' /\ \A q : HasLine(q) => HasLine(q)'
        BY <3>2, LineAdded
      <3>4. QED
        BY <2>1, <3>3
    <2>4. QED
      BY <2>2, <2>3
  <1>9. CASE FreshBridge
    <2>1. UNCHANGED run /\ run = NoRun /\ bridge' = None /\ log' = <<>>
      BY <1>9 DEF FreshBridge
    <2>2. log' \in Seq(ToSet(log')) /\ OneLine'
      BY <2>1 DEF ToSet, OneLine
    <2>3. QED
      BY <2>1, <2>2
  <1>10. QED
    BY <1>2, <1>3, <1>4, <1>5, <1>6, <1>7, <1>8, <1>9
       DEF MigrationNext, migrationVars, Audit, PlanBridge, Prove, Migrate, PromotePilot, RequeueGaps, NewRevision

LEMMA MigrationInvariance == MigrationSpec => [](Proven /\ Lined)
  <1>1. Proven /\ Lined /\ [MigrationNext]_migrationVars => (Proven /\ Lined)'
    BY ProvenHolds, LinedHolds
  <1>2. QED
    BY <1>1, MigrationStarts, PTL DEF MigrationSpec

(* migrate_checkpoint copies no result of an old runner without the proof  *)
(* of the bridge, in whatever order the commands ran.                      *)
THEOREM OnlyProvenResultsMigrate == MigrationSpec => []OnlyProvenMigrates
  <1>1. Proven => OnlyProvenMigrates
    BY Zenon DEF Proven, Sound, OnlyProvenMigrates
  <1>2. QED
    BY <1>1, MigrationInvariance, PTL

(* Every rerun a bridge report claims has exactly one line in the log.     *)
THEOREM BridgesAreTraced == MigrationSpec => []BridgeTraced
  <1>1. Lined => BridgeTraced
    <2>1. SUFFICES ASSUME Lined, bridge # None, NEW r \in bridge.results
                   PROVE  Cardinality({n \in DOMAIN log : log[n] = TraceOf(r)}) = 1
      BY DEF BridgeTraced
    <2>2. PICK n \in DOMAIN log : log[n] = TraceOf(r)
      BY <2>1 DEF Lined, HasLine
    <2>3. TraceOf(r) # Torn
      BY DEF TraceOf, Torn
    <2>4. {m \in DOMAIN log : log[m] = TraceOf(r)} = {n}
      BY <2>1, <2>2, <2>3 DEF Lined, OneLine
    <2>5. QED
      BY <2>4, FS_Singleton
  <1>2. QED
    BY <1>1, MigrationInvariance, PTL

=============================================================================
