-------------------------- MODULE AgentRunnerProofs --------------------------
(***************************************************************************)
(* For any plan, agents, batch size, kills, failures and revisions: what   *)
(* an agent did is not done again, what is reported is traced, and a run   *)
(* that has closed accounts for each of its cells and has decided each of  *)
(* its capabilities.                                                       *)
(*                                                                         *)
(* A frontier holds cells without results only, so a cell is run again     *)
(* only if its result was lost.  Kept says where the result of a capture   *)
(* may be at every step, in the process or in the raw root; Traces that    *)
(* results become reported after their traces; InPlan that nothing comes   *)
(* from outside the plan; Screens that a screening compares an ablation    *)
(* with an active result that passed and is not judged again, so that      *)
(* counting what is to come as nothing cannot overstate an effect.         *)
(*                                                                         *)
(* A closed run is decided because no cell falls between its steps.        *)
(* Recorded says that a result is the fragment of a capture, or of an      *)
(* earlier screen, and one of its cell; Gathered that a run which resumes  *)
(* another has a result of whatever was captured, or is about to; OneLine  *)
(* that a cell has one trace; AblationsEarned that the correction ablates again     *)
(* only after rounds that left the capability undecided, so a capability   *)
(* cannot be settled, skipped and found open again; Owed that a cell whose *)
(* provider failed has been captured since, has a result, or is run next.  *)
(* Run is all of it together, and inductive.                               *)
(***************************************************************************)
EXTENDS AgentRunner, TLAPS, FiniteSetTheorems, WellFoundedInduction

(***************************************************************************)
(* What is run next has no result.                                         *)
(***************************************************************************)

(* A set of numbers has a least: 1..n is a least finite set.               *)
LEMMA Least ==
  ASSUME NEW S, S \subseteq Nat, S # {}
  PROVE  \E n \in S : \A m \in S : n <= m
  <1> DEFINE Initial == {1..m : m \in S}
  <1>1. Initial \subseteq FiniteSubsetsOf(Nat) /\ Initial # {}
    <2>1. \A m \in S : 1..m \in FiniteSubsetsOf(Nat)
      BY FS_Interval DEF FiniteSubsetsOf
    <2>2. QED
      BY <2>1
  <1>2. PICK i \in Initial : \A j \in Initial : ~ (<<j, i>> \in StrictSubsetOrdering(Nat))
    <2> HIDE DEF Initial
    <2>1. QED
      BY <1>1, FS_StrictSubsetOrderingWellFounded, WFMin
  <1>3. PICK n \in S : i = 1..n
    OBVIOUS
  <1>4. ASSUME NEW m \in S, ~ (n <= m) PROVE FALSE
    <2>1. m \in Nat /\ n \in Nat /\ m < n
      BY <1>4
    <2>2. 1..m \subseteq 1..n /\ n \in 1..n /\ n \notin 1..m
      BY <2>1
    <2>3. <<1..m, 1..n>> \in StrictSubsetOrdering(Nat)
      BY <2>1, <2>2 DEF StrictSubsetOrdering
    <2>4. QED
      BY <1>2, <1>3, <2>3
  <1>5. QED
    BY <1>4

LEMMA LeastPair ==
  ASSUME NEW S, S \subseteq Nat \X Nat, S # {}
  PROVE  \E x \in S : \A y \in S : x[1] < y[1] \/ (x[1] = y[1] /\ x[2] <= y[2])
  <1> DEFINE Firsts == {x[1] : x \in S}
  <1>1. PICK n \in Firsts : \A m \in Firsts : n <= m
    <2>1. Firsts \subseteq Nat /\ Firsts # {}
      OBVIOUS
    <2> HIDE DEF Firsts
    <2>2. QED
      BY <2>1, Least
  <1> DEFINE Seconds == {x[2] : x \in {y \in S : y[1] = n}}
  <1>2. PICK k \in Seconds : \A m \in Seconds : k <= m
    <2>1. Seconds \subseteq Nat /\ Seconds # {}
      OBVIOUS
    <2> HIDE DEF Seconds
    <2>2. QED
      BY <2>1, Least
  <1>3. PICK x \in S : x[1] = n /\ x[2] = k
    BY <1>2
  <1>4. ASSUME NEW y \in S PROVE x[1] < y[1] \/ (x[1] = y[1] /\ x[2] <= y[2])
    <2>1. y[1] \in Nat /\ x[1] \in Nat /\ x[1] <= y[1]
      BY <1>1, <1>3
    <2>2. CASE y[1] = n
      BY <1>2, <1>3, <2>2
    <2>3. CASE y[1] # n
      BY <1>3, <2>1, <2>3
    <2>4. QED
      BY <2>2, <2>3
  <1>5. QED
    BY <1>4

(* A set of numbers that has all that precede one of its own is a prefix.  *)
LEMMA Prefix ==
  ASSUME NEW R \in Nat, NEW S, S \subseteq 1..R, \A n \in S : 1..n \subseteq S
  PROVE  \E k \in 0..R : S = 1..k
  <1> DEFINE Out == {n \in Nat : n + 1 \notin S}
  <1>1. PICK k \in Out : \A m \in Out : k <= m
    <2>1. Out \subseteq Nat /\ R \in Out
      OBVIOUS
    <2> HIDE DEF Out
    <2>2. QED
      BY <2>1, Least
  <1>2. k <= R
    BY <1>1
  <1>3. ASSUME NEW n \in 1..k PROVE n \in S
    <2>1. n - 1 \in Nat /\ n - 1 < k /\ (n - 1) + 1 = n
      BY <1>3
    <2>2. QED
      BY <1>1, <2>1
  <1>4. ASSUME NEW n \in S PROVE n \in 1..k
    <2>1. n \in Nat /\ 1 <= n /\ 1..n \subseteq S
      OBVIOUS
    <2>2. k + 1 \notin 1..n
      BY <1>1, <2>1
    <2>3. QED
      BY <1>1, <2>1, <2>2
  <1>5. k \in 0..R
    BY <1>1, <1>2
  <1> HIDE DEF Out
  <1>6. S = 1..k
    BY <1>3, <1>4
  <1>7. QED
    BY <1>5, <1>6

LEMMA ScreeningIsNew ==
  ASSUME NEW results PROVE ScreeningFrontier(results) \subseteq Planned \ CellsIn(results)
  <1>1. \A round : RoundCells(results, round) \subseteq Planned \ CellsIn(results)
    BY DEF RoundCells, Unobtained, CellsAt, CellsOf
  <1>2. AblationFrontier(results) \subseteq Planned \ CellsIn(results)
    BY <1>1 DEF AblationFrontier
  <1>3. ASSUME NEW c \in DepthFrontier(results) PROVE c \in Planned \ CellsIn(results)
    <2> DEFINE cells == {d \in CellsOf("depth") : d.of = c.of /\ d \in CellsIn(results)}
               obtained == {n \in 1..Rounds : \A m \in 1..n : \E d \in cells : d.repetition = m}
    <2>1. /\ c \in CellsOf("depth") /\ Verdict(results, c.of) = "open"
          /\ c.repetition = Len(Observed(results, c.of)) + 1
      BY DEF DepthFrontier
    <2>2. Observed(results, c.of) = [n \in obtained |-> OutcomeIn(results, CHOOSE d \in cells : d.repetition = n)]
      BY DEF Observed
    <2>3. Rounds \in Nat /\ obtained \subseteq 1..Rounds /\ \A n \in obtained : 1..n \subseteq obtained
      BY CausalAssumption
    <2> HIDE DEF obtained
    <2>4. PICK k \in 0..Rounds : obtained = 1..k
      BY <2>3, Prefix
    <2>5. Len(Observed(results, c.of)) = k
      BY <2>2, <2>4
    <2>6. k # Rounds
      BY <2>1, <2>5 DEF Verdict, DepthVerdict
    <2>7. c.repetition = k + 1 /\ k + 1 \in 1..Rounds /\ k + 1 \notin obtained
      BY <2>1, <2>3, <2>4, <2>5, <2>6
    <2>8. c \notin cells
      BY <2>4, <2>7 DEF obtained
    <2>9. QED
      BY <2>1, <2>8 DEF CellsOf
  <1>4. QED
    BY <1>2, <1>3 DEF ScreeningFrontier, Unobtained, CellsOf

LEMMA CorrectionIsNew ==
  ASSUME NEW results PROVE CorrectionFrontier(results) \subseteq Planned \ CellsIn(results)
  <1> DEFINE auto == Unobtained(results, CellsOf("auto"))
             pending == {x \in (1..Rounds) \X (1..3) : CorrectionRound(results, x[1])[x[2]] # {}}
             first == CHOOSE x \in pending : \A y \in pending :
                        x[1] < y[1] \/ (x[1] = y[1] /\ x[2] <= y[2])
  <1>1. auto \subseteq Planned \ CellsIn(results)
    BY DEF Unobtained, CellsOf
  <1>2. \A round, n \in Nat : n \in 1..3
        => CorrectionRound(results, round)[n] \subseteq Planned \ CellsIn(results)
    BY DEF CorrectionRound, Unobtained, CellsAt, CellsOf
  <1>3. pending # {} => first \in pending
    <2>1. pending \subseteq Nat \X Nat
      BY CausalAssumption
    <2> HIDE DEF pending
    <2>2. pending # {} => \E x \in pending : \A y \in pending : x[1] < y[1] \/ (x[1] = y[1] /\ x[2] <= y[2])
      BY <2>1, LeastPair
    <2>3. QED
      BY <2>2, Zenon
  <1>4. CorrectionFrontier(results) =
          IF auto # {} THEN {CHOOSE c \in auto : TRUE}
          ELSE IF pending = {} THEN {}
          ELSE {CHOOSE c \in CorrectionRound(results, first[1])[first[2]] : TRUE}
    BY Zenon DEF CorrectionFrontier
  <1>5. auto # {} => (CHOOSE c \in auto : TRUE) \in auto
    OBVIOUS
  <1>6. pending # {} =>
          /\ CorrectionRound(results, first[1])[first[2]] \subseteq Planned \ CellsIn(results)
          /\ (CHOOSE c \in CorrectionRound(results, first[1])[first[2]] : TRUE)
               \in CorrectionRound(results, first[1])[first[2]]
    <2> HIDE DEF first
    <2>1. QED
      BY <1>2, <1>3, CausalAssumption
  <1> HIDE DEF auto, pending, first
  <1>7. QED
    BY <1>1, <1>4, <1>5, <1>6

LEMMA FrontierIsNew ==
  ASSUME scenario \in Scenarios, NEW results
  PROVE  Frontier(results) \subseteq Planned \ CellsIn(results)
  <1>1. scenario.runner # "screening" => ConfirmationFrontier(results) \subseteq Planned \ CellsIn(results)
    BY DEF ConfirmationFrontier, Planned, ToSet
  <1>2. QED
    BY <1>1, ScreeningIsNew, CorrectionIsNew, RunnerAssumption DEF Frontier

(***************************************************************************)
(* The invariant: what the process is at, what has become of every capture *)
(* that followed the plan, and which results are traced.                   *)
(***************************************************************************)
Fields ==
  CASE job.step = "idle" -> {"step"}
    [] job.step = "recover" -> {"step", "results", "reclassify", "added", "attempts", "recover"}
    [] job.step = "trace" -> {"step", "results", "then", "gap", "attempts", "trace"}
    [] job.step = "batch" -> {"step", "results", "queue", "cells", "finalizing", "done", "raised",
                              "gap", "attempts"}

Shaped ==
  /\ scenario \in Scenarios
  /\ job.step \in {"idle", "recover", "trace", "batch"}
  /\ job = [f \in Fields |-> job[f]]
  /\ job.step = "trace" => job.gap \in BOOLEAN
  /\ job.step = "batch" => job.gap \in BOOLEAN /\ job.raised \in BOOLEAN
  /\ job.step = "recover" => job.reclassify \in BOOLEAN

Followed == {c \in captures : c.compliant /\ c.cell \in Planned}

KeptInRecovery ==
  job.step = "recover" =>
    /\ job.recover \subseteq captures
    /\ \A c \in Followed : c \in job.recover \/ c.cell \in CellsIn(job.results)

KeptInTrace ==
  job.step = "trace" => \A c \in Followed : c.cell \in CellsIn(job.results)

KeptInBatch ==
  job.step = "batch" =>
    /\ job.queue \subseteq Planned
    /\ \A c \in Followed :
         /\ c.cell \notin job.queue
         /\ job.raised \/ c.cell \in CellsIn(job.results) \cup CellsIn(job.finalizing) \cup CellsIn(job.done)

(* A cell has one capture.                                                 *)
OneCapture == \A c, d \in captures : c.cell = d.cell => c = d

Kept == OneCapture /\ KeptInRecovery /\ KeptInTrace /\ KeptInBatch

Traced(r) == \E n \in DOMAIN log : log[n].cell = r.cell /\ log[n].outcome = r.outcome

LogIsWhole == log \in Seq(ToSet(log)) /\ Readable(log)

Traces ==
  /\ LogIsWhole
  /\ scenario.runner # "screening" =>
       /\ job.step = "trace" => \A r \in job.results : r \in job.trace \/ Traced(r)
       /\ job.step = "batch" => \A r \in job.results : Traced(r)
       /\ report # NoReport => \A r \in report.results : Traced(r)

IInv == Shaped /\ Kept /\ Traces

LEMMA InitHolds == Init => IInv
  <1> SUFFICES ASSUME Init PROVE IInv
    OBVIOUS
  <1> USE DEF Init
  <1>1. Shaped
    BY DEF Shaped, Fields, Idle
  <1>2. Kept
    BY DEF Kept, OneCapture, KeptInRecovery, KeptInTrace, KeptInBatch, Followed, Idle
  <1>3. log \in Seq(ToSet(log)) /\ Readable(log)
    BY DEF Readable, ToSet
  <1>4. Traces
    BY <1>3 DEF Traces, LogIsWhole, Idle, NoReport
  <1>5. QED
    BY <1>1, <1>2, <1>4 DEF IInv

(* What is a finding of the log stays one.                                 *)
LEMMA AppendKeeps ==
  ASSUME LogIsWhole, NEW r, log' = Appended(log, TraceOf(r))
  PROVE  /\ LogIsWhole'
         /\ \A q : Traced(q) => Traced(q)'
         /\ AppendAnswer(log, TraceOf(r)) # "conflict" => Traced(r)'
  <1> DEFINE t == TraceOf(r)
  <1>1. CASE AppendAnswer(log, t) = "appended"
    <2>1. log' = Append(log, t)
      BY <1>1 DEF Appended
    <2> DEFINE S == ToSet(log) \cup {t}
    <2>2. t # Torn
      BY DEF TraceOf, Torn
    <2>3. log \in Seq(S) /\ t \in S
      BY DEF LogIsWhole
    <2>4. /\ DOMAIN log = 1..Len(log) /\ Len(log) \in Nat
          /\ DOMAIN log' = 1..(Len(log) + 1) /\ log'[Len(log) + 1] = t
          /\ \A n \in 1..Len(log) : log'[n] = log[n]
      BY <2>1, <2>3
    <2>5. log' \in Seq(S) /\ ToSet(log') = S
      <3>1. log' \in Seq(S)
        BY <2>1, <2>3
      <3>2. ToSet(log') = S
        BY <2>4 DEF ToSet
      <3>3. QED
        BY <3>1, <3>2
    <2>6. LogIsWhole'
      BY <2>2, <2>5 DEF LogIsWhole, Readable
    <2>7. \A q : Traced(q) => Traced(q)'
      BY <2>4 DEF Traced
    <2>8. Traced(r)'
      BY <2>4 DEF Traced, TraceOf
    <2>9. QED
      BY <2>6, <2>7, <2>8
  <1>2. CASE AppendAnswer(log, t) # "appended"
    <2>1. log' = log
      BY <1>2 DEF Appended
    <2>2. LogIsWhole' /\ \A q : Traced(q) => Traced(q)'
      BY <2>1 DEF LogIsWhole, Readable, Traced
    <2>3. AppendAnswer(log, t) # "conflict" => Traced(r)
      BY <1>2 DEF AppendAnswer, LogIsWhole, Traced, TraceOf, ToSet
    <2>4. QED
      BY <2>1, <2>2, <2>3
  <1>3. QED
    BY <1>1, <1>2

(* The plan is the scenario's.                                             *)
LEMMA SamePlan ==
  ASSUME [Next]_vars
  PROVE  scenario' = scenario /\ Planned' = Planned
  <1>1. scenario' = scenario
    BY Zenon DEF Next, vars, Start, Recover, Recovered, AppendTrace, Checkpoint, Reuse, StartBatch, RunAgent,
           ProviderFails, Finalize, FinalizeRaises, EndBatch, Close, Kill, Commit
  <1>2. QED
    BY <1>1 DEF Planned, PlanSkip

(***************************************************************************)
(* The process keeps its shape.                                            *)
(***************************************************************************)
LEMMA ShapeHolds ==
  ASSUME Shaped, [Next]_vars
  PROVE  Shaped'
  <1>1. scenario' \in Scenarios
    BY SamePlan DEF Shaped
  <1>2. CASE job' = Idle
    BY <1>1, <1>2 DEF Shaped, Fields, Idle
  <1>3. ASSUME NEW reclassify \in BOOLEAN, Start(reclassify) PROVE Shaped'
    BY <1>1, <1>3 DEF Start, Shaped, Fields
  <1>4. CASE Recover
    <2>1. job.step = "recover" /\ DOMAIN job = Fields
      BY <1>4 DEF Recover, Shaped
    <2>2. PICK q, a, r : job' = [job EXCEPT !.recover = q, !.added = a, !.results = r]
      BY <1>4 DEF Recover
    <2>3. QED
      BY <1>1, <2>1, <2>2 DEF Shaped, Fields
  <1>5. CASE Recovered
    BY <1>1, <1>2, <1>5 DEF Recovered, Shaped, Fields
  <1>6. CASE AppendTrace
    <2>1. job.step = "trace" /\ DOMAIN job = Fields
      BY <1>6 DEF AppendTrace, Shaped
    <2>2. job' = Idle \/ \E q : job' = [job EXCEPT !.trace = q]
      BY <1>6 DEF AppendTrace
    <2>3. QED
      BY <1>1, <1>2, <2>1, <2>2 DEF Shaped, Fields
  <1>7. CASE Checkpoint
    BY <1>1, <1>2, <1>7 DEF Checkpoint, Shaped, Fields
  <1>8. CASE Reuse
    <2>1. job.step = "trace" /\ DOMAIN job = Fields
      BY <1>8 DEF Reuse, AtFrontier, Shaped
    <2>2. \E q, r : job' = [job EXCEPT !.results = r, !.trace = q]
      BY <1>8 DEF Reuse
    <2>3. QED
      BY <1>1, <2>1, <2>2 DEF Shaped, Fields
  <1>9. CASE StartBatch
    BY <1>1, <1>9 DEF StartBatch, Shaped, Fields
  <1>10. CASE RunAgent
    <2>1. job.step = "batch" /\ DOMAIN job = Fields
      BY <1>10 DEF RunAgent, Shaped
    <2>2. \E q, r : job' = [job EXCEPT !.queue = q, !.finalizing = r]
      BY <1>10 DEF RunAgent
    <2>3. QED
      BY <1>1, <2>1, <2>2 DEF Shaped, Fields
  <1>11. CASE ProviderFails
    BY <1>1, <1>11 DEF ProviderFails, Shaped, Fields
  <1>12. ASSUME NEW capture, Finalize(capture) PROVE Shaped'
    BY <1>1, <1>12 DEF Finalize, Shaped, Fields
  <1>13. ASSUME NEW capture, FinalizeRaises(capture) PROVE Shaped'
    BY <1>1, <1>13 DEF FinalizeRaises, Shaped, Fields
  <1>14. CASE EndBatch
    BY <1>1, <1>2, <1>14 DEF EndBatch, Shaped, Fields
  <1>15. CASE Close \/ Kill
    BY <1>2, <1>15 DEF Close, Kill
  <1>16. CASE Commit \/ UNCHANGED vars
    BY <1>1, <1>16 DEF Commit, vars, Shaped, Fields
  <1>17. QED
    BY <1>3, <1>4, <1>5, <1>6, <1>7, <1>8, <1>9, <1>10, <1>11, <1>12, <1>13, <1>14, <1>15, <1>16 DEF Next

(***************************************************************************)
(* What the steps that change part of the process leave in it.             *)
(***************************************************************************)
LEMMA ReplacedCells ==
  ASSUME NEW results, NEW new
  PROVE  CellsIn(Replaced(results, new)) = CellsIn(results) \cup CellsIn(new)
  BY DEF CellsIn, Replaced

LEMMA RecoverForm ==
  ASSUME Shaped, Recover
  PROVE  \E capture, kept :
           /\ capture \in job.recover
           /\ job.step = "recover" /\ job'.step = "recover"
           /\ job'.recover = job.recover \ {capture}
           /\ job'.results = {r \in job.results : r.cell # capture.cell} \cup kept
           /\ kept \subseteq {Finalized(capture)}
           /\ capture.compliant \/ ~job.reclassify => kept = {Finalized(capture)}
           /\ job'.reclassify = job.reclassify
           /\ fragments' = Replaced(fragments, {Finalized(capture)})
           /\ UNCHANGED <<captures, log, report>>
  <1>1. /\ job.step = "recover" /\ job.recover # {} /\ DOMAIN job = Fields /\ job.reclassify \in BOOLEAN
        /\ UNCHANGED <<captures, log, report>>
    BY DEF Recover, Shaped
  <1> DEFINE capture == CHOOSE c \in job.recover : TRUE
             kept == IF job.reclassify /\ ~Finalized(capture).compliant THEN {} ELSE {Finalized(capture)}
  <1>2. capture \in job.recover
    BY <1>1
  <1>3. /\ job' = [job EXCEPT !.recover = @ \ {capture}, !.added = @ \cup kept,
                     !.results = {r \in @ : r.cell # capture.cell} \cup kept]
        /\ fragments' = Replaced(fragments, {Finalized(capture)})
    BY Zenon DEF Recover
  <1>4. Finalized(capture).compliant = capture.compliant
    BY DEF Finalized
  <1>5. /\ kept \subseteq {Finalized(capture)}
        /\ capture.compliant \/ ~job.reclassify => kept = {Finalized(capture)}
    BY <1>4
  <1> HIDE DEF capture, kept
  <1>6. /\ job'.recover = job.recover \ {capture} /\ job'.step = "recover"
        /\ job'.results = {r \in job.results : r.cell # capture.cell} \cup kept
        /\ job'.reclassify = job.reclassify
    BY <1>1, <1>3 DEF Fields
  <1>7. QED
    BY <1>1, <1>2, <1>3, <1>5, <1>6

LEMMA RunForm ==
  ASSUME Shaped, RunAgent
  PROVE  \E cell, capture :
           /\ cell \in job.queue
           /\ job.step = "batch" /\ job'.step = "batch" /\ capture.cell = cell
           /\ job'.queue = job.queue \ {cell} /\ job'.finalizing = job.finalizing \cup {capture}
           /\ job'.results = job.results /\ job'.done = job.done /\ job'.raised = job.raised
           /\ captures' = Replaced(captures, {capture})
           /\ UNCHANGED <<log, report>>
  <1>1. /\ job.step = "batch" /\ job.queue # {} /\ DOMAIN job = Fields
        /\ UNCHANGED <<log, report>>
    BY DEF RunAgent, Shaped
  <1> DEFINE cell == CHOOSE c \in job.queue : TRUE
  <1>2. cell \in job.queue
    BY <1>1
  <1>3. PICK b \in scenario.behaviours[cell.policy] :
          LET capture == [cell |-> cell, outcome |-> b.outcome, compliant |-> b.compliant,
                          used |-> b.used, head |-> head]
          IN /\ captures' = Replaced(captures, {capture})
             /\ work' = work \cup {cell}
             /\ job' = [job EXCEPT !.queue = @ \ {cell}, !.finalizing = @ \cup {capture}]
    BY Zenon DEF RunAgent
  <1> DEFINE capture == [cell |-> cell, outcome |-> b.outcome, compliant |-> b.compliant,
                         used |-> b.used, head |-> head]
  <1>4. /\ captures' = Replaced(captures, {capture})
        /\ job' = [job EXCEPT !.queue = @ \ {cell}, !.finalizing = @ \cup {capture}]
        /\ capture.cell = cell
    BY <1>3
  <1> HIDE DEF cell, capture
  <1>5. /\ job'.queue = job.queue \ {cell} /\ job'.finalizing = job.finalizing \cup {capture}
        /\ job'.results = job.results /\ job'.done = job.done /\ job'.raised = job.raised
        /\ job'.step = "batch"
    BY <1>1, <1>4 DEF Fields
  <1>6. QED
    BY <1>1, <1>2, <1>4, <1>5

(***************************************************************************)
(* What agents did is kept.                                                *)
(***************************************************************************)
LEMMA KeptHolds ==
  ASSUME Shaped, Kept, [Next]_vars
  PROVE  Kept'
  <1> USE SamePlan DEF Kept, OneCapture, KeptInRecovery, KeptInTrace, KeptInBatch, Followed
  <1>1. ASSUME job'.step = "idle", captures' = captures PROVE Kept'
    BY <1>1
  <1>2. ASSUME NEW reclassify \in BOOLEAN, Start(reclassify) PROVE Kept'
    <2>1. captures' = captures /\ job'.step = "recover" /\ job'.results = Restored
      BY <1>2 DEF Start
    <2>2. job'.recover = IF reclassify THEN {c \in captures : c.cell \in Planned} ELSE Recoverable(Restored)
      BY <1>2 DEF Start
    <2>3. QED
      BY <2>1, <2>2 DEF Recoverable
  <1>3. CASE Recover
    <2>1. PICK capture, kept :
            /\ capture \in job.recover
            /\ job.step = "recover" /\ job'.step = "recover"
            /\ job'.recover = job.recover \ {capture}
            /\ job'.results = {r \in job.results : r.cell # capture.cell} \cup kept
            /\ capture.compliant \/ ~job.reclassify => kept = {Finalized(capture)}
            /\ UNCHANGED <<captures, log, report>>
      BY <1>3, RecoverForm
    <2>2. Finalized(capture).cell = capture.cell
      BY DEF Finalized
    <2>3. ASSUME NEW c \in Followed' PROVE c \in job'.recover \/ c.cell \in CellsIn(job'.results)
      <3>1. c \in Followed /\ capture \in captures
        BY <2>1
      <3>2. CASE c = capture
        <4>1. Finalized(capture) \in job'.results
          BY <2>1, <3>1, <3>2
        <4>2. QED
          BY <2>2, <3>2, <4>1 DEF CellsIn
      <3>3. CASE c # capture
        <4>1. c.cell # capture.cell
          BY <3>1, <3>3
        <4>2. QED
          BY <2>1, <3>1, <4>1 DEF CellsIn
      <3>4. QED
        BY <3>2, <3>3
    <2>4. QED
      BY <2>1, <2>3
  <1>4. CASE Recovered
    <2>1. captures' = captures /\ job.step = "recover" /\ job.recover = {}
      BY <1>4 DEF Recovered
    <2>2. job' = Idle \/ (job'.step = "trace" /\ job'.results = job.results)
      BY <1>4 DEF Recovered
    <2>3. QED
      BY <1>1, <2>1, <2>2 DEF Idle
  <1>5. CASE AppendTrace
    <2>1. captures' = captures /\ job.step = "trace" /\ DOMAIN job = Fields
      BY <1>5 DEF AppendTrace, Shaped
    <2>2. job' = Idle \/ (job'.step = "trace" /\ job'.results = job.results)
      BY <1>5, <2>1 DEF AppendTrace, Fields
    <2>3. QED
      BY <1>1, <2>1, <2>2 DEF Idle
  <1>6. CASE Checkpoint
    <2>1. captures' = captures /\ job.step = "trace" /\ DOMAIN job = Fields
      BY <1>6 DEF Checkpoint, Shaped
    <2>2. job' = Idle \/ (job'.step = "trace" /\ job'.results = job.results)
      BY <1>6, <2>1 DEF Checkpoint, Fields
    <2>3. QED
      BY <1>1, <2>1, <2>2 DEF Idle
  <1>7. CASE Reuse
    <2>1. captures' = captures /\ job.step = "trace" /\ DOMAIN job = Fields
      BY <1>7 DEF Reuse, AtFrontier, Shaped
    <2>2. PICK new : job' = [job EXCEPT !.results = @ \cup new, !.trace = new]
      BY <1>7 DEF Reuse
    <2>3. job'.step = "trace" /\ job'.results = job.results \cup new
      BY <2>1, <2>2 DEF Fields
    <2>4. QED
      BY <2>1, <2>3 DEF CellsIn
  <1>8. CASE StartBatch
    <2>1. captures' = captures /\ job.step = "trace"
      BY <1>8 DEF StartBatch, AtFrontier
    <2>2. job'.step = "batch" /\ job'.results = job.results /\ job'.queue = Frontier(job.results)
      BY <1>8 DEF StartBatch
    <2>3. job'.queue \subseteq Planned \ CellsIn(job.results)
      BY <2>2, FrontierIsNew DEF Shaped
    <2>4. QED
      BY <2>1, <2>2, <2>3
  <1>9. CASE RunAgent
    <2>1. PICK cell, capture :
            /\ cell \in job.queue
            /\ job.step = "batch" /\ job'.step = "batch" /\ capture.cell = cell
            /\ job'.queue = job.queue \ {cell} /\ job'.finalizing = job.finalizing \cup {capture}
            /\ job'.results = job.results /\ job'.done = job.done /\ job'.raised = job.raised
            /\ captures' = Replaced(captures, {capture})
            /\ UNCHANGED <<log, report>>
      BY <1>9, RunForm
    <2>2. captures' = {c \in captures : c.cell # cell} \cup {capture}
      BY <2>1 DEF Replaced, CellsIn
    <2>3. cell \in CellsIn(job'.finalizing) /\ CellsIn(job.finalizing) \subseteq CellsIn(job'.finalizing)
      BY <2>1 DEF CellsIn
    <2>4. QED
      BY <2>1, <2>2, <2>3
  <1>10. CASE ProviderFails
    <2>1. captures' = captures /\ job.step = "batch" /\ DOMAIN job = Fields
      BY <1>10 DEF ProviderFails, Shaped
    <2>2. /\ job'.step = "batch" /\ job'.results = job.results /\ job'.queue = {}
          /\ job'.finalizing = job.finalizing /\ job'.done = job.done /\ job'.raised = job.raised
      BY <1>10, <2>1 DEF ProviderFails, Fields
    <2>3. QED
      BY <2>1, <2>2
  <1>11. ASSUME NEW capture \in captures, Finalize(capture) PROVE Kept'
    <2>1. captures' = captures /\ job.step = "batch" /\ DOMAIN job = Fields
      BY <1>11 DEF Finalize, Shaped
    <2>2. /\ job'.step = "batch" /\ job'.results = job.results /\ job'.queue = job.queue
          /\ job'.finalizing = job.finalizing \ {capture} /\ job'.done = job.done \cup {Finalized(capture)}
          /\ job'.raised = job.raised
      BY <1>11, <2>1 DEF Finalize, Fields
    <2>3. Finalized(capture).cell = capture.cell
      BY DEF Finalized
    <2>4. CellsIn(job.finalizing) \cup CellsIn(job.done) \subseteq CellsIn(job'.finalizing) \cup CellsIn(job'.done)
      BY <2>2, <2>3 DEF CellsIn
    <2>5. QED
      BY <2>1, <2>2, <2>4
  <1>12. ASSUME NEW capture \in captures, FinalizeRaises(capture) PROVE Kept'
    <2>1. captures' = captures /\ job.step = "batch" /\ DOMAIN job = Fields
      BY <1>12 DEF FinalizeRaises, Shaped
    <2>2. job'.step = "batch" /\ job'.queue = job.queue /\ job'.raised
      BY <1>12, <2>1 DEF FinalizeRaises, Fields
    <2>3. QED
      BY <2>1, <2>2
  <1>13. CASE EndBatch
    <2>1. captures' = captures /\ job.step = "batch" /\ job.finalizing = {}
      BY <1>13 DEF EndBatch
    <2>2. \/ job' = Idle
          \/ ~job.raised /\ job'.step = "trace" /\ job'.results = Replaced(job.results, job.done)
      BY <1>13 DEF EndBatch
    <2>3. CellsIn(job.finalizing) = {}
      BY <2>1 DEF CellsIn
    <2>4. QED
      BY <1>1, <2>1, <2>2, <2>3, ReplacedCells DEF Idle
  <1>14. CASE Close \/ Kill
    <2>1. captures' = captures /\ job' = Idle
      BY <1>14 DEF Close, Kill
    <2>2. QED
      BY <1>1, <2>1 DEF Idle
  <1>15. CASE Commit \/ UNCHANGED vars
    BY <1>15 DEF Commit, vars, Idle
  <1>16. QED
    BY <1>2, <1>3, <1>4, <1>5, <1>6, <1>7, <1>8, <1>9, <1>10, <1>11, <1>12, <1>13, <1>14, <1>15 DEF Next

(***************************************************************************)
(* What is reported is traced.                                             *)
(***************************************************************************)
LEMMA TracesHold ==
  ASSUME Shaped, Traces, [Next]_vars
  PROVE  Traces'
  <1>1. scenario' = scenario
    BY SamePlan
  <1>2. ASSUME UNCHANGED log PROVE LogIsWhole' /\ \A r : Traced(r) => Traced(r)'
    BY <1>2 DEF Traces, LogIsWhole, Readable, Traced
  <1>3. ASSUME UNCHANGED <<log, report>>, job'.step \in {"idle", "recover"} PROVE Traces'
    BY <1>1, <1>2, <1>3 DEF Traces
  <1>4. ASSUME NEW reclassify \in BOOLEAN, Start(reclassify) PROVE Traces'
    BY <1>3, <1>4 DEF Start
  <1>5. CASE Recover
    BY <1>3, <1>5, RecoverForm
  <1>6. CASE Recovered
    <2>1. UNCHANGED <<log, report>>
      BY <1>6 DEF Recovered
    <2>2. CASE scenario.runner # "screening"
      <3>1. /\ job'.step = "trace" /\ job'.results = job.results
            /\ job'.trace = Untraced(job.results)
        BY <1>6, <2>2 DEF Recovered, ToTrace
      <3>2. ASSUME NEW r \in job.results, r \notin job'.trace PROVE Traced(r)
        BY <3>1, <3>2 DEF Untraced, Traced
      <3>3. QED
        BY <1>1, <1>2, <2>1, <2>2, <3>1, <3>2 DEF Traces
    <2>3. CASE scenario.runner = "screening"
      BY <1>1, <1>2, <2>1, <2>3 DEF Traces
    <2>4. QED
      BY <2>2, <2>3
  <1>7. CASE AppendTrace
    <2>1. /\ job.step = "trace" /\ DOMAIN job = Fields /\ job.trace # {} /\ UNCHANGED report
      BY <1>7 DEF AppendTrace, Shaped
    <2>2. PICK r : /\ log' = Appended(log, TraceOf(r))
                   /\ job' = IF AppendAnswer(log, TraceOf(r)) = "conflict" THEN Idle
                             ELSE [job EXCEPT !.trace = @ \ {r}]
      BY <1>7, Zenon DEF AppendTrace
    <2>3. /\ LogIsWhole' /\ \A q : Traced(q) => Traced(q)'
          /\ AppendAnswer(log, TraceOf(r)) # "conflict" => Traced(r)'
      <3>1. LogIsWhole
        BY DEF Traces
      <3>2. QED
        BY <2>2, <3>1, AppendKeeps
    <2>4. CASE job' = Idle
      BY <1>1, <2>1, <2>3, <2>4 DEF Traces, Idle
    <2>5. CASE job' # Idle
      <3>1. /\ job'.step = "trace" /\ job'.results = job.results /\ job'.trace = job.trace \ {r}
            /\ Traced(r)'
        BY <2>1, <2>2, <2>3, <2>5 DEF Fields
      <3>2. ASSUME scenario.runner # "screening", NEW q \in job'.results
            PROVE  q \in job'.trace \/ Traced(q)'
        <4>1. q \in job.trace \/ Traced(q)
          BY <2>1, <3>1, <3>2 DEF Traces
        <4>2. QED
          BY <2>3, <3>1, <4>1
      <3>3. ASSUME scenario.runner # "screening", report' # NoReport, NEW q \in report'.results
            PROVE  Traced(q)'
        BY <2>1, <2>3, <3>3 DEF Traces, NoReport
      <3>4. QED
        BY <1>1, <2>3, <3>1, <3>2, <3>3 DEF Traces, NoReport
    <2>6. QED
      BY <2>4, <2>5
  <1>8. CASE Checkpoint
    <2>1. /\ job.step = "trace" /\ DOMAIN job = Fields /\ job.trace = {} /\ UNCHANGED log
      BY <1>8 DEF Checkpoint, Shaped
    <2>2. \/ job' = Idle
          \/ job'.step = "trace" /\ job'.results = job.results /\ job'.trace = {}
      BY <1>8, <2>1 DEF Checkpoint, Fields
    <2>3. report' = report \/ report'.results = job.results
      BY <1>8 DEF Checkpoint, ReportOf
    <2>4. QED
      BY <1>1, <1>2, <2>1, <2>2, <2>3 DEF Traces, Idle
  <1>9. CASE Reuse
    <2>1. /\ job.step = "trace" /\ DOMAIN job = Fields /\ job.trace = {} /\ UNCHANGED <<log, report>>
      BY <1>9 DEF Reuse, AtFrontier, Shaped
    <2>2. PICK new : job' = [job EXCEPT !.results = @ \cup new, !.trace = new]
      BY <1>9 DEF Reuse
    <2>3. job'.step = "trace" /\ job'.results = job.results \cup new /\ job'.trace = new
      BY <2>1, <2>2 DEF Fields
    <2>4. QED
      BY <1>1, <1>2, <2>1, <2>3 DEF Traces
  <1>10. CASE StartBatch
    <2>1. job.step = "trace" /\ job.trace = {} /\ UNCHANGED <<log, report>>
      BY <1>10 DEF StartBatch, AtFrontier
    <2>2. job'.step = "batch" /\ job'.results = job.results
      BY <1>10 DEF StartBatch
    <2>3. QED
      BY <1>1, <1>2, <2>1, <2>2 DEF Traces
  <1>11. ASSUME UNCHANGED <<log, report>>, job.step = "batch", job'.step = "batch",
                job'.results = job.results
         PROVE  Traces'
    BY <1>1, <1>2, <1>11 DEF Traces
  <1>12. CASE RunAgent
    BY <1>11, <1>12, RunForm
  <1>13. CASE ProviderFails
    BY <1>11, <1>13 DEF ProviderFails, Shaped, Fields
  <1>14. ASSUME NEW capture, Finalize(capture) PROVE Traces'
    BY <1>11, <1>14 DEF Finalize, Shaped, Fields
  <1>15. ASSUME NEW capture, FinalizeRaises(capture) PROVE Traces'
    BY <1>11, <1>15 DEF FinalizeRaises, Shaped, Fields
  <1>16. CASE EndBatch
    <2>1. job.step = "batch" /\ UNCHANGED <<log, report>>
      BY <1>16 DEF EndBatch
    <2>2. \/ job' = Idle
          \/ /\ job'.step = "trace" /\ job'.results = Replaced(job.results, job.done)
             /\ job'.trace = job.done
      BY <1>16 DEF EndBatch
    <2>3. QED
      BY <1>1, <1>2, <1>3, <2>1, <2>2 DEF Traces, Idle, Replaced
  <1>17. CASE Close
    <2>1. job.step = "trace" /\ job.trace = {} /\ UNCHANGED log /\ job' = Idle
      BY <1>17 DEF Close, AtFrontier
    <2>2. report'.results = job.results
      BY <1>17 DEF Close, ReportOf
    <2>3. QED
      BY <1>1, <1>2, <2>1, <2>2 DEF Traces, Idle
  <1>18. CASE Kill
    BY <1>3, <1>18 DEF Kill, Idle
  <1>19. CASE Commit
    BY <1>1, <1>2, <1>19 DEF Commit, Traces, Idle, NoReport
  <1>20. CASE UNCHANGED vars
    BY <1>2, <1>20 DEF vars, Traces, NoReport
  <1>21. QED
    BY <1>4, <1>5, <1>6, <1>7, <1>8, <1>9, <1>10, <1>12, <1>13, <1>14, <1>15, <1>16, <1>17, <1>18, <1>19,
       <1>20 DEF Next

THEOREM Invariance == Spec => []IInv
  <1>1. IInv /\ [Next]_vars => IInv'
    BY ShapeHolds, KeptHolds, TracesHold DEF IInv
  <1>2. QED
    BY <1>1, InitHolds, PTL DEF Spec

(***************************************************************************)
(* Results are of the plan, and what a closed run has not run it may skip. *)
(***************************************************************************)
InPlan ==
  /\ report # NoReport => CellsIn(report.results) \subseteq Planned
  /\ job.step \in {"recover", "trace", "batch"} => CellsIn(job.results) \subseteq Planned
  /\ job.step = "recover" => CellsIn(job.recover) \subseteq Planned
  /\ job.step = "batch" => job.queue \cup CellsIn(job.finalizing) \cup CellsIn(job.done) \subseteq Planned

LEMMA ConfirmedWhole ==
  ASSUME scenario \in Scenarios, NEW results, ConfirmationFrontier(results) = {}
  PROVE  ToSet(scenario.schedule) \subseteq CellsIn(results)
  <1> DEFINE plan == scenario.schedule
             pending == {n \in DOMAIN plan : plan[n] \notin CellsIn(results)}
  <1>1. DOMAIN plan \subseteq Nat /\ ToSet(plan) = {plan[n] : n \in DOMAIN plan}
    <2>1. plan \in Seq(ToSet(plan))
      BY RunnerAssumption
    <2>2. QED
      BY <2>1 DEF ToSet
  <1>2. CASE pending # {}
    <2>1. PICK m \in pending : \A k \in pending : m <= k
      <3>1. pending \subseteq Nat
        BY <1>1
      <3> HIDE DEF pending
      <3>2. QED
        BY <1>2, <3>1, Least
    <2>2. {k \in pending : k <= m} = {m}
      BY <1>1, <2>1
    <2>3. Cardinality({k \in pending : k <= m}) <= BatchSize
      <3>1. Cardinality({m}) = 1
        BY FS_Singleton
      <3>2. BatchSize \in Nat /\ 1 <= BatchSize
        BY RunnerAssumption
      <3> HIDE DEF pending
      <3>3. QED
        BY <2>2, <3>1, <3>2
    <2>4. plan[m] \in ConfirmationFrontier(results)
      BY <2>1, <2>3 DEF ConfirmationFrontier
    <2>5. QED
      BY <2>4
  <1>3. CASE pending = {}
    BY <1>1, <1>3
  <1>4. QED
    BY <1>2, <1>3

LEMMA CorrectedRounds ==
  ASSUME NEW results, CorrectionFrontier(results) = {}
  PROVE  /\ CellsOf("auto") \subseteq CellsIn(results)
         /\ \A round \in 1..Rounds, n \in 1..3 : CorrectionRound(results, round)[n] = {}
  <1> DEFINE auto == Unobtained(results, CellsOf("auto"))
             pending == {x \in (1..Rounds) \X (1..3) : CorrectionRound(results, x[1])[x[2]] # {}}
             first == CHOOSE x \in pending : \A y \in pending :
                        x[1] < y[1] \/ (x[1] = y[1] /\ x[2] <= y[2])
  <1>1. CorrectionFrontier(results) =
          IF auto # {} THEN {CHOOSE c \in auto : TRUE}
          ELSE IF pending = {} THEN {}
          ELSE {CHOOSE c \in CorrectionRound(results, first[1])[first[2]] : TRUE}
    BY Zenon DEF CorrectionFrontier
  <1> HIDE DEF pending, first
  <1>2. auto = {} /\ pending = {}
    BY <1>1
  <1>3. ASSUME NEW round \in 1..Rounds, NEW n \in 1..3 PROVE CorrectionRound(results, round)[n] = {}
    <2>1. <<round, n>> \notin pending
      BY <1>2
    <2>2. QED
      BY <2>1 DEF pending
  <1>4. QED
    BY <1>2, <1>3 DEF Unobtained

LEMMA CorrectedWhole ==
  ASSUME scenario \in Scenarios, scenario.runner = "correction",
         NEW results, CorrectionFrontier(results) = {}
  PROVE  Planned \subseteq CellsIn(results) \cup CorrectionSkips(results)
  <1> DEFINE ablations == CellsOf("ablation")
  <1>1. /\ \A c \in Planned : c.policy \in {"auto", "forced", "off", "ablation"} /\ c.repetition \in 1..Rounds
        /\ CellsOf("forced") = {ForcedFor(c) : c \in ablations}
        /\ \A c \in ablations, r \in 1..Rounds : [c EXCEPT !.repetition = r] \in ablations
    BY RunnerAssumption DEF CorrectionPlan, Planned, CellsOf
  <1>2. CellsOf("auto") \subseteq CellsIn(results)
    BY CorrectedRounds
  <1>3. ASSUME NEW c \in Planned, c.policy = "off" PROVE c \in CellsIn(results)
    <2>1. c \in CellsAt("off", c.repetition) /\ c.repetition \in 1..Rounds
      BY <1>1, <1>3 DEF CellsAt, CellsOf
    <2>2. CorrectionRound(results, c.repetition)[2] = {}
      BY <2>1, CorrectedRounds
    <2>3. QED
      BY <2>1, <2>2 DEF CorrectionRound, Unobtained
  <1>4. ASSUME NEW c \in ablations, c.repetition = 1 \/ c.of \in AtBoundary(results)
        PROVE  /\ c \in CellsIn(results)
               /\ ForcedFor(c) \in CellsIn(results)
    <2> DEFINE n == c.repetition
               capabilities == IF n = 1 THEN Capabilities ELSE AtBoundary(results)
               off == {d \in CellsAt("ablation", n) : d.of \in capabilities}
               on == CellsAt("forced", n) \cap {Partner(d) : d \in off}
    <2>1. n \in 1..Rounds /\ c \in off
      BY <1>1, <1>4 DEF CellsAt, CellsOf, Capabilities
    <2>2. CorrectionRound(results, n)[1] = {} /\ CorrectionRound(results, n)[3] = {}
      BY <2>1, CorrectedRounds
    <2>3. Unobtained(results, on) = {} /\ Unobtained(results, off) = {}
      BY <2>2 DEF CorrectionRound
    <2>4. ForcedFor(c) = Partner(c) /\ ForcedFor(c) \in CellsAt("forced", n)
      <3>1. ForcedFor(c) = Partner(c) /\ ForcedFor(c).repetition = n
        BY Zenon DEF ForcedFor, Partner
      <3>2. QED
        BY <1>1, <3>1 DEF CellsAt
    <2>5. ForcedFor(c) \in on
      BY <2>1, <2>4
    <2> HIDE DEF on, off
    <2>6. QED
      BY <2>1, <2>3, <2>5 DEF Unobtained
  <1>5. ASSUME NEW c \in ablations, c \notin CellsIn(results) PROVE c \in CorrectionSkips(results)
    <2>1. c \in Planned /\ c.policy = "ablation" /\ c.repetition \in 1..Rounds
      BY <1>1 DEF CellsOf
    <2>2. c.repetition # 1 /\ c.of \notin AtBoundary(results)
      BY <1>4, <1>5
    <2>3. QED
      BY <1>5, <2>1, <2>2, CausalAssumption DEF CorrectionSkips, Stopped
  <1>6. ASSUME NEW c \in CellsOf("forced"), c \notin CellsIn(results) PROVE c \in CorrectionSkips(results)
    <2>1. c \in Planned /\ c.policy = "forced" /\ c.repetition \in 1..Rounds
      BY <1>1 DEF CellsOf
    <2>2. PICK a \in ablations : c = ForcedFor(a)
      BY <1>1
    <2>3. c.repetition # 1
      <3>1. c.repetition = a.repetition
        BY Zenon, <2>2 DEF ForcedFor
      <3>2. QED
        BY <1>4, <1>6, <2>2, <3>1
    <2>4. ASSUME NEW k \in Capabilities, NEW b \in Ablations(k), b.task = c.task PROVE Stopped(results, k)
      <3> DEFINE d == [b EXCEPT !.repetition = c.repetition]
      <3>1. b \in ablations /\ b.of = k
        BY DEF Ablations
      <3>2. d \in ablations
        BY <1>1, <2>1, <3>1
      <3>3. d.of = k /\ d.task = c.task /\ d.repetition = c.repetition
        BY <1>1, <2>1, <2>4, <3>1
      <3> HIDE DEF d
      <3>4. ForcedFor(d) = c
        <4>1. c.task = a.task /\ c.repetition = a.repetition
          BY Zenon, <2>2 DEF ForcedFor
        <4>2. QED
          BY Zenon, <2>2, <3>3, <4>1 DEF ForcedFor
      <3>5. QED
        BY <1>4, <1>6, <3>2, <3>3, <3>4 DEF Stopped
    <2>5. QED
      BY <1>6, <2>1, <2>3, <2>4, CausalAssumption DEF CorrectionSkips
  <1>7. QED
    BY <1>1, <1>2, <1>3, <1>5, <1>6 DEF CellsOf

LEMMA ClosedWhole ==
  ASSUME scenario \in Scenarios, NEW results, CellsIn(results) \subseteq Planned, Frontier(results) = {}
  PROVE  CellsIn(results) \cup Skips(results) = Planned
  <1>1. CASE scenario.runner = "screening"
    BY <1>1 DEF Skips
  <1>2. CASE scenario.runner = "correction"
    BY <1>2, CorrectedWhole DEF Skips, Frontier, CorrectionSkips
  <1>3. CASE scenario.runner = "confirmation"
    BY <1>3, ConfirmedWhole DEF Skips, Frontier, Planned
  <1>4. QED
    BY <1>1, <1>2, <1>3, RunnerAssumption

LEMMA InPlanHolds ==
  ASSUME Shaped, InPlan, [Next]_vars
  PROVE  InPlan'
  <1>1. Planned' = Planned
    BY SamePlan
  <1>2. CASE job' = Idle /\ report' = report
    BY <1>1, <1>2 DEF InPlan, Idle
  <1>3. ASSUME NEW reclassify \in BOOLEAN, Start(reclassify) PROVE InPlan'
    <2>1. job'.step = "recover" /\ job'.results = Restored /\ report' = report
      BY <1>3 DEF Start
    <2>2. CellsIn(job'.recover) \subseteq Planned
      BY <1>3 DEF Start, Recoverable, CellsIn
    <2>3. CellsIn(Restored) \subseteq Planned
      BY DEF InPlan, Restored, PlannedFragments, Replaced, CellsIn
    <2>4. QED
      BY <1>1, <2>1, <2>2, <2>3 DEF InPlan
  <1>4. CASE Recover
    <2>1. PICK capture, kept :
            /\ capture \in job.recover
            /\ job.step = "recover" /\ job'.step = "recover"
            /\ job'.recover = job.recover \ {capture}
            /\ job'.results = {r \in job.results : r.cell # capture.cell} \cup kept
            /\ kept \subseteq {Finalized(capture)} /\ report' = report
      BY <1>4, RecoverForm
    <2>2. capture.cell \in Planned /\ Finalized(capture).cell = capture.cell
      BY <2>1 DEF InPlan, CellsIn, Finalized
    <2>3. CellsIn(job'.results) \subseteq Planned /\ CellsIn(job'.recover) \subseteq Planned
      BY <2>1, <2>2 DEF InPlan, CellsIn
    <2>4. QED
      BY <1>1, <2>1, <2>3 DEF InPlan
  <1>5. CASE Recovered
    BY <1>1, <1>2, <1>5 DEF Recovered, InPlan, Idle
  <1>6. CASE AppendTrace
    <2>1. job.step = "trace" /\ DOMAIN job = Fields /\ report' = report
      BY <1>6 DEF AppendTrace, Shaped
    <2>2. job' = Idle \/ \E q : job' = [job EXCEPT !.trace = q]
      BY <1>6 DEF AppendTrace
    <2>3. job' = Idle \/ (job'.step = "trace" /\ job'.results = job.results)
      BY <2>1, <2>2 DEF Fields
    <2>4. QED
      BY <1>1, <1>2, <2>1, <2>3 DEF InPlan
  <1>7. CASE Checkpoint
    <2>1. job.step = "trace" /\ (job' = Idle \/ (job'.step = "trace" /\ job'.results = job.results))
      BY <1>7 DEF Checkpoint, Shaped, Fields
    <2>2. report' = report \/ report'.results = job.results
      BY <1>7 DEF Checkpoint, ReportOf
    <2>3. QED
      BY <1>1, <2>1, <2>2 DEF InPlan, Idle
  <1>8. CASE Reuse
    <2>1. job.step = "trace" /\ DOMAIN job = Fields /\ report' = report
      BY <1>8 DEF Reuse, AtFrontier, Shaped
    <2>2. PICK new : new = {Migrated(r) : r \in Reusable}
                     /\ job' = [job EXCEPT !.results = @ \cup new, !.trace = new]
      BY <1>8 DEF Reuse
    <2>3. job'.step = "trace" /\ job'.results = job.results \cup new
      BY <2>1, <2>2 DEF Fields
    <2>4. CellsIn(new) \subseteq Planned
      <3>1. Frontier(job.results) \subseteq Planned /\ \A r : Migrated(r).cell = r.cell
        BY FrontierIsNew DEF Shaped, Migrated
      <3>2. QED
        BY <2>2, <3>1 DEF CellsIn, Reusable
    <2>5. QED
      BY <1>1, <2>1, <2>3, <2>4 DEF InPlan, CellsIn
  <1>9. CASE StartBatch
    <2>1. /\ job.step = "trace" /\ job'.step = "batch" /\ report' = report
          /\ job'.results = job.results /\ job'.queue = Frontier(job.results)
          /\ job'.finalizing = {} /\ job'.done = {}
      BY <1>9 DEF StartBatch, AtFrontier
    <2>2. Frontier(job.results) \subseteq Planned
      BY FrontierIsNew DEF Shaped
    <2>3. QED
      BY <1>1, <2>1, <2>2 DEF InPlan, CellsIn
  <1>10. CASE RunAgent
    <2>1. PICK cell, capture :
            /\ cell \in job.queue
            /\ job.step = "batch" /\ job'.step = "batch" /\ capture.cell = cell
            /\ job'.queue = job.queue \ {cell} /\ job'.finalizing = job.finalizing \cup {capture}
            /\ job'.results = job.results /\ job'.done = job.done /\ report' = report
      BY <1>10, RunForm
    <2>2. QED
      BY <1>1, <2>1 DEF InPlan, CellsIn
  <1>11. CASE ProviderFails
    <2>1. /\ job.step = "batch" /\ job'.step = "batch" /\ report' = report /\ job'.queue = {}
          /\ job'.results = job.results /\ job'.finalizing = job.finalizing /\ job'.done = job.done
      BY <1>11 DEF ProviderFails, Shaped, Fields
    <2>2. QED
      BY <1>1, <2>1 DEF InPlan
  <1>12. ASSUME NEW capture, Finalize(capture) \/ FinalizeRaises(capture) PROVE InPlan'
    <2>1. /\ job.step = "batch" /\ job'.step = "batch" /\ report' = report /\ job'.queue = job.queue
          /\ capture \in job.finalizing /\ job'.finalizing = job.finalizing \ {capture}
          /\ job'.results = job.results /\ job'.done \subseteq job.done \cup {Finalized(capture)}
      BY <1>12 DEF Finalize, FinalizeRaises, Shaped, Fields
    <2>2. Finalized(capture).cell = capture.cell
      BY DEF Finalized
    <2>3. CellsIn(job'.finalizing) \cup CellsIn(job'.done) \subseteq Planned
      BY <2>1, <2>2 DEF InPlan, CellsIn
    <2>4. QED
      BY <1>1, <2>1, <2>3 DEF InPlan
  <1>13. CASE EndBatch
    <2>1. /\ job.step = "batch" /\ report' = report
          /\ job' = Idle \/ (job'.step = "trace" /\ job'.results = Replaced(job.results, job.done))
      BY <1>13 DEF EndBatch
    <2>2. QED
      BY <1>1, <1>2, <2>1, ReplacedCells DEF InPlan
  <1>14. CASE Close
    <2>1. job.step = "trace" /\ job' = Idle /\ report'.results = job.results
      BY <1>14 DEF Close, AtFrontier, ReportOf
    <2>2. QED
      BY <1>1, <2>1 DEF InPlan, Idle
  <1>15. CASE Kill
    BY <1>2, <1>15 DEF Kill
  <1>16. CASE Commit
    BY <1>1, <1>16 DEF Commit, InPlan, Idle
  <1>17. CASE UNCHANGED vars
    BY <1>1, <1>17 DEF vars, InPlan
  <1>18. QED
    BY <1>3, <1>4, <1>5, <1>6, <1>7, <1>8, <1>9, <1>10, <1>11, <1>12, <1>13, <1>14, <1>15, <1>16,
       <1>17 DEF Next

(***************************************************************************)
(* The screening compares an ablation with an active result that passed,   *)
(* and that stays what it is.                                              *)
(***************************************************************************)
Passes(c) ==
  \/ \E r \in fragments : r.cell = c /\ r.outcome = "PASS"
  \/ \E r \in scenario.source : r.cell = c /\ r.outcome = "PASS"

Warranted(c) == c.policy = "ablation" => Partner(c) \in CellsOf("active") /\ Passes(Partner(c))

Sure(r) == r \in fragments \/ \E s \in scenario.source : r = Migrated(s)

Grounded(results) == \A r \in results : Sure(r) /\ Warranted(r.cell)

Fragmented ==
  /\ \A r, q \in fragments : r.cell = q.cell => r = q
  /\ CellsIn(fragments) \subseteq CellsIn(captures)
  /\ \A c \in captures : Warranted(c.cell) /\ c.cell \notin CellsIn(scenario.source)

ScreensBatch ==
  job.step = "batch" =>
    /\ job.done \subseteq fragments
    /\ CellsIn(PlannedFragments) \subseteq CellsIn(job.results) \cup CellsIn(job.done)
    /\ \A c \in job.queue : Warranted(c) /\ c \notin CellsIn(scenario.source)
    /\ job.finalizing \subseteq captures
    /\ job.queue \cap CellsIn(fragments) = {}
    /\ CellsIn(job.finalizing) \cap CellsIn(fragments) = {}
    /\ job.queue \cap CellsIn(job.finalizing) = {}

Screens ==
  /\ Fragmented /\ ScreensBatch
  /\ report # NoReport => Grounded(report.results)
  /\ job.step \in {"recover", "trace", "batch"} => Grounded(job.results)
  /\ job.step \in {"recover", "trace"} => CellsIn(PlannedFragments) \subseteq CellsIn(job.results)
  /\ job.step = "recover" => ~job.reclassify /\ CellsIn(job.recover) \cap CellsIn(fragments) = {}

Screening == scenario.runner = "screening"

LEMMA FrontierIsWarranted ==
  ASSUME Screening, NEW results, Grounded(results), CellsIn(results) \subseteq Planned,
         NEW c \in Frontier(results)
  PROVE  Warranted(c)
  <1> SUFFICES ASSUME c.policy = "ablation" PROVE Partner(c) \in CellsOf("active") /\ Passes(Partner(c))
    BY DEF Warranted
  <1>1. c \in AblationFrontier(results)
    BY DEF Screening, Frontier, ScreeningFrontier, DepthFrontier, Unobtained, CellsOf
  <1>2. OutcomeIn(results, Partner(c)) = "PASS"
    <2>1. \E round : c \in RoundCells(results, round)
      BY <1>1, Zenon DEF AblationFrontier
    <2>2. QED
      BY <2>1 DEF RoundCells
  <1> DEFINE p == Partner(c)
             r == ResultOf(results, p)
  <1>3. p \in CellsIn(results) /\ r.outcome = "PASS"
    BY <1>2 DEF OutcomeIn
  <1>4. r \in results /\ r.cell = p
    BY <1>3, Zenon DEF CellsIn, ResultOf
  <1>5. p \in CellsOf("active")
    <2>1. p.policy = "active"
      BY DEF Partner, Screening
    <2>2. QED
      BY <1>3, <2>1 DEF CellsOf
  <1> HIDE DEF r, p
  <1>6. Passes(p)
    BY <1>3, <1>4 DEF Grounded, Sure, Passes, Migrated
  <1>7. QED
    BY <1>5, <1>6 DEF p

(* What passed stays so while fragments are only added. *)
LEMMA GroundedStays ==
  ASSUME [Next]_vars, fragments \subseteq fragments'
  PROVE  /\ \A c : Warranted(c) => Warranted(c)'
         /\ \A r : Sure(r) => Sure(r)'
  <1>1. scenario' = scenario /\ Planned' = Planned
    BY SamePlan
  <1>2. \A c : Passes(c) => Passes(c)'
    BY <1>1 DEF Passes
  <1>3. \A c : Partner(c)' = Partner(c)
    BY <1>1 DEF Partner
  <1>4. CellsOf("active")' = CellsOf("active")
    BY <1>1 DEF CellsOf
  <1>5. ASSUME NEW c, Warranted(c) PROVE Warranted(c)'
    <2>1. PICK p : p = Partner(c)
      OBVIOUS
    <2>2. c.policy = "ablation" => p \in CellsOf("active") /\ Passes(p)
      BY <1>5, <2>1 DEF Warranted
    <2>3. p = Partner(c)'
      BY <1>3, <2>1
    <2>4. c.policy = "ablation" => p \in CellsOf("active")' /\ Passes(p)'
      BY <1>2, <1>4, <2>2
    <2>5. QED
      BY <1>1, <2>3, <2>4 DEF Warranted, Passes
  <1>6. ASSUME NEW r, Sure(r) PROVE Sure(r)'
    BY <1>1, <1>6 DEF Sure, Migrated
  <1>7. QED
    BY <1>5, <1>6

(* A fragment that is added to others of other cells. *)
LEMMA FragmentAdded ==
  ASSUME Fragmented, [Next]_vars, NEW capture \in captures, UNCHANGED captures,
         capture.cell \notin CellsIn(fragments),
         NEW x, x = Finalized(capture), fragments' = Replaced(fragments, {x})
  PROVE  /\ fragments' = fragments \cup {x}
         /\ CellsIn(fragments') = CellsIn(fragments) \cup {capture.cell}
         /\ CellsIn(PlannedFragments)' \subseteq CellsIn(PlannedFragments) \cup {capture.cell}
         /\ x \in fragments' /\ x.cell = capture.cell /\ Sure(x)' /\ Warranted(x.cell)'
         /\ Fragmented'
  <1>1. x.cell = capture.cell
    BY DEF Finalized
  <1>2. fragments' = fragments \cup {x}
    BY <1>1 DEF Replaced, CellsIn
  <1>3. scenario' = scenario /\ Planned' = Planned
    BY SamePlan
  <1>4. \A c : Warranted(c) => Warranted(c)'
    BY <1>2, GroundedStays
  <1>5. Warranted(capture.cell)'
    BY <1>4 DEF Fragmented
  <1>6. Fragmented'
    BY <1>1, <1>2, <1>3, <1>4 DEF Fragmented, CellsIn
  <1>7. QED
    BY <1>1, <1>2, <1>3, <1>5, <1>6 DEF CellsIn, PlannedFragments, Sure

LEMMA ScreensHold ==
  ASSUME Shaped, Kept, InPlan, Screens, Screening, [Next]_vars
  PROVE  Screens'
  <1>1. scenario' = scenario /\ Planned' = Planned
    BY SamePlan
  <1>2. ASSUME UNCHANGED fragments
        PROVE  /\ \A c : Warranted(c) => Warranted(c)'
               /\ \A r : Sure(r) => Sure(r)'
               /\ PlannedFragments' = PlannedFragments
               /\ captures' = captures => Fragmented'
    <2>1. (\A c : Warranted(c) => Warranted(c)') /\ \A r : Sure(r) => Sure(r)'
      BY <1>2, GroundedStays
    <2>2. PlannedFragments' = PlannedFragments
      BY <1>1, <1>2 DEF PlannedFragments
    <2>3. captures' = captures => Fragmented'
      BY <1>1, <1>2, <2>1 DEF Fragmented, Screens
    <2>4. QED
      BY <2>1, <2>2, <2>3
  <1>3. ASSUME UNCHANGED <<fragments, captures>>, job' = Idle,
               report' = report \/ (job.step = "trace" /\ report'.results = job.results)
        PROVE  Screens'
    BY <1>2, <1>3 DEF Screens, ScreensBatch, Grounded, Idle
  <1>4. ASSUME UNCHANGED <<fragments, captures>>, job.step \in {"recover", "trace"}, job'.step = "trace",
               job'.results = job.results, report' = report \/ report'.results = job.results
        PROVE  Screens'
    BY <1>2, <1>4 DEF Screens, ScreensBatch, Grounded
  <1>5. ASSUME NEW reclassify \in BOOLEAN, Start(reclassify) PROVE Screens'
    <2>1. /\ UNCHANGED <<fragments, captures, report>> /\ job'.step = "recover" /\ job'.results = Restored
          /\ job'.reclassify = FALSE /\ job'.recover = Recoverable(Restored)
      BY <1>5 DEF Start, Screening
    <2>2. PICK reported : /\ reported = IF report = NoReport THEN {} ELSE report.results
                          /\ Restored = Replaced(reported, PlannedFragments)
      BY DEF Restored, Screening
    <2>3. Grounded(reported)
      BY <2>2 DEF Screens, Grounded
    <2>4. Grounded(PlannedFragments)
      BY DEF Screens, Fragmented, Grounded, PlannedFragments, Sure, CellsIn
    <2>5. Grounded(Restored)
      BY <2>2, <2>3, <2>4 DEF Grounded, Replaced
    <2>6. CellsIn(PlannedFragments) \subseteq CellsIn(Restored)
      BY <2>2, ReplacedCells
    <2>7. CellsIn(Recoverable(Restored)) \cap CellsIn(fragments) = {}
      BY <2>6 DEF Recoverable, CellsIn, PlannedFragments
    <2>8. QED
      BY <1>2, <2>1, <2>5, <2>6, <2>7 DEF Screens, ScreensBatch, Grounded, Idle
  <1>6. CASE Recover
    <2>1. PICK capture, kept :
            /\ capture \in job.recover
            /\ job.step = "recover" /\ job'.step = "recover"
            /\ job'.recover = job.recover \ {capture}
            /\ job'.results = {r \in job.results : r.cell # capture.cell} \cup kept
            /\ kept \subseteq {Finalized(capture)} /\ job'.reclassify = job.reclassify
            /\ capture.compliant \/ ~job.reclassify => kept = {Finalized(capture)}
            /\ UNCHANGED <<captures, log, report>>
            /\ fragments' = Replaced(fragments, {Finalized(capture)})
      BY <1>6, RecoverForm
    <2>2. PICK x : x = Finalized(capture)
      OBVIOUS
    <2>3. /\ capture \in captures /\ capture.cell \notin CellsIn(fragments) /\ ~job.reclassify
          /\ Fragmented
      BY <2>1 DEF Screens, Kept, KeptInRecovery, CellsIn
    <2>4. /\ fragments' = fragments \cup {x}
          /\ CellsIn(fragments') = CellsIn(fragments) \cup {capture.cell}
          /\ CellsIn(PlannedFragments)' \subseteq CellsIn(PlannedFragments) \cup {capture.cell}
          /\ x.cell = capture.cell /\ Sure(x)' /\ Warranted(x.cell)'
          /\ Fragmented'
      BY <2>1, <2>2, <2>3, FragmentAdded
    <2>5. (\A c : Warranted(c) => Warranted(c)') /\ \A r : Sure(r) => Sure(r)'
      BY <2>4, GroundedStays
    <2>6. job'.results = {r \in job.results : r.cell # capture.cell} \cup {x}
      BY <2>1, <2>2, <2>3
    <2>7. \A r \in job'.results : Sure(r)' /\ Warranted(r.cell)'
      BY <2>1, <2>4, <2>5, <2>6 DEF Screens, Grounded
    <2>8. CellsIn(job'.results) = CellsIn(job.results) \cup {capture.cell}
      BY <2>4, <2>6 DEF CellsIn
    <2>9. \A c \in job'.recover : c.cell # capture.cell /\ c.cell \notin CellsIn(fragments)
      BY <2>1 DEF Screens, Kept, KeptInRecovery, OneCapture, CellsIn
    <2>10. CellsIn(job'.recover) \cap CellsIn(fragments') = {}
      BY <2>4, <2>9 DEF CellsIn
    <2>11. CellsIn(PlannedFragments)' \subseteq CellsIn(job'.results)
      BY <2>1, <2>4, <2>8 DEF Screens
    <2>12. report' # NoReport => Grounded(report.results)
      BY <2>1 DEF Screens, NoReport
    <2>13. QED
      BY <2>1, <2>3, <2>4, <2>5, <2>7, <2>10, <2>11, <2>12 DEF Screens, ScreensBatch, Grounded, NoReport
  <1>7. CASE Recovered
    <2>1. UNCHANGED <<fragments, captures, report>> /\ job.step = "recover"
      BY <1>7 DEF Recovered
    <2>2. job' = Idle \/ (job'.step = "trace" /\ job'.results = job.results)
      BY <1>7 DEF Recovered
    <2>3. QED
      BY <1>3, <1>4, <2>1, <2>2
  <1>8. CASE AppendTrace
    <2>1. UNCHANGED <<fragments, captures, report>> /\ job.step = "trace" /\ DOMAIN job = Fields
      BY <1>8 DEF AppendTrace, Shaped
    <2>2. job' = Idle \/ (job'.step = "trace" /\ job'.results = job.results)
      BY <1>8, <2>1 DEF AppendTrace, Fields
    <2>3. QED
      BY <1>3, <1>4, <2>1, <2>2
  <1>9. CASE Checkpoint
    <2>1. UNCHANGED <<fragments, captures>> /\ job.step = "trace" /\ DOMAIN job = Fields
      BY <1>9 DEF Checkpoint, Shaped
    <2>2. job' = Idle \/ (job'.step = "trace" /\ job'.results = job.results)
      BY <1>9, <2>1 DEF Checkpoint, Fields
    <2>3. report' = report \/ report'.results = job.results
      BY <1>9 DEF Checkpoint, ReportOf
    <2>4. QED
      BY <1>3, <1>4, <2>1, <2>2, <2>3
  <1>10. ASSUME job.step = "trace", NEW c \in Frontier(job.results)
         PROVE  Warranted(c) /\ c \in Planned \ CellsIn(job.results)
    <2>1. Grounded(job.results) /\ CellsIn(job.results) \subseteq Planned
      BY <1>10 DEF Screens, InPlan
    <2>2. QED
      BY <1>10, <2>1, FrontierIsWarranted, FrontierIsNew DEF Shaped
  <1>11. CASE Reuse
    <2>1. job.step = "trace" /\ DOMAIN job = Fields /\ UNCHANGED <<fragments, captures, report>>
      BY <1>11 DEF Reuse, AtFrontier, Shaped
    <2>2. PICK new : new = {Migrated(r) : r \in Reusable}
                     /\ job' = [job EXCEPT !.results = @ \cup new, !.trace = new]
      BY <1>11, Zenon DEF Reuse
    <2>3. job'.step = "trace" /\ job'.results = job.results \cup new
      BY <2>1, <2>2 DEF Fields
    <2>4. ASSUME NEW r \in new PROVE Sure(r) /\ Warranted(r.cell)
      <3>1. PICK s \in Reusable : r = Migrated(s)
        BY <2>2
      <3>2. s \in scenario.source /\ s.cell \in Frontier(job.results) /\ r.cell = s.cell
        BY <3>1 DEF Reusable, Migrated
      <3>3. QED
        BY <1>10, <2>1, <3>1, <3>2 DEF Sure
    <2>5. CellsIn(job.results) \subseteq CellsIn(job'.results)
      BY <2>3 DEF CellsIn
    <2>6. QED
      BY <1>2, <2>1, <2>3, <2>4, <2>5 DEF Screens, ScreensBatch, Grounded
  <1>12. CASE StartBatch
    <2>1. /\ job.step = "trace" /\ job'.step = "batch" /\ UNCHANGED <<fragments, captures, report>>
          /\ job'.results = job.results /\ job'.queue = Frontier(job.results) /\ Reusable = {}
          /\ job'.finalizing = {} /\ job'.done = {}
      BY <1>12 DEF StartBatch, AtFrontier
    <2>2. ASSUME NEW c \in job'.queue
          PROVE  Warranted(c) /\ c \notin CellsIn(scenario.source) /\ c \notin CellsIn(fragments)
      <3>1. Warranted(c) /\ c \in Planned \ CellsIn(job.results)
        BY <1>10, <2>1, <2>2
      <3>2. c \notin CellsIn(scenario.source)
        BY <2>1, <2>2 DEF Reusable, CellsIn
      <3>3. c \notin CellsIn(fragments)
        BY <2>1, <3>1 DEF Screens, PlannedFragments, CellsIn
      <3>4. QED
        BY <3>1, <3>2, <3>3
    <2>3. CellsIn(job'.finalizing) = {} /\ CellsIn(job'.done) = {}
      BY <2>1 DEF CellsIn
    <2>4. CellsIn(PlannedFragments) \subseteq CellsIn(job'.results)
      BY <2>1 DEF Screens
    <2>5. ScreensBatch'
      BY <1>1, <1>2, <2>1, <2>2, <2>3, <2>4 DEF ScreensBatch
    <2>6. QED
      BY <1>2, <2>1, <2>5 DEF Screens, Grounded
  <1>13. CASE RunAgent
    <2>1. PICK cell, capture :
            /\ cell \in job.queue
            /\ job.step = "batch" /\ job'.step = "batch" /\ capture.cell = cell
            /\ job'.queue = job.queue \ {cell} /\ job'.finalizing = job.finalizing \cup {capture}
            /\ job'.results = job.results /\ job'.done = job.done /\ job'.raised = job.raised
            /\ captures' = Replaced(captures, {capture})
            /\ UNCHANGED <<log, report>>
      BY <1>13, RunForm
    <2>2. UNCHANGED fragments
      BY <1>13 DEF RunAgent
    <2>3. captures' = {c \in captures : c.cell # cell} \cup {capture}
      BY <2>1 DEF Replaced, CellsIn
    <2>4. Warranted(cell) /\ cell \notin CellsIn(scenario.source) \cup CellsIn(fragments)
      BY <2>1 DEF Screens, ScreensBatch
    <2>5. CellsIn(captures') = CellsIn(captures) \cup {cell}
      BY <2>1, <2>3 DEF CellsIn
    <2>6. Fragmented'
      BY <1>1, <1>2, <2>1, <2>2, <2>3, <2>4, <2>5 DEF Fragmented, Screens
    <2>7. CellsIn(job'.finalizing) = CellsIn(job.finalizing) \cup {cell}
      BY <2>1 DEF CellsIn
    <2>8. job'.finalizing \subseteq captures'
      <3>1. \A c \in job.finalizing : c.cell # cell
        BY <2>1 DEF Screens, ScreensBatch, CellsIn
      <3>2. QED
        BY <2>1, <2>3, <3>1 DEF Screens, ScreensBatch
    <2>9. ScreensBatch'
      <3>1. /\ job'.queue \cap CellsIn(fragments') = {} /\ job'.queue \cap CellsIn(job'.finalizing) = {}
            /\ CellsIn(job'.finalizing) \cap CellsIn(fragments') = {}
        BY <2>1, <2>2, <2>4, <2>7 DEF Screens, ScreensBatch
      <3>2. \A c \in job'.queue : Warranted(c)' /\ c \notin CellsIn(scenario.source)
        BY <1>2, <2>1, <2>2 DEF Screens, ScreensBatch
      <3>3. CellsIn(PlannedFragments) \subseteq CellsIn(job.results) \cup CellsIn(job.done)
            /\ job.done \subseteq fragments
        BY <2>1 DEF Screens, ScreensBatch
      <3>4. PlannedFragments' = PlannedFragments
        BY <1>2, <2>2
      <3>5. QED
        BY <1>1, <2>1, <2>2, <2>8, <3>1, <3>2, <3>3, <3>4 DEF ScreensBatch
    <2>10. QED
      BY <1>2, <2>1, <2>2, <2>6, <2>9 DEF Screens, Grounded
  <1>14. CASE ProviderFails
    <2>1. /\ job.step = "batch" /\ job'.step = "batch" /\ job'.queue = {}
          /\ job'.results = job.results /\ job'.finalizing = job.finalizing /\ job'.done = job.done
          /\ UNCHANGED <<fragments, captures, report>>
      BY <1>14 DEF ProviderFails, Shaped, Fields
    <2>2. ScreensBatch'
      BY <1>1, <1>2, <2>1 DEF Screens, ScreensBatch
    <2>3. QED
      BY <1>2, <2>1, <2>2 DEF Screens, Grounded
  <1>15. ASSUME NEW capture \in captures, Finalize(capture) PROVE Screens'
    <2>1. PICK x :
          /\ x = Finalized(capture) /\ capture \in job.finalizing
          /\ job.step = "batch" /\ job'.step = "batch" /\ job'.queue = job.queue
          /\ job'.results = job.results /\ job'.finalizing = job.finalizing \ {capture}
          /\ job'.done = job.done \cup {x} /\ fragments' = Replaced(fragments, {x})
          /\ UNCHANGED <<captures, report>>
      BY <1>15 DEF Finalize, Shaped, Fields
    <2>2. capture.cell \notin CellsIn(fragments) \cup job.queue /\ Fragmented
      BY <2>1 DEF Screens, ScreensBatch, CellsIn
    <2>3. /\ fragments' = fragments \cup {x}
          /\ CellsIn(fragments') = CellsIn(fragments) \cup {capture.cell}
          /\ CellsIn(PlannedFragments)' \subseteq CellsIn(PlannedFragments) \cup {capture.cell}
          /\ x \in fragments' /\ x.cell = capture.cell
          /\ Fragmented'
      BY <2>1, <2>2, FragmentAdded
    <2>4. (\A c : Warranted(c) => Warranted(c)') /\ \A r : Sure(r) => Sure(r)'
      BY <2>3, GroundedStays
    <2>5. \A c \in job'.finalizing : c.cell # capture.cell /\ c \in job.finalizing
      BY <2>1 DEF Screens, ScreensBatch, Kept, OneCapture
    <2>6. /\ CellsIn(job'.finalizing) \cap CellsIn(fragments') = {}
          /\ CellsIn(job'.finalizing) \subseteq CellsIn(job.finalizing)
      <3>1. CellsIn(job.finalizing) \cap CellsIn(fragments) = {}
        BY <2>1 DEF Screens, ScreensBatch
      <3>2. CellsIn(job'.finalizing) \subseteq CellsIn(job.finalizing)
            /\ capture.cell \notin CellsIn(job'.finalizing)
        BY <2>5 DEF CellsIn
      <3>3. QED
        BY <2>3, <3>1, <3>2
    <2>7. CellsIn(job'.done) = CellsIn(job.done) \cup {capture.cell}
      BY <2>1, <2>3 DEF CellsIn
    <2>8. job'.queue \cap CellsIn(fragments') = {} /\ job'.queue \cap CellsIn(job'.finalizing) = {}
      BY <2>1, <2>2, <2>3, <2>6 DEF Screens, ScreensBatch
    <2>9. CellsIn(PlannedFragments)' \subseteq CellsIn(job'.results) \cup CellsIn(job'.done)
      BY <2>1, <2>3, <2>7 DEF Screens, ScreensBatch
    <2>10. job'.done \subseteq fragments' /\ job'.finalizing \subseteq captures'
      BY <2>1, <2>3 DEF Screens, ScreensBatch
    <2>11. ScreensBatch'
      BY <1>1, <2>1, <2>4, <2>6, <2>8, <2>9, <2>10 DEF Screens, ScreensBatch
    <2>12. QED
      BY <2>1, <2>3, <2>4, <2>11 DEF Screens, Grounded, NoReport
  <1>16. ASSUME NEW capture \in captures, FinalizeRaises(capture) PROVE Screens'
    <2>1. /\ job.step = "batch" /\ job'.step = "batch" /\ job'.queue = job.queue
          /\ job'.results = job.results /\ job'.finalizing = job.finalizing \ {capture}
          /\ job'.done = job.done /\ UNCHANGED <<fragments, captures, report>>
      BY <1>16 DEF FinalizeRaises, Shaped, Fields
    <2>2. CellsIn(job'.finalizing) \subseteq CellsIn(job.finalizing)
      BY <2>1 DEF CellsIn
    <2>3. ScreensBatch'
      BY <1>1, <1>2, <2>1, <2>2 DEF Screens, ScreensBatch
    <2>4. QED
      BY <1>2, <2>1, <2>3 DEF Screens, Grounded
  <1>17. CASE EndBatch
    <2>1. job.step = "batch" /\ UNCHANGED <<fragments, captures, report>>
      BY <1>17 DEF EndBatch
    <2>2. job' = Idle \/ (job'.step = "trace" /\ job'.results = Replaced(job.results, job.done))
      BY <1>17 DEF EndBatch
    <2>3. CASE job' = Idle
      BY <1>3, <2>1, <2>3
    <2>4. CASE job'.step = "trace" /\ job'.results = Replaced(job.results, job.done)
      <3>1. \A r \in job.done : Sure(r) /\ Warranted(r.cell)
        BY <2>1 DEF Screens, ScreensBatch, Sure, Fragmented, CellsIn
      <3>2. \A r \in job'.results : Sure(r) /\ Warranted(r.cell)
        BY <2>1, <2>4, <3>1 DEF Screens, Grounded, Replaced
      <3>3. CellsIn(PlannedFragments) \subseteq CellsIn(job'.results)
        BY <2>1, <2>4, ReplacedCells DEF Screens, ScreensBatch
      <3>4. QED
        BY <1>2, <2>1, <2>4, <3>2, <3>3 DEF Screens, ScreensBatch, Grounded
    <2>5. QED
      BY <2>2, <2>3, <2>4
  <1>18. CASE Close
    BY <1>3, <1>18 DEF Close, AtFrontier, ReportOf
  <1>19. CASE Kill
    BY <1>3, <1>19 DEF Kill
  <1>20. CASE Commit
    BY <1>2, <1>20 DEF Commit, Screens, ScreensBatch, Grounded, Idle, NoReport
  <1>21. CASE UNCHANGED vars
    BY <1>1, <1>2, <1>21 DEF vars, Screens, ScreensBatch, Grounded
  <1>22. QED
    BY <1>5, <1>6, <1>7, <1>8, <1>9, <1>11, <1>12, <1>13, <1>14, <1>15, <1>16, <1>17, <1>18, <1>19, <1>20,
       <1>21 DEF Next
LEMMA ImageIsFinite ==
  ASSUME NEW S, IsFiniteSet(S), NEW f, DOMAIN f = S
  PROVE  IsFiniteSet({f[x] : x \in S})
  <1> DEFINE T == {f[x] : x \in S}
  <1>1. PICK g : g = [x \in S |-> f[x]]
    OBVIOUS
  <1>2. g \in Surjection(S, T)
    BY <1>1 DEF Surjection
  <1> HIDE DEF T
  <1>3. IsFiniteSet(T)
    BY <1>2, FS_Surjection
  <1>4. QED
    BY <1>3 DEF T

LEMMA PlanIsFinite == ASSUME scenario \in Scenarios PROVE IsFiniteSet(Planned)
  <1>1. PICK plan : plan = scenario.schedule /\ plan \in Seq(ToSet(plan))
    BY RunnerAssumption
  <1>2. DOMAIN plan = 1..Len(plan) /\ Len(plan) \in Nat
    BY <1>1
  <1>3. IsFiniteSet(DOMAIN plan)
    BY <1>2, FS_Interval
  <1>4. IsFiniteSet({plan[n] : n \in DOMAIN plan})
    BY <1>3, ImageIsFinite
  <1>5. Planned \subseteq {plan[n] : n \in DOMAIN plan}
    BY <1>1 DEF Planned, ToSet
  <1>6. QED
    BY <1>4, <1>5, FS_Subset

Lost(pairs) == {p \in pairs : p.off # "PASS"}

(* Where each capability's cell passed, only what did not pass without it   *)
(* counts.                                                                  *)
LEMMA DeltaCounts ==
  ASSUME NEW D, IsFiniteSet(D), \A p \in D : p.on = "PASS"
  PROVE  Delta(D) = Cardinality(Lost(D)) /\ Delta(D) \in Int
  <1> DEFINE off == {p \in D : p.off = "PASS"}
  <1>1. D \ off = Lost(D) /\ D \cap off = off /\ off \subseteq D
    BY DEF Lost
  <1>2. Delta(D) = Cardinality(D) - Cardinality(off)
    <2>1. {p \in D : p.on = "PASS"} = D
      OBVIOUS
    <2>2. QED
      BY <2>1, Zenon DEF Delta, PassesOn, PassesOff
  <1> HIDE DEF off
  <1>3. Cardinality(D \ off) = Cardinality(D) - Cardinality(D \cap off)
    BY FS_Difference
  <1>4. Cardinality(D) \in Nat /\ Cardinality(off) \in Nat
    BY <1>1, FS_CardinalityType, FS_Subset
  <1>5. Cardinality(D \ off) = Cardinality(Lost(D)) /\ Cardinality(D \cap off) = Cardinality(off)
    BY <1>1, Zenon
  <1>6. QED
    BY <1>2, <1>3, <1>4, <1>5

LEMMA EffectStays ==
  ASSUME NEW E, IsFiniteSet(E), \A p \in E : p.on = "PASS",
         NEW D \in SUBSET E, Effect(D)
  PROVE  Effect(E)
  <1>1. CASE CriticalLoss(D)
    BY <1>1 DEF CriticalLoss, Effect
  <1>2. CASE Delta(D) >= Threshold
    <2>1. IsFiniteSet(D)
      BY FS_Subset
    <2>2. /\ Delta(D) = Cardinality(Lost(D)) /\ Delta(D) \in Int
          /\ Delta(E) = Cardinality(Lost(E)) /\ Delta(E) \in Int
      BY <2>1, DeltaCounts
    <2>3. Lost(D) \subseteq Lost(E) /\ IsFiniteSet(Lost(E))
      BY FS_Subset DEF Lost
    <2>4. Delta(D) <= Delta(E)
      BY <2>2, <2>3, FS_Subset
    <2>5. Threshold \in Nat
      BY CausalAssumption
    <2>6. QED
      BY <1>2, <2>2, <2>4, <2>5 DEF Effect
  <1>3. QED
    BY <1>1, <1>2 DEF Effect

LEMMA PartnerPassed ==
  ASSUME Screens, Screening, scenario \in Scenarios, NEW results, Grounded(results),
         CellsOf("active") \subseteq CellsIn(results),
         NEW c \in CellsOf("ablation") \cap CellsIn(results)
  PROVE  OutcomeIn(results, Partner(c)) = "PASS"
  <1>1. PICK p : p = Partner(c)
    OBVIOUS
  <1>2. PICK r \in results : r.cell = c
    BY DEF CellsIn
  <1>3. p \in CellsIn(results) /\ Passes(p)
    BY <1>1, <1>2 DEF Grounded, Warranted, CellsOf
  <1>4. PICK q \in results : q.cell = p /\ q = ResultOf(results, p)
    <2>1. \E q \in results : q.cell = p
      BY <1>3 DEF CellsIn
    <2>2. QED
      BY <2>1, Zenon DEF ResultOf
  <1>5. \A s, t \in scenario.source : s.cell = t.cell => s = t
    BY RunnerAssumption
  <1>6. CellsIn(fragments) \cap CellsIn(scenario.source) = {}
    BY DEF Screens, Fragmented, CellsIn
  <1>7. \A f, g \in fragments : f.cell = g.cell => f = g
    BY DEF Screens, Fragmented
  <1>8. q.outcome = "PASS"
    <2>1. CASE q \in fragments
      BY <1>3, <1>4, <1>6, <1>7, <2>1 DEF Passes, CellsIn
    <2>2. CASE q \notin fragments
      <3>1. PICK s \in scenario.source : q = Migrated(s)
        BY <1>4, <2>2 DEF Grounded, Sure
      <3>2. s.cell = p /\ q.outcome = s.outcome
        BY <1>4, <3>1 DEF Migrated
      <3>3. QED
        BY <1>3, <1>5, <1>6, <3>2 DEF Passes, CellsIn
    <2>3. QED
      BY <2>1, <2>2
  <1>9. QED
    BY <1>1, <1>3, <1>4, <1>8 DEF OutcomeIn

LEMMA GroundedIsFinal ==
  ASSUME Screens, Screening, scenario \in Scenarios, NEW results, Grounded(results),
         CellsOf("active") \subseteq CellsIn(results),
         Decided(results, "PROCEED_TO_B0B_EARLY"), NEW pairs \in Completions(results)
  PROVE  Effect(Completed(pairs, Rounds))
  <1> DEFINE cells == CellsOf("ablation")
             now == {PairOf(results, c) : c \in cells}
             later(f, c) == IF c \in Missing(results) THEN [PairOf(results, c) EXCEPT !.off = f[c]]
                            ELSE PairOf(results, c)
  <1>1. PICK round \in 1..Rounds : Effect(Completed(now, round))
    <2>1. PICK round \in 1..Rounds : SequentialDecision(now, round) = "PROCEED_TO_B0B_EARLY"
      BY DEF Decided
    <2>2. QED
      BY <2>1 DEF SequentialDecision
  <1>2. PICK f : pairs = {later(f, c) : c \in cells}
    BY DEF Completions
  <1>3. ASSUME NEW c \in cells
        PROVE  /\ PairOf(results, c).repetition = c.repetition /\ c.repetition \in 1..Rounds
               /\ PairOf(results, c).off # "none" => later(f, c) = PairOf(results, c)
               /\ later(f, c).off # "none" => later(f, c).on = "PASS"
    <2>1. /\ PairOf(results, c).repetition = c.repetition
          /\ PairOf(results, c).off = OutcomeIn(results, c)
          /\ PairOf(results, c).on = OutcomeIn(results, Partner(c))
      BY Zenon DEF PairOf
    <2>2. c.repetition \in 1..Rounds
      BY RunnerAssumption DEF CellsOf, Planned
    <2>3. c \in CellsIn(results) => OutcomeIn(results, Partner(c)) = "PASS"
      BY PartnerPassed
    <2>4. OutcomeIn(results, c) # "none" => c \in CellsIn(results)
      BY DEF OutcomeIn
    <2>5. c \in Missing(results) => c \notin CellsIn(results) /\ OutcomeIn(results, Partner(c)) = "PASS"
      BY DEF Missing
    <2>6. [PairOf(results, c) EXCEPT !.off = f[c]].on = PairOf(results, c).on
      BY DEF PairOf
    <2>7. QED
      BY <2>1, <2>2, <2>3, <2>4, <2>5, <2>6
  <1> DEFINE D == Completed(now, round)
             E == Completed(pairs, Rounds)
  <1>4. \A p \in E : p.on = "PASS"
    BY <1>2, <1>3 DEF Completed
  <1>5. D \subseteq E
    <2>1. Rounds \in Nat
      BY CausalAssumption
    <2>2. ASSUME NEW p \in D PROVE p \in E
      <3>1. PICK c \in cells : p = PairOf(results, c) /\ p.off # "none"
        BY DEF Completed
      <3>2. p = later(f, c) /\ p.repetition \in 1..Rounds
        BY <1>3, <3>1
      <3>3. p.repetition <= Rounds
        BY <2>1, <3>2
      <3>4. p \in pairs
        BY <1>2, <3>2
      <3>5. QED
        BY <3>1, <3>3, <3>4 DEF Completed
    <2>3. QED
      BY <2>2
  <1>6. IsFiniteSet(E)
    <2>1. IsFiniteSet(cells)
      BY PlanIsFinite, FS_Subset DEF CellsOf
    <2>2. PICK g : g = [c \in cells |-> later(f, c)]
      OBVIOUS
    <2>3. IsFiniteSet({g[c] : c \in cells})
      BY <2>1, <2>2, ImageIsFinite
    <2>4. pairs = {g[c] : c \in cells}
      BY <1>2, <2>2
    <2>5. E \subseteq pairs
      BY DEF Completed
    <2>6. QED
      BY <2>3, <2>4, <2>5, FS_Subset
  <1> HIDE DEF D, E
  <1>7. Effect(E)
    BY <1>1, <1>4, <1>5, <1>6, EffectStays DEF D
  <1>8. QED
    BY <1>7 DEF E

(***************************************************************************)
(* What each step does to the process and to what is kept.                 *)
(***************************************************************************)
Running == job.step \in {"recover", "trace", "batch"}

Starts ==
  /\ job.step = "idle" /\ job'.step = "recover" /\ job'.results = Restored
  /\ job'.attempts = IF report = NoReport THEN {} ELSE report.attempts
  /\ job'.reclassify \in BOOLEAN
  /\ job'.reclassify =>
       /\ scenario.runner = "correction" /\ report = NoReport
       /\ job'.recover = {c \in captures : c.cell \in Planned}
  /\ ~job'.reclassify => job'.recover = Recoverable(Restored)
  /\ UNCHANGED <<captures, fragments, log, report>>

TakesOver(capture, x) ==
  /\ job.step = "recover" /\ job'.step = "recover"
  /\ capture \in job.recover /\ x = Finalized(capture)
  /\ job'.recover = job.recover \ {capture}
  /\ \/ job'.results = {r \in job.results : r.cell # capture.cell} \cup {x}
     \/ job.reclassify /\ ~capture.compliant /\ job'.results = {r \in job.results : r.cell # capture.cell}
  /\ job'.reclassify = job.reclassify /\ job'.attempts = job.attempts
  /\ fragments' = Replaced(fragments, {x})
  /\ UNCHANGED <<captures, log, report>>

Resumes ==
  /\ job.step = "recover" /\ job.recover = {} /\ job'.step = "trace"
  /\ job'.results = job.results /\ job'.attempts = job.attempts
  /\ ~job'.gap
  /\ UNCHANGED <<captures, fragments, log, report>>

Tells ==
  /\ job.step = "trace" /\ job'.step = "trace" /\ job'.results = job.results
  /\ job'.attempts = job.attempts /\ job'.gap = job.gap
  /\ job'.then = job.then \/ (job'.then = "frontier" /\ ~job.gap)
  /\ \/ log' = log /\ report' \in {report, ReportOf(job.results, FALSE, job.attempts)}
     \/ report' = report /\ \E r : log' = Appended(log, TraceOf(r))
  /\ UNCHANGED <<captures, fragments>>

Stops ==
  /\ job'.step = "idle"
  /\ \/ log' = log
     \/ report' = report /\ \E r : log' = Appended(log, TraceOf(r))
  /\ \/ report' = report \/ report' = NoReport
     \/ job.step = "trace" /\ report' = ReportOf(job.results, FALSE, job.attempts)
     \/ /\ job.step = "trace" /\ job.then = "frontier" /\ Frontier(job.results) = {}
        /\ report' = ReportOf(job.results, TRUE, job.attempts)
  /\ UNCHANGED <<captures, fragments>>

Adopts(new) ==
  /\ job.step = "trace" /\ job'.step = "trace"
  /\ new = {Migrated(r) : r \in Reusable}
  /\ job'.results = job.results \cup new /\ job'.attempts = job.attempts
  /\ job'.gap = job.gap /\ job.then = "frontier" /\ job'.then = "frontier"
  /\ UNCHANGED <<captures, fragments, log, report>>

Queues ==
  /\ job.step = "trace" /\ job'.step = "batch" /\ job.then = "frontier" /\ Reusable = {}
  /\ job'.results = job.results /\ job'.attempts = job.attempts
  /\ job'.queue = Frontier(job.results) /\ job'.finalizing = {} /\ job'.done = {}
  /\ ~job'.gap /\ ~job'.raised
  /\ UNCHANGED <<captures, fragments, log, report>>

InBatch ==
  /\ job.step = "batch" /\ job'.step = "batch" /\ job'.results = job.results
  /\ UNCHANGED <<log, report>>

Works(capture) ==
  /\ InBatch /\ capture.cell \in job.queue
  /\ \E b \in scenario.behaviours[capture.cell.policy] : capture.outcome = b.outcome
  /\ job'.queue = job.queue \ {capture.cell} /\ job'.finalizing = job.finalizing \cup {capture}
  /\ job'.done = job.done /\ job'.raised = job.raised /\ job'.gap = job.gap
  /\ job'.attempts = job.attempts
  /\ captures' = Replaced(captures, {capture}) /\ UNCHANGED fragments

GivesUp(cell) ==
  /\ InBatch /\ cell \in job.queue
  /\ job'.queue = {} /\ job'.finalizing = job.finalizing /\ job'.done = job.done
  /\ job'.raised = job.raised /\ job'.gap /\ job'.attempts = job.attempts \cup {cell}
  /\ UNCHANGED <<captures, fragments>>

Judges(capture, x) ==
  /\ InBatch /\ capture \in job.finalizing /\ x = Finalized(capture)
  /\ job'.queue = job.queue /\ job'.finalizing = job.finalizing \ {capture}
  /\ job'.done = job.done \cup {x} /\ job'.raised = job.raised /\ job'.gap = job.gap
  /\ job'.attempts = job.attempts
  /\ fragments' = Replaced(fragments, {x}) /\ UNCHANGED captures

Raises(capture) ==
  /\ InBatch /\ capture \in job.finalizing
  /\ job'.queue = job.queue /\ job'.finalizing = job.finalizing \ {capture}
  /\ job'.done = job.done /\ job'.raised /\ job'.gap = job.gap
  /\ job'.attempts = job.attempts
  /\ UNCHANGED <<captures, fragments>>

Ends ==
  /\ job.step = "batch" /\ job'.step = "trace" /\ job.queue = {} /\ job.finalizing = {}
  /\ ~job.raised /\ job'.results = Replaced(job.results, job.done)
  /\ job'.gap = job.gap /\ job'.attempts = job.attempts /\ job'.then = "checkpoint"
  /\ UNCHANGED <<captures, fragments, log, report>>

Rests == job' = job /\ UNCHANGED <<captures, fragments, log, report>>

Steps ==
  \/ Starts \/ (\E capture, x : TakesOver(capture, x)) \/ Resumes \/ Tells \/ Stops
  \/ (\E new : Adopts(new)) \/ Queues \/ (\E capture : Works(capture)) \/ (\E cell : GivesUp(cell))
  \/ (\E capture, x : Judges(capture, x)) \/ (\E capture : Raises(capture)) \/ Ends \/ Rests

(* Every action of the runner is one of these.                              *)
LEMMA StepForms == ASSUME Shaped, [Next]_vars PROVE Steps
  <1>1. ASSUME NEW reclassify \in BOOLEAN, Start(reclassify) PROVE Starts
    <2>1. job.step = "idle"
      BY <1>1 DEF Start, Idle
    <2>2. QED
      BY <1>1, <2>1 DEF Start, Starts
  <1>2. CASE Recover
    <2>1. /\ job.step = "recover" /\ job.recover # {} /\ DOMAIN job = Fields /\ job.reclassify \in BOOLEAN
          /\ UNCHANGED <<captures, log, report>>
      BY <1>2 DEF Recover, Shaped
    <2> DEFINE capture == CHOOSE c \in job.recover : TRUE
               kept == IF job.reclassify /\ ~Finalized(capture).compliant THEN {} ELSE {Finalized(capture)}
    <2>2. capture \in job.recover /\ Finalized(capture).compliant = capture.compliant
      BY <2>1 DEF Finalized
    <2>3. /\ job' = [job EXCEPT !.recover = @ \ {capture}, !.added = @ \cup kept,
                       !.results = {r \in @ : r.cell # capture.cell} \cup kept]
          /\ fragments' = Replaced(fragments, {Finalized(capture)})
      BY <1>2, Zenon DEF Recover
    <2>4. kept = {Finalized(capture)} \/ (job.reclassify /\ ~capture.compliant /\ kept = {})
      BY <2>2
    <2> HIDE DEF capture, kept
    <2>5. /\ job'.recover = job.recover \ {capture} /\ job'.step = "recover"
          /\ job'.results = {r \in job.results : r.cell # capture.cell} \cup kept
          /\ job'.reclassify = job.reclassify /\ job'.attempts = job.attempts
      BY <2>1, <2>3 DEF Fields
    <2>6. TakesOver(capture, Finalized(capture))
      BY <2>1, <2>2, <2>3, <2>4, <2>5 DEF TakesOver
    <2>7. QED
      BY <2>6 DEF Steps
  <1>3. CASE Recovered
    BY <1>3 DEF Recovered, Resumes, Stops, Steps, Idle
  <1>4. CASE AppendTrace
    <2>1. /\ job.step = "trace" /\ DOMAIN job = Fields /\ UNCHANGED <<captures, fragments, report>>
      BY <1>4 DEF AppendTrace, Shaped
    <2>2. PICK r : /\ log' = Appended(log, TraceOf(r))
                   /\ job' = Idle \/ job' = [job EXCEPT !.trace = @ \ {r}]
      BY <1>4, Zenon DEF AppendTrace
    <2>3. CASE job' = Idle
      BY <2>1, <2>2, <2>3 DEF Stops, Steps, Idle
    <2>4. CASE job' = [job EXCEPT !.trace = @ \ {r}]
      BY <2>1, <2>2, <2>4 DEF Tells, Steps, Fields
    <2>5. QED
      BY <2>2, <2>3, <2>4
  <1>5. CASE Checkpoint
    <2>1. /\ job.step = "trace" /\ DOMAIN job = Fields /\ UNCHANGED <<captures, fragments, log>>
          /\ job.gap \in BOOLEAN /\ report' \in {report, ReportOf(job.results, FALSE, job.attempts)}
      BY <1>5 DEF Checkpoint, Shaped
    <2>2. \/ job' = Idle
          \/ ~job.gap /\ job' = [job EXCEPT !.then = "frontier"]
      BY <1>5, <2>1 DEF Checkpoint
    <2>3. CASE job' = Idle
      BY <2>1, <2>3 DEF Stops, Steps, Idle
    <2>4. CASE ~job.gap /\ job' = [job EXCEPT !.then = "frontier"]
      BY <2>1, <2>4 DEF Tells, Steps, Fields
    <2>5. QED
      BY <2>2, <2>3, <2>4
  <1>6. CASE Reuse
    <2>1. /\ job.step = "trace" /\ DOMAIN job = Fields /\ job.then = "frontier"
          /\ UNCHANGED <<captures, fragments, log, report>>
      BY <1>6 DEF Reuse, AtFrontier, Shaped
    <2>2. PICK new : new = {Migrated(r) : r \in Reusable}
                     /\ job' = [job EXCEPT !.results = @ \cup new, !.trace = new]
      BY <1>6, Zenon DEF Reuse
    <2>3. Adopts(new)
      BY <2>1, <2>2 DEF Adopts, Fields
    <2>4. QED
      BY <2>3 DEF Steps
  <1>7. CASE StartBatch
    BY <1>7 DEF StartBatch, AtFrontier, Queues, Steps
  <1>8. CASE RunAgent
    <2>1. /\ job.step = "batch" /\ job.queue # {} /\ DOMAIN job = Fields
          /\ UNCHANGED <<fragments, log, report>>
      BY <1>8 DEF RunAgent, Shaped
    <2> DEFINE cell == CHOOSE c \in job.queue : TRUE
    <2>2. cell \in job.queue
      BY <2>1
    <2>3. PICK b \in scenario.behaviours[cell.policy] :
            LET capture == [cell |-> cell, outcome |-> b.outcome, compliant |-> b.compliant,
                            used |-> b.used, head |-> head]
            IN /\ captures' = Replaced(captures, {capture})
               /\ work' = work \cup {cell}
               /\ job' = [job EXCEPT !.queue = @ \ {cell}, !.finalizing = @ \cup {capture}]
      BY <1>8, Zenon DEF RunAgent
    <2> DEFINE capture == [cell |-> cell, outcome |-> b.outcome, compliant |-> b.compliant,
                           used |-> b.used, head |-> head]
    <2>4. /\ captures' = Replaced(captures, {capture})
          /\ job' = [job EXCEPT !.queue = @ \ {cell}, !.finalizing = @ \cup {capture}]
          /\ capture.cell = cell /\ capture.outcome = b.outcome
      BY <2>3
    <2> HIDE DEF cell, capture
    <2>5. Works(capture)
      BY <2>1, <2>2, <2>4 DEF Works, InBatch, Fields
    <2>6. QED
      BY <2>5 DEF Steps
  <1>9. CASE ProviderFails
    <2>1. /\ job.step = "batch" /\ job.queue # {} /\ DOMAIN job = Fields
          /\ UNCHANGED <<captures, fragments, log, report>>
      BY <1>9 DEF ProviderFails, Shaped
    <2> DEFINE cell == CHOOSE c \in job.queue : TRUE
    <2>2. cell \in job.queue /\ job' = [job EXCEPT !.queue = {}, !.gap = TRUE, !.attempts = @ \cup {cell}]
      BY <1>9, <2>1 DEF ProviderFails
    <2> HIDE DEF cell
    <2>3. GivesUp(cell)
      BY <2>1, <2>2 DEF GivesUp, InBatch, Fields
    <2>4. QED
      BY <2>3 DEF Steps
  <1>10. ASSUME NEW capture \in captures, Finalize(capture) PROVE Steps
    <2>1. Judges(capture, Finalized(capture))
      BY <1>10 DEF Finalize, Judges, InBatch, Shaped, Fields
    <2>2. QED
      BY <2>1 DEF Steps
  <1>11. ASSUME NEW capture \in captures, FinalizeRaises(capture) PROVE Steps
    <2>1. Raises(capture)
      BY <1>11 DEF FinalizeRaises, Raises, InBatch, Shaped, Fields
    <2>2. QED
      BY <2>1 DEF Steps
  <1>12. CASE EndBatch
    <2>1. job.raised \in BOOLEAN
      BY <1>12 DEF EndBatch, Shaped
    <2>2. QED
      BY <1>12, <2>1 DEF EndBatch, Ends, Stops, Steps, Idle
  <1>13. CASE Close
    BY <1>13 DEF Close, AtFrontier, Stops, Steps, Idle
  <1>14. CASE Kill
    BY <1>14 DEF Kill, Stops, Steps, Idle
  <1>15. CASE Commit
    BY <1>15 DEF Commit, Stops, Steps, Idle
  <1>16. CASE UNCHANGED vars
    BY <1>16 DEF vars, Rests, Steps
  <1>17. QED
    BY <1>1, <1>2, <1>3, <1>4, <1>5, <1>6, <1>7, <1>8, <1>9, <1>10, <1>11, <1>12, <1>13, <1>14, <1>15,
       <1>16 DEF Next, Steps

(* What is to be run depends on the plan and the results alone.            *)
LEMMA SamePlace ==
  ASSUME scenario' = scenario, Planned' = Planned
  PROVE  /\ \A p : CellsOf(p)' = CellsOf(p)
         /\ \A p, n : CellsAt(p, n)' = CellsAt(p, n)
         /\ \A c : Partner(c)' = Partner(c)
         /\ Capabilities' = Capabilities
         /\ \A k : Ablations(k)' = Ablations(k)
  <1>1. \A p : CellsOf(p)' = CellsOf(p)
    BY DEF CellsOf
  <1>2. \A p, n : CellsAt(p, n)' = CellsAt(p, n)
    BY <1>1 DEF CellsAt
  <1>3. \A c : Partner(c)' = Partner(c)
    BY Zenon DEF Partner
  <1>4. Capabilities' = Capabilities /\ \A k : Ablations(k)' = Ablations(k)
    BY <1>1 DEF Capabilities, Ablations
  <1>5. QED
    BY <1>1, <1>2, <1>3, <1>4

(* So do the pairs, and what the correction concludes of them so far.       *)
LEMMA SamePairs ==
  ASSUME scenario' = scenario, Planned' = Planned, NEW results
  PROVE  /\ \A c : PairOf(results, c)' = PairOf(results, c)
         /\ \A k : Pairs(results, k)' = Pairs(results, k)
         /\ \A k : StateOf(results, k)' = StateOf(results, k)
         /\ AtBoundary(results)' = AtBoundary(results)
  <1>1. \A c : PairOf(results, c)' = PairOf(results, c)
    <2> TAKE c
    <2>1. PICK p : p = Partner(c)
      OBVIOUS
    <2>2. p = Partner(c)'
      BY <2>1, SamePlace
    <2>3. QED
      BY <2>1, <2>2, Zenon DEF PairOf
  <1>2. \A k : Pairs(results, k)' = Pairs(results, k)
    <2> TAKE k
    <2>1. Ablations(k)' = Ablations(k)
      BY SamePlace
    <2>2. QED
      BY <1>1, <2>1 DEF Pairs
  <1>3. \A k : StateOf(results, k)' = StateOf(results, k)
    BY <1>2, Zenon DEF StateOf, CompletePairs
  <1>4. AtBoundary(results)' = AtBoundary(results)
    BY <1>3, SamePlace DEF AtBoundary
  <1>5. QED
    BY <1>1, <1>2, <1>3, <1>4

(* And so does what is run next.                                            *)
LEMMA SameFrontier ==
  ASSUME scenario' = scenario, Planned' = Planned, NEW results
  PROVE  Frontier(results)' = Frontier(results)
  <1>1. /\ \A p : CellsOf(p)' = CellsOf(p)
        /\ \A p, n : CellsAt(p, n)' = CellsAt(p, n)
        /\ \A c : Partner(c)' = Partner(c)
        /\ Capabilities' = Capabilities
    BY SamePlace
  <1>2. \A c : PairOf(results, c)' = PairOf(results, c)
    BY SamePairs
  <1>3. AblationFrontier(results)' = AblationFrontier(results)
    <2>1. \A n : RoundCells(results, n)' = RoundCells(results, n)
      <3> TAKE n
      <3>1. CellsAt("ablation", n)' = CellsAt("ablation", n)
        BY <1>1
      <3>2. \A c : OutcomeIn(results, Partner(c))' = OutcomeIn(results, Partner(c))
        <4> TAKE c
        <4>1. PICK p : p = Partner(c)
          OBVIOUS
        <4>2. p = Partner(c)'
          BY <1>1, <4>1
        <4>3. QED
          BY <4>1, <4>2, Zenon DEF OutcomeIn
      <3>3. QED
        BY <3>1, <3>2 DEF RoundCells, Unobtained
    <2>2. \A n : Continues(results, n)' = Continues(results, n)
      <3> TAKE n
      <3>1. PICK pairs : pairs = {PairOf(results, c) : c \in CellsOf("ablation")}
        OBVIOUS
      <3>2. pairs = {PairOf(results, c) : c \in CellsOf("ablation")}'
        BY <1>1, <1>2, <3>1
      <3>3. QED
        BY <3>1, <3>2, Zenon DEF Continues
    <2>3. PICK open : open = {r \in 1..Rounds : RoundCells(results, r) # {} /\ \A q \in 1..(r - 1) : Continues(results, q)}
      OBVIOUS
    <2>4. open = {r \in 1..Rounds : RoundCells(results, r) # {} /\ \A q \in 1..(r - 1) : Continues(results, q)}'
      BY <2>1, <2>2, <2>3
    <2>5. AblationFrontier(results) = IF open = {} THEN {} ELSE RoundCells(results, Min(open))
      BY <2>3, Zenon DEF AblationFrontier
    <2>6. AblationFrontier(results)' = (IF open = {} THEN {} ELSE RoundCells(results, Min(open)))'
      BY <2>4, Zenon DEF AblationFrontier
    <2>7. QED
      BY <2>1, <2>5, <2>6
  <1>4. DepthFrontier(results)' = DepthFrontier(results)
    <2>1. \A d : Observed(results, d)' = Observed(results, d)
      <3> TAKE d
      <3> DEFINE cells == {c \in CellsOf("depth") : c.of = d /\ c \in CellsIn(results)}
                 view(C) == LET obtained == {n \in 1..Rounds : \A m \in 1..n : \E c \in C : c.repetition = m}
                            IN [n \in obtained |-> OutcomeIn(results, CHOOSE c \in C : c.repetition = n)]
      <3>1. cells' = cells
        BY <1>1
      <3>2. Observed(results, d) = view(cells)
        BY DEF Observed
      <3>3. Observed(results, d)' = view(cells')
        BY DEF Observed
      <3>4. QED
        BY <3>1, <3>2, <3>3
    <2>2. Depths' = Depths
      BY <1>1 DEF Depths
    <2>3. \A d : Verdict(results, d)' = Verdict(results, d)
      BY <2>1 DEF Verdict
    <2>4. PICK open : open = {d \in Depths : /\ Verdict(results, d) = "open"
                              /\ \A e \in Depths : e < d => Verdict(results, e) = "insufficient"}
      OBVIOUS
    <2>5. open = {d \in Depths : /\ Verdict(results, d) = "open"
                              /\ \A e \in Depths : e < d => Verdict(results, e) = "insufficient"}'
      BY <2>2, <2>3, <2>4
    <2>6. DepthFrontier(results) = {c \in CellsOf("depth") : c.of \in open /\ c.repetition = Len(Observed(results, c.of)) + 1}
      BY <2>4, Zenon DEF DepthFrontier
    <2>7. DepthFrontier(results)' = {c \in CellsOf("depth") : c.of \in open /\ c.repetition = Len(Observed(results, c.of)) + 1}'
      BY <2>5, Zenon DEF DepthFrontier
    <2>8. QED
      BY <1>1, <2>1, <2>6, <2>7
  <1>5. ScreeningFrontier(results)' = ScreeningFrontier(results)
    BY <1>1, <1>3, <1>4 DEF ScreeningFrontier, Unobtained
  <1>6. CorrectionFrontier(results)' = CorrectionFrontier(results)
    <2>1. \A n : CorrectionRound(results, n)' = CorrectionRound(results, n)
      <3> TAKE n
      <3>1. AtBoundary(results)' = AtBoundary(results)
        BY SamePairs
      <3>2. PICK off : off = {c \in CellsAt("ablation", n) : c.of \in IF n = 1 THEN Capabilities ELSE AtBoundary(results)}
        OBVIOUS
      <3>3. off = {c \in CellsAt("ablation", n) : c.of \in IF n = 1 THEN Capabilities ELSE AtBoundary(results)}'
        BY <1>1, <3>1, <3>2
      <3>4. PICK on : on = CellsAt("forced", n) \cap {Partner(c) : c \in off}
        OBVIOUS
      <3>5. on = (CellsAt("forced", n) \cap {Partner(c) : c \in off})'
        BY <1>1, <3>4
      <3>6. CorrectionRound(results, n) = <<Unobtained(results, on), Unobtained(results, CellsAt("off", n)), Unobtained(results, off)>>
        BY <3>2, <3>4, Zenon DEF CorrectionRound
      <3>7. CorrectionRound(results, n)' = <<Unobtained(results, on), Unobtained(results, CellsAt("off", n)), Unobtained(results, off)>>'
        BY <3>3, <3>5, Zenon DEF CorrectionRound
      <3>8. QED
        BY <1>1, <3>6, <3>7 DEF Unobtained
    <2>2. PICK auto : auto = Unobtained(results, CellsOf("auto"))
      OBVIOUS
    <2>3. auto = Unobtained(results, CellsOf("auto"))'
      BY <1>1, <2>2 DEF Unobtained
    <2>4. PICK pending : pending = {x \in (1..Rounds) \X (1..3) : CorrectionRound(results, x[1])[x[2]] # {}}
      OBVIOUS
    <2>5. pending = {x \in (1..Rounds) \X (1..3) : CorrectionRound(results, x[1])[x[2]] # {}}'
      BY <2>1, <2>4
    <2>6. PICK first : first = CHOOSE x \in pending : \A y \in pending :
                         x[1] < y[1] \/ (x[1] = y[1] /\ x[2] <= y[2])
      OBVIOUS
    <2>7. PICK x : x = CorrectionRound(results, first[1])[first[2]]
      OBVIOUS
    <2>8. x = (CorrectionRound(results, first[1])[first[2]])'
      BY <2>1, <2>7
    <2>9. CorrectionFrontier(results) = IF auto # {} THEN {CHOOSE c \in auto : TRUE}
            ELSE IF pending = {} THEN {} ELSE {CHOOSE c \in x : TRUE}
      BY <2>2, <2>4, <2>6, <2>7, Zenon DEF CorrectionFrontier
    <2>10. CorrectionFrontier(results)' = IF auto # {} THEN {CHOOSE c \in auto : TRUE}
            ELSE IF pending = {} THEN {} ELSE {CHOOSE c \in x : TRUE}
      BY <2>3, <2>5, <2>6, <2>8, Zenon DEF CorrectionFrontier
    <2>11. QED
      BY <2>9, <2>10
  <1>7. ConfirmationFrontier(results)' = ConfirmationFrontier(results)
    <2>1. PICK plan : plan = scenario.schedule
      OBVIOUS
    <2>2. plan = (scenario').schedule
      BY <2>1
    <2>3. QED
      BY <2>1, <2>2, Zenon DEF ConfirmationFrontier
  <1>8. QED
    <2>1. PICK runner : runner = scenario.runner
      OBVIOUS
    <2>2. runner = (scenario').runner
      BY <2>1
    <2>3. QED
      BY <1>5, <1>6, <1>7, <2>1, <2>2, Zenon DEF Frontier

(***************************************************************************)
(* Results are what is kept of them, one of a cell.                        *)
(***************************************************************************)
(* No cell that an earlier screen has a result of is run.                   *)
SourceCells == CellsIn(scenario.source)

(* A cell has one fragment, with an outcome, and a capture that it comes    *)
(* from.                                                                    *)
FragmentsKnown ==
  /\ \A r, q \in fragments : r.cell = q.cell => r = q
  /\ \A r \in fragments :
       r.outcome # "none" /\ \E c \in captures : c.cell = r.cell /\ (r.compliant => c.compliant)

CapturesKnown == \A c \in captures : c.cell \in Planned \ SourceCells /\ c.outcome # "none"

(* What is reported is kept, and the run that resumes it has it.            *)
RecordedInReport ==
  report # NoReport =>
    /\ \A r \in report.results : Sure(r)
    /\ Running => CellsIn(report.results) \subseteq CellsIn(job.results)

(* What is to be recovered has no result yet; a reclassification starts     *)
(* from none.                                                               *)
RecordedInRecovery ==
  job.step = "recover" =>
    /\ job.reclassify => scenario.runner = "correction" /\ report = NoReport /\ job.attempts = {}
    /\ ~job.reclassify => \A c \in job.recover : c.cell \notin CellsIn(fragments) \cup CellsIn(job.results)

(* In a batch a cell is in one place: queued, with its oracle, done or      *)
(* before it.                                                               *)
RecordedInBatch ==
  job.step = "batch" =>
    /\ job.done \subseteq fragments /\ job.finalizing \subseteq captures
    /\ job.queue \subseteq Frontier(job.results) \ SourceCells
    /\ job.queue \cap (CellsIn(job.finalizing) \cup CellsIn(job.done)) = {}
    /\ CellsIn(job.finalizing) \cap CellsIn(job.done) = {}
    /\ CellsIn(job.results) \cap (CellsIn(job.finalizing) \cup CellsIn(job.done)) = {}

RecordedInJob == Running => \A r \in job.results : Sure(r)

Recorded ==
  FragmentsKnown /\ CapturesKnown /\ RecordedInReport /\ RecordedInRecovery /\ RecordedInBatch
  /\ RecordedInJob

(* A result that is kept has an outcome and a capture, or is of an earlier  *)
(* screen.                                                                  *)
LEMMA Known ==
  ASSUME Recorded, scenario \in Scenarios, NEW r, Sure(r)
  PROVE  /\ r.outcome # "none"
         /\ r \in fragments \/ (r.cell \in SourceCells /\ scenario.runner = "screening")
         /\ r.cell \in CellsIn(captures) \/ r.cell \in SourceCells
         /\ r.cell \in SourceCells => r \notin fragments
  <1>1. ASSUME r \in fragments
        PROVE  r.outcome # "none" /\ r.cell \in CellsIn(captures) /\ r.cell \notin SourceCells
    BY <1>1 DEF Recorded, FragmentsKnown, CapturesKnown, CellsIn
  <1>2. ASSUME NEW s \in scenario.source, r = Migrated(s)
        PROVE  r.outcome # "none" /\ r.cell \in SourceCells /\ scenario.runner = "screening"
    <2>1. s.outcome # "none" /\ scenario.runner = "screening"
      BY RunnerAssumption
    <2>2. QED
      BY <1>2, <2>1 DEF Migrated, SourceCells, CellsIn
  <1>3. QED
    BY <1>1, <1>2 DEF Sure

(* A cell has one result, wherever it is kept.                              *)
LEMMA OneResult ==
  ASSUME Recorded, scenario \in Scenarios, NEW r, NEW q, Sure(r), Sure(q), r.cell = q.cell
  PROVE  r = q
  <1>1. CASE r \in fragments
    <2>1. q \in fragments
      BY <1>1, Known
    <2>2. QED
      BY <1>1, <2>1 DEF Recorded, FragmentsKnown
  <1>2. CASE r \notin fragments
    <2>1. q \notin fragments
      BY <1>2, Known
    <2>2. PICK s, t \in scenario.source : r = Migrated(s) /\ q = Migrated(t)
      BY <1>2, <2>1 DEF Sure
    <2>3. s.cell = t.cell
      BY <2>2 DEF Migrated
    <2>4. s = t
      BY <2>3, RunnerAssumption
    <2>5. QED
      BY <2>2, <2>4
  <1>3. QED
    BY <1>1, <1>2

(* A fragment that takes the place of one of its cell leaves the others.   *)
LEMMA SureStays ==
  ASSUME scenario' = scenario, NEW x, fragments' = Replaced(fragments, {x})
  PROVE  /\ \A r : Sure(r) /\ r.cell # x.cell => Sure(r)'
         /\ Sure(x)' /\ x \in fragments'
  <1>1. \A r \in fragments : r.cell # x.cell => r \in fragments'
    BY DEF Replaced, CellsIn
  <1>2. x \in fragments'
    BY DEF Replaced
  <1>3. QED
    BY <1>1, <1>2 DEF Sure, Migrated

(* The oracle's result of a capture takes its place among the fragments.    *)
LEMMA FragmentReplaced ==
  ASSUME FragmentsKnown, CapturesKnown, NEW capture \in captures, NEW x, x = Finalized(capture),
         fragments' = Replaced(fragments, {x}), captures' = captures
  PROVE  FragmentsKnown' /\ x.cell = capture.cell /\ x.outcome # "none"
  <1>1. x.cell = capture.cell /\ x.compliant = capture.compliant /\ x.outcome # "none"
    BY DEF Finalized, CapturesKnown
  <1>2. fragments' = {r \in fragments : r.cell # x.cell} \cup {x}
    BY DEF Replaced, CellsIn
  <1>3. QED
    BY <1>1, <1>2 DEF FragmentsKnown

LEMMA RecordedInit == Init => Recorded
  BY DEF Init, Idle, Recorded, FragmentsKnown, CapturesKnown, RecordedInReport, RecordedInRecovery,
     RecordedInBatch, RecordedInJob, Running, NoReport

(* What a run starts from: all that was reported, all fragments of the      *)
(* plan, all of it kept.                                                    *)
LEMMA RestoredForm ==
  ASSUME Shaped, Recorded
  PROVE  /\ \A r \in Restored : Sure(r)
         /\ report # NoReport => report.results \subseteq Restored
         /\ CellsIn(PlannedFragments) \subseteq CellsIn(Restored)
         /\ CellsIn(Restored) \subseteq CellsIn(captures) \cup IF report = NoReport THEN {} ELSE CellsIn(report.results)
  <1>1. PICK reported : /\ reported = IF report = NoReport THEN {} ELSE report.results
                        /\ Restored = IF scenario.runner = "screening" THEN Replaced(reported, PlannedFragments)
                                      ELSE reported \cup {r \in PlannedFragments : r.cell \notin CellsIn(reported)}
    BY DEF Restored
  <1>2. \A r \in reported : Sure(r)
    BY <1>1 DEF Recorded, RecordedInReport
  <1>3. \A r \in PlannedFragments : Sure(r) /\ r.cell \in CellsIn(captures)
    BY DEF PlannedFragments, Sure, Recorded, FragmentsKnown, CellsIn
  <1>4. \A r \in reported, q \in PlannedFragments : r.cell = q.cell => r = q
    BY <1>2, <1>3, OneResult DEF Shaped
  <1>5. reported \cup PlannedFragments = Restored
    <2>1. reported \cup {r \in PlannedFragments : r.cell \notin CellsIn(reported)} = reported \cup PlannedFragments
      BY <1>4 DEF CellsIn
    <2>2. Replaced(reported, PlannedFragments) = reported \cup PlannedFragments
      BY <1>4 DEF CellsIn, Replaced
    <2>3. QED
      BY <1>1, <2>1, <2>2
  <1>6. CellsIn(Restored) = CellsIn(reported) \cup CellsIn(PlannedFragments)
    BY <1>5 DEF CellsIn
  <1>7. CellsIn(PlannedFragments) \subseteq CellsIn(captures)
    BY <1>3 DEF CellsIn
  <1>8. CellsIn(reported) = IF report = NoReport THEN {} ELSE CellsIn(report.results)
    BY <1>1 DEF CellsIn
  <1>9. QED
    BY <1>1, <1>2, <1>3, <1>5, <1>6, <1>7, <1>8

(* Results stay what is kept, one of a cell, through every step.            *)
LEMMA RecordedHolds ==
  ASSUME Shaped, Kept, Recorded, Steps, scenario' = scenario, Planned' = Planned
  PROVE  Recorded'
  <1> USE DEF Running
  <1>1. FragmentsKnown /\ CapturesKnown /\ scenario \in Scenarios /\ SourceCells' = SourceCells
    BY DEF Recorded, Shaped, SourceCells, CellsIn
  <1>2. ASSUME UNCHANGED fragments PROVE \A r : Sure(r) => Sure(r)'
    BY <1>2 DEF Sure, Migrated
  <1>3. ASSUME UNCHANGED <<captures, fragments>> PROVE FragmentsKnown' /\ CapturesKnown'
    BY <1>1, <1>3 DEF FragmentsKnown, CapturesKnown
  <1>4. ASSUME UNCHANGED <<captures, fragments>>, job.step \in {"recover", "trace"}, job'.step = "trace",
               \A r \in job'.results : Sure(r), CellsIn(job.results) \subseteq CellsIn(job'.results),
               report' = report \/ report' = NoReport \/ report'.results = job.results
        PROVE  Recorded'
    <2>1. RecordedInReport'
      BY <1>2, <1>4 DEF Recorded, RecordedInReport, RecordedInJob
    <2>2. QED
      BY <1>2, <1>3, <1>4, <2>1 DEF Recorded, RecordedInRecovery, RecordedInBatch, RecordedInJob
  <1>5. CASE Starts
    <2>1. /\ \A r \in Restored : Sure(r)
          /\ report # NoReport => report.results \subseteq Restored
          /\ CellsIn(PlannedFragments) \subseteq CellsIn(Restored)
      BY RestoredForm
    <2>2. RecordedInReport'
      BY <1>2, <1>5, <2>1 DEF Starts, Recorded, RecordedInReport, CellsIn
    <2>3. RecordedInRecovery'
      <3>1. ASSUME NEW c \in Recoverable(Restored)
                   PROVE c.cell \notin CellsIn(fragments) \cup CellsIn(Restored)
        BY <2>1, <3>1 DEF Recoverable, PlannedFragments, CellsIn
      <3>2. QED
        BY <1>5, <3>1 DEF Starts, RecordedInRecovery
    <2>4. QED
      BY <1>2, <1>3, <1>5, <2>1, <2>2, <2>3 DEF Starts, Recorded, RecordedInBatch, RecordedInJob
  <1>6. ASSUME NEW capture, NEW x, TakesOver(capture, x) PROVE Recorded'
    <2>1. capture \in captures /\ job.recover \subseteq captures
      BY <1>6 DEF TakesOver, Kept, KeptInRecovery
    <2>2. FragmentsKnown' /\ CapturesKnown' /\ x.cell = capture.cell
      BY <1>1, <1>6, <2>1, FragmentReplaced DEF TakesOver, CapturesKnown
    <2>3. (\A r : Sure(r) /\ r.cell # x.cell => Sure(r)') /\ Sure(x)'
      BY <1>6, SureStays DEF TakesOver
    <2>4. \A r \in job'.results : Sure(r)'
      BY <1>6, <2>2, <2>3 DEF TakesOver, Recorded, RecordedInJob
    <2>5. ASSUME report' # NoReport
          PROVE  (\A r \in report'.results : Sure(r)')
                 /\ CellsIn(report'.results) \subseteq CellsIn(job'.results)
      <3>1. report' = report /\ ~job.reclassify /\ CellsIn(report.results) \subseteq CellsIn(job.results)
        BY <1>6, <2>5 DEF TakesOver, Recorded, RecordedInRecovery, RecordedInReport
      <3>2. x.cell \notin CellsIn(job.results)
        BY <1>6, <2>2, <3>1 DEF TakesOver, Recorded, RecordedInRecovery
      <3>3. \A r \in report.results : Sure(r) /\ r.cell # x.cell
        BY <2>5, <3>1, <3>2 DEF Recorded, RecordedInReport, CellsIn
      <3>4. CellsIn(job.results) \subseteq CellsIn(job'.results)
        BY <1>6, <2>2, <3>1 DEF TakesOver, CellsIn
      <3>5. QED
        BY <2>3, <3>1, <3>3, <3>4
    <2>6. RecordedInRecovery'
      <3>1. ASSUME ~job'.reclassify, NEW c \in job'.recover
            PROVE  c.cell \notin CellsIn(fragments') \cup CellsIn(job'.results)
        <4>1. ~job.reclassify /\ c \in job.recover /\ c # capture
          BY <1>6, <3>1 DEF TakesOver
        <4>2. c.cell # x.cell
          BY <2>1, <2>2, <4>1 DEF Kept, OneCapture
        <4>3. c.cell \notin CellsIn(fragments) \cup CellsIn(job.results)
          BY <1>6, <4>1 DEF TakesOver, Recorded, RecordedInRecovery
        <4>4. QED
          BY <1>6, <4>2, <4>3 DEF TakesOver, CellsIn, Replaced
      <3>2. job'.reclassify => scenario'.runner = "correction" /\ report' = NoReport /\ job'.attempts = {}
        <4>1. report = NoReport => report' = NoReport
          BY <1>6 DEF TakesOver, NoReport
        <4>2. QED
          BY <1>6, <4>1 DEF TakesOver, Recorded, RecordedInRecovery
      <3>3. QED
        BY <3>1, <3>2 DEF RecordedInRecovery
    <2>7. job'.step = "recover"
      BY <1>6 DEF TakesOver
    <2>8. RecordedInReport' /\ RecordedInBatch' /\ RecordedInJob'
      BY <2>4, <2>5, <2>7 DEF RecordedInReport, RecordedInBatch, RecordedInJob, NoReport
    <2>9. QED
      BY <2>2, <2>6, <2>8 DEF Recorded
  <1>7. CASE Resumes
    BY <1>4, <1>7 DEF Resumes, Recorded, RecordedInJob
  <1>8. CASE Tells
    <2>1. report' = report \/ report'.results = job.results
      BY <1>8 DEF Tells, ReportOf
    <2>2. QED
      BY <1>4, <1>8, <2>1 DEF Tells, Recorded, RecordedInJob
  <1>9. CASE Stops
    <2>1. report' = report \/ report' = NoReport \/ (job.step = "trace" /\ report'.results = job.results)
      BY <1>9 DEF Stops, ReportOf
    <2>2. RecordedInReport'
      BY <1>2, <1>9, <2>1 DEF Stops, Recorded, RecordedInReport, RecordedInJob
    <2>3. QED
      BY <1>3, <1>9, <2>2 DEF Stops, Recorded, RecordedInRecovery, RecordedInBatch, RecordedInJob
  <1>10. ASSUME NEW new, Adopts(new) PROVE Recorded'
    <2>1. \A r \in new : Sure(r)
      BY <1>10 DEF Adopts, Sure, Reusable
    <2>2. CellsIn(job.results) \subseteq CellsIn(job'.results)
      BY <1>10 DEF Adopts, CellsIn
    <2>3. QED
      BY <1>4, <1>10, <2>1, <2>2 DEF Adopts, Recorded, RecordedInJob
  <1>11. CASE Queues
    <2>1. Frontier(job.results) \cap SourceCells = {}
      BY <1>11 DEF Queues, Reusable, SourceCells, CellsIn
    <2>2. CellsIn(job'.finalizing) = {} /\ CellsIn(job'.done) = {}
      BY <1>11 DEF Queues, CellsIn
    <2>3. RecordedInBatch'
      <3>1. PICK results : results = job.results
        OBVIOUS
      <3>2. Frontier(results)' = Frontier(results) /\ results = job'.results
        BY <1>11, <3>1, SameFrontier DEF Queues
      <3>3. QED
        BY <1>1, <1>11, <2>1, <2>2, <3>1, <3>2 DEF Queues, RecordedInBatch
    <2>4. RecordedInReport' /\ RecordedInJob' /\ RecordedInRecovery'
      BY <1>2, <1>11 DEF Queues, Recorded, RecordedInReport, RecordedInJob, RecordedInRecovery
    <2>5. QED
      BY <1>3, <1>11, <2>3, <2>4 DEF Queues, Recorded
  <1>12. ASSUME InBatch PROVE Frontier(job.results)' = Frontier(job.results)
    <2>1. PICK results : results = job.results
      OBVIOUS
    <2>2. Frontier(results)' = Frontier(results)
      BY SameFrontier
    <2>3. results = (job.results)'
      BY <1>12, <2>1 DEF InBatch
    <2>4. QED
      BY <2>1, <2>2, <2>3
  <1>13. ASSUME InBatch, UNCHANGED fragments
         PROVE  RecordedInReport' /\ RecordedInJob' /\ RecordedInRecovery'
    BY <1>2, <1>13 DEF InBatch, Recorded, RecordedInReport, RecordedInJob, RecordedInRecovery
  <1>14. ASSUME NEW capture, Works(capture) PROVE Recorded'
    <2>1. /\ InBatch /\ capture.cell \in job.queue /\ capture.cell \in Planned \ SourceCells
          /\ job.step = "batch" /\ job'.step = "batch"
      BY <1>14 DEF Works, InBatch, Kept, KeptInBatch, Recorded, RecordedInBatch
    <2>2. capture.outcome # "none"
      BY <1>1, <1>14, <2>1, RunnerAssumption DEF Works, Planned
    <2>3. captures' = {c \in captures : c.cell # capture.cell} \cup {capture} /\ fragments' = fragments
      BY <1>14 DEF Works, Replaced, CellsIn
    <2>4. CapturesKnown'
      BY <1>1, <2>1, <2>2, <2>3 DEF CapturesKnown
    <2>5. FragmentsKnown'
      <3>1. ASSUME NEW r \in fragments
                   PROVE \E c \in captures' : c.cell = r.cell /\ (r.compliant => c.compliant)
        <4>1. PICK c \in captures : c.cell = r.cell /\ (r.compliant => c.compliant)
          BY <1>1 DEF FragmentsKnown
        <4>2. CASE r.cell # capture.cell
          BY <2>3, <4>1, <4>2
        <4>3. CASE r.cell = capture.cell
          <5>1. ~c.compliant
            BY <2>1, <4>1, <4>3 DEF Kept, KeptInBatch, Followed
          <5>2. QED
            BY <2>3, <4>1, <4>3, <5>1
        <4>4. QED
          BY <4>2, <4>3
      <3>2. QED
        BY <1>1, <2>3, <3>1 DEF FragmentsKnown
    <2>6. RecordedInBatch'
      <3>1. CellsIn(job'.finalizing) = CellsIn(job.finalizing) \cup {capture.cell}
        BY <1>14 DEF Works, CellsIn
      <3>2. capture.cell \notin CellsIn(job.results)
        BY <1>1, <2>1, FrontierIsNew DEF Recorded, RecordedInBatch
      <3>3. job'.finalizing \subseteq captures'
        <4>1. \A c \in job.finalizing : c.cell # capture.cell
          BY <2>1 DEF Recorded, RecordedInBatch, CellsIn
        <4>2. QED
          BY <1>14, <2>1, <2>3, <4>1 DEF Works, Recorded, RecordedInBatch
      <3>4. job'.done \subseteq fragments'
        BY <1>14, <2>1, <2>3 DEF Works, Recorded, RecordedInBatch
      <3>5. job'.queue \subseteq Frontier(job.results)' \ SourceCells'
        BY <1>1, <1>12, <1>14, <2>1 DEF Works, Recorded, RecordedInBatch
      <3>6. /\ job'.queue \cap (CellsIn(job'.finalizing) \cup CellsIn(job'.done)) = {}
            /\ CellsIn(job'.finalizing) \cap CellsIn(job'.done) = {}
            /\ CellsIn(job'.results) \cap (CellsIn(job'.finalizing) \cup CellsIn(job'.done)) = {}
        BY <1>14, <2>1, <3>1, <3>2 DEF Works, InBatch, Recorded, RecordedInBatch
      <3>7. QED
        BY <3>3, <3>4, <3>5, <3>6 DEF RecordedInBatch
    <2>7. QED
      BY <1>13, <2>1, <2>3, <2>4, <2>5, <2>6 DEF Recorded
  <1>15. ASSUME UNCHANGED <<captures, fragments>>, InBatch, job'.queue \subseteq job.queue,
                job'.finalizing \subseteq job.finalizing, job'.done = job.done
         PROVE  Recorded'
    <2>1. RecordedInBatch'
      <3>1. CellsIn(job'.finalizing) \subseteq CellsIn(job.finalizing) /\ job.step = "batch"
            /\ job'.results = job.results
        BY <1>15 DEF CellsIn, InBatch
      <3>2. job'.queue \subseteq Frontier(job.results)' \ SourceCells'
        BY <1>1, <1>12, <1>15, <3>1 DEF Recorded, RecordedInBatch
      <3>3. job'.done \subseteq fragments' /\ job'.finalizing \subseteq captures'
        BY <1>15, <3>1 DEF Recorded, RecordedInBatch
      <3>4. /\ job'.queue \cap (CellsIn(job'.finalizing) \cup CellsIn(job'.done)) = {}
            /\ CellsIn(job'.finalizing) \cap CellsIn(job'.done) = {}
            /\ CellsIn(job'.results) \cap (CellsIn(job'.finalizing) \cup CellsIn(job'.done)) = {}
        BY <1>15, <3>1 DEF Recorded, RecordedInBatch
      <3>5. QED
        BY <3>2, <3>3, <3>4 DEF RecordedInBatch
    <2>2. QED
      BY <1>3, <1>13, <1>15, <2>1 DEF Recorded
  <1>16. ASSUME NEW cell, GivesUp(cell) PROVE Recorded'
    BY <1>15, <1>16 DEF GivesUp
  <1>17. ASSUME NEW capture, NEW x, Judges(capture, x) PROVE Recorded'
    <2>1. /\ InBatch /\ job.step = "batch" /\ job'.step = "batch" /\ job'.results = job.results
             /\ report' = report
          /\ capture \in job.finalizing /\ job.finalizing \subseteq captures
          /\ job'.finalizing = job.finalizing \ {capture} /\ job'.done = job.done \cup {x}
          /\ job'.queue = job.queue /\ captures' = captures
      BY <1>17 DEF Judges, InBatch, Recorded, RecordedInBatch
    <2>2. FragmentsKnown' /\ CapturesKnown' /\ x.cell = capture.cell
      BY <1>1, <1>17, <2>1, FragmentReplaced DEF Judges, CapturesKnown
    <2>3. (\A r : Sure(r) /\ r.cell # x.cell => Sure(r)') /\ Sure(x)' /\ x \in fragments'
      BY <1>17, SureStays DEF Judges
    <2>4. x.cell \in CellsIn(job.finalizing) /\ x.cell \notin CellsIn(job.results) \cup CellsIn(job.done)
      <3>1. x.cell \in CellsIn(job.finalizing)
        BY <2>1, <2>2 DEF CellsIn
      <3>2. QED
        BY <2>1, <3>1 DEF Recorded, RecordedInBatch
    <2>5. RecordedInJob' /\ RecordedInReport' /\ RecordedInRecovery'
      <3>1. \A r \in job.results : Sure(r) /\ r.cell # x.cell
        BY <2>1, <2>4 DEF Recorded, RecordedInJob, CellsIn
      <3>2. report # NoReport => \A r \in report.results : Sure(r) /\ r.cell # x.cell
        BY <2>1, <2>4 DEF Recorded, RecordedInReport, CellsIn
      <3>3. report # NoReport => CellsIn(report.results) \subseteq CellsIn(job.results)
        BY <2>1 DEF Recorded, RecordedInReport
      <3>4. QED
        BY <2>1, <2>3, <3>1, <3>2, <3>3 DEF RecordedInJob, RecordedInReport, RecordedInRecovery, NoReport
    <2>6. RecordedInBatch'
      <3>1. CellsIn(job'.done) = CellsIn(job.done) \cup {x.cell}
        BY <2>1 DEF CellsIn
      <3>2. CellsIn(job'.finalizing) \subseteq CellsIn(job.finalizing) \ {x.cell}
        BY <2>1, <2>2 DEF CellsIn, Kept, OneCapture
      <3>3. job'.queue \subseteq Frontier(job.results)' \ SourceCells'
        BY <1>1, <1>12, <2>1 DEF Recorded, RecordedInBatch
      <3>4. job'.done \subseteq fragments' /\ job'.finalizing \subseteq captures'
        <4>1. \A r \in job.done : r \in fragments /\ r.cell # x.cell
          BY <2>1, <2>4 DEF Recorded, RecordedInBatch, CellsIn
        <4>2. \A r \in fragments : r.cell # x.cell => r \in fragments'
          BY <1>17 DEF Judges, Replaced, CellsIn
        <4>3. QED
          BY <2>1, <2>3, <4>1, <4>2
      <3>5. /\ job'.queue \cap (CellsIn(job'.finalizing) \cup CellsIn(job'.done)) = {}
            /\ CellsIn(job'.finalizing) \cap CellsIn(job'.done) = {}
            /\ CellsIn(job'.results) \cap (CellsIn(job'.finalizing) \cup CellsIn(job'.done)) = {}
        <4>1. /\ job.queue \cap (CellsIn(job.finalizing) \cup CellsIn(job.done)) = {}
              /\ CellsIn(job.finalizing) \cap CellsIn(job.done) = {}
              /\ CellsIn(job.results) \cap (CellsIn(job.finalizing) \cup CellsIn(job.done)) = {}
          BY <2>1 DEF Recorded, RecordedInBatch
        <4>2. x.cell \notin job.queue
          BY <2>4, <4>1
        <4>3. job'.queue \cap (CellsIn(job'.finalizing) \cup CellsIn(job'.done)) = {}
          <5>1. \A c \in job.queue : c \notin CellsIn(job.finalizing) /\ c \notin CellsIn(job.done)
                /\ c # x.cell
            BY <4>1, <4>2
          <5>2. QED
            BY <2>1, <3>1, <3>2, <5>1
        <4>4. CellsIn(job'.finalizing) \cap CellsIn(job'.done) = {}
          BY <3>1, <3>2, <4>1
        <4>5. CellsIn(job'.results) \cap (CellsIn(job'.finalizing) \cup CellsIn(job'.done)) = {}
          <5>1. \A c \in CellsIn(job.results) : c \notin CellsIn(job.finalizing)
                /\ c \notin CellsIn(job.done) /\ c # x.cell
            BY <2>4, <4>1
          <5>2. QED
            BY <2>1, <3>1, <3>2, <5>1
        <4>6. QED
          BY <4>3, <4>4, <4>5
      <3>6. QED
        BY <3>3, <3>4, <3>5 DEF RecordedInBatch
    <2>7. QED
      BY <2>2, <2>5, <2>6 DEF Recorded
  <1>18. ASSUME NEW capture, Raises(capture) PROVE Recorded'
    BY <1>15, <1>18 DEF Raises
  <1>19. CASE Ends
    <2>1. job.step = "batch" /\ job'.step = "trace" /\ job'.results = Replaced(job.results, job.done)
          /\ UNCHANGED <<captures, fragments, report>>
      BY <1>19 DEF Ends
    <2>2. \A r \in job'.results : Sure(r)
      BY <2>1 DEF Recorded, RecordedInJob, RecordedInBatch, Sure, Replaced
    <2>3. CellsIn(job.results) \subseteq CellsIn(job'.results)
      BY <2>1, ReplacedCells
    <2>4. RecordedInReport' /\ RecordedInJob'
      BY <1>2, <2>1, <2>2, <2>3 DEF Recorded, RecordedInReport, RecordedInJob
    <2>5. QED
      BY <1>3, <2>1, <2>4 DEF Recorded, RecordedInRecovery, RecordedInBatch
  <1>20. CASE Rests
    <2>1. PICK results : results = job.results
      OBVIOUS
    <2>2. Frontier(results)' = Frontier(results) /\ job' = job
      BY <1>20, SameFrontier DEF Rests
    <2>3. RecordedInBatch'
      BY <1>1, <1>20, <2>1, <2>2 DEF Rests, Recorded, RecordedInBatch
    <2>4. QED
      BY <1>2, <1>3, <1>20, <2>3 DEF Rests, Recorded, RecordedInReport, RecordedInJob, RecordedInRecovery
  <1>21. QED
    BY <1>5, <1>6, <1>7, <1>8, <1>9, <1>10, <1>11, <1>14, <1>16, <1>17, <1>18, <1>19, <1>20 DEF Steps

(***************************************************************************)
(* A run that resumes another has a result of whatever has been captured.   *)
(***************************************************************************)
Whole == Screening \/ (job.attempts # {} /\ ~job.gap)

Gathered ==
  /\ job.step = "recover" /\ ~job.reclassify =>
       CellsIn(captures) \subseteq CellsIn(job.results) \cup CellsIn(job.recover)
  /\ job.step = "trace" =>
       /\ job.then = "frontier" => ~job.gap
       /\ Whole => CellsIn(captures) \subseteq CellsIn(job.results)
  /\ job.step = "batch" /\ Whole /\ ~job.raised =>
       CellsIn(captures) \subseteq CellsIn(job.results) \cup CellsIn(job.finalizing) \cup CellsIn(job.done)

(* Nothing that was captured is lost between the steps of a run that goes   *)
(* on.                                                                      *)
LEMMA GatheredHolds ==
  ASSUME Shaped, Recorded, Gathered, Steps, scenario' = scenario, Planned' = Planned
  PROVE  Gathered'
  <1>1. Screening' = Screening
    BY DEF Screening
  <1>2. CASE Starts
    <2>1. CellsIn(captures) \subseteq CellsIn(Restored) \cup CellsIn(Recoverable(Restored))
      BY DEF Recoverable, CellsIn, Recorded, CapturesKnown
    <2>2. QED
      BY <1>2, <2>1 DEF Starts, Gathered
  <1>3. ASSUME NEW capture, NEW x, TakesOver(capture, x) PROVE Gathered'
    <2>1. x.cell = capture.cell
      BY <1>3 DEF TakesOver, Finalized
    <2>2. ASSUME ~job.reclassify
          PROVE  CellsIn(captures) \subseteq CellsIn(job'.results) \cup CellsIn(job'.recover)
      <3>1. CellsIn(captures) \subseteq CellsIn(job.results) \cup CellsIn(job.recover)
        BY <1>3, <2>2 DEF TakesOver, Gathered
      <3>2. CellsIn(job.results) \cup {capture.cell} \subseteq CellsIn(job'.results)
        BY <1>3, <2>1, <2>2 DEF TakesOver, CellsIn
      <3>3. CellsIn(job.recover) \subseteq {capture.cell} \cup CellsIn(job'.recover)
        BY <1>3 DEF TakesOver, CellsIn
      <3>4. QED
        BY <3>1, <3>2, <3>3
    <2>3. QED
      BY <1>3, <2>2 DEF TakesOver, Gathered
  <1>4. CASE Resumes
    <2>1. Whole' => ~job.reclassify
      BY <1>1, <1>4 DEF Resumes, Whole, Screening, Recorded, RecordedInRecovery
    <2>2. CellsIn(job.recover) = {}
      BY <1>4 DEF Resumes, CellsIn
    <2>3. QED
      BY <1>4, <2>1, <2>2 DEF Resumes, Gathered
  <1>5. CASE Tells
    <2>1. Whole' = Whole
      BY <1>1, <1>5 DEF Tells, Whole
    <2>2. QED
      BY <1>5, <2>1 DEF Tells, Gathered
  <1>6. CASE Stops
    BY <1>6 DEF Stops, Gathered
  <1>7. ASSUME NEW new, Adopts(new) PROVE Gathered'
    <2>1. Whole' = Whole /\ CellsIn(job.results) \subseteq CellsIn(job'.results)
      BY <1>1, <1>7 DEF Adopts, Whole, CellsIn
    <2>2. QED
      BY <1>7, <2>1 DEF Adopts, Gathered
  <1>8. CASE Queues
    <2>1. Whole' => Whole
      BY <1>1, <1>8 DEF Queues, Whole, Gathered
    <2>2. QED
      BY <1>8, <2>1 DEF Queues, Gathered
  <1>9. ASSUME NEW capture, Works(capture) PROVE Gathered'
    <2>1. Whole' = Whole /\ job.step = "batch" /\ job'.step = "batch" /\ job'.results = job.results
      BY <1>1, <1>9 DEF Works, InBatch, Whole
    <2>2. /\ CellsIn(captures') = CellsIn(captures) \cup {capture.cell}
          /\ CellsIn(job'.finalizing) = CellsIn(job.finalizing) \cup {capture.cell}
      <3>1. CellsIn({capture}) = {capture.cell}
            /\ CellsIn(job'.finalizing) = CellsIn(job.finalizing) \cup {capture.cell}
        BY <1>9 DEF Works, CellsIn
      <3>2. CellsIn(captures') = CellsIn(captures) \cup CellsIn({capture})
        BY <1>9, ReplacedCells DEF Works
      <3>3. QED
        BY <3>1, <3>2
    <2>3. QED
      BY <1>9, <2>1, <2>2 DEF Works, Gathered
  <1>10. ASSUME NEW cell, GivesUp(cell) PROVE Gathered'
    <2>1. Whole' => Whole
      BY <1>1, <1>10 DEF GivesUp, Whole
    <2>2. QED
      BY <1>10, <2>1 DEF GivesUp, InBatch, Gathered
  <1>11. ASSUME NEW capture, NEW x, Judges(capture, x) PROVE Gathered'
    <2>1. Whole' = Whole /\ job.step = "batch" /\ job'.step = "batch" /\ job'.results = job.results
      BY <1>1, <1>11 DEF Judges, InBatch, Whole
    <2>2. x.cell = capture.cell
      BY <1>11 DEF Judges, Finalized
    <2>3. CellsIn(job.finalizing) \cup CellsIn(job.done) \subseteq CellsIn(job'.finalizing) \cup CellsIn(job'.done)
      BY <1>11, <2>2 DEF Judges, CellsIn
    <2>4. QED
      BY <1>11, <2>1, <2>3 DEF Judges, Gathered
  <1>12. ASSUME NEW capture, Raises(capture) PROVE Gathered'
    BY <1>12 DEF Raises, InBatch, Gathered
  <1>13. CASE Ends
    <2>1. Whole' = Whole /\ CellsIn(job.finalizing) = {}
      BY <1>1, <1>13 DEF Ends, Whole, CellsIn
    <2>2. CellsIn(job'.results) = CellsIn(job.results) \cup CellsIn(job.done)
      BY <1>13, ReplacedCells DEF Ends
    <2>3. QED
      BY <1>13, <2>1, <2>2 DEF Ends, Gathered
  <1>14. CASE Rests
    BY <1>1, <1>14 DEF Rests, Gathered, Whole
  <1>15. QED
    BY <1>2, <1>3, <1>4, <1>5, <1>6, <1>7, <1>8, <1>9, <1>10, <1>11, <1>12, <1>13, <1>14 DEF Steps

(* A cell has one trace.                                                   *)
OneLine == \A m, n \in DOMAIN log : log[m].cell = log[n].cell => m = n

(* The log never has a second trace of a cell, and no line of it changes.   *)
LEMMA OneLineHolds ==
  ASSUME LogIsWhole, OneLine, Steps
  PROVE  /\ OneLine'
         /\ \A n \in DOMAIN log : n \in DOMAIN log' /\ log'[n] = log[n]
  <1>1. CASE log' = log
    BY <1>1 DEF OneLine
  <1>2. ASSUME NEW r, log' = Appended(log, TraceOf(r))
        PROVE  /\ OneLine'
               /\ \A n \in DOMAIN log : n \in DOMAIN log' /\ log'[n] = log[n]
    <2>1. CASE AppendAnswer(log, TraceOf(r)) # "appended"
      BY <1>2, <2>1 DEF Appended, OneLine
    <2>2. CASE AppendAnswer(log, TraceOf(r)) = "appended"
      <3>1. log' = Append(log, TraceOf(r)) /\ ~Holds(log, TraceOf(r).cell)
        BY <1>2, <2>2 DEF Appended, AppendAnswer
      <3>2. PICK t : t = TraceOf(r)
        OBVIOUS
      <3>3. /\ DOMAIN log = 1..Len(log) /\ Len(log) \in Nat
            /\ DOMAIN log' = 1..(Len(log) + 1) /\ log'[Len(log) + 1] = t
            /\ \A n \in 1..Len(log) : log'[n] = log[n]
        <4>1. log \in Seq(ToSet(log) \cup {t})
          BY DEF LogIsWhole
        <4>2. QED
          BY <3>1, <3>2, <4>1
      <3>4. \A n \in DOMAIN log : log[n].cell # t.cell
        BY <3>1, <3>2 DEF Holds
      <3>5. QED
        BY <3>3, <3>4 DEF OneLine
    <2>3. QED
      BY <2>1, <2>2
  <1>3. log' = log \/ \E r : log' = Appended(log, TraceOf(r))
    BY DEF Steps, Starts, TakesOver, Resumes, Tells, Stops, Adopts, Queues, Works, GivesUp, Judges, Raises,
       InBatch, Ends, Rests
  <1>4. QED
    BY <1>1, <1>2, <1>3

(***************************************************************************)
(* The rounds of the correction.                                           *)
(***************************************************************************)
(* Its ablations are of repetitions 1 to Rounds; those of a capability      *)
(* differ in nothing else.                                                  *)
IsCorrection == scenario.runner = "correction"

(* What a cell is compared with is of its task and its repetition.          *)
LEMMA PartnerParts ==
  ASSUME NEW c
  PROVE  /\ Partner(c).task = c.task /\ Partner(c).repetition = c.repetition
         /\ IsCorrection => Partner(c).policy = "forced" /\ Partner(c) = ForcedFor(c)
         /\ scenario.runner = "confirmation" => Partner(c) = ForcedFor(c)
         /\ Screening => Partner(c).policy = "active"
  <1>1. Partner(c).task = c.task /\ Partner(c).repetition = c.repetition
    BY Zenon DEF Partner
  <1>2. scenario.runner # "screening" => Partner(c).policy = "forced" /\ Partner(c) = ForcedFor(c)
    BY Zenon DEF Partner, ForcedFor
  <1>3. scenario.runner = "screening" => Partner(c).policy = "active"
    BY Zenon DEF Partner
  <1>4. QED
    BY <1>1, <1>2, <1>3 DEF IsCorrection, Screening

(* The plan of the correction has each ablation in every repetition, in one *)
(* task.                                                                    *)
LEMMA CorrectionCells ==
  ASSUME scenario \in Scenarios, IsCorrection, NEW c \in CellsOf("ablation")
  PROVE  /\ c.repetition \in 1..Rounds /\ c.policy = "ablation" /\ c.of \in Capabilities
         /\ Partner(c) \in CellsOf("forced")
         /\ \A n \in 1..Rounds : /\ Earlier(c, n) \in CellsOf("ablation")
                                 /\ Earlier(c, n).of = c.of /\ Earlier(c, n).repetition = n
         /\ \A d \in CellsOf("ablation") : c.of = d.of => d = Earlier(c, d.repetition)
  <1> DEFINE ablations == CellsOf("ablation")
  <1>1. /\ \A d \in ablations : d.repetition \in 1..Rounds /\ d.policy = "ablation" /\ Cell(d)
        /\ CellsOf("forced") = {ForcedFor(d) : d \in ablations}
        /\ \A d \in ablations, n \in 1..Rounds : [d EXCEPT !.repetition = n] \in ablations
        /\ \A d, e \in ablations : d.of = e.of => d.task = e.task
    <2>1. PICK cells : cells = ToSet(scenario.schedule)
      OBVIOUS
    <2>2. CorrectionPlan(cells) /\ \A d \in cells : Cell(d) /\ d.repetition \in 1..Rounds
      BY <2>1, RunnerAssumption DEF IsCorrection
    <2>3. Planned = cells
      BY <2>1 DEF Planned, IsCorrection
    <2>4. ablations = {d \in cells : d.policy = "ablation"}
          /\ CellsOf("forced") = {d \in cells : d.policy = "forced"}
      BY <2>3 DEF CellsOf
    <2> HIDE DEF ablations
    <2>5. \A d \in ablations : d.repetition \in 1..Rounds /\ d.policy = "ablation" /\ Cell(d)
      BY <2>2, <2>4
    <2>6. CellsOf("forced") = {ForcedFor(d) : d \in ablations}
      BY <2>2, <2>4, Zenon DEF CorrectionPlan
    <2>7. \A d \in ablations, n \in 1..Rounds : [d EXCEPT !.repetition = n] \in ablations
      BY <2>2, <2>4, Zenon DEF CorrectionPlan
    <2>8. \A d, e \in ablations : d.of = e.of => d.task = e.task
      BY <2>2, <2>4, Zenon DEF CorrectionPlan
    <2>9. QED
      BY <2>5, <2>6, <2>7, <2>8, Zenon
  <1>2. Partner(c) \in CellsOf("forced")
    BY <1>1, PartnerParts
  <1>3. ASSUME NEW n \in 1..Rounds
               PROVE Earlier(c, n) \in ablations /\ Earlier(c, n).of = c.of /\ Earlier(c, n).repetition = n
    BY <1>1 DEF Earlier, Cell
  <1>4. ASSUME NEW d \in ablations, c.of = d.of PROVE d = Earlier(c, d.repetition)
    <2>1. c.task = d.task /\ c.policy = d.policy /\ Cell(c) /\ Cell(d)
      BY <1>1, <1>4
    <2>2. c = [policy |-> c.policy, task |-> c.task, of |-> c.of, repetition |-> c.repetition]
      BY <2>1 DEF Cell
    <2>3. d = [policy |-> c.policy, task |-> c.task, of |-> c.of, repetition |-> d.repetition]
      BY <1>4, <2>1 DEF Cell
    <2>4. QED
      BY <2>2, <2>3 DEF Earlier
  <1>5. QED
    BY <1>1, <1>2, <1>3, <1>4 DEF Capabilities

(* What a round has left of an ablated cell and of the one it is compared with. *)
LEMMA RoundParts ==
  ASSUME scenario \in Scenarios, IsCorrection, NEW results, NEW c \in CellsOf("ablation"),
         c.repetition = 1 \/ c.of \in AtBoundary(results)
  PROVE  /\ CorrectionRound(results, c.repetition)[1] = {} => Partner(c) \in CellsIn(results)
         /\ CorrectionRound(results, c.repetition)[3] = {} => c \in CellsIn(results)
  <1> DEFINE n == c.repetition
             capabilities == IF n = 1 THEN Capabilities ELSE AtBoundary(results)
             off == {d \in CellsAt("ablation", n) : d.of \in capabilities}
             on == CellsAt("forced", n) \cap {Partner(d) : d \in off}
  <1>1. n \in 1..Rounds /\ c \in off
    BY CorrectionCells DEF CellsAt
  <1>2. Partner(c) \in on
    BY <1>1, CorrectionCells, PartnerParts DEF CellsAt
  <1>3. /\ CorrectionRound(results, n)[1] = Unobtained(results, on)
        /\ CorrectionRound(results, n)[3] = Unobtained(results, off)
    BY DEF CorrectionRound
  <1> HIDE DEF on, off
  <1>4. QED
    BY <1>1, <1>2, <1>3 DEF Unobtained

(* The runner has come to a cell: it is of no round, or it is of a round of *)
(* a capability that is still at the boundary, or of the first, and the     *)
(* rounds before have both their results.                                   *)
Reached(results, a) ==
  \/ a \in CellsOf("auto") \cup CellsOf("off")
  \/ \E c \in CellsOf("ablation") :
       /\ a = Partner(c) \/ (a = c /\ Partner(c) \in CellsIn(results))
       /\ c.repetition = 1 \/ c.of \in AtBoundary(results)
       /\ \A n \in 1..(c.repetition - 1) :
            Earlier(c, n) \in CellsIn(results) /\ Partner(Earlier(c, n)) \in CellsIn(results)

(* What the correction runs next it has come to: whatever precedes it in    *)
(* its capability has a result.                                             *)
LEMMA FrontierIsReached ==
  ASSUME scenario \in Scenarios, IsCorrection, NEW results, NEW a \in CorrectionFrontier(results)
  PROVE  Reached(results, a)
  <1> DEFINE auto == Unobtained(results, CellsOf("auto"))
             pending == {x \in (1..Rounds) \X (1..3) : CorrectionRound(results, x[1])[x[2]] # {}}
             first == CHOOSE x \in pending : \A y \in pending :
                        x[1] < y[1] \/ (x[1] = y[1] /\ x[2] <= y[2])
  <1>1. CorrectionFrontier(results) =
          IF auto # {} THEN {CHOOSE c \in auto : TRUE}
          ELSE IF pending = {} THEN {}
          ELSE {CHOOSE c \in CorrectionRound(results, first[1])[first[2]] : TRUE}
    BY Zenon DEF CorrectionFrontier
  <1>2. CASE auto # {}
    <2>1. a \in auto
      BY <1>1, <1>2
    <2>2. QED
      BY <2>1 DEF Reached, Unobtained
  <1>3. CASE auto = {}
    <2>1. pending # {} /\ a = CHOOSE c \in CorrectionRound(results, first[1])[first[2]] : TRUE
      <3> HIDE DEF pending, first, auto
      <3>1. QED
        BY <1>1, <1>3
    <2>2. first \in pending /\ \A y \in pending : first[1] < y[1] \/ (first[1] = y[1] /\ first[2] <= y[2])
      <3>1. pending \subseteq Nat \X Nat
        BY CausalAssumption
      <3> HIDE DEF pending
      <3>2. \E x \in pending : \A y \in pending : x[1] < y[1] \/ (x[1] = y[1] /\ x[2] <= y[2])
        BY <2>1, <3>1, LeastPair
      <3>3. QED
        BY <3>2, Zenon
    <2> HIDE DEF first
    <2>3. PICK m \in 1..Rounds, i \in 1..3 : first = <<m, i>> /\ CorrectionRound(results, m)[i] # {}
      BY <2>2
    <2>4. a \in CorrectionRound(results, m)[i]
      BY <2>1, <2>3
    <2>5. ASSUME NEW n \in 1..Rounds, NEW j \in 1..3, n < m \/ (n = m /\ j < i)
          PROVE  CorrectionRound(results, n)[j] = {}
      <3>1. <<n, j>> \notin pending
        <4> HIDE DEF pending
        <4>1. QED
          BY <2>2, <2>3, <2>5, CausalAssumption
      <3>2. QED
        BY <3>1
    <2>6. ASSUME NEW c \in CellsOf("ablation"), c.repetition = m, m = 1 \/ c.of \in AtBoundary(results),
                 NEW n \in 1..(m - 1)
          PROVE  Earlier(c, n) \in CellsIn(results) /\ Partner(Earlier(c, n)) \in CellsIn(results)
      <3>1. n \in 1..Rounds /\ n < m /\ m # 1
        BY CausalAssumption
      <3>2. /\ Earlier(c, n) \in CellsOf("ablation") /\ Earlier(c, n).repetition = n
            /\ Earlier(c, n).of \in AtBoundary(results)
        BY <2>6, <3>1, CorrectionCells
      <3>3. CorrectionRound(results, n)[1] = {} /\ CorrectionRound(results, n)[3] = {}
        BY <2>5, <3>1
      <3>4. QED
        BY <3>2, <3>3, RoundParts
    <2> DEFINE capabilities == IF m = 1 THEN Capabilities ELSE AtBoundary(results)
               off == {d \in CellsAt("ablation", m) : d.of \in capabilities}
               on == CellsAt("forced", m) \cap {Partner(d) : d \in off}
    <2>7. CorrectionRound(results, m) = <<Unobtained(results, on), Unobtained(results, CellsAt("off", m)), Unobtained(results, off)>>
      BY DEF CorrectionRound
    <2>8. \A c \in off : c \in CellsOf("ablation") /\ c.repetition = m
          /\ (m = 1 \/ c.of \in AtBoundary(results))
      BY DEF CellsAt
    <2>9. CASE i = 1
      <3>1. PICK c \in off : a = Partner(c)
        <4>1. a \in Unobtained(results, on)
          BY <2>4, <2>7, <2>9
        <4>2. QED
          BY <4>1 DEF Unobtained
      <3>2. QED
        BY <2>6, <2>8, <3>1 DEF Reached
    <2>10. CASE i = 2
      <3>1. a \in Unobtained(results, CellsAt("off", m))
        BY <2>4, <2>7, <2>10
      <3>2. QED
        BY <3>1 DEF Unobtained, CellsAt, Reached
    <2>11. CASE i = 3
      <3>1. a \in off
        <4>1. a \in Unobtained(results, off)
          BY <2>4, <2>7, <2>11
        <4>2. QED
          BY <4>1 DEF Unobtained
      <3>2. CorrectionRound(results, m)[1] = {}
        BY <2>5, <2>11
      <3>3. Partner(a) \in CellsIn(results)
        BY <2>8, <3>1, <3>2, RoundParts
      <3>4. QED
        BY <2>6, <2>8, <3>1, <3>3 DEF Reached
    <2>12. QED
      BY <2>9, <2>10, <2>11
  <1>4. QED
    BY <1>2, <1>3

(* When nothing is to be run, all that was reached has a result.            *)
LEMMA ReachedIsObtained ==
  ASSUME scenario \in Scenarios, IsCorrection, NEW results, CorrectionFrontier(results) = {},
         NEW a, Reached(results, a)
  PROVE  a \in CellsIn(results)
  <1>1. /\ CellsOf("auto") \subseteq CellsIn(results)
        /\ \A round \in 1..Rounds, n \in 1..3 : CorrectionRound(results, round)[n] = {}
    BY CorrectedRounds
  <1>2. ASSUME a \in CellsOf("off") PROVE a \in CellsIn(results)
    <2>1. a.repetition \in 1..Rounds
      BY <1>2, RunnerAssumption DEF CellsOf, Planned
    <2>2. CorrectionRound(results, a.repetition)[2] = {} /\ a \in CellsAt("off", a.repetition)
      BY <1>1, <1>2, <2>1 DEF CellsAt
    <2>3. QED
      BY <2>2 DEF CorrectionRound, Unobtained
  <1>3. ASSUME NEW c \in CellsOf("ablation"), a = Partner(c) \/ a = c,
               c.repetition = 1 \/ c.of \in AtBoundary(results)
        PROVE  a \in CellsIn(results)
    <2>1. CorrectionRound(results, c.repetition)[1] = {} /\ CorrectionRound(results, c.repetition)[3] = {}
      BY <1>1, CorrectionCells
    <2>2. QED
      BY <1>3, <2>1, RoundParts
  <1>4. QED
    BY <1>1, <1>2, <1>3 DEF Reached

(***************************************************************************)
(* What pairs say of a capability.                                         *)
(***************************************************************************)
Single(results) == \A r, q \in results : r.cell = q.cell => r = q
Firm(results) == \A r \in results : r.outcome # "none"
Paired(results, k) == {c \in Ablations(k) : c \in CellsIn(results) /\ Partner(c) \in CellsIn(results)}

(* Results that are kept are one of a cell and have an outcome.             *)
LEMMA SureResults ==
  ASSUME Recorded, scenario \in Scenarios, NEW results, \A r \in results : Sure(r)
  PROVE  Single(results) /\ Firm(results)
  BY Known, OneResult DEF Single, Firm

(* The result of a cell is the one there is.                                *)
LEMMA ResultAt ==
  ASSUME NEW results, Single(results), NEW r \in results
  PROVE  ResultOf(results, r.cell) = r /\ OutcomeIn(results, r.cell) = r.outcome
         /\ r.cell \in CellsIn(results)
  <1>1. r.cell \in CellsIn(results)
    BY DEF CellsIn
  <1>2. ResultOf(results, r.cell) \in results /\ ResultOf(results, r.cell).cell = r.cell
    BY Zenon DEF ResultOf
  <1>3. ResultOf(results, r.cell) = r
    BY <1>2 DEF Single
  <1>4. QED
    BY <1>1, <1>3 DEF OutcomeIn

(* A cell has an outcome if it has a result.                                *)
LEMMA OutcomeKnown ==
  ASSUME NEW results, Firm(results), NEW c
  PROVE  OutcomeIn(results, c) # "none" <=> c \in CellsIn(results)
  <1>1. c \in CellsIn(results) => ResultOf(results, c) \in results
    BY Zenon DEF ResultOf, CellsIn
  <1>2. QED
    BY <1>1 DEF OutcomeIn, Firm

(* Results that are added leave those of the other cells what they are.    *)
LEMMA ResultStays ==
  ASSUME NEW results, NEW more, results \subseteq more, Single(more), NEW c \in CellsIn(results)
  PROVE  /\ c \in CellsIn(more) /\ ResultOf(more, c) = ResultOf(results, c)
         /\ OutcomeIn(more, c) = OutcomeIn(results, c)
         /\ Compliant(more, c) <=> Compliant(results, c)
  <1>1. PICK r \in results : r.cell = c
    BY DEF CellsIn
  <1>2. Single(results)
    BY DEF Single
  <1>3. /\ ResultOf(results, c) = r /\ OutcomeIn(results, c) = r.outcome
        /\ ResultOf(more, c) = r /\ OutcomeIn(more, c) = r.outcome /\ c \in CellsIn(more)
    BY <1>1, <1>2, ResultAt
  <1>4. QED
    BY <1>3 DEF Compliant

(* The fields of a pair.                                                    *)
LEMMA PairParts ==
  ASSUME NEW results, NEW c
  PROVE  /\ PairOf(results, c).task = c.task /\ PairOf(results, c).repetition = c.repetition
         /\ PairOf(results, c).on = OutcomeIn(results, Partner(c))
         /\ PairOf(results, c).off = OutcomeIn(results, c)
         /\ PairOf(results, c).compliant <=> (Compliant(results, c) /\ Compliant(results, Partner(c)))
  BY Zenon DEF PairOf

(* A pair is complete if both of its cells have results.                    *)
LEMMA CompleteOnes ==
  ASSUME NEW results, Firm(results), NEW k
  PROVE  CompletePairs(results, k) = {PairOf(results, c) : c \in Paired(results, k)}
  <1>1. \A c : PairOf(results, c).on # "none" /\ PairOf(results, c).off # "none"
                 <=> c \in CellsIn(results) /\ Partner(c) \in CellsIn(results)
    BY PairParts, OutcomeKnown
  <1>2. QED
    BY <1>1 DEF CompletePairs, Pairs, Paired

(* A pair leaves its capability undecided if it is compliant and shows      *)
(* neither a signal nor a gap.                                              *)
LEMMA AssessmentIs ==
  ASSUME NEW p
  PROVE  /\ Assessment(p) # "BOUNDARY_REQUIRES_NEXT_REPETITION" /\ Assessment(p) # "NOT_TESTED_INCOMPLETE"
         /\ p.compliant /\ Unsettled(p.on, p.off) <=> Assessment(p) = "NO_OBSERVED_CAUSAL_EFFECT_BOUNDARY"
         /\ Assessment(p) \in {"FORCED_USE_COMPLIANCE_FAILURE", "POSITIVE_CAUSAL_SIGNAL", "PI_CAPABILITY_GAP",
                               "NO_OBSERVED_CAUSAL_EFFECT_BOUNDARY"}
  BY DEF Assessment, Unsettled

(* A capability is at the boundary if every pair leaves it undecided and    *)
(* there are rounds left: a decided one never is.                           *)
LEMMA BoundaryIs ==
  ASSUME NEW pairs
  PROVE  /\ CapabilityDecision(pairs) = "BOUNDARY_REQUIRES_NEXT_REPETITION" <=>
              (\A p \in pairs : p.compliant /\ Unsettled(p.on, p.off)) /\ Cardinality(pairs) # Rounds
         /\ CapabilityDecision(pairs) # "NOT_TESTED_INCOMPLETE"
  <1> DEFINE classes == {Assessment(p) : p \in pairs}
             last == CHOOSE p \in pairs : \A q \in pairs : q.repetition <= p.repetition
  <1>1. CapabilityDecision(pairs) =
          IF "POSITIVE_CAUSAL_SIGNAL" \in classes THEN "PROCEED_TO_B0B_CAUSAL"
          ELSE IF {"FORCED_USE_COMPLIANCE_FAILURE", "PI_CAPABILITY_GAP"} \cap classes # {} THEN Assessment(last)
          ELSE IF Cardinality(pairs) = Rounds THEN "NO_CORRECTED_CAUSAL_SIGNAL"
          ELSE "BOUNDARY_REQUIRES_NEXT_REPETITION"
    BY DEF CapabilityDecision
  <1> HIDE DEF last
  <1>2. Assessment(last) # "BOUNDARY_REQUIRES_NEXT_REPETITION" /\ Assessment(last) # "NOT_TESTED_INCOMPLETE"
    BY AssessmentIs
  <1>3. (\A p \in pairs : p.compliant /\ Unsettled(p.on, p.off)) <=>
          /\ "POSITIVE_CAUSAL_SIGNAL" \notin classes
          /\ {"FORCED_USE_COMPLIANCE_FAILURE", "PI_CAPABILITY_GAP"} \cap classes = {}
    <2>1. \A p \in pairs : Assessment(p) \in classes
      OBVIOUS
    <2>2. \A x \in classes : \E p \in pairs : x = Assessment(p)
      OBVIOUS
    <2> HIDE DEF classes
    <2>3. \A x \in classes : x \in {"FORCED_USE_COMPLIANCE_FAILURE", "POSITIVE_CAUSAL_SIGNAL", "PI_CAPABILITY_GAP",
                               "NO_OBSERVED_CAUSAL_EFFECT_BOUNDARY"}
      BY <2>2, AssessmentIs
    <2>4. (\A p \in pairs : p.compliant /\ Unsettled(p.on, p.off)) <=> \A x \in classes : x = "NO_OBSERVED_CAUSAL_EFFECT_BOUNDARY"
      BY <2>1, <2>2, AssessmentIs
    <2>5. QED
      BY <2>3, <2>4
  <1> HIDE DEF classes
  <1>4. QED
    BY <1>1, <1>2, <1>3

(* At the boundary, every complete pair has left the capability undecided.  *)
LEMMA BoundaryMeans ==
  ASSUME NEW results, Firm(results), NEW k, StateOf(results, k) = "BOUNDARY_REQUIRES_NEXT_REPETITION",
         NEW c \in Paired(results, k)
  PROVE  /\ Compliant(results, c) /\ Compliant(results, Partner(c))
         /\ Unsettled(OutcomeIn(results, Partner(c)), OutcomeIn(results, c))
  <1>1. \A p \in CompletePairs(results, k) : p.compliant /\ Unsettled(p.on, p.off)
    BY BoundaryIs DEF StateOf
  <1>2. PairOf(results, c) \in CompletePairs(results, k)
    BY CompleteOnes
  <1>3. QED
    BY <1>1, <1>2, PairParts

(* And it is there if every complete pair has, and a round is left.         *)
LEMMA BoundaryWhen ==
  ASSUME NEW results, Firm(results), NEW k, Cardinality(CompletePairs(results, k)) # Rounds,
         \A c \in Paired(results, k) :
           /\ Compliant(results, c) /\ Compliant(results, Partner(c))
           /\ Unsettled(OutcomeIn(results, Partner(c)), OutcomeIn(results, c))
  PROVE  StateOf(results, k) = "BOUNDARY_REQUIRES_NEXT_REPETITION"
  <1>1. ASSUME NEW p \in CompletePairs(results, k) PROVE p.compliant /\ Unsettled(p.on, p.off)
    <2>1. PICK c \in Paired(results, k) : p = PairOf(results, c)
      BY CompleteOnes
    <2>2. QED
      BY <2>1, PairParts
  <1>2. QED
    BY <1>1, BoundaryIs DEF StateOf

(***************************************************************************)
(* A capability is ablated again only after rounds that left it undecided.  *)
(***************************************************************************)
LEMMA EarnedInit == Init => AblationsEarned
  BY DEF Init, AblationsEarned

(* It is so when the round begins, and stays so: what was compliant is not  *)
(* judged otherwise, and the log keeps its lines.                           *)
LEMMA EarnedHolds ==
  ASSUME Shaped, Kept, Traces, Recorded, OneLine, AblationsEarned, Steps, scenario' = scenario, Planned' = Planned
  PROVE  AblationsEarned'
  <1> SUFFICES ASSUME IsCorrection, NEW a \in captures', a.cell.policy = "ablation", NEW n \in 1..(a.cell.repetition - 1)
               PROVE  Undecided(Earlier(a.cell, n), Partner(Earlier(a.cell, n)))'
    <2>1. IsCorrection' <=> IsCorrection
      BY DEF IsCorrection
    <2>2. QED
      BY <2>1 DEF AblationsEarned, IsCorrection
  <1>1. scenario \in Scenarios /\ FragmentsKnown /\ CapturesKnown /\ OneCapture
    BY DEF Shaped, Recorded, Kept
  <1>2. PICK c, p : c = Earlier(a.cell, n) /\ p = Partner(Earlier(a.cell, n))
    OBVIOUS
  <1>3. c = Earlier(a.cell, n)' /\ p = Partner(Earlier(a.cell, n))'
    BY <1>2, SamePlace DEF Earlier
  <1>4. \A m \in DOMAIN log : m \in DOMAIN log' /\ log'[m] = log[m]
    BY OneLineHolds DEF Traces
  <1>5. ASSUME NEW d, Sound(d) PROVE Sound(d)'
    <2>1. PICK b \in captures, r \in fragments : b.cell = d /\ b.compliant /\ r.cell = d /\ r.compliant
      BY <1>5 DEF Sound
    <2>2. CASE UNCHANGED <<captures, fragments>>
      BY <2>1, <2>2 DEF Sound
    <2>3. ASSUME NEW capture, Works(capture) PROVE Sound(d)'
      <3>1. captures' = {x \in captures : x.cell # capture.cell} \cup {capture} /\ UNCHANGED fragments
        BY <2>3 DEF Works, Replaced, CellsIn
      <3>2. b.cell \notin job.queue /\ capture.cell \in job.queue
        BY <1>1, <2>1, <2>3 DEF Works, InBatch, Kept, KeptInBatch, Followed, CapturesKnown
      <3>3. QED
        BY <2>1, <3>1, <3>2 DEF Sound
    <2>4. ASSUME NEW capture \in captures, NEW x, x = Finalized(capture), fragments' = Replaced(fragments, {x}),
                 UNCHANGED captures
          PROVE  Sound(d)'
      <3>1. x.cell = capture.cell /\ (x.compliant <=> capture.compliant)
        BY <2>4 DEF Finalized
      <3>2. fragments' = {q \in fragments : q.cell # x.cell} \cup {x}
        BY <2>4 DEF Replaced, CellsIn
      <3>3. CASE d = x.cell
        <4>1. b = capture
          BY <1>1, <2>1, <3>1, <3>3 DEF OneCapture
        <4>2. QED
          BY <2>1, <2>4, <3>1, <3>2, <3>3, <4>1 DEF Sound
      <3>4. CASE d # x.cell
        BY <2>1, <2>4, <3>2, <3>4 DEF Sound
      <3>5. QED
        BY <3>3, <3>4
    <2>5. ASSUME NEW capture, NEW x, TakesOver(capture, x) PROVE Sound(d)'
      <3>1. capture \in captures
        BY <2>5 DEF TakesOver, Kept, KeptInRecovery
      <3>2. QED
        BY <2>4, <2>5, <3>1 DEF TakesOver
    <2>6. ASSUME NEW capture, NEW x, Judges(capture, x) PROVE Sound(d)'
      <3>1. capture \in captures
        BY <2>6 DEF Judges, InBatch, Recorded, RecordedInBatch
      <3>2. QED
        BY <2>4, <2>6, <3>1 DEF Judges
    <2>7. QED
      BY <2>2, <2>3, <2>5, <2>6 DEF Steps, Starts, Resumes, Tells, Stops, Adopts, Queues, GivesUp, Raises,
         Ends, Rests
  <1>6. ASSUME Undecided(c, p) PROVE Undecided(c, p)'
    <2>1. Sound(c)' /\ Sound(p)'
      BY <1>5, <1>6 DEF Undecided
    <2>2. PICK m, o \in DOMAIN log : /\ log[m].cell = p /\ log[o].cell = c
                                     /\ Unsettled(log[m].outcome, log[o].outcome)
      BY <1>6 DEF Undecided
    <2>3. /\ m \in DOMAIN log' /\ o \in DOMAIN log' /\ log'[m].cell = p /\ log'[o].cell = c
          /\ Unsettled(log'[m].outcome, log'[o].outcome)
      BY <1>4, <2>2
    <2>4. QED
      BY <2>1, <2>3 DEF Undecided
  <1>7. CASE a \in captures
    <2>1. Undecided(c, p)
      BY <1>2, <1>7 DEF AblationsEarned, IsCorrection
    <2>2. Undecided(c, p)'
      BY <1>6, <2>1
    <2>3. QED
      BY <1>3, <2>2 DEF Undecided, Sound
  <1>8. CASE a \notin captures
    <2>1. PICK capture : Works(capture)
      BY <1>8 DEF Steps, Starts, TakesOver, Resumes, Tells, Stops, Adopts, Queues, GivesUp, Judges, Raises,
         Ends, Rests
    <2>2. a = capture /\ a.cell \in job.queue /\ job.step = "batch"
      BY <1>8, <2>1 DEF Works, InBatch, Replaced, CellsIn
    <2>3. a.cell \in CorrectionFrontier(job.results)
      BY <2>2 DEF Recorded, RecordedInBatch, Frontier, IsCorrection
    <2>4. Reached(job.results, a.cell)
      BY <1>1, <2>3, FrontierIsReached
    <2> DEFINE R == job.results
    <2>5. /\ a.cell \in CellsOf("ablation")
          /\ a.cell.repetition = 1 \/ a.cell.of \in AtBoundary(R)
          /\ c \in CellsIn(R) /\ p \in CellsIn(R)
      <3>1. PICK d \in CellsOf("ablation") :
              /\ a.cell = Partner(d) \/ a.cell = d
              /\ d.repetition = 1 \/ d.of \in AtBoundary(R)
              /\ \A k \in 1..(d.repetition - 1) : Earlier(d, k) \in CellsIn(R)
                 /\ Partner(Earlier(d, k)) \in CellsIn(R)
        BY <2>4 DEF Reached, CellsOf
      <3>2. a.cell = d
        BY <3>1, PartnerParts
      <3>3. QED
        BY <1>2, <3>1, <3>2
    <2>6. a.cell.repetition \in 1..Rounds /\ n \in 1..Rounds /\ a.cell.repetition # 1
      BY <1>1, <2>5, CorrectionCells, CausalAssumption
    <2>7. PICK k : k = a.cell.of /\ StateOf(R, k) = "BOUNDARY_REQUIRES_NEXT_REPETITION"
      BY <2>5, <2>6 DEF AtBoundary
    <2>8. c \in Paired(R, k)
      BY <1>1, <1>2, <2>5, <2>6, <2>7, CorrectionCells DEF Paired, Ablations
    <2>9. \A r \in R : Sure(r)
      BY <2>2 DEF Recorded, RecordedInJob, Running
    <2>10. Single(R) /\ Firm(R)
      BY <1>1, <2>9, SureResults
    <2>11. Compliant(R, c) /\ Compliant(R, p) /\ Unsettled(OutcomeIn(R, p), OutcomeIn(R, c))
      BY <1>2, <2>7, <2>8, <2>10, BoundaryMeans
    <2>12. PICK r \in R, q \in R : r.cell = c /\ q.cell = p
      BY <2>5 DEF CellsIn
    <2>13. r.compliant /\ q.compliant /\ Unsettled(q.outcome, r.outcome)
      <3>1. /\ ResultOf(R, c) = r /\ OutcomeIn(R, c) = r.outcome
            /\ ResultOf(R, p) = q /\ OutcomeIn(R, p) = q.outcome
        BY <2>10, <2>12, ResultAt
      <3>2. QED
        BY <2>5, <2>11, <3>1 DEF Compliant
    <2>14. ASSUME NEW x \in R, x.compliant PROVE Sound(x.cell)
      <3>1. x \in fragments
        BY <1>1, <2>9, <2>14, Known DEF IsCorrection
      <3>2. QED
        BY <1>1, <2>14, <3>1 DEF Sound, FragmentsKnown
    <2>15. Traced(r) /\ Traced(q)
      BY <2>2, <2>12 DEF Traces, IsCorrection
    <2>16. Undecided(c, p)
      <3>1. PICK m, o \in DOMAIN log : /\ log[m].cell = q.cell /\ log[m].outcome = q.outcome
                                       /\ log[o].cell = r.cell /\ log[o].outcome = r.outcome
        BY <2>15 DEF Traced
      <3>2. QED
        BY <2>12, <2>13, <2>14, <3>1 DEF Undecided
    <2>17. Undecided(c, p)'
      BY <1>6, <2>16
    <2>18. QED
      BY <1>3, <2>17 DEF Undecided, Sound
  <1>9. QED
    BY <1>7, <1>8

(* A complete pair stays what it is when results are added.                 *)
LEMMA PairStays ==
  ASSUME NEW results, NEW more, results \subseteq more, Single(more),
         NEW c \in CellsIn(results), Partner(c) \in CellsIn(results)
  PROVE  PairOf(more, c) = PairOf(results, c)
  <1>1. /\ OutcomeIn(more, c) = OutcomeIn(results, c)
        /\ OutcomeIn(more, Partner(c)) = OutcomeIn(results, Partner(c))
        /\ Compliant(more, c) <=> Compliant(results, c)
        /\ Compliant(more, Partner(c)) <=> Compliant(results, Partner(c))
    BY ResultStays
  <1>2. (Compliant(more, c) /\ Compliant(more, Partner(c))) = (Compliant(results, c) /\ Compliant(results, Partner(c)))
    BY <1>1
  <1>3. QED
    BY <1>1, <1>2, Zenon DEF PairOf

(* A cell that was reached and is not run yet stays reached: none of the    *)
(* later rounds of its capability has begun, so the pairs that left it at   *)
(* the boundary are all there are.                                          *)
LEMMA ReachedStays ==
  ASSUME scenario \in Scenarios, IsCorrection, AblationsEarned, NEW results, NEW more, results \subseteq more,
         Single(more), Firm(more), CellsIn(more) \subseteq CellsIn(captures),
         NEW a, a \notin CellsIn(captures), Reached(results, a)
  PROVE  Reached(more, a)
  <1>1. CASE a \in CellsOf("auto") \cup CellsOf("off")
    BY <1>1 DEF Reached
  <1>2. CASE a \notin CellsOf("auto") \cup CellsOf("off")
    <2>1. PICK c \in CellsOf("ablation") :
            /\ a = Partner(c) \/ (a = c /\ Partner(c) \in CellsIn(results))
            /\ c.repetition = 1 \/ c.of \in AtBoundary(results)
            /\ \A n \in 1..(c.repetition - 1) :
                 Earlier(c, n) \in CellsIn(results) /\ Partner(Earlier(c, n)) \in CellsIn(results)
      BY <1>2 DEF Reached
    <2>2. Firm(results) /\ CellsIn(results) \subseteq CellsIn(more)
      BY DEF Firm, CellsIn
    <2>3. CellsIn(more) \subseteq CellsIn(captures)
      OBVIOUS
    <2>4. PICK k, p : k = c.of /\ p = Partner(c)
      OBVIOUS
    <2>5. ASSUME Sound(c), Sound(p) PROVE FALSE
      <3>1. c \in CellsIn(captures) /\ p \in CellsIn(captures)
        BY <2>5 DEF Sound, CellsIn
      <3>2. QED
        BY <2>1, <2>4, <3>1
    <2>6. ASSUME NEW d \in Paired(more, k) PROVE d \in Paired(results, k)
      <3>1. d \in CellsOf("ablation") /\ d.of = c.of /\ d \in CellsIn(more) /\ Partner(d) \in CellsIn(more)
        BY <2>4, <2>6 DEF Paired, Ablations
      <3>2. /\ d = Earlier(c, d.repetition) /\ c = Earlier(d, c.repetition)
            /\ d.repetition \in 1..Rounds /\ c.repetition \in 1..Rounds /\ d.policy = "ablation"
        BY <3>1, CorrectionCells
      <3>3. Rounds \in Nat
        BY CausalAssumption
      <3>4. CASE d.repetition < c.repetition
        <4>1. d.repetition \in 1..(c.repetition - 1)
          BY <3>2, <3>3, <3>4
        <4>2. d \in CellsIn(results) /\ Partner(d) \in CellsIn(results)
          BY <2>1, <3>2, <4>1
        <4>3. QED
          BY <2>6, <4>2 DEF Paired
      <3>5. CASE d.repetition = c.repetition
        <4>1. d = c
          BY <3>2, <3>5, CorrectionCells
        <4>2. QED
          BY <2>1, <2>3, <3>1, <4>1
      <3>6. CASE d.repetition > c.repetition
        <4>1. PICK b \in captures : b.cell = d
          BY <2>3, <3>1 DEF CellsIn
        <4>2. c.repetition \in 1..(d.repetition - 1)
          BY <3>2, <3>3, <3>6
        <4>3. Undecided(c, p)
          BY <2>4, <3>2, <4>1, <4>2 DEF AblationsEarned, IsCorrection
        <4>4. QED
          BY <2>5, <4>3 DEF Undecided
      <3>7. QED
        BY <3>2, <3>3, <3>4, <3>5, <3>6
    <2>7. Paired(results, k) = Paired(more, k)
      <3>1. Paired(results, k) \subseteq Paired(more, k)
        BY <2>2 DEF Paired
      <3>2. QED
        BY <2>6, <3>1
    <2>8. \A d \in Paired(results, k) : PairOf(more, d) = PairOf(results, d)
      BY <2>2, PairStays DEF Paired
    <2>9. CompletePairs(more, k) = CompletePairs(results, k)
      <3>1. /\ CompletePairs(more, k) = {PairOf(more, d) : d \in Paired(results, k)}
            /\ CompletePairs(results, k) = {PairOf(results, d) : d \in Paired(results, k)}
        BY <2>2, <2>7, CompleteOnes
      <3>2. QED
        BY <2>8, <3>1
    <2>10. c.of \in AtBoundary(results) => c.of \in AtBoundary(more)
      BY <2>4, <2>9 DEF AtBoundary, StateOf
    <2>11. QED
      BY <2>1, <2>2, <2>10 DEF Reached
  <1>3. QED
    BY <1>1, <1>2

(***************************************************************************)
(* What the screening has begun it goes on with.                           *)
(***************************************************************************)
(* A planned cell is one of the schedule, and is no more than its four      *)
(* fields.                                                                  *)
LEMMA PlannedCell ==
  ASSUME scenario \in Scenarios, NEW c \in Planned
  PROVE  Cell(c) /\ c.repetition \in 1..Rounds /\ c \in ToSet(scenario.schedule)
  BY RunnerAssumption DEF Planned

(* The screening ablates one capability, and tries depths in one task.      *)
LEMMA ScreenedCells ==
  ASSUME scenario \in Scenarios, Screening
  PROVE  /\ \A c, d \in CellsOf("ablation") : c.of = d.of
         /\ \A c, d \in CellsOf("depth") : c.task = d.task /\ c.of \in Nat
  <1>1. PICK cells : cells = ToSet(scenario.schedule)
    OBVIOUS
  <1>2. ScreeningPlan(cells, scenario.used) /\ DOMAIN scenario.outputs \subseteq Nat
    BY <1>1, RunnerAssumption DEF Screening
  <1>3. ASSUME NEW c \in CellsOf("ablation")
               PROVE c \in cells /\ c.policy = "ablation" /\ c.of \in scenario.used
    <2>1. c \in cells /\ c.policy = "ablation" /\ PlanSkip(c) = "none"
      BY <1>1, <1>3 DEF CellsOf, Planned, Screening
    <2>2. QED
      BY <2>1 DEF PlanSkip
  <1>4. ASSUME NEW c \in CellsOf("depth")
               PROVE c \in cells /\ c.policy = "depth" /\ c.of \in DOMAIN scenario.outputs
    <2>1. c \in cells /\ c.policy = "depth" /\ PlanSkip(c) = "none"
      BY <1>1, <1>4 DEF CellsOf, Planned, Screening
    <2>2. QED
      BY <2>1 DEF PlanSkip, Representatives
  <1>5. QED
    BY <1>2, <1>3, <1>4 DEF ScreeningPlan

(* The pairs of one capability are as many as its cells that make them.    *)
LEMMA PairsCount ==
  ASSUME scenario \in Scenarios, NEW C, C \subseteq CellsOf("ablation"), \A c, d \in C : c.of = d.of, NEW results
  PROVE  /\ IsFiniteSet({PairOf(results, c) : c \in C}) /\ IsFiniteSet(C)
         /\ Cardinality({PairOf(results, c) : c \in C}) = Cardinality(C)
  <1> DEFINE pairs == {PairOf(results, c) : c \in C}
  <1>1. IsFiniteSet(C)
    BY PlanIsFinite, FS_Subset DEF CellsOf
  <1>2. PICK f : f = [c \in C |-> PairOf(results, c)]
    OBVIOUS
  <1>3. ASSUME NEW c \in C, NEW d \in C, PairOf(results, c) = PairOf(results, d) PROVE c = d
    <2>1. c.task = d.task /\ c.repetition = d.repetition
      BY <1>3, PairParts
    <2>2. Cell(c) /\ Cell(d) /\ c.policy = d.policy /\ c.of = d.of
      BY PlannedCell DEF CellsOf
    <2>3. QED
      BY <2>1, <2>2 DEF Cell
  <1>4. f \in Bijection(C, pairs)
    BY <1>2, <1>3 DEF Bijection, Injection, Surjection, IsInjective
  <1> HIDE DEF pairs
  <1>5. IsFiniteSet(pairs) /\ Cardinality(pairs) = Cardinality(C)
    BY <1>1, <1>4, FS_Bijection DEF ExistsBijection
  <1>6. QED
    BY <1>1, <1>5 DEF pairs

(* One depth cell is run at a time: depths are tried from the least.        *)
LEMMA DepthIsOne ==
  ASSUME scenario \in Scenarios, Screening, NEW results,
         NEW c \in DepthFrontier(results), NEW d \in DepthFrontier(results)
  PROVE  c = d
  <1>1. ASSUME NEW b \in DepthFrontier(results)
        PROVE  /\ b \in CellsOf("depth") /\ b.repetition = Len(Observed(results, b.of)) + 1
               /\ Verdict(results, b.of) = "open"
               /\ \A e \in Depths : e < b.of => Verdict(results, e) = "insufficient"
    BY <1>1, Zenon DEF DepthFrontier
  <1>2. c.of \in Depths /\ d.of \in Depths
    BY <1>1, Zenon DEF Depths
  <1>3. c.of \in Nat /\ d.of \in Nat /\ c.task = d.task
    BY <1>1, ScreenedCells
  <1>4. c.of = d.of
    <2>1. ~(c.of < d.of) /\ ~(d.of < c.of)
      BY <1>1, <1>2
    <2>2. QED
      BY <1>3, <2>1
  <1>5. c.repetition = d.repetition
    BY <1>1, <1>4
  <1>6. Cell(c) /\ Cell(d) /\ c.policy = d.policy
    BY <1>1, PlannedCell DEF CellsOf
  <1>7. QED
    BY <1>3, <1>4, <1>5, <1>6 DEF Cell

(* Results of the same cells are the same.                                  *)
LEMMA SameCells ==
  ASSUME NEW results, NEW more, results \subseteq more, Single(more), CellsIn(more) \subseteq CellsIn(results)
  PROVE  more = results
  BY DEF Single, CellsIn

(* While a round of the ablation runs, those before it say what they said. *)
LEMMA RoundStays ==
  ASSUME scenario \in Scenarios, Screening, NEW results, NEW more, results \subseteq more, Single(more),
         NEW round \in 1..Rounds, CellsIn(more) \subseteq CellsIn(results) \cup RoundCells(results, round)
  PROVE  /\ \A q \in 1..(round - 1) : Continues(more, q) <=> Continues(results, q)
         /\ \A q : RoundCells(more, q) = RoundCells(results, q) \ CellsIn(more)
  <1> DEFINE cells == CellsOf("ablation")
  <1>1. CellsIn(results) \subseteq CellsIn(more)
    BY DEF CellsIn
  <1>2. \A c \in RoundCells(results, round) : c \in cells /\ c.policy = "ablation" /\ c.repetition = round
    BY DEF RoundCells, Unobtained, CellsAt, CellsOf
  <1>3. ASSUME NEW c PROVE OutcomeIn(more, Partner(c)) = OutcomeIn(results, Partner(c))
                           /\ (Compliant(more, Partner(c)) <=> Compliant(results, Partner(c)))
    <2>1. CASE Partner(c) \in CellsIn(results)
      BY <2>1, ResultStays
    <2>2. CASE Partner(c) \notin CellsIn(results)
      <3>1. Partner(c) \notin CellsIn(more)
        BY <1>2, <2>2, PartnerParts
      <3>2. QED
        BY <2>2, <3>1 DEF OutcomeIn, Compliant
    <2>3. QED
      BY <2>1, <2>2
  <1>4. ASSUME NEW c \in cells, c.repetition # round \/ c \in CellsIn(results)
        PROVE  PairOf(more, c) = PairOf(results, c)
    <2>1. OutcomeIn(more, c) = OutcomeIn(results, c) /\ (Compliant(more, c) <=> Compliant(results, c))
      <3>1. CASE c \in CellsIn(results)
        BY <3>1, ResultStays
      <3>2. CASE c \notin CellsIn(results)
        <4>1. c \notin CellsIn(more)
          BY <1>2, <1>4, <3>2
        <4>2. QED
          BY <3>2, <4>1 DEF OutcomeIn, Compliant
      <3>3. QED
        BY <3>1, <3>2
    <2>2. (Compliant(more, c) /\ Compliant(more, Partner(c))) = (Compliant(results, c) /\ Compliant(results, Partner(c)))
      BY <1>3, <2>1
    <2>3. QED
      BY <1>3, <2>1, <2>2, Zenon DEF PairOf
  <1>5. \A q : RoundCells(more, q) = RoundCells(results, q) \ CellsIn(more)
    BY <1>1, <1>3 DEF RoundCells, Unobtained
  <1>6. ASSUME NEW q \in 1..(round - 1) PROVE Continues(more, q) <=> Continues(results, q)
    <2> DEFINE now == {PairOf(results, c) : c \in cells}
               then == {PairOf(more, c) : c \in cells}
    <2>1. Rounds \in Nat /\ q \in Nat /\ q < round
      BY CausalAssumption
    <2>2. now = {} <=> then = {}
      OBVIOUS
    <2>3. Completed(then, q) = Completed(now, q)
      <3>1. \A c \in cells : PairOf(more, c).repetition = c.repetition
            /\ PairOf(results, c).repetition = c.repetition
        BY PairParts
      <3>2. \A c \in cells : c.repetition <= q => PairOf(more, c) = PairOf(results, c)
        BY <1>4, <2>1
      <3>3. QED
        BY <3>1, <3>2 DEF Completed
    <2>4. FuturePasses(then, q) = FuturePasses(now, q)
      <3>1. PICK C : C = {c \in cells : OutcomeIn(results, Partner(c)) = "PASS" /\ c.repetition > q}
        OBVIOUS
      <3>2. C \subseteq cells /\ \A c, d \in C : c.of = d.of
        BY <3>1, ScreenedCells
      <3>3. {p \in now : p.on = "PASS" /\ p.repetition > q} = {PairOf(results, c) : c \in C}
        BY <3>1, PairParts
      <3>4. {p \in then : p.on = "PASS" /\ p.repetition > q} = {PairOf(more, c) : c \in C}
        BY <1>3, <3>1, PairParts
      <3>5. Cardinality({PairOf(results, c) : c \in C}) = Cardinality(C)
            /\ Cardinality({PairOf(more, c) : c \in C}) = Cardinality(C)
        BY <3>2, PairsCount
      <3> HIDE DEF now, then
      <3>6. QED
        BY <3>3, <3>4, <3>5, Zenon DEF FuturePasses
    <2> HIDE DEF now, then
    <2>5. SequentialDecision(then, q) = SequentialDecision(now, q)
      BY <2>2, <2>3, <2>4, Zenon DEF SequentialDecision
    <2>6. QED
      BY <2>5 DEF Continues, now, then
  <1>7. QED
    BY <1>5, <1>6

(* What the screening was to run next, with some of it run and nothing      *)
(* else, is still what it is to run next: it does not go on to the next     *)
(* stage, or round, before all of it has a result.                          *)
LEMMA FrontierStays ==
  ASSUME scenario \in Scenarios, Screening, NEW results, NEW more, results \subseteq more, Single(more),
         CellsIn(more) \subseteq CellsIn(results) \cup Frontier(results),
         NEW a \in Frontier(results), a \notin CellsIn(more)
  PROVE  Frontier(more) = Frontier(results) \ CellsIn(more)
  <1>1. \A x : Frontier(x) = ScreeningFrontier(x)
    BY DEF Frontier, Screening
  <1>2. CellsIn(results) \subseteq CellsIn(more)
    BY DEF CellsIn
  <1>3. CASE Unobtained(results, CellsOf("active")) # {}
    <2>1. Frontier(results) = Unobtained(results, CellsOf("active"))
      BY <1>1, <1>3 DEF ScreeningFrontier
    <2>2. Unobtained(more, CellsOf("active")) = Unobtained(results, CellsOf("active")) \ CellsIn(more)
      BY <1>2 DEF Unobtained
    <2>3. a \in Unobtained(more, CellsOf("active"))
      BY <2>1, <2>2
    <2>4. Frontier(more) = Unobtained(more, CellsOf("active"))
      BY <1>1, <2>3 DEF ScreeningFrontier
    <2>5. QED
      BY <2>1, <2>2, <2>4
  <1>4. CASE Unobtained(results, CellsOf("active")) = {} /\ AblationFrontier(results) # {}
    <2>1. Frontier(results) = AblationFrontier(results)
      BY <1>1, <1>4 DEF ScreeningFrontier
    <2>2. PICK open, later :
            /\ open = {r \in 1..Rounds : RoundCells(results, r) # {} /\ \A q \in 1..(r - 1) : Continues(results, q)}
            /\ later = {r \in 1..Rounds : RoundCells(more, r) # {} /\ \A q \in 1..(r - 1) : Continues(more, q)}
      OBVIOUS
    <2>3. /\ AblationFrontier(results) = IF open = {} THEN {} ELSE RoundCells(results, Min(open))
          /\ AblationFrontier(more) = IF later = {} THEN {} ELSE RoundCells(more, Min(later))
      BY <2>2, Zenon DEF AblationFrontier
    <2>4. open # {} /\ open \subseteq Nat /\ later \subseteq Nat
      BY <1>4, <2>2, <2>3
    <2>5. PICK m : m = Min(open)
      OBVIOUS
    <2>6. m \in open /\ \A y \in open : m <= y
      <3>1. \E x \in open : \A y \in open : x <= y
        BY <2>4, Least
      <3>2. QED
        BY <2>5, <3>1, Zenon DEF Min
    <2>7. m \in 1..Rounds /\ Frontier(results) = RoundCells(results, m)
      BY <2>1, <2>2, <2>3, <2>4, <2>5, <2>6
    <2>8. /\ \A q \in 1..(m - 1) : Continues(more, q) <=> Continues(results, q)
          /\ \A q : RoundCells(more, q) = RoundCells(results, q) \ CellsIn(more)
      BY <2>7, RoundStays
    <2>9. a \in RoundCells(more, m)
      BY <2>7, <2>8
    <2>10. m \in later
      BY <2>2, <2>6, <2>8, <2>9
    <2>11. ASSUME NEW r \in later PROVE m <= r
      <3>1. SUFFICES ASSUME r < m PROVE FALSE
        BY <2>4, <2>6, <2>11
      <3>2. r \in 1..Rounds /\ RoundCells(results, r) # {} /\ \A q \in 1..(r - 1) : Continues(more, q)
        BY <2>2, <2>8, <2>11
      <3>3. \A q \in 1..(r - 1) : q \in 1..(m - 1)
        BY <2>4, <2>6, <2>11, <3>1
      <3>4. r \in open
        BY <2>2, <2>8, <3>2, <3>3
      <3>5. QED
        BY <2>4, <2>6, <3>1, <3>4
    <2>12. Min(later) = m
      <3>1. Min(later) \in later /\ \A y \in later : Min(later) <= y
        BY <2>10, <2>11, Zenon DEF Min
      <3>2. PICK l : l = Min(later)
        OBVIOUS
      <3>3. l \in Nat /\ m \in Nat /\ l <= m /\ m <= l
        BY <2>4, <2>6, <2>10, <2>11, <3>1, <3>2
      <3>4. l = m
        BY <3>3
      <3>5. QED
        BY <3>2, <3>4
    <2>13. AblationFrontier(more) = RoundCells(more, m)
      BY <2>3, <2>10, <2>12
    <2>14. Unobtained(more, CellsOf("active")) = {}
      BY <1>2, <1>4 DEF Unobtained
    <2>15. Frontier(more) = RoundCells(more, m)
      BY <1>1, <2>9, <2>13, <2>14 DEF ScreeningFrontier
    <2>16. QED
      BY <2>7, <2>8, <2>15
  <1>5. CASE Unobtained(results, CellsOf("active")) = {} /\ AblationFrontier(results) = {}
    <2>1. Frontier(results) = DepthFrontier(results)
      BY <1>1, <1>5 DEF ScreeningFrontier
    <2>2. Frontier(results) = {a}
      BY <2>1, DepthIsOne
    <2>3. CellsIn(more) \subseteq CellsIn(results)
      BY <2>2
    <2>4. more = results
      BY <2>3, SameCells
    <2>5. QED
      BY <2>2, <2>4
  <1>6. QED
    BY <1>3, <1>4, <1>5

(***************************************************************************)
(* Where the provider failed, the runner comes again.                      *)
(***************************************************************************)
(* The cells that have been run, or have a result in the process.           *)
Gone == CellsIn(captures) \cup IF Running THEN CellsIn(job.results) ELSE {}

(* The runner comes to a again without anything else in between that it     *)
(* would take to be later.                                                  *)
Awaited(results, gone, a) ==
  /\ Screening => a \in Frontier(results) /\ gone \subseteq CellsIn(results) \cup Frontier(results)
  /\ IsCorrection => Reached(results, a)

(* A cell whose provider failed has been captured since, has a result, or   *)
(* is run next.                                                             *)
OwedIn(results, attempts, gone) ==
  \A a \in attempts :
    /\ a \in Planned \ SourceCells
    /\ a \in CellsIn(captures) \/ a \in CellsIn(results) \/ Awaited(results, gone, a)

Owed ==
  /\ report # NoReport => OwedIn(report.results, report.attempts, Gone)
  /\ Running => OwedIn(job.results, job.attempts, Gone)
  /\ Screening /\ job.step = "batch"
     => CellsIn(captures) \subseteq CellsIn(job.results) \cup Frontier(job.results)

(* It is still run next when results of what was to be run with it are      *)
(* added.                                                                   *)
LEMMA AwaitedStays ==
  ASSUME scenario \in Scenarios, AblationsEarned, NEW results, NEW more, NEW gone, NEW now, NEW a,
         results \subseteq more, Single(more), Firm(more),
         IsCorrection => CellsIn(more) \subseteq CellsIn(captures),
         Screening => CellsIn(more) \cup now \subseteq CellsIn(results) \cup Frontier(results),
         a \notin CellsIn(captures), a \notin CellsIn(more), Awaited(results, gone, a)
  PROVE  Awaited(more, now, a) /\ (Screening => Frontier(more) \subseteq Frontier(results))
  <1>1. ASSUME Screening PROVE Frontier(more) = Frontier(results) \ CellsIn(more)
    BY <1>1, FrontierStays DEF Awaited
  <1>2. ASSUME IsCorrection PROVE Reached(more, a)
    BY <1>2, ReachedStays DEF Awaited
  <1>3. CellsIn(results) \subseteq CellsIn(more)
    BY DEF CellsIn
  <1>4. QED
    BY <1>1, <1>2, <1>3 DEF Awaited

LEMMA SameAwaited ==
  ASSUME scenario' = scenario, Planned' = Planned, NEW results, NEW gone, NEW a
  PROVE  Awaited(results, gone, a)' <=> Awaited(results, gone, a)
  <1>1. Frontier(results)' = Frontier(results) /\ CellsIn(results)' = CellsIn(results)
    BY SameFrontier DEF CellsIn
  <1>2. Reached(results, a)' <=> Reached(results, a)
    <2>1. AtBoundary(results)' = AtBoundary(results)
      BY SamePairs
    <2>2. \A c : Partner(c)' = Partner(c)
      BY SamePlace
    <2>3. CellsOf("auto")' = CellsOf("auto") /\ CellsOf("off")' = CellsOf("off")
          /\ CellsOf("ablation")' = CellsOf("ablation")
      BY SamePlace
    <2>4. QED
      BY <1>1, <2>1, <2>2, <2>3 DEF Reached, Earlier
  <1>3. (Screening' <=> Screening) /\ (IsCorrection' <=> IsCorrection)
    BY DEF Screening, IsCorrection
  <1>4. QED
    BY <1>1, <1>2, <1>3 DEF Awaited

(* No step forgets a provider failure: not the next batch, not the report,  *)
(* not the run that resumes it.                                             *)
LEMMA OwedHolds ==
  ASSUME Shaped, Kept, Recorded, Gathered, AblationsEarned, Owed, Steps, scenario' = scenario, Planned' = Planned
  PROVE  Owed'
  <1>1. scenario \in Scenarios /\ SourceCells' = SourceCells /\ FragmentsKnown /\ CapturesKnown
    BY DEF Recorded, Shaped, SourceCells, CellsIn
  <1>2. PICK R, A, P, Q, G, seen : /\ R = job.results /\ A = job.attempts
                                   /\ P = report.results /\ Q = report.attempts
                                   /\ G = Gone /\ seen = CellsIn(captures)
    OBVIOUS
  <1>3. PICK X, B, H, now : X = job'.results /\ B = job'.attempts /\ H = Gone' /\ now = CellsIn(captures)'
    OBVIOUS
  <1>4. /\ G = seen \cup IF Running THEN CellsIn(R) ELSE {}
        /\ H = now \cup IF Running' THEN CellsIn(X) ELSE {}
    BY <1>2, <1>3 DEF Gone, CellsIn
  <1>5. ASSUME NEW r, Sure(r), IsCorrection PROVE r.cell \in seen
    <2>1. r \in fragments
      BY <1>1, <1>5, Known DEF IsCorrection
    <2>2. QED
      BY <1>1, <1>2, <2>1 DEF FragmentsKnown, CellsIn
  <1>6. ASSUME NEW results, NEW more, NEW attempts, OwedIn(results, attempts, G), results \subseteq more, seen \subseteq now,
               Single(more), Firm(more), IsCorrection => CellsIn(more) \subseteq seen,
               \A a \in attempts : Screening /\ a \notin now /\ Awaited(results, G, a) /\ a \notin SourceCells
                                   => CellsIn(more) \cup H \subseteq CellsIn(results) \cup Frontier(results)
        PROVE  OwedIn(more, attempts, H)'
    <2>1. ASSUME NEW a \in attempts, a \notin now, a \notin CellsIn(more) PROVE Awaited(more, H, a)'
      <3>1. a \notin seen /\ a \notin CellsIn(results) /\ a \notin SourceCells
        BY <1>6, <2>1 DEF CellsIn, OwedIn
      <3>2. Awaited(results, G, a)
        BY <1>2, <1>6, <3>1 DEF OwedIn
      <3>3. Awaited(more, H, a)
        BY <1>1, <1>2, <1>6, <2>1, <3>1, <3>2, AwaitedStays
      <3>4. QED
        BY <3>3, SameAwaited
    <2>2. \A a \in attempts : a \in Planned' \ SourceCells'
      BY <1>1, <1>6 DEF OwedIn
    <2>3. CellsIn(more)' = CellsIn(more)
      BY DEF CellsIn
    <2>4. QED
      BY <1>3, <2>1, <2>2, <2>3 DEF OwedIn
  <1>7. ASSUME Running PROVE /\ \A r \in R : Sure(r)
                             /\ Single(R) /\ Firm(R) /\ (IsCorrection => CellsIn(R) \subseteq seen)
    <2>1. \A r \in R : Sure(r)
      BY <1>2, <1>7 DEF Recorded, RecordedInJob
    <2>2. QED
      BY <1>1, <1>5, <2>1, SureResults DEF CellsIn
  <1>8. ASSUME report # NoReport PROVE /\ \A r \in P : Sure(r)
                                       /\ Single(P) /\ Firm(P) /\ (IsCorrection => CellsIn(P) \subseteq seen)
    <2>1. \A r \in P : Sure(r)
      BY <1>2, <1>8 DEF Recorded, RecordedInReport
    <2>2. QED
      BY <1>1, <1>5, <2>1, SureResults DEF CellsIn
  <1>9. ASSUME report # NoReport, report' = report, seen \subseteq now,
               H \subseteq G \cup CellsIn(P) \/ (Running /\ H \subseteq G \cup Frontier(R))
        PROVE  OwedIn(P, Q, H)'
    <2>1. ASSUME NEW a, Screening, a \notin now, Awaited(P, G, a), a \notin SourceCells
          PROVE  H \subseteq CellsIn(P) \cup Frontier(P)
      <3>1. G \subseteq CellsIn(P) \cup Frontier(P)
        BY <2>1 DEF Awaited
      <3>2. ASSUME Running PROVE Frontier(R) \subseteq Frontier(P)
        <4>1. CellsIn(P) \subseteq CellsIn(R)
          BY <1>2, <1>9, <3>2 DEF Recorded, RecordedInReport
        <4>2. P \subseteq R
          <5>1. ASSUME NEW p \in P PROVE p \in R
            <6>1. PICK r \in R : r.cell = p.cell
              BY <4>1 DEF CellsIn
            <6>2. p = r
              BY <1>1, <1>7, <1>8, <1>9, <3>2, <6>1, OneResult
            <6>3. QED
              BY <6>2
          <5>2. QED
            BY <5>1
        <4>3. a \notin CellsIn(R) /\ a \notin seen
          <5>1. \A r \in R : r.cell \in seen \/ r.cell \in SourceCells
            BY <1>1, <1>2, <1>7, <3>2, Known
          <5>2. QED
            BY <1>9, <2>1, <5>1 DEF CellsIn
        <4>4. CellsIn(R) \subseteq CellsIn(P) \cup Frontier(P)
          BY <1>4, <3>1, <3>2
        <4>5. QED
          BY <1>1, <1>2, <1>7, <2>1, <3>1, <3>2, <4>2, <4>3, <4>4, AwaitedStays
      <3>3. QED
        BY <1>9, <3>1, <3>2
    <2>2. OwedIn(P, Q, G)
      BY <1>2, <1>9 DEF Owed
    <2>3. QED
      BY <1>6, <1>8, <1>9, <2>1, <2>2
  <1>10. ASSUME Running, R \subseteq X, Single(X), Firm(X), IsCorrection => CellsIn(X) \subseteq seen,
                seen \subseteq now, H \subseteq G \cup Frontier(R), CellsIn(X) \subseteq G \cup Frontier(R)
         PROVE  OwedIn(X, A, H)'
    <2>1. OwedIn(R, A, G)
      BY <1>2, <1>10 DEF Owed
    <2>2. \A a : Screening /\ Awaited(R, G, a) => G \subseteq CellsIn(R) \cup Frontier(R)
      BY DEF Awaited
    <2>3. QED
      BY <1>6, <1>10, <2>1, <2>2
  <1>11. ASSUME job'.step = "batch", X = R,
                Screening => now \subseteq CellsIn(R) \cup Frontier(R)
         PROVE  (Screening /\ job.step = "batch" => CellsIn(captures) \subseteq CellsIn(job.results) \cup Frontier(job.results))'
    <2>1. Frontier(R)' = Frontier(R) /\ R = job'.results /\ CellsIn(R)' = CellsIn(R)
          /\ (Screening' <=> Screening)
      BY <1>3, <1>11, SameFrontier DEF CellsIn, Screening
    <2>2. QED
      BY <1>3, <1>11, <2>1
  <1>12. ASSUME report' # NoReport => OwedIn(report.results, report.attempts, Gone)',
                Running' => OwedIn(X, B, H)',
                job'.step = "batch"
                => (Screening => CellsIn(captures) \subseteq CellsIn(job.results) \cup Frontier(job.results))'
         PROVE  Owed'
    <2>1. Running' => OwedIn(job.results, job.attempts, Gone)'
      BY <1>3, <1>12 DEF OwedIn
    <2>2. NoReport' = NoReport
      BY DEF NoReport
    <2>3. QED
      BY <1>12, <2>1, <2>2 DEF Owed
  <1>13. ASSUME report' = report, OwedIn(P, Q, H)' PROVE OwedIn(report.results, report.attempts, Gone)'
    BY <1>2, <1>3, <1>13 DEF OwedIn
  <1>14. ASSUME report'.results = R, report'.attempts = A, OwedIn(R, A, H)'
         PROVE  OwedIn(report.results, report.attempts, Gone)'
    BY <1>3, <1>14 DEF OwedIn
  <1>15. ASSUME UNCHANGED captures PROVE now = seen
    BY <1>2, <1>3, <1>15 DEF CellsIn
  <1>16. ASSUME UNCHANGED <<captures, report>>, Running, R \subseteq X, Single(X), Firm(X),
                IsCorrection => CellsIn(X) \subseteq seen, B = A, CellsIn(X) \subseteq G \cup Frontier(R),
                job'.step \in {"recover", "trace"}
         PROVE  Owed'
    <2>1. now = seen /\ H \subseteq G \cup Frontier(R)
      BY <1>4, <1>15, <1>16
    <2>2. OwedIn(X, B, H)'
      BY <1>10, <1>16, <2>1
    <2>3. report # NoReport => OwedIn(report.results, report.attempts, Gone)'
      BY <1>9, <1>13, <1>16, <2>1
    <2>4. QED
      BY <1>12, <1>16, <2>2, <2>3 DEF NoReport
  <1>17. ASSUME UNCHANGED captures, X = R, B = A, Running,
                report' = report \/ (report'.results = R /\ report'.attempts = A),
                job'.step \in {"trace", "batch"},
                job'.step = "batch" /\ Screening => seen \subseteq CellsIn(R) \cup Frontier(R)
         PROVE  Owed'
    <2>1. now = seen /\ H \subseteq G \cup Frontier(R) /\ CellsIn(R) \subseteq G
      BY <1>4, <1>15, <1>17
    <2>2. OwedIn(R, A, H)'
      BY <1>7, <1>10, <1>17, <2>1
    <2>3. report' # NoReport => OwedIn(report.results, report.attempts, Gone)'
      BY <1>9, <1>13, <1>14, <1>17, <2>1, <2>2 DEF NoReport
    <2>4. QED
      BY <1>11, <1>12, <1>17, <2>1, <2>2, <2>3
  <1>18. CASE Starts
    <2>1. /\ X = Restored /\ report' = report /\ job'.step = "recover" /\ ~Running
          /\ B = IF report = NoReport THEN {} ELSE Q
      BY <1>2, <1>3, <1>18 DEF Starts, Running
    <2>2. /\ \A r \in X : Sure(r)
          /\ report # NoReport => P \subseteq X
          /\ CellsIn(X) \subseteq seen \cup IF report = NoReport THEN {} ELSE CellsIn(P)
      BY <1>2, <2>1, RestoredForm
    <2>3. Single(X) /\ Firm(X) /\ (IsCorrection => CellsIn(X) \subseteq seen)
      BY <1>1, <1>5, <2>2, SureResults DEF CellsIn
    <2>4. now = seen /\ H \subseteq G \cup IF report = NoReport THEN {} ELSE CellsIn(P)
      BY <1>4, <1>15, <1>18, <2>2 DEF Starts
    <2>5. report # NoReport => OwedIn(report.results, report.attempts, Gone)'
      BY <1>9, <1>13, <2>1, <2>4
    <2>6. CASE report = NoReport
      <3>1. OwedIn(X, B, H)'
        BY <2>1, <2>6 DEF OwedIn
      <3>2. QED
        BY <1>12, <2>1, <2>6, <3>1 DEF NoReport
    <2>7. CASE report # NoReport
      <3>1. OwedIn(P, Q, G)
        BY <1>2, <2>7 DEF Owed
      <3>2. \A a : Screening /\ Awaited(P, G, a) => G \subseteq CellsIn(P) \cup Frontier(P)
        BY DEF Awaited
      <3>3. CellsIn(X) \cup H \subseteq G \cup CellsIn(P)
        BY <1>4, <2>2, <2>4, <2>7
      <3>4. OwedIn(X, Q, H)'
        BY <1>6, <2>2, <2>3, <2>4, <2>7, <3>1, <3>2, <3>3
      <3>5. OwedIn(X, B, H)'
        BY <2>1, <2>7, <3>4
      <3>6. QED
        BY <1>12, <2>1, <2>5, <3>5 DEF NoReport
    <2>8. QED
      BY <2>6, <2>7
  <1>19. ASSUME NEW capture, NEW x, TakesOver(capture, x) PROVE Owed'
    <2>1. /\ job.step = "recover" /\ job'.step = "recover" /\ Running /\ UNCHANGED <<captures, report>>
             /\ B = A
      BY <1>2, <1>3, <1>19 DEF TakesOver, Running
    <2>2. CASE job.reclassify
      <3>1. report' = NoReport' /\ B = {}
        BY <1>2, <2>1, <2>2 DEF Recorded, RecordedInRecovery, NoReport
      <3>2. OwedIn(X, B, H)'
        BY <3>1 DEF OwedIn
      <3>3. QED
        BY <1>12, <2>1, <3>1, <3>2 DEF NoReport
    <2>3. CASE ~job.reclassify
      <3>1. capture \in captures /\ capture.cell \notin CellsIn(R) /\ x.cell = capture.cell
            /\ x.outcome # "none"
        <4>1. capture \in captures /\ capture.cell \notin CellsIn(R)
          BY <1>2, <1>19, <2>1, <2>3 DEF TakesOver, Kept, KeptInRecovery, Recorded, RecordedInRecovery
        <4>2. QED
          BY <1>1, <1>19, <4>1, FragmentReplaced DEF TakesOver
      <3>2. X = R \cup {x}
        BY <1>2, <1>3, <1>19, <2>3, <3>1 DEF TakesOver, CellsIn
      <3>3. Single(X) /\ Firm(X)
        BY <1>7, <2>1, <3>1, <3>2 DEF Single, Firm, CellsIn
      <3>4. CellsIn(X) = CellsIn(R) \cup {capture.cell} /\ capture.cell \in seen
        BY <1>2, <3>1, <3>2 DEF CellsIn
      <3>5. CellsIn(X) \subseteq G /\ (IsCorrection => CellsIn(X) \subseteq seen)
        BY <1>4, <1>7, <2>1, <3>4
      <3>6. QED
        BY <1>16, <2>1, <3>2, <3>3, <3>5
    <2>4. QED
      BY <2>2, <2>3
  <1>20. CASE Resumes
    BY <1>2, <1>3, <1>17, <1>20 DEF Resumes, Running
  <1>21. CASE Tells
    <2>1. report' = report \/ (report'.results = R /\ report'.attempts = A)
      BY <1>2, <1>21 DEF Tells, ReportOf
    <2>2. QED
      BY <1>2, <1>3, <1>17, <1>21, <2>1 DEF Tells, Running
  <1>22. CASE Stops
    <2>1. /\ job'.step = "idle" /\ UNCHANGED captures
          /\ \/ report' = report \/ report' = NoReport
             \/ Running /\ report'.results = R /\ report'.attempts = A
      BY <1>2, <1>22 DEF Stops, ReportOf, Running
    <2>2. now = seen /\ H = seen /\ ~Running'
      BY <1>4, <1>15, <2>1 DEF Running
    <2>3. ASSUME Running PROVE OwedIn(R, A, H)'
      <3>1. OwedIn(R, A, G)
        BY <1>2, <2>3 DEF Owed
      <3>2. \A a : Screening /\ Awaited(R, G, a) => G \subseteq CellsIn(R) \cup Frontier(R)
        BY DEF Awaited
      <3>3. H \subseteq G
        BY <1>4, <2>2
      <3>4. QED
        BY <1>6, <1>7, <2>2, <2>3, <3>1, <3>2, <3>3
    <2>4. report' # NoReport => OwedIn(report.results, report.attempts, Gone)'
      BY <1>4, <1>9, <1>13, <1>14, <2>1, <2>2, <2>3 DEF NoReport
    <2>5. QED
      BY <1>12, <2>1, <2>2, <2>4 DEF NoReport
  <1>23. ASSUME NEW new, Adopts(new) PROVE Owed'
    <2>1. /\ job.step = "trace" /\ job'.step = "trace" /\ Running /\ UNCHANGED <<captures, report>> /\ B = A
          /\ X = R \cup new /\ new = {Migrated(r) : r \in Reusable}
      BY <1>2, <1>3, <1>23 DEF Adopts, Running
    <2>2. \A r \in X : Sure(r)
      BY <1>7, <2>1 DEF Sure, Reusable
    <2>3. Single(X) /\ Firm(X) /\ (IsCorrection => CellsIn(X) \subseteq seen)
      BY <1>1, <1>5, <2>2, SureResults DEF CellsIn
    <2>4. CellsIn(new) \subseteq Frontier(R)
      BY <1>2, <2>1 DEF CellsIn, Reusable, Migrated
    <2>5. CellsIn(X) \subseteq G \cup Frontier(R)
      <3>1. CellsIn(X) = CellsIn(R) \cup CellsIn(new)
        BY <2>1 DEF CellsIn
      <3>2. QED
        BY <1>4, <2>1, <2>4, <3>1
    <2>6. QED
      BY <1>16, <2>1, <2>3, <2>5
  <1>24. CASE Queues
    <2>1. job.step = "trace" /\ job'.step = "batch" /\ Running /\ UNCHANGED <<captures, report>> /\ B = A
          /\ X = R
      BY <1>2, <1>3, <1>24 DEF Queues, Running
    <2>2. Screening => seen \subseteq CellsIn(R)
      BY <1>2, <2>1 DEF Gathered, Whole
    <2>3. QED
      BY <1>17, <2>1, <2>2
  <1>25. ASSUME InBatch PROVE /\ Running /\ X = R /\ report' = report /\ job.step = "batch" /\ job'.step = "batch"
                              /\ Screening => seen \subseteq CellsIn(R) \cup Frontier(R)
                              /\ job.queue \subseteq Frontier(R) \ SourceCells
    BY <1>2, <1>3, <1>25 DEF InBatch, Running, Owed, Recorded, RecordedInBatch
  <1>26. ASSUME NEW capture, Works(capture) PROVE Owed'
    <2>1. InBatch /\ capture.cell \in Frontier(R) /\ B = A
      BY <1>2, <1>3, <1>25, <1>26 DEF Works
    <2>2. now = seen \cup {capture.cell}
      <3>1. captures' = {c \in captures : c.cell # capture.cell} \cup {capture}
        BY <1>26 DEF Works, Replaced, CellsIn
      <3>2. now = CellsIn(captures')
        BY <1>3 DEF CellsIn
      <3>3. QED
        BY <1>2, <3>1, <3>2 DEF CellsIn
    <2>3. H \subseteq G \cup Frontier(R) /\ seen \subseteq now /\ CellsIn(R) \subseteq G
      BY <1>4, <1>25, <2>1, <2>2
    <2>4. OwedIn(X, B, H)'
      BY <1>7, <1>10, <1>25, <2>1, <2>3
    <2>5. report # NoReport => OwedIn(report.results, report.attempts, Gone)'
      BY <1>9, <1>13, <1>25, <2>1, <2>3
    <2>6. Screening => now \subseteq CellsIn(R) \cup Frontier(R)
      BY <1>25, <2>1, <2>2
    <2>7. QED
      BY <1>11, <1>12, <1>25, <2>1, <2>4, <2>5, <2>6 DEF NoReport
  <1>27. ASSUME NEW cell, GivesUp(cell) PROVE Owed'
    <2>1. InBatch /\ cell \in Frontier(R) \ SourceCells /\ B = A \cup {cell} /\ UNCHANGED captures
      BY <1>2, <1>3, <1>25, <1>27 DEF GivesUp
    <2>2. now = seen /\ H \subseteq G \cup Frontier(R) /\ CellsIn(R) \subseteq G
      BY <1>4, <1>15, <1>25, <2>1
    <2>3. OwedIn(X, A, H)'
      BY <1>7, <1>10, <1>25, <2>1, <2>2
    <2>4. Awaited(R, H, cell)
      <3>1. Screening => H \subseteq CellsIn(R) \cup Frontier(R)
        BY <1>4, <1>25, <2>1, <2>2
      <3>2. IsCorrection => Reached(R, cell)
        BY <1>1, <2>1, FrontierIsReached DEF Frontier, IsCorrection
      <3>3. QED
        BY <2>1, <3>1, <3>2 DEF Awaited
    <2>5. cell \in Planned' \ SourceCells'
      BY <1>1, <2>1, FrontierIsNew
    <2>6. OwedIn(X, B, H)'
      <3>1. Awaited(X, H, cell)'
        BY <1>25, <2>1, <2>4, SameAwaited
      <3>2. QED
        BY <2>1, <2>3, <2>5, <3>1 DEF OwedIn
    <2>7. report # NoReport => OwedIn(report.results, report.attempts, Gone)'
      BY <1>9, <1>13, <1>25, <2>1, <2>2
    <2>8. QED
      BY <1>11, <1>12, <1>25, <2>1, <2>2, <2>6, <2>7 DEF NoReport
  <1>28. ASSUME NEW capture, NEW x, Judges(capture, x) PROVE Owed'
    BY <1>2, <1>3, <1>17, <1>25, <1>28 DEF Judges
  <1>29. ASSUME NEW capture, Raises(capture) PROVE Owed'
    BY <1>2, <1>3, <1>17, <1>25, <1>29 DEF Raises
  <1>30. CASE Ends
    <2>1. /\ job.step = "batch" /\ job'.step = "trace" /\ Running /\ UNCHANGED <<captures, report>> /\ B = A
          /\ X = Replaced(R, job.done) /\ job.done \subseteq fragments
             /\ CellsIn(R) \cap CellsIn(job.done) = {}
      <3>1. job.step = "batch" /\ job.done \subseteq fragments
            /\ CellsIn(job.results) \cap (CellsIn(job.finalizing) \cup CellsIn(job.done)) = {}
        BY <1>30 DEF Ends, Recorded, RecordedInBatch
      <3>2. QED
        BY <1>2, <1>3, <1>30, <3>1 DEF Ends, Running
    <2>2. X = R \cup job.done
      BY <2>1 DEF Replaced, CellsIn
    <2>3. \A r \in X : Sure(r)
      BY <1>7, <2>1, <2>2 DEF Sure
    <2>4. Single(X) /\ Firm(X) /\ (IsCorrection => CellsIn(X) \subseteq seen)
      BY <1>1, <1>5, <2>3, SureResults DEF CellsIn
    <2>5. CellsIn(X) \subseteq G
      <3>1. CellsIn(job.done) \subseteq seen
        BY <1>1, <1>2, <2>1 DEF FragmentsKnown, CellsIn
      <3>2. CellsIn(X) = CellsIn(R) \cup CellsIn(job.done)
        BY <2>2 DEF CellsIn
      <3>3. QED
        BY <1>4, <2>1, <3>1, <3>2
    <2>6. QED
      BY <1>16, <2>1, <2>2, <2>4, <2>5
  <1>31. CASE Rests
    <2>1. job' = job /\ X = R /\ B = A /\ UNCHANGED <<captures, report>>
      BY <1>2, <1>3, <1>31 DEF Rests
    <2>2. CASE job.step = "recover"
      <3>1. CellsIn(R) \subseteq G /\ Running
        BY <1>4, <2>2 DEF Running
      <3>2. QED
        BY <1>7, <1>16, <2>1, <2>2, <3>1
    <2>3. CASE job.step \in {"trace", "batch"}
      <3>1. job.step = "batch" /\ Screening => seen \subseteq CellsIn(R) \cup Frontier(R)
        BY <1>2 DEF Owed
      <3>2. QED
        BY <1>17, <2>1, <2>3, <3>1 DEF Running
    <2>4. CASE job.step = "idle"
      <3>1. ~Running /\ ~Running' /\ job'.step = "idle" /\ now = seen /\ H = seen
        BY <1>4, <1>15, <2>1, <2>4 DEF Running
      <3>2. H \subseteq G
        BY <1>4, <3>1
      <3>3. report # NoReport => OwedIn(report.results, report.attempts, Gone)'
        BY <1>9, <1>13, <2>1, <3>1, <3>2
      <3>4. QED
        BY <1>12, <2>1, <3>1, <3>3 DEF NoReport
    <2>5. QED
      BY <2>2, <2>3, <2>4 DEF Shaped
  <1>32. QED
    BY <1>18, <1>19, <1>20, <1>21, <1>22, <1>23, <1>24, <1>26, <1>27, <1>28, <1>29, <1>30, <1>31 DEF Steps

(***************************************************************************)
(* What a run has come to when there is nothing left to run.               *)
(***************************************************************************)
(* When nothing is to be run, every provider failure has been made good.    *)
LEMMA NothingOwed ==
  ASSUME scenario \in Scenarios, Gathered, Owed, AtFrontier, Frontier(job.results) = {}
  PROVE  job.attempts \subseteq CellsIn(job.results)
  <1> SUFFICES ASSUME NEW a \in job.attempts PROVE a \in CellsIn(job.results)
    OBVIOUS
  <1>1. job.step = "trace" /\ job.then = "frontier"
    BY DEF AtFrontier
  <1>2. CellsIn(captures) \subseteq CellsIn(job.results)
    BY <1>1 DEF Gathered, Whole
  <1>3. PICK R, G : R = job.results /\ G = Gone
    OBVIOUS
  <1>4. a \in Planned /\ (a \in CellsIn(R) \/ Awaited(R, G, a))
    BY <1>1, <1>2, <1>3 DEF Owed, OwedIn, Running
  <1>5. CASE Screening
    BY <1>3, <1>4, <1>5 DEF Awaited
  <1>6. CASE IsCorrection
    <2>1. CorrectionFrontier(R) = {}
      BY <1>3, <1>6 DEF Frontier, IsCorrection
    <2>2. QED
      BY <1>3, <1>4, <1>6, <2>1, ReachedIsObtained DEF Awaited
  <1>7. CASE scenario.runner = "confirmation"
    <2>1. ConfirmationFrontier(R) = {}
      BY <1>3, <1>7 DEF Frontier
    <2>2. a \in ToSet(scenario.schedule)
      BY <1>4, PlannedCell
    <2>3. QED
      BY <1>3, <2>1, <2>2, ConfirmedWhole
  <1>8. QED
    BY <1>5, <1>6, <1>7, RunnerAssumption DEF Screening, IsCorrection

(* Calls made and calls spared are of cells of the plan, each of one.      *)
LEMMA AddsUp ==
  ASSUME scenario \in Scenarios, NEW results, Single(results), CellsIn(results) \subseteq Planned
  PROVE  ~EfficiencyOf(results, Skips(results)).raises
  <1> DEFINE ran == {r \in results : r.ran # 0}
  <1>1. PICK cells : cells = CellsIn(results)
    OBVIOUS
  <1>2. PICK spared : spared = Skips(results)
    OBVIOUS
  <1>3. IsFiniteSet(Planned) /\ IsFiniteSet(cells) /\ IsFiniteSet(Planned \ cells)
    BY <1>1, PlanIsFinite, FS_Subset
  <1>4. spared \subseteq Planned \ cells
    BY <1>1, <1>2, RunnerAssumption DEF Skips, CorrectionSkips
  <1>5. IsFiniteSet(ran) /\ Cardinality(ran) <= Cardinality(cells)
    <2>1. PICK f : f = [r \in ran |-> r.cell]
      OBVIOUS
    <2>2. f \in Injection(ran, cells)
      BY <1>1, <2>1 DEF Injection, IsInjective, Single, CellsIn
    <2> HIDE DEF ran
    <2>3. QED
      BY <1>3, <2>2, FS_Injection
  <1>6. Cardinality(spared) <= Cardinality(Planned \ cells) /\ IsFiniteSet(spared)
    BY <1>3, <1>4, FS_Subset
  <1>7. Cardinality(Planned \ cells) = Cardinality(Planned) - Cardinality(cells)
    <2>1. Planned \cap cells = cells
      BY <1>1
    <2>2. Cardinality(Planned \ cells) = Cardinality(Planned) - Cardinality(Planned \cap cells)
      BY <1>3, FS_Difference
    <2>3. Cardinality(Planned \cap cells) = Cardinality(cells)
      BY <2>1, Zenon
    <2>4. QED
      BY <2>2, <2>3
  <1> HIDE DEF ran
  <1>8. /\ Cardinality(ran) \in Nat /\ Cardinality(spared) \in Nat /\ Cardinality(cells) \in Nat
        /\ Cardinality(Planned) \in Nat /\ Cardinality(Planned \ cells) \in Nat
    BY <1>3, <1>5, <1>6, FS_CardinalityType
  <1>9. EfficiencyOf(results, spared).raises
          = (Cardinality(ran) + Cardinality(spared) > Cardinality(Planned))
    BY DEF EfficiencyOf, Efficiency, ran
  <1>10. ~(Cardinality(ran) + Cardinality(spared) > Cardinality(Planned))
    BY <1>5, <1>6, <1>7, <1>8
  <1>11. QED
    BY <1>2, <1>9, <1>10

(* The correction lacks no forced result: the ablation would be at the      *)
(* boundary for want of it, and the round would have run it.                *)
LEMMA CorrectionCompares ==
  ASSUME scenario \in Scenarios, IsCorrection, Kept, Traces, Recorded, OneLine, AblationsEarned,
         AtFrontier, CorrectionFrontier(job.results) = {},
         NEW c \in CellsIn(job.results) \cap CellsOf("ablation")
  PROVE  Partner(c) \in CellsIn(job.results)
  <1>1. PICK R, p, k, m : R = job.results /\ p = Partner(c) /\ k = c.of /\ m = c.repetition
    OBVIOUS
  <1> SUFFICES ASSUME p \notin CellsIn(R) PROVE FALSE
    BY <1>1
  <1>2. job.step = "trace" /\ job.trace = {} /\ FragmentsKnown /\ CapturesKnown
    BY DEF AtFrontier, Recorded
  <1>3. /\ \A r \in R : r \in fragments /\ r.cell \in CellsIn(captures) /\ Traced(r)
        /\ Single(R) /\ Firm(R)
    <2>1. \A r \in R : Sure(r)
      BY <1>1, <1>2 DEF Recorded, RecordedInJob, Running
    <2>2. \A r \in R : r \in fragments /\ r.cell \in CellsIn(captures)
      <3>1. \A r \in R : r \in fragments
        BY <2>1, Known DEF IsCorrection
      <3>2. QED
        BY <1>2, <3>1 DEF FragmentsKnown, CellsIn
    <2>3. \A r \in R : Traced(r)
      BY <1>1, <1>2 DEF Traces, IsCorrection
    <2>4. QED
      BY <2>1, <2>2, <2>3, SureResults
  <1>4. \A d \in CellsIn(R) : \E a \in captures : a.cell = d
    BY <1>3 DEF CellsIn
  <1>5. ~Sound(p)
    BY <1>1, <1>2 DEF Sound, Kept, KeptInTrace, Followed, CapturesKnown
  <1>6. Rounds \in Nat /\ m \in 1..Rounds
    BY <1>1, CausalAssumption, CorrectionCells
  <1>7. ASSUME NEW d \in Paired(R, k)
        PROVE  d.repetition \in 1..(m - 1) /\ d = Earlier(c, d.repetition)
    <2>1. d \in CellsOf("ablation") /\ d.of = c.of /\ d \in CellsIn(R) /\ Partner(d) \in CellsIn(R)
      BY <1>1, <1>7 DEF Paired, Ablations
    <2>2. /\ d = Earlier(c, d.repetition) /\ c = Earlier(d, m) /\ c = Earlier(c, m)
          /\ d.repetition \in 1..Rounds /\ d.policy = "ablation"
      BY <1>1, <2>1, CorrectionCells
    <2>3. d.repetition # m
      BY <1>1, <2>1, <2>2
    <2>4. ASSUME d.repetition > m PROVE FALSE
      <3>1. PICK a \in captures : a.cell = d
        BY <1>4, <2>1
      <3>2. m \in 1..(d.repetition - 1)
        BY <1>6, <2>2, <2>4
      <3>3. Undecided(c, p)
        BY <1>1, <2>2, <3>1, <3>2 DEF AblationsEarned, IsCorrection
      <3>4. QED
        BY <1>5, <3>3 DEF Undecided
    <2>5. QED
      BY <1>6, <2>2, <2>3, <2>4
  <1>8. ASSUME NEW d \in Paired(R, k)
        PROVE  /\ Compliant(R, d) /\ Compliant(R, Partner(d))
               /\ Unsettled(OutcomeIn(R, Partner(d)), OutcomeIn(R, d))
    <2>1. PICK q : q = Partner(d)
      OBVIOUS
    <2>2. PICK a \in captures : a.cell = c
      BY <1>1, <1>4
    <2>3. c.policy = "ablation"
      BY CorrectionCells
    <2>4. Undecided(d, q)
      BY <1>1, <1>7, <1>8, <2>1, <2>2, <2>3 DEF AblationsEarned, IsCorrection
    <2>5. PICK r \in R, s \in R : r.cell = d /\ s.cell = q
      BY <1>8, <2>1 DEF Paired, CellsIn
    <2>6. r.compliant /\ s.compliant
      BY <1>2, <1>3, <2>4, <2>5 DEF Undecided, Sound, FragmentsKnown
    <2>7. Unsettled(s.outcome, r.outcome)
      <3>1. PICK x, y \in DOMAIN log : /\ log[x].cell = q /\ log[y].cell = d
                                       /\ Unsettled(log[x].outcome, log[y].outcome)
        BY <2>4 DEF Undecided
      <3>2. PICK z, w \in DOMAIN log : /\ log[z].cell = q /\ log[z].outcome = s.outcome
                                       /\ log[w].cell = d /\ log[w].outcome = r.outcome
        BY <1>3, <2>5 DEF Traced
      <3>3. x = z /\ y = w
        BY <3>1, <3>2 DEF OneLine
      <3>4. QED
        BY <3>1, <3>2, <3>3
    <2>8. /\ ResultOf(R, d) = r /\ OutcomeIn(R, d) = r.outcome
          /\ ResultOf(R, q) = s /\ OutcomeIn(R, q) = s.outcome
      BY <1>3, <2>5, ResultAt
    <2>9. QED
      BY <2>1, <2>6, <2>7, <2>8 DEF Compliant
  <1>9. Cardinality(CompletePairs(R, k)) # Rounds
    <2>1. PICK C : C = Paired(R, k)
      OBVIOUS
    <2>2. C \subseteq CellsOf("ablation") /\ \A d, e \in C : d.of = e.of
      BY <2>1 DEF Paired, Ablations
    <2>3. CompletePairs(R, k) = {PairOf(R, d) : d \in C}
      BY <1>3, <2>1, CompleteOnes
    <2>4. Cardinality({PairOf(R, d) : d \in C}) = Cardinality(C) /\ IsFiniteSet(C)
      BY <2>2, PairsCount
    <2>5. PICK f : f = [d \in C |-> d.repetition]
      OBVIOUS
    <2>6. f \in Injection(C, 1..(m - 1))
      BY <1>7, <2>1, <2>5 DEF Injection, IsInjective
    <2>7. IsFiniteSet(1..(m - 1)) /\ Cardinality(1..(m - 1)) = m - 1
      BY <1>6, FS_Interval
    <2>8. Cardinality(C) <= m - 1
      BY <2>6, <2>7, FS_Injection
    <2>9. Cardinality(C) \in Nat
      BY <2>4, FS_CardinalityType
    <2>10. Cardinality(C) # Rounds
      BY <1>6, <2>8, <2>9
    <2>11. QED
      BY <2>3, <2>4, <2>10
  <1>10. StateOf(R, k) = "BOUNDARY_REQUIRES_NEXT_REPETITION"
    BY <1>3, <1>8, <1>9, BoundaryWhen
  <1>11. c.of \in AtBoundary(R)
    BY <1>1, <1>10, CorrectionCells DEF AtBoundary
  <1>12. CorrectionRound(R, m)[1] = {}
    BY <1>1, <1>6, CorrectedRounds
  <1>13. QED
    BY <1>1, <1>11, <1>12, RoundParts

(* The screening lacks no active result: it begins with them.               *)
LEMMA ScreeningCompares ==
  ASSUME Screening, Screens, AtFrontier, Frontier(job.results) = {},
         NEW c \in CellsIn(job.results) \cap CellsOf("ablation")
  PROVE  Partner(c) \in CellsIn(job.results)
  <1>1. PICK R, p : R = job.results /\ p = Partner(c)
    OBVIOUS
  <1>2. Grounded(R)
    BY <1>1 DEF AtFrontier, Screens
  <1>3. p \in CellsOf("active")
    BY <1>1, <1>2 DEF Grounded, Warranted, CellsIn, CellsOf
  <1>4. Unobtained(R, CellsOf("active")) = {}
    BY <1>1 DEF Frontier, Screening, ScreeningFrontier
  <1>5. QED
    BY <1>1, <1>3, <1>4 DEF Unobtained

(* A capability that stays at the boundary has had all of its rounds.      *)
LEMMA CorrectionConcludes ==
  ASSUME scenario \in Scenarios, IsCorrection, NEW results, Firm(results), CorrectionFrontier(results) = {},
         NEW k \in Capabilities
  PROVE  StateOf(results, k) # "BOUNDARY_REQUIRES_NEXT_REPETITION"
  <1> SUFFICES ASSUME StateOf(results, k) = "BOUNDARY_REQUIRES_NEXT_REPETITION" PROVE FALSE
    OBVIOUS
  <1>1. Cardinality(CompletePairs(results, k)) # Rounds
    BY BoundaryIs DEF StateOf
  <1>2. PICK c \in CellsOf("ablation") : c.of = k
    BY DEF Capabilities
  <1>3. PICK C : C = Ablations(k)
    OBVIOUS
  <1>4. C \subseteq CellsOf("ablation") /\ \A d \in C : d.of = k
    BY <1>3 DEF Ablations
  <1>5. Paired(results, k) = C
    <2>1. ASSUME NEW d \in C PROVE d \in CellsIn(results) /\ Partner(d) \in CellsIn(results)
      <3>1. d \in CellsOf("ablation") /\ d.of \in AtBoundary(results) /\ d.repetition \in 1..Rounds
        BY <1>4, CorrectionCells DEF AtBoundary
      <3>2. CorrectionRound(results, d.repetition)[1] = {} /\ CorrectionRound(results, d.repetition)[3] = {}
        BY <3>1, CorrectedRounds
      <3>3. QED
        BY <3>1, <3>2, RoundParts
    <2>2. QED
      BY <1>3, <2>1 DEF Paired
  <1>6. Cardinality(CompletePairs(results, k)) = Cardinality(C)
    <2>1. CompletePairs(results, k) = {PairOf(results, d) : d \in C}
      BY <1>5, CompleteOnes
    <2>2. Cardinality({PairOf(results, d) : d \in C}) = Cardinality(C)
      BY <1>4, PairsCount
    <2>3. QED
      BY <2>1, <2>2
  <1>7. Cardinality(C) = Rounds
    <2>1. PICK f : f = [n \in 1..Rounds |-> Earlier(c, n)]
      OBVIOUS
    <2>2. ASSUME NEW n \in 1..Rounds PROVE f[n] \in C /\ f[n].repetition = n
      BY <1>2, <1>3, <2>1, CorrectionCells DEF Ablations
    <2>3. ASSUME NEW d \in C PROVE \E n \in 1..Rounds : f[n] = d
      <3>1. d.repetition \in 1..Rounds /\ d = Earlier(c, d.repetition)
        BY <1>2, <1>4, CorrectionCells
      <3>2. QED
        BY <2>1, <3>1
    <2>4. f \in Bijection(1..Rounds, C)
      <3>1. f \in [1..Rounds -> C]
        BY <2>1, <2>2
      <3>2. \A n, o \in 1..Rounds : f[n] = f[o] => n = o
        BY <2>2
      <3>3. QED
        BY <2>3, <3>1, <3>2 DEF Bijection, Injection, Surjection, IsInjective
    <2>5. Rounds \in Nat \ {0}
      BY CausalAssumption
    <2>6. IsFiniteSet(1..Rounds) /\ Cardinality(1..Rounds) = Rounds
      BY <2>5, FS_Interval
    <2>7. Cardinality(C) = Cardinality(1..Rounds)
      BY <2>4, <2>6, FS_Bijection DEF ExistsBijection
    <2>8. QED
      BY <2>6, <2>7
  <1>8. QED
    BY <1>1, <1>6, <1>7

(* A confirmation that has run its plan lacks no repetition of a capability. *)
LEMMA ConfirmationConcludes ==
  ASSUME scenario \in Scenarios, scenario.runner = "confirmation", NEW results, Firm(results),
         ConfirmationFrontier(results) = {}, NEW k
  PROVE  ConfirmedAs(results, k) \notin {"BOUNDARY_REQUIRES_NEXT_REPETITION", "NOT_TESTED_INCOMPLETE"}
  <1>1. PICK cells, C : cells = ToSet(scenario.schedule) /\ C = Ablations(k)
    OBVIOUS
  <1>2. cells \subseteq CellsIn(results)
    BY <1>1, ConfirmedWhole
  <1>3. C \subseteq CellsOf("ablation") /\ (\A d \in C : d.of = k) /\ C \subseteq cells
        /\ \A d \in C : d.policy = "ablation"
    BY <1>1, PlannedCell DEF Ablations, CellsOf
  <1>4. \A d \in C : Partner(d) \in cells
    <2>1. ConfirmationPlan(cells)
      BY <1>1, RunnerAssumption
    <2>2. \A d \in C : ForcedFor(d) \in cells
      BY <1>3, <2>1 DEF ConfirmationPlan
    <2>3. QED
      BY <2>2, PartnerParts
  <1>5. Paired(results, k) = C
    BY <1>1, <1>2, <1>3, <1>4 DEF Paired
  <1>6. PICK pairs, n : pairs = CompletePairs(results, k) /\ n = Cardinality(C)
    OBVIOUS
  <1>7. Cardinality(pairs) = n /\ n \in Nat
    <2>1. pairs = {PairOf(results, d) : d \in C}
      BY <1>5, <1>6, CompleteOnes
    <2>2. Cardinality({PairOf(results, d) : d \in C}) = Cardinality(C) /\ IsFiniteSet(C)
      BY <1>3, PairsCount
    <2>3. QED
      BY <1>6, <2>1, <2>2, FS_CardinalityType
  <1>8. ConfirmedAs(results, k) = AggregateDecision(pairs, n)
    BY <1>1, <1>6 DEF ConfirmedAs
  <1>9. QED
    BY <1>7, <1>8 DEF AggregateDecision

(* So no runner leaves a capability at the boundary, or incomplete.         *)
LEMMA RunnerConcludes ==
  ASSUME scenario \in Scenarios, NEW results, Firm(results), Frontier(results) = {}, NEW k \in Capabilities
  PROVE  Conclusions(results)[k] \notin {"BOUNDARY_REQUIRES_NEXT_REPETITION", "NOT_TESTED_INCOMPLETE"}
  <1>1. Conclusions(results)[k] =
          CASE scenario.runner = "correction" -> StateOf(results, k)
            [] scenario.runner = "confirmation" -> ConfirmedAs(results, k)
            [] OTHER -> "none"
    BY DEF Conclusions
  <1>2. CASE scenario.runner = "correction"
    <2>1. CorrectionFrontier(results) = {}
      BY <1>2 DEF Frontier
    <2>2. StateOf(results, k) # "BOUNDARY_REQUIRES_NEXT_REPETITION"
      BY <1>2, <2>1, CorrectionConcludes DEF IsCorrection
    <2>3. StateOf(results, k) # "NOT_TESTED_INCOMPLETE"
      BY BoundaryIs DEF StateOf
    <2>4. QED
      BY <1>1, <1>2, <2>2, <2>3
  <1>3. CASE scenario.runner = "confirmation"
    <2>1. ConfirmationFrontier(results) = {}
      BY <1>3 DEF Frontier
    <2>2. QED
      BY <1>1, <1>3, <2>1, ConfirmationConcludes
  <1>4. CASE scenario.runner \notin {"correction", "confirmation"}
    BY <1>1, <1>4
  <1>5. QED
    BY <1>2, <1>3, <1>4

(* All of it together is inductive.                                         *)
Run == /\ IInv /\ InPlan /\ (Screening => Screens)
       /\ Recorded /\ Gathered /\ OneLine /\ AblationsEarned /\ Owed

LEMMA RunInit == Init => Run
  <1> SUFFICES ASSUME Init PROVE Run
    OBVIOUS
  <1>1. IInv /\ InPlan
    BY InitHolds DEF Init, InPlan, Idle
  <1>2. Screens
    BY DEF Init, Idle, Screens, Fragmented, ScreensBatch, CellsIn, NoReport
  <1>3. Recorded /\ AblationsEarned
    BY RecordedInit, EarnedInit
  <1>4. Gathered /\ OneLine /\ Owed
    BY DEF Init, Idle, Gathered, OneLine, Owed, Running, NoReport
  <1>5. QED
    BY <1>1, <1>2, <1>3, <1>4 DEF Run

LEMMA RunHolds == ASSUME Run, [Next]_vars PROVE Run'
  <1>1. IInv' /\ InPlan'
    BY ShapeHolds, KeptHolds, TracesHold, InPlanHolds DEF Run, IInv
  <1>2. Screening' => Screens'
    BY ScreensHold, SamePlan DEF Run, IInv, Screening
  <1>3. Steps /\ scenario' = scenario /\ Planned' = Planned
    BY StepForms, SamePlan DEF Run, IInv
  <1>4. Recorded'
    BY <1>3, RecordedHolds DEF Run, IInv
  <1>5. Gathered'
    BY <1>3, GatheredHolds DEF Run, IInv
  <1>6. OneLine'
    BY <1>3, OneLineHolds DEF Run, IInv, Traces
  <1>7. AblationsEarned'
    BY <1>3, EarnedHolds DEF Run, IInv
  <1>8. Owed'
    BY <1>3, OwedHolds DEF Run, IInv
  <1>9. QED
    BY <1>1, <1>2, <1>4, <1>5, <1>6, <1>7, <1>8 DEF Run

LEMMA RunInvariance == Spec => []Run
  <1>1. Run /\ [Next]_vars => Run'
    BY RunHolds
  <1>2. QED
    BY <1>1, RunInit, PTL DEF Spec

(***************************************************************************)
(* The properties.                                                         *)
(***************************************************************************)

(* The correction and the confirmation report no result without its trace, *)
(* whenever they were killed.                                              *)
THEOREM ReportsAreTraced == Spec => []ReportTraced
  <1>1. IInv => ReportTraced
    BY DEF IInv, Traces, Traced, ReportTraced
  <1>2. QED
    BY <1>1, Invariance, PTL

(* No agent is put to work again on a cell whose capture followed the plan. *)
THEOREM WorkIsDoneOnce == Spec => WorkDoneOnce
  <1>1. ASSUME IInv, [Next]_vars
        PROVE  [\A c \in captures : c.compliant => c \in captures']_captures
    <2>1. CASE RunAgent
      <3>1. PICK cell, capture :
              /\ cell \in job.queue
              /\ job.step = "batch" /\ job'.step = "batch" /\ capture.cell = cell
              /\ job'.queue = job.queue \ {cell} /\ job'.finalizing = job.finalizing \cup {capture}
              /\ job'.results = job.results /\ job'.done = job.done /\ job'.raised = job.raised
              /\ captures' = Replaced(captures, {capture})
              /\ UNCHANGED <<log, report>>
        BY <1>1, <2>1, RunForm DEF IInv
      <3>2. captures' = {c \in captures : c.cell # cell} \cup {capture}
        BY <3>1 DEF Replaced, CellsIn
      <3>3. \A c \in captures : c.compliant => c.cell # cell
        BY <1>1, <3>1 DEF IInv, Kept, KeptInBatch, Followed
      <3>4. QED
        BY <3>2, <3>3
    <2>2. CASE ~RunAgent
      <3>1. UNCHANGED captures
        BY <1>1, <2>2 DEF Next, vars, Start, Recover, Recovered, AppendTrace, Checkpoint, Reuse, StartBatch,
             ProviderFails, Finalize, FinalizeRaises, EndBatch, Close, Kill, Commit
      <3>2. QED
        BY <3>1
    <2>3. QED
      BY <2>1, <2>2
  <1>2. QED
    BY <1>1, Invariance, PTL DEF Spec, WorkDoneOnce

(* A screening that proceeds early would have proceeded however the         *)
(* repetitions it was spared had come out.  It holds because an ablation is *)
(* run only where the active cell passed, and what passed is not judged     *)
(* again, whatever was killed, raised or taken over: every pair to come can *)
(* only add to the effect.                                                  *)
THEOREM PositivesAreFinal == Spec => []PositiveIsFinal
  <1>1. Run => PositiveIsFinal
    <2> SUFFICES ASSUME Run, ScreenedWhole, Decided(report.results, "PROCEED_TO_B0B_EARLY"),
                        NEW pairs \in Completions(report.results)
                 PROVE  Effect(Completed(pairs, Rounds))
      BY DEF PositiveIsFinal
    <2>1. Screening /\ report # NoReport /\ CellsOf("active") \subseteq CellsIn(report.results)
      BY DEF ScreenedWhole, Screening
    <2>2. Screens /\ Grounded(report.results) /\ scenario \in Scenarios
      BY <2>1 DEF Run, Screens, IInv, Shaped
    <2>3. QED
      BY <2>1, <2>2, GroundedIsFinal
  <1>2. QED
    BY <1>1, RunInvariance, PTL

(* Whatever a runner reports, or goes on from, is what is kept of it: the   *)
(* fragment of a cell that an agent has been captured in, or the result of  *)
(* an earlier screen in a cell that was never run, one of each cell; and    *)
(* what was reported is never lost to the run that resumes it.              *)
THEOREM ResultsAreRecorded == Spec => []Recorded
  <1>1. Run => Recorded
    BY DEF Run
  <1>2. QED
    BY <1>1, RunInvariance, PTL

(* The correction spends no agent on a capability that is decided: each     *)
(* ablation that was run again follows rounds whose both cells are          *)
(* compliant and whose traces show neither a signal nor a gap, although     *)
(* captures are taken over and fragments judged again after a kill.         *)
THEOREM AblationsAreEarned == Spec => []AblationsEarned
  <1>1. Run => AblationsEarned
    BY DEF Run
  <1>2. QED
    BY <1>1, RunInvariance, PTL

(* A run that has gone through its plan has made good what failed on the    *)
(* way, has what each ablation is compared with, counts no call that its    *)
(* plan does not have, and leaves no capability at the boundary or          *)
(* incomplete: whatever was killed, refused, raised or taken over, and      *)
(* however many rounds, tasks and capabilities there are.                   *)
THEOREM ClosedRunsAreDecided == Spec => []ClosedIsDecided
  <1>1. Init => ClosedIsDecided
    BY DEF Init, ClosedIsDecided
  <1>2. Run /\ ClosedIsDecided /\ [Next]_vars => ClosedIsDecided'
    <2> SUFFICES ASSUME Run, ClosedIsDecided, [Next]_vars PROVE ClosedIsDecided'
      OBVIOUS
    <2>1. /\ scenario' = scenario /\ Capabilities' = Capabilities
          /\ CellsOf("ablation")' = CellsOf("ablation") /\ \A c : Partner(c)' = Partner(c)
      BY SamePlan, SamePlace
    <2>2. CASE report' = report
      BY <2>1, <2>2 DEF ClosedIsDecided, CellsIn, NoReport
    <2>3. CASE Checkpoint /\ report' # report
      <3>1. report'.closed = FALSE
        BY <2>3 DEF Checkpoint, ReportOf
      <3>2. QED
        BY <3>1 DEF ClosedIsDecided
    <2>4. CASE Close
      <3>1. PICK R, skips, conclusions :
              R = job.results /\ skips = Skips(R) /\ conclusions = Conclusions(R)
        OBVIOUS
      <3>2. /\ AtFrontier /\ Frontier(R) = {} /\ job.step = "trace" /\ scenario \in Scenarios
            /\ report' = ReportOf(R, TRUE, job.attempts)
        BY <2>4, <3>1 DEF Close, AtFrontier, Run, IInv, Shaped
      <3>3. /\ report'.results = R /\ report'.conclusions = conclusions
            /\ report'.complete = Complete(R, skips, job.attempts)
            /\ report'.efficiency = EfficiencyOf(R, skips)
        BY <3>1, <3>2 DEF ReportOf
      <3>4. Single(R) /\ Firm(R) /\ CellsIn(R) \subseteq Planned
        <4>1. \A r \in R : Sure(r)
          BY <3>1, <3>2 DEF Run, Recorded, RecordedInJob, Running
        <4>2. QED
          BY <3>1, <3>2, <4>1, SureResults DEF Run, InPlan
      <3>5. Complete(R, skips, job.attempts)
        <4>1. CellsIn(R) \cup skips = Planned
          BY <3>1, <3>2, <3>4, ClosedWhole
        <4>2. job.attempts \subseteq CellsIn(R)
          BY <3>1, <3>2, NothingOwed DEF Run
        <4>3. QED
          BY <4>1, <4>2 DEF Complete
      <3>6. ~EfficiencyOf(R, skips).raises
        BY <3>1, <3>2, <3>4, AddsUp
      <3>7. ASSUME scenario.runner # "confirmation", NEW c \in CellsIn(R) \cap CellsOf("ablation")
            PROVE  Partner(c) \in CellsIn(R)
        <4>1. CASE Screening
          BY <3>1, <3>2, <3>7, <4>1, ScreeningCompares DEF Run
        <4>2. CASE IsCorrection
          <5>1. CorrectionFrontier(job.results) = {}
            BY <3>1, <3>2, <4>2 DEF Frontier, IsCorrection
          <5>2. QED
            BY <3>1, <3>2, <3>7, <4>2, <5>1, CorrectionCompares DEF Run, IInv
        <4>3. QED
          BY <3>2, <3>7, <4>1, <4>2, RunnerAssumption DEF Screening, IsCorrection
      <3>8. \A k \in Capabilities :
              conclusions[k] \notin {"BOUNDARY_REQUIRES_NEXT_REPETITION", "NOT_TESTED_INCOMPLETE"}
        BY <3>1, <3>2, <3>4, RunnerConcludes
      <3>9. (CellsIn(report.results))' = CellsIn(R)
        BY <3>3 DEF CellsIn
      <3>10. QED
        BY <2>1, <3>3, <3>5, <3>6, <3>7, <3>8, <3>9 DEF ClosedIsDecided
    <2>5. CASE Commit
      BY <2>5 DEF Commit, ClosedIsDecided, NoReport
    <2>6. QED
      BY <2>2, <2>3, <2>4, <2>5 DEF Next, vars, Start, Recover, Recovered, AppendTrace, Reuse, StartBatch,
         RunAgent,
             ProviderFails, Finalize, FinalizeRaises, EndBatch, Kill
  <1>3. QED
    BY <1>1, <1>2, RunInvariance, PTL DEF Spec

=============================================================================
