---------------------------- MODULE MCAgentRunner ----------------------------
(* AgentRunner on five small plans.                                         *)
EXTENDS AgentRunner

Good == [outcome |-> "PASS", compliant |-> TRUE, used |-> {}]
Bad == [outcome |-> "FAIL", compliant |-> TRUE, used |-> {}]
Astray == [outcome |-> "FAIL", compliant |-> FALSE, used |-> {}]
Choosing == [outcome |-> "FAIL", compliant |-> TRUE, used |-> {"k", "other"}]

Entry == [expected |-> {"k", "l"}, optional |-> {"m"}]

PlanCell(policy, task, of, repetition) ==
  [policy |-> policy, task |-> task, of |-> of, repetition |-> repetition]

CellsFor(task, policy, of, repetitions) ==
  [n \in DOMAIN repetitions |-> PlanCell(policy, task, of, repetitions[n])]
Cells(policy, of, repetitions) == CellsFor("t", policy, of, repetitions)

Three == <<1, 2, 3>>

Screen(schedule, source) ==
  [runner |-> "screening", schedule |-> schedule, source |-> source, used |-> {"k"},
   entry |-> Entry, outputs |-> <<"x", "x", "y">>,
   behaviours |-> [p \in {"active", "ablation", "depth"} |-> {Good, Bad}]]

(* One capability that is used and one that is not, in a task that is not   *)
(* critical and in one that is and whose first active result is there.      *)
Ablating ==
  {Screen(CellsFor(task, "active", "", Three) \o CellsFor(task, "ablation", "k", Three)
            \o CellsFor(task, "ablation", "unused", <<1>>),
          IF task = "t" THEN {}
          ELSE {[cell |-> PlanCell("active", task, "", 1), outcome |-> "PASS"]}) :
     task \in {"t", "critical"}}

(* Three depths, the first two with the same output.                        *)
Deepening ==
  {Screen(Cells("active", "", <<1>>) \o Cells("depth", 1, Three) \o Cells("depth", 2, Three)
            \o Cells("depth", 3, Three), {})}

(* Two capabilities that share their forced cells.                          *)
Correcting ==
  {[runner |-> "correction", source |-> {}, used |-> {}, outputs |-> <<>>, entry |-> Entry,
    schedule |-> Cells("auto", "", <<1>>) \o Cells("forced", "", Three) \o Cells("off", "", <<1>>)
                   \o Cells("ablation", "k", Three) \o Cells("ablation", "l", Three),
    behaviours |-> [p \in {"auto", "forced", "off", "ablation"} |->
                      CASE p = "auto" -> {Choosing}
                        [] p = "forced" -> {Good, Bad, Astray}
                        [] p = "off" -> {Bad}
                        [] p = "ablation" -> {Good, Astray}]]}

Confirming ==
  {[runner |-> "confirmation", source |-> {}, used |-> {}, outputs |-> <<>>, entry |-> Entry,
    schedule |-> Cells("forced", "", <<1, 2>>) \o Cells("ablation", "k", <<1, 2>>),
    behaviours |-> [p \in {"forced", "ablation"} |-> {Good, Bad}]]}

AllScenarios == Ablating \cup Deepening \cup Correcting \cup Confirming
=============================================================================
